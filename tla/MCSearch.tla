-------------------------------- MODULE MCSearch --------------------------------
(***************************************************************************)
(* The two searchers for TLC.  The constructor of AsrDecoder takes one or  *)
(* the other: CtcWfstBeamSearch when a decoding graph is given.  Two       *)
(* units, weights that make every order of blank and units occur, and hot  *)
(* words that overlap, are prefixes of each other, or have unknown units.  *)
(***************************************************************************)
EXTENDS CtcPrefixBeamSearch, CtcWfstBeamSearch

MCUnits == {1, 2}

Frame(b, x, y) == [i \in 0 .. 2 |-> IF i = 0 THEN b ELSE IF i = 1 THEN x ELSE y]

MCLogProbs == {Frame(5, 8, 7), Frame(8, 7, 5), Frame(1, 3, 2)}

MCBeamSizes ==
    {[first_beam_size |-> 3, second_beam_size |-> 40],
     [first_beam_size |-> 3, second_beam_size |-> 3],
     [first_beam_size |-> 2, second_beam_size |-> 2]}

MCContextSets ==
    {{<<1, 1, 2>>}, {<<1, 2>>, <<1, 2, 1>>}, {<<1, 2>>, <<2, 1, 1>>}, {<<2>>, <<1, 2, 3>>},
     {<<1>>, <<1, 1>>, <<2, 1>>}}

MCLoglikes == {Frame(0, -9, -9), Frame(-3, -1, -2), Frame(-2, -4, -1), Frame(-1, -2, -2)}

MCSurelyBlank == 0

Arc(from, ilabel, olabel, weight, to) ==
    [from |-> from, to |-> to, ilabel |-> ilabel, olabel |-> olabel, weight |-> weight]

\* Every unit a word, with a language model's costs; a unit may follow itself.
UnitGraph ==
    [start |-> 0, final |-> 0 :> 0,
     arcs |-> <<Arc(0, 1, 0, 0, 0), Arc(0, 2, 1, 1, 1), Arc(0, 3, 2, 0, 2),
                Arc(1, 0, 0, 0, 0), Arc(1, 2, 0, 0, 1),
                Arc(2, 0, 0, 2, 0), Arc(2, 3, 0, 0, 2), Arc(2, 2, 1, 1, 1)>>]

\* Words of units 1 2, spelled alike, and a word 2; parallel epsilon paths.
WordGraph ==
    [start |-> 0, final |-> (0 :> 1) @@ (4 :> 0),
     arcs |-> <<Arc(0, 1, 0, 0, 0), Arc(0, 2, 1, 1, 1), Arc(0, 2, 2, 0, 1), Arc(0, 3, 3, 2, 2),
                Arc(1, 1, 0, 0, 3), Arc(1, 2, 0, 0, 1), Arc(1, 3, 0, 0, 2),
                Arc(3, 1, 0, 0, 3), Arc(3, 3, 0, 0, 2),
                Arc(2, 0, 0, 3, 0), Arc(2, 0, 0, 1, 4), Arc(2, 3, 0, 0, 2),
                Arc(4, 0, 0, 1, 0), Arc(4, 1, 0, 0, 4)>>]

MCDecodingGraphs == {UnitGraph, WordGraph}

Wide == [beam |-> Infinity, max_active |-> 100, min_active |-> 0, lattice_beam |-> 3,
         prune_interval |-> 1, beam_delta |-> 1, length_penalty |-> 0, nbest |-> 1,
         hot_words |-> NoHotWords, short_of_memory |-> FALSE, max_frames |-> 5]

Narrow == [Wide EXCEPT !.beam = 3, !.lattice_beam = 10, !.prune_interval = 2]

MCDecoderConfigs ==
    {Wide,
     Narrow,
     [Wide EXCEPT !.max_active = 2, !.min_active = 1, !.beam = 4, !.length_penalty = 1],
     [Narrow EXCEPT !.nbest = 3, !.max_frames = 3],
     [Narrow EXCEPT !.nbest = 2, !.max_frames = 2, !.short_of_memory = TRUE],
     [Wide EXCEPT !.hot_words = BuildContextGraph({<<1, 2>>}), !.nbest = 2, !.max_frames = 3]}

VARIABLE with_fst   \* a decoding graph is given

MCInit ==
    /\ with_fst \in BOOLEAN
    /\ CtcInit
    /\ WfstInit
    /\ with_fst => context_graph = NoGraph /\ opts.second_beam_size = 2
    /\ ~with_fst => fst = UnitGraph /\ config = Wide

MCNext ==
    /\ UNCHANGED with_fst
    /\ \/ ~with_fst /\ CtcNext /\ UNCHANGED wfst_vars
       \/ with_fst /\ WfstNext /\ UNCHANGED ctc_vars

MCSpec == MCInit /\ [][MCNext]_<<ctc_vars, wfst_vars, with_fst>>
================================================================================
