---------------------------- MODULE DeterminizeStar ----------------------------
(***************************************************************************)
(* core/kaldi/fstext/determinize-star-inl.h with its caller                *)
(* fstdeterminizestar: epsilon removal and determinization in one.  A      *)
(* state of the result is a subset of the input's states, each with a      *)
(* string still to be written and a weight still to be paid.  Subsets wait *)
(* in a queue; one is taken at a time.  The semiring is the tropical one,  *)
(* a string of the repository is a sequence.  A KALDI_ERR is logged and    *)
(* the program goes on.                                                    *)
(***************************************************************************)
EXTENDS FstTools

CONSTANTS
    Inputs,               \* the transducers given to the program
    MaxStates,            \* max_states with allow_partial
    StateLimit            \* bound: states after which no more are processed

VARIABLES
    fstIn,                \* ifst_, its arcs sorted by input label
    allow_partial,
    subsets,              \* hash_: the subset of each output state
    queue,                \* Q_
    output_arcs,          \* output_arcs_
    functional,           \* no error was logged
    determinized,
    is_partial,
    fstOut                \* what Output writes

determinize_vars ==
    <<fstIn, allow_partial, subsets, queue, output_arcs, functional, determinized, is_partial, fstOut>>

Labelled(fst, state) == SelectSeq(fst.arcs[state], LAMBDA arc : arc.ilabel # 0)
EpsilonArcs(state) == SelectSeq(fstIn.arcs[state], LAMBDA arc : arc.ilabel = 0)
Written(string, arc) == IF arc.olabel = 0 THEN string ELSE Append(string, arc.olabel)
Lesser(v, w) == MinOf({v, w})

\* ArcSort by the input label.
Sorted(fst) ==
    [fst EXCEPT !.arcs = [s \in DOMAIN @ |-> SortSeq(@[s], LAMBDA a, b : a.ilabel < b.ilabel)]]

SortedInputs == {Sorted(fst) : fst \in Inputs}

\* The subset of the start alone is the first state.
InitialSubset ==
    /\ subsets = <<fstIn.start :> [string |-> <<>>, weight |-> 0]>>
    /\ queue = <<1>>
    /\ output_arcs = <<<<>>>>
    /\ functional = TRUE /\ determinized = FALSE /\ is_partial = FALSE
    /\ fstOut = EmptyFst

DeterminizeInit ==
    /\ fstIn \in SortedInputs
    /\ allow_partial \in BOOLEAN
    /\ InitialSubset
--------------------------------------------------------------------------------
\* The epsilon closure under way: what is known of each state, with the weight
\* not yet passed on, and the states in the queue.
AddOneElement(c, state, string, weight) ==
    LET i == c.info[state]
        unprocessed == Lesser(i.unprocessed, weight)
        grows == ~i.in_queue /\ Lesser(i.weight, unprocessed) # i.weight
    IN  IF state \notin DOMAIN c.info
        THEN [c EXCEPT
                !.info = @ @@ (state :> [string |-> string, weight |-> Zero,
                                         unprocessed |-> weight, in_queue |-> TRUE]),
                !.queue = Append(@, state)]
        ELSE [c EXCEPT
                !.info[state] = [i EXCEPT !.unprocessed = unprocessed, !.in_queue = @ \/ grows],
                !.queue = IF grows THEN Append(@, state) ELSE @,
                !.functional = @ /\ i.string = string]

ExpandOneElement(c, state, string, weight) ==
    FoldLeft(LAMBDA d, arc : AddOneElement(d, arc.nextstate, Written(string, arc), weight + arc.weight),
             c, EpsilonArcs(state))

\* Mutant: a better weight that comes late is kept, not passed on.
Mut_PassesOnOnce(c) ==
    LET state == Head(c.queue)
        i == c.info[state]
        taken == [c EXCEPT !.queue = Tail(@),
                           !.info[state].weight = Lesser(i.weight, i.unprocessed),
                           !.info[state].unprocessed = Zero,
                           !.info[state].in_queue = FALSE]
    IN  IF i.weight < Zero THEN taken ELSE ExpandOneElement(taken, state, i.string, i.unprocessed)

ProcessQueued(c) ==
    LET state == Head(c.queue)
        i == c.info[state]
        taken == [c EXCEPT !.queue = Tail(@),
                           !.info[state].weight = Lesser(i.weight, i.unprocessed),
                           !.info[state].unprocessed = Zero,
                           !.info[state].in_queue = FALSE]
    IN  ExpandOneElement(taken, state, i.string, i.unprocessed)

RECURSIVE Drain(_)
Drain(c) == IF c.queue = <<>> THEN c ELSE Drain(ProcessQueued(c))

\* A subset without epsilon arcs is its own closure.
GetEpsilonClosure(subset) ==
    LET states == SetToSortSeq(DOMAIN subset, <)
        given == [info |-> [s \in DOMAIN subset |->
                                [string |-> subset[s].string, weight |-> Zero,
                                 unprocessed |-> subset[s].weight, in_queue |-> FALSE]],
                  queue |-> <<>>, functional |-> TRUE]
        done == Drain(FoldLeft(LAMBDA c, s : ExpandOneElement(c, s, subset[s].string, subset[s].weight),
                               given, states))
    IN  [subset |-> [s \in DOMAIN done.info |->
                        [string |-> done.info[s].string,
                         weight |-> Lesser(done.info[s].weight, done.info[s].unprocessed)]],
         functional |-> done.functional]

\* The final weight of an output state is an arc that leads to no state.
ProcessFinal(closed) ==
    LET ends == SetToSortSeq({s \in DOMAIN closed : IsFinal(fstIn, s)}, <)
    IN  [arcs |-> IF ends = <<>> THEN <<>>
                  ELSE <<[ilabel |-> 0, ostring |-> closed[ends[1]].string, nextstate |-> kNoStateId,
                          weight |-> MinOf({closed[s].weight + fstIn.final[s] : s \in Range(ends)})]>>,
         functional |-> \A s \in Range(ends) : closed[s].string = closed[ends[1]].string]

\* The elements that one label leads to, those of a state merged.
Merged(elements) ==
    [subset |-> [s \in {e.state : e \in elements} |->
                    LET same == {e \in elements : e.state = s}
                    IN  [string |-> (CHOOSE e \in same : TRUE).string,
                         weight |-> MinOf({e.weight : e \in same})]],
     functional |-> \A e, g \in elements : e.state = g.state => e.string = g.string]

\* Mutant: the weight that is common stays on the elements too.
Mut_PaysTwice(subset) ==
    LET prefix == LongestCommonPrefix({subset[s].string : s \in DOMAIN subset})
    IN  [ostring |-> prefix, weight |-> MinOf({subset[s].weight : s \in DOMAIN subset}),
         subset |-> [s \in DOMAIN subset |->
            [subset[s] EXCEPT !.string = SubSeq(@, Len(prefix) + 1, Len(@))]]]

\* What all elements write and pay goes on the arc.
Normalized(subset) ==
    LET prefix == LongestCommonPrefix({subset[s].string : s \in DOMAIN subset})
        weight == MinOf({subset[s].weight : s \in DOMAIN subset})
    IN  [ostring |-> prefix, weight |-> weight,
         subset |-> [s \in DOMAIN subset |->
            [string |-> SubSeq(subset[s].string, Len(prefix) + 1, Len(subset[s].string)),
             weight |-> subset[s].weight - weight]]]

\* SubsetToStateId: depth first, or breadth first for a partial result.
SubsetToStateId(d, subset) ==
    IF subset \in Range(d.subsets) THEN d
    ELSE [d EXCEPT !.subsets = Append(@, subset),
                   !.output_arcs = Append(@, <<>>),
                   !.queue = IF allow_partial THEN Append(@, Len(d.subsets) + 1)
                             ELSE <<Len(d.subsets) + 1>> \o @]

ProcessTransition(d, state, ilabel, elements) ==
    LET merged == Merged(elements)
        n == Normalized(merged.subset)
        added == SubsetToStateId(d, n.subset)
    IN  [added EXCEPT
            !.functional = @ /\ merged.functional,
            !.output_arcs[state] = Append(@,
                [ilabel |-> ilabel, ostring |-> n.ostring, weight |-> n.weight,
                 nextstate |-> CHOOSE s \in DOMAIN added.subsets : added.subsets[s] = n.subset])]

Elements(closed, ilabel) ==
    UNION {{[state |-> arc.nextstate, string |-> Written(closed[s].string, arc),
             weight |-> closed[s].weight + arc.weight] :
                arc \in {a \in Range(fstIn.arcs[s]) : a.ilabel = ilabel}} : s \in DOMAIN closed}

ProcessTransitions(d, state, closed) ==
    LET labels == {arc.ilabel : arc \in UNION {Range(Labelled(fstIn, s)) : s \in DOMAIN closed}}
    IN  FoldLeft(LAMBDA e, ilabel : ProcessTransition(e, state, ilabel, Elements(closed, ilabel)),
                 d, SetToSortSeq(labels, <))

\* One round of Determinize.
ProcessSubset ==
    LET state == Head(queue)
        closure == GetEpsilonClosure(subsets[state])
        final == ProcessFinal(closure.subset)
        d == ProcessTransitions(
                [subsets |-> subsets, queue |-> Tail(queue),
                 output_arcs |-> [output_arcs EXCEPT ![state] = final.arcs],
                 functional |-> functional /\ closure.functional /\ final.functional],
                state, closure.subset)
    IN  /\ ~determinized /\ ~is_partial /\ queue # <<>> /\ Len(subsets) <= StateLimit
        /\ subsets' = d.subsets /\ queue' = d.queue /\ output_arcs' = d.output_arcs
        /\ functional' = d.functional
        /\ is_partial' = (allow_partial /\ Len(d.output_arcs) > MaxStates)
        /\ UNCHANGED <<fstIn, allow_partial, determinized, fstOut>>
--------------------------------------------------------------------------------
\* A string becomes a chain of arcs; the first one has the label and the weight.
Chain(fst, state, arc) ==
    LET string == arc.ostring
        n == NumStates(fst)
        \* an end has as many new states as labels, an arc one less
        fresh == IF arc.nextstate = kNoStateId THEN Len(string)
                 ELSE IF string = <<>> THEN 0 ELSE Len(string) - 1
        at(i) == IF i = 0 THEN state ELSE n + i
        link(i, next) == Arc(IF i = 1 THEN arc.ilabel ELSE 0, string[i], IF i = 1 THEN arc.weight ELSE 0, next)
        chained == FoldLeft(LAMBDA f, i : AddArc(AddState(f), at(i - 1), link(i, n + i)),
                            fst, [i \in 1 .. fresh |-> i])
    IN  IF arc.nextstate = kNoStateId
        THEN SetFinal(chained, at(fresh), IF string = <<>> THEN arc.weight ELSE 0)
        ELSE AddArc(chained, at(fresh),
                    IF string = <<>> THEN Arc(arc.ilabel, 0, arc.weight, arc.nextstate)
                    ELSE link(fresh + 1, arc.nextstate))

Output ==
    /\ ~determinized /\ (queue = <<>> \/ is_partial)
    /\ LET states == [s \in DOMAIN output_arcs |-> s]
           basic == [start |-> 1, final |-> [s \in DOMAIN output_arcs |-> Zero],
                     arcs |-> [s \in DOMAIN output_arcs |-> <<>>]]
       IN  fstOut' = FoldLeft(LAMBDA f, s : FoldLeft(LAMBDA g, arc : Chain(g, s, arc), f, output_arcs[s]),
                              basic, states)
    /\ determinized' = TRUE
    /\ UNCHANGED <<fstIn, allow_partial, subsets, queue, output_arcs, functional, is_partial>>

DeterminizeNext == ProcessSubset \/ Output
--------------------------------------------------------------------------------
Deterministic(fst) ==
    \A s \in States(fst) : \A j, k \in DOMAIN fst.arcs[s] :
        j # k => fst.arcs[s][j].ilabel # fst.arcs[s][k].ilabel

\* When no error was logged: what was written for an input, and at what cost, is
\* written for it again, by a transducer with one way to read it.  A partial
\* result has no other readings.
SameReadings ==
    determinized /\ functional =>
        LET before == Readings(fstIn, 3)
            after == Readings(fstOut, 3)
        IN  /\ Deterministic([fstOut EXCEPT !.arcs = [s \in DOMAIN @ |-> Labelled(fstOut, s)]])
            /\ DOMAIN after \subseteq DOMAIN before
            /\ \A r \in DOMAIN after : after[r] = before[r]
            /\ ~is_partial => after = before
================================================================================
