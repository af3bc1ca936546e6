-------------------------------- MODULE MCGraph --------------------------------
(***************************************************************************)
(* The graph tools for TLC, side by side; which one runs is chosen at the  *)
(* start, the variables of the others stay at a first value.               *)
(***************************************************************************)
EXTENDS ArpaLmCompiler, TableMatcher, FstUtils, LabelChecker

VARIABLE tool

Ngram(words, cost, backoff) == [words |-> words, cost |-> cost, backoff |-> backoff]

\* Words 1 and 2, <s> 3, </s> 4, #0 5, an unknown word 6.
MCUnigrams ==
    {<<Ngram(<<4>>, 7, 0), Ngram(<<3>>, 99, 3), Ngram(<<1>>, 11, 2), Ngram(<<2>>, 13, 5)>>,
     <<Ngram(<<1>>, 11, 2), Ngram(<<6>>, 1, 1), Ngram(<<2>>, 13, 0), Ngram(<<4>>, 7, 0)>>,
     <<Ngram(<<3>>, 99, 0), Ngram(<<1>>, 11, 0), Ngram(<<4>>, 7, 0)>>}

MCBigrams == {Ngram(<<3, 1>>, 17, 1), Ngram(<<1, 2>>, 19, 4), Ngram(<<2, 4>>, 23, 0), Ngram(<<1, 1>>, 29, 0)}
MCTrigrams == {Ngram(<<3, 1, 2>>, 31, 0), Ngram(<<1, 2, 1>>, 37, 0), Ngram(<<1, 2, 4>>, 41, 0)}
MCInvalid == {<<>>, <<Ngram(<<4, 1>>, 1, 1), Ngram(<<1, 3>>, 1, 1), Ngram(<<2, 6>>, 1, 1)>>}

MCFourgrams == {Ngram(<<3, 1, 2, 1>>, 43, 0), Ngram(<<1, 2, 1, 1>>, 47, 0)}

Orders(lines) == UNION {{SetToSeq(s), Reverse(SetToSeq(s))} : s \in SUBSET lines}

MCArpaFiles ==
    {<<u>> : u \in MCUnigrams}
    \cup {<<u, i \o b>> : u \in MCUnigrams, i \in MCInvalid, b \in Orders(MCBigrams)}
    \cup {<<u, b, t>> : u \in MCUnigrams, b \in Orders(MCBigrams), t \in Orders(MCTrigrams)}
    \cup {<<u, SetToSeq(MCBigrams), t, f>> :
              u \in MCUnigrams, t \in Orders(MCTrigrams), f \in Orders(MCFourgrams)}

\* Every sorted sequence of at most four labels, beside a state with an epsilon.
Matching(labelled) ==
    [start |-> 1, final |-> <<0, 0>>,
     arcs |-> <<[i \in DOMAIN labelled |-> Arc(labelled[i], 0, i, 1)],
                <<Arc(0, 0, 9, 1), Arc(1, 0, 8, 2), Arc(1, 0, 7, 2)>>>>]

MCMatched ==
    {Matching(l) : l \in {m \in SeqOf(0 .. 3, 4) : \A i \in 1 .. Len(m) - 1 : m[i] <= m[i + 1]}}

\* Four states, the first of these arcs and up to six of the others: epsilons with and
\* without an output, outputs that come late, two ways to the same place, a loop.
MCArcs ==
    <<<<1, Arc(1, 1, 1, 2)>>, <<1, Arc(1, 1, 2, 3)>>, <<1, Arc(0, 0, 3, 2)>>, <<1, Arc(0, 0, 1, 3)>>,
      <<2, Arc(2, 2, 1, 3)>>, <<2, Arc(0, 1, 1, 3)>>, <<2, Arc(2, 0, 0, 2)>>, <<2, Arc(0, 0, 1, 4)>>,
      <<3, Arc(0, 0, 0, 2)>>, <<3, Arc(2, 2, 1, 1)>>>>

Using(chosen, final) ==
    LET from(s) == SelectSeq([k \in 1 .. Len(MCArcs) |-> k], LAMBDA k : k \in chosen /\ MCArcs[k][1] = s)
    IN  [start |-> 1, final |-> final,
         arcs |-> [s \in 1 .. 4 |-> [i \in DOMAIN from(s) |-> MCArcs[from(s)[i]][2]]]]

MCInputs ==
    {Using({1} \cup chosen, final) :
         chosen \in {c \in SUBSET (DOMAIN MCArcs \ {1}) : Cardinality(c) <= 6},
         final \in {<<Zero, Zero, 0, Zero>>, <<Zero, 2, Zero, 0>>}}

\* Those with two final states and no state that is on no path.
MCTrim == {fst \in MCInputs : /\ IsFinal(fst, 2) /\ Connect(fst) = fst
                              /\ \A s \in States(fst) : fst.arcs[s] # <<>> \/ IsFinal(fst, s)}

MCTexts == {<<>>, <<1>>, <<1, 2>>, <<1, 0, 1>>}

FirstFile == <<CHOOSE u \in MCUnigrams : TRUE>>
FirstMatched == Matching(<<>>)
FirstInput == Using({1}, <<Zero, Zero, 0, Zero>>)
FirstOpts == [min_table_size |-> 1, ratio |-> 1]

MCInit ==
    /\ tool \in {"arpa2fst", "fsttablecompose", "fstdeterminizestar", "SafeDeterminizeWrapper", "label_checker"}
    /\ tool # "arpa2fst" => sections = FirstFile /\ sub_eps = 0
    /\ ArpaInit
    /\ tool # "fsttablecompose" => ifst = FirstMatched /\ tableOpts = FirstOpts
    /\ MatcherInit
    /\ IF tool = "SafeDeterminizeWrapper" THEN SafeInit
       ELSE /\ given = FirstInput
            /\ tool # "fstdeterminizestar" => fstIn = FirstInput /\ allow_partial = FALSE
            /\ DeterminizeInit
    /\ tool # "label_checker" => labels = <<>>
    /\ LabelInit

Ended ==
    CASE tool = "arpa2fst" -> complete
      [] tool = "fsttablecompose" -> matcher.calls = MaxCalls /\ ~matcher.finding
      [] tool \in {"fstdeterminizestar", "SafeDeterminizeWrapper"} -> determinized \/ Len(subsets) > StateLimit
      [] tool = "label_checker" -> TRUE

all_vars == <<arpa_vars, matcher_vars, utils_vars, label_vars>>

MCNext ==
    /\ UNCHANGED tool
    /\ \/ tool = "arpa2fst" /\ ArpaNext /\ UNCHANGED <<matcher_vars, utils_vars, label_vars>>
       \/ tool = "fsttablecompose" /\ MatcherNext /\ UNCHANGED <<arpa_vars, utils_vars, label_vars>>
       \/ tool = "fstdeterminizestar" /\ DeterminizeNext /\ UNCHANGED <<given, arpa_vars, matcher_vars, label_vars>>
       \/ tool = "SafeDeterminizeWrapper" /\ SafeNext /\ UNCHANGED <<arpa_vars, matcher_vars, label_vars>>
       \/ tool = "label_checker" /\ LabelNext /\ UNCHANGED <<arpa_vars, matcher_vars, utils_vars>>
       \/ Ended /\ UNCHANGED all_vars

MCSpec == MCInit /\ [][MCNext]_<<tool, all_vars>>
--------------------------------------------------------------------------------
\* What the tools make of a graph reads as the graph did: an ARPA model as a
\* transducer, a determinized one, one without some epsilons or with loops for
\* disambiguation symbols; and a table matcher finds what a sorted one finds.
GraphsKeepTheirMeaning ==
    /\ LanguageModelIsArpa
    /\ TableFindsAll
    /\ SameReadings
    /\ tool = "SafeDeterminizeWrapper" => SafeDeterminization
    /\ tool = "SafeDeterminizeWrapper" /\ determinized =>
           /\ UtilsKeepMeaning(given) /\ WalksAlign(given, 4)
           /\ LoopIsClosure(Acceptor(given), MakeLinearAcceptorWithAlternatives(<<<<1, 2>>>>))
    /\ determinized => RemovalKeepsReadings(fstIn) /\ LoopsPassDisambiguation(fstIn, 8, 9)
================================================================================
