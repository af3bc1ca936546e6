------------------------------ MODULE ContextGraph ------------------------------
(***************************************************************************)
(* core/decoder/context_graph.cc: the automaton that rewards hot words.    *)
(* A state of the determinised graph is the part of a hot word it has      *)
(* read; the start state is <<>>.  Units are unit ids other than 0.        *)
(***************************************************************************)
EXTENDS Integers, Sequences, SequencesExt

CONSTANTS
    Units,                       \* the ids of unit_table, blank excepted
    context_score,               \* reward of the first unit of a hot word
    incremental_context_score    \* what each further unit adds to its reward

ASSUME ScoresAssumption == context_score \in Nat /\ incremental_context_score \in Nat

Start == <<>>

\* The weight of the arc that reads the i-th unit of a hot word.
ArcWeight(i) == (i - 1) * incremental_context_score + context_score

\* Hot words with a unit that the table does not know are left out.
Known(contexts) == {c \in contexts : ToSet(c) \subseteq Units}

NumStates(words) == {Start} \cup UNION {Prefixes(c) : c \in words}

\* The reward collected on the way from the start to state q, of q's n units.
TotalOf[n \in Nat] == IF n = 0 THEN 0 ELSE TotalOf[n - 1] + ArcWeight(n)

TotalWeight(q) == TotalOf[Len(q)]

\* Breadth first: the failure state of q is looked for along the failure
\* states of its parent.
FailStates(states) ==
    LET fail[q \in states] ==
            LET backtrack[f \in {s \in states : Len(s) < Len(q)}] ==
                    IF Append(f, Last(q)) \in states THEN Append(f, Last(q))
                    ELSE IF f = Start THEN Start
                    ELSE backtrack[fail[f]]
            IN  IF Len(q) <= 1 THEN Start ELSE backtrack[fail[Front(q)]]
    IN  fail

\* Mutant: giving up a match takes all of its reward, also the part that the
\* shorter match keeps.
Mut_AllTaken(words) ==
    LET states == NumStates(words)
        fail == FailStates(states)
    IN  [q \in states \ {Start} |->
            [to |-> fail[q], weight |-> IF q \in words THEN 0 ELSE -TotalWeight(q)]]

\* Mutant: every whole hot word goes back to the start.
Mut_NoOverlap(words) ==
    LET states == NumStates(words)
        fail == FailStates(states)
    IN  [q \in states \ ({Start} \cup words) |->
            [to |-> fail[q], weight |-> TotalWeight(fail[q]) - TotalWeight(q)]]

\* ConvertToAC adds fallback arcs in the order of the state numbers, which
\* Determinize gives breadth first: the arc of a shorter state is already
\* counted by NumArcs.  A state that falls back to a hot word without arcs has
\* none, nor has a hot word that falls back to the start.
ConvertToAC(words) ==
    LET states == NumStates(words)
        fail == FailStates(states)
        HasChild(q) == \E u \in Units : Append(q, u) \in states
        has[q \in states] ==
            /\ q # Start
            /\ ~(fail[q] \in words /\ ~HasChild(fail[q]) /\ ~has[fail[q]])
            /\ ~(q \in words /\ fail[q] = Start)
    IN  [q \in {r \in states : has[r]} |->
            [to |-> fail[q],
             weight |-> IF q \in words THEN 0 ELSE TotalWeight(fail[q]) - TotalWeight(q)]]

\* The graph: its states, the final ones (whole hot words), its fallback arcs.
BuildContextGraph(contexts) ==
    [states |-> NumStates(Known(contexts)),
     finals |-> Known(contexts),
     fallback |-> ConvertToAC(Known(contexts))]

\* A state without arcs hands over to the start state.
Enter(graph, q) ==
    IF q \in DOMAIN graph.fallback \/ \E u \in Units : Append(q, u) \in graph.states
    THEN q ELSE Start

\* One unit read in state q: the next state and what the reward changes by.
GetNextState(graph, q, unit_id) ==
    LET next[p \in graph.states] ==
            IF Append(p, unit_id) \in graph.states
            THEN [state |-> Enter(graph, Append(p, unit_id)), score |-> ArcWeight(Len(p) + 1)]
            ELSE IF p \in DOMAIN graph.fallback
            THEN LET r == next[graph.fallback[p].to]
                 IN  [r EXCEPT !.score = @ + graph.fallback[p].weight]
            ELSE [state |-> Start, score |-> 0]
    IN  next[q]

\* The same with unit id -1, which OpenFst's matcher takes for the label of the
\* fallback arc: that arc alone is followed.
GetNextStateAtEnd(graph, q) ==
    IF q \in DOMAIN graph.fallback
    THEN [state |-> Enter(graph, graph.fallback[q].to), score |-> graph.fallback[q].weight]
    ELSE [state |-> Start, score |-> 0]
================================================================================
