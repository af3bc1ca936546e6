------------------------------ MODULE TableMatcher ------------------------------
(***************************************************************************)
(* core/kaldi/fstext/table-matcher.h: the matcher of fsttablecompose.  For *)
(* a state with enough arcs it keeps a table from labels to the first arc  *)
(* of each; for the others it asks OpenFst's SortedMatcher.  The table of  *)
(* a state stays when another state is set; calls come in any order, as    *)
(* the composition needs them.                                             *)
(***************************************************************************)
EXTENDS FstTools

CONSTANTS
    Matched,              \* transducers whose arcs are sorted by the label that is matched
    MinTableSizes,        \* min_table_size (4 in the code)
    TableRatios,          \* labels a table may have for each arc: 1 / table_ratio (4 in the code)
    MaxCalls              \* bound: SetState and Find of one object

VARIABLES
    ifst,                 \* the transducer, matched on the input side
    tableOpts,            \* TableMatcherOptions
    tables,               \* state -> label -> first position; "empty" and unset have no entry
    matcher               \* the state set, the iterator, the label and the loop; for the
                          \* property what was asked and found

matcher_vars == <<ifst, tableOpts, tables, matcher>>

kNoLabel == -1
Loop == Arc(kNoLabel, 0, 0, kNoStateId)
Labels == -1 .. 4

MatcherInit ==
    /\ ifst \in Matched
    /\ tableOpts \in [min_table_size : MinTableSizes, ratio : TableRatios]
    /\ tables = <<>>
    /\ matcher = [state |-> kNoStateId, pos |-> 0, match_label |-> 0, current_loop |-> FALSE,
                  loop |-> Loop, finding |-> FALSE, found |-> <<>>,
                  asked |-> {}, calls |-> 0]

HighestLabel(s) == Last(ifst.arcs[s]).ilabel

WantsTable(s) ==
    LET num_arcs == Len(ifst.arcs[s])
    IN  /\ num_arcs # 0 /\ num_arcs >= tableOpts.min_table_size
        /\ HighestLabel(s) + 1 <= num_arcs * tableOpts.ratio

PositionsOf(s, label) == {k \in DOMAIN ifst.arcs[s] : ifst.arcs[s][k].ilabel = label}

\* Mutant: a later arc with the same label takes the place of the first.
Mut_LastPosition(s) ==
    [label \in {arc.ilabel : arc \in Range(ifst.arcs[s])} |-> Max(PositionsOf(s, label))]

MakeTable(s) ==
    [label \in {arc.ilabel : arc \in Range(ifst.arcs[s])} |-> Min(PositionsOf(s, label))]

HasTable == matcher.state \in DOMAIN tables

SetState(s) ==
    /\ ~matcher.finding /\ matcher.calls < MaxCalls
    /\ tables' = IF s \notin DOMAIN tables /\ WantsTable(s) THEN tables @@ (s :> MakeTable(s)) ELSE tables
    /\ matcher' = [matcher EXCEPT
            !.state = s, !.pos = 1, !.calls = @ + 1, !.asked = {},
            !.loop.nextstate = IF s \in DOMAIN tables' THEN s ELSE @]
    /\ UNCHANGED <<ifst, tableOpts>>

\* kNoLabel asks for the epsilons without the loop.
Find(label) ==
    LET match == IF label = kNoLabel THEN 0 ELSE label
        known == match \in DOMAIN tables[matcher.state]
    IN  /\ HasTable /\ ~matcher.finding /\ matcher.calls < MaxCalls
        /\ matcher' = [matcher EXCEPT
                !.match_label = match,
                !.current_loop = (label = 0),
                !.pos = IF known THEN tables[matcher.state][match] ELSE @,
                !.finding = known \/ label = 0,
                !.found = <<>>, !.asked = {label}, !.calls = @ + 1]
        /\ UNCHANGED <<ifst, tableOpts, tables>>

Value == IF matcher.current_loop THEN matcher.loop ELSE ifst.arcs[matcher.state][matcher.pos]

Done ==
    /\ ~matcher.current_loop
    /\ matcher.pos \in DOMAIN ifst.arcs[matcher.state] =>
           ifst.arcs[matcher.state][matcher.pos].ilabel # matcher.match_label

\* The composition takes the value and goes on to the next one, until Done.
MatchNext ==
    /\ matcher.finding /\ ~Done
    /\ matcher' = [matcher EXCEPT
            !.found = Append(@, Value),
            !.pos = IF matcher.current_loop THEN @ ELSE @ + 1,
            !.current_loop = FALSE]
    /\ UNCHANGED <<ifst, tableOpts, tables>>

MatchDone ==
    /\ matcher.finding /\ Done
    /\ matcher' = [matcher EXCEPT !.finding = FALSE]
    /\ UNCHANGED <<ifst, tableOpts, tables>>

MatcherNext ==
    \/ \E s \in States(ifst) : SetState(s)
    \/ \E label \in Labels : Find(label)
    \/ MatchNext \/ MatchDone
--------------------------------------------------------------------------------
\* What sorted matching gives: the loop for label 0, then every arc in order.
SortedMatch(s, label) ==
    (IF label = 0 THEN <<Arc(kNoLabel, 0, 0, s)>> ELSE <<>>) \o
    SelectSeq(ifst.arcs[s], LAMBDA arc : arc.ilabel = (IF label = kNoLabel THEN 0 ELSE label))

\* A find gives the arcs that sorted matching gives, in the same order.
TableFindsAll ==
    ~matcher.finding =>
        \A label \in matcher.asked : matcher.found = SortedMatch(matcher.state, label)
================================================================================
