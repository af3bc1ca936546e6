-------------------------------- MODULE FstTools --------------------------------
(***************************************************************************)
(* core/kaldi/fstext: transducers with costs, and the operations on them   *)
(* that the graph tools of fstbin and lmbin call: RemoveEpsLocal,          *)
(* AddSelfLoops and the TableMatcher of TableCompose.  States are numbered *)
(* from 1, a state has a sequence of arcs, label 0 is the epsilon.         *)
(***************************************************************************)
EXTENDS Integers, Sequences, SequencesExt, FiniteSetsExt, Functions, TLC

Zero == 100000            \* the weight of what cannot be
kNoStateId == 0

Arc(ilabel, olabel, weight, nextstate) ==
    [ilabel |-> ilabel, olabel |-> olabel, weight |-> weight, nextstate |-> nextstate]

EmptyFst == [start |-> kNoStateId, final |-> <<>>, arcs |-> <<>>]
NumStates(fst) == Len(fst.arcs)
States(fst) == 1 .. NumStates(fst)
AddState(fst) == [fst EXCEPT !.final = Append(@, Zero), !.arcs = Append(@, <<>>)]
AddArc(fst, state, arc) == [fst EXCEPT !.arcs[state] = Append(@, arc)]
SetFinal(fst, state, weight) == [fst EXCEPT !.final[state] = weight]
IsFinal(fst, state) == fst.final[state] < Zero
MinOf(weights) == IF weights = {} THEN Zero ELSE Min(weights)
--------------------------------------------------------------------------------
\* What can be read in a transducer in at most n labels on either side: the
\* least cost of being in a state with an input and an output behind it.
Steps(fst, at, n) ==
    UNION {{[state |-> arc.nextstate,
             input |-> IF arc.ilabel = 0 THEN c.input ELSE Append(c.input, arc.ilabel),
             output |-> IF arc.olabel = 0 THEN c.output ELSE Append(c.output, arc.olabel),
             cost |-> at[c] + arc.weight] : arc \in Range(fst.arcs[c.state])} : c \in DOMAIN at}

RECURSIVE ReadOn(_, _, _)
ReadOn(fst, at, n) ==
    LET found == {s \in Steps(fst, at, n) : Len(s.input) <= n /\ Len(s.output) <= n}
        place(s) == [state |-> s.state, input |-> s.input, output |-> s.output]
        next == [c \in DOMAIN at \cup {place(s) : s \in found} |->
                    MinOf((IF c \in DOMAIN at THEN {at[c]} ELSE {}) \cup
                          {s.cost : s \in {t \in found : place(t) = c}})]
    IN  IF next = at THEN at ELSE ReadOn(fst, next, n)

Readings(fst, n) ==
    LET at == IF fst.start = kNoStateId THEN <<>>
              ELSE ReadOn(fst, [state |-> fst.start, input |-> <<>>, output |-> <<>>] :> 0, n)
        ends == {c \in DOMAIN at : IsFinal(fst, c.state)}
    IN  [r \in {<<c.input, c.output>> : c \in ends} |->
            MinOf({at[c] + fst.final[c.state] : c \in {e \in ends : <<e.input, e.output>> = r}})]
--------------------------------------------------------------------------------
\* RemoveEpsLocal.  A deleted arc leads to a state that leads nowhere.
non_coacc_state == 0

LiveArcs(fst, state) == {k \in DOMAIN fst.arcs[state] : fst.arcs[state][k].nextstate # non_coacc_state}

\* Mutant: arcs of one state into another are taken for one.
Mut_CountsStates(fst, state) ==
    Cardinality({s \in States(fst) : \E k \in LiveArcs(fst, s) : fst.arcs[s][k].nextstate = state})
    + (IF state = fst.start THEN 1 ELSE 0)

\* The arcs into a state and out of it, the start and being final counted as arcs.
NumArcsIn(fst, state) ==
    MapThenSumSet(LAMBDA s : Cardinality({k \in LiveArcs(fst, s) : fst.arcs[s][k].nextstate = state}),
                  States(fst)) + (IF state = fst.start THEN 1 ELSE 0)
NumArcsOut(fst, state) ==
    Cardinality(LiveArcs(fst, state)) + (IF IsFinal(fst, state) THEN 1 ELSE 0)

CanCombineArcs(a, b) == (a.ilabel = 0 \/ b.ilabel = 0) /\ (a.olabel = 0 \/ b.olabel = 0)
CanCombineFinal(a) == a.ilabel = 0 /\ a.olabel = 0

\* One of the two labels on either side is 0.
Combined(a, b) ==
    Arc(a.ilabel + b.ilabel, a.olabel + b.olabel, a.weight + b.weight, b.nextstate)

DeleteArc(fst, state, pos) == [fst EXCEPT !.arcs[state][pos].nextstate = non_coacc_state]

DeleteArcs(fst, state, which) ==
    [fst EXCEPT !.arcs[state] = [k \in DOMAIN @ |->
        IF k \in which THEN [@[k] EXCEPT !.nextstate = non_coacc_state] ELSE @[k]]]

MoveFinal(fst, state, arc) ==
    SetFinal(fst, state, MinOf({fst.final[state], arc.weight + fst.final[arc.nextstate]}))

\* What the arc carries more, what leaves the state behind it carries less.
Reweight(fst, state, pos, reweight) ==
    LET next == fst.arcs[state][pos].nextstate
    IN  [fst EXCEPT
            !.arcs[state][pos].weight = @ + reweight,
            !.arcs[next] = [k \in DOMAIN @ |->
                IF @[k].nextstate = non_coacc_state THEN @[k]
                ELSE [@[k] EXCEPT !.weight = @ - reweight]],
            !.final[next] = IF @ < Zero THEN @ - reweight ELSE @]

\* One arc enters the next state and several leave it: those that can be combined
\* with it start from this state instead.
RemoveEpsPattern1(fst, state, pos) ==
    LET arc == fst.arcs[state][pos]
        next == arc.nextstate
        live == LiveArcs(fst, next)
        combined == {k \in live : CanCombineArcs(arc, fst.arcs[next][k])}
        ends == IsFinal(fst, next) /\ CanCombineFinal(arc)
        total(which, final) ==
            MinOf({fst.arcs[next][k].weight : k \in which} \cup (IF final THEN {fst.final[next]} ELSE {}))
        total_removed == total(combined, ends)
        total_kept == total(live \ combined, IsFinal(fst, next) /\ ~ends)
        order == SetToSortSeq(combined, <)
        moved == DeleteArcs(IF ends THEN SetFinal(MoveFinal(fst, state, arc), next, Zero) ELSE fst,
                            next, combined)
        left == IF total_removed = Zero THEN moved
                ELSE IF total_kept = Zero THEN DeleteArc(moved, state, pos)
                ELSE Reweight(moved, state, pos, total_kept - MinOf({total_removed, total_kept}))
    IN  [left EXCEPT !.arcs[state] =
            @ \o [i \in DOMAIN order |-> Combined(arc, fst.arcs[next][order[i]])]]

\* One arc leaves the next state, or it is final: both arcs become one.  What was
\* behind goes only if no other arc leads to it.
RemoveEpsPattern2(fst, state, pos) ==
    LET arc == fst.arcs[state][pos]
        next == arc.nextstate
        can_delete_next == NumArcsIn(fst, next) = 1
        k == CHOOSE i \in LiveArcs(fst, next) : TRUE
        freed(f) == IF ~can_delete_next THEN f
                    ELSE IF IsFinal(fst, next) THEN SetFinal(f, next, Zero) ELSE DeleteArc(f, next, k)
    IN  IF IsFinal(fst, next)
        THEN IF CanCombineFinal(arc) THEN DeleteArc(freed(MoveFinal(fst, state, arc)), state, pos)
             ELSE fst
        ELSE IF CanCombineArcs(arc, fst.arcs[next][k])
        THEN DeleteArc(AddArc(freed(fst), state, Combined(arc, fst.arcs[next][k])), state, pos)
        ELSE fst

RemoveEps(fst, state, pos) ==
    LET next == fst.arcs[state][pos].nextstate
    IN  IF next \in {non_coacc_state, state} THEN fst
        ELSE IF NumArcsIn(fst, next) = 1 /\ NumArcsOut(fst, next) > 1
        THEN RemoveEpsPattern1(fst, state, pos)
        ELSE IF NumArcsOut(fst, next) = 1 THEN RemoveEpsPattern2(fst, state, pos)
        ELSE fst

\* Arcs that are added to a state come up in the same walk.
RECURSIVE RemoveEpsFrom(_, _, _)
RemoveEpsFrom(fst, state, pos) ==
    IF state > NumStates(fst) THEN fst
    ELSE IF pos > Len(fst.arcs[state]) THEN RemoveEpsFrom(fst, state + 1, 1)
    ELSE RemoveEpsFrom(RemoveEps(fst, state, pos), state, pos + 1)

RECURSIVE Closure(_, _)
Closure(edges, states) ==
    LET next == states \cup {e[2] : e \in {f \in edges : f[1] \in states}}
    IN  IF next = states THEN states ELSE Closure(edges, next)

\* Connect (OpenFst): what is on no path from the start to an end goes.
Connect(fst) ==
    LET edges == UNION {{<<s, fst.arcs[s][k].nextstate>> : k \in LiveArcs(fst, s)} : s \in States(fst)}
        useful == Closure(edges, {fst.start}) \cap
                  Closure({<<e[2], e[1]>> : e \in edges}, {s \in States(fst) : IsFinal(fst, s)})
    IN  [start |-> IF fst.start \in useful THEN fst.start ELSE kNoStateId,
         final |-> [s \in States(fst) |-> IF s \in useful THEN fst.final[s] ELSE Zero],
         arcs |-> [s \in States(fst) |-> IF s \in useful
                        THEN SelectSeq(fst.arcs[s], LAMBDA a : a.nextstate \in useful) ELSE <<>>]]

RemoveEpsLocal(fst) ==
    IF fst.start = kNoStateId THEN fst ELSE Connect(RemoveEpsFrom(fst, 1, 1))
--------------------------------------------------------------------------------
\* Mutant: a state from which only an epsilon leaves, and that is final, gets none.
Mut_NoLoopsAtEnds(fst, isyms, osyms) ==
    LET loops(s) == [i \in DOMAIN isyms |-> Arc(isyms[i], osyms[i], 0, s)]
    IN  [fst EXCEPT !.arcs = [s \in DOMAIN @ |->
            IF \E arc \in Range(@[s]) : arc.olabel # 0 THEN @[s] \o loops(s) ELSE @[s]]]

\* AddSelfLoops: disambiguation symbols may be read at every end and wherever an
\* output label may be written.
AddSelfLoops(fst, isyms, osyms) ==
    LET loops(s) == [i \in DOMAIN isyms |-> Arc(isyms[i], osyms[i], 0, s)]
    IN  [fst EXCEPT !.arcs = [s \in DOMAIN @ |->
            IF IsFinal(fst, s) \/ \E arc \in Range(@[s]) : arc.olabel # 0
            THEN @[s] \o loops(s) ELSE @[s]]]
--------------------------------------------------------------------------------
NumArcs(fst) == MapThenSumSet(LAMBDA s : Len(fst.arcs[s]), States(fst))

\* remove-eps-local.h: the same is read at the same cost, and there are not more
\* arcs than before.
RemovalKeepsReadings(fst) ==
    /\ Readings(RemoveEpsLocal(fst), 2) = Readings(fst, 2)
    /\ NumArcs(RemoveEpsLocal(fst)) <= NumArcs(fst)

\* fstaddselfloops: the symbols may stand anywhere between the words, and without
\* them everything reads as before.
LoopsPassDisambiguation(fst, isym, osym) ==
    LET looped == Readings(AddSelfLoops(fst, <<isym>>, <<osym>>), 3)
        before == Readings(fst, 2)
        without(r) == <<SelectSeq(r[1], LAMBDA l : l # isym), SelectSeq(r[2], LAMBDA l : l # osym)>>
    IN  /\ \A r \in DOMAIN before : \A i \in 1 .. Len(r[2]) + 1 :
               \E q \in DOMAIN looped : q[2] = InsertAt(r[2], i, osym) /\ without(q) = r
        /\ \A q \in DOMAIN looped : Len(q[1]) < 3 /\ Len(q[2]) < 3 =>
               without(q) \in DOMAIN before /\ looped[q] >= before[without(q)]
================================================================================
