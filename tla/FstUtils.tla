-------------------------------- MODULE FstUtils --------------------------------
(***************************************************************************)
(* core/kaldi/fstext: pre-determinize-inl.h and fstext-utils-inl.h.        *)
(* SafeDeterminizeWrapper puts symbols into a graph until it can be        *)
(* determinized, has DeterminizeStar do it, and takes them out again; the  *)
(* rest are functions of a graph.  The weights are tropical.               *)
(***************************************************************************)
EXTENDS DeterminizeStar

CONSTANT Trim             \* the graphs given: every state is on a path to an end

VARIABLE given            \* ifst, before anything is done to it

utils_vars == <<given, determinize_vars>>

InputLabels(fst) == UNION {{arc.ilabel : arc \in Range(fst.arcs[s])} : s \in States(fst)}
HighestNumberedInputSymbol(fst) == Max(InputLabels(fst) \cup {0})

GetInputSymbols(fst, include_eps) ==
    SetToSortSeq(IF include_eps THEN InputLabels(fst) ELSE InputLabels(fst) \ {0}, <)

RemoveSomeInputSymbols(to_remove, fst) ==
    [fst EXCEPT !.arcs = [s \in DOMAIN @ |-> [i \in DOMAIN @[s] |->
        IF @[s][i].ilabel \in to_remove THEN [@[s][i] EXCEPT !.ilabel = 0] ELSE @[s][i]]]]

\* The new label of l is at position l + 1; a label past the end stays.
MapInputSymbols(symbol_mapping, fst) ==
    [fst EXCEPT !.arcs = [s \in DOMAIN @ |-> [i \in DOMAIN @[s] |->
        IF @[s][i].ilabel \in 1 .. Len(symbol_mapping) - 1
        THEN [@[s][i] EXCEPT !.ilabel = symbol_mapping[@ + 1]] ELSE @[s][i]]]]

ClearSymbols(clear_input, clear_output, fst) ==
    [fst EXCEPT !.arcs = [s \in DOMAIN @ |-> [i \in DOMAIN @[s] |->
        [@[s][i] EXCEPT !.ilabel = IF clear_input THEN 0 ELSE @,
                        !.olabel = IF clear_output THEN 0 ELSE @]]]]

ApplyProbabilityScale(scale, fst) ==
    [fst EXCEPT !.final = [s \in DOMAIN @ |-> IF @[s] < Zero THEN @[s] * scale ELSE @[s]],
                !.arcs = [s \in DOMAIN @ |-> [i \in DOMAIN @[s] |-> [@[s][i] EXCEPT !.weight = @ * scale]]]]

RemoveWeights(fst) ==
    [fst EXCEPT !.final = [s \in DOMAIN @ |-> IF @[s] < Zero THEN 0 ELSE @[s]],
                !.arcs = [s \in DOMAIN @ |-> [i \in DOMAIN @[s] |-> [@[s][i] EXCEPT !.weight = 0]]]]
--------------------------------------------------------------------------------
\* One end, with nothing behind it and at no cost.
CreateSuperFinal(fst) ==
    LET ends == {s \in States(fst) : IsFinal(fst, s)}
        final_state == NumStates(fst) + 1
        linked == [AddState(fst) EXCEPT
            !.final = [s \in DOMAIN @ |-> IF s = final_state THEN 0 ELSE Zero],
            !.arcs = [s \in DOMAIN @ |->
                IF s \in ends THEN Append(@[s], Arc(0, 0, fst.final[s], final_state)) ELSE @[s]]]
    IN  IF \E s \in ends : ends = {s} /\ fst.final[s] = 0 /\ fst.arcs[s] = <<>> THEN fst ELSE linked

\* Mutant: being the start does not count as being entered.
Mut_StartIsNoEntry(fst) == {s \in States(fst) : NumArcsIn(fst, s) - (IF s = fst.start THEN 1 ELSE 0) > 1}

\* The states that are entered in more than one way.
Problematic(fst) == {s \in States(fst) : NumArcsIn(fst, s) > 1}

PreClosure(fst, p_vec, states) ==
    Closure(UNION {{<<s, arc.nextstate>> : arc \in {a \in Range(fst.arcs[s]) :
                        a.ilabel = 0 /\ a.nextstate \notin p_vec}} : s \in States(fst)}, states)

\* Sets are filed under their least member; another set there is an error.
InsertMember(d, states, n) ==
    IF states \in d.S THEN d
    ELSE [d EXCEPT !.S = @ \cup {states}, !.Q = Append(@, [states |-> states, n |-> n]),
                   !.ok = @ /\ \A other \in d.S : Min(other) # Min(states)]

\* An arc is known by its state and its position.
ArcAt(fst, a) == fst.arcs[a[1]][a[2]]
InOrder(fst, arcs) ==
    SelectSeq(FlattenSeq([s \in States(fst) |-> [i \in DOMAIN fst.arcs[s] |-> <<s, i>>]]), LAMBDA a : a \in arcs)
Numbered(arcs, n) ==
    [a \in arcs |-> n + Cardinality({b \in arcs : b[1] < a[1] \/ (b[1] = a[1] /\ b[2] < a[2])})]

\* Mutant: a label's arcs into problematic states are numbered only among themselves.
Mut_ProcessLabel(fst, p_vec, d, from, t) ==
    LET S_t == {a \in from : ArcAt(fst, a).ilabel = t}
        T_t == {a \in S_t : ArcAt(fst, a).nextstate \in p_vec}
        V_t == {ArcAt(fst, a).nextstate : a \in S_t \ T_t}
        marked == IF Cardinality(T_t) > 1 THEN Numbered(T_t, 0) ELSE <<>>
        e == [d EXCEPT !.m = @ @@ marked]
    IN  IF V_t = {} THEN e ELSE InsertMember(e, PreClosure(fst, p_vec, V_t), Cardinality(DOMAIN marked))

\* The arcs with one label: those into problematic states are told apart by a
\* number, unless there is one arc only; the others lead to a set of their own.
ProcessLabel(fst, p_vec, d, from, t) ==
    LET S_t == {a \in from : ArcAt(fst, a).ilabel = t}
        T_t == {a \in S_t : ArcAt(fst, a).nextstate \in p_vec}
        V_t == {ArcAt(fst, a).nextstate : a \in S_t \ T_t}
        marked == IF Cardinality(S_t) > 1 THEN Numbered(T_t, 0) ELSE <<>>
        e == [d EXCEPT !.m = @ @@ marked]
    IN  IF V_t = {} THEN e ELSE InsertMember(e, PreClosure(fst, p_vec, V_t), Cardinality(DOMAIN marked))

\* Each state is in one set only; m numbers the arcs that need a symbol.
RECURSIVE NumberArcs(_, _, _)
NumberArcs(fst, p_vec, d) ==
    IF d.Q = <<>> THEN d
    ELSE LET top == Last(d.Q)
             from == UNION {{<<s, i>> : i \in DOMAIN fst.arcs[s]} : s \in top.states}
             S_eps == {a \in from : ArcAt(fst, a).ilabel = 0 /\ ArcAt(fst, a).nextstate \in p_vec}
             labels == SetToSortSeq({ArcAt(fst, a).ilabel : a \in from} \ {0}, <)
             popped == [d EXCEPT !.Q = Front(@), !.done = @ \cup top.states,
                                 !.ok = @ /\ top.states \cap d.done = {},
                                 !.m = @ @@ Numbered(S_eps, top.n)]
         IN  NumberArcs(fst, p_vec,
                        FoldLeft(LAMBDA e, t : ProcessLabel(fst, p_vec, e, from, t), popped, labels))

\* An epsilon becomes the symbol; before another arc's state comes a new one, from
\* which only the symbol leads on.
AddSymbols(fst, m, first_new_sym) ==
    LET epsilons == {a \in DOMAIN m : ArcAt(fst, a).ilabel = 0}
        marked == [fst EXCEPT !.arcs = [s \in DOMAIN @ |-> [i \in DOMAIN @[s] |->
            IF <<s, i>> \in epsilons THEN [@[s][i] EXCEPT !.ilabel = first_new_sym + m[<<s, i>>]] ELSE @[s][i]]]]
    IN  FoldLeft(LAMBDA g, a :
            LET pr == <<ArcAt(fst, a).nextstate, m[a]>>
                to == IF pr \in DOMAIN g.h THEN g.h[pr] ELSE NumStates(g.fst) + 1
                grown == IF pr \in DOMAIN g.h THEN g.fst
                         ELSE AddArc(AddState(g.fst), to, Arc(first_new_sym + m[a], 0, 0, pr[1]))
            IN  [fst |-> [grown EXCEPT !.arcs[a[1]][a[2]].nextstate = to], h |-> g.h @@ (pr :> to)],
            [fst |-> marked, h |-> <<>>], InOrder(fst, DOMAIN m \ epsilons)).fst

PreDeterminize(ifst, first_new_sym) ==
    LET fst == Sorted(CreateSuperFinal(ifst))
        p_vec == Problematic(fst)
        seeds == (IF fst.start \in p_vec THEN <<>> ELSE <<fst.start>>) \o SetToSortSeq(p_vec, <)
        seeded == FoldLeft(LAMBDA d, s : InsertMember(d, PreClosure(fst, p_vec, {s}), 0),
                           [S |-> {}, Q |-> <<>>, m |-> <<>>, done |-> {}, ok |-> TRUE], seeds)
        d == NumberArcs(fst, p_vec, seeded)
    IN  [fst |-> AddSymbols(fst, d.m, first_new_sym),
         symsOut |-> {first_new_sym + n : n \in 0 .. Max(Range(d.m) \cup {-1})},
         ok |-> d.ok /\ d.done = States(fst)]

SafeInit ==
    /\ given \in Trim
    /\ fstIn = PreDeterminize(given, HighestNumberedInputSymbol(given) + 1).fst
    /\ allow_partial = FALSE
    /\ InitialSubset

SafeNext == DeterminizeNext /\ UNCHANGED given

\* SafeDeterminizeWrapper's result.
SafelyDeterminized == RemoveSomeInputSymbols(InputLabels(fstIn) \ InputLabels(given), fstOut)
--------------------------------------------------------------------------------
\* The labels that enter and leave a state; being the start or an end may count
\* as an epsilon.
PrecedingLabels(start_is_epsilon, fst, state) ==
    {arc.ilabel : arc \in {a \in UNION {Range(fst.arcs[s]) : s \in States(fst)} : a.nextstate = state}}
    \cup (IF start_is_epsilon /\ state = fst.start THEN {0} ELSE {})

FollowingLabels(end_is_epsilon, fst, state) ==
    LET c == {arc.ilabel : arc \in Range(fst.arcs[state])}
    IN  IF end_is_epsilon /\ c # {} /\ IsFinal(fst, state) THEN c \cup {0} ELSE c

PrecedingInputSymbolsAreSame(start_is_epsilon, fst) ==
    \A s \in States(fst) : Cardinality(PrecedingLabels(start_is_epsilon, fst, s)) <= 1

FollowingInputSymbolsAreSame(end_is_epsilon, fst) ==
    \A s \in States(fst) : Cardinality(FollowingLabels(end_is_epsilon, fst, s)) <= 1

ArcsOf(fst, states) == UNION {{<<s, i>> : i \in DOMAIN fst.arcs[s]} : s \in states}

\* Mutant: one new state serves a state, whatever the label that enters it.
Mut_MakePreceding(start_is_epsilon, fst) ==
    LET bad_states == {s \in States(fst) : Cardinality(PrecedingLabels(start_is_epsilon, fst, s)) > 1}
        arcs_to_change == {a \in ArcsOf(fst, States(fst)) :
                              ArcAt(fst, a).ilabel # 0 /\ ArcAt(fst, a).nextstate \in bad_states}
    IN  FoldLeft(LAMBDA g, a :
            LET p == ArcAt(fst, a).nextstate
                dst_state == IF p \in DOMAIN g.h THEN g.h[p] ELSE NumStates(g.fst) + 1
                grown == IF p \in DOMAIN g.h THEN g.fst
                         ELSE AddArc(AddState(g.fst), dst_state, Arc(0, 0, 0, ArcAt(fst, a).nextstate))
            IN  [fst |-> [grown EXCEPT !.arcs[a[1]][a[2]].nextstate = dst_state], h |-> g.h @@ (p :> dst_state)],
            [fst |-> fst, h |-> <<>>], InOrder(fst, arcs_to_change)).fst

\* A labelled arc into a bad state goes to a state for its label, and on from there
\* by an epsilon.
MakePrecedingInputSymbolsSame(start_is_epsilon, fst) ==
    LET bad_states == {s \in States(fst) : Cardinality(PrecedingLabels(start_is_epsilon, fst, s)) > 1}
        arcs_to_change == {a \in ArcsOf(fst, States(fst)) :
                              ArcAt(fst, a).ilabel # 0 /\ ArcAt(fst, a).nextstate \in bad_states}
    IN  FoldLeft(LAMBDA g, a :
            LET p == <<ArcAt(fst, a).nextstate, ArcAt(fst, a).ilabel>>
                dst_state == IF p \in DOMAIN g.h THEN g.h[p] ELSE NumStates(g.fst) + 1
                grown == IF p \in DOMAIN g.h THEN g.fst
                         ELSE AddArc(AddState(g.fst), dst_state, Arc(0, 0, 0, p[1]))
            IN  [fst |-> [grown EXCEPT !.arcs[a[1]][a[2]].nextstate = dst_state], h |-> g.h @@ (p :> dst_state)],
            [fst |-> fst, h |-> <<>>], InOrder(fst, arcs_to_change)).fst

\* A labelled arc out of a bad state writes and pays first, and reads from a new state.
MakeFollowingInputSymbolsSame(end_is_epsilon, fst) ==
    LET bad_states == {s \in States(fst) : Cardinality(FollowingLabels(end_is_epsilon, fst, s)) > 1}
    IN  FoldLeft(LAMBDA f, a :
            LET arc == ArcAt(fst, a)
                newstate == NumStates(f) + 1
            IN  [AddArc(AddState(f), newstate, Arc(arc.ilabel, 0, 0, arc.nextstate))
                    EXCEPT !.arcs[a[1]][a[2]] = Arc(0, arc.olabel, arc.weight, newstate)],
            fst, InOrder(fst, {a \in ArcsOf(fst, bad_states) : ArcAt(fst, a).ilabel # 0}))
--------------------------------------------------------------------------------
\* Of the arcs with one label to one state the cheapest stays, and no epsilon
\* leads from a state to itself.
UselessArcs(fst, s) ==
    LET arcs == fst.arcs[s]
        like(i) == {j \in DOMAIN arcs : arcs[j].ilabel = arcs[i].ilabel /\ arcs[j].nextstate = arcs[i].nextstate}
        best_pos(i) == Min({j \in like(i) : \A k \in like(i) : arcs[j].weight <= arcs[k].weight})
    IN  {i \in DOMAIN arcs : IF like(i) # {i} THEN i # best_pos(i)
                             ELSE arcs[i].ilabel = 0 /\ arcs[i].nextstate = s}

RemoveUselessArcs(fst) ==
    LET marked == FoldLeft(LAMBDA f, s : DeleteArcs(f, s, UselessArcs(fst, s)),
                           fst, [s \in DOMAIN fst.arcs |-> s])
    IN  IF \E s \in States(fst) : UselessArcs(fst, s) # {} THEN Connect(marked) ELSE fst

\* The least of what leaves each state, an end's own weight with it.
StateSums(fst) ==
    {MinOf({fst.final[s]} \cup {arc.weight : arc \in Range(fst.arcs[s])}) : s \in States(fst)}

Abs(x) == IF x < 0 THEN -x ELSE x

IsStochasticFst(fst, delta) == \A sum \in StateSums(fst) : Abs(sum) <= delta
--------------------------------------------------------------------------------
\* No start and no states at first; 0 is a label like the others.
MakeLinearAcceptorWithAlternatives(labels) ==
    [start |-> 1, final |-> [s \in 1 .. Len(labels) + 1 |-> IF s > Len(labels) THEN 0 ELSE Zero],
     arcs |-> [s \in 1 .. Len(labels) + 1 |->
        IF s > Len(labels) THEN <<>>
        ELSE [j \in DOMAIN labels[s] |-> Arc(labels[s][j], labels[s][j], 0, s + 1)]]]

MakeLinearAcceptor(labels) ==
    [start |-> 1, final |-> [s \in 1 .. Len(labels) + 1 |-> IF s > Len(labels) THEN 0 ELSE Zero],
     arcs |-> [s \in 1 .. Len(labels) + 1 |->
        IF s > Len(labels) THEN <<>> ELSE <<Arc(labels[s], labels[s], 0, s + 1)>>]]

\* What a graph with a single path reads, writes and costs.
RECURSIVE FollowOnlyArc(_, _)
FollowOnlyArc(fst, r) ==
    LET arcs == fst.arcs[r.state]
    IN  IF IsFinal(fst, r.state)
        THEN [r EXCEPT !.weight = @ + fst.final[r.state], !.linear = (arcs = <<>>)]
        ELSE IF Len(arcs) # 1 THEN [r EXCEPT !.linear = FALSE]
        ELSE FollowOnlyArc(fst,
                [r EXCEPT !.weight = @ + arcs[1].weight, !.state = arcs[1].nextstate,
                          !.isymbols = IF arcs[1].ilabel = 0 THEN @ ELSE Append(@, arcs[1].ilabel),
                          !.osymbols = IF arcs[1].olabel = 0 THEN @ ELSE Append(@, arcs[1].olabel)])

GetLinearSymbolSequence(fst) ==
    LET first == [state |-> fst.start, isymbols |-> <<>>, osymbols |-> <<>>, weight |-> 0, linear |-> TRUE]
    IN  IF fst.start = kNoStateId THEN [first EXCEPT !.weight = Zero] ELSE FollowOnlyArc(fst, first)
--------------------------------------------------------------------------------
\* Arcs in a row, with the weight at their end.
Linear(arcs, final) ==
    [start |-> 1, final |-> [s \in 1 .. Len(arcs) + 1 |-> IF s > Len(arcs) THEN final ELSE Zero],
     arcs |-> [s \in 1 .. Len(arcs) + 1 |-> IF s > Len(arcs) THEN <<>> ELSE <<[arcs[s] EXCEPT !.nextstate = s + 1]>>]]

\* A graph that only branches at its start, path by path.  One that is only an end
\* gets no start.
RECURSIVE PathFrom(_, _, _)
PathFrom(fst, state, arcs) ==
    IF fst.arcs[state] = <<>> THEN Linear(arcs, fst.final[state])
    ELSE PathFrom(fst, fst.arcs[state][1].nextstate, Append(arcs, fst.arcs[state][1]))

ConvertNbestToVector(fst) ==
    IF fst.start = kNoStateId THEN <<>>
    ELSE (IF IsFinal(fst, fst.start) THEN <<[Linear(<<>>, fst.final[fst.start]) EXCEPT !.start = kNoStateId]>> ELSE <<>>)
         \o [i \in DOMAIN fst.arcs[fst.start] |->
                PathFrom(fst, fst.arcs[fst.start][i].nextstate, <<fst.arcs[fst.start][i]>>)]

\* EqualAlign's random walk: any way to an end, without loops at a state.
RECURSIVE WalksFrom(_, _, _)
WalksFrom(ifst, state, n) ==
    (IF IsFinal(ifst, state) THEN {<<>>} ELSE {}) \cup
    (IF n = 0 THEN {}
     ELSE UNION {{<<<<state, i>>>> \o walk : walk \in WalksFrom(ifst, ifst.arcs[state][i].nextstate, n - 1)} :
                    i \in {j \in DOMAIN ifst.arcs[state] : ifst.arcs[state][j].nextstate # state}})

\* 0: the state has no loop with a label.
FindSelfLoopWithILabel(fst, s) ==
    LET loops == {i \in DOMAIN fst.arcs[s] : fst.arcs[s][i].nextstate = s /\ fst.arcs[s][i].ilabel # 0}
    IN  IF loops = {} THEN 0 ELSE Min(loops)

\* Mutant: the loops that are over go to the first places, with a loop or not.
Mut_NumLoops(self_loop_offsets, num_extra, i) ==
    LET with_loop == {j \in DOMAIN self_loop_offsets : self_loop_offsets[j] # 0}
        min_num_loops == IF num_extra # 0 THEN num_extra \div Cardinality(with_loop) ELSE 0
        num_with_one_more_loop == num_extra - min_num_loops * Cardinality(with_loop)
    IN  IF i \notin with_loop THEN 0
        ELSE min_num_loops + (IF i - 1 < num_with_one_more_loop THEN 1 ELSE 0)

\* The loops needed are spread over the places that have one, the first get one more.
NumLoops(self_loop_offsets, num_extra, i) ==
    LET with_loop == {j \in DOMAIN self_loop_offsets : self_loop_offsets[j] # 0}
        min_num_loops == IF num_extra # 0 THEN num_extra \div Cardinality(with_loop) ELSE 0
        num_with_one_more_loop == num_extra - min_num_loops * Cardinality(with_loop)
    IN  IF i \notin with_loop THEN 0
        ELSE min_num_loops +
             (IF Cardinality({j \in with_loop : j < i}) < num_with_one_more_loop THEN 1 ELSE 0)

\* No result: the walk is too long, or too short and without a loop.
EqualAlign(ifst, length, walk) ==
    LET path == [i \in 1 .. Len(walk) + 1 |->
                    IF i = 1 THEN ifst.start ELSE ArcAt(ifst, walk[i - 1]).nextstate]
        num_ilabels == Cardinality({i \in DOMAIN walk : ArcAt(ifst, walk[i]).ilabel # 0})
        offsets == [i \in DOMAIN path |-> FindSelfLoopWithILabel(ifst, path[i])]
        looped(i) == [j \in 1 .. NumLoops(offsets, length - num_ilabels, i) |-> ifst.arcs[path[i]][offsets[i]]]
        arcs == [i \in DOMAIN path |->
                    looped(i) \o (IF i = Len(path) THEN <<>> ELSE <<ArcAt(ifst, walk[i])>>)]
    IN  IF num_ilabels > length \/ (num_ilabels < length /\ Range(offsets) = {0}) THEN {}
        ELSE {Linear(FlattenSeq(arcs), ifst.final[Last(path)])}
--------------------------------------------------------------------------------
EdgesOf(fst) == UNION {{<<s, arc.nextstate>> : arc \in Range(fst.arcs[s])} : s \in States(fst)}

\* Mutant: a start that can be come back to is shared too.
Mut_SharesStartState(fst) == Len(fst.arcs[fst.start]) = 1 /\ ~IsFinal(fst, fst.start)

SharesStartState(fst) ==
    /\ fst.start \notin Closure(EdgesOf(fst), {arc.nextstate : arc \in Range(fst.arcs[fst.start])})
    /\ Len(fst.arcs[fst.start]) = 1 /\ ~IsFinal(fst, fst.start)

\* One acceptor more: its first arc, or an epsilon to its start, writes the label
\* olabel, its ends lead back to state 1.
AddToLoop(l, fst, olabel) ==
    LET share == SharesStartState(fst)
        n == NumStates(l.ans)
        state_map == [s \in States(fst) |->
            IF share /\ s = fst.start THEN 1
            ELSE n + Cardinality({t \in 1 .. s : ~share \/ t # fst.start})]
        copy(s) == [i \in DOMAIN fst.arcs[s] |->
            [fst.arcs[s][i] EXCEPT !.olabel = IF share /\ s = fst.start THEN olabel ELSE 0,
                                   !.nextstate = state_map[@]]]
                   \o (IF IsFinal(fst, s) THEN <<Arc(0, 0, fst.final[s], 1)>> ELSE <<>>)
        entry == IF share THEN copy(fst.start)[1] ELSE Arc(0, olabel, 0, state_map[fst.start])
        inner == SelectSeq([s \in States(fst) |-> s], LAMBDA s : ~share \/ s # fst.start)
    IN  [ans |-> [start |-> 1, final |-> l.ans.final \o [i \in DOMAIN inner |-> Zero],
                  arcs |-> [l.ans.arcs EXCEPT ![1] = Append(@, entry)] \o [i \in DOMAIN inner |-> copy(inner[i])]],
         cache |-> l.cache @@ (fst :> entry)]

\* The acceptor at position i has the label i - 1.  One that came before is entered again.
MakeLoopFst(fsts) ==
    FoldLeft(LAMBDA l, i :
        IF fsts[i].start = kNoStateId THEN l
        ELSE IF fsts[i] \in DOMAIN l.cache
        THEN [l EXCEPT !.ans = AddArc(@, 1, [l.cache[fsts[i]] EXCEPT !.olabel = i - 1])]
        ELSE AddToLoop(l, fsts[i], i - 1),
        [ans |-> [start |-> 1, final |-> <<0>>, arcs |-> <<<<>>>>], cache |-> <<>>],
        [i \in DOMAIN fsts |-> i]).ans
--------------------------------------------------------------------------------
\* The least cost of an input, whatever is written.
Costs(fst, n) == Readings(ClearSymbols(FALSE, TRUE, fst), n)

\* Every sequence of acceptors' texts, of at most n labels on either side.
RECURSIVE Star(_, _, _)
Star(texts, at, n) ==
    LET joined == {[r |-> <<r[1] \o t[1], r[2] \o t[2]>>, cost |-> at[r] + texts[t]] :
                       r \in DOMAIN at, t \in DOMAIN texts}
        short == {j \in joined : Len(j.r[1]) <= n /\ Len(j.r[2]) <= n}
        next == [r \in DOMAIN at \cup {j.r : j \in short} |->
                    MinOf((IF r \in DOMAIN at THEN {at[r]} ELSE {}) \cup {j.cost : j \in {i \in short : i.r = r}})]
    IN  IF next = at THEN at ELSE Star(texts, next, n)

Texts1(fst, label, n) ==
    LET read == Costs(fst, n)
        named(r) == <<r[1], IF label = 0 THEN <<>> ELSE <<label>>>>
    IN  [q \in {named(r) : r \in DOMAIN read} |-> read[CHOOSE r \in DOMAIN read : named(r) = q]]

Acceptor(fst) ==
    [fst EXCEPT !.arcs = [s \in DOMAIN @ |-> [i \in DOMAIN @[s] |-> [@[s][i] EXCEPT !.olabel = fst.arcs[s][i].ilabel]]]]

\* fstext-utils.h: a loop of acceptors reads what they read in any order and number.
LoopIsClosure(acceptor, word) ==
    LET fsts == <<acceptor, EmptyFst, word, acceptor>>
        texts == LET zero == Texts1(acceptor, 0, 2)
                     two == Texts1(word, 2, 2)
                     three == Texts1(acceptor, 3, 2)
                 IN  zero @@ two @@ three
    IN  Readings(MakeLoopFst(fsts), 2) = Star(texts, <<<<>>, <<>>>> :> 0, 2)

\* fstext-utils.h: what EqualAlign returns reads exactly length labels, is a path
\* of the graph, and it fails only for the two reasons it names.
AlignsToLength(ifst, length, walk) ==
    \A ofst \in EqualAlign(ifst, length, walk) :
        LET r == GetLinearSymbolSequence(ofst)
            read == Costs(ifst, length)
        IN  r.linear /\ Len(r.isymbols) = length
            /\ <<r.isymbols, <<>>>> \in DOMAIN read /\ r.weight >= read[<<r.isymbols, <<>>>>]

\* What these functions promise of a graph: states entered, or left, by one label
\* only, and readings that stay; inputs that cost what they did.
UtilsKeepMeaning(fst) ==
    LET before == Readings(fst, 2)
    IN  /\ \A eps \in BOOLEAN :
               LET p == MakePrecedingInputSymbolsSame(eps, fst)
                   f == MakeFollowingInputSymbolsSame(eps, fst)
               IN  /\ PrecedingInputSymbolsAreSame(eps, p) /\ Readings(p, 2) = before
                   /\ FollowingInputSymbolsAreSame(eps, f) /\ Readings(f, 2) = before
        /\ Costs(RemoveUselessArcs(fst), 2) = Costs(fst, 2)
        /\ IsStochasticFst(RemoveWeights(fst), 0)
        /\ Readings(ApplyProbabilityScale(2, fst), 2) = [r \in DOMAIN before |-> 2 * before[r]]
        /\ Range(GetInputSymbols(MapInputSymbols(<<7, 5, 6>>, fst), TRUE)) \subseteq {0, 5, 6}

WalksAlign(ifst, steps) ==
    \A walk \in WalksFrom(ifst, ifst.start, steps) :
        /\ \A length \in 0 .. 3 : AlignsToLength(ifst, length, walk)
        /\ ConvertNbestToVector(Linear([i \in DOMAIN walk |-> ArcAt(ifst, walk[i])], 1)) =
               IF walk = <<>> THEN <<[Linear(<<>>, 1) EXCEPT !.start = kNoStateId]>>
               ELSE <<Linear([i \in DOMAIN walk |-> ArcAt(ifst, walk[i])], 1)>>

\* pre-determinize-inl.h, fstext-utils.h: every state is in one set, so that the
\* determinization of a graph ends, without an error, with at most one subset for
\* each of its states, and reads without the symbols as the graph did.
SafeDeterminization ==
    /\ PreDeterminize(given, HighestNumberedInputSymbol(given) + 1).ok
    /\ functional
    /\ \A s \in States(fstIn) : Cardinality({i \in DOMAIN subsets : s \in DOMAIN subsets[i]}) <= 1
    /\ determinized => Readings(SafelyDeterminized, 3) = Readings(given, 3)
================================================================================
