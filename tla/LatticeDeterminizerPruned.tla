----------------------- MODULE LatticeDeterminizerPruned -----------------------
(***************************************************************************)
(* core/kaldi/lat/determinize-lattice-pruned.cc: the lattice the decoder   *)
(* hands out becomes one with a single path for each sequence of words,    *)
(* which carries the weight and the alignment of the best way to say them. *)
(* A weight is the pair of its graph and its acoustic part; a string of    *)
(* the repository is a sequence.  Tasks go into a queue and are expanded   *)
(* the best first, one by one; the lattice-weight semiring is exact here.  *)
(***************************************************************************)
EXTENDS LatticeFasterDecoder

CONSTANTS
    MemoryCheckEvery,     \* states between two looks at the memory (10 in the code)
    MaxNumIters           \* how often the lattice is tried (max_num_iters, 10)

ASSUME DeterminizerAssumption ==
    MemoryCheckEvery \in Nat \ {0} /\ MaxNumIters \in Nat \ {0}

Better(w, v) == Cost(w) < Cost(v) \/ (Cost(w) = Cost(v) /\ w[1] < v[1])
Times(w, v) == <<w[1] + v[1], w[2] + v[2]>>
Divide(w, v) == <<w[1] - v[1], w[2] - v[2]>>

\* Of two strings the shorter, of equally long ones the later in the alphabet.
BetterString(s, t) ==
    \/ Len(s) < Len(t)
    \/ Len(s) = Len(t) /\ \E i \in DOMAIN s : s[i] > t[i] /\ \A j \in 1 .. i - 1 : s[j] = t[j]

\* Compare of CompactLatticeWeight, for the elements of a subset.
BetterElement(e, g) ==
    Better(e.weight, g.weight) \/ (e.weight = g.weight /\ BetterString(e.string, g.string))

BestElement(elements) == CHOOSE e \in elements : \A g \in elements : ~BetterElement(g, e)

Extend(e, arc) ==
    [weight |-> Times(e.weight, arc.weight),
     string |-> IF arc.olabel = 0 THEN e.string ELSE Append(e.string, arc.olabel)]
--------------------------------------------------------------------------------
\* Shortest distances over arcs without cycles, by relaxation.
RECURSIVE Relaxed(_, _)
Relaxed(arcs, dist) ==
    LET next == [n \in DOMAIN dist |->
            Min({dist[n]} \cup {dist[a.from] + Cost(a.weight) :
                                a \in {b \in arcs : b.to = n /\ dist[b.from] < Infinity}})]
    IN  IF next = dist THEN dist ELSE Relaxed(arcs, next)

Nodes(lattice) == {lattice.start} \cup UNION {{a.from, a.to} : a \in lattice.arcs}

EndWeight(lattice, n) == IF n \in DOMAIN lattice.final THEN Cost(lattice.final[n]) ELSE Infinity

FromStart(lattice) ==
    Relaxed(lattice.arcs, [n \in Nodes(lattice) |-> IF n = lattice.start THEN 0 ELSE Infinity])

\* ComputeBackwardWeight.
ToEnd(lattice) ==
    Relaxed({[a EXCEPT !.from = a.to, !.to = a.from] : a \in lattice.arcs},
            [n \in Nodes(lattice) |-> EndWeight(lattice, n)])

\* The cost of the best complete path of a lattice.
BestCost(lattice) == ToEnd(lattice)[lattice.start]

\* What no path within the beam of the best one needs goes.
PruneLattice(beam, lattice) ==
    LET from == FromStart(lattice)
        to == ToEnd(lattice)
        cutoff == BestCost(lattice) + beam
    IN  [lattice EXCEPT
            !.arcs = {a \in @ : from[a.from] + Cost(a.weight) + to[a.to] <= cutoff},
            !.final = Restrict(@, {n \in DOMAIN @ \cap DOMAIN from :
                                    from[n] + Cost(lattice.final[n]) <= cutoff})]

\* Words become the input labels.
Invert(lattice) ==
    [lattice EXCEPT !.arcs = {[a EXCEPT !.ilabel = a.olabel, !.olabel = a.ilabel] : a \in @}]
--------------------------------------------------------------------------------
ArcsOf(ifst, states) == {a \in ifst.arcs : a.from \in states}

\* Mutant: an element that is there already is kept, though the way over the
\* epsilon arc is better.
RECURSIVE Mut_FirstComeFirstServed(_, _)
Mut_FirstComeFirstServed(ifst, subset) ==
    LET eps == {a \in ArcsOf(ifst, DOMAIN subset) : a.ilabel = 0 /\ a.to \notin DOMAIN subset}
        next == subset @@ [s \in {a.to : a \in eps} |->
                    BestElement({Extend(subset[a.from], a) : a \in {b \in eps : b.to = s}})]
    IN  IF eps = {} THEN subset ELSE Mut_FirstComeFirstServed(ifst, next)

\* A subset maps states of the input to their best element.  The closure follows
\* the arcs without a word until nothing gets better.
RECURSIVE EpsilonClosure(_, _)
EpsilonClosure(ifst, subset) ==
    LET eps == {a \in ArcsOf(ifst, DOMAIN subset) : a.ilabel = 0}
        next == [s \in DOMAIN subset \cup {a.to : a \in eps} |->
                    BestElement((IF s \in DOMAIN subset THEN {subset[s]} ELSE {}) \cup
                           {Extend(subset[a.from], a) : a \in {b \in eps : b.to = s}})]
    IN  IF next = subset THEN subset ELSE EpsilonClosure(ifst, next)

IsIsymbolOrFinal(ifst, s) ==
    s \in DOMAIN ifst.final \/ \E a \in ArcsOf(ifst, {s}) : a.ilabel # 0

ConvertToMinimal(ifst, subset) ==
    Restrict(subset, {s \in DOMAIN subset : IsIsymbolOrFinal(ifst, s)})

\* Mutant: the weight is that of the best element, the others keep theirs.
Mut_DividesTheBestOnly(subset) ==
    LET best == BestElement(Range(subset))
    IN  [weight |-> best.weight, string |-> <<>>,
         subset |-> [s \in DOMAIN subset |->
            [subset[s] EXCEPT !.weight = IF subset[s] = best THEN <<0, 0>> ELSE @]]]

CommonPrefix(strings) == LongestCommonPrefix(strings)
RemovePrefix(string, n) == SubSeq(string, n + 1, Len(string))

\* The best weight and the common prefix come out of a subset.
NormalizeSubset(subset) ==
    LET weight == BestElement(Range(subset)).weight
        prefix == CommonPrefix({e.string : e \in Range(subset)})
    IN  [weight |-> weight, string |-> prefix,
         subset |-> [s \in DOMAIN subset |->
            [weight |-> Divide(subset[s].weight, weight),
             string |-> RemovePrefix(subset[s].string, Len(prefix))]]]

\* SubsetEqual: the same states and strings, and weights of the same total.
SubsetEqual(s1, s2) ==
    /\ DOMAIN s1 = DOMAIN s2
    /\ \A s \in DOMAIN s1 :
        s1[s].string = s2[s].string /\ Cost(s1[s].weight) = Cost(s2[s].weight)
--------------------------------------------------------------------------------
NoState == 0
NoDeterminizer == [output_states |-> <<>>, queue |-> {}]

BestWeight(det) == det.backward_costs[det.ifst.start]

\* MakeSubsetUnique: of several ways to a state the best.
MakeSubsetUnique(ways) ==
    [s \in {w.to : w \in ways} |-> BestElement({w.element : w \in {v \in ways : v.to = s}})]

\* Mutant: the cost of getting to the state is left out of the priority.
Mut_PriorityFromHere(det, id, label, ways) ==
    [state |-> id, label |-> label, subset |-> MakeSubsetUnique(ways),
     priority_cost |-> Min({Cost(w.element.weight) + det.backward_costs[w.to] : w \in ways})]

\* One transition that is to be processed; its priority is the cost of the best
\* whole path over it.
Task(det, id, label, ways) ==
    [state |-> id, label |-> label, subset |-> MakeSubsetUnique(ways),
     priority_cost |-> det.output_states[id].forward_cost +
                       Min({Cost(w.element.weight) + det.backward_costs[w.to] : w \in ways})]

ProcessTransitions(det, id) ==
    LET subset == det.output_states[id].minimal_subset
        out == {a \in ArcsOf(det.ifst, DOMAIN subset) : a.ilabel # 0}
        ways(label) == {[to |-> a.to, element |-> Extend(subset[a.from], a)] :
                        a \in {b \in out : b.ilabel = label}}
        tasks == {Task(det, id, label, ways(label)) : label \in {a.ilabel : a \in out}}
    IN  [det EXCEPT !.queue = @ \cup {t \in tasks : t.priority_cost <= det.cutoff}]

ProcessFinal(det, id) ==
    LET state == det.output_states[id]
        ends == {[weight |-> Times(state.minimal_subset[s].weight, det.ifst.final[s]),
                  string |-> state.minimal_subset[s].string] :
                    s \in DOMAIN state.minimal_subset \cap DOMAIN det.ifst.final}
        within == ends # {} /\ Cost(BestElement(ends).weight) + state.forward_cost <= det.cutoff
        arc == [ilabel |-> 0, nextstate |-> NoState,
                string |-> BestElement(ends).string, weight |-> BestElement(ends).weight]
    IN  IF within THEN [det EXCEPT !.output_states[id].arcs = Append(@, arc)] ELSE det

NewState(det, subset, forward_cost) ==
    LET id == Len(det.output_states) + 1
        state == [minimal_subset |-> subset, forward_cost |-> forward_cost, arcs |-> <<>>]
    IN  ProcessTransitions(
            ProcessFinal([det EXCEPT !.output_states = Append(@, state)], id), id)

\* The state of a minimal, normalized subset and the determinizer with it.
MinimalToStateId(det, subset, forward_cost) ==
    LET found == {id \in DOMAIN det.output_states :
                    SubsetEqual(det.output_states[id].minimal_subset, subset)}
    IN  IF found # {} THEN [det |-> det, state |-> Min(found)]
        ELSE [det |-> NewState(det, subset, forward_cost), state |-> Len(det.output_states) + 1]

\* The state of a subset before the closure, what weight and string are left
\* over; initial_hash remembers them.
InitialToStateId(det, subset_in, forward_cost) ==
    LET known == {i \in DOMAIN det.initial_hash :
                    SubsetEqual(det.initial_hash[i].subset, subset_in)}
        minimal == ConvertToMinimal(det.ifst, EpsilonClosure(det.ifst, subset_in))
        normal == NormalizeSubset(minimal)
        made == MinimalToStateId(det, normal.subset, forward_cost + Cost(normal.weight))
        entry == [subset |-> subset_in, state |-> made.state,
                  weight |-> normal.weight, string |-> normal.string]
    IN  IF known # {} THEN [det |-> det, entry |-> det.initial_hash[Min(known)]]
        ELSE [det |-> [made.det EXCEPT !.initial_hash = Append(@, entry)], entry |-> entry]

\* One task is processed, and taken from the queue.
ProcessTransition(det, task) ==
    LET normal == NormalizeSubset(task.subset)
        next == InitialToStateId([det EXCEPT !.queue = @ \ {task}], normal.subset,
                    det.output_states[task.state].forward_cost + Cost(normal.weight))
        arc == [ilabel |-> task.label, nextstate |-> next.entry.state,
                string |-> normal.string \o next.entry.string,
                weight |-> Times(normal.weight, next.entry.weight)]
    IN  [next.det EXCEPT !.output_states[task.state].arcs = Append(@, arc)]

InitializeDeterminization(ifst, beam, iter) ==
    LET start == ifst.start :> [weight |-> <<0, 0>>, string |-> <<>>]
    IN  NewState([ifst |-> ifst, beam |-> beam, iter |-> iter,
                  backward_costs |-> ToEnd(ifst), cutoff |-> BestCost(ifst) + beam,
                  output_states |-> <<>>, initial_hash |-> <<>>, queue |-> {}],
                 ConvertToMinimal(ifst, EpsilonClosure(ifst, start)), 0)

\* GetLattice of the decoder, up to the loop of Determinize.
GetLattice(d) == InitializeDeterminization(Invert(GetRawLattice(d)), config.lattice_beam, 0)

\* Mutant: the queue is not in order.
Mut_AnyTask(det) == det.queue

\* The tasks that may be at the top of the priority queue.
Top(det) == {t \in det.queue : \A u \in det.queue : t.priority_cost <= u.priority_cost}

\* CheckMemoryUsage is asked now; what it says depends on sizes left out here.
MayRunOutOfMemory(det) ==
    config.short_of_memory /\ det.queue # {} /\ Len(det.output_states) % MemoryCheckEvery = 0

EffectiveBeam(det) ==
    IF det.queue = {} THEN det.beam
    ELSE (CHOOSE t \in Top(det) : TRUE).priority_cost - BestWeight(det)

\* What comes of an end with an effective beam below half the beam, but for the
\* last try: another try on a lattice pruned to a narrower beam.
TriesAgain(det) == 2 * EffectiveBeam(det) < det.beam /\ det.iter + 1 < MaxNumIters

\* The narrower beam, beam * sqrt(effective beam / beam) and at least half,
\* rounded up, since costs are whole.
NewBeam(det) ==
    LET effective == Max({0, EffectiveBeam(det)})
        root == CHOOSE r \in 0 .. det.beam :
                    r * r >= effective * det.beam /\ (r > 0 => (r - 1) * (r - 1) < effective * det.beam)
    IN  Max({root, (det.beam + 1) \div 2})

Retry(det) ==
    InitializeDeterminization(PruneLattice(NewBeam(det), det.ifst), NewBeam(det), det.iter + 1)
--------------------------------------------------------------------------------
\* The compact lattice that is handed out.
Output(det) ==
    LET all == UNION {{[from |-> id, to |-> a.nextstate, ilabel |-> a.ilabel,
                        string |-> a.string, weight |-> a.weight] :
                            a \in ToSet(det.output_states[id].arcs)} :
                      id \in DOMAIN det.output_states}
    IN  [arcs |-> {a \in all : a.to # NoState}, final |-> {a \in all : a.to = NoState}]

\* ConvertLattice: the paths of a compact lattice from a state, with their words,
\* the strings put together and the weight.
RECURSIVE PathsFrom(_, _)
PathsFrom(clat, id) ==
    {[words |-> <<>>, string |-> f.string, weight |-> f.weight] :
        f \in {g \in clat.final : g.from = id}} \cup
    UNION {{[words |-> <<a.ilabel>> \o p.words, string |-> a.string \o p.string,
             weight |-> Times(a.weight, p.weight)] : p \in PathsFrom(clat, a.to)} :
           a \in {b \in clat.arcs : b.from = id}}

\* The lists of at most n best paths, the best first, that ShortestPath may give.
RECURSIVE ShortestPaths(_, _)
ShortestPaths(paths, n) ==
    IF n = 0 \/ paths = {} THEN {<<>>}
    ELSE UNION {{<<p>> \o rest : rest \in ShortestPaths(paths \ {p}, n - 1)} :
                p \in {q \in paths : \A r \in paths : ~Better(r.weight, q.weight)}}
================================================================================
