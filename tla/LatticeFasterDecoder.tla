-------------------------- MODULE LatticeFasterDecoder --------------------------
(***************************************************************************)
(* core/kaldi/decoder/lattice-faster-decoder.cc and its online form: the   *)
(* token passing search over a decoding graph.  A frame keeps one token    *)
(* per state of the graph, a token its forward links; pruning removes what *)
(* no path near the best one needs.  Costs are whole numbers.  The hash of *)
(* the current tokens is the last frame's list, in the order of insertion  *)
(* (the graphs are smaller than the hash).  Logs and counters are left out.*)
(***************************************************************************)
EXTENDS ContextGraph, FiniteSets, FiniteSetsExt, Functions, TLC

VARIABLES
    fst,        \* the decoding graph: start, arcs, and what it costs to end in a state
    config,     \* LatticeFasterDecoderConfig, nbest and the hot words
    decoder     \* the members of the object that change

NoHotWords == [states |-> {}]
Infinity == 10000
None == <<>>

Arcs(state) == SelectSeq(fst.arcs, LAMBDA arc : arc.from = state)
Emitting(state) == SelectSeq(Arcs(state), LAMBDA arc : arc.ilabel # 0)
Epsilons(state) == SelectSeq(Arcs(state), LAMBDA arc : arc.ilabel = 0)

\* A TokenList; order is the order of insertion, the linked list is its reverse.
NoTokens == [order |-> <<>>, toks |-> <<>>,
             must_prune_forward_links |-> TRUE, must_prune_tokens |-> TRUE]

Token(tot_cost, backpointer) ==
    [tot_cost |-> tot_cost, extra_cost |-> 0, ilabel |-> -1, context_state |-> Start,
     links |-> <<>>, backpointer |-> backpointer]

NumFramesDecoded(d) == Len(d.cost_offsets)

Costs(frame) == [i \in DOMAIN frame.order |-> frame.toks[frame.order[i]].tot_cost]

\* FindOrAddToken reports a new token or a lower cost as a change.
Changes(frame, state, tot_cost) ==
    state \notin DOMAIN frame.toks \/ frame.toks[state].tot_cost > tot_cost

\* Mutant: a cheaper way into a state leaves the old backpointer.
Mut_OldBackpointer(frame, state, tot_cost, backpointer) ==
    IF state \notin DOMAIN frame.toks
    THEN [frame EXCEPT !.order = Append(@, state),
                       !.toks = @ @@ (state :> Token(tot_cost, backpointer))]
    ELSE [frame EXCEPT !.toks[state].tot_cost = IF @ > tot_cost THEN tot_cost ELSE @]

FindOrAddToken(frame, state, tot_cost, backpointer) ==
    IF state \notin DOMAIN frame.toks
    THEN [frame EXCEPT !.order = Append(@, state),
                       !.toks = @ @@ (state :> Token(tot_cost, backpointer))]
    ELSE IF Changes(frame, state, tot_cost)
    THEN [frame EXCEPT !.toks[state].tot_cost = tot_cost,
                       !.toks[state].backpointer = backpointer]
    ELSE frame

\* The cost above which tokens are not extended, and the beam that goes with it.
GetCutoff(frame) ==
    LET costs == SortSeq(Costs(frame), <)
        best == IF costs = <<>> THEN Infinity ELSE costs[1]
        nth(n) == IF Len(costs) > n THEN costs[n + 1] ELSE Infinity
        at(cutoff) ==
            [cutoff |-> cutoff,
             beam |-> IF cutoff = Infinity THEN Infinity
                      ELSE cutoff - best + config.beam_delta]
    IN  IF nth(config.max_active) < best + config.beam THEN at(nth(config.max_active))
        ELSE IF nth(config.min_active) > best + config.beam THEN at(nth(config.min_active))
        ELSE [cutoff |-> best + config.beam, beam |-> config.beam]
--------------------------------------------------------------------------------
GraphCost(arc) == arc.weight + (IF arc.from # arc.to THEN config.length_penalty ELSE 0)

\* What the hot words add for the label of an arc: nothing for blank or for the
\* label the token came with.
ContextScore(tok, ilabel) ==
    IF config.hot_words = NoHotWords \/ ilabel - 1 = 0 \/ ilabel = tok.ilabel THEN 0
    ELSE GetNextState(config.hot_words, tok.context_state, ilabel - 1).score

\* One emitting arc: from frame f, here, to next.  The reward is in the link only.
EmitArc(f, logp, offset, beam, acc, arc) ==
    LET tok == acc.here.toks[arc.from]
        ac_cost == offset - logp[arc.ilabel - 1]
        tot_cost == tok.tot_cost + ac_cost + GraphCost(arc)
        reward == ContextScore(tok, arc.ilabel)
        link == [to |-> <<f + 1, arc.to>>, ilabel |-> arc.ilabel, olabel |-> arc.olabel,
                 graph_cost |-> GraphCost(arc) - reward, acoustic_cost |-> ac_cost,
                 context_score |-> reward]
    IN  IF tot_cost >= acc.next_cutoff THEN acc
        ELSE [next_cutoff |-> Min({acc.next_cutoff, tot_cost + beam}),
              next |-> FindOrAddToken(acc.next, arc.to, tot_cost, <<f, arc.from>>),
              here |-> [acc.here EXCEPT !.toks[arc.from].links = <<link>> \o @]]

ProcessEmitting(d, logp) ==
    LET f == NumFramesDecoded(d)
        here == d.active_toks[f]
        cut == GetCutoff(here)
        costs == Costs(here)
        best == IF costs = <<>> THEN 0 ELSE Min(Range(costs))
        first == {i \in DOMAIN costs : costs[i] = best}
        tight == IF first = {} THEN {} ELSE ToSet(Emitting(here.order[Min(first)]))
        extended == SelectSeq(here.order, LAMBDA s : here.toks[s].tot_cost <= cut.cutoff)
        result == FoldLeft(
            LAMBDA acc, arc : EmitArc(f, logp, -best, cut.beam, acc, arc),
            [next_cutoff |->
                Min({Infinity} \cup {GraphCost(arc) - logp[arc.ilabel - 1] + cut.beam : arc \in tight}),
             next |-> NoTokens, here |-> here],
            FlattenSeq([i \in DOMAIN extended |-> Emitting(extended[i])]))
    IN  [cutoff |-> result.next_cutoff,
         decoder |->
            [d EXCEPT !.active_toks = (f :> result.here) @@ ((f + 1) :> result.next) @@ @,
                      !.cost_offsets = Append(@, -best)]]

\* One epsilon arc of the token at cur_cost.
EpsilonArc(f, cutoff, cur_cost, acc, arc) ==
    LET tot_cost == cur_cost + arc.weight
        changed == Changes(acc.frame, arc.to, tot_cost)
        found == FindOrAddToken(acc.frame, arc.to, tot_cost, <<f, arc.from>>)
        link == [to |-> <<f, arc.to>>, ilabel |-> 0, olabel |-> arc.olabel,
                 graph_cost |-> arc.weight, acoustic_cost |-> 0, context_score |-> 0]
    IN  IF tot_cost >= cutoff THEN acc
        ELSE [frame |->
                [found EXCEPT
                    !.toks[arc.to].context_state =
                        IF changed THEN found.toks[arc.from].context_state ELSE @,
                    !.toks[arc.from].links = <<link>> \o @],
              queue |-> acc.queue \o
                (IF changed /\ Epsilons(arc.to) # <<>> THEN <<arc.to>> ELSE <<>>)]

\* The queue of ProcessNonemitting, last in first out; a token that is visited
\* again makes its links anew.
RECURSIVE ProcessQueue(_, _, _, _)
ProcessQueue(f, cutoff, frame, queue) ==
    IF queue = <<>> THEN frame
    ELSE IF frame.toks[Last(queue)].tot_cost >= cutoff
    THEN ProcessQueue(f, cutoff, frame, Front(queue))
    ELSE LET state == Last(queue)
             visited == FoldLeft(
                LAMBDA acc, arc : EpsilonArc(f, cutoff, frame.toks[state].tot_cost, acc, arc),
                [frame |-> [frame EXCEPT !.toks[state].links = <<>>], queue |-> Front(queue)],
                Epsilons(state))
         IN  ProcessQueue(f, cutoff, visited.frame, visited.queue)

ProcessNonemitting(d, cutoff) ==
    LET f == NumFramesDecoded(d)
        queue == SelectSeq(d.active_toks[f].order, LAMBDA s : Epsilons(s) # <<>>)
    IN  [d EXCEPT !.active_toks[f] = ProcessQueue(f, cutoff, @, queue)]

InitDecoding ==
    ProcessNonemitting(
        [active_toks |-> 0 :> FindOrAddToken(NoTokens, fst.start, 0, None),
         cost_offsets |-> <<>>, decoding_finalized |-> FALSE,
         final_costs |-> <<>>, final_best_cost |-> 0],
        config.beam)
--------------------------------------------------------------------------------
Abs(n) == IF n < 0 THEN -n ELSE n

\* How much worse than the best path through its target the best path over a
\* link is; the cost of giving up a hot word does not count.
LinkExtraCost(d, tok, link) ==
    LET next_tok == d.active_toks[link.to[1]].toks[link.to[2]]
    IN  next_tok.extra_cost + tok.tot_cost + link.acoustic_cost + link.graph_cost
            - next_tok.tot_cost

Backoff(link) == IF link.context_score < 0 THEN link.context_score ELSE 0

\* One token of frame f: links beyond lattice_beam go, the best of the others
\* (or own, what it costs to end here) is its extra cost.
PruneLinks(d, f, state, own) ==
    LET tok == d.active_toks[f].toks[state]
        Extra(l) == LinkExtraCost(d, tok, l) + (IF f = NumFramesDecoded(d) THEN 0 ELSE Backoff(l))
        kept == SelectSeq(tok.links, LAMBDA l : Extra(l) <= config.lattice_beam)
        best == Min({own} \cup {Max({0, Extra(l)}) : l \in ToSet(kept)})
    IN  [d EXCEPT !.active_toks[f].toks[state].links = kept,
                  !.active_toks[f].toks[state].extra_cost =
                      IF best > config.lattice_beam THEN Infinity ELSE best]

\* The loop body of PruneForwardLinks, over the linked list.
PrunePass(d, f) ==
    FoldLeft(LAMBDA acc, s : PruneLinks(acc, f, s, Infinity),
             d, Reverse(d.active_toks[f].order))

ExtraCosts(d, f) == [s \in DOMAIN d.active_toks[f].toks |-> d.active_toks[f].toks[s].extra_cost]

ExtraCostsChanged(d, e, f, delta) ==
    \E s \in DOMAIN ExtraCosts(d, f) : Abs(ExtraCosts(d, f)[s] - ExtraCosts(e, f)[s]) > delta

\* Mutant: one pass, although the links are not in topological order.
Mut_OnePass(d, f, delta) == PrunePass(d, f)

RECURSIVE PruneForwardLinks(_, _, _)
PruneForwardLinks(d, f, delta) ==
    IF ExtraCostsChanged(d, PrunePass(d, f), f, delta)
    THEN PruneForwardLinks(PrunePass(d, f), f, delta)
    ELSE PrunePass(d, f)

\* Mutant: a token is kept, or not, by its links alone.
Mut_NoLinksNoToken(d, f) ==
    LET alive == {s \in DOMAIN d.active_toks[f].toks : d.active_toks[f].toks[s].links # <<>>}
    IN  [d EXCEPT !.active_toks[f].order = SelectSeq(@, LAMBDA s : s \in alive),
                  !.active_toks[f].toks = Restrict(@, alive)]

PruneTokensForFrame(d, f) ==
    LET alive == {s \in DOMAIN d.active_toks[f].toks : ExtraCosts(d, f)[s] # Infinity}
    IN  [d EXCEPT !.active_toks[f].order = SelectSeq(@, LAMBDA s : s \in alive),
                  !.active_toks[f].toks = Restrict(@, alive)]

\* One round of the loop of PruneActiveTokens.
PruneFrame(d, f, delta) ==
    LET again == ExtraCostsChanged(d, PrunePass(d, f), f, delta)
        pruned == PruneForwardLinks(d, f, delta)
        lost == \E s \in DOMAIN ExtraCosts(d, f) :
                    d.active_toks[f].toks[s].links # pruned.active_toks[f].toks[s].links
        marked == [frame \in DOMAIN pruned.active_toks |->
            [pruned.active_toks[frame] EXCEPT
                !.must_prune_forward_links = IF frame = f THEN FALSE ELSE @ \/ (again /\ frame = f - 1),
                !.must_prune_tokens = @ \/ (lost /\ frame = f)]]
        e == IF d.active_toks[f].must_prune_forward_links
             THEN [pruned EXCEPT !.active_toks = marked] ELSE d
    IN  IF f + 1 < NumFramesDecoded(d) /\ e.active_toks[f + 1].must_prune_tokens
        THEN [PruneTokensForFrame(e, f + 1) EXCEPT !.active_toks[f + 1].must_prune_tokens = FALSE]
        ELSE e

\* The frames before the last one, the latest first.
Backwards(d) == [i \in 1 .. NumFramesDecoded(d) |-> NumFramesDecoded(d) - i]

\* prune_scale is a tenth: delta is rounded down, costs being whole.
PruneActiveTokens(d) ==
    FoldLeft(LAMBDA acc, f : PruneFrame(acc, f, config.lattice_beam \div 10), d, Backwards(d))

AdvanceDecoding(d, logp) ==
    LET pruned == IF NumFramesDecoded(d) % config.prune_interval = 0
                  THEN PruneActiveTokens(d) ELSE d
        emitted == ProcessEmitting(pruned, logp)
    IN  ProcessNonemitting(emitted.decoder, emitted.cutoff)
--------------------------------------------------------------------------------
\* final_costs: the tokens that are in a final state; and the best cost with
\* them, or without when there are none.
ComputeFinalCosts(d) ==
    LET toks == d.active_toks[NumFramesDecoded(d)].toks
        ends == {s \in DOMAIN toks : s \in DOMAIN fst.final}
    IN  [final_costs |-> [s \in ends |-> fst.final[s]],
         best |-> IF ends # {} THEN Min({toks[s].tot_cost + fst.final[s] : s \in ends})
                  ELSE Min({Infinity} \cup {toks[s].tot_cost : s \in DOMAIN toks})]

\* A token that ends inside a hot word gives its reward back.
UpdateFinalContext(d) ==
    LET back(tok) ==
            LET r == GetNextStateAtEnd(config.hot_words, tok.context_state)
            IN  [tok EXCEPT
                    !.context_state = r.state,
                    !.tot_cost = @ - r.score,
                    !.links = [i \in DOMAIN @ |->
                        IF i = 1 THEN [@[i] EXCEPT !.context_score = r.score] ELSE @[i]]]
        Inside(tok) == tok.context_state \notin {Start} \cup config.hot_words.finals
    IN  IF config.hot_words = NoHotWords THEN d
        ELSE [d EXCEPT !.active_toks[NumFramesDecoded(d)].toks =
                [s \in DOMAIN @ |-> IF Inside(@[s]) THEN back(@[s]) ELSE @[s]]]

\* What it costs to end in a state, as GetRawLattice and BestPathEnd take it too:
\* when no token is in a final state, all are.
FinalCost(final_costs, state) ==
    IF final_costs = <<>> THEN 0
    ELSE IF state \in DOMAIN final_costs THEN final_costs[state] ELSE Infinity

RECURSIVE PruneFinalLinks(_)
PruneFinalLinks(d) ==
    LET f == NumFramesDecoded(d)
        own(tok, s) == tok.tot_cost + FinalCost(d.final_costs, s) - d.final_best_cost
        pass == FoldLeft(LAMBDA acc, s : PruneLinks(acc, f, s, own(acc.active_toks[f].toks[s], s)),
                         d, Reverse(d.active_toks[f].order))
    IN  IF ExtraCostsChanged(d, pass, f, 0) THEN PruneFinalLinks(pass) ELSE pass

PruneForwardLinksFinal(d) ==
    LET ends == ComputeFinalCosts(d)
    IN  PruneFinalLinks([d EXCEPT !.final_costs = ends.final_costs,
                                  !.final_best_cost = ends.best,
                                  !.decoding_finalized = TRUE])

FinalizeDecoding(d) ==
    PruneTokensForFrame(
        FoldLeft(LAMBDA acc, f : PruneTokensForFrame(PruneForwardLinks(acc, f, 0), f + 1),
                 PruneForwardLinksFinal(UpdateFinalContext(d)), Backwards(d)),
        0)
--------------------------------------------------------------------------------
FinalCosts(d) == IF d.decoding_finalized THEN d.final_costs ELSE ComputeFinalCosts(d).final_costs

LastToks(d) == d.active_toks[NumFramesDecoded(d)].toks

EndCost(d, state) == LastToks(d)[state].tot_cost + FinalCost(FinalCosts(d), state)

\* BestPathEnd: the state of the best token, the newest of equal ones, if any.
BestPathEnd(d) ==
    LET order == Reverse(d.active_toks[NumFramesDecoded(d)].order)
        best == Min({Infinity} \cup {EndCost(d, s) : s \in ToSet(order)})
        found == {i \in DOMAIN order : EndCost(d, order[i]) = best /\ best < Infinity}
    IN  IF found = {} THEN {} ELSE {order[Min(found)]}

\* A weight of a lattice is its graph and its acoustic part (ConvertToCost).
Cost(weight) == weight[1] + weight[2]

\* Mutant: the offset of the frame before.
Mut_OffsetOfFrameBefore(d, f, state, link) ==
    [from |-> <<f, state>>, to |-> link.to, ilabel |-> link.ilabel, olabel |-> link.olabel,
     weight |-> <<link.graph_cost,
                  link.acoustic_cost - (IF link.ilabel # 0 /\ f > 0 THEN d.cost_offsets[f] ELSE 0)>>]

\* An arc of the lattice as it is handed out: without the offset of its frame.
LatticeArc(d, f, state, link) ==
    [from |-> <<f, state>>, to |-> link.to, ilabel |-> link.ilabel, olabel |-> link.olabel,
     weight |-> <<link.graph_cost,
                  link.acoustic_cost - (IF link.ilabel # 0 THEN d.cost_offsets[f + 1] ELSE 0)>>]

\* TraceBackBestPath, from a token to the start: the best link of each
\* backpointer to the token.
RECURSIVE TraceBack(_, _)
TraceBack(d, at) ==
    LET from == d.active_toks[at[1]].toks[at[2]].backpointer
    IN  IF from = None THEN <<>>
        ELSE LET links == SelectSeq(d.active_toks[from[1]].toks[from[2]].links,
                                    LAMBDA l : l.to = at)
                 cost(i) == links[i].graph_cost + links[i].acoustic_cost
                 best == CHOOSE i \in DOMAIN links : \A j \in DOMAIN links :
                            cost(i) < cost(j) \/ (cost(i) = cost(j) /\ i <= j)
             IN  Append(TraceBack(d, from), LatticeArc(d, from[1], from[2], links[best]))

\* GetBestPath of LatticeFasterOnlineDecoder: the arcs from the start.
GetBestPath(d) ==
    IF BestPathEnd(d) = {} THEN <<>>
    ELSE TraceBack(d, <<NumFramesDecoded(d), CHOOSE s \in BestPathEnd(d) : TRUE>>)

\* GetRawLattice: arcs between tokens, and what it costs to end in one.
GetRawLattice(d) ==
    [start |-> <<0, fst.start>>,
     arcs |-> {LatticeArc(d, f, s, l) : <<f, s, l>> \in
                UNION {{<<f, s, l>> : l \in ToSet(d.active_toks[f].toks[s].links)} :
                        <<f, s>> \in UNION {{f} \X DOMAIN d.active_toks[f].toks :
                                              f \in DOMAIN d.active_toks}}},
     final |-> [to \in {<<NumFramesDecoded(d), s>> : s \in
                         {r \in DOMAIN LastToks(d) : FinalCost(FinalCosts(d), r) < Infinity}} |->
                    <<FinalCost(FinalCosts(d), to[2]), 0>>]]
================================================================================
