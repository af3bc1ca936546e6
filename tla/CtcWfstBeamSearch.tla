--------------------------- MODULE CtcWfstBeamSearch ---------------------------
(***************************************************************************)
(* core/decoder/ctc_wfst_beam_search.cc: the searcher used with a decoding *)
(* graph.  The frames that SkippedFrames leaves are given to the decoder   *)
(* of Kaldi.  An n-best list comes out of the determinized lattice, one    *)
(* task of the determinization at a time.                                  *)
(***************************************************************************)
EXTENDS LatticeDeterminizerPruned, SkippedFrames

CONSTANTS
    DecodingGraphs,   \* the graphs that may be given
    DecoderConfigs    \* settings, hot words, nbest, and a bound on the frames (max_frames)

VARIABLES
    hyps,                 \* inputs_, outputs_, times_ and likelihood_, with the alignment
    det,                  \* the determinization of the lattice, when there is one
    done                  \* FinalizeSearch has returned

wfst_vars == <<fst, config, frames_vars, hyps, det, done, decoder>>

WfstInit ==
    /\ fst \in DecodingGraphs
    /\ config \in DecoderConfigs
    /\ decoder = InitDecoding
    /\ FramesInit
    /\ hyps = <<>>
    /\ det = NoDeterminizer
    /\ done = FALSE

Decode(logp) == FoldLeft(LAMBDA d, g : AdvanceDecoding(d, g.logp), decoder, Given(logp))

\* GetLinearSymbolSequence: the labels of a path that are not epsilon.
Labels(labels) == SelectSeq(labels, LAMBDA l : l # 0)
InputLabels(path) == Labels([i \in DOMAIN path |-> path[i].ilabel])
OutputLabels(path) == Labels([i \in DOMAIN path |-> path[i].olabel])

\* A hypothesis with the units of its frames, whose labels are units plus one;
\* Search asks for no times.
Hypothesis(ilabels, outputs, cost, timed) ==
    LET al == [i \in DOMAIN ilabels |-> ilabels[i] - 1]
    IN  [alignment |-> al, inputs |-> Inputs(al),
         times |-> IF timed THEN InputTimes(al) ELSE <<>>,
         outputs |-> outputs, likelihood |-> -cost]

PathCost(path) == FoldFunction(+, 0, [i \in DOMAIN path |-> Cost(path[i].weight)])

\* The path traced back, and what it costs to end there.
BestHypothesis(d, timed) ==
    LET path == GetBestPath(d)
    IN  Hypothesis(InputLabels(path), OutputLabels(path),
                   PathCost(path) + (IF path = <<>> THEN 0
                                     ELSE FinalCost(FinalCosts(d), Last(path).to[2])), timed)

Busy == det # NoDeterminizer /\ ~done

\* Search with one frame; the times are left to FinalizeSearch.
WfstSearchFrame ==
    /\ ~done /\ ~Busy
    /\ num_frames < config.max_frames
    /\ \E logp \in Loglikes :
        /\ HearFrame(logp)
        /\ decoder' = IF IsSkipped(logp) THEN decoder ELSE Decode(logp)
    /\ hyps' = IF decoded_frames_mapping' = <<>> THEN <<>>
               ELSE <<BestHypothesis(decoder', FALSE)>>
    /\ UNCHANGED <<fst, config, det, done>>

Frozen == <<fst, config, frames_vars>>

\* FinalizeSearch, up to the determinization when a list is wanted (GetLattice).
WfstFinalizeSearch ==
    /\ ~done /\ ~Busy
    /\ decoder' = FinalizeDecoding(decoder)
    /\ IF decoded_frames_mapping = <<>> \/ config.nbest = 1
       THEN /\ done' = TRUE
            /\ hyps' = IF decoded_frames_mapping = <<>> THEN <<>> ELSE <<BestHypothesis(decoder', TRUE)>>
            /\ UNCHANGED det
       ELSE /\ hyps' = <<>>
            /\ det' = GetLattice(decoder')
            /\ UNCHANGED done
    /\ UNCHANGED Frozen

\* One round of the loop of Determinize.
DeterminizeTask ==
    /\ Busy
    /\ \E task \in Top(det) : det' = ProcessTransition(det, task)
    /\ UNCHANGED <<Frozen, decoder, hyps, done>>

\* The loop has ended, or is left because memory is short: another try, or the
\* list of the best paths.
EndDeterminization ==
    /\ Busy
    /\ det.queue = {} \/ MayRunOutOfMemory(det)
    /\ IF TriesAgain(det)
       THEN det' = Retry(det) /\ UNCHANGED <<hyps, done>>
       ELSE /\ done' = TRUE
            /\ \E list \in ShortestPaths(PathsFrom(Output(det), 1), config.nbest) :
                hyps' = [i \in DOMAIN list |->
                            Hypothesis(list[i].string, list[i].words, Cost(list[i].weight), TRUE)]
            /\ UNCHANGED det
    /\ UNCHANGED <<Frozen, decoder>>

WfstReset ==
    /\ done
    /\ done' = FALSE
    /\ ResetFrames
    /\ decoder' = InitDecoding
    /\ hyps' = <<>>
    /\ det' = NoDeterminizer
    /\ UNCHANGED <<fst, config>>

WfstNext ==
    \/ WfstSearchFrame \/ WfstFinalizeSearch \/ WfstReset
    \/ DeterminizeTask \/ EndDeterminization
--------------------------------------------------------------------------------
\* Whatever the hypotheses are, each has a label for each frame the decoder was
\* given, and every token has a time within the utterance, in order.
TokensHaveTimes ==
    \A h \in Range(hyps) :
        /\ Len(h.alignment) = Len(decoded_frames_mapping)
        /\ done =>
            /\ Len(h.times) = Len(h.inputs)
            /\ \A k \in DOMAIN h.times :
                /\ h.times[k] \in 0 .. num_frames - 1
                /\ k > 1 => h.times[k - 1] < h.times[k]

--------------------------------------------------------------------------------
HotWordsGiven == config.hot_words # NoHotWords

\* Every way through the graph for the frames given, with its cost.
Trellis ==
    LET n == Len(accepted)
        emit(f) == {[from |-> <<f - 1, a.from>>, to |-> <<f, a.to>>, ilabel |-> a.ilabel,
                     olabel |-> a.olabel, weight |-> <<GraphCost(a), -accepted[f][a.ilabel - 1]>>] :
                        a \in {b \in ToSet(fst.arcs) : b.ilabel # 0}}
        still(f) == {[from |-> <<f, a.from>>, to |-> <<f, a.to>>, ilabel |-> 0,
                      olabel |-> a.olabel, weight |-> <<a.weight, 0>>] :
                        a \in {b \in ToSet(fst.arcs) : b.ilabel = 0}}
    IN  UNION {emit(f) : f \in 1 .. n} \cup UNION {still(f) : f \in 0 .. n}

Offsets(d) == FoldFunction(+, 0, d.cost_offsets)

\* No link and no backpointer leads to a token that pruning has deleted, and
\* every backpointer has its link ("Error tracing best-path back").
NothingDangles ==
    \A f \in DOMAIN decoder.active_toks : LET toks == decoder.active_toks[f].toks IN
        \A s \in DOMAIN toks :
            /\ \A l \in ToSet(toks[s].links) : l.to[2] \in DOMAIN decoder.active_toks[l.to[1]].toks
            /\ LET from == toks[s].backpointer
               IN  from # None =>
                    /\ from[2] \in DOMAIN decoder.active_toks[from[1]].toks
                    /\ \E l \in ToSet(decoder.active_toks[from[1]].toks[from[2]].links) :
                            l.to = <<f, s>>

\* The lattice is a part of the trellis, with its costs.
LatticeOfTheGraph == ~HotWordsGiven => GetRawLattice(decoder).arcs \subseteq Trellis

\* The path traced back is a best one of the lattice (TestGetBestPath); with a
\* beam that cuts nothing off, of all ways through the graph.
BestPathIsBest ==
    accepted # <<>> /\ ~HotWordsGiven =>
        LET lattice == GetRawLattice(decoder)
            path == GetBestPath(decoder)
            cost == PathCost(path) + Cost(lattice.final[Last(path).to])
        IN  /\ Head(path).from = <<0, fst.start>>
            /\ cost = BestCost(lattice)
            /\ cost = EndCost(decoder, Last(path).to[2]) - Offsets(decoder)
            /\ config.beam >= Infinity => cost = BestCost([lattice EXCEPT !.arcs = Trellis])

\* TLC refutes it: see the README, Findings.  A label that only goes on earns no
\* reward again ("current ilabel equals to previous").
RepeatsEarnNothing ==
    \A f \in DOMAIN decoder.active_toks : \A s \in DOMAIN decoder.active_toks[f].toks :
        \A l \in ToSet(decoder.active_toks[f].toks[s].links) :
            \A m \in ToSet(decoder.active_toks[l.to[1]].toks[l.to[2]].links) :
                l.ilabel = m.ilabel => m.context_score = 0

\* The search and its pruning keep what the answer needs: the lattice is the
\* graph's, nothing in it dangles, and the path traced back is its best.
LatticeHoldsTheBest == NothingDangles /\ LatticeOfTheGraph /\ BestPathIsBest

\* The decoder if it never pruned before the end.
Unpruned ==
    FoldLeft(LAMBDA d, logp : LET emitted == ProcessEmitting(d, logp)
                              IN  ProcessNonemitting(emitted.decoder, emitted.cutoff),
             InitDecoding, accepted)

\* In the end the lattice holds exactly the arcs of paths within lattice_beam of
\* the best one: what was pruned on the way, with stale extra costs and only
\* every prune_interval frames, would not have come back, and nothing else stays.
LatticeIsTheBeam ==
    done /\ accepted # <<>> /\ ~HotWordsGiven =>
        LET full == GetRawLattice(Unpruned)
            dist == FromStart(full)
            back == ToEnd(full)
            best == BestCost(full)
        IN  GetRawLattice(decoder).arcs =
                {a \in full.arcs :
                    dist[a.from] + Cost(a.weight) + back[a.to] <= best + config.lattice_beam}

\* What the decoder answers from is right at every frame, and exactly the beam in
\* the end (lattice-faster-decoder.cc).
LatticeIsRight == LatticeHoldsTheBest /\ LatticeIsTheBeam
--------------------------------------------------------------------------------
\* Every complete path of a lattice, as words, alignment and cost.
RECURSIVE WaysFrom(_, _)
WaysFrom(lattice, n) ==
    (IF n \in DOMAIN lattice.final
     THEN {[words |-> <<>>, string |-> <<>>, cost |-> Cost(lattice.final[n])]} ELSE {}) \cup
    UNION {{[words |-> Labels(<<a.olabel>>) \o w.words, string |-> Labels(<<a.ilabel>>) \o w.string,
             cost |-> Cost(a.weight) + w.cost] : w \in WaysFrom(lattice, a.to)} :
           a \in {b \in lattice.arcs : b.from = n}}

\* The best first: a state that is found again is never found cheaper, and
\* nothing in the queue is cheaper than the best path ("New cost is less",
\* "Cost below best cost was encountered").
CostsAreFinal ==
    det # NoDeterminizer =>
        /\ \A s \in Range(det.output_states) : \A arc \in ToSet(s.arcs) :
            arc.nextstate # NoState =>
                s.forward_cost + Cost(arc.weight) >= det.output_states[arc.nextstate].forward_cost
        /\ \A t \in det.queue : t.priority_cost >= BestWeight(det)

\* "one path per word sequence": each with the cost and an alignment of the best
\* way the lattice has to say it, none within the beam missing; when memory is
\* short, within the effective beam.
OnePathPerWordSequence ==
    done /\ det # NoDeterminizer =>
        LET lattice == GetRawLattice(decoder)
            ways == WaysFrom(lattice, lattice.start)
            paths == PathsFrom(Output(det), 1)
            best(words) == Min({w.cost : w \in {v \in ways : v.words = words}})
            within == {w \in ways : w.cost < BestCost(lattice) + EffectiveBeam(det)}
        IN  /\ \A s \in Range(det.output_states) : IsInjective([i \in DOMAIN s.arcs |-> s.arcs[i].ilabel])
            /\ \A p \in paths :
                /\ [words |-> p.words, string |-> p.string, cost |-> Cost(p.weight)] \in ways
                /\ Cost(p.weight) = best(p.words)
            /\ {w.words : w \in within} \subseteq {p.words : p \in paths}

\* A list of different hypotheses, the best first, which is the very best unless
\* memory ran out before anything was finished.
ListIsInOrder ==
    done /\ accepted # <<>> /\ (det = NoDeterminizer => ~HotWordsGiven) =>
        /\ IsInjective([i \in DOMAIN hyps |-> hyps[i].outputs])
        /\ \A i \in 2 .. Len(hyps) : hyps[i].likelihood <= hyps[i - 1].likelihood
        /\ det = NoDeterminizer \/ EffectiveBeam(det) > 0 =>
            hyps[1].likelihood = -BestCost(GetRawLattice(decoder))

\* The list of hypotheses is that of the lattice, whatever order tasks of equal
\* priority come in, whenever memory runs out (determinize-lattice-pruned.cc), and
\* its tokens have their times.
NbestIsRight == CostsAreFinal /\ OnePathPerWordSequence /\ ListIsInOrder /\ TokensHaveTimes
================================================================================
