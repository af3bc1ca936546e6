-------------------------- MODULE CtcPrefixBeamSearch --------------------------
(***************************************************************************)
(* core/decoder/ctc_prefix_beam_search.cc: the sum over CTC alignments,    *)
(* prefix by prefix and frame by frame, with hot words.                    *)
(*                                                                         *)
(* Log probabilities are whole weights here: LogAdd is +, the sum of two   *)
(* logs is *, and minus infinity is 0.  A reward of n multiplies a weight  *)
(* by 2^n.  The n-best lists are cur_hyps in the order of its total        *)
(* scores: their order between equal scores is open in the code too.       *)
(***************************************************************************)
EXTENDS ContextGraph, FiniteSets, FiniteSetsExt, Functions

CONSTANTS
    LogProbs,      \* the frames the model may output: [0 .. n -> weights]
    ContextSets,   \* the lists of hot words a user may have given
    BeamSizes,     \* pairs of first and second beam size
    MaxSearched      \* bound on the frames of an utterance

blank == 0
kFloatMin == 0     \* stands for -kFloatMax
NoGraph == [states |-> {}]

\* The model's output has a column for every unit and one for blank.
ASSUME LogProbsAssumption == \A logp \in LogProbs : DOMAIN logp = Units \cup {blank}

\* An empty hot word stops the program (CHECK_GT(final_state, 0)).
ASSUME ContextSetsAssumption ==
    \A contexts \in ContextSets : \A c \in contexts : c \in Seq(Nat) /\ c # <<>>

VARIABLES
    opts,           \* the beam sizes
    context_graph,  \* NoGraph, or the graph of the hot words
    cur_hyps,       \* prefix -> PrefixScore
    abs_time_step,  \* the next frame's number
    finalized,      \* FinalizeSearch has been called
    frames,         \* history: the frames since Reset
    pruned          \* history: a beam has cut something off since Reset

ctc_vars == <<opts, context_graph, cur_hyps, abs_time_step, finalized, frames, pruned>>

PrefixScore ==
    [s |-> kFloatMin, ns |-> kFloatMin, v_s |-> kFloatMin, v_ns |-> kFloatMin,
     times_s |-> <<>>, times_ns |-> <<>>,
     context_state |-> Start, context_score |-> 0]

score(h) == h.s + h.ns
viterbi_score(h) == IF h.v_s > h.v_ns THEN h.v_s ELSE h.v_ns
times(h) == IF h.v_s > h.v_ns THEN h.times_s ELSE h.times_ns
total_score(h) == score(h) * 2 ^ h.context_score

\* The words of the search: its n-best prefixes of non-zero weight.
Live == {p \in DOMAIN cur_hyps : score(cur_hyps[p]) > 0}

EmptyPrefix == [p \in {<<>>} |-> [PrefixScore EXCEPT !.s = 1, !.v_s = 1, !.v_ns = 1]]
--------------------------------------------------------------------------------
\* The k best ids of a frame; of equal ones those with the smaller index.
Before(logp, i, j) == logp[i] > logp[j] \/ (logp[i] = logp[j] /\ i < j)

TopK(logp, k) ==
    {i \in DOMAIN logp : Cardinality({j \in DOMAIN logp : Before(logp, j, i)}) < k}

\* Case 0, *a + blank => *a.
BlankStep(n, from, prob) ==
    [n EXCEPT !.s = score(from) * prob, !.v_s = viterbi_score(from) * prob,
              !.times_s = times(from)]

\* Mutant: the last token is added again instead of being moved.
Mut_TokenAdded(n, from, prob, cur_token_prob) ==
    LET better == n.v_ns < from.v_ns * prob
    IN  [n EXCEPT !.ns = @ + from.ns * prob,
                  !.v_ns = IF better THEN from.v_ns * prob ELSE @,
                  !.times_ns = IF better /\ cur_token_prob < prob
                               THEN Append(from.times_ns, abs_time_step) ELSE @]

\* Case 1, *a + a => *a: the last token moves to this frame.  cur_token_prob is
\* set already when the extension of the shorter prefix came before.
RepeatStep(n, from, prob, cur_token_prob) ==
    LET better == n.v_ns < from.v_ns * prob
    IN  [n EXCEPT !.ns = @ + from.ns * prob,
                  !.v_ns = IF better THEN from.v_ns * prob ELSE @,
                  !.times_ns = IF better /\ cur_token_prob < prob
                               THEN Append(Front(from.times_ns), abs_time_step)
                               ELSE @]

\* Mutant: a repeated unit extends a prefix without a blank in between.
Mut_NoBlankBetween(n, from, prob, again) ==
    [n EXCEPT !.ns = @ + score(from) * prob,
              !.v_ns = Max({@, viterbi_score(from) * prob}),
              !.times_ns = IF n.v_ns < viterbi_score(from) * prob
                           THEN Append(times(from), abs_time_step) ELSE @]

\* Mutant: the Viterbi score of an extension is taken whatever it replaces.
Mut_NotBest(n, from, prob, again) ==
    LET v == IF again THEN from.v_s ELSE viterbi_score(from)
    IN  [n EXCEPT !.ns = @ + (IF again THEN from.s ELSE score(from)) * prob,
                  !.v_ns = v * prob,
                  !.times_ns = Append(IF again THEN from.times_s ELSE times(from), abs_time_step)]

\* Cases 2 and 3, *a blank + a => *aa, *a + b => *ab.
ExtendStep(n, from, prob, again) ==
    LET v == IF again THEN from.v_s ELSE viterbi_score(from)
        better == n.v_ns < v * prob
    IN  [n EXCEPT !.ns = @ + (IF again THEN from.s ELSE score(from)) * prob,
                  !.v_ns = IF better THEN v * prob ELSE @,
                  !.times_ns = IF better
                               THEN Append(IF again THEN from.times_s ELSE times(from),
                                           abs_time_step)
                               ELSE @]

\* Mutant: the reward of the unit is not added.
Mut_RewardLost(n, from, step) ==
    [n EXCEPT !.context_state = step.state, !.context_score = from.context_score]

\* UpdateContext: the reward changes by what the graph says.
UpdateContext(n, from, step) ==
    [n EXCEPT !.context_state = step.state, !.context_score = from.context_score + step.score]

CopyContext(n, from) ==
    [n EXCEPT !.context_state = from.context_state, !.context_score = from.context_score]

Repeats(p, top) == p # <<>> /\ Last(p) \in top /\ p \in DOMAIN cur_hyps
Extends(p, top) == p # <<>> /\ Last(p) \in top /\ Front(p) \in DOMAIN cur_hyps
Blanks(p, top) == blank \in top /\ p \in DOMAIN cur_hyps

\* The entry of prefix p in next_hyps.  cur_hyps is unordered: when p was
\* reached both from itself and from the prefix it extends, repeatFirst says
\* which of them came first.  The context is the first comer's.
NextScore(p, logp, top, repeatFirst) ==
    LET own == cur_hyps[p]
        parent == cur_hyps[Front(p)]
        prob == logp[Last(p)]
        again == Len(p) > 1 /\ p[Len(p) - 1] = Last(p)
        viaBlank == IF Blanks(p, top) THEN BlankStep(PrefixScore, own, logp[blank])
                    ELSE PrefixScore
        viaUnit ==
            IF Repeats(p, top) /\ Extends(p, top) THEN
                IF repeatFirst
                THEN ExtendStep(RepeatStep(viaBlank, own, prob, kFloatMin), parent, prob, again)
                ELSE LET e == ExtendStep(viaBlank, parent, prob, again)
                     IN  RepeatStep(e, own, prob, IF e.v_ns > kFloatMin THEN prob ELSE kFloatMin)
            ELSE IF Repeats(p, top) THEN RepeatStep(viaBlank, own, prob, kFloatMin)
            ELSE IF Extends(p, top) THEN ExtendStep(viaBlank, parent, prob, again)
            ELSE viaBlank
        copied ==
            \/ ~Extends(p, top)
            \/ Blanks(p, top) /\ Before(logp, blank, Last(p))
            \/ Repeats(p, top) /\ repeatFirst
    IN  IF context_graph = NoGraph THEN viaUnit
        ELSE IF copied THEN CopyContext(viaUnit, own)
        ELSE UpdateContext(viaUnit, parent,
                           GetNextState(context_graph, parent.context_state, Last(p)))

NextPrefixes(top) ==
    (IF blank \in top THEN DOMAIN cur_hyps ELSE {})
        \cup {p \in DOMAIN cur_hyps : Repeats(p, top)}
        \cup {Append(p, u) : p \in DOMAIN cur_hyps, u \in top \ {blank}}

\* The second beam: any second_beam_size hypotheses no other one beats.
SecondBeam(next_hyps, size) ==
    IF Cardinality(DOMAIN next_hyps) <= size THEN {DOMAIN next_hyps}
    ELSE {kept \in kSubset(size, DOMAIN next_hyps) :
            \A p \in kept, q \in DOMAIN next_hyps \ kept :
                total_score(next_hyps[p]) >= total_score(next_hyps[q])}
--------------------------------------------------------------------------------
CtcInit ==
    /\ opts \in BeamSizes
    /\ context_graph \in {NoGraph} \cup {BuildContextGraph(c) : c \in ContextSets}
    /\ cur_hyps = EmptyPrefix
    /\ abs_time_step = 0
    /\ finalized = FALSE
    /\ frames = <<>>
    /\ pruned = FALSE

\* One frame of Search; a call does this for each frame of its chunk.  Only
\* the entries in ordered depend on the order of the hash map.
SearchFrame ==
    /\ ~finalized
    /\ Len(frames) < MaxSearched
    /\ \E logp \in LogProbs :
        LET top == TopK(logp, opts.first_beam_size)
            prefixes == NextPrefixes(top)
            ordered == {p \in prefixes :
                            NextScore(p, logp, top, TRUE) # NextScore(p, logp, top, FALSE)}
        IN  \E first \in SUBSET ordered :
            LET next_hyps == [p \in prefixes |-> NextScore(p, logp, top, p \in first)]
            IN  \E kept \in SecondBeam(next_hyps, opts.second_beam_size) :
                /\ cur_hyps' = Restrict(next_hyps, kept)
                /\ pruned' = (pruned \/ kept # prefixes \/ top # DOMAIN logp)
                /\ frames' = Append(frames, logp)
    /\ abs_time_step' = abs_time_step + 1
    /\ UNCHANGED <<opts, context_graph, finalized>>

\* At the end of the utterance every unfinished match falls back.
FinalizeSearch ==
    /\ ~finalized
    /\ finalized' = TRUE
    /\ cur_hyps' =
        IF context_graph = NoGraph THEN cur_hyps
        ELSE [p \in DOMAIN cur_hyps |->
                LET h == cur_hyps[p]
                IN  IF h.context_state = Start THEN h
                    ELSE UpdateContext(h, h, GetNextStateAtEnd(context_graph, h.context_state))]
    /\ UNCHANGED <<opts, context_graph, abs_time_step, frames, pruned>>

\* Mutant: frames are numbered on.
Mut_TimeGoesOn ==
    /\ cur_hyps' = EmptyPrefix
    /\ finalized' = FALSE
    /\ frames' = <<>>
    /\ pruned' = FALSE
    /\ UNCHANGED <<opts, context_graph, abs_time_step>>

\* AsrDecoder resets its searcher before the next utterance.
CtcReset ==
    /\ cur_hyps' = EmptyPrefix
    /\ abs_time_step' = 0
    /\ finalized' = FALSE
    /\ frames' = <<>>
    /\ pruned' = FALSE
    /\ UNCHANGED <<opts, context_graph>>

CtcNext == SearchFrame \/ FinalizeSearch \/ CtcReset

CtcSpec == CtcInit /\ [][CtcNext]_ctc_vars
--------------------------------------------------------------------------------
\* An alignment gives every frame an id.
Alignments == [DOMAIN frames -> Units \cup {blank}]

Frames(P(_)) == SelectSeq([i \in DOMAIN frames |-> i], P)

\* The frames at which a token of the alignment ends, and the tokens.
LastFrames(al) ==
    Frames(LAMBDA i : al[i] # blank /\ (i = Len(frames) \/ al[i + 1] # al[i]))

Collapse(al) == [k \in DOMAIN LastFrames(al) |-> al[LastFrames(al)[k]]]

AlignmentWeight(al) == FoldFunction(LAMBDA x, y : x * y, 1, [i \in DOMAIN al |-> frames[i][al[i]]])

\* The alignments of all prefixes, with what the properties ask of them.
Paths ==
    {[weight |-> AlignmentWeight(al), tokens |-> Collapse(al), times |-> LastFrames(al),
      blank |-> frames = <<>> \/ al[Len(frames)] = blank, al |-> al] : al \in Alignments}

SumOf(paths) == MapThenSumSet(LAMBDA a : a.weight, paths)
BestOf(paths) == Max({a.weight : a \in paths} \cup {0})

CtcTypes ==
    /\ cur_hyps # <<>>
    /\ Cardinality(DOMAIN cur_hyps) <= opts.second_beam_size
    /\ abs_time_step = Len(frames)
    /\ \A p \in DOMAIN cur_hyps :
        /\ ToSet(p) \subseteq Units
        /\ cur_hyps[p].context_score \in Nat
        /\ context_graph # NoGraph => cur_hyps[p].context_state \in context_graph.states

\* A prefix's blank and non-blank scores are the sums over exactly the
\* alignments that collapse to it and end so, each counted once; beams can
\* only lose alignments, never count one twice (Search, token passing).
SumsOverAlignments ==
    LET paths == Paths
    IN  \A p \in DOMAIN cur_hyps :
        LET mine == {a \in paths : a.tokens = p}
            s == SumOf({a \in mine : a.blank})
            ns == SumOf({a \in mine : ~a.blank})
        IN  IF pruned THEN cur_hyps[p].s <= s /\ cur_hyps[p].ns <= ns
            ELSE cur_hyps[p].s = s /\ cur_hyps[p].ns = ns

\* The Viterbi score of a prefix is the weight of its best alignment, or of some
\* alignment when a beam has cut the best one off.
ViterbiIsAnAlignment ==
    LET paths == Paths
    IN  \A p \in Live :
        LET mine == {a \in paths : a.tokens = p}
        IN  /\ \E a \in mine : a.weight = viterbi_score(cur_hyps[p])
            /\ ~pruned => viterbi_score(cur_hyps[p]) = BestOf(mine)

\* The times of a hypothesis, which become word times, are the last frames of
\* its tokens in one alignment of this utterance, whatever order the hash map
\* is read in.
TimesAreAnAlignment ==
    LET paths == Paths
    IN  \A p \in Live :
        \E a \in paths :
            a.tokens = p /\ times(cur_hyps[p]) = [k \in DOMAIN a.times |-> a.times[k] - 1]

\* The scores of a hypothesis are sums over its alignments, its Viterbi score and
\* its times are both those of an alignment.
ScoresAndTimesOfAlignments ==
    CtcTypes /\ SumsOverAlignments /\ ViterbiIsAnAlignment /\ TimesAreAnAlignment

\* The times belong to the Viterbi alignment ("times of viterbi none blank
\* path"): an alignment of that weight ends its tokens there.
\* TLC refutes it: see the README, "Findings".
TimesAreViterbi ==
    LET paths == Paths
    IN  \A p \in Live :
        \E a \in paths :
            /\ a.tokens = p
            /\ a.weight = viterbi_score(cur_hyps[p])
            /\ times(cur_hyps[p]) = [k \in DOMAIN a.times |-> a.times[k] - 1]
--------------------------------------------------------------------------------
\* The graph's answer to a whole prefix, unit by unit from the start.
Walk(p) ==
    LET walk[i \in 0 .. Len(p)] ==
            IF i = 0 THEN [state |-> Start, score |-> 0]
            ELSE LET r == GetNextState(context_graph, walk[i - 1].state, p[i])
                 IN  [r EXCEPT !.score = @ + walk[i - 1].score]
    IN  walk[Len(p)]

HotWords == context_graph # NoGraph /\ ~finalized

\* A hypothesis has the context state and reward of its own prefix, by whichever
\* of its alignments it was reached first.
ContextByPrefix ==
    HotWords => \A p \in DOMAIN cur_hyps :
        [state |-> cur_hyps[p].context_state, score |-> cur_hyps[p].context_score] = Walk(p)

NoWholeHotWord(p) ==
    \A i \in 1 .. Len(p) : \A j \in i .. Len(p) : SubSeq(p, i, j) \notin context_graph.finals

LongestMatch(p) ==
    CHOOSE q \in Suffixes(p) \cap context_graph.states :
        \A r \in Suffixes(p) \cap context_graph.states : Len(r) <= Len(q)

\* As long as a hypothesis holds no whole hot word, its state is the longest
\* unfinished match at its end and its reward is that match's: matches that were
\* given up have left nothing behind, however they overlapped.
UnfinishedMatchesAreRepaid ==
    HotWords => \A p \in DOMAIN cur_hyps :
        NoWholeHotWord(p) =>
            /\ cur_hyps[p].context_state = LongestMatch(p)
            /\ cur_hyps[p].context_score = TotalWeight(LongestMatch(p))

\* No hot word is a part of another one.
Separate(words) ==
    \A c, d \in words : \A i \in 1 .. Len(d) : \A j \in i .. Len(d) : SubSeq(d, i, j) = c => c = d

\* A whole hot word at the end of a hypothesis has been rewarded in full, if it is
\* the first one there or if no hot word is a part of another.
HotWordIsRewarded ==
    HotWords => \A p \in DOMAIN cur_hyps : \A c \in context_graph.finals :
        /\ IsSuffix(c, p)
        /\ Separate(context_graph.finals) \/ NoWholeHotWord(Front(p))
        => cur_hyps[p].context_score >= TotalWeight(c)

\* Any whole hot word at the end of a hypothesis has been rewarded in full.
\* TLC refutes it: see the README, "Findings".
EveryHotWordIsRewarded ==
    HotWords => \A p \in DOMAIN cur_hyps : \A c \in context_graph.finals :
        IsSuffix(c, p) => cur_hyps[p].context_score >= TotalWeight(c)

\* A reward is a function of the prefix and pays for whole hot words only
\* (UpdateContext and GetNextState while frames are searched).
RewardsBelongToPrefix ==
    ContextByPrefix /\ UnfinishedMatchesAreRepaid /\ HotWordIsRewarded

\* "We should backoff the context score/state when the context is not fully
\* matched at the last time": without a whole hot word nothing is left.
\* TLC refutes it: see the README, "Findings".
BacksOffAtEnd ==
    finalized /\ context_graph # NoGraph => \A p \in DOMAIN cur_hyps :
        NoWholeHotWord(p) => cur_hyps[p].context_score = 0
================================================================================
