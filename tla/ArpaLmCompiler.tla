---------------------------- MODULE ArpaLmCompiler ----------------------------
(***************************************************************************)
(* core/kaldi/lm and lmbin/arpa2fst.cc: an ARPA file becomes a language    *)
(* model transducer.  A state stands for a history; the n-grams come line  *)
(* by line, the orders one after the other.  A KALDI_ERR is logged and the *)
(* program goes on.  Words are labels, a word that the symbol table lacks  *)
(* is Oov; costs are whole numbers (negated log probabilities).            *)
(***************************************************************************)
EXTENDS FstTools

CONSTANTS
    Bos, Eos,             \* bos_symbol and eos_symbol
    Disambig,             \* the label of #0, when --disambig-symbol is given
    Oov,                  \* a word the symbol table lacks (kSkipNGram)
    ArpaFiles             \* the lines of each order's section: words, cost, backoff

VARIABLES
    sections,             \* what is still to be read, the current section first
    order,                \* cur_order
    max_order,            \* NgramCounts().size()
    sub_eps,              \* 0, or the label of #0
    lm,                   \* fst_
    history,              \* history_: words -> state
    eos_state,
    kept,                 \* the n-grams that are in the transducer (for the properties)
    errors,               \* something was logged as an error
    complete              \* ReadComplete has returned

arpa_vars == <<sections, order, max_order, sub_eps, lm, history, eos_state, kept, errors, complete>>

ArpaInit ==
    /\ sections \in ArpaFiles
    /\ order = 1 /\ max_order = Len(sections)
    /\ sub_eps \in {0, Disambig}
    /\ lm = IF sub_eps = 0 THEN SetFinal(AddState(AddState(EmptyFst)), 2, 0) ELSE AddState(EmptyFst)
    /\ eos_state = IF sub_eps = 0 THEN 2 ELSE kNoStateId
    /\ history = <<>> :> 1
    /\ kept = {} /\ errors = FALSE /\ complete = FALSE

\* Mutant: only the next shorter history is looked up.
Mut_BackoffState(key) == IF key \in DOMAIN history THEN history[key] ELSE history[<<>>]

\* Histories of which the last words are known: the longest one found.
RECURSIVE BackoffState(_)
BackoffState(key) == IF key \in DOMAIN history THEN history[key] ELSE BackoffState(Tail(key))

\* Find or create the state of a history; a new one gets its backoff arc.
AddStateWithBackoff(key, backoff) ==
    IF key \in DOMAIN history THEN [fst |-> lm, history |-> history, dest |-> history[key]]
    ELSE LET dest == NumStates(lm) + 1
         IN  [fst |-> AddArc(AddState(lm), dest, Arc(sub_eps, 0, backoff, BackoffState(Tail(key)))),
              history |-> history @@ (key :> dest), dest |-> dest]

BadPlacement(words) ==
    \E i \in DOMAIN words : (i > 1 /\ words[i] = Bos) \/ (i < Len(words) /\ words[i] = Eos)

\* <s> has no cost; without #0 it is read on the way out of a start of its own.
AddWordArc(a, source, ngram) ==
    LET sym == Last(ngram.words)
        start == NumStates(a.fst) + 1
    IN  IF sym # Bos THEN AddArc(a.fst, source, Arc(sym, sym, ngram.cost, a.dest))
        ELSE IF sub_eps = 0
        THEN AddArc([AddState(a.fst) EXCEPT !.start = start], start, Arc(sym, sym, 0, a.dest))
        ELSE [a.fst EXCEPT !.start = a.dest]

\* ArpaLmCompilerImpl::ConsumeNGram, for an n-gram whose heads have a state.
Consume(ngram) ==
    LET source == history[Front(ngram.words)]
        key == IF order = max_order THEN Tail(ngram.words) ELSE ngram.words
        a == AddStateWithBackoff(key, ngram.backoff)
    IN  IF Last(ngram.words) = Eos
        THEN /\ lm' = IF sub_eps = 0 THEN AddArc(lm, source, Arc(Eos, Eos, ngram.cost, eos_state))
                      ELSE SetFinal(lm, source, ngram.cost)
             /\ UNCHANGED history
        ELSE lm' = AddWordArc(a, source, ngram) /\ history' = a.history

Skipped(words) == Oov \in Range(words) \/ BadPlacement(words) \/ Front(words) \notin DOMAIN history

ReadNGram ==
    /\ sections # <<>> /\ Head(sections) # <<>>
    /\ LET ngram == Head(Head(sections))
       IN  IF Skipped(ngram.words) THEN UNCHANGED <<lm, history, kept>>
           ELSE Consume(ngram) /\ kept' = kept \cup {ngram}
    /\ sections' = <<Tail(Head(sections))>> \o Tail(sections)
    /\ UNCHANGED <<order, max_order, sub_eps, eos_state, errors, complete>>

NextSection ==
    /\ sections # <<>> /\ Head(sections) = <<>>
    /\ sections' = Tail(sections) /\ order' = order + 1
    /\ UNCHANGED <<max_order, sub_eps, lm, history, eos_state, kept, errors, complete>>

\* Mutant: also the end of a sentence is taken for a state that only backs off.
Mut_OnlyBacksOff(fst, s) == Len(fst.arcs[s]) = 1 /\ fst.arcs[s][1].ilabel = sub_eps

OnlyBacksOff(fst, s) ==
    Len(fst.arcs[s]) = 1 /\ ~IsFinal(fst, s) /\ fst.arcs[s][1].ilabel = sub_eps

\* From a state that can only back off the step is free of #0, and may go.
RemoveRedundantStates(fst) ==
    IF sub_eps = 0 THEN fst
    ELSE RemoveEpsLocal([fst EXCEPT !.arcs = [s \in DOMAIN @ |->
            IF OnlyBacksOff(fst, s) THEN <<[@[s][1] EXCEPT !.ilabel = 0]>> ELSE @[s]]])

\* The file is written all the same when <s> was missing.
ReadComplete ==
    /\ sections = <<>> /\ ~complete
    /\ lm' = RemoveRedundantStates(lm)
    /\ errors' = (errors \/ lm'.start = kNoStateId)
    /\ complete' = TRUE
    /\ UNCHANGED <<sections, order, max_order, sub_eps, history, eos_state, kept>>

ArpaNext == ReadNGram \/ NextSection \/ ReadComplete
--------------------------------------------------------------------------------
Listed(words) == \E g \in kept : g.words = words
Of(words) == CHOOSE g \in kept : g.words = words

\* What an ARPA model gives a word after a history.
RECURSIVE ArpaCost(_, _)
ArpaCost(h, word) ==
    IF Listed(Append(h, word)) THEN (IF word = Bos THEN 0 ELSE Of(Append(h, word)).cost)
    ELSE IF h = <<>> THEN Zero
    ELSE (IF Len(h) < max_order /\ Listed(h) THEN Of(h).backoff ELSE 0) + ArpaCost(Tail(h), word)

LastWords(words) == IF Len(words) < max_order THEN words ELSE SubSeq(words, Len(words) - max_order + 2, Len(words))

RECURSIVE ArpaSentence(_, _)
ArpaSentence(h, words) ==
    LET cost == ArpaCost(h, Head(words))
        rest == ArpaSentence(LastWords(Append(h, Head(words))), Tail(words))
    IN  IF words = <<>> THEN 0 ELSE cost + rest

\* What the transducer gives: a word's arc, or else the arc without a word.
RECURSIVE Walk(_, _)
Walk(state, words) ==
    LET arcs == lm.arcs[state]
        of(labels) == {k \in DOMAIN arcs : arcs[k].ilabel \in labels}
        take(k, rest) == arcs[k].weight + Walk(arcs[k].nextstate, rest)
        end == words = <<Eos>> /\ IsFinal(lm, state)
    IN  IF words = <<>> THEN lm.final[state]
        ELSE IF end THEN lm.final[state]
        ELSE IF of({Head(words)}) # {} THEN take(CHOOSE k \in of({Head(words)}) : TRUE, Tail(words))
        ELSE IF of({0, Disambig}) # {} THEN take(CHOOSE k \in of({0, Disambig}) : TRUE, words)
        ELSE Zero

\* Every n-gram of the file has its heads in the file.
WellFormed == \A g \in kept : Len(g.words) = 1 \/ Listed(Front(g.words))

Sentences(words) == {Append(s, Eos) : s \in SeqOf(words, 3)}

\* The transducer gives every sentence what the ARPA model gives it, by way of
\* at most one arc for each word and one to back off.
LanguageModelIsArpa ==
    complete /\ ~errors /\ WellFormed =>
        /\ \A s \in States(lm) : \A j, k \in DOMAIN lm.arcs[s] :
               j # k => lm.arcs[s][j].ilabel # lm.arcs[s][k].ilabel
        /\ \A words \in Sentences({g.words[1] : g \in {f \in kept : Len(f.words) = 1}} \ {Bos, Eos}) :
               LET arpa == ArpaSentence(<<Bos>>, words)
                   fst == Walk(lm.start, IF sub_eps = 0 THEN <<Bos>> \o words ELSE words)
               IN  arpa = fst \/ (arpa >= Zero /\ fst >= Zero)
================================================================================
