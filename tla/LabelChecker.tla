------------------------------ MODULE LabelChecker ------------------------------
(***************************************************************************)
(* core/bin/label_checker_main.cc: what a recording says is aligned to its *)
(* labels.  A CTC graph is composed with an alignment graph in which a     *)
(* label may be missing and units may be put in between; a decoder then    *)
(* takes some path through the composition.  Label 1 is the blank, the     *)
(* units follow, then <del>, <is> and </is>.                               *)
(***************************************************************************)
EXTENDS Integers, Sequences, FiniteSets, FiniteSetsExt, Functions

CONSTANTS
    NumUnits,             \* symbols of the unit table, with its blank
    Texts,                \* the labels' texts: a character, or 0 for one the table lacks
    MaxRead,              \* bound: units and blanks read
    MaxPath               \* bound: arcs taken

ASSUME LabelsAssumption == NumUnits \in Nat \ {0} /\ Texts \subseteq Seq(0 .. NumUnits - 1)

VARIABLES
    labels,               \* MapToLabel's
    ctc_fst,
    align_fst,
    path                  \* the decoder's: states, frames read, symbols written, cost

label_vars == <<labels, ctc_fst, align_fst, path>>

kBlank == 1
kDeletion == NumUnits + 1
kIsStart == NumUnits + 2
kIsEnd == NumUnits + 3
IsPenalty == 1
DelPenalty == 1

\* MakeSymbolTableForFst: the unit of id i becomes the label i + 1.
UnitLabels == 2 .. NumUnits

MapToLabel(text) ==
    LET labelled[n \in 0 .. Len(text)] ==
            IF n = 0 THEN <<>>
            ELSE IF text[n] = 0 THEN labelled[n - 1]
            ELSE Append(labelled[n - 1], text[n] + 1)
    IN  labelled[Len(text)]

StdArc(ilabel, olabel, weight, nextstate) ==
    [ilabel |-> ilabel, olabel |-> olabel, weight |-> weight, nextstate |-> nextstate]

\* State 1 reads blanks and starts units, state u reads the rest of a unit u.  The
\* order of arcs, which the tool sorts, means nothing here: they are a set.
CompileCtcFst ==
    [start |-> 1, final |-> 1,
     arcs |-> [s \in 1 .. NumUnits |->
        IF s = 1 THEN {StdArc(kBlank, 0, 0, 1)} \cup {StdArc(u, u, 0, u) : u \in UnitLabels}
        ELSE {StdArc(s, 0, 0, s), StdArc(0, 0, 0, 1)}]]

filler_start == 2
filler_end == 3

\* Mutant: the filler is left without a mark.
Mut_LeavesUnmarked(to) == StdArc(0, 0, 0, to)

LeaveFiller(to) == StdArc(0, kIsEnd, 0, to)

\* The labels in a row, each of them said or missing; from every place to the
\* filler, and from the filler to every place.
PlaceState(i) == IF i = 0 THEN 1 ELSE 3 + i

CompileAlignFst(of) ==
    LET n == Len(of)
        from(i) ==
            {StdArc(0, kIsStart, 0, filler_start)} \cup
            (IF i = n THEN {} ELSE {StdArc(of[i + 1], of[i + 1], 0, PlaceState(i + 1)),
                                    StdArc(0, kDeletion, DelPenalty, PlaceState(i + 1))})
    IN  [start |-> 1, final |-> PlaceState(n),
         arcs |-> [s \in 1 .. 3 + n |->
            CASE s = filler_start -> {StdArc(u, u, IsPenalty, filler_end) : u \in UnitLabels}
              [] s = filler_end -> {StdArc(0, 0, 0, filler_start)} \cup {LeaveFiller(PlaceState(i)) : i \in 0 .. n}
              [] OTHER -> from(IF s = 1 THEN 0 ELSE s - 3)]]

LabelInit ==
    /\ labels \in {MapToLabel(text) : text \in Texts}
    /\ ctc_fst = CompileCtcFst
    /\ align_fst = CompileAlignFst(labels)
    /\ path = [ctc |-> ctc_fst.start, align |-> align_fst.start,
               frames |-> <<>>, written |-> <<>>, cost |-> 0, arcs |-> 0]

Taken(ctc, align, frame, olabel, weight) ==
    /\ path.arcs < MaxPath
    /\ path' = [ctc |-> ctc, align |-> align, arcs |-> path.arcs + 1,
                frames |-> IF frame = 0 THEN path.frames ELSE Append(path.frames, frame),
                written |-> IF olabel = 0 THEN path.written ELSE Append(path.written, olabel),
                cost |-> path.cost + weight]
    /\ Len(path'.frames) <= MaxRead
    /\ UNCHANGED <<labels, ctc_fst, align_fst>>

\* Compose (OpenFst): an arc of the left side that writes nothing, one of the
\* right side that reads nothing, or two that meet in a label.
TakeCtc ==
    \E arc \in ctc_fst.arcs[path.ctc] :
        arc.olabel = 0 /\ Taken(arc.nextstate, path.align, arc.ilabel, 0, arc.weight)

TakeAlign ==
    \E arc \in align_fst.arcs[path.align] :
        arc.ilabel = 0 /\ Taken(path.ctc, arc.nextstate, 0, arc.olabel, arc.weight)

TakeBoth ==
    \E a \in ctc_fst.arcs[path.ctc], b \in align_fst.arcs[path.align] :
        a.olabel # 0 /\ a.olabel = b.ilabel
        /\ Taken(a.nextstate, b.nextstate, a.ilabel, b.olabel, a.weight + b.weight)

LabelNext == TakeCtc \/ TakeAlign \/ TakeBoth

LabelSpec == LabelInit /\ [][LabelNext]_label_vars

Complete == path.ctc = ctc_fst.final /\ path.align = align_fst.final
--------------------------------------------------------------------------------
Marks == {kDeletion, kIsStart, kIsEnd}

\* The places of what was put in, between <is> and </is>.
Inserted(written) ==
    {i \in DOMAIN written : \E j \in 1 .. i - 1 : written[j] = kIsStart
                                /\ \A k \in j .. i : written[k] # kIsEnd}

\* Frames that say what is written: each frame but a blank one is in a place where
\* its unit is written, every unit written has its frames, one or several in a row,
\* and these come in the order of the units.
Says(frames, written) ==
    \E place \in [DOMAIN frames -> 0 .. Len(written)] :
        /\ \A i \in DOMAIN frames :
            IF frames[i] = kBlank THEN place[i] = 0
            ELSE place[i] # 0 /\ written[place[i]] = frames[i]
        /\ \A i, j \in DOMAIN frames : i < j /\ place[i] # 0 /\ place[j] # 0 =>
            /\ place[i] <= place[j]
            /\ place[i] = place[j] => \A k \in i .. j : place[k] = place[i]
        /\ \A p \in DOMAIN written : written[p] \notin Marks => \E i \in DOMAIN frames : place[i] = p

Number(mark, written) == Cardinality({i \in DOMAIN written : written[i] = mark})

\* What is put in stands between its marks, and is something.
MarksArePaired(written) ==
    /\ Number(kIsStart, written) = Number(kIsEnd, written)
    /\ \A i \in DOMAIN written : written[i] = kIsStart =>
            \E j \in i + 2 .. Len(written) :
                written[j] = kIsEnd /\ \A k \in i + 1 .. j - 1 : written[k] \in UnitLabels

\* A finished path writes what its frames say, with marks that are paired; it
\* pays for every missing label and every unit that was put in; and where nothing
\* was put in, every label is there, or is marked as missing, in order.
AlignmentIsRight ==
    Complete =>
        LET written == path.written
        IN  /\ Says(path.frames, written)
            /\ MarksArePaired(written)
            /\ path.cost = DelPenalty * Number(kDeletion, written) +
                   IsPenalty * Cardinality({i \in Inserted(written) : written[i] \in UnitLabels})
            /\ Number(kIsStart, written) = 0 =>
                   /\ Len(written) = Len(labels)
                   /\ \A i \in DOMAIN written : written[i] \in {labels[i], kDeletion}
================================================================================
