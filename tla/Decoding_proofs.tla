---------------------------- MODULE Decoding_proofs ----------------------------
(***************************************************************************)
(* The decoder and its two clients, for every subsampling and context of   *)
(* an encoder, every chunk size and number of left chunks, and every bound *)
(* on the frames (see Decoding.tla); the rewards of the decoder's prefix   *)
(* search, for every list of hot words, every unit table, all scores,      *)
(* frames and beams (see CtcPrefixBeamSearch.tla); the frames its other    *)
(* search skips, for all frames (see SkippedFrames.tla); and the           *)
(* alignments label_checker has it find, for every unit table, all texts   *)
(* and paths (see LabelChecker.tla).                                       *)
(***************************************************************************)
EXTENDS Decoding, CtcPrefixBeamSearch, SkippedFrames, LabelChecker, FiniteSetTheorems,
        SequenceTheorems, WellFoundedInduction, TLAPS

(***************************************************************************)
(* Arithmetic.                                                             *)
(***************************************************************************)
LEMMA DivFacts ==
  ASSUME NEW a \in Nat, NEW b \in Nat \ {0}
  PROVE  a \div b \in Nat /\ (a \div b) * b <= a /\ a < (a \div b) * b + b
BY Z3

LEMMA Multiple ==
  ASSUME NEW x \in Int, NEW y \in Int, NEW b \in Nat, x <= y
  PROVE  x * b \in Int /\ y * b \in Int /\ x * b <= y * b
<1>1. x * b \in Int /\ y * b \in Int /\ (y - x) * b = y * b - x * b
  BY Z3
<1>2. (y - x) * b >= 0
  <2>1. y - x \in Nat
    OBVIOUS
  <2>2. QED BY <2>1, Z3
<1>3. QED BY <1>1, <1>2

LEMMA MultipleNext ==
  ASSUME NEW x \in Int, NEW b \in Nat
  PROVE  (x + 1) * b = x * b + b /\ (x - 1) * b = x * b - b
BY Z3

LEMMA DivUnique ==
  ASSUME NEW a \in Nat, NEW b \in Nat \ {0}, NEW q \in Int, q * b <= a, a < q * b + b
  PROVE  a \div b = q
<1> DEFINE d == a \div b
<1>1. d \in Nat /\ d * b <= a /\ a < d * b + b
  BY DivFacts
<1> HIDE DEF d
<1>2. CASE q < d
  <2>1. (q + 1) * b <= d * b /\ (q + 1) * b = q * b + b
    BY <1>1, <1>2, Multiple, MultipleNext
  <2>2. q * b \in Int /\ d * b \in Int
    BY <1>1, Z3
  <2>3. QED BY <1>1, <2>1, <2>2
<1>3. CASE d < q
  <2>1. (d + 1) * b <= q * b /\ (d + 1) * b = d * b + b
    BY <1>1, <1>3, Multiple, MultipleNext
  <2>2. q * b \in Int /\ d * b \in Int
    BY <1>1, Z3
  <2>3. QED BY <1>1, <2>1, <2>2
<1>4. QED BY <1>1, <1>2, <1>3 DEF d

(***************************************************************************)
(* The number of windows in n frames.                                      *)
(***************************************************************************)
LEMMA WindowsFacts ==
  ASSUME NEW n \in Nat
  PROVE  /\ WindowsIn(n) \in Nat
         /\ n <= right_context_ => WindowsIn(n) = 0
         /\ n > right_context_ =>
              /\ WindowsIn(n) > 0
              /\ (WindowsIn(n) - 1) * subsampling_rate_ + right_context_ + 1 <= n
              /\ n < WindowsIn(n) * subsampling_rate_ + right_context_ + 1
<1>1. CASE n <= right_context_
  BY <1>1, DecoderAssumption DEF WindowsIn
<1>2. CASE n > right_context_
  <2> DEFINE a == n - right_context_ - 1
             d == a \div subsampling_rate_
  <2>1. a \in Nat /\ subsampling_rate_ \in Nat \ {0} /\ right_context_ \in Nat
    BY <1>2, DecoderAssumption
  <2>2. /\ d \in Nat /\ d * subsampling_rate_ <= a /\ a < d * subsampling_rate_ + subsampling_rate_
    BY ONLY <2>1, DivFacts
  <2>3. WindowsIn(n) = d + 1
    BY <1>2 DEF WindowsIn
  <2> HIDE DEF d
  <2>4. (d + 1) * subsampling_rate_ = d * subsampling_rate_ + subsampling_rate_ /\ d + 1 - 1 = d
    BY <2>1, <2>2, MultipleNext
  <2>5. d * subsampling_rate_ \in Int /\ (d + 1) * subsampling_rate_ \in Int
    BY <2>1, <2>2, Z3
  <2>6. QED BY <1>2, <2>1, <2>2, <2>3, <2>4, <2>5
<1>3. QED BY <1>1, <1>2, DecoderAssumption

LEMMA WindowsUnique ==
  ASSUME NEW n \in Nat, NEW w \in Nat \ {0},
         (w - 1) * subsampling_rate_ + right_context_ + 1 <= n,
         n < w * subsampling_rate_ + right_context_ + 1
  PROVE  WindowsIn(n) = w
<1> DEFINE a == n - right_context_ - 1
           q == w - 1
<1>1. subsampling_rate_ \in Nat \ {0} /\ right_context_ \in Nat /\ q \in Nat
  BY DecoderAssumption
<1>2. q * subsampling_rate_ \in Nat /\ w * subsampling_rate_ = q * subsampling_rate_ + subsampling_rate_
  <2>1. w * subsampling_rate_ \in Int /\ q * subsampling_rate_ \in Nat
    BY <1>1, Z3
  <2>2. (w - 1) * subsampling_rate_ = w * subsampling_rate_ - subsampling_rate_
    BY <1>1, MultipleNext
  <2>3. QED BY <1>1, <2>1, <2>2
<1>3. a \in Nat /\ q * subsampling_rate_ <= a /\ a < q * subsampling_rate_ + subsampling_rate_
  BY <1>1, <1>2
<1>4. a \div subsampling_rate_ = q
  BY ONLY <1>1, <1>3, DivUnique
<1>5. QED BY <1>1, <1>2, <1>3, <1>4 DEF WindowsIn

\* Windows that begin w windows later: nothing is lost between the chunks.
LEMMA WindowsMore ==
  ASSUME NEW w \in Nat \ {0}, NEW r \in Nat
  PROVE  WindowsIn(w * subsampling_rate_ + CacheSize + r) = w + WindowsIn(CacheSize + r)
<1> DEFINE s == subsampling_rate_
           m == WindowsIn(CacheSize + r)
           ws == w * s
<1>1. /\ s \in Nat \ {0} /\ right_context_ \in Nat /\ CacheSize \in Nat
      /\ CacheSize = 1 + right_context_ - s
  BY DecoderAssumption DEF CacheSize
<1>2. ws \in Nat /\ (w - 1) * s = ws - s /\ (w - 1) * s \in Int
  <2>1. ws \in Nat
    BY <1>1, Z3
  <2>2. (w - 1) * s = ws - s
    BY ONLY <1>1, MultipleNext
  <2>3. QED BY <1>1, <2>1, <2>2
<1>3. /\ m \in Nat
      /\ CacheSize + r <= right_context_ => m = 0
      /\ CacheSize + r > right_context_ =>
           m > 0 /\ (m - 1) * s + right_context_ + 1 <= CacheSize + r
                 /\ CacheSize + r < m * s + right_context_ + 1
  BY <1>1, WindowsFacts
<1> HIDE DEF m
<1>4. (w + m - 1) * s = ws + (m - 1) * s /\ (w + m) * s = ws + m * s
  <2>1. (w + (m - 1)) * s = w * s + (m - 1) * s /\ (w + m) * s = w * s + m * s
    BY <1>1, <1>3, Z3
  <2>2. w + m - 1 = w + (m - 1)
    BY <1>3
  <2>3. QED BY <2>1, <2>2
<1>5. m * s \in Int /\ (m - 1) * s \in Int
  BY <1>1, <1>3, Z3
<1> HIDE DEF ws
<1>6. CASE CacheSize + r <= right_context_
  <2>1. m = 0 /\ ws + CacheSize + r \in Nat
    BY <1>1, <1>2, <1>3, <1>6
  <2>2. (w - 1) * s + right_context_ + 1 <= ws + CacheSize + r
    BY <1>1, <1>2
  <2>3. ws + CacheSize + r < ws + right_context_ + 1
    BY <1>1, <1>2, <1>6
  <2>4. WindowsIn(ws + CacheSize + r) = w
    BY <2>1, <2>2, <2>3, WindowsUnique DEF ws
  <2>5. QED BY <2>1, <2>4 DEF m, ws
<1>7. CASE CacheSize + r > right_context_
  <2>1. ws + CacheSize + r \in Nat /\ w + m \in Nat \ {0}
    BY <1>1, <1>2, <1>3
  <2>2. (w + m - 1) * s + right_context_ + 1 <= ws + CacheSize + r
    BY <1>1, <1>2, <1>3, <1>4, <1>5, <1>7
  <2>3. ws + CacheSize + r < (w + m) * s + right_context_ + 1
    BY <1>1, <1>2, <1>3, <1>4, <1>5, <1>7
  <2>4. WindowsIn(ws + CacheSize + r) = w + m
    <3> DEFINE v == w + m
    <3>1. v \in Nat \ {0} /\ w + m - 1 = v - 1
      BY <1>3
    <3> HIDE DEF v
    <3>2. /\ (v - 1) * s + right_context_ + 1 <= ws + CacheSize + r
          /\ ws + CacheSize + r < v * s + right_context_ + 1
      BY <2>2, <2>3, <3>1 DEF v
    <3>3. WindowsIn(ws + CacheSize + r) = v
      BY ONLY <2>1, <3>1, <3>2, WindowsUnique
    <3>4. QED BY <3>3 DEF v
  <2>5. QED BY <2>4 DEF m, ws
<1>8. QED BY <1>1, <1>6, <1>7

(***************************************************************************)
(* The elements of a finite set of numbers, in ascending order.            *)
(***************************************************************************)
Below(S, x) == {y \in S : y < x}

LEMMA BelowFacts ==
  ASSUME NEW S \in SUBSET Int, IsFiniteSet(S), NEW x \in S
  PROVE  /\ IsFiniteSet(Below(S, x)) /\ Cardinality(Below(S, x)) \in Nat
         /\ Cardinality(Below(S, x)) < Cardinality(S)
         /\ \A y \in S : y < x => Cardinality(Below(S, y)) < Cardinality(Below(S, x))
<1>1. \A y \in Int : IsFiniteSet(Below(S, y)) /\ Cardinality(Below(S, y)) \in Nat
  BY FS_Subset, FS_CardinalityType DEF Below
<1>2. \A T \in SUBSET S, y \in S :
         y \notin T /\ IsFiniteSet(T) => IsFiniteSet(T \cup {y}) /\ Cardinality(T \cup {y}) = Cardinality(T) + 1
  BY FS_AddElement
<1>3. \A T \in SUBSET S, y \in S, U \in SUBSET S :
         y \notin T /\ T \cup {y} \subseteq U /\ IsFiniteSet(T) /\ IsFiniteSet(U)
           => Cardinality(T) + 1 <= Cardinality(U)
  <2>1. SUFFICES ASSUME NEW T \in SUBSET S, NEW y \in S, NEW U \in SUBSET S, y \notin T,
                        T \cup {y} \subseteq U, IsFiniteSet(T), IsFiniteSet(U)
                 PROVE  Cardinality(T) + 1 <= Cardinality(U)
    OBVIOUS
  <2>2. Cardinality(T \cup {y}) = Cardinality(T) + 1
    BY <1>2, <2>1
  <2>3. Cardinality(T \cup {y}) <= Cardinality(U)
    BY <2>1, FS_Subset
  <2>4. QED BY <2>2, <2>3
<1>4. Cardinality(Below(S, x)) + 1 <= Cardinality(S)
  BY <1>1, <1>3 DEF Below
<1>5. ASSUME NEW y \in S, y < x
      PROVE  Cardinality(Below(S, y)) < Cardinality(Below(S, x))
  <2>1. Cardinality(Below(S, y)) + 1 <= Cardinality(Below(S, x))
    <3>1. /\ Below(S, y) \in SUBSET S /\ Below(S, x) \in SUBSET S
          /\ y \notin Below(S, y) /\ Below(S, y) \cup {y} \subseteq Below(S, x)
      <4>1. x \in Int /\ y \in Int /\ \A z \in S : z \in Int
        OBVIOUS
      <4>2. \A z \in S : z < y => z < x
        BY <1>5, <4>1
      <4>3. ~(y < y)
        BY <4>1
      <4>4. Below(S, y) \subseteq Below(S, x) /\ y \in Below(S, x) /\ y \notin Below(S, y)
        BY ONLY <1>5, <4>2, <4>3, Zenon DEF Below
      <4>5. QED BY <4>4 DEF Below
    <3>2. QED BY <1>1, <1>3, <3>1
  <2>2. QED BY <1>1, <2>1
<1>6. Cardinality(S) \in Nat
  BY FS_CardinalityType
<1>7. QED BY <1>1, <1>4, <1>5, <1>6

\* Every rank is some element's.
LEMMA RankExists ==
  ASSUME NEW S \in SUBSET Int, IsFiniteSet(S), NEW r \in 0 .. Cardinality(S) - 1
  PROVE  \E x \in S : Cardinality(Below(S, x)) = r
<1> DEFINE n == Cardinality(S)
           T == 0 .. n - 1
           f == [x \in S |-> Cardinality(Below(S, x))]
<1>1. n \in Nat
  BY FS_CardinalityType
<1>2. IsFiniteSet(T) /\ Cardinality(T) = n
  BY <1>1, FS_Interval
<1>3. \A x \in S : Cardinality(Below(S, x)) \in T
  BY <1>1, BelowFacts
<1>4. \A x, y \in S : Cardinality(Below(S, x)) = Cardinality(Below(S, y)) => x = y
  <2>1. SUFFICES ASSUME NEW x \in S, NEW y \in S, x < y
                 PROVE  Cardinality(Below(S, x)) # Cardinality(Below(S, y))
    OBVIOUS
  <2>2. QED BY <1>1, <1>3, <2>1, BelowFacts
<1>5. f \in Injection(S, T)
  BY <1>3, <1>4 DEF Injection, IsInjective
<1> HIDE DEF n, T
<1>6. f \in Surjection(S, T)
  <2>1. Cardinality(S) = Cardinality(T)
    BY <1>2 DEF n
  <2> HIDE DEF f
  <2>2. QED BY <1>2, <1>5, <2>1, FS_Injection
<1>7. r \in T
  BY DEF n, T
<1>8. QED BY <1>6, <1>7 DEF Surjection

LEMMA MaxFacts ==
  ASSUME NEW S \in SUBSET Int, IsFiniteSet(S), S # {}
  PROVE  Max(S) \in S /\ \A y \in S : y <= Max(S)
<1>1. Cardinality(S) \in Nat /\ Cardinality(S) # 0
  BY FS_CardinalityType, FS_EmptySet
<1>2. PICK x \in S : Cardinality(Below(S, x)) = Cardinality(S) - 1
  BY <1>1, RankExists
<1>3. IsFiniteSet(S \ {x}) /\ Cardinality(S \ {x}) = Cardinality(S) - 1
  BY FS_RemoveElement
<1>4. Below(S, x) \subseteq S \ {x}
  <2>1. ~(x < x)
    OBVIOUS
  <2>2. QED BY ONLY <2>1, Zenon DEF Below
<1>5. Below(S, x) = S \ {x}
  BY <1>2, <1>3, <1>4, FS_Subset
<1>6. \A y \in S : y <= x
  BY <1>5 DEF Below
<1>7. QED BY <1>6 DEF Max

LEMMA MaxOfTwo ==
  ASSUME NEW a \in Int, NEW b \in Int
  PROVE  /\ Max({a, b}) \in Int /\ Max({a, b}) = (IF a >= b THEN a ELSE b)
         /\ Min({a, b}) \in Int /\ Min({a, b}) = (IF a <= b THEN a ELSE b)
<1>1. PICK m \in {a, b} : \A y \in {a, b} : m >= y
  <2>1. a >= b \/ b >= a
    OBVIOUS
  <2>2. QED BY <2>1
<1>2. Max({a, b}) \in {a, b} /\ \A y \in {a, b} : Max({a, b}) >= y
  BY <1>1 DEF Max
<1>3. PICK l \in {a, b} : \A y \in {a, b} : l <= y
  <2>1. a <= b \/ b <= a
    OBVIOUS
  <2>2. QED BY <2>1
<1>4. Min({a, b}) \in {a, b} /\ \A y \in {a, b} : Min({a, b}) <= y
  BY <1>3 DEF Min
<1>5. QED BY <1>2, <1>4

LEMMA AscendingFacts ==
  ASSUME NEW S \in SUBSET Int, IsFiniteSet(S)
  PROVE  /\ Cardinality(S) \in Nat /\ Ascending(S) \in [1 .. Cardinality(S) -> S]
         /\ \A j \in 1 .. Cardinality(S) - 1 : Ascending(S)[j] < Ascending(S)[j + 1]
<1> DEFINE n == Cardinality(S)
           Nth(j) == CHOOSE x \in S : Cardinality({y \in S : y < x}) = j - 1
<1>1. n \in Nat
  BY FS_CardinalityType
<1>2. Ascending(S) = [j \in 1 .. n |-> Nth(j)]
  BY DEF Ascending
<1>3. \A j \in 1 .. n : Nth(j) \in S /\ Cardinality(Below(S, Nth(j))) = j - 1
  <2>1. SUFFICES ASSUME NEW j \in 1 .. n
                 PROVE  \E x \in S : Cardinality({y \in S : y < x}) = j - 1
    BY DEF Below
  <2>2. j - 1 \in 0 .. Cardinality(S) - 1
    BY <1>1
  <2>3. QED BY <2>2, RankExists DEF Below
<1> HIDE DEF Nth
<1>4. ASSUME NEW j \in 1 .. n - 1 PROVE Nth(j) < Nth(j + 1)
  <2> DEFINE a == Nth(j)
             b == Nth(j + 1)
  <2>1. /\ a \in S /\ Cardinality(Below(S, a)) = j - 1
        /\ b \in S /\ Cardinality(Below(S, b)) = j
    BY <1>1, <1>3
  <2> HIDE DEF a, b
  <2>2. ~(b < a) /\ a # b
    <3>1. b < a => Cardinality(Below(S, b)) < Cardinality(Below(S, a))
      BY <2>1, BelowFacts
    <3>2. QED BY <1>1, <2>1, <3>1
  <2>3. a \in Int /\ b \in Int
    BY <2>1
  <2>4. a < b
    BY <2>2, <2>3
  <2>5. QED BY <2>4 DEF a, b
<1>5. QED BY <1>1, <1>2, <1>3, <1>4

(***************************************************************************)
(* The times of the words of a segment.                                    *)
(***************************************************************************)
LEMMA WordsFacts ==
  ASSUME NEW t \in Seq(Nat), NEW offset \in Nat, NEW last \in Int,
         \A j \in DOMAIN t : t[j] <= last, \A j \in 1 .. Len(t) - 1 : t[j] < t[j + 1]
  PROVE  LET w == TokenTimes(t, offset)
         IN  /\ w \in Seq(Nat \X Nat) /\ Len(w) = Len(t)
             /\ \A j \in DOMAIN w : /\ offset <= w[j][1] /\ w[j][1] <= w[j][2]
                                    /\ w[j][2] <= offset + last * frame_shift_in_ms
             /\ \A j \in 1 .. Len(w) - 1 : w[j][2] <= w[j + 1][1]
<1> DEFINE n == Len(t)
           shift == frame_shift_in_ms
           Close(j) == (t[j + 1] - t[j]) * shift < TimeStampGap
           Middle(j) == ((t[j + 1] + t[j]) \div 2) * shift
           At(j) == t[j] * shift
           Begin(j) == IF j > 1 /\ Close(j - 1) THEN Middle(j - 1)
                       ELSE Max({t[j] * shift - TimeStampGap, 0})
           End(j) == IF j < n /\ Close(j) THEN Middle(j) ELSE t[j] * shift
           w == TokenTimes(t, offset)
<1>1. w = [j \in 1 .. n |-> <<offset + Begin(j), offset + End(j)>>]
  BY SMTT(30) DEF TokenTimes
<1>2. /\ TimeStampGap \in Nat /\ shift \in Nat /\ n \in Nat /\ t \in [1 .. n -> Nat]
      /\ \A j \in 1 .. n : t[j] <= last
      /\ \A j \in 1 .. n - 1 : t[j] < t[j + 1]
  <2>1. shift \in Nat
    BY DecoderAssumption, Z3 DEF frame_shift_in_ms
  <2>2. QED BY <2>1, DecoderAssumption
<1> HIDE DEF n, shift
<1>3. \A j \in 1 .. n : At(j) \in Nat /\ At(j) <= last * shift
  <2>1. SUFFICES ASSUME NEW j \in 1 .. n PROVE At(j) \in Nat /\ At(j) <= last * shift
    OBVIOUS
  <2>2. t[j] \in Nat /\ t[j] <= last
    BY <1>2
  <2>3. At(j) <= last * shift
    BY <1>2, <2>2, Multiple
  <2>4. At(j) \in Nat
    BY <1>2, <2>2, Z3
  <2>5. QED BY <2>3, <2>4
<1>4. \A j \in 1 .. n - 1 : /\ Middle(j) \in Nat /\ At(j) <= Middle(j) /\ Middle(j) <= At(j + 1)
                            /\ ~Close(j) => At(j) <= At(j + 1) - TimeStampGap
  <2>1. SUFFICES ASSUME NEW j \in 1 .. n - 1
                 PROVE  /\ Middle(j) \in Nat /\ At(j) <= Middle(j) /\ Middle(j) <= At(j + 1)
                        /\ ~Close(j) => At(j) <= At(j + 1) - TimeStampGap
    OBVIOUS
  <2> DEFINE a == t[j]
             b == t[j + 1]
             m == (b + a) \div 2
  <2>2. a \in Nat /\ b \in Nat /\ a < b
    BY <1>2, <2>1
  <2> HIDE DEF a, b
  <2>3. m \in Nat /\ a <= m /\ m <= b
    BY <2>2
  <2> HIDE DEF m
  <2>4. a * shift <= m * shift /\ m * shift <= b * shift /\ m * shift \in Nat
    <3>1. m * shift \in Nat
      BY <1>2, <2>3, Z3
    <3>2. QED BY <1>2, <2>2, <2>3, <3>1, Multiple
  <2>5. (b - a) * shift = b * shift - a * shift /\ a * shift \in Int /\ b * shift \in Int
    BY <1>2, <2>2, Z3
  <2>6. ~((b - a) * shift < TimeStampGap) => a * shift <= b * shift - TimeStampGap
    BY <1>2, <2>5
  <2>7. QED BY <2>4, <2>6 DEF a, b, m
<1> HIDE DEF Close, Middle, At
<1>5. \A j \in 1 .. n :
         Begin(j) = IF j > 1 /\ Close(j - 1) THEN Middle(j - 1)
                    ELSE IF At(j) - TimeStampGap >= 0 THEN At(j) - TimeStampGap ELSE 0
  <2>1. SUFFICES ASSUME NEW j \in 1 .. n
                 PROVE  Max({At(j) - TimeStampGap, 0})
                          = IF At(j) - TimeStampGap >= 0 THEN At(j) - TimeStampGap ELSE 0
    BY DEF At
  <2>2. At(j) - TimeStampGap \in Int /\ 0 \in Int
    BY <1>2, <1>3
  <2>3. QED BY ONLY <2>2, MaxOfTwo
<1>6. \A j \in 1 .. n : End(j) = IF j < n /\ Close(j) THEN Middle(j) ELSE At(j)
  BY DEF At, n
<1> HIDE DEF Begin, End
<1>7. \A j \in 1 .. n : j > 1 => j - 1 \in 1 .. n - 1 /\ j - 1 + 1 = j
  BY <1>2
<1>8. \A j \in 1 .. n : Begin(j) \in Nat /\ Begin(j) <= At(j)
  <2>1. SUFFICES ASSUME NEW j \in 1 .. n PROVE Begin(j) \in Nat /\ Begin(j) <= At(j)
    OBVIOUS
  <2>2. CASE j > 1 /\ Close(j - 1)
    <3> DEFINE i == j - 1
    <3>1. i \in 1 .. n - 1 /\ i + 1 = j
      BY <1>7, <2>2
    <3> HIDE DEF i
    <3>2. Begin(j) = Middle(i)
      BY <1>5, <2>2 DEF i
    <3>3. Middle(i) \in Nat /\ Middle(i) <= At(i + 1)
      BY <1>4, <3>1
    <3>4. QED BY <3>1, <3>2, <3>3
  <2>3. CASE ~(j > 1 /\ Close(j - 1))
    <3>1. At(j) \in Nat
      BY <1>3
    <3>2. Begin(j) = IF At(j) - TimeStampGap >= 0 THEN At(j) - TimeStampGap ELSE 0
      BY <1>5, <2>3
    <3>3. QED BY <1>2, <3>1, <3>2
  <2>4. QED BY <2>2, <2>3
<1>9. \A j \in 1 .. n : End(j) \in Nat /\ At(j) <= End(j) /\ End(j) <= last * shift
  <2>1. SUFFICES ASSUME NEW j \in 1 .. n
                 PROVE  End(j) \in Nat /\ At(j) <= End(j) /\ End(j) <= last * shift
    OBVIOUS
  <2>2. CASE j < n /\ Close(j)
    <3>1. j \in 1 .. n - 1 /\ j + 1 \in 1 .. n
      BY <1>2, <2>2
    <3>2. last * shift \in Int
      BY <1>2, Z3
    <3>3. QED BY <1>3, <1>4, <1>6, <2>2, <3>1, <3>2
  <2>3. CASE ~(j < n /\ Close(j))
    BY <1>3, <1>6, <2>3
  <2>4. QED BY <2>2, <2>3
<1>10. \A j \in 1 .. n - 1 : End(j) <= Begin(j + 1)
  <2>1. SUFFICES ASSUME NEW j \in 1 .. n - 1 PROVE End(j) <= Begin(j + 1)
    OBVIOUS
  <2>2. j \in 1 .. n /\ j + 1 \in 1 .. n /\ j < n /\ j + 1 > 1 /\ j + 1 - 1 = j
    BY <1>2
  <2>3. CASE Close(j)
    BY <1>4, <1>5, <1>6, <2>2, <2>3
  <2>4. CASE ~Close(j)
    <3>1. End(j) = At(j) /\ At(j) <= At(j + 1) - TimeStampGap /\ At(j) >= 0
      BY <1>3, <1>4, <1>6, <2>2, <2>4
    <3>2. Begin(j + 1) = At(j + 1) - TimeStampGap
      <4>1. At(j + 1) \in Nat /\ At(j) \in Nat
        BY <1>3, <2>2
      <4>2. At(j + 1) - TimeStampGap >= 0
        BY <1>2, <3>1, <4>1
      <4>3. QED BY <1>5, <2>2, <2>4, <4>2
    <3>3. QED BY <3>1, <3>2
  <2>5. QED BY <2>3, <2>4
<1>11. w \in Seq(Nat \X Nat) /\ Len(w) = n
  <2>1. w \in [1 .. n -> Nat \X Nat]
    BY <1>1, <1>8, <1>9
  <2>2. QED BY <1>2, <2>1
<1>12. \A j \in 1 .. n : w[j][1] = offset + Begin(j) /\ w[j][2] = offset + End(j)
  BY <1>1
<1> HIDE DEF w
<1>13. \A j \in 1 .. n : /\ offset <= w[j][1] /\ w[j][1] <= w[j][2]
                         /\ w[j][2] <= offset + last * shift
  <2>1. last * shift \in Int /\ \A j \in 1 .. n : At(j) \in Nat
    BY <1>2, <1>3, Z3
  <2>2. QED BY <1>8, <1>9, <1>12, <2>1
<1>14. \A j \in 1 .. n - 1 : w[j][2] <= w[j + 1][1]
  <2>1. SUFFICES ASSUME NEW j \in 1 .. n - 1 PROVE w[j][2] <= w[j + 1][1]
    OBVIOUS
  <2>2. j \in 1 .. n /\ j + 1 \in 1 .. n
    BY <1>2
  <2>3. End(j) <= Begin(j + 1) /\ End(j) \in Nat /\ Begin(j + 1) \in Nat
    BY <1>8, <1>9, <1>10, <2>2
  <2>4. w[j][2] = offset + End(j) /\ w[j + 1][1] = offset + Begin(j + 1)
    BY <1>12, <2>2
  <2>5. QED BY <2>3, <2>4
<1>15. DOMAIN w = 1 .. n
  BY <1>11
<1>16. QED BY <1>11, <1>13, <1>14, <1>15 DEF w, n, shift

LEMMA MaxUnique ==
  ASSUME NEW S \in SUBSET Int, NEW m \in S, \A y \in S : y <= m
  PROVE  Max(S) = m
<1>1. Max(S) \in S /\ \A y \in S : Max(S) >= y
  BY DEF Max
<1>2. Max(S) >= m /\ Max(S) <= m
  BY <1>1
<1>3. Max(S) \in Int /\ m \in Int
  BY <1>1
<1>4. QED BY <1>2, <1>3

(***************************************************************************)
(* One Read, and the windows computed from it.                             *)
(***************************************************************************)
LEMMA Sizes ==
  /\ subsampling_rate_ \in Nat \ {0} /\ right_context_ \in Nat
  /\ CacheSize \in 0 .. right_context_ /\ CacheSize = 1 + right_context_ - subsampling_rate_
BY DecoderAssumption DEF CacheSize

LEMMA ReadFacts ==
  ASSUME FrameCounts, SegmentInPhase, ReadReturns
  PROVE  /\ Queued \in Nat /\ NumRead \in 0 .. Queued
         /\ ReadFails => NumRead = Queued /\ input_finished
         /\ ~ReadFails => chunk_size_ \in Nat \ {0} /\ NumRead = NumRequired
         /\ ~ReadFails /\ ~start_ =>
              NumRead = (chunk_size_ - 1) * subsampling_rate_ + right_context_ + 1
         /\ ~ReadFails /\ start_ => NumRead = chunk_size_ * subsampling_rate_
<1>1. Queued \in Nat /\ Queued < MaxInt /\ MaxInt \in Nat /\ chunk_size_ \in Int
  <2>1. MaxInt \in Nat
    BY SMT DEF MaxInt
  <2>2. QED BY <2>1, ClientAssumption, DecoderAssumption DEF FrameCounts, Queued
<1>2. CASE chunk_size_ <= 0
  <2>1. NumRequired = MaxInt
    BY <1>2 DEF NumRequired, num_frames_for_chunk
  <2> DEFINE q == Queued
             r == NumRequired
  <2> HIDE DEF q, r
  <2>2. Min({q, r}) = q
    <3>1. q \in Int /\ r \in Int /\ q <= r
      BY <1>1, <2>1 DEF q, r
    <3>2. QED BY ONLY <3>1, MaxOfTwo
  <2>6. NumRead = Queued
    BY <2>2 DEF NumRead, q, r
  <2>3. ReadFails /\ input_finished
    BY <1>1, <2>1 DEF ReadFails, ReadReturns
  <2>4. QED BY <1>1, <1>2, <2>3, <2>6
<1>3. CASE chunk_size_ > 0
  <2> DEFINE r == NumRequired
  <2>1. chunk_size_ \in Nat \ {0} /\ chunk_size_ - 1 \in Nat
    BY <1>1, <1>3
  <2>2. r = IF start_ THEN chunk_size_ * subsampling_rate_
            ELSE (chunk_size_ - 1) * subsampling_rate_ + right_context_ + 1
    BY <1>1, <1>3 DEF NumRequired, num_frames_for_chunk
  <2>3. r \in Nat
    <3>1. chunk_size_ * subsampling_rate_ \in Nat /\ (chunk_size_ - 1) * subsampling_rate_ \in Nat
      BY <2>1, Sizes, Z3
    <3>2. QED BY <2>2, <3>1, Sizes
  <2>4. NumRead = IF Queued <= r THEN Queued ELSE r
    <3> DEFINE q == Queued
    <3>1. q \in Int
      BY <1>1
    <3> HIDE DEF q, r
    <3>2. Min({q, r}) = IF q <= r THEN q ELSE r
      BY ONLY <2>3, <3>1, MaxOfTwo
    <3>3. QED BY <3>2 DEF NumRead, q, r
  <2>5. (ReadFails <=> Queued < r) /\ (Queued >= r \/ input_finished)
    BY DEF ReadFails, ReadReturns
  <2> HIDE DEF r
  <2>6. NumRead \in 0 .. Queued /\ (ReadFails => NumRead = Queued /\ input_finished)
    BY <1>1, <2>3, <2>4, <2>5
  <2>7. ~ReadFails => NumRead = r
    BY <1>1, <2>3, <2>4, <2>5
  <2>8. QED BY <1>1, <2>1, <2>2, <2>6, <2>7 DEF r
<1>4. QED BY <1>1, <1>2, <1>3

\* The encoder's input begins where the next window does.
LEMMA InputFacts ==
  ASSUME FrameCounts, SegmentInPhase, ReadReturns, ~Ended
  PROVE  LET n == Len(outputs)
             kept == IF start_ THEN CacheSize ELSE 0
         IN  /\ n \in Nat /\ kept \in 0 .. right_context_
             /\ start_ => n > 0
             /\ delivered = global_frame_offset_ + n * subsampling_rate_ + kept
             /\ n * subsampling_rate_ \in Nat
             /\ EncoderInput \in Seq(Nat) /\ Len(EncoderInput) = kept + NumRead
             /\ \A i \in 1 .. kept + NumRead :
                  EncoderInput[i] = global_frame_offset_ + n * subsampling_rate_ + i - 1
<1> DEFINE n == Len(outputs)
           kept == IF start_ THEN CacheSize ELSE 0
           at == global_frame_offset_ + n * subsampling_rate_
<1>1. /\ n \in Nat /\ NumRead \in Nat /\ delivered \in Nat /\ global_frame_offset_ \in Nat
      /\ start_ \in BOOLEAN
  BY ReadFacts, ClientAssumption DEF SegmentInPhase, FrameCounts
<1>2. n * subsampling_rate_ \in Nat
  BY <1>1, Sizes, Z3
<1>3. kept \in 0 .. right_context_ /\ delivered = at + kept /\ (start_ => n > 0)
  <2>1. CASE start_
    <3>1. delivered - global_frame_offset_ = n * subsampling_rate_ + CacheSize /\ n > 0
      BY <1>1, <2>1 DEF SegmentInPhase
    <3>2. QED BY <1>1, <1>2, <2>1, <3>1, Sizes
  <2>2. CASE ~start_
    <3>1. n = 0 /\ delivered = global_frame_offset_ /\ 0 * subsampling_rate_ = 0
      BY <2>2, Sizes DEF SegmentInPhase
    <3>2. QED BY <1>1, <1>2, <2>2, <3>1, Sizes
  <2>3. QED BY <2>1, <2>2
<1>4. cached_feature_ \in Seq(Nat) /\ Len(cached_feature_) = kept
      /\ \A i \in 1 .. kept : cached_feature_[i] = delivered - kept + i - 1
  <2>1. CASE start_
    <3>1. cached_feature_ = [i \in 1 .. CacheSize |-> delivered - CacheSize + i - 1]
          /\ cached_feature_ \in Seq(Nat)
      BY <2>1 DEF SegmentInPhase
    <3>2. QED BY <2>1, <3>1, Sizes
  <2>2. CASE ~start_
    BY <2>2 DEF SegmentInPhase
  <2>3. QED BY <1>1, <2>1, <2>2
<1>5. ChunkFeats \in Seq(Nat) /\ Len(ChunkFeats) = NumRead
      /\ \A i \in 1 .. NumRead : ChunkFeats[i] = delivered + i - 1
  BY <1>1 DEF ChunkFeats
<1> DEFINE a == cached_feature_
           b == ChunkFeats
<1> HIDE DEF kept, n, at, b
<1>6. /\ a \o b \in Seq(Nat) /\ Len(a \o b) = kept + NumRead
      /\ \A i \in 1 .. kept + NumRead :
           (a \o b)[i] = IF i <= kept THEN a[i] ELSE b[i - kept]
  BY ONLY <1>4, <1>5, ConcatProperties, ZenonT(40) DEF b
<1>7. \A i \in 1 .. kept + NumRead : (a \o b)[i] = at + i - 1
  <2>1. SUFFICES ASSUME NEW i \in 1 .. kept + NumRead PROVE (a \o b)[i] = at + i - 1
    OBVIOUS
  <2>2. at \in Nat /\ kept \in Nat /\ i \in Nat
    BY <1>1, <1>2, <1>3 DEF at
  <2>3. CASE i <= kept
    BY <1>1, <1>3, <1>4, <1>6, <2>2, <2>3
  <2>4. CASE ~(i <= kept)
    <3>1. i - kept \in 1 .. NumRead
      BY <1>1, <2>2, <2>4
    <3>2. (a \o b)[i] = delivered + (i - kept) - 1
      BY <1>5, <1>6, <2>4, <3>1 DEF b
    <3>3. QED BY <1>1, <1>3, <2>2, <3>2
  <2>5. QED BY <2>3, <2>4
<1>8. EncoderInput = a \o b
  BY DEF EncoderInput, b
<1>9. QED BY <1>1, <1>2, <1>3, <1>6, <1>7, <1>8 DEF kept, n, at

LEMMA OutputFacts ==
  ASSUME FrameCounts, SegmentInPhase, ReadReturns, ~Ended,
         NEW blanks \in [1 .. NumOutputs -> BOOLEAN]
  PROVE  LET n == Len(outputs)
             new == EncoderOutputs(blanks)
         IN  /\ NumOutputs \in Nat /\ new \in Seq(Window) /\ Len(new) = NumOutputs
             /\ \A k \in 1 .. NumOutputs :
                  /\ new[k].first = global_frame_offset_ + (n + k - 1) * subsampling_rate_
                  /\ new[k].last = new[k].first + right_context_
                  /\ new[k].blank = blanks[k]
<1> DEFINE s == subsampling_rate_
           n == Len(outputs)
           m == NumOutputs
           len == Len(EncoderInput)
           at == global_frame_offset_ + n * s
           From(k) == (k - 1) * s + 1
<1>1. /\ n \in Nat /\ n * s \in Nat /\ len \in Nat /\ at \in Nat
      /\ \A i \in 1 .. len : EncoderInput[i] = at + i - 1
  <2>1. global_frame_offset_ \in Nat
    BY ClientAssumption DEF FrameCounts
  <2>2. NumRead \in Nat
    BY ReadFacts
  <2>3. /\ n \in Nat /\ n * s \in Nat /\ Len(EncoderInput) \in Nat
        /\ \A i \in 1 .. Len(EncoderInput) : EncoderInput[i] = global_frame_offset_ + n * s + i - 1
    BY <2>2, InputFacts, Sizes
  <2>4. at \in Nat
    BY <2>1, <2>3
  <2>5. QED BY <2>3, <2>4
<1>2. /\ m \in Nat
      /\ m > 0 => (m - 1) * s + right_context_ + 1 <= len
  BY <1>1, WindowsFacts, Sizes DEF NumOutputs
<1> HIDE DEF m, n, len, at
<1>3. \A k \in 1 .. m : /\ (k - 1) * s \in Nat
                        /\ (k - 1) * s + right_context_ + 1 <= len
                        /\ (n + k - 1) * s = n * s + (k - 1) * s
  <2>1. SUFFICES ASSUME NEW k \in 1 .. m
                 PROVE  /\ (k - 1) * s \in Nat
                        /\ (k - 1) * s + right_context_ + 1 <= len
                        /\ (n + k - 1) * s = n * s + (k - 1) * s
    OBVIOUS
  <2>2. k - 1 \in Nat /\ k - 1 <= m - 1 /\ m - 1 \in Nat /\ n + k - 1 = n + (k - 1)
    BY <1>1, <1>2
  <2>3. (k - 1) * s <= (m - 1) * s /\ (m - 1) * s \in Int
    BY <2>2, Sizes, Multiple
  <2>4. (k - 1) * s \in Nat /\ (n + (k - 1)) * s = n * s + (k - 1) * s
    BY <1>1, <2>2, Sizes, Z3
  <2>5. (k - 1) * s + right_context_ + 1 <= len
    BY <1>1, <1>2, <2>2, <2>3, <2>4, Sizes
  <2>6. QED BY <2>2, <2>4, <2>5
<1>4. \A k \in 1 .. m : /\ EncoderInput[From(k)] = at + (k - 1) * s
                        /\ EncoderInput[From(k) + right_context_] = at + (k - 1) * s + right_context_
                        /\ at + (k - 1) * s \in Nat
  <2>1. SUFFICES ASSUME NEW k \in 1 .. m
                 PROVE  /\ EncoderInput[From(k)] = at + (k - 1) * s
                        /\ EncoderInput[From(k) + right_context_] = at + (k - 1) * s + right_context_
                        /\ at + (k - 1) * s \in Nat
    OBVIOUS
  <2> DEFINE x == (k - 1) * s
  <2>2. x \in Nat /\ x + right_context_ + 1 <= len
    BY <1>3
  <2> HIDE DEF x
  <2>3. x + 1 \in 1 .. len /\ x + 1 + right_context_ \in 1 .. len
    BY <1>1, <2>2, Sizes
  <2>4. EncoderInput[x + 1] = at + x /\ EncoderInput[x + 1 + right_context_] = at + x + right_context_
    BY <1>1, <2>2, <2>3, Sizes
  <2>5. QED BY <1>1, <2>2, <2>4 DEF x
<1>5. EncoderOutputs(blanks) =
        [k \in 1 .. m |-> [first |-> EncoderInput[From(k)], last |-> EncoderInput[From(k) + right_context_],
                           blank |-> blanks[k]]]
  BY DEF EncoderOutputs, m
<1> HIDE DEF From
<1>6. \A k \in 1 .. m : [first |-> EncoderInput[From(k)], last |-> EncoderInput[From(k) + right_context_],
                         blank |-> blanks[k]] \in Window
  <2>1. TAKE k \in 1 .. m
  <2>2. EncoderInput[From(k)] \in Nat
    BY <1>4
  <2>3. EncoderInput[From(k) + right_context_] \in Nat
    <3>1. PICK x \in Nat : x = at + (k - 1) * s
      BY <1>4
    <3>2. EncoderInput[From(k) + right_context_] = x + right_context_ /\ right_context_ \in Nat
      BY <1>4, <3>1, Sizes
    <3>3. QED BY <3>2
  <2>4. blanks[k] \in BOOLEAN
    BY DEF m
  <2>5. QED BY ONLY <2>2, <2>3, <2>4 DEF Window
<1>7. EncoderOutputs(blanks) \in Seq(Window) /\ Len(EncoderOutputs(blanks)) = m
  BY <1>2, <1>5, <1>6
<1>8. \A k \in 1 .. m : global_frame_offset_ + (n + k - 1) * s = at + (k - 1) * s
  <2>1. global_frame_offset_ \in Nat
    BY ClientAssumption DEF FrameCounts
  <2>2. QED BY <1>1, <1>3, <2>1 DEF at
<1>9. \A k \in 1 .. m :
         /\ EncoderOutputs(blanks)[k].first = global_frame_offset_ + (n + k - 1) * s
         /\ EncoderOutputs(blanks)[k].last = EncoderOutputs(blanks)[k].first + right_context_
         /\ EncoderOutputs(blanks)[k].blank = blanks[k]
  BY <1>4, <1>5, <1>8
<1>10. QED BY <1>2, <1>7, <1>9 DEF m, n

(***************************************************************************)
(* Decode: what is read, and where it goes.                                *)
(***************************************************************************)
LEMMA DecodeCounts ==
  ASSUME FrameCounts, SegmentInPhase, AdvanceDecoding
  PROVE  /\ FrameCounts'
         /\ start_' = TRUE /\ global_frame_offset_' = global_frame_offset_
         /\ delivered' = delivered + NumRead /\ NumRead \in Nat
         /\ Ended' <=> ReadFails
         /\ state' # "kWaitFeats"
<1>1. ReadReturns /\ Queued = produced - delivered /\ NumRead \in 0 .. Queued
  BY ReadFacts DEF AdvanceDecoding, Queued
<1>2. /\ delivered' = delivered + NumRead /\ num_frames_' = num_frames_ + NumRead
      /\ start_' = TRUE
      /\ UNCHANGED <<produced, input_finished, chunk_size_, global_frame_offset_>>
  BY DEF AdvanceDecoding
<1>3. state' = "kEndFeats" <=> ReadFails
  BY DEF AdvanceDecoding
<1>4. state' \in {"kEndBatch", "kEndpoint", "kEndFeats"}
  BY DEF AdvanceDecoding
<1>5. delivered \in Nat /\ produced \in Nat /\ global_frame_offset_ \in 0 .. delivered
      /\ num_frames_ = delivered
  BY ClientAssumption DEF FrameCounts
<1>6. delivered' \in 0 .. produced /\ global_frame_offset_ \in 0 .. delivered' /\ num_frames_' = delivered'
  BY <1>1, <1>2, <1>5
<1>7. FrameCounts'
  BY <1>2, <1>4, <1>6 DEF FrameCounts
<1>8. QED BY <1>1, <1>2, <1>3, <1>4, <1>7 DEF Ended

LEMMA DecodeClient ==
  ASSUME DecodeInv, Decode
  PROVE  ClientInPhase'
<1>1. AdvanceDecoding /\ FrameCounts /\ SegmentInPhase /\ ReadReturns
  BY DEF DecodeInv, Decode, AdvanceDecoding
<1>2. /\ start_' = TRUE /\ delivered' = delivered + NumRead
      /\ Ended' <=> ReadFails
      /\ ReadFails => state' = "kEndFeats"
      /\ UNCHANGED <<produced, input_finished>>
  BY <1>1, DecodeCounts DEF AdvanceDecoding, Ended
<1>3. ReadFails => input_finished /\ delivered + NumRead = produced
  <2>1. Queued = produced - delivered /\ produced \in Int /\ delivered \in Int
    BY <1>1, ClientAssumption DEF Queued, FrameCounts
  <2>2. ReadFails => NumRead = Queued /\ input_finished
    BY <1>1, ReadFacts
  <2>3. QED BY <2>1, <2>2
<1>4. ClientInPhase /\ pc = "decode"
      /\ pc' = (IF Publishes(state') THEN "rescore" ELSE "decode")
      /\ UNCHANGED <<client, continuous_decoding_, reply>>
  BY DEF DecodeInv, Decode, clientVars
<1>5. Publishes(state)' <=> Publishes(state')
  BY <1>4 DEF Publishes
<1>6. ReadFails => pc' = "rescore"
  BY <1>2, <1>4 DEF Publishes
<1>7. pc' \in {"rescore", "decode"} /\ (pc' = "rescore" => Publishes(state)')
  BY <1>4, <1>5
<1>8. Ended' => input_finished' /\ delivered' = produced' /\ pc' # "decode"
  BY <1>2, <1>3, <1>6
<1>9. QED BY <1>2, <1>4, <1>7, <1>8 DEF ClientInPhase

\* What is encoded follows what has been.
LEMMA DecodeEncodes ==
  ASSUME DecodeInv, Decode
  PROVE  /\ outputs' \in Seq(Window) /\ Len(outputs') = Len(outputs) + NumOutputs
         /\ NumOutputs \in Nat /\ Len(outputs) \in Nat
         /\ EncodedInPlace' /\ NothingUnencoded'
<1> DEFINE n == Len(outputs)
           m == NumOutputs
           s == subsampling_rate_
           o == outputs
           g == global_frame_offset_
<1>1. AdvanceDecoding /\ FrameCounts /\ SegmentInPhase /\ ReadReturns /\ ~Ended
  BY DEF DecodeInv, Decode, AdvanceDecoding, ClientInPhase
<1>2. PICK blanks \in [1 .. NumOutputs -> BOOLEAN] : outputs' = outputs \o EncoderOutputs(blanks)
  BY <1>1 DEF AdvanceDecoding
<1> DEFINE new == EncoderOutputs(blanks)
<1>3. /\ m \in Nat /\ new \in Seq(Window) /\ Len(new) = m
      /\ \A k \in 1 .. m : /\ new[k].first = g + (n + k - 1) * s
                           /\ new[k].last = new[k].first + right_context_
  BY <1>1, OutputFacts
<1>4. outputs \in Seq(Window) /\ n \in Nat
  BY <1>1 DEF SegmentInPhase
<1>5. \A k \in 1 .. n : o[k].first = g + (k - 1) * s /\ o[k].last = o[k].first + right_context_
  BY <1>4 DEF DecodeInv, EncodedInPlace
<1>6. g' = g
  BY <1>1, DecodeCounts
<1> HIDE DEF new, n, m, g
<1>7. /\ o \o new \in Seq(Window) /\ Len(o \o new) = n + m
      /\ \A k \in 1 .. n + m : (o \o new)[k] = IF k <= n THEN o[k] ELSE new[k - n]
  BY ONLY <1>3, <1>4, ConcatProperties DEF n
<1>8. \A k \in 1 .. n + m : /\ (o \o new)[k].first = g + (k - 1) * s
                            /\ (o \o new)[k].last = (o \o new)[k].first + right_context_
  <2>1. SUFFICES ASSUME NEW k \in 1 .. n + m
                 PROVE  /\ (o \o new)[k].first = g + (k - 1) * s
                        /\ (o \o new)[k].last = (o \o new)[k].first + right_context_
    OBVIOUS
  <2>2. CASE k <= n
    <3>1. k \in 1 .. n
      BY <1>3, <1>4, <2>2
    <3>2. QED BY <1>5, <1>7, <2>2, <3>1
  <2>3. CASE ~(k <= n)
    <3>1. k - n \in 1 .. m /\ n + (k - n) - 1 = k - 1
      BY <1>3, <1>4, <2>3
    <3>2. (o \o new)[k] = new[k - n]
      BY <1>7, <2>3
    <3>3. new[k - n].first = g + (k - 1) * s /\ new[k - n].last = new[k - n].first + right_context_
      BY <1>3, <3>1
    <3>4. QED BY <3>2, <3>3
  <2>4. QED BY <2>2, <2>3
<1>9. outputs' = o \o new
  BY <1>2 DEF new
<1>10. EncodedInPlace'
  <2>1. DOMAIN outputs' = 1 .. n + m
    BY <1>3, <1>4, <1>7, <1>9
  <2>2. QED BY <1>6, <1>8, <1>9, <2>1 DEF EncodedInPlace, g
<1>11. WindowsIn(delivered' - g) = n + m
  <2> DEFINE r == NumRead
             kept == IF start_ THEN CacheSize ELSE 0
  <2>1. /\ delivered' = delivered + r /\ r \in Nat /\ delivered \in Nat /\ g \in Nat
    <3>1. delivered' = delivered + r /\ r \in Nat
      BY <1>1, DecodeCounts
    <3>2. QED BY <1>1, <3>1, ClientAssumption DEF FrameCounts, g
  <2>2. /\ kept \in 0 .. right_context_ /\ Len(EncoderInput) = kept + r
        /\ delivered = g + n * s + kept /\ n * s \in Nat
        /\ start_ => n > 0
    BY <1>1, InputFacts DEF n, g
  <2>3. m = WindowsIn(kept + r)
    BY <2>2 DEF m, NumOutputs
  <2> HIDE DEF r
  <2>4. delivered' - g = n * s + kept + r
    <3> DEFINE p == n * s
    <3>1. kept \in Nat /\ p \in Nat /\ delivered = g + p + kept
      BY <2>2, Sizes
    <3> HIDE DEF p, kept, g
    <3>2. delivered' - g = p + kept + r
      BY ONLY <2>1, <3>1
    <3>3. QED BY <3>2 DEF p
  <2>5. CASE start_
    <3>1. n \in Nat \ {0} /\ kept = CacheSize
      BY <1>4, <2>2, <2>5
    <3>2. WindowsIn(n * s + CacheSize + r) = n + WindowsIn(CacheSize + r)
      BY <2>1, <3>1, WindowsMore
    <3>3. QED BY <2>3, <2>4, <3>1, <3>2
  <2>6. CASE ~start_
    <3>1. n = 0 /\ kept = 0
      BY <1>1, <2>6 DEF SegmentInPhase, n
    <3>2. 0 * s = 0
      BY Sizes
    <3>3. delivered' - g = kept + r
      BY <2>1, <2>4, <3>1, <3>2
    <3>4. QED BY <1>3, <2>3, <3>1, <3>3
  <2>7. QED BY <2>5, <2>6
<1>12. NothingUnencoded'
  <2>1. Len(outputs') = n + m /\ g = global_frame_offset_'
    BY <1>6, <1>7, <1>9 DEF g
  <2>2. (delivered - global_frame_offset_)' = delivered' - g
    BY <2>1
  <2>3. WindowsIn(delivered - global_frame_offset_)' = WindowsIn(delivered' - g)
    BY <2>2 DEF WindowsIn
  <2>4. QED BY <1>11, <2>1, <2>3 DEF NothingUnencoded
<1>13. QED BY <1>3, <1>4, <1>7, <1>9, <1>10, <1>12 DEF n, m

\* A whole chunk gives chunk_size_ outputs.
LEMMA WholeChunk ==
  ASSUME FrameCounts, SegmentInPhase, ReadReturns, ~Ended, ~ReadFails
  PROVE  /\ chunk_size_ \in Nat \ {0} /\ NumOutputs = chunk_size_
         /\ NumRead \in Nat /\ NumRead >= CacheSize
         /\ delivered + NumRead - global_frame_offset_
              = (Len(outputs) + chunk_size_) * subsampling_rate_ + CacheSize
<1> DEFINE n == Len(outputs)
           c == chunk_size_
           s == subsampling_rate_
           r == NumRead
           g == global_frame_offset_
           kept == IF start_ THEN CacheSize ELSE 0
<1>1. /\ c \in Nat \ {0} /\ r \in Nat
      /\ ~start_ => r = (c - 1) * s + right_context_ + 1
      /\ start_ => r = c * s
  BY ReadFacts
<1>2. /\ n \in Nat /\ n * s \in Nat /\ g \in Nat /\ delivered = g + n * s + kept
      /\ Len(EncoderInput) = kept + r
  BY InputFacts, ClientAssumption DEF FrameCounts
<1>3. /\ (c - 1) * s = c * s - s /\ c * s \in Nat
      /\ (n + c) * s = n * s + c * s
      /\ c * s >= CacheSize
  <2>1. (c - 1) * s = c * s - s /\ c * s \in Nat /\ (n + c) * s = n * s + c * s
    BY <1>1, <1>2, Sizes, Z3
  <2>2. c * s >= CacheSize
    BY <1>1, Sizes, DecoderAssumption DEF FrameCounts
  <2>3. QED BY <2>1, <2>2
<1>4. CacheSize = 1 + right_context_ - s /\ s \in Nat \ {0} /\ right_context_ \in Nat
      /\ CacheSize \in Nat /\ CacheSize <= right_context_
  BY Sizes
<1>5. delivered \in Nat
  BY ClientAssumption DEF FrameCounts
<1> HIDE DEF n, c, s, r, g
<1>6. kept + r = c * s + CacheSize /\ r >= CacheSize
  BY <1>1, <1>3, <1>4 DEF n
<1>7. delivered + r - g = (n + c) * s + CacheSize
  BY <1>1, <1>2, <1>3, <1>4, <1>5, <1>6
<1>8. WindowsIn(kept + r) = c
  <2> DEFINE l == kept + r
  <2>1. l \in Nat /\ (c - 1) * s + right_context_ + 1 <= l /\ l < c * s + right_context_ + 1
    BY <1>1, <1>3, <1>4, <1>6
  <2> HIDE DEF l
  <2>2. WindowsIn(l) = c
    BY <1>1, <2>1, WindowsUnique DEF s
  <2>3. QED BY <2>2 DEF l
<1>9. NumOutputs = c
  BY <1>2, <1>8 DEF NumOutputs
<1>10. QED BY <1>1, <1>6, <1>7, <1>9 DEF n, c, s, r, g

LEMMA DecodeSegment ==
  ASSUME DecodeInv, Decode
  PROVE  SegmentInPhase'
<1>1. AdvanceDecoding /\ FrameCounts /\ SegmentInPhase /\ ReadReturns /\ ~Ended
  BY DEF DecodeInv, Decode, AdvanceDecoding, ClientInPhase
<1>2. /\ start_' = TRUE /\ global_frame_offset_' = global_frame_offset_
      /\ delivered' = delivered + NumRead /\ NumRead \in Nat
      /\ Ended' <=> ReadFails
      /\ delivered \in Nat
  <2>1. delivered \in Nat
    BY <1>1, ClientAssumption DEF FrameCounts
  <2>2. QED BY <1>1, <2>1, DecodeCounts
<1>3. /\ outputs' \in Seq(Window) /\ Len(outputs') = Len(outputs) + NumOutputs
      /\ NumOutputs \in Nat /\ Len(outputs) \in Nat
  BY DecodeEncodes
<1> DEFINE f == ChunkFeats
           r == NumRead
<1>4. /\ f \in Seq(Nat) /\ Len(f) = r
      /\ \A i \in 1 .. r : f[i] = delivered + i - 1
  BY <1>2 DEF ChunkFeats
<1>5. cached_feature_' = IF NumOutputs > 0 /\ r >= CacheSize
                         THEN SubSeq(f, r - CacheSize + 1, r) ELSE cached_feature_
  BY <1>1, <1>4 DEF AdvanceDecoding, CacheFeature, CacheSize
<1>6. cached_feature_ \in Seq(Nat) /\ Len(cached_feature_) <= right_context_
  BY <1>1 DEF SegmentInPhase
<1> HIDE DEF f, r
<1>7. r >= CacheSize =>
        /\ SubSeq(f, r - CacheSize + 1, r) \in Seq(Nat)
        /\ Len(SubSeq(f, r - CacheSize + 1, r)) = CacheSize
        /\ \A i \in 1 .. CacheSize : SubSeq(f, r - CacheSize + 1, r)[i] = delivered + r - CacheSize + i - 1
  <2>1. SUFFICES ASSUME r >= CacheSize
                 PROVE  /\ SubSeq(f, r - CacheSize + 1, r) \in Seq(Nat)
                        /\ Len(SubSeq(f, r - CacheSize + 1, r)) = CacheSize
                        /\ \A i \in 1 .. CacheSize :
                             SubSeq(f, r - CacheSize + 1, r)[i] = delivered + r - CacheSize + i - 1
    OBVIOUS
  <2> DEFINE a == r - CacheSize + 1
             x == SubSeq(f, a, r)
  <2>2. a \in 1 .. r + 1 /\ r \in Nat /\ r - a + 1 = CacheSize /\ CacheSize \in Nat
    BY <1>2, <2>1, Sizes DEF r
  <2> HIDE DEF a
  <2>3. x = [i \in 1 .. r - a + 1 |-> f[i + a - 1]]
    BY <2>2 DEF SubSeq
  <2>4. \A i \in 1 .. CacheSize : i + a - 1 \in 1 .. r /\ x[i] = f[i + a - 1]
    BY <2>2, <2>3
  <2>5. x \in Seq(Nat) /\ Len(x) = CacheSize
    <3>4. \A j \in 1 .. r : f[j] \in Nat
      BY <1>2, <1>4
    <3>1. \A i \in 1 .. CacheSize : x[i] \in Nat
      BY <2>4, <3>4
    <3>2. x = [i \in 1 .. CacheSize |-> x[i]]
      BY <2>2, <2>3
    <3> HIDE DEF x
    <3>3. QED BY <2>2, <3>1, <3>2
  <2>6. \A i \in 1 .. CacheSize : x[i] = delivered + r - CacheSize + i - 1
    <3>1. SUFFICES ASSUME NEW i \in 1 .. CacheSize PROVE x[i] = delivered + r - CacheSize + i - 1
      OBVIOUS
    <3>2. x[i] = delivered + (i + a - 1) - 1
      BY <1>4, <2>4
    <3>3. a = r - CacheSize + 1 /\ i \in Int
      BY DEF a
    <3>4. QED BY <1>2, <2>2, <3>2, <3>3
  <2>7. QED BY <2>5, <2>6 DEF a
<1>8. cached_feature_' \in Seq(Nat) /\ Len(cached_feature_') <= right_context_
  BY SMTT(30), <1>5, <1>6, <1>7, Sizes
<1>9. ~ReadFails =>
        /\ chunk_size_ > 0
        /\ \E c \in 1 .. Len(outputs') : Len(outputs') = c * chunk_size_
        /\ delivered' - global_frame_offset_ = Len(outputs') * subsampling_rate_ + CacheSize
        /\ cached_feature_' = [i \in 1 .. CacheSize |-> delivered' - CacheSize + i - 1]
  <2>1. SUFFICES ASSUME ~ReadFails
                 PROVE  /\ chunk_size_ > 0
                        /\ \E c \in 1 .. Len(outputs') : Len(outputs') = c * chunk_size_
                        /\ delivered' - global_frame_offset_ = Len(outputs') * subsampling_rate_ + CacheSize
                        /\ cached_feature_' = [i \in 1 .. CacheSize |-> delivered' - CacheSize + i - 1]
    OBVIOUS
  <2>2. /\ chunk_size_ \in Nat \ {0} /\ NumOutputs = chunk_size_ /\ r >= CacheSize
        /\ delivered + r - global_frame_offset_
             = (Len(outputs) + chunk_size_) * subsampling_rate_ + CacheSize
    BY <1>1, <2>1, WholeChunk DEF r
  <2>3. \E c \in 1 .. Len(outputs') : Len(outputs') = c * chunk_size_
    <3>1. CASE start_
      <4>1. PICK c \in 1 .. Len(outputs) : Len(outputs) = c * chunk_size_
        BY <1>1, <3>1 DEF SegmentInPhase
      <4>2. (c + 1) * chunk_size_ = c * chunk_size_ + chunk_size_ /\ c * chunk_size_ \in Nat
        BY <1>3, <2>2, <4>1, MultipleNext
      <4>3. c + 1 \in 1 .. Len(outputs')
        BY <1>3, <2>2, <4>1
      <4>4. QED BY <1>3, <2>2, <4>1, <4>2, <4>3
    <3>2. CASE ~start_
      <4>1. Len(outputs) = 0
        BY <1>1, <3>2 DEF SegmentInPhase
      <4>2. Len(outputs') = 1 * chunk_size_ /\ 1 \in 1 .. Len(outputs')
        BY <1>3, <2>2, <4>1
      <4>3. QED BY <4>2
    <3>3. QED BY <3>1, <3>2
  <2>4. cached_feature_' = [i \in 1 .. CacheSize |-> delivered' - CacheSize + i - 1]
    <3> DEFINE x == SubSeq(f, r - CacheSize + 1, r)
    <3>6. NumOutputs > 0 /\ r >= CacheSize
      BY <2>2
    <3>1. cached_feature_' = x
      BY ONLY <1>5, <3>6, Zenon
    <3>2. x \in Seq(Nat) /\ Len(x) = CacheSize
          /\ \A i \in 1 .. CacheSize : x[i] = delivered + r - CacheSize + i - 1
      BY <1>7, <2>2
    <3> HIDE DEF x
    <3>3. x = [i \in 1 .. CacheSize |-> x[i]]
      BY <3>2
    <3>4. delivered' = delivered + r
      BY <1>2 DEF r
    <3>5. \A i \in 1 .. CacheSize : x[i] = delivered' - CacheSize + i - 1
      <4>1. delivered \in Int /\ r \in Int /\ CacheSize \in Int
        BY <1>2, Sizes DEF r
      <4>2. QED BY ONLY <3>2, <3>4, <4>1
    <3> DEFINE at(i) == delivered' - CacheSize + i - 1
    <3>7. \A i \in 1 .. CacheSize : x[i] = at(i)
      BY <3>5
    <3> HIDE DEF at
    <3>8. cached_feature_' = [i \in 1 .. CacheSize |-> at(i)]
      BY ONLY <3>1, <3>3, <3>7
    <3>9. QED BY <3>8 DEF at
  <2>5. delivered' - global_frame_offset_ = Len(outputs') * subsampling_rate_ + CacheSize
    <3> DEFINE k == Len(outputs) + chunk_size_
    <3>1. Len(outputs') = k /\ delivered' = delivered + r
      BY <1>2, <1>3, <2>2 DEF r
    <3>2. delivered + r - global_frame_offset_ = k * subsampling_rate_ + CacheSize
      BY <2>2
    <3> HIDE DEF k
    <3> DEFINE y == k * subsampling_rate_ + CacheSize
    <3>3. delivered' - global_frame_offset_ = y
      <4>1. delivered \in Int /\ r \in Int /\ global_frame_offset_ \in Int
        BY <1>1, <1>2, ClientAssumption DEF r, FrameCounts
      <4>2. delivered + r - global_frame_offset_ = y
        BY <3>2
      <4> HIDE DEF y
      <4>3. QED BY ONLY <3>1, <4>1, <4>2
    <3>4. QED BY ONLY <3>1, <3>3
  <2>6. QED BY <2>2, <2>3, <2>4, <2>5
<1>10. chunk_size_' = chunk_size_ /\ CacheSize' = CacheSize
  BY <1>1 DEF AdvanceDecoding, CacheSize
<1>11. QED BY <1>2, <1>3, <1>8, <1>9, <1>10 DEF SegmentInPhase

\* The endpointer goes on from the outputs before.
LEMMA SpokenFacts ==
  ASSUME outputs \in Seq(Window)
  PROVE  LET n == Len(outputs)
         IN  /\ n \in Nat /\ Spoken \subseteq 1 .. n
             /\ Max(Spoken \cup {0}) \in Spoken \cup {0} /\ Max(Spoken \cup {0}) \in 0 .. n
             /\ \A k \in Spoken : k <= Max(Spoken \cup {0})
<1> DEFINE n == Len(outputs)
           S == Spoken \cup {0}
<1>1. n \in Nat /\ Spoken \subseteq 1 .. n
  BY DEF Spoken
<1>2. S \in SUBSET Int /\ S # {} /\ S \subseteq 0 .. n
  BY <1>1
<1>3. IsFiniteSet(S)
  <2>1. IsFiniteSet(0 .. n)
    BY <1>1, FS_Interval
  <2>2. QED BY <1>2, <2>1, FS_Subset
<1> HIDE DEF S
<1>4. Max(S) \in S /\ \A y \in S : y <= Max(S)
  BY ONLY <1>2, <1>3, MaxFacts
<1>5. Max(S) \in 0 .. n
  BY <1>2, <1>4
<1>6. QED BY <1>1, <1>4, <1>5 DEF S

LEMMA DecodeEndpointer ==
  ASSUME DecodeInv, Decode
  PROVE  EndpointerCounts'
<1> DEFINE n == Len(outputs)
           m == NumOutputs
<1>1. AdvanceDecoding /\ FrameCounts /\ SegmentInPhase /\ ReadReturns /\ ~Ended /\ EndpointerCounts
  BY DEF DecodeInv, Decode, AdvanceDecoding, ClientInPhase
<1>2. PICK blanks \in [1 .. NumOutputs -> BOOLEAN] :
        /\ outputs' = outputs \o EncoderOutputs(blanks)
        /\ result_' \in PartialHypotheses(Len(blanks))
        /\ IF ReadFails
           THEN state' = "kEndFeats" /\ UNCHANGED endpointVars
           ELSE /\ num_frames_decoded_' = num_frames_decoded_ + Len(blanks)
                /\ num_frames_trailing_blank_' = TrailingBlanks(blanks)
                /\ state' = IF IsEndpoint(blanks, result_') THEN "kEndpoint" ELSE "kEndBatch"
  BY <1>1 DEF AdvanceDecoding
<1> DEFINE new == EncoderOutputs(blanks)
           spoken == {k \in DOMAIN blanks : ~blanks[k]}
<1>3. m \in Nat /\ DOMAIN blanks = 1 .. m /\ Len(blanks) = m
  BY DecodeEncodes
<1>4. outputs \in Seq(Window) /\ n \in Nat /\ outputs' \in Seq(Window) /\ Len(outputs') = n + m
  BY <1>1, DecodeEncodes DEF SegmentInPhase
<1>5. new \in Seq(Window) /\ Len(new) = m /\ \A k \in 1 .. m : new[k].blank = blanks[k]
  BY <1>1, OutputFacts
<1>6. result_' \subseteq 0 .. n + m - 1
  <2>1. result_ \subseteq 0 .. n - 1
    BY <1>1 DEF EndpointerCounts
  <2>2. CASE m = 0
    <3>1. result_' = result_ /\ n + m - 1 = n - 1
      BY <1>2, <1>3, <1>4, <2>2 DEF PartialHypotheses
    <3>2. QED BY ONLY <2>1, <3>1
  <2>3. CASE m # 0
    BY <1>2, <1>3, <2>3 DEF PartialHypotheses
  <2>4. QED BY <2>2, <2>3
<1>7. num_frames_decoded_ = n /\ num_frames_trailing_blank_ = n - Max(Spoken \cup {0})
      /\ num_frames_decoded_ \in Nat /\ num_frames_trailing_blank_ \in 0 .. num_frames_decoded_
  BY <1>1 DEF EndpointerCounts
<1>8. CASE ReadFails
  <2>1. state' = "kEndFeats" /\ Ended'
    BY <1>1, <1>2, <1>8, DecodeCounts
  <2>2. UNCHANGED <<num_frames_decoded_, num_frames_trailing_blank_>>
    BY <1>2, <1>8 DEF endpointVars
  <2>3. /\ num_frames_decoded_' \in Nat
        /\ num_frames_trailing_blank_' \in 0 .. num_frames_decoded_'
    BY <1>7, <2>2
  <2>4. result_' \subseteq 0 .. Len(outputs') - 1
    <3> DEFINE top == n + m - 1
    <3>1. Len(outputs') - 1 = top
      BY <1>3, <1>4
    <3>2. result_' \subseteq 0 .. top
      BY <1>6
    <3> HIDE DEF top
    <3>3. QED BY ONLY <3>1, <3>2
  <2>5. state' \notin {"kEndBatch", "kEndpoint"}
    BY <2>1
  <2>6. QED BY <2>1, <2>3, <2>4, <2>5 DEF EndpointerCounts
<1>9. CASE ~ReadFails
  <2>1. /\ num_frames_decoded_' = n + m
        /\ num_frames_trailing_blank_' = TrailingBlanks(blanks)
        /\ state' = IF RuleActivated(DecodedSomething(result_'), TrailingBlanks(blanks), n + m)
                    THEN "kEndpoint" ELSE "kEndBatch"
    BY <1>2, <1>3, <1>7, <1>9 DEF IsEndpoint
  <2> DEFINE top == Max(Spoken \cup {0})
             o == outputs
  <2>2. /\ Spoken \subseteq 1 .. n /\ top \in Spoken \cup {0} /\ top \in 0 .. n
        /\ \A k \in Spoken : k <= top
    BY <1>4, SpokenFacts
  <2>3. Spoken' = {k \in 1 .. n + m : ~outputs'[k].blank}
    BY <1>4 DEF Spoken
  <2>4. \A k \in 1 .. n + m : outputs'[k] = IF k <= n THEN o[k] ELSE new[k - n]
    <3> HIDE DEF new
    <3>1. \A k \in 1 .. n + m : (o \o new)[k] = IF k <= n THEN o[k] ELSE new[k - n]
      BY ONLY <1>4, <1>5, ConcatProperties
    <3>2. QED BY <1>2, <3>1 DEF new
  <2> HIDE DEF new, top, n, m
  <2>5. \A k \in 1 .. n + m : k \in Spoken' <=> (k <= n /\ k \in Spoken) \/ (k > n /\ k - n \in spoken)
    <3>1. SUFFICES ASSUME NEW k \in 1 .. n + m
                   PROVE  k \in Spoken' <=> (k <= n /\ k \in Spoken) \/ (k > n /\ k - n \in spoken)
      OBVIOUS
    <3>2. CASE k <= n
      <4>1. k \in 1 .. n
        BY <1>3, <1>4, <3>2
      <4>2. k \in Spoken <=> ~o[k].blank
        BY <1>4, <4>1 DEF Spoken, n
      <4>3. QED BY <1>4, <2>3, <2>4, <3>2, <4>1, <4>2
    <3>3. CASE ~(k <= n)
      <4>1. k - n \in 1 .. m /\ k > n
        BY <1>3, <1>4, <3>3
      <4>2. outputs'[k].blank = blanks[k - n]
        BY <1>5, <2>4, <3>3, <4>1
      <4>3. k - n \in spoken <=> ~blanks[k - n]
        BY <1>3, <4>1
      <4>4. QED BY <2>3, <3>3, <4>1, <4>2, <4>3
    <3>4. QED BY <3>2, <3>3
  <2>6. Spoken' \subseteq 1 .. n + m
    BY <2>3
  <2>7. TrailingBlanks(blanks) = n + m - Max(Spoken' \cup {0})
        /\ TrailingBlanks(blanks) \in 0 .. n + m
    <3>1. CASE spoken = {}
      <4>1. TrailingBlanks(blanks) = num_frames_trailing_blank_ + m
        BY <1>3, <3>1 DEF TrailingBlanks, m
      <4>2. \A k \in Spoken' : k \in Spoken
        BY <2>5, <2>6, <3>1
      <4>3. \A k \in Spoken : k \in Spoken'
        <5>1. \A k \in Spoken : k \in 1 .. n + m /\ k <= n
          BY <1>3, <1>4, <2>2
        <5>2. QED BY <2>5, <5>1
      <4>4. Spoken' = Spoken
        BY <4>2, <4>3
      <4>5. QED BY <1>3, <1>4, <1>7, <2>2, <4>1, <4>4 DEF top
    <3>2. CASE spoken # {}
      <4> DEFINE last == Max(spoken)
                 T == Spoken' \cup {0}
      <4>1. TrailingBlanks(blanks) = m - last
        BY <1>3, <3>2 DEF TrailingBlanks, m
      <4>2. spoken \in SUBSET Int /\ IsFiniteSet(spoken) /\ spoken \subseteq 1 .. m
        <5>1. spoken \subseteq 1 .. m
          BY <1>3
        <5>2. IsFiniteSet(1 .. m)
          BY <1>3, FS_Interval
        <5> HIDE DEF spoken
        <5>3. IsFiniteSet(spoken)
          BY ONLY <5>1, <5>2, FS_Subset
        <5>4. QED BY <1>3, <5>1, <5>3
      <4> HIDE DEF spoken
      <4>3. last \in spoken /\ \A y \in spoken : y <= last
        BY ONLY <3>2, <4>2, MaxFacts
      <4>4. last \in 1 .. m
        BY <4>2, <4>3
      <4> HIDE DEF last
      <4>5. n + last \in T
        <5> DEFINE x == n + last
        <5>1. x \in 1 .. n + m /\ x > n /\ x - n = last
          BY <1>3, <1>4, <4>4
        <5> HIDE DEF x
        <5>2. x \in 1 .. n + m /\ x > n /\ x - n \in spoken
          BY <4>3, <5>1
        <5>3. x \in Spoken'
          BY ONLY <2>5, <5>2
        <5>4. QED BY <5>3 DEF x
      <4>6. \A y \in T : y <= n + last
        <5>1. SUFFICES ASSUME NEW y \in Spoken' PROVE y <= n + last
          BY <1>4, <4>4
        <5>2. y \in 1 .. n + m
          BY <2>6
        <5>3. CASE y <= n
          BY <1>4, <4>4, <5>2, <5>3
        <5>4. CASE ~(y <= n)
          <6>1. y - n \in spoken /\ y - n <= last
            BY <1>4, <2>5, <4>3, <5>2, <5>4
          <6>2. QED BY <1>4, <4>4, <5>2, <6>1
        <5>5. QED BY <5>3, <5>4
      <4>7. T \in SUBSET Int
        BY <1>3, <1>4, <2>6
      <4>8. Max(T) = n + last
        <5> DEFINE x == n + last
        <5> HIDE DEF T, x
        <5>1. x \in T /\ \A y \in T : y <= x
          BY <4>5, <4>6 DEF x
        <5>2. Max(T) = x
          BY ONLY <4>7, <5>1, MaxUnique
        <5>3. QED BY <5>2 DEF x
      <4>9. QED BY <1>3, <1>4, <4>1, <4>4, <4>8
    <3>3. QED BY <3>1, <3>2
  <2>15. Max(Spoken' \cup {0}) \in Spoken' \cup {0}
    <3> DEFINE T == Spoken' \cup {0}
               U == 0 .. n + m
    <3>1. n + m \in Int /\ 0 \in Int /\ T \subseteq U /\ T # {} /\ U \subseteq Int
      BY <1>3, <1>4, <2>6
    <3>2. IsFiniteSet(U)
      BY <3>1, FS_Interval
    <3> HIDE DEF T, U
    <3>5. T \in SUBSET Int /\ T # {} /\ IsFiniteSet(T)
      BY ONLY <3>1, <3>2, FS_Subset
    <3>3. Max(T) \in T
      BY ONLY <3>5, MaxFacts
    <3>4. QED BY <3>3 DEF T
  <2>8. n + m \in Nat
    BY <1>3, <1>4
  <2>9. Len(outputs)' = n + m /\ Len(outputs') = n + m
    BY <1>4 DEF n, m
  <2>10. state' = "kEndpoint" <=> RuleActivated(DecodedSomething(result_'), TrailingBlanks(blanks), n + m)
    BY <2>1
  <2> HIDE DEF spoken
  <2>11. (state = "kEndpoint" <=> RuleActivated(DecodedSomething(result_),
                                               num_frames_trailing_blank_, Len(outputs)))'
    BY <2>1, <2>9, <2>10 DEF RuleActivated, DecodedSomething
  <2>12. /\ num_frames_decoded_' \in Nat
         /\ num_frames_trailing_blank_' \in 0 .. num_frames_decoded_'
         /\ num_frames_decoded_' = Len(outputs')
         /\ num_frames_trailing_blank_' = Len(outputs') - Max(Spoken' \cup {0})
    <3> DEFINE k == n + m
               last == Max(Spoken' \cup {0})
    <3>1. /\ num_frames_decoded_' = k /\ Len(outputs') = k /\ k \in Nat
          /\ num_frames_trailing_blank_' = k - last /\ num_frames_trailing_blank_' \in 0 .. k
      <4>1. num_frames_decoded_' = k /\ Len(outputs') = k /\ k \in Nat
        BY <2>1, <2>8, <2>9
      <4> HIDE DEF last
      <4>2. TrailingBlanks(blanks) = k - last /\ TrailingBlanks(blanks) \in 0 .. k
        <5>1. last \in Int
          <6>2. last \in Spoken' \cup {0}
            BY <2>15 DEF last
          <6>3. QED BY <2>6, <6>2
        <5>2. QED BY <1>3, <1>4, <2>7, <5>1 DEF last
      <4> HIDE DEF k
      <4>3. QED BY <2>1, <4>1, <4>2
    <3> HIDE DEF k, last
    <3>2. /\ num_frames_decoded_' \in Nat
          /\ num_frames_trailing_blank_' \in 0 .. num_frames_decoded_'
          /\ num_frames_decoded_' = Len(outputs')
          /\ num_frames_trailing_blank_' = Len(outputs') - last
      BY ONLY <3>1
    <3>3. QED BY <3>2 DEF last
  <2>13. result_' \subseteq 0 .. Len(outputs') - 1
    <3> DEFINE last == n + m - 1
    <3>1. Len(outputs') - 1 = last
      BY <1>3, <1>4, <2>9
    <3>2. result_' \subseteq 0 .. last
      BY <1>6
    <3> HIDE DEF last
    <3>3. QED BY ONLY <3>1, <3>2
  <2>14. QED BY <2>11, <2>12, <2>13 DEF EndpointerCounts
<1>10. QED BY <1>8, <1>9

(***************************************************************************)
(* Decode: the model's cache.                                              *)
(***************************************************************************)
\* The columns of a cache of some size after n outputs: the last of them, behind zeros.
Column(n, size, i) == IF n - size + i > 0 THEN n - size + i ELSE Zeros

LEMMA ColumnsMove ==
  ASSUME NEW n \in Nat, NEW m \in Nat \ {0}, NEW required \in Int, NEW c \in Seq(Nat),
         \A i \in 1 .. Len(c) : c[i] = Column(n, Len(c), i)
  PROVE  LET next == NextCache(c \o [i \in 1 .. m |-> n + i], required)
             size == IF required < 0 \/ Len(c) + m <= required THEN Len(c) + m ELSE required
         IN  /\ next \in Seq(Nat) /\ Len(next) = size
             /\ \A i \in 1 .. size : next[i] = Column(n + m, size, i)
<1> DEFINE len == Len(c)
           new == [i \in 1 .. m |-> n + i]
           columns == c \o new
           size == IF required < 0 \/ len + m <= required THEN len + m ELSE required
           next == NextCache(columns, required)
<1>1. len \in Nat /\ new \in Seq(Nat) /\ Len(new) = m /\ \A i \in 1 .. m : new[i] = n + i
  BY DEF Zeros
<1> HIDE DEF new, len
<1>2. /\ columns \in Seq(Nat) /\ Len(columns) = len + m
      /\ \A i \in 1 .. len + m : columns[i] = IF i <= len THEN c[i] ELSE new[i - len]
  BY ONLY <1>1, c \in Seq(Nat), ConcatProperties DEF len
<1>3. \A i \in 1 .. len + m : columns[i] = Column(n, len, i)
  <2>1. SUFFICES ASSUME NEW i \in 1 .. len + m PROVE columns[i] = Column(n, len, i)
    OBVIOUS
  <2>2. CASE i <= len
    <3>1. i \in 1 .. len
      BY <1>1, <2>2
    <3>2. QED BY <1>2, <2>2, <3>1 DEF len
  <2>3. CASE ~(i <= len)
    <3>1. i - len \in 1 .. m
      BY <1>1, <2>3
    <3>2. columns[i] = n + (i - len)
      BY <1>1, <1>2, <2>3, <3>1
    <3>3. n - len + i > 0 /\ n - len + i = n + (i - len)
      BY <1>1, <3>1
    <3>4. QED BY <3>2, <3>3 DEF Column
  <2>4. QED BY <2>2, <2>3
<1> HIDE DEF columns
<1>4. size \in 0 .. len + m
  BY <1>1
<1>5. \A i \in 1 .. size : Column(n, len, len + m - size + i) = Column(n + m, size, i)
  <2>1. SUFFICES ASSUME NEW i \in 1 .. size
                 PROVE  Column(n, len, len + m - size + i) = Column(n + m, size, i)
    OBVIOUS
  <2> HIDE DEF size
  <2>2. n - len + (len + m - size + i) = (n + m) - size + i
    BY <1>1, <1>4
  <2>3. QED BY <2>2 DEF Column
<1>6. CASE size = len + m
  <2>1. next = columns
    <3>1. CASE required < 0
      BY <3>1 DEF NextCache
    <3>2. CASE ~(required < 0)
      <4>1. ~(len + m > required)
        BY <1>1, <1>6, <3>2
      <4>2. next = SubSeq(columns, 1, Len(columns))
        BY <1>2, <3>2, <4>1 DEF NextCache
      <4>3. SubSeq(columns, 1, Len(columns)) = columns
        BY <1>2, <1>1
      <4>4. QED BY <4>2, <4>3
    <3>3. QED BY <3>1, <3>2
  <2>2. \A i \in 1 .. size : len + m - size + i = i
    BY <1>1, <1>6
  <2> HIDE DEF next, size
  <2>3. \A i \in 1 .. size : next[i] = Column(n + m, size, i)
    BY <1>3, <1>5, <1>6, <2>1, <2>2
  <2>4. QED BY <1>2, <1>6, <2>1, <2>3 DEF next, size, columns, new, len
<1>7. CASE size # len + m
  <2> DEFINE a == len + m - required + 1
  <2>1. size = required /\ required >= 0 /\ len + m > required
    BY <1>1, <1>7
  <2> HIDE DEF size
  <2>2. a \in 1 .. len + m + 1 /\ len + m - a + 1 = required
    BY <1>1, <2>1
  <2>3. next = SubSeq(columns, a, len + m)
    <3>1. (len + m) - required + 1 = a
      BY <1>1
    <3>2. ~(required < 0) /\ Len(columns) = len + m /\ len + m > required
      BY <1>2, <2>1
    <3>3. next = SubSeq(columns, (len + m) - required + 1, len + m)
      BY <3>2 DEF NextCache
    <3>4. QED BY <3>1, <3>3
  <2> HIDE DEF next, a
  <2>4. next = [i \in 1 .. len + m - a + 1 |-> columns[i + a - 1]]
    BY <1>1, <2>2, <2>3 DEF SubSeq
  <2>5. \A i \in 1 .. required : next[i] = columns[i + a - 1] /\ i + a - 1 \in 1 .. len + m
                                 /\ i + a - 1 = len + m - required + i
    <3>1. \A i \in 1 .. required : i + a - 1 \in 1 .. len + m /\ i + a - 1 = len + m - required + i
      BY <1>1, <2>1, <2>2 DEF a
    <3>2. \A i \in 1 .. required : next[i] = columns[i + a - 1]
      BY <2>2, <2>4
    <3>3. QED BY <3>1, <3>2
  <2>6. \A i \in 1 .. required : next[i] = Column(n + m, required, i)
    BY <1>3, <1>5, <2>1, <2>5
  <2>7. next \in Seq(Nat) /\ Len(next) = required
    <3>1. \A i \in 1 .. required : next[i] \in Nat
      <4>1. columns \in [1 .. len + m -> Nat]
        BY <1>2
      <4>2. QED BY <2>5, <4>1
    <3>2. next = [i \in 1 .. required |-> next[i]]
      BY <2>1, <2>2, <2>4
    <3>3. required \in Nat
      BY <2>1
    <3>4. next \in [1 .. required -> Nat]
      BY <3>1, <3>2
    <3>5. QED BY <3>3, <3>4
  <2>8. QED BY <2>1, <2>6, <2>7 DEF next, size, columns, new, len
<1>8. QED BY <1>6, <1>7

\* The mask and the size of the cache say which outputs are attended to.
LEMMA MaskFacts ==
  ASSUME FrameCounts, SegmentInPhase, CacheHolds, ~Ended
  PROVE  LET n == Len(outputs)
         IN  {att_cache_[i] : i \in Masked + 1 .. Len(att_cache_)}
               = {k \in 1 .. n : num_left_chunks_ < 0 \/ k > n - required_cache_size}
<1> DEFINE n == Len(outputs)
           size == Len(att_cache_)
           R == required_cache_size
           c == chunk_size_
           l == num_left_chunks_
<1>1. n \in Nat /\ size \in Nat /\ c \in Int /\ l \in Int /\ R = c * l /\ R \in Int
  <2>1. n \in Nat /\ size \in Nat /\ c \in Int /\ l \in Int
    BY DecoderAssumption DEF SegmentInPhase, CacheHolds, FrameCounts
  <2>2. c * l \in Int
    BY <2>1, Z3
  <2>3. QED BY <2>1, <2>2 DEF required_cache_size
<1>2. /\ FixedCache => c > 0 /\ size = R
      /\ offset_ = n + (IF FixedCache THEN size ELSE 0)
      /\ \A i \in 1 .. size : att_cache_[i] = Column(n, size, i)
      /\ ~FixedCache => size <= n
      /\ ~FixedCache /\ start_ => size = IF l < 0 \/ n < R THEN n ELSE R
  BY DEF CacheHolds, Column
<1>3. /\ ~start_ => n = 0
      /\ start_ => c > 0 /\ \E q \in 1 .. n : n = q * c
      /\ start_ \in BOOLEAN
  BY DEF SegmentInPhase, FrameCounts
<1> DEFINE attended_to == {att_cache_[i] : i \in Masked + 1 .. size}
           wanted == {k \in 1 .. n : l < 0 \/ k > n - R}
<1>4. CASE FixedCache
  <2>1. l \in Nat \ {0} /\ c \in Nat \ {0} /\ R \in Nat /\ size = R
    <3>1. l > 0 /\ c > 0 /\ size = R
      BY <1>2, <1>4 DEF FixedCache
    <3>2. QED BY <1>1, <3>1
  <2>2. PICK q \in Nat : n = q * c
    <3>1. CASE start_
      BY <1>1, <1>3, <3>1
    <3>2. CASE ~start_
      <4>1. n = 0 * c
        BY <1>3, <2>1, <3>2
      <4>2. QED BY <4>1
    <3>3. QED BY <1>3, <3>1, <3>2
  <2>3. offset_ \div c = q + l
    <3> DEFINE o == n + R
    <3>1. (q + l) * c = q * c + l * c /\ c * l = l * c
      BY <2>1, <2>2, Z3
    <3>2. o = (q + l) * c /\ o \in Nat /\ offset_ = o
      BY <1>1, <1>2, <1>4, <2>1, <2>2, <3>1
    <3> HIDE DEF o
    <3>3. o \div c = q + l
      <4>1. q + l \in Int /\ (q + l) * c <= o /\ o < (q + l) * c + c
        BY <2>1, <2>2, <3>2
      <4> HIDE DEF c, l
      <4> DEFINE p == q + l
      <4> HIDE DEF p
      <4>2. p \in Int /\ p * c <= o /\ o < p * c + c
        BY <4>1 DEF p
      <4>3. o \div c = p
        BY ONLY <2>1, <3>2, <4>2, DivUnique
      <4>4. QED BY <4>3 DEF p
    <3>4. QED BY <3>2, <3>3
  <2>4. Masked = IF q < l THEN R - n ELSE 0
    <3>1. offset_ \div c - l = q
      BY <2>1, <2>2, <2>3
    <3>2. Masked = IF q < l THEN (l - q) * c ELSE 0
      BY <1>4, <3>1 DEF Masked
    <3>3. (l - q) * c = c * l - q * c
      BY <2>1, <2>2, Z3
    <3>4. QED BY <1>1, <2>2, <3>2, <3>3
  <2>5. (q < l => n <= R) /\ (~(q < l) => n >= R)
    <3>1. q < l => q * c <= l * c
      BY <2>1, <2>2, Multiple
    <3>2. ~(q < l) => l * c <= q * c
      BY <2>1, <2>2, Multiple
    <3>3. l * c = c * l
      BY <1>1, Z3
    <3>4. QED BY <1>1, <2>2, <3>1, <3>2, <3>3
  <2> DEFINE a == Masked + 1
  <2>6. a = (IF n <= R THEN R - n + 1 ELSE 1) /\ a \in Nat
    <3>1. CASE q < l
      BY <1>1, <2>1, <2>4, <2>5, <3>1
    <3>2. CASE ~(q < l)
      <4>1. Masked = 0 /\ n >= R
        BY <2>4, <2>5, <3>2
      <4>2. QED BY <1>1, <2>1, <4>1
    <3>3. QED BY <3>1, <3>2
  <2> HIDE DEF a, R, n, c, l, size
  <2>7. \A i \in a .. size : att_cache_[i] = n - R + i /\ n - R + i \in 1 .. n /\ n - R + i > n - R
    <3>1. \A i \in a .. size : i \in 1 .. size /\ n - R + i > 0 /\ n - R + i \in 1 .. n /\ n - R + i > n - R
      BY <1>1, <2>1, <2>6
    <3>2. QED BY <1>2, <2>1, <3>1 DEF Column
  <2>8. \A k \in 1 .. n : k > n - R => k - n + R \in a .. size /\ n - R + (k - n + R) = k
    BY <1>1, <2>1, <2>6
  <2>9. attended_to \subseteq wanted
    BY <2>7 DEF a
  <2>10. wanted \subseteq attended_to
    <3>1. ~(l < 0)
      BY <2>1
    <3>2. SUFFICES ASSUME NEW k \in 1 .. n, k > n - R PROVE k \in attended_to
      BY <3>1
    <3> DEFINE i == k - n + R
    <3>3. i \in a .. size /\ n - R + i = k
      BY <2>8, <3>2
    <3> HIDE DEF i
    <3>4. att_cache_[i] = k
      BY <2>7, <3>3
    <3>5. QED BY <3>3, <3>4 DEF a
  <2>11. QED BY <2>9, <2>10 DEF R, n, l, size
<1>5. CASE ~FixedCache
  <2>1. Masked = 0 /\ Masked + 1 = 1
    BY <1>5 DEF Masked
  <2>2. \A i \in 1 .. size : att_cache_[i] = n - size + i /\ n - size + i \in 1 .. n
    <3>1. \A i \in 1 .. size : n - size + i > 0 /\ n - size + i \in 1 .. n
      BY <1>1, <1>2, <1>5
    <3>2. QED BY <1>2, <3>1 DEF Column
  <2>3. \A k \in 1 .. n : (l < 0 \/ k > n - R) <=> k > n - size
    <3>1. CASE start_
      <4>1. size = IF l < 0 \/ n < R THEN n ELSE R
        BY <1>2, <1>5, <3>1
      <4>2. QED BY <1>1, <4>1
    <3>2. CASE ~start_
      BY <1>3, <3>2
    <3>3. QED BY <1>3, <3>1, <3>2
  <2> HIDE DEF n, R, l, size
  <2>4. attended_to \subseteq wanted
    <3>1. \A i \in 1 .. size : n - size + i > n - size
      BY <1>1
    <3>2. QED BY <2>1, <2>2, <2>3, <3>1
  <2>5. wanted \subseteq attended_to
    <3>1. SUFFICES ASSUME NEW k \in 1 .. n, k > n - size PROVE k \in attended_to
      BY <2>3
    <3> DEFINE i == k - n + size
    <3>2. i \in 1 .. size /\ n - size + i = k
      BY <1>1, <3>1
    <3> HIDE DEF i
    <3>3. att_cache_[i] = k
      BY <2>2, <3>2
    <3>4. QED BY <2>1, <3>2, <3>3
  <2>6. QED BY <2>4, <2>5 DEF n, R, l, size
<1>6. QED BY <1>4, <1>5

LEMMA DecodeModel ==
  ASSUME DecodeInv, Decode
  PROVE  RescoresTheSegment' /\ AttendsToSegment' /\ CacheHolds'
<1> DEFINE n == Len(outputs)
           m == NumOutputs
           size == Len(att_cache_)
           R == required_cache_size
           l == num_left_chunks_
           new == [i \in 1 .. m |-> n + i]
<1>1. /\ AdvanceDecoding /\ FrameCounts /\ SegmentInPhase /\ ReadReturns /\ ~Ended
      /\ RescoresTheSegment /\ AttendsToSegment /\ CacheHolds
  BY DEF DecodeInv, Decode, AdvanceDecoding, ClientInPhase
<1>2. /\ m \in Nat /\ n \in Nat /\ Len(outputs') = n + m
      /\ outputs \in Seq(Window) /\ outputs' \in Seq(Window)
  BY <1>1, DecodeEncodes DEF SegmentInPhase
<1>3. ForwardEncoder(m) /\ chunk_size_' = chunk_size_ /\ start_' = TRUE
  BY <1>1 DEF AdvanceDecoding
<1>4. encoder_outs_ = [k \in 1 .. n |-> k] /\ Len(encoder_outs_) = n
  <2>1. encoder_outs_ = [k \in 1 .. n |-> k]
    BY <1>1, <1>2 DEF RescoresTheSegment
  <2>2. QED BY <1>2, <2>1
<1>5. engine' = engine /\ l' = l /\ (FixedCache' <=> FixedCache) /\ R' = R
  BY <1>3 DEF ForwardEncoder, modelVars, FixedCache, required_cache_size
<1>6. Ended' <=> ReadFails
  BY <1>1, DecodeCounts
<1>7. /\ engine \in {"onnx", "torch"} /\ l \in Int /\ att_cache_ \in Seq(Nat) /\ size \in Nat
      /\ FixedCache => chunk_size_ > 0 /\ size = R
      /\ offset_ = n + (IF FixedCache THEN size ELSE 0)
      /\ \A i \in 1 .. size : att_cache_[i] = Column(n, size, i)
      /\ ~FixedCache => size <= n
      /\ ~FixedCache /\ start_ => size = IF l < 0 \/ n < R THEN n ELSE R
  BY <1>1 DEF CacheHolds, Column
<1>8. ~ReadFails => chunk_size_ \in Nat \ {0} /\ m = chunk_size_
  BY <1>1, WholeChunk
<1>9. CASE m = 0
  <2>1. UNCHANGED <<offset_, att_cache_, encoder_outs_, attended>>
    BY <1>3, <1>9 DEF ForwardEncoder, modelVars
  <2>2. Len(outputs') = n /\ DOMAIN outputs' = DOMAIN outputs
    BY <1>2, <1>9
  <2>3. RescoresTheSegment' /\ AttendsToSegment'
    BY <1>1, <1>5, <2>1, <2>2 DEF RescoresTheSegment, AttendsToSegment
  <2>4. Ended'
    BY <1>6, <1>8, <1>9
  <2>5. CacheHolds'
    BY <1>3, <1>5, <1>7, <2>1, <2>2, <2>4 DEF CacheHolds, Column
  <2>6. QED BY <2>3, <2>5
<1>10. CASE m # 0
  <2>1. /\ attended' = [before |-> n, keys |-> {att_cache_[i] : i \in Masked + 1 .. size}]
        /\ att_cache_' = NextCache(att_cache_ \o new, R)
        /\ offset_' = offset_ + m
        /\ encoder_outs_' = encoder_outs_ \o new
    BY <1>3, <1>4, <1>10 DEF ForwardEncoder
  <2>2. RescoresTheSegment'
    <3> DEFINE old == [k \in 1 .. n |-> k]
    <3>1. old \in Seq(Nat) /\ new \in Seq(Nat) /\ Len(old) = n /\ Len(new) = m
          /\ (\A k \in 1 .. n : old[k] = k) /\ (\A k \in 1 .. m : new[k] = n + k)
      BY <1>2
    <3> HIDE DEF old, new, n, m
    <3>2. Len(old \o new) = n + m /\ old \o new \in Seq(Nat)
          /\ \A k \in 1 .. n + m : (old \o new)[k] = IF k <= n THEN old[k] ELSE new[k - n]
      BY ONLY <3>1, ConcatProperties, ZenonT(40)
    <3>3. \A k \in 1 .. n + m : (old \o new)[k] = k
      <4>1. SUFFICES ASSUME NEW k \in 1 .. n + m PROVE (old \o new)[k] = k
        OBVIOUS
      <4>2. CASE k <= n
        <5>1. k \in 1 .. n
          BY <1>2, <4>2
        <5>2. QED BY <3>1, <3>2, <4>2, <5>1
      <4>3. CASE ~(k <= n)
        <5>1. k - n \in 1 .. m /\ n + (k - n) = k
          BY <1>2, <4>3
        <5>2. QED BY <3>1, <3>2, <4>3, <5>1
      <4>4. QED BY <4>2, <4>3
    <3>4. old \o new = [k \in 1 .. n + m |-> k]
      <4> DEFINE x == old \o new
                 top == n + m
      <4>1. x \in Seq(Nat) /\ Len(x) = top /\ \A k \in 1 .. top : x[k] = k
        BY <3>2, <3>3
      <4> HIDE DEF x, top
      <4>2. x = [k \in 1 .. top |-> k]
        BY ONLY <4>1
      <4>3. QED BY <4>2 DEF x, top
    <3>5. encoder_outs_' = old \o new
      BY <1>4, <2>1 DEF old
    <3>6. DOMAIN outputs' = 1 .. n + m
      BY <1>2
    <3>7. QED BY <3>4, <3>5, <3>6 DEF RescoresTheSegment
  <2>3. AttendsToSegment'
    <3>1. {att_cache_[i] : i \in Masked + 1 .. size} = {k \in 1 .. n : l < 0 \/ k > n - R}
      BY <1>1, MaskFacts
    <3>2. attended'.before = n /\ attended'.keys = {k \in 1 .. n : l < 0 \/ k > n - R}
      BY <2>1, <3>1
    <3>3. attended'.keys = {k \in 1 .. attended'.before : l < 0 \/ k > attended'.before - R}
      BY <3>2
    <3>4. QED BY <1>5, <3>3 DEF AttendsToSegment
  <2> DEFINE next == NextCache(att_cache_ \o new, R)
             len == IF R < 0 \/ size + m <= R THEN size + m ELSE R
  <2>4. R \in Int
    <3>1. chunk_size_ \in Int
      BY <1>1, DecoderAssumption DEF FrameCounts
    <3>2. QED BY <1>7, <3>1, Z3 DEF required_cache_size
  <2>5. next \in Seq(Nat) /\ Len(next) = len /\ \A i \in 1 .. len : next[i] = Column(n + m, len, i)
    <3> DEFINE c == att_cache_
    <3>1. m \in Nat \ {0} /\ c \in Seq(Nat) /\ \A i \in 1 .. Len(c) : c[i] = Column(n, Len(c), i)
      BY <1>2, <1>7, <1>10
    <3> HIDE DEF R, n, m, c
    <3>2. LET x == NextCache(c \o [i \in 1 .. m |-> n + i], R)
              s == IF R < 0 \/ Len(c) + m <= R THEN Len(c) + m ELSE R
          IN  /\ x \in Seq(Nat) /\ Len(x) = s
              /\ \A i \in 1 .. s : x[i] = Column(n + m, s, i)
      BY ONLY <1>2, <2>4, <3>1, ColumnsMove
    <3>3. QED BY <3>2 DEF c
  <2> HIDE DEF next
  <2>6. FixedCache => chunk_size_ > 0 /\ len = R
    <3>1. SUFFICES ASSUME FixedCache PROVE len = R
      BY <1>7
    <3>2. l > 0 /\ chunk_size_ \in Nat /\ size = R
      <4>1. chunk_size_ \in Int
        BY <1>1, DecoderAssumption DEF FrameCounts
      <4>2. QED BY <1>7, <3>1, <4>1 DEF FixedCache
    <3>3. R >= 0
      BY <1>7, <3>2
    <3> HIDE DEF R, size, m
    <3>4. size + m > R /\ ~(R < 0)
      BY <1>2, <1>10, <2>4, <3>2, <3>3
    <3>5. ~(size + m <= R)
      BY <1>2, <1>7, <2>4, <3>4
    <3>6. QED BY <3>4, <3>5
  <2>7. offset_' = n + m + (IF FixedCache THEN len ELSE 0)
    <3>1. offset_ = n + (IF FixedCache THEN size ELSE 0) /\ offset_' = offset_ + m
          /\ (FixedCache => size = R /\ len = R) /\ size \in Nat
      BY <1>7, <2>1, <2>6
    <3> HIDE DEF n, m, size, R, len
    <3>2. QED BY <1>2, <2>4, <3>1
  <2>8. ~FixedCache => len <= n + m
    BY <1>2, <1>7, <2>4
  <2>9. ~FixedCache /\ ~ReadFails => len = IF l < 0 \/ n + m < R THEN n + m ELSE R
    <3>1. SUFFICES ASSUME ~FixedCache, ~ReadFails
                   PROVE  len = IF l < 0 \/ n + m < R THEN n + m ELSE R
      OBVIOUS
    <3>2. chunk_size_ \in Nat \ {0}
      BY <1>8, <3>1
    <3>3. (l < 0 => R < 0) /\ (l >= 0 => R >= 0)
      <4>1. R = chunk_size_ * l
        BY DEF required_cache_size
      <4>2. QED BY <1>7, <3>2, <4>1, Z3
    <3>4. size = IF l < 0 \/ n < R THEN n ELSE R
      <4>1. CASE start_
        BY <1>7, <3>1, <4>1
      <4>2. CASE ~start_
        <5>1. n = 0
          BY <1>1, <4>2 DEF SegmentInPhase
        <5>2. size = 0
          BY <1>7, <3>1, <5>1
        <5>3. QED BY <1>7, <2>4, <3>3, <5>1, <5>2
      <4>3. QED BY <1>1, <4>1, <4>2 DEF FrameCounts
    <3> HIDE DEF R, size, n, m
    <3>5. QED BY <1>2, <1>7, <2>4, <3>3, <3>4
  <2>10. CacheHolds'
    <3> HIDE DEF len, n, m
    <3>1. att_cache_' = next /\ Len(att_cache_)' = len
      BY <2>1, <2>5 DEF next, m, n
    <3>2. Len(outputs)' = n + m
      BY <1>2
    <3>3. \A i \in 1 .. len : att_cache_'[i] = IF (n + m) - len + i > 0 THEN (n + m) - len + i ELSE Zeros
      BY <2>5, <3>1 DEF Column
    <3>4. QED BY <1>3, <1>5, <1>6, <1>7, <2>5, <2>6, <2>7, <2>8, <2>9, <3>1, <3>2, <3>3 DEF CacheHolds
  <2>11. QED BY <2>2, <2>3, <2>10
<1>11. QED BY <1>9, <1>10

LEMMA DecodePublished ==
  ASSUME DecodeInv, Decode
  PROVE  PublishedBefore'
<1>1. AdvanceDecoding /\ FrameCounts /\ SegmentInPhase /\ PublishedBefore /\ pc = "decode"
  BY DEF DecodeInv, Decode
<1>2. /\ published' = published /\ pc' \in {"rescore", "decode"}
      /\ global_frame_offset_' = global_frame_offset_
      /\ num_frames_' = num_frames_ + NumRead /\ NumRead \in Nat /\ num_frames_ \in Nat
  <2>1. NumRead \in Nat
    BY <1>1, DecodeCounts
  <2>2. num_frames_ \in Nat
    BY <1>1, ClientAssumption DEF FrameCounts
  <2>3. QED BY <2>1, <2>2 DEF Decode, AdvanceDecoding
<1>3. num_frames_ * FrameShift <= num_frames_' * FrameShift
      /\ num_frames_ * FrameShift \in Int /\ num_frames_' * FrameShift \in Int
  BY <1>2, DecoderAssumption, Multiple
<1>4. published \in Seq(Nat \X Nat) /\ \A i \in DOMAIN published : published[i][2] \in Nat
  BY <1>1 DEF PublishedBefore
<1>5. WordsInOrder'
  BY <1>1, <1>2, <1>3, <1>4 DEF PublishedBefore, WordsInOrder
<1>6. QED BY <1>1, <1>2, <1>5 DEF PublishedBefore

LEMMA DecodeKeeps ==
  ASSUME DecodeInv, Decode
  PROVE  DecodeInv'
<1>1. FrameCounts'
  BY DecodeCounts DEF DecodeInv, Decode
<1>2. QED
  BY <1>1, DecodeClient, DecodeEncodes, DecodeSegment, DecodeEndpointer, DecodeModel, DecodePublished
  DEF DecodeInv

(***************************************************************************)
(* Steps that leave the segment alone.                                     *)
(***************************************************************************)
LEMMA FeedThreadKeeps ==
  ASSUME DecodeInv, FeedThread
  PROVE  DecodeInv'
<1>1. /\ pc # "done" /\ client = "thread" /\ ~input_finished /\ ~Ended
      /\ UNCHANGED <<delivered, chunk_size_, decoderVars, clientVars, pc, reply, published>>
  BY DEF FeedThread, DecodeInv, ClientInPhase
<1>2. /\ FrameCounts /\ ClientInPhase /\ SegmentInPhase /\ EncodedInPlace /\ NothingUnencoded
      /\ EndpointerCounts /\ RescoresTheSegment /\ AttendsToSegment /\ CacheHolds /\ PublishedBefore
  BY DEF DecodeInv
<1>3. produced' \in produced .. MaxFrames /\ input_finished' \in BOOLEAN
  <2>1. produced \in Nat /\ produced <= MaxFrames /\ MaxFrames \in Nat
    BY <1>2, ClientAssumption DEF FrameCounts
  <2>2. CASE (\E n \in Lengths : Accept(n)) /\ UNCHANGED input_finished
    <3>1. PICK n \in Lengths : produced + n <= MaxFrames /\ produced' = produced + n
      BY <2>2 DEF Accept
    <3>2. n \in Nat
      BY ClientAssumption
    <3>3. input_finished' \in BOOLEAN
      BY <1>2, <2>2 DEF FrameCounts
    <3>4. QED BY <2>1, <3>1, <3>2, <3>3
  <2>3. CASE input_finished' = TRUE /\ UNCHANGED produced
    BY <2>1, <2>3
  <2>4. QED BY <2>2, <2>3 DEF FeedThread
<1>4. FrameCounts'
  BY <1>1, <1>2, <1>3, ClientAssumption DEF FrameCounts, decoderVars
<1>5. ~Ended'
  BY <1>1 DEF Ended, decoderVars
<1>6. ClientInPhase'
  BY <1>1, <1>2, <1>5 DEF ClientInPhase, clientVars, Publishes, decoderVars
<1>7. SegmentInPhase' /\ EncodedInPlace' /\ NothingUnencoded'
  BY <1>1, <1>2, <1>5 DEF SegmentInPhase, EncodedInPlace, NothingUnencoded, decoderVars, WindowsIn, CacheSize
<1>8. EndpointerCounts'
  BY <1>1, <1>2, <1>5 DEF EndpointerCounts, decoderVars, endpointVars, Spoken, RuleActivated, DecodedSomething
<1>9. RescoresTheSegment' /\ AttendsToSegment' /\ CacheHolds'
  BY <1>1, <1>2, <1>5 DEF RescoresTheSegment, AttendsToSegment, CacheHolds, decoderVars, modelVars,
                          required_cache_size, FixedCache
<1>10. PublishedBefore'
  BY <1>1, <1>2, <1>5 DEF PublishedBefore, WordsInOrder, decoderVars
<1>11. QED BY <1>4, <1>6, <1>7, <1>8, <1>9, <1>10 DEF DecodeInv

LEMMA CallKeeps ==
  ASSUME DecodeInv, Call
  PROVE  DecodeInv'
<1>1. /\ pc = "idle" /\ client = "api" /\ ~input_finished /\ ~Ended /\ pc' = "decode"
      /\ UNCHANGED <<delivered, chunk_size_, decoderVars, clientVars, reply, published>>
  BY DEF Call, DecodeInv, ClientInPhase
<1>2. /\ FrameCounts /\ ClientInPhase /\ SegmentInPhase /\ EncodedInPlace /\ NothingUnencoded
      /\ EndpointerCounts /\ RescoresTheSegment /\ AttendsToSegment /\ CacheHolds /\ PublishedBefore
  BY DEF DecodeInv
<1>3. produced' \in produced .. MaxFrames /\ input_finished' \in BOOLEAN
  BY <1>2, ClientAssumption DEF Call, Accept, FrameCounts
<1>4. FrameCounts'
  BY <1>1, <1>2, <1>3, ClientAssumption DEF FrameCounts, decoderVars
<1>5. ~Ended'
  BY <1>1 DEF Ended, decoderVars
<1>6. ClientInPhase'
  BY <1>1, <1>2, <1>5 DEF ClientInPhase, clientVars
<1>7. SegmentInPhase' /\ EncodedInPlace' /\ NothingUnencoded'
  BY <1>1, <1>2, <1>5 DEF SegmentInPhase, EncodedInPlace, NothingUnencoded, decoderVars, WindowsIn, CacheSize
<1>8. EndpointerCounts'
  BY <1>1, <1>2, <1>5 DEF EndpointerCounts, decoderVars, endpointVars, Spoken, RuleActivated, DecodedSomething
<1>9. RescoresTheSegment' /\ AttendsToSegment' /\ CacheHolds'
  BY <1>1, <1>2, <1>5 DEF RescoresTheSegment, AttendsToSegment, CacheHolds, decoderVars, modelVars,
                          required_cache_size, FixedCache
<1>10. PublishedBefore'
  BY <1>1, <1>2, <1>5 DEF PublishedBefore, WordsInOrder, decoderVars
<1>11. QED BY <1>4, <1>6, <1>7, <1>8, <1>9, <1>10 DEF DecodeInv

LEMMA WaitKeeps ==
  ASSUME DecodeInv, Wait
  PROVE  DecodeInv'
<1>1. /\ pc = "decode" /\ client = "api" /\ ~input_finished /\ ~Ended /\ pc' = "idle"
      /\ state' = "kWaitFeats" /\ reply' = "partial_result"
      /\ UNCHANGED <<produced, delivered, input_finished, chunk_size_, start_, num_frames_,
                     global_frame_offset_, cached_feature_, modelVars, endpointVars, outputs, result_,
                     client, continuous_decoding_, published>>
  BY DEF Wait, WaitFeats, DecodeInv, ClientInPhase, pipelineVars, clientVars
<1>2. /\ FrameCounts /\ ClientInPhase /\ SegmentInPhase /\ EncodedInPlace /\ NothingUnencoded
      /\ EndpointerCounts /\ RescoresTheSegment /\ AttendsToSegment /\ CacheHolds /\ PublishedBefore
  BY DEF DecodeInv
<1>4. FrameCounts'
  BY <1>1, <1>2 DEF FrameCounts
<1>5. ~Ended'
  BY <1>1 DEF Ended
<1>6. ClientInPhase'
  BY <1>1, <1>2, <1>5 DEF ClientInPhase
<1>7. SegmentInPhase' /\ EncodedInPlace' /\ NothingUnencoded'
  BY <1>1, <1>2, <1>5 DEF SegmentInPhase, EncodedInPlace, NothingUnencoded, WindowsIn, CacheSize
<1>8. EndpointerCounts'
  BY <1>1, <1>2, <1>5 DEF EndpointerCounts, endpointVars, Spoken
<1>9. RescoresTheSegment' /\ AttendsToSegment' /\ CacheHolds'
  BY <1>1, <1>2, <1>5 DEF RescoresTheSegment, AttendsToSegment, CacheHolds, modelVars,
                          required_cache_size, FixedCache
<1>10. PublishedBefore'
  BY <1>1, <1>2, <1>5 DEF PublishedBefore, WordsInOrder
<1>11. QED BY <1>4, <1>6, <1>7, <1>8, <1>9, <1>10 DEF DecodeInv

LEMMA RescoreKeeps ==
  ASSUME DecodeInv, Rescore
  PROVE  DecodeInv'
<1>1. /\ pc = "rescore" /\ pc' = "publish"
      /\ UNCHANGED <<produced, delivered, input_finished, chunk_size_, start_, num_frames_, state,
                     global_frame_offset_, cached_feature_, modelVars, endpointVars, outputs,
                     client, continuous_decoding_, reply, published>>
  BY DEF Rescore, Rescoring, pipelineVars, clientVars
<1>2. /\ FrameCounts /\ ClientInPhase /\ SegmentInPhase /\ EncodedInPlace /\ NothingUnencoded
      /\ EndpointerCounts /\ RescoresTheSegment /\ AttendsToSegment /\ CacheHolds /\ PublishedBefore
  BY DEF DecodeInv
<1>3. result_' \subseteq 0 .. Len(outputs) - 1
  BY <1>2 DEF EndpointerCounts, Rescore, Rescoring
<1>4. FrameCounts'
  BY <1>1, <1>2 DEF FrameCounts
<1>5. Ended' <=> Ended
  BY <1>1 DEF Ended
<1>6. ClientInPhase'
  BY <1>1, <1>2, <1>5 DEF ClientInPhase, Publishes
<1>7. SegmentInPhase' /\ EncodedInPlace' /\ NothingUnencoded'
  BY <1>1, <1>2, <1>5 DEF SegmentInPhase, EncodedInPlace, NothingUnencoded, WindowsIn, CacheSize
<1>8. EndpointerCounts'
  BY <1>1, <1>2, <1>3, <1>5 DEF EndpointerCounts, endpointVars, Spoken
<1>9. RescoresTheSegment' /\ AttendsToSegment' /\ CacheHolds'
  BY <1>1, <1>2, <1>5 DEF RescoresTheSegment, AttendsToSegment, CacheHolds, modelVars,
                          required_cache_size, FixedCache
<1>10. PublishedBefore'
  BY <1>1, <1>2, <1>5 DEF PublishedBefore, WordsInOrder
<1>11. QED BY <1>4, <1>6, <1>7, <1>8, <1>9, <1>10 DEF DecodeInv

LEMMA StutterKeeps ==
  ASSUME DecodeInv, UNCHANGED vars
  PROVE  DecodeInv'
<1>1. UNCHANGED <<produced, delivered, input_finished, chunk_size_, start_, num_frames_, state,
                  global_frame_offset_, cached_feature_, modelVars, endpointVars, outputs, result_,
                  client, continuous_decoding_, pc, reply, published>>
  BY DEF vars, pipelineVars, clientVars, decoderVars
<1>2. /\ FrameCounts /\ ClientInPhase /\ SegmentInPhase /\ EncodedInPlace /\ NothingUnencoded
      /\ EndpointerCounts /\ RescoresTheSegment /\ AttendsToSegment /\ CacheHolds /\ PublishedBefore
  BY DEF DecodeInv
<1>4. FrameCounts' /\ (Ended' <=> Ended)
  BY <1>1, <1>2 DEF FrameCounts, Ended
<1>6. ClientInPhase'
  BY <1>1, <1>2, <1>4 DEF ClientInPhase, Publishes
<1>7. SegmentInPhase' /\ EncodedInPlace' /\ NothingUnencoded'
  BY <1>1, <1>2, <1>4 DEF SegmentInPhase, EncodedInPlace, NothingUnencoded, WindowsIn, CacheSize
<1>8. EndpointerCounts'
  BY <1>1, <1>2, <1>4 DEF EndpointerCounts, endpointVars, Spoken, RuleActivated, DecodedSomething
<1>9. RescoresTheSegment' /\ AttendsToSegment' /\ CacheHolds'
  BY <1>1, <1>2, <1>4 DEF RescoresTheSegment, AttendsToSegment, CacheHolds, modelVars,
                          required_cache_size, FixedCache
<1>10. PublishedBefore'
  BY <1>1, <1>2, <1>4 DEF PublishedBefore, WordsInOrder
<1>11. QED BY <1>4, <1>6, <1>7, <1>8, <1>9, <1>10 DEF DecodeInv

(***************************************************************************)
(* A new segment.                                                          *)
(***************************************************************************)
LEMMA ZeroCacheFacts ==
  ASSUME chunk_size_ \in Int, num_left_chunks_ \in Int, FixedCache => chunk_size_ > 0
  PROVE  /\ ZeroCache \in Seq(Nat) /\ Len(ZeroCache) = (IF FixedCache THEN required_cache_size ELSE 0)
         /\ \A i \in 1 .. Len(ZeroCache) : ZeroCache[i] = Zeros
<1>1. CASE FixedCache
  <2>1. required_cache_size \in Nat
    <3>1. chunk_size_ \in Nat /\ num_left_chunks_ \in Nat
      BY <1>1 DEF FixedCache
    <3>2. QED BY <3>1, Z3 DEF required_cache_size
  <2>2. ZeroCache = [i \in 1 .. required_cache_size |-> Zeros]
    BY <1>1 DEF ZeroCache
  <2> HIDE DEF required_cache_size
  <2>3. QED BY <1>1, <2>1, <2>2 DEF Zeros
<1>2. CASE ~FixedCache
  BY <1>2 DEF ZeroCache
<1>3. QED BY <1>1, <1>2

\* After Reset the model holds nothing of any segment.
LEMMA ModelEmpty ==
  ASSUME engine \in {"onnx", "torch"}, chunk_size_ \in Int, num_left_chunks_ \in Int,
         FixedCache => chunk_size_ > 0,
         outputs = <<>>, start_ = FALSE,
         att_cache_ = ZeroCache, offset_ = Len(ZeroCache), encoder_outs_ = <<>>,
         attended = [before |-> 0, keys |-> {}]
  PROVE  RescoresTheSegment /\ AttendsToSegment /\ CacheHolds
<1> DEFINE z == ZeroCache
           R == required_cache_size
<1>1. z \in Seq(Nat) /\ Len(z) = (IF FixedCache THEN R ELSE 0) /\ \A i \in 1 .. Len(z) : z[i] = Zeros
  BY ZeroCacheFacts
<1>2. Len(outputs) = 0 /\ DOMAIN outputs = 1 .. 0
  OBVIOUS
<1> HIDE DEF z, R
<1>3. \A i \in 1 .. Len(z) : z[i] = IF 0 - Len(z) + i > 0 THEN 0 - Len(z) + i ELSE Zeros
  <2>1. Len(z) \in Nat
    BY <1>1
  <2> DEFINE k == Len(z)
  <2> HIDE DEF k
  <2>2. \A i \in 1 .. k : ~(0 - k + i > 0)
    BY <2>1 DEF k
  <2>3. QED BY <1>1, <2>2 DEF k
<1>4. CacheHolds
  BY <1>1, <1>2, <1>3 DEF CacheHolds, z, R
<1>5. AttendsToSegment
  BY DEF AttendsToSegment
<1>6. RescoresTheSegment
  BY <1>2 DEF RescoresTheSegment
<1>7. QED BY <1>4, <1>5, <1>6

LEMMA SegmentEmpty ==
  ASSUME FrameCounts, outputs = <<>>, cached_feature_ = <<>>, start_ = FALSE,
         delivered = global_frame_offset_, result_ = {},
         num_frames_decoded_ = 0, num_frames_trailing_blank_ = 0
  PROVE  SegmentInPhase /\ EncodedInPlace /\ NothingUnencoded /\ EndpointerCounts
<1>1. Len(outputs) = 0 /\ DOMAIN outputs = {} /\ outputs \in Seq(Window)
  OBVIOUS
<1>2. SegmentInPhase
  BY <1>1, Sizes DEF SegmentInPhase
<1>3. EncodedInPlace
  BY <1>1 DEF EncodedInPlace
<1>4. NothingUnencoded
  <2>1. delivered - global_frame_offset_ = 0
    BY ClientAssumption DEF FrameCounts
  <2>2. WindowsIn(0) = 0
    BY WindowsFacts, Sizes
  <2>3. QED BY <1>1, <2>1, <2>2 DEF NothingUnencoded
<1>5. EndpointerCounts
  <2>1. Spoken \cup {0} = {0}
    BY <1>1 DEF Spoken
  <2> DEFINE T == {0}
  <2>2. T \in SUBSET Int /\ 0 \in T /\ \A y \in T : y <= 0
    OBVIOUS
  <2> HIDE DEF T
  <2>3. Max(T) = 0
    BY ONLY <2>2, MaxUnique
  <2>4. Max(Spoken \cup {0}) = 0
    BY <2>1, <2>3 DEF T
  <2>5. QED BY <1>1, <2>4 DEF EndpointerCounts
<1>6. QED BY <1>2, <1>3, <1>4, <1>5

LEMMA InitDecodeInv ==
  ASSUME Init
  PROVE  DecodeInv
<1>1. DecoderInit /\ ModelInit
  BY DEF Init, DecoderInit
<1>2. FrameCounts
  <2>1. 0 \in 0 .. MaxFrames /\ 0 \in 0 .. 0
    BY ClientAssumption
  <2>2. QED BY <1>1, <2>1 DEF DecoderInit, FrameCounts
<1>3. ClientInPhase
  BY <1>1 DEF Init, DecoderInit, ClientInPhase, Ended
<1>4. SegmentInPhase /\ EncodedInPlace /\ NothingUnencoded /\ EndpointerCounts
  BY <1>1, <1>2, SegmentEmpty DEF DecoderInit
<1>5. RescoresTheSegment /\ AttendsToSegment /\ CacheHolds
  <2>1. engine \in {"onnx", "torch"} /\ num_left_chunks_ \in Int
    <3>1. PICK m \in Models : engine = m[1] /\ num_left_chunks_ = m[2]
      BY <1>1 DEF ModelInit
    <3>2. m \in {"onnx", "torch"} \X Int
      BY EncoderAssumption
    <3>3. QED BY <3>1, <3>2
  <2>2. chunk_size_ \in Int
    BY <1>2, DecoderAssumption DEF FrameCounts
  <2>3. QED BY <1>1, <2>1, <2>2, ModelEmpty DEF DecoderInit, ModelInit
<1>6. PublishedBefore
  <2>1. published = <<>> /\ DOMAIN published = {}
    BY DEF Init
  <2>2. QED BY <2>1 DEF PublishedBefore, WordsInOrder
<1>7. QED BY <1>2, <1>3, <1>4, <1>5, <1>6 DEF DecodeInv

LEMMA NewSegment ==
  ASSUME FrameCounts, CacheHolds, FrameCounts', ClearSegment, ResetEndpointer,
         chunk_size_' = chunk_size_, delivered' = global_frame_offset_'
  PROVE  /\ SegmentInPhase' /\ EncodedInPlace' /\ NothingUnencoded' /\ EndpointerCounts'
         /\ RescoresTheSegment' /\ AttendsToSegment' /\ CacheHolds' /\ ~Ended'
<1>1. /\ start_' = FALSE /\ cached_feature_' = <<>> /\ outputs' = <<>> /\ result_' = {}
      /\ num_frames_decoded_' = 0 /\ num_frames_trailing_blank_' = 0
      /\ att_cache_' = ZeroCache /\ offset_' = Len(ZeroCache) /\ encoder_outs_' = <<>>
      /\ attended' = [before |-> 0, keys |-> {}]
      /\ UNCHANGED <<engine, num_left_chunks_, chunk_size_>>
  BY DEF ClearSegment, ResetModel, ResetEndpointer
<1>2. SegmentInPhase' /\ EncodedInPlace' /\ NothingUnencoded' /\ EndpointerCounts'
  <2>1. Len(outputs') = 0 /\ DOMAIN outputs' = {} /\ outputs' \in Seq(Window)
    BY <1>1
  <2>2. SegmentInPhase'
    BY <1>1, <2>1, Sizes DEF SegmentInPhase
  <2>3. EncodedInPlace'
    BY <2>1 DEF EncodedInPlace
  <2>4. NothingUnencoded'
    <3>5. delivered' \in Int
      BY ClientAssumption DEF FrameCounts
    <3>7. \A i \in Int : i - i = 0
      OBVIOUS
    <3>6. delivered' - delivered' = 0
      BY ONLY <3>5, <3>7, Zenon
    <3>1. (delivered - global_frame_offset_)' = 0
      BY ONLY <3>6, delivered' = global_frame_offset_', Zenon
    <3>2. WindowsIn(0) = 0
      BY WindowsFacts, Sizes
    <3>3. WindowsIn(delivered - global_frame_offset_)' = WindowsIn(0)
      BY <3>1 DEF WindowsIn
    <3>4. QED BY <2>1, <3>2, <3>3 DEF NothingUnencoded
  <2>5. EndpointerCounts'
    <3>1. Spoken' \cup {0} = {0}
      BY <2>1 DEF Spoken
    <3> DEFINE T == {0}
    <3>2. T \in SUBSET Int /\ 0 \in T /\ \A y \in T : y <= 0
      OBVIOUS
    <3> HIDE DEF T
    <3>3. Max(T) = 0
      BY ONLY <3>2, MaxUnique
    <3>4. Max(Spoken' \cup {0}) = 0
      BY <3>1, <3>3 DEF T
    <3>5. QED BY <1>1, <2>1, <3>4 DEF EndpointerCounts
  <2>6. QED BY <2>2, <2>3, <2>4, <2>5
<1>3. CacheHolds'
  <2> DEFINE z == ZeroCache
             R == required_cache_size
  <2>1. /\ engine \in {"onnx", "torch"} /\ num_left_chunks_ \in Int /\ chunk_size_ \in Int
        /\ FixedCache => chunk_size_ > 0
    BY DecoderAssumption DEF CacheHolds, FrameCounts
  <2>2. z \in Seq(Nat) /\ Len(z) = (IF FixedCache THEN R ELSE 0) /\ \A i \in 1 .. Len(z) : z[i] = Zeros
    BY <2>1, ZeroCacheFacts
  <2>3. (FixedCache' <=> FixedCache) /\ R' = R
    BY <1>1 DEF FixedCache, required_cache_size
  <2>4. Len(outputs') = 0
    BY <1>1
  <2> HIDE DEF z, R
  <2>5. \A i \in 1 .. Len(z) : z[i] = IF 0 - Len(z) + i > 0 THEN 0 - Len(z) + i ELSE Zeros
    <3>1. Len(z) \in Nat
      BY <2>2
    <3> DEFINE k == Len(z)
    <3> HIDE DEF k
    <3>2. \A i \in 1 .. k : ~(0 - k + i > 0)
      BY <3>1 DEF k
    <3>3. QED BY <2>2, <3>2 DEF k
  <2>6. att_cache_' = z /\ offset_' = Len(z)
    BY <1>1 DEF z
  <2>7. QED BY <1>1, <2>1, <2>2, <2>3, <2>4, <2>5, <2>6 DEF CacheHolds, R
<1>4. AttendsToSegment'
  BY <1>1 DEF AttendsToSegment
<1>5. RescoresTheSegment'
  <2>1. DOMAIN outputs' = 1 .. 0
    BY <1>1
  <2>2. QED BY <1>1, <2>1 DEF RescoresTheSegment
<1>6. ~Ended'
  BY <1>1 DEF Ended
<1>7. QED BY <1>2, <1>3, <1>4, <1>5, <1>6

LEMMA NextUtteranceKeeps ==
  ASSUME DecodeInv, NextUtterance
  PROVE  DecodeInv'
<1>1. /\ pc \in {"done", "idle"} /\ pc' = (IF client = "thread" THEN "decode" ELSE "idle")
      /\ reply' = "none" /\ published' = <<>>
      /\ produced' = 0 /\ delivered' = 0 /\ input_finished' = FALSE
      /\ num_frames_' = 0 /\ global_frame_offset_' = 0
      /\ UNCHANGED <<chunk_size_, state, client, continuous_decoding_>>
      /\ ClearSegment /\ ResetEndpointer /\ start_' = FALSE
  BY DEF NextUtterance, Reset, clientVars, ClearSegment
<1>2. FrameCounts /\ ClientInPhase /\ CacheHolds
  BY DEF DecodeInv
<1>3. FrameCounts'
  <2>1. 0 \in 0 .. MaxFrames /\ 0 \in 0 .. 0
    BY ClientAssumption
  <2>2. QED BY <1>1, <1>2, <2>1 DEF FrameCounts
<1>4. /\ SegmentInPhase' /\ EncodedInPlace' /\ NothingUnencoded' /\ EndpointerCounts'
      /\ RescoresTheSegment' /\ AttendsToSegment' /\ CacheHolds' /\ ~Ended'
  BY <1>1, <1>2, <1>3, NewSegment
<1>5. ClientInPhase'
  BY <1>1, <1>2, <1>4 DEF ClientInPhase
<1>6. PublishedBefore'
  BY <1>1 DEF PublishedBefore, WordsInOrder
<1>7. QED BY <1>3, <1>4, <1>5, <1>6 DEF DecodeInv

(***************************************************************************)
(* The words of a segment lie in it.                                       *)
(***************************************************************************)
LEMMA WordsOfSegment ==
  ASSUME DecodeInv
  PROVE  LET w == WordPieces
         IN  /\ w \in Seq(Nat \X Nat)
             /\ \A j \in DOMAIN w : /\ global_frame_offset_ * FrameShift <= w[j][1]
                                    /\ w[j][1] <= w[j][2]
                                    /\ w[j][2] <= num_frames_ * FrameShift
             /\ \A j \in 1 .. Len(w) - 1 : w[j][2] <= w[j + 1][1]
<1> DEFINE n == Len(outputs)
           g == global_frame_offset_
           N == num_frames_
           s == subsampling_rate_
           F == FrameShift
           S == result_
           t == Ascending(S)
           w == WordPieces
<1>1. /\ n \in Nat /\ g \in Nat /\ N \in Nat /\ g <= N /\ F \in Nat /\ N = delivered
      /\ S \subseteq 0 .. n - 1 /\ n = WindowsIn(N - g)
  <2>1. delivered \in Nat /\ g \in 0 .. delivered /\ N = delivered
    BY ClientAssumption DEF DecodeInv, FrameCounts
  <2>2. n \in Nat /\ S \subseteq 0 .. n - 1 /\ n = WindowsIn(delivered - g)
    BY DEF DecodeInv, SegmentInPhase, EndpointerCounts, NothingUnencoded
  <2>3. QED BY <2>1, <2>2, DecoderAssumption
<1>2. S \in SUBSET Int /\ IsFiniteSet(S)
  <2> DEFINE U == 0 .. n - 1
  <2>4. n - 1 \in Int /\ S \in SUBSET U /\ S \in SUBSET Int
    BY <1>1
  <2>5. IsFiniteSet(U)
    BY <2>4, FS_Interval
  <2>1. IsFiniteSet(U) /\ S \in SUBSET U /\ S \in SUBSET Int
    BY <2>4, <2>5
  <2> HIDE DEF U, S
  <2>2. IsFiniteSet(S)
    BY ONLY <2>1, FS_Subset
  <2>3. QED BY <2>1, <2>2
<1> HIDE DEF n, S
<1>3. t \in Seq(Nat) /\ (\A j \in DOMAIN t : t[j] <= n - 1) /\ (\A j \in 1 .. Len(t) - 1 : t[j] < t[j + 1])
      /\ (n = 0 => Len(t) = 0)
  <2> DEFINE c == Cardinality(S)
  <2>1. /\ c \in Nat /\ t \in [1 .. c -> S]
        /\ \A j \in 1 .. c - 1 : t[j] < t[j + 1]
    BY <1>2, AscendingFacts
  <2> HIDE DEF t, c
  <2>2. \A x \in S : x \in Nat /\ x <= n - 1
    BY <1>1
  <2>3. \A j \in 1 .. c : t[j] \in Nat /\ t[j] <= n - 1
    BY <2>1, <2>2
  <2>4. t \in [1 .. c -> Nat]
    BY <2>1, <2>2
  <2>5. t \in Seq(Nat) /\ Len(t) = c
    BY <2>1, <2>4
  <2>6. n = 0 => c = 0
    <3>1. SUFFICES ASSUME n = 0, c # 0 PROVE FALSE
      OBVIOUS
    <3>2. 1 \in 1 .. c
      BY <2>1, <3>1
    <3>3. QED BY <2>3, <3>1, <3>2
  <2>7. QED BY <2>1, <2>3, <2>5, <2>6
<1>4. g * F \in Nat /\ n - 1 \in Int /\ N * F \in Nat
  BY <1>1, Z3
<1> HIDE DEF t, g, N, F
<1> DEFINE last == n - 1
<1>5. /\ w \in Seq(Nat \X Nat) /\ Len(w) = Len(t)
      /\ \A j \in DOMAIN w : g * F <= w[j][1] /\ w[j][1] <= w[j][2]
                             /\ w[j][2] <= g * F + last * frame_shift_in_ms
      /\ \A j \in 1 .. Len(w) - 1 : w[j][2] <= w[j + 1][1]
  <2> DEFINE offset == g * F
  <2>1. w = TokenTimes(t, offset)
    BY DEF WordPieces, t, g, F, S
  <2>2. last \in Int /\ \A j \in DOMAIN t : t[j] <= last
    BY <1>3, <1>4
  <2>3. offset \in Nat
    BY <1>4
  <2> HIDE DEF w, last, offset
  <2>4. LET v == TokenTimes(t, offset)
        IN  /\ v \in Seq(Nat \X Nat) /\ Len(v) = Len(t)
            /\ \A j \in DOMAIN v : /\ offset <= v[j][1] /\ v[j][1] <= v[j][2]
                                   /\ v[j][2] <= offset + last * frame_shift_in_ms
            /\ \A j \in 1 .. Len(v) - 1 : v[j][2] <= v[j + 1][1]
    BY <1>3, <2>2, <2>3, WordsFacts
  <2>5. QED BY <2>1, <2>4 DEF offset
<1>6. n > 0 => g * F + last * frame_shift_in_ms <= N * F
  <2>1. SUFFICES ASSUME n > 0 PROVE g * F + last * frame_shift_in_ms <= N * F
    OBVIOUS
  <2> DEFINE d == N - g
             x == last * s
  <2>2. d \in Nat /\ n = WindowsIn(d) /\ last = n - 1
    BY <1>1
  <2> HIDE DEF d
  <2>3. x + right_context_ + 1 <= d /\ last \in Nat
    BY <1>1, <2>1, <2>2, WindowsFacts, Sizes
  <2> HIDE DEF last
  <2>4. x \in Nat /\ x <= d
    <3>1. x \in Nat
      BY <2>3, Sizes, Z3
    <3>2. QED BY <2>2, <2>3, <3>1, Sizes
  <2>5. last * frame_shift_in_ms = x * F
    BY <1>1, <2>3, Sizes, Z3 DEF frame_shift_in_ms, F
  <2> HIDE DEF x
  <2>6. x * F <= d * F /\ x * F \in Int /\ d * F \in Int
    BY <1>1, <2>2, <2>4, Multiple
  <2>7. d * F = N * F - g * F
    BY <1>1, Z3 DEF d
  <2>8. QED BY <1>4, <2>5, <2>6, <2>7
<1>7. \A j \in DOMAIN w : w[j][2] <= N * F
  <2>1. SUFFICES ASSUME NEW j \in DOMAIN w PROVE w[j][2] <= N * F
    OBVIOUS
  <2>2. Len(t) # 0
    BY <1>5, <2>1
  <2>3. n > 0
    BY <1>1, <1>3, <2>2
  <2>4. w[j] \in Nat \X Nat
    BY <1>5, <2>1
  <2> DEFINE top == g * F + last * frame_shift_in_ms
  <2>5. w[j][2] <= top /\ top <= N * F /\ w[j][2] \in Nat
    BY <1>5, <1>6, <2>1, <2>3, <2>4
  <2>6. top \in Int
    <3>1. last \in Int /\ frame_shift_in_ms \in Int
      BY <1>4, Sizes, DecoderAssumption, Z3 DEF frame_shift_in_ms
    <3>2. last * frame_shift_in_ms \in Int
      BY <3>1, Z3
    <3>3. QED BY <1>4, <3>2
  <2> HIDE DEF top
  <2>7. QED BY <1>4, <2>5, <2>6
<1>8. QED BY <1>5, <1>7 DEF w, g, F, N

LEMMA PublishKeeps ==
  ASSUME DecodeInv, Publish
  PROVE  DecodeInv'
<1> DEFINE w == WordPieces
           p == published
           from == global_frame_offset_ * FrameShift
           to == num_frames_ * FrameShift
<1>1. /\ FrameCounts /\ ClientInPhase /\ SegmentInPhase /\ EncodedInPlace /\ NothingUnencoded
      /\ EndpointerCounts /\ RescoresTheSegment /\ AttendsToSegment /\ CacheHolds /\ PublishedBefore
      /\ pc = "publish" /\ published' = p \o w
      /\ reply' = (IF client = "api" THEN "final_result" ELSE reply)
      /\ pc' = (IF client = "api" THEN "idle" ELSE IF state = "kEndpoint" THEN "decode" ELSE "done")
      /\ UNCHANGED <<client, continuous_decoding_>>
  BY DEF DecodeInv, Publish, clientVars
<1>2. start_ /\ state \in {"kEndpoint", "kEndFeats"} /\ (state = "kEndpoint" => continuous_decoding_)
      /\ (Ended <=> state = "kEndFeats")
  BY <1>1 DEF ClientInPhase, Publishes, Ended
<1>3. /\ w \in Seq(Nat \X Nat)
      /\ \A j \in DOMAIN w : from <= w[j][1] /\ w[j][1] <= w[j][2] /\ w[j][2] <= to
      /\ \A j \in 1 .. Len(w) - 1 : w[j][2] <= w[j + 1][1]
  BY WordsOfSegment
<1>4. /\ p \in Seq(Nat \X Nat)
      /\ \A i \in DOMAIN p : /\ p[i][1] <= p[i][2] /\ p[i][2] <= to /\ p[i][2] <= from
                             /\ i > 1 => p[i - 1][2] <= p[i][1]
  BY <1>1 DEF PublishedBefore, WordsInOrder
<1>5. from \in Nat /\ to \in Nat
  <2>1. global_frame_offset_ \in Nat /\ num_frames_ \in Nat
    BY <1>1, ClientAssumption DEF FrameCounts
  <2>2. QED BY <2>1, DecoderAssumption, Z3
<1> HIDE DEF w, p, from, to
<1> DEFINE x == p \o w
           m == Len(p)
           k == Len(w)
<1>6. /\ x \in Seq(Nat \X Nat) /\ Len(x) = m + k /\ m \in Nat /\ k \in Nat
      /\ \A i \in 1 .. m + k : x[i] = IF i <= m THEN p[i] ELSE w[i - m]
  <2>1. p \in Seq(Nat \X Nat) /\ w \in Seq(Nat \X Nat)
    BY <1>3, <1>4
  <2>2. QED BY ONLY <2>1, ConcatProperties
<1>7. (\A i \in 1 .. m : p[i] \in Nat \X Nat) /\ (\A i \in 1 .. k : w[i] \in Nat \X Nat)
      /\ DOMAIN p = 1 .. m /\ DOMAIN w = 1 .. k
  BY <1>3, <1>4
<1> HIDE DEF x, m, k
<1>8. \A i \in 1 .. m + k : /\ x[i][1] <= x[i][2] /\ x[i][2] <= to
                            /\ i > 1 => x[i - 1][2] <= x[i][1]
  <2>1. SUFFICES ASSUME NEW i \in 1 .. m + k
                 PROVE  /\ x[i][1] <= x[i][2] /\ x[i][2] <= to
                        /\ i > 1 => x[i - 1][2] <= x[i][1]
    OBVIOUS
  <2>2. CASE i <= m
    <3>1. i \in 1 .. m /\ x[i] = p[i]
      BY <1>6, <2>2
    <3>2. i > 1 => i - 1 \in 1 .. m + k /\ i - 1 <= m
      BY <1>6, <3>1
    <3>3. i > 1 => x[i - 1] = p[i - 1]
      BY <1>6, <3>2
    <3>4. p[i][1] <= p[i][2] /\ p[i][2] <= to /\ (i > 1 => p[i - 1][2] <= p[i][1])
      BY <1>4, <1>7, <3>1
    <3>5. QED BY <3>1, <3>3, <3>4
  <2>3. CASE ~(i <= m)
    <3> DEFINE j == i - m
    <3>1. j \in 1 .. k /\ i = m + j
      BY <1>6, <2>3
    <3>2. x[i] = w[j]
      BY <1>6, <2>3
    <3> HIDE DEF j
    <3>3. from <= w[j][1] /\ w[j][1] <= w[j][2] /\ w[j][2] <= to
      BY <1>3, <1>7, <3>1
    <3>4. CASE j > 1
      <4> DEFINE h == j - 1
      <4>1. h \in 1 .. k - 1 /\ h + 1 = j /\ i - 1 \in 1 .. m + k /\ ~(i - 1 <= m) /\ i - 1 - m = h
        BY <1>6, <3>1, <3>4
      <4> HIDE DEF h
      <4>2. x[i - 1] = w[h]
        BY <1>6, <4>1
      <4>3. w[h][2] <= w[h + 1][1]
        BY <1>3, <4>1 DEF k
      <4>4. QED BY <3>2, <3>3, <4>1, <4>2, <4>3
    <3>5. CASE ~(j > 1)
      <4>1. j = 1 /\ i - 1 = m
        BY <1>6, <3>1, <3>5
      <4>2. i > 1 => m \in 1 .. m + k /\ m \in 1 .. m
        BY <1>6, <4>1
      <4>8. i > 1 => m <= m /\ x[m] = p[m]
        BY <1>6, <4>2
      <4>9. i > 1 => p[m][2] <= from
        BY <1>4, <1>7, <4>2
      <4>3. i > 1 => x[i - 1] = p[m] /\ p[m][2] <= from
        BY ONLY <4>1, <4>8, <4>9
      <4>4. i > 1 => p[m][2] \in Nat
        BY <1>7, <4>2
      <4>5. w[j][1] \in Nat
        BY <1>7, <3>1
      <4>6. i > 1 => p[m][2] <= w[j][1]
        BY <1>5, <3>3, <4>3, <4>4, <4>5
      <4>7. QED BY <3>2, <3>3, <4>3, <4>6
    <3>6. QED BY <3>4, <3>5
  <2>4. QED BY <2>2, <2>3
<1>9. DOMAIN x = 1 .. m + k /\ published' = x
  BY <1>1, <1>6 DEF x
<1>10. CASE state = "kEndpoint"
  <2>1. /\ ClearSegment /\ ResetEndpointer /\ global_frame_offset_' = num_frames_
        /\ UNCHANGED <<produced, delivered, input_finished, chunk_size_, num_frames_, state>>
        /\ start_' = FALSE
    BY <1>10 DEF Publish, ResetContinuousDecoding, pipelineVars, ClearSegment
  <2>2. FrameCounts' /\ delivered' = global_frame_offset_'
    <3>1. delivered \in 0 .. delivered
      BY <1>1, ClientAssumption DEF FrameCounts
    <3>2. QED BY <1>1, <2>1, <3>1 DEF FrameCounts
  <2>3. /\ SegmentInPhase' /\ EncodedInPlace' /\ NothingUnencoded' /\ EndpointerCounts'
        /\ RescoresTheSegment' /\ AttendsToSegment' /\ CacheHolds' /\ ~Ended'
    BY <1>1, <2>1, <2>2, NewSegment
  <2>4. pc' \in {"idle", "decode"} /\ (pc' = "idle" <=> client = "api")
    <3>1. CASE client = "api"
      BY <1>1, <3>1
    <3>2. CASE client # "api"
      BY <1>1, <1>10, <3>2
    <3>3. QED BY <3>1, <3>2
  <2>5. ClientInPhase'
    BY <1>1, <1>2, <1>10, <2>3, <2>4 DEF ClientInPhase
  <2>6. (num_frames_ * FrameShift)' = to /\ (global_frame_offset_ * FrameShift)' = to
    BY <2>1 DEF to
  <2>7. PublishedBefore'
    BY <1>6, <1>8, <1>9, <2>6 DEF PublishedBefore, WordsInOrder
  <2>8. QED BY <2>2, <2>3, <2>5, <2>7 DEF DecodeInv
<1>11. CASE state # "kEndpoint"
  <2>1. UNCHANGED <<produced, delivered, input_finished, chunk_size_, start_, num_frames_, state,
                    global_frame_offset_, cached_feature_, modelVars, endpointVars, outputs, result_>>
    BY <1>11 DEF Publish, pipelineVars, decoderVars
  <2>2. state = "kEndFeats" /\ Ended /\ Ended'
    BY <1>2, <1>11, <2>1 DEF Ended
  <2>3. pc' \in {"idle", "done"} /\ (pc' = "idle" <=> client = "api")
    BY <1>1, <1>11
  <2>4. FrameCounts'
    BY <1>1, <2>1 DEF FrameCounts
  <2>5. ClientInPhase'
    BY <1>1, <2>1, <2>2, <2>3 DEF ClientInPhase
  <2>6. SegmentInPhase' /\ EncodedInPlace' /\ NothingUnencoded'
    BY <1>1, <2>1, <2>2 DEF SegmentInPhase, EncodedInPlace, NothingUnencoded, WindowsIn
  <2>7. EndpointerCounts'
    BY <1>1, <2>1, <2>2 DEF EndpointerCounts, endpointVars
  <2>8. RescoresTheSegment' /\ AttendsToSegment' /\ CacheHolds'
    BY <1>1, <2>1, <2>2 DEF RescoresTheSegment, AttendsToSegment, CacheHolds, modelVars,
                            required_cache_size, FixedCache
  <2>9. (num_frames_ * FrameShift)' = to
    BY <2>1 DEF to
  <2>10. PublishedBefore'
    BY <1>6, <1>8, <1>9, <2>2, <2>3, <2>9 DEF PublishedBefore, WordsInOrder
  <2>11. QED BY <2>4, <2>5, <2>6, <2>7, <2>8, <2>10 DEF DecodeInv
<1>12. QED BY <1>10, <1>11

(***************************************************************************)
(* Main results.                                                           *)
(***************************************************************************)
LEMMA DecodeInvHolds == Spec => []DecodeInv
<1>1. Init => DecodeInv
  BY InitDecodeInv
<1>2. DecodeInv /\ [Next]_vars => DecodeInv'
  <2>1. SUFFICES ASSUME DecodeInv, [Next]_vars PROVE DecodeInv'
    OBVIOUS
  <2>2. CASE FeedThread
    BY <2>1, <2>2, FeedThreadKeeps
  <2>3. CASE Call
    BY <2>1, <2>3, CallKeeps
  <2>4. CASE Wait
    BY <2>1, <2>4, WaitKeeps
  <2>5. CASE Decode
    BY <2>1, <2>5, DecodeKeeps
  <2>6. CASE Rescore
    BY <2>1, <2>6, RescoreKeeps
  <2>7. CASE Publish
    BY <2>1, <2>7, PublishKeeps
  <2>8. CASE NextUtterance
    BY <2>1, <2>8, NextUtteranceKeeps
  <2>9. CASE UNCHANGED vars
    BY <2>1, <2>9, StutterKeeps
  <2>10. QED BY <2>1, <2>2, <2>3, <2>4, <2>5, <2>6, <2>7, <2>8, <2>9 DEF Next
<1>3. QED BY <1>1, <1>2, PTL DEF Spec

\* From the first frame to the end that a client is told of, every frame is encoded once,
\* at the place its time says: over chunks, endpoints and resets, and whatever the
\* encoder's subsampling and context (AsrDecoder::AdvanceDecoding).
THEOREM FramesAreDecoded == Spec => []EveryFrameDecoded
<1>1. DecodeInv => EveryFrameDecoded
  <2>1. SUFFICES ASSUME DecodeInv PROVE EveryFrameDecoded
    OBVIOUS
  <2>2. FrameCounts /\ ClientInPhase /\ SegmentInPhase /\ EndpointerCounts /\ PublishedBefore
    BY <2>1 DEF DecodeInv
  <2>3. DecoderTypeOK
    <3>1. produced \in Nat /\ num_frames_ \in Nat /\ global_frame_offset_ \in 0 .. num_frames_
      BY <2>2, ClientAssumption DEF FrameCounts
    <3>2. QED BY <2>2, <3>1 DEF FrameCounts, SegmentInPhase, EndpointerCounts, DecoderTypeOK
  <2>4. TypeOK
    <3>1. produced <= MaxFrames
      BY <2>2, ClientAssumption DEF FrameCounts
    <3>2. QED BY <2>2, <2>3, <3>1 DEF TypeOK, ClientInPhase, PublishedBefore
  <2>5. EndCoversAll
    BY <2>2 DEF ClientInPhase, EndCoversAll
  <2>6. QED BY <2>1, <2>4, <2>5 DEF EveryFrameDecoded, DecodeInv
<1>2. QED BY <1>1, DecodeInvHolds, PTL

\* An endpoint is reported exactly when one of the three rules holds of the outputs of
\* the segment (CtcEndpoint::IsEndpoint, over chunks and ResetContinuousDecoding).
THEOREM EndpointsAreByRule == Spec => []EndpointsByRule
<1>1. DecodeInv => EndpointsByRule
  <2>1. SUFFICES ASSUME DecodeInv, pc \in {"decode", "rescore"}, outputs # <<>>,
                        state \in {"kEndBatch", "kEndpoint"}
                 PROVE  state = "kEndpoint"
                          <=> RuleActivated(DecodedSomething(result_), Len(outputs) - Max(Spoken \cup {0}),
                                            Len(outputs))
    BY DEF EndpointsByRule, Spoken
  <2>2. ~Ended
    BY <2>1 DEF Ended
  <2>3. num_frames_trailing_blank_ = Len(outputs) - Max(Spoken \cup {0})
    BY <2>1, <2>2 DEF DecodeInv, EndpointerCounts
  <2>4. state = "kEndpoint"
          <=> RuleActivated(DecodedSomething(result_), num_frames_trailing_blank_, Len(outputs))
    BY <2>1 DEF DecodeInv, EndpointerCounts
  <2>5. QED BY <2>3, <2>4
<1>2. QED BY <1>1, DecodeInvHolds, PTL

\* The words of an utterance, over all its segments, are in order and do not overlap.
THEOREM WordsAreInOrder == Spec => []WordsInOrder
<1>1. DecodeInv => WordsInOrder
  BY DEF DecodeInv, PublishedBefore
<1>2. QED BY <1>1, DecodeInvHolds, PTL

\* The model attends to, and keeps for rescoring, outputs of the segment at their places
\* (OnnxAsrModel and TorchAsrModel, with a cache of a fixed size and without).
THEOREM ModelIsOfTheSegment == Spec => []ModelKeepsTheSegment
<1>1. DecodeInv => ModelKeepsTheSegment
  <2>1. SUFFICES ASSUME DecodeInv PROVE ModelKeepsTheSegment
    OBVIOUS
  <2>2. CacheInPosition
    <3> DEFINE n == Len(outputs)
               size == Len(att_cache_)
    <3>1. /\ n \in Nat /\ att_cache_ \in Seq(Nat) /\ size \in Nat
          /\ FixedCache => size = required_cache_size
          /\ offset_ = n + (IF FixedCache THEN size ELSE 0)
          /\ \A i \in 1 .. size : att_cache_[i] = IF n - size + i > 0 THEN n - size + i ELSE Zeros
      BY <2>1 DEF DecodeInv, CacheHolds, SegmentInPhase
    <3>7. DOMAIN att_cache_ = 1 .. size
      BY <3>1
    <3>2. SUFFICES ASSUME NEW i \in 1 .. size, att_cache_[i] # Zeros
                   PROVE  offset_ - size + i
                            = att_cache_[i] + (IF FixedCache THEN required_cache_size ELSE 0)
      BY <3>7 DEF CacheInPosition
    <3>3. att_cache_[i] = n - size + i
      BY <3>1, <3>2
    <3> HIDE DEF n, size
    <3>4. CASE FixedCache
      BY <3>1, <3>2, <3>3, <3>4
    <3>5. CASE ~FixedCache
      BY <3>1, <3>2, <3>3, <3>5
    <3>6. QED BY <3>4, <3>5
  <2>3. QED BY <2>1, <2>2 DEF ModelKeepsTheSegment, DecodeInv
<1>2. QED BY <1>1, DecodeInvHolds, PTL

(***************************************************************************)
(* Functions defined by recursion on something that gets smaller.          *)
(***************************************************************************)
LEMMA StrongInduction ==
    ASSUME NEW S, \A n \in Nat : (\A m \in 0 .. n - 1 : m \in S) => n \in S
    PROVE  \A n \in Nat : n \in S
<1> DEFINE Bad == Nat \ S
           R == {ss \in Nat \X Nat : ss[1] < ss[2]}
<1>1. IsWellFoundedOn(R, Nat)
  BY NatLessThanWellFounded DEF OpToRel
<1>2. \A x, y \in Nat : x < y => <<x, y>> \in R
  OBVIOUS
<1>3. SUFFICES ASSUME Bad # {} PROVE FALSE
  OBVIOUS
<1>4. Bad \in SUBSET Nat
  OBVIOUS
<1>5. PICK x \in Bad : \A y \in Bad : ~(<<y, x>> \in R)
  <2> HIDE DEF R, Bad
  <2>1. QED BY <1>1, <1>3, <1>4, WFMin
<1>6. x \in Nat /\ x \notin S
  BY <1>5
<1>7. ASSUME NEW m \in 0 .. x - 1 PROVE m \in S
  <2>1. m \in Nat /\ m < x
    BY <1>6
  <2>2. <<m, x>> \in R
    BY <1>2, <1>6, <2>1
  <2> HIDE DEF R
  <2>3. QED BY <1>5, <2>1, <2>2
<1>8. QED BY <1>6, <1>7

\* f is as it should be at the places below n.
RightBelow(f, n, S, V, rank, stop, base, prev, step) ==
    /\ f \in [S -> V]
    /\ \A s \in S : rank[s] < n =>
            f[s] = IF s \in stop THEN base[s] ELSE step[s][f[prev[s]]]

GetsSmaller(S, rank, stop, prev) == \A s \in S : s \notin stop => rank[prev[s]] < rank[s]

IsRecursive(f, S, V, stop, base, prev, step) ==
    /\ f \in [S -> V]
    /\ \A s \in S : f[s] = IF s \in stop THEN base[s] ELSE step[s][f[prev[s]]]

LEMMA Recursion ==
    ASSUME NEW S, NEW V, NEW rank \in [S -> Nat], NEW stop, NEW base \in [S -> V],
           NEW prev \in [S -> S], NEW step \in [S -> [V -> V]],
           GetsSmaller(S, rank, stop, prev)
    PROVE  \E f : IsRecursive(f, S, V, stop, base, prev, step)
<1> USE DEF GetsSmaller
<1> DEFINE Right(f, n) == RightBelow(f, n, S, V, rank, stop, base, prev, step)
           Has == {n \in Nat : \E f : Right(f, n)}
<1>1. ASSUME NEW f \in [S -> V], NEW s \in S
      PROVE  (IF s \in stop THEN base[s] ELSE step[s][f[prev[s]]]) \in V
  <2>1. prev[s] \in S /\ f[prev[s]] \in V /\ step[s] \in [V -> V] /\ base[s] \in V
    OBVIOUS
  <2>2. step[s][f[prev[s]]] \in V
    BY <2>1
  <2>3. QED BY <2>1, <2>2
<1>2. ASSUME NEW n \in Nat, NEW m \in Nat, NEW f, NEW g, Right(f, n), Right(g, m)
      PROVE  \A s \in S : rank[s] < n /\ rank[s] < m => f[s] = g[s]
  <2> DEFINE Same == {k \in Nat : \A s \in S : rank[s] = k /\ k < n /\ k < m => f[s] = g[s]}
  <2>1. ASSUME NEW k \in Nat, \A j \in 0 .. k - 1 : j \in Same PROVE k \in Same
    <3>1. SUFFICES ASSUME NEW s \in S, rank[s] = k, k < n, k < m PROVE f[s] = g[s]
      OBVIOUS
    <3>2. f[s] = IF s \in stop THEN base[s] ELSE step[s][f[prev[s]]]
      BY <1>2, <3>1 DEF RightBelow
    <3>3. g[s] = IF s \in stop THEN base[s] ELSE step[s][g[prev[s]]]
      BY <1>2, <3>1 DEF RightBelow
    <3>4. CASE s \in stop
      BY <3>2, <3>3, <3>4
    <3>5. CASE s \notin stop
      <4>1. prev[s] \in S /\ rank[prev[s]] \in Nat /\ rank[prev[s]] < k
        BY <3>1, <3>5
      <4>2. rank[prev[s]] \in 0 .. k - 1 /\ rank[prev[s]] < n /\ rank[prev[s]] < m
        BY <3>1, <4>1
      <4>3. rank[prev[s]] \in Same
        BY <2>1, <4>2
      <4>4. f[prev[s]] = g[prev[s]]
        BY <4>1, <4>2, <4>3
      <4>5. QED BY <3>2, <3>3, <3>5, <4>4
    <3>6. QED BY <3>4, <3>5
  <2>2. \A k \in Nat : k \in Same
    <3> HIDE DEF Same
    <3>1. QED BY <2>1, StrongInduction
  <2>3. TAKE s \in S
  <2>4. rank[s] \in Nat /\ rank[s] \in Same
    BY <2>2
  <2>5. QED BY <2>4
<1>3. ASSUME NEW n \in Nat, \A m \in 0 .. n - 1 : m \in Has PROVE n \in Has
  <2>1. CASE n = 0
    <3>1. Right(base, 0)
      <4>1. \A s \in S : rank[s] \in Nat /\ ~(rank[s] < 0)
        OBVIOUS
      <4>2. QED BY <4>1 DEF RightBelow
    <3> HIDE DEF Right
    <3>2. QED BY <2>1, <3>1
  <2>2. CASE n # 0
    <3>1. n - 1 \in 0 .. n - 1 /\ n - 1 \in Nat
      BY <2>2
    <3>2. PICK f : Right(f, n - 1)
      BY <1>3, <3>1
    <3>3. f \in [S -> V]
      BY <3>2 DEF RightBelow
    <3> DEFINE g == [s \in S |-> IF rank[s] < n - 1 THEN f[s]
                                 ELSE IF s \in stop THEN base[s] ELSE step[s][f[prev[s]]]]
    <3>4. g \in [S -> V]
      <4>1. ASSUME NEW s \in S PROVE g[s] \in V
        <5>1. f[s] \in V
          BY <3>3
        <5>2. (IF s \in stop THEN base[s] ELSE step[s][f[prev[s]]]) \in V
          BY <1>1, <3>3
        <5>3. QED BY <5>1, <5>2
      <4>2. QED BY <4>1
    <3>5. ASSUME NEW s \in S, rank[s] < n
          PROVE  g[s] = IF s \in stop THEN base[s] ELSE step[s][g[prev[s]]]
      <4>1. rank[s] \in Nat
        OBVIOUS
      <4>2. g[s] = IF s \in stop THEN base[s] ELSE step[s][f[prev[s]]]
        <5>1. CASE rank[s] < n - 1
          <6>1. f[s] = IF s \in stop THEN base[s] ELSE step[s][f[prev[s]]]
            BY <3>2, <5>1 DEF RightBelow
          <6>2. g[s] = f[s]
            BY <5>1
          <6> HIDE DEF g
          <6>3. QED BY <6>1, <6>2
        <5>2. CASE ~(rank[s] < n - 1)
          BY <5>2
        <5>3. QED BY <5>1, <5>2
      <4>3. s \notin stop => g[prev[s]] = f[prev[s]]
        <5>1. SUFFICES ASSUME s \notin stop PROVE g[prev[s]] = f[prev[s]]
          OBVIOUS
        <5>2. prev[s] \in S /\ rank[prev[s]] \in Nat /\ rank[prev[s]] < rank[s]
          BY <5>1
        <5>3. rank[prev[s]] < n - 1
          BY <3>5, <4>1, <5>2
        <5>4. QED BY <5>2, <5>3
      <4> HIDE DEF g
      <4>4. QED BY <4>2, <4>3
    <3> HIDE DEF g
    <3>6. Right(g, n)
      BY <3>4, <3>5 DEF RightBelow
    <3> HIDE DEF Right
    <3>7. QED BY <3>6
  <2>3. QED BY <2>1, <2>2
<1>4. \A n \in Nat : \E f : Right(f, n)
  <2>1. \A n \in Nat : n \in Has
    <3> HIDE DEF Has
    <3>1. QED BY <1>3, StrongInduction
  <2>2. QED BY <2>1
<1> DEFINE At(n) == CHOOSE f : Right(f, n)
           all == [s \in S |-> At(rank[s] + 1)[s]]
<1>5. ASSUME NEW n \in Nat PROVE Right(At(n), n)
  <2> HIDE DEF Right
  <2>1. QED BY <1>4
<1>6. ASSUME NEW s \in S
      PROVE  /\ all[s] \in V
             /\ all[s] = IF s \in stop THEN base[s] ELSE step[s][all[prev[s]]]
  <2>1. rank[s] \in Nat /\ rank[s] + 1 \in Nat /\ rank[s] < rank[s] + 1
    OBVIOUS
  <2> DEFINE f == At(rank[s] + 1)
  <2>2. Right(f, rank[s] + 1)
    BY <1>5, <2>1
  <2>3. all[s] = f[s]
    OBVIOUS
  <2> HIDE DEF f
  <2>4. f[s] \in V /\ f[s] = IF s \in stop THEN base[s] ELSE step[s][f[prev[s]]]
    BY <2>1, <2>2 DEF RightBelow
  <2>5. s \notin stop => all[prev[s]] = f[prev[s]]
    <3>1. SUFFICES ASSUME s \notin stop PROVE all[prev[s]] = f[prev[s]]
      OBVIOUS
    <3>2. prev[s] \in S /\ rank[prev[s]] \in Nat /\ rank[prev[s]] < rank[s]
      BY <3>1
    <3>3. rank[prev[s]] + 1 \in Nat /\ rank[prev[s]] < rank[prev[s]] + 1 /\ rank[prev[s]] < rank[s] + 1
      BY <2>1, <3>2
    <3> DEFINE g == At(rank[prev[s]] + 1)
    <3>4. Right(g, rank[prev[s]] + 1)
      BY <1>5, <3>3
    <3>5. all[prev[s]] = g[prev[s]]
      BY <3>2
    <3> HIDE DEF g, all
    <3>6. g[prev[s]] = f[prev[s]]
      <4> HIDE DEF Right
      <4>1. QED BY <1>2, <2>1, <2>2, <3>2, <3>3, <3>4
    <3>7. QED BY <3>5, <3>6
  <2> HIDE DEF all
  <2>6. QED BY <2>3, <2>4, <2>5
<1>7. all \in [S -> V]
  <2>1. all = [s \in S |-> all[s]]
    OBVIOUS
  <2> HIDE DEF all
  <2>2. QED BY <1>6, <2>1
<1> HIDE DEF all
<1>8. IsRecursive(all, S, V, stop, base, prev, step)
  BY <1>6, <1>7 DEF IsRecursive
<1>9. QED BY <1>8

(***************************************************************************)
(* Suffixes.                                                               *)
(***************************************************************************)
EndsWith(r, q, U) ==
    /\ r \in Seq(U) /\ Len(r) <= Len(q)
    /\ \A i \in 1 .. Len(r) : r[i] = q[Len(q) - Len(r) + i]

LEMMA SuffixIs ==
    ASSUME NEW U, NEW q \in Seq(U), NEW r
    PROVE  r \in Suffixes(q) <=> EndsWith(r, q, U)
<1>1. ASSUME NEW l \in 1 .. Len(q)
      PROVE  /\ SubSeq(q, l, Len(q)) \in Seq(U)
             /\ Len(SubSeq(q, l, Len(q))) = Len(q) - l + 1
             /\ \A i \in 1 .. Len(q) - l + 1 : SubSeq(q, l, Len(q))[i] = q[l + i - 1]
  OBVIOUS
<1>2. ASSUME r \in Suffixes(q) PROVE EndsWith(r, q, U)
  <2>1. CASE r = <<>>
    BY <2>1 DEF EndsWith
  <2>2. CASE r # <<>>
    <3>1. PICK l \in 1 .. Len(q) : r = SubSeq(q, l, Len(q))
      BY <1>2, <2>2 DEF Suffixes
    <3>2. r \in Seq(U) /\ Len(r) = Len(q) - l + 1
      BY <1>1, <3>1
    <3>3. ASSUME NEW i \in 1 .. Len(r) PROVE r[i] = q[Len(q) - Len(r) + i]
      <4>1. Len(q) - Len(r) + i = l + i - 1 /\ i \in 1 .. Len(q) - l + 1
        BY <3>2
      <4>2. QED BY <1>1, <3>1, <4>1
    <3>4. Len(r) <= Len(q)
      BY <3>2
    <3>5. QED BY <3>2, <3>3, <3>4 DEF EndsWith
  <2>3. QED BY <2>1, <2>2
<1>3. ASSUME EndsWith(r, q, U) PROVE r \in Suffixes(q)
  <2>1. r \in Seq(U) /\ Len(r) <= Len(q) /\ Len(r) \in Nat /\ Len(q) \in Nat
    BY <1>3 DEF EndsWith
  <2>2. CASE Len(r) = 0
    <3>1. r = <<>>
      BY <2>1, <2>2
    <3>2. QED BY <3>1 DEF Suffixes
  <2>3. CASE Len(r) # 0
    <3> DEFINE l == Len(q) - Len(r) + 1
    <3>1. l \in 1 .. Len(q) /\ Len(q) - l + 1 = Len(r)
      BY <2>1, <2>3
    <3>2. \A i \in 1 .. Len(r) : l + i - 1 = Len(q) - Len(r) + i
      BY <2>1
    <3> HIDE DEF l
    <3>3. /\ SubSeq(q, l, Len(q)) \in Seq(U) /\ Len(SubSeq(q, l, Len(q))) = Len(r)
          /\ \A i \in 1 .. Len(r) : SubSeq(q, l, Len(q))[i] = r[i]
      <4>1. /\ SubSeq(q, l, Len(q)) \in Seq(U)
            /\ Len(SubSeq(q, l, Len(q))) = Len(r)
            /\ \A i \in 1 .. Len(r) : SubSeq(q, l, Len(q))[i] = q[l + i - 1]
        BY <1>1, <3>1
      <4>2. \A i \in 1 .. Len(r) : r[i] = q[l + i - 1]
        BY <1>3, <3>2 DEF EndsWith
      <4>3. QED BY <4>1, <4>2
    <3>4. r = SubSeq(q, l, Len(q))
      BY <2>1, <3>3, SeqEqual
    <3>5. QED BY <3>1, <3>4 DEF Suffixes
  <2>4. QED BY <2>2, <2>3
<1>4. QED BY <1>2, <1>3

LEMMA SuffixFacts ==
    ASSUME NEW U, NEW q \in Seq(U)
    PROVE  /\ q \in Suffixes(q) /\ <<>> \in Suffixes(q)
           /\ \A r \in Suffixes(q) :
                /\ r \in Seq(U) /\ Len(r) \in Nat /\ Len(r) <= Len(q)
                /\ Len(r) = Len(q) => r = q
                /\ Suffixes(r) \subseteq Suffixes(q)
           /\ \A r, s \in Suffixes(q) : Len(r) <= Len(s) => r \in Suffixes(s)
<1>1. EndsWith(q, q, U)
  <2>1. Len(q) \in Nat /\ \A i \in 1 .. Len(q) : Len(q) - Len(q) + i = i
    OBVIOUS
  <2>2. QED BY <2>1 DEF EndsWith
<1>2. q \in Suffixes(q) /\ <<>> \in Suffixes(q)
  BY <1>1, SuffixIs DEF Suffixes
<1>3. ASSUME NEW r \in Suffixes(q)
      PROVE  /\ r \in Seq(U) /\ Len(r) \in Nat /\ Len(r) <= Len(q)
             /\ \A i \in 1 .. Len(r) : r[i] = q[Len(q) - Len(r) + i]
             /\ Len(r) = Len(q) => r = q
  <2>1. EndsWith(r, q, U)
    BY SuffixIs
  <2>2. /\ r \in Seq(U) /\ Len(r) \in Nat /\ Len(q) \in Nat /\ Len(r) <= Len(q)
        /\ \A i \in 1 .. Len(r) : r[i] = q[Len(q) - Len(r) + i]
    BY <2>1 DEF EndsWith
  <2>3. ASSUME Len(r) = Len(q) PROVE r = q
    <3>1. \A i \in 1 .. Len(r) : Len(q) - Len(r) + i = i
      BY <2>2, <2>3
    <3>2. \A i \in 1 .. Len(r) : r[i] = q[i]
      BY <2>2, <3>1
    <3>3. QED BY ONLY q \in Seq(U), <2>2, <2>3, <3>2, SeqEqual
  <2>4. QED BY <2>2, <2>3
<1>4. ASSUME NEW r \in Suffixes(q), NEW s \in Suffixes(r) PROVE s \in Suffixes(q)
  <2>1. r \in Seq(U) /\ Len(r) \in Nat /\ Len(q) \in Nat /\ Len(r) <= Len(q)
    BY <1>3
  <2>2. EndsWith(s, r, U)
    BY <2>1, SuffixIs
  <2>3. s \in Seq(U) /\ Len(s) \in Nat /\ Len(s) <= Len(r)
    BY <2>2 DEF EndsWith
  <2>4. ASSUME NEW i \in 1 .. Len(s) PROVE s[i] = q[Len(q) - Len(s) + i]
    <3>1. /\ Len(r) - Len(s) + i \in 1 .. Len(r)
          /\ Len(q) - Len(r) + (Len(r) - Len(s) + i) = Len(q) - Len(s) + i
      BY <2>1, <2>3
    <3>2. s[i] = r[Len(r) - Len(s) + i]
      BY <2>2 DEF EndsWith
    <3>3. r[Len(r) - Len(s) + i] = q[Len(q) - Len(r) + (Len(r) - Len(s) + i)]
      BY <1>3, <3>1
    <3>4. QED BY <3>1, <3>2, <3>3
  <2>5. EndsWith(s, q, U)
    <3>1. Len(s) <= Len(q)
      BY <2>1, <2>3
    <3>2. QED BY <2>3, <2>4, <3>1 DEF EndsWith
  <2>6. QED BY <2>5, SuffixIs
<1>5. ASSUME NEW r \in Suffixes(q), NEW s \in Suffixes(q), Len(r) <= Len(s) PROVE r \in Suffixes(s)
  <2>1. /\ r \in Seq(U) /\ Len(r) \in Nat /\ s \in Seq(U) /\ Len(s) \in Nat /\ Len(q) \in Nat
        /\ Len(s) <= Len(q)
    BY <1>3
  <2>2. ASSUME NEW i \in 1 .. Len(r) PROVE r[i] = s[Len(s) - Len(r) + i]
    <3>1. /\ Len(s) - Len(r) + i \in 1 .. Len(s)
          /\ Len(q) - Len(s) + (Len(s) - Len(r) + i) = Len(q) - Len(r) + i
      BY <1>5, <2>1
    <3>2. s[Len(s) - Len(r) + i] = q[Len(q) - Len(s) + (Len(s) - Len(r) + i)]
      BY <1>3, <3>1
    <3>3. r[i] = q[Len(q) - Len(r) + i]
      BY <1>3
    <3>4. QED BY <3>1, <3>2, <3>3
  <2>3. EndsWith(r, s, U)
    BY <1>5, <2>1, <2>2 DEF EndsWith
  <2>4. QED BY <2>1, <2>3, SuffixIs
<1>6. \A r \in Suffixes(q) : Suffixes(r) \subseteq Suffixes(q)
  BY <1>4
<1>7. QED BY <1>2, <1>3, <1>5, <1>6

LEMMA FrontFacts ==
    ASSUME NEW U, NEW s \in Seq(U), s # <<>>
    PROVE  /\ Front(s) \in Seq(U) /\ Len(Front(s)) = Len(s) - 1 /\ Len(s) \in Nat \ {0}
           /\ \A i \in 1 .. Len(Front(s)) : Front(s)[i] = s[i]
           /\ Last(s) \in U /\ s = Append(Front(s), Last(s))
<1>1. PICK k \in Nat : k = Len(s) - 1
  <2>1. Len(s) \in Nat /\ Len(s) # 0
    OBVIOUS
  <2>2. Len(s) - 1 \in Nat
    BY <2>1
  <2>3. QED BY <2>2
<1>2. Len(s) = k + 1 /\ \A i \in 1 .. k + 1 : s[i] \in U
  <2>1. Len(s) \in Nat
    OBVIOUS
  <2>2. QED BY <1>1, <2>1
<1> DEFINE r == SubSeq(s, 1, k)
<1>3. /\ r \in Seq(U) /\ Len(r) = (IF 1 <= k THEN k - 1 + 1 ELSE 0)
      /\ \A i \in 1 .. k - 1 + 1 : r[i] = s[1 + i - 1]
  <2>1. \A i \in 1 .. k : s[i] \in U
    BY <1>2
  <2>2. QED BY <2>1, SubSeqProperties
<1> HIDE DEF r
<1>4. r \in Seq(U) /\ Len(r) = k /\ \A i \in 1 .. k : r[i] = s[i]
  <2>1. k - 1 + 1 = k /\ (~(1 <= k) => k = 0) /\ \A i \in 1 .. k : 1 + i - 1 = i
    OBVIOUS
  <2>2. QED BY <1>3, <2>1
<1>5. Front(s) = r /\ Last(s) = s[k + 1] /\ Last(s) \in U
  <2>1. (k + 1) - 1 = k /\ k + 1 \in 1 .. k + 1
    OBVIOUS
  <2>2. QED BY <1>2, <2>1 DEF Front, Last, r
<1> DEFINE t == Append(r, Last(s))
<1>6. /\ t \in Seq(U) /\ Len(t) = k + 1
      /\ \A i \in 1 .. k + 1 : t[i] = IF i = k + 1 THEN Last(s) ELSE r[i]
  BY <1>4, <1>5
<1> HIDE DEF t
<1>7. ASSUME NEW i \in 1 .. k + 1 PROVE s[i] = t[i]
  <2>1. i # k + 1 => i \in 1 .. k
    OBVIOUS
  <2>2. QED BY <1>4, <1>5, <1>6, <2>1
<1>8. s = t
  BY ONLY s \in Seq(U), <1>2, <1>6, <1>7, SeqEqual
<1>9. Len(s) - 1 = k /\ Len(s) \in Nat \ {0}
  BY <1>2
<1>10. QED BY <1>4, <1>5, <1>8, <1>9 DEF t

LEMMA SuffixOfAppended ==
    ASSUME NEW U, NEW q \in Seq(U), NEW u \in U
    PROVE  /\ \A r \in Suffixes(q) : Append(r, u) \in Suffixes(Append(q, u))
           /\ \A s \in Suffixes(Append(q, u)) :
                s = <<>> \/ \E r \in Suffixes(q) : s = Append(r, u)
<1> DEFINE qu == Append(q, u)
<1>1. /\ qu \in Seq(U) /\ Len(qu) = Len(q) + 1 /\ Len(q) \in Nat
      /\ \A i \in 1 .. Len(q) : qu[i] = q[i]
      /\ qu[Len(q) + 1] = u
  OBVIOUS
<1> HIDE DEF qu
<1>2. ASSUME NEW r \in Suffixes(q) PROVE Append(r, u) \in Suffixes(qu)
  <2>1. r \in Seq(U) /\ Len(r) \in Nat /\ Len(r) <= Len(q) /\ EndsWith(r, q, U)
    BY SuffixFacts, SuffixIs
  <2> DEFINE ru == Append(r, u)
  <2>2. /\ ru \in Seq(U) /\ Len(ru) = Len(r) + 1
        /\ \A i \in 1 .. Len(r) : ru[i] = r[i]
        /\ ru[Len(r) + 1] = u
    BY <2>1
  <2> HIDE DEF ru
  <2>3. ASSUME NEW i \in 1 .. Len(ru) PROVE ru[i] = qu[Len(qu) - Len(ru) + i]
    <3>1. CASE i = Len(r) + 1
      <4>1. Len(qu) - Len(ru) + i = Len(q) + 1
        BY <1>1, <2>1, <2>2, <3>1
      <4>2. QED BY <1>1, <2>2, <3>1, <4>1
    <3>2. CASE i # Len(r) + 1
      <4>1. /\ i \in 1 .. Len(r) /\ Len(qu) - Len(ru) + i = Len(q) - Len(r) + i
            /\ Len(q) - Len(r) + i \in 1 .. Len(q)
        BY <1>1, <2>1, <2>2, <3>2
      <4>2. r[i] = q[Len(q) - Len(r) + i]
        BY <2>1, <4>1 DEF EndsWith
      <4>3. QED BY <1>1, <2>2, <4>1, <4>2
    <3>3. QED BY <3>1, <3>2
  <2>4. Len(ru) <= Len(qu)
    BY <1>1, <2>1, <2>2
  <2>5. EndsWith(ru, qu, U)
    BY <2>2, <2>3, <2>4 DEF EndsWith
  <2>6. ru \in Suffixes(qu)
    BY <1>1, <2>5, SuffixIs
  <2>7. QED BY <2>6 DEF ru
<1>3. ASSUME NEW s \in Suffixes(qu), s # <<>> PROVE \E r \in Suffixes(q) : s = Append(r, u)
  <2>1. s \in Seq(U) /\ Len(s) \in Nat /\ Len(s) <= Len(q) + 1 /\ EndsWith(s, qu, U)
    BY <1>1, SuffixFacts, SuffixIs
  <2>2. Len(s) # 0
    BY <1>3, <2>1
  <2> DEFINE r == SubSeq(s, 1, Len(s) - 1)
  <2>3. /\ r \in Seq(U) /\ Len(r) = Len(s) - 1
        /\ \A i \in 1 .. Len(r) : r[i] = s[i]
    BY <2>1, <2>2, FrontFacts DEF Front
  <2> HIDE DEF r
  <2>4. ASSUME NEW i \in 1 .. Len(r) PROVE r[i] = q[Len(q) - Len(r) + i]
    <3>1. /\ i \in 1 .. Len(s) /\ Len(qu) - Len(s) + i = Len(q) - Len(r) + i
          /\ Len(q) - Len(r) + i \in 1 .. Len(q)
      BY <1>1, <2>1, <2>3
    <3>2. s[i] = qu[Len(qu) - Len(s) + i]
      BY <2>1, <3>1 DEF EndsWith
    <3>3. QED BY <1>1, <2>3, <3>1, <3>2
  <2>5. EndsWith(r, q, U)
    <3>1. Len(r) <= Len(q)
      BY <1>1, <2>1, <2>3
    <3>2. QED BY <2>3, <2>4, <3>1 DEF EndsWith
  <2>6. s = Append(r, u)
    <3>1. /\ Len(s) \in 1 .. Len(s) /\ Len(qu) - Len(s) + Len(s) = Len(q) + 1
      BY <1>1, <2>1, <2>2
    <3>2. s[Len(s)] = u
      BY <1>1, <2>1, <3>1 DEF EndsWith
    <3> DEFINE ru == Append(r, u)
    <3>3. /\ ru \in Seq(U) /\ Len(ru) = Len(s)
          /\ \A i \in 1 .. Len(s) : ru[i] = IF i = Len(s) THEN u ELSE r[i]
      BY <2>1, <2>2, <2>3
    <3> HIDE DEF ru
    <3>4. ASSUME NEW i \in 1 .. Len(s) PROVE s[i] = ru[i]
      <4>1. i # Len(s) => i \in 1 .. Len(r)
        BY <2>1, <2>3
      <4>2. QED BY <2>3, <3>2, <3>3, <4>1
    <3>5. s = ru
      BY <2>1, <3>3, <3>4, SeqEqual
    <3>6. QED BY <3>5 DEF ru
  <2>7. QED BY <2>5, <2>6, SuffixIs
<1>4. QED BY <1>2, <1>3 DEF qu

LEMMA SuffixOfTail ==
    ASSUME NEW U, NEW q \in Seq(U), q # <<>>
    PROVE  /\ Tail(q) \in Seq(U) /\ Len(Tail(q)) = Len(q) - 1
           /\ Tail(q) \in Suffixes(q)
           /\ \A r \in Suffixes(q) : r = q \/ r \in Suffixes(Tail(q))
<1> DEFINE t == Tail(q)
<1>1. /\ t \in Seq(U) /\ Len(t) = Len(q) - 1 /\ Len(q) \in Nat
      /\ \A i \in 1 .. Len(t) : t[i] = q[i + 1]
  BY HeadTailProperties
<1> HIDE DEF t
<1>2. EndsWith(t, q, U)
  <2>1. Len(t) <= Len(q) /\ \A i \in 1 .. Len(t) : Len(q) - Len(t) + i = i + 1
    BY <1>1
  <2>2. QED BY <1>1, <2>1 DEF EndsWith
<1>3. t \in Suffixes(q)
  BY <1>2, SuffixIs
<1>4. ASSUME NEW r \in Suffixes(q), r # q PROVE r \in Suffixes(t)
  <2>1. Len(r) \in Nat /\ Len(r) <= Len(q) /\ Len(r) # Len(q)
    BY <1>4, SuffixFacts
  <2>2. Len(r) <= Len(t)
    BY <1>1, <2>1
  <2>3. QED BY <1>3, <2>2, SuffixFacts
<1>5. QED BY <1>1, <1>3, <1>4 DEF t

(***************************************************************************)
(* The longest suffix that is a state of the graph, and what a state falls *)
(* back to: the longest one that is shorter than itself.                   *)
(***************************************************************************)
Tree(states, U) ==
    /\ states \subseteq Seq(U) /\ <<>> \in states
    /\ \A s \in Seq(U) : \A u \in U : Append(s, u) \in states => s \in states

IsMatch(m, p, states) ==
    /\ m \in Suffixes(p) /\ m \in states
    /\ \A r \in Suffixes(p) \cap states : Len(r) <= Len(m)

Match(p, states) ==
    CHOOSE q \in Suffixes(p) \cap states :
        \A r \in Suffixes(p) \cap states : Len(r) <= Len(q)

FallsTo(q, states) == IF q = Start THEN Start ELSE Match(Tail(q), states)

LEMMA MatchIs ==
    ASSUME NEW U, NEW states, <<>> \in states, NEW p \in Seq(U)
    PROVE  /\ IsMatch(Match(p, states), p, states)
           /\ \A m : IsMatch(m, p, states) => m = Match(p, states)
           /\ p \in states => Match(p, states) = p
           /\ p \notin states => p # <<>> /\ Match(p, states) = Match(Tail(p), states)
<1>1. ASSUME NEW q \in Seq(U), q \in states PROVE IsMatch(q, q, states)
  BY <1>1, SuffixFacts DEF IsMatch
<1>2. ASSUME NEW q \in Seq(U), q \notin states, q # <<>>, NEW m, IsMatch(m, Tail(q), states)
      PROVE  IsMatch(m, q, states)
  <2>1. Suffixes(Tail(q)) \subseteq Suffixes(q)
    BY <1>2, SuffixOfTail, SuffixFacts
  <2>2. \A r \in Suffixes(q) : r = q \/ r \in Suffixes(Tail(q))
    BY <1>2, SuffixOfTail
  <2>3. QED BY <1>2, <2>1, <2>2 DEF IsMatch
<1>3. ASSUME NEW q \in Seq(U), NEW a, NEW b, IsMatch(a, q, states), IsMatch(b, q, states)
      PROVE  a = b
  <2>1. Len(a) <= Len(b) /\ Len(b) <= Len(a) /\ a \in Suffixes(q) /\ b \in Suffixes(q)
    BY <1>3 DEF IsMatch
  <2>2. Len(a) \in Nat /\ Len(b) \in Nat /\ b \in Seq(U)
    BY <2>1, SuffixFacts
  <2>3. Len(a) = Len(b)
    BY <2>1, <2>2
  <2>4. a \in Suffixes(b)
    BY <2>1, SuffixFacts
  <2>5. QED BY <2>2, <2>3, <2>4, SuffixFacts
<1> DEFINE Met == {n \in Nat : \A q \in Seq(U) : Len(q) = n => \E m : IsMatch(m, q, states)}
<1>4. ASSUME NEW n \in Nat, \A k \in 0 .. n - 1 : k \in Met PROVE n \in Met
  <2>1. SUFFICES ASSUME NEW q \in Seq(U), Len(q) = n PROVE \E m : IsMatch(m, q, states)
    OBVIOUS
  <2>2. CASE q \in states
    BY <1>1, <2>2
  <2>3. CASE q \notin states
    <3>1. q # <<>>
      BY <2>3
    <3>2. Tail(q) \in Seq(U) /\ Len(Tail(q)) = n - 1 /\ n - 1 \in 0 .. n - 1
      <4>1. Tail(q) \in Seq(U) /\ Len(Tail(q)) = n - 1 /\ Len(Tail(q)) \in Nat
        BY <2>1, <3>1, SuffixOfTail
      <4>2. QED BY <4>1
    <3>3. \E m : IsMatch(m, Tail(q), states)
      <4>1. n - 1 \in Met
        BY <1>4, <3>2
      <4>2. QED BY <3>2, <4>1
    <3>4. QED BY <1>2, <2>3, <3>1, <3>3
  <2>4. QED BY <2>2, <2>3
<1>5. ASSUME NEW q \in Seq(U) PROVE IsMatch(Match(q, states), q, states)
  <2>1. \A n \in Nat : n \in Met
    <3> HIDE DEF Met
    <3>1. QED BY <1>4, StrongInduction
  <2>2. Len(q) \in Met
    BY <2>1
  <2>3. PICK m : IsMatch(m, q, states)
    BY <2>2
  <2>4. QED BY <2>3 DEF IsMatch, Match
<1>6. p \in states => Match(p, states) = p
  BY <1>1, <1>3, <1>5
<1>7. ASSUME p \notin states PROVE p # <<>> /\ Match(p, states) = Match(Tail(p), states)
  <2>1. p # <<>>
    BY <1>7
  <2>2. Tail(p) \in Seq(U)
    BY <2>1, SuffixOfTail
  <2>3. IsMatch(Match(Tail(p), states), p, states)
    BY <1>2, <1>5, <1>7, <2>1, <2>2
  <2>4. QED BY <1>3, <1>5, <2>1, <2>3
<1>8. QED BY <1>3, <1>5, <1>6, <1>7

LEMMA MatchOfAppended ==
    ASSUME NEW U, NEW states, Tree(states, U), NEW p \in Seq(U), NEW u \in U
    PROVE  Match(Append(Match(p, states), u), states) = Match(Append(p, u), states)
<1> DEFINE m == Match(p, states)
           pu == Append(p, u)
           mu == Append(m, u)
           M == Match(pu, states)
<1>1. <<>> \in states /\ IsMatch(m, p, states)
  BY MatchIs DEF Tree
<1>2. m \in Suffixes(p) /\ m \in Seq(U)
  BY <1>1, SuffixFacts DEF IsMatch
<1>3. pu \in Seq(U) /\ mu \in Seq(U)
  BY <1>2
<1>4. IsMatch(M, pu, states)
  BY <1>1, <1>3, MatchIs
<1>5. mu \in Suffixes(pu) /\ Suffixes(mu) \subseteq Suffixes(pu)
  BY <1>2, <1>3, SuffixOfAppended, SuffixFacts
<1>6. M \in Suffixes(mu)
  <2>1. CASE M = <<>>
    BY <1>3, <2>1, SuffixFacts
  <2>2. CASE M # <<>>
    <3>1. PICK r \in Suffixes(p) : M = Append(r, u)
      <4>1. M \in Suffixes(pu)
        BY <1>4 DEF IsMatch
      <4>2. QED BY <2>2, <4>1, SuffixOfAppended
    <3>2. r \in Seq(U)
      BY SuffixFacts
    <3>3. r \in states
      BY <1>4, <3>1, <3>2 DEF IsMatch, Tree
    <3>4. Len(r) <= Len(m)
      BY <1>1, <3>3 DEF IsMatch
    <3>5. r \in Suffixes(m)
      BY <1>2, <3>4, SuffixFacts
    <3>6. QED BY <1>2, <3>1, <3>5, SuffixOfAppended
  <2>3. QED BY <2>1, <2>2
<1>7. IsMatch(M, mu, states)
  BY <1>4, <1>5, <1>6 DEF IsMatch
<1> HIDE DEF m, M, mu, pu
<1>8. M = Match(mu, states)
  BY <1>1, <1>3, <1>7, MatchIs
<1>9. QED BY <1>8 DEF M, mu, m, pu

LEMMA TailOfAppended ==
    ASSUME NEW U, NEW q \in Seq(U), q # <<>>, NEW u \in U
    PROVE  Tail(Append(q, u)) = Append(Tail(q), u)
<1>1. Tail(q) \in Seq(U) /\ Len(Tail(q)) = Len(q) - 1 /\ Len(q) \in Nat
      /\ \A i \in 1 .. Len(Tail(q)) : Tail(q)[i] = q[i + 1]
  BY HeadTailProperties
<1> DEFINE a == Append(q, u)
           b == Append(Tail(q), u)
<1>2. /\ a \in Seq(U) /\ Len(a) = Len(q) + 1 /\ a # <<>>
      /\ \A i \in 1 .. Len(q) : a[i] = q[i]
      /\ a[Len(q) + 1] = u
  OBVIOUS
<1>3. /\ b \in Seq(U) /\ Len(b) = Len(q) /\ b[Len(q)] = u
      /\ \A i \in 1 .. Len(q) - 1 : b[i] = Tail(q)[i]
  BY <1>1
<1> HIDE DEF a, b
<1>4. Tail(a) \in Seq(U) /\ Len(Tail(a)) = Len(q) /\ \A i \in 1 .. Len(q) : Tail(a)[i] = a[i + 1]
  <2>1. Tail(a) \in Seq(U) /\ Len(Tail(a)) = Len(a) - 1
        /\ \A i \in 1 .. Len(Tail(a)) : Tail(a)[i] = a[i + 1]
    BY <1>2, HeadTailProperties
  <2>2. Len(a) - 1 = Len(q)
    BY <1>1, <1>2
  <2>3. QED BY <2>1, <2>2
<1>5. ASSUME NEW i \in 1 .. Len(q) PROVE Tail(a)[i] = b[i]
  <2>1. CASE i = Len(q)
    BY <1>2, <1>3, <1>4, <2>1
  <2>2. CASE i # Len(q)
    <3>1. i \in 1 .. Len(q) - 1 /\ i + 1 \in 1 .. Len(q)
      <4>1. Len(q) \in Nat
        BY <1>1
      <4>2. QED BY ONLY <2>2, <4>1, i \in 1 .. Len(q)
    <3>2. Tail(a)[i] = q[i + 1] /\ b[i] = q[i + 1]
      BY <1>1, <1>2, <1>3, <1>4, <3>1
    <3>3. QED BY <3>2
  <2>3. QED BY <2>1, <2>2
<1>6. Tail(a) = b
  BY <1>3, <1>4, <1>5, SeqEqual
<1>7. QED BY <1>6 DEF a, b

LEMMA FallsToFacts ==
    ASSUME NEW U, NEW states, Tree(states, U), NEW q \in states
    PROVE  /\ q \in Seq(U) /\ Len(q) \in Nat
           /\ FallsTo(q, states) \in states /\ FallsTo(q, states) \in Suffixes(q)
           /\ q # Start => Len(FallsTo(q, states)) < Len(q)
           /\ \A r \in Suffixes(q) \cap states : r # q => r \in Suffixes(FallsTo(q, states))
           /\ FallsTo(Start, states) = Start
<1> DEFINE f == FallsTo(q, states)
<1>1. q \in Seq(U) /\ Len(q) \in Nat /\ <<>> \in states
  <2>1. q \in Seq(U)
    BY DEF Tree
  <2>2. QED BY <2>1 DEF Tree
<1>2. CASE q = Start
  <2>1. f = <<>> /\ Suffixes(<<>>) = {<<>>}
    BY <1>2 DEF FallsTo, Start, Suffixes
  <2>2. QED BY <1>1, <1>2, <2>1 DEF Start, FallsTo
<1>3. CASE q # Start
  <2>1. q # <<>> /\ f = Match(Tail(q), states)
    BY <1>3 DEF FallsTo, Start
  <2>2. Tail(q) \in Seq(U) /\ Len(Tail(q)) = Len(q) - 1 /\ Tail(q) \in Suffixes(q)
        /\ \A r \in Suffixes(q) : r = q \/ r \in Suffixes(Tail(q))
    BY <1>1, <2>1, SuffixOfTail
  <2>3. IsMatch(f, Tail(q), states)
    <3>1. IsMatch(Match(Tail(q), states), Tail(q), states)
      BY <1>1, <2>2, MatchIs
    <3>2. QED BY <2>1, <3>1
  <2>4. f \in states /\ f \in Suffixes(Tail(q)) /\ f \in Suffixes(q)
    BY <1>1, <2>2, <2>3, SuffixFacts DEF IsMatch
  <2>5. Len(f) \in Nat /\ Len(f) <= Len(Tail(q)) /\ Len(f) < Len(q)
    <3>1. Len(f) \in Nat /\ Len(f) <= Len(Tail(q))
      BY <2>2, <2>4, SuffixFacts
    <3>2. QED BY <1>1, <2>2, <3>1
  <2>6. ASSUME NEW r \in Suffixes(q) \cap states, r # q PROVE r \in Suffixes(f)
    <3>1. r \in Suffixes(Tail(q)) /\ Len(r) <= Len(f)
      BY <2>2, <2>3, <2>6 DEF IsMatch
    <3>2. QED BY <2>2, <2>4, <3>1, SuffixFacts
  <2>7. QED BY <1>1, <2>4, <2>5, <2>6 DEF FallsTo
<1>4. QED BY <1>2, <1>3

(***************************************************************************)
(* The failure states.                                                     *)
(***************************************************************************)
IsBacktrack(backtrack, q, fail, states) ==
    backtrack = [f \in {s \in states : Len(s) < Len(q)} |->
                    IF Append(f, Last(q)) \in states THEN Append(f, Last(q))
                    ELSE IF f = Start THEN Start
                    ELSE backtrack[fail[f]]]

FailOf(q, fail, states) ==
    LET backtrack == CHOOSE backtrack : IsBacktrack(backtrack, q, fail, states)
    IN  IF Len(q) <= 1 THEN Start ELSE backtrack[fail[Front(q)]]

LEMMA BacktrackedState ==
    ASSUME NEW U, NEW states, Tree(states, U), NEW q \in states, NEW fail,
           \A f \in states : Len(f) < Len(q) => fail[f] = FallsTo(f, states)
    PROVE  FailOf(q, fail, states) = FallsTo(q, states)
<1> DEFINE u == Last(q)
           shorter == {s \in states : Len(s) < Len(q)}
           found == [f \in shorter |-> Match(Append(f, u), states)]
<1>1. q \in Seq(U) /\ Len(q) \in Nat /\ <<>> \in states
  BY FallsToFacts DEF Tree
<1>2. CASE Len(q) <= 1
  <2>1. CASE q = Start
    BY <1>2, <2>1 DEF FailOf, FallsTo
  <2>2. CASE q # Start
    <3>1. Tail(q) \in Seq(U) /\ Len(Tail(q)) = Len(q) - 1 /\ Len(q) \in Nat
      BY <1>1, <2>2, SuffixOfTail DEF Start
    <3>2. Len(q) # 0
      BY <1>1, <2>2 DEF Start
    <3>3. Len(Tail(q)) = 0
      BY <1>2, <3>1, <3>2
    <3>4. Tail(q) = <<>>
      <4>1. Tail(q) \in Seq(U)
        BY <3>1
      <4>2. QED BY ONLY <3>3, <4>1, EmptySeq
    <3>5. Match(<<>>, states) = <<>>
      BY <1>1, <3>1, <3>4, MatchIs
    <3>6. QED BY <1>2, <2>2, <3>4, <3>5 DEF FailOf, FallsTo, Start
  <2>3. QED BY <2>1, <2>2
<1>3. CASE ~(Len(q) <= 1)
  <2>1. /\ Front(q) \in Seq(U) /\ Len(Front(q)) = Len(q) - 1 /\ u \in U
        /\ q = Append(Front(q), u) /\ q # <<>>
    <3>1. q # <<>>
      BY <1>3
    <3>2. QED BY <1>1, <3>1, FrontFacts
  <2>2. Front(q) \in shorter /\ Front(q) # <<>>
    <3>1. Front(q) \in states
      <4>1. Append(Front(q), u) \in states
        BY <2>1
      <4> HIDE DEF u
      <4>2. QED BY <2>1, <4>1 DEF Tree
    <3>2. Len(Front(q)) < Len(q) /\ Len(Front(q)) # 0
      BY <1>1, <1>3, <2>1
    <3>3. QED BY <3>1, <3>2
  <2> HIDE DEF u
  <2>3. ASSUME NEW f \in shorter, f # Start
        PROVE  /\ fail[f] = FallsTo(f, states) /\ fail[f] \in shorter
               /\ Len(fail[f]) \in Nat /\ Len(fail[f]) < Len(f)
               /\ found[fail[f]] = Match(Append(Tail(f), u), states)
               /\ Tail(Append(f, u)) = Append(Tail(f), u)
    <3>1. f \in states /\ Len(f) < Len(q) /\ fail[f] = FallsTo(f, states) /\ f # <<>>
      BY <2>3 DEF Start
    <3>2. /\ f \in Seq(U) /\ Len(f) \in Nat
          /\ fail[f] \in states /\ Len(fail[f]) < Len(f)
      BY <2>3, <3>1, FallsToFacts
    <3>3. fail[f] \in Seq(U) /\ Len(fail[f]) \in Nat
      BY <3>2 DEF Tree
    <3>4. fail[f] \in shorter
      BY <1>1, <3>1, <3>2, <3>3
    <3>5. fail[f] = Match(Tail(f), states) /\ Tail(f) \in Seq(U)
      BY <3>1, <3>2, SuffixOfTail DEF FallsTo, Start
    <3>6. found[fail[f]] = Match(Append(Match(Tail(f), states), u), states)
      BY <3>4, <3>5
    <3>7. found[fail[f]] = Match(Append(Tail(f), u), states)
      BY <2>1, <3>5, <3>6, MatchOfAppended
    <3>8. Tail(Append(f, u)) = Append(Tail(f), u)
      BY <2>1, <3>1, <3>2, TailOfAppended
    <3>9. QED BY <3>1, <3>2, <3>3, <3>4, <3>7, <3>8
  <2>4. ASSUME NEW f \in shorter
        PROVE  found[f] = IF Append(f, u) \in states THEN Append(f, u)
                          ELSE IF f = Start THEN Start
                          ELSE found[fail[f]]
    <3>1. f \in Seq(U) /\ Append(f, u) \in Seq(U)
      BY <2>1 DEF Tree
    <3>2. found[f] = Match(Append(f, u), states)
      OBVIOUS
    <3>3. CASE Append(f, u) \in states
      BY <1>1, <3>1, <3>2, <3>3, MatchIs
    <3>4. CASE Append(f, u) \notin states
      <4>1. Match(Append(f, u), states) = Match(Tail(Append(f, u)), states)
        <5> DEFINE fu == Append(f, u)
        <5>1. fu \in Seq(U) /\ fu \notin states /\ <<>> \in states
          BY <1>1, <3>1, <3>4
        <5> HIDE DEF fu
        <5>2. Match(fu, states) = Match(Tail(fu), states)
          BY ONLY <5>1, MatchIs
        <5>3. QED BY <5>2 DEF fu
      <4>2. CASE f = Start
        <5>1. Append(f, u) = <<u>> /\ Tail(<<u>>) = <<>>
          BY <2>1, <4>2 DEF Start
        <5>2. Match(<<>>, states) = <<>>
          <6>1. <<>> \in Seq(U)
            OBVIOUS
          <6>2. QED BY <1>1, <6>1, MatchIs
        <5>3. QED BY <3>2, <3>4, <4>1, <4>2, <5>1, <5>2 DEF Start
      <4>3. CASE f # Start
        <5>1. found[fail[f]] = Match(Append(Tail(f), u), states) /\ Tail(Append(f, u)) = Append(Tail(f), u)
          BY <2>3, <4>3
        <5> HIDE DEF found
        <5>2. QED BY <3>2, <3>4, <4>1, <4>3, <5>1
      <4>4. QED BY <4>2, <4>3
    <3>5. QED BY <3>3, <3>4
  <2>5. IsBacktrack(found, q, fail, states)
    <3> DEFINE E(f) == IF Append(f, u) \in states THEN Append(f, u)
                       ELSE IF f = Start THEN Start
                       ELSE found[fail[f]]
    <3>1. \A f \in shorter : found[f] = E(f)
      BY <2>4
    <3>2. found = [f \in shorter |-> found[f]]
      OBVIOUS
    <3> HIDE DEF found
    <3>3. found = [f \in shorter |-> E(f)]
      BY <3>1, <3>2
    <3>4. QED BY <3>3 DEF IsBacktrack, u
  <2> DEFINE b == CHOOSE backtrack : IsBacktrack(backtrack, q, fail, states)
  <2>6. IsBacktrack(b, q, fail, states)
    <3> HIDE DEF found
    <3>1. QED BY <2>5
  <2> HIDE DEF b
  <2>7. ASSUME NEW f \in shorter
        PROVE  b[f] = IF Append(f, u) \in states THEN Append(f, u)
                      ELSE IF f = Start THEN Start
                      ELSE b[fail[f]]
    BY <2>6 DEF IsBacktrack, u
  <2>8. \A f \in shorter : b[f] = found[f]
    <3> DEFINE Same == {n \in Nat : \A f \in shorter : Len(f) = n => b[f] = found[f]}
    <3>1. ASSUME NEW n \in Nat, \A k \in 0 .. n - 1 : k \in Same PROVE n \in Same
      <4>1. SUFFICES ASSUME NEW f \in shorter, Len(f) = n PROVE b[f] = found[f]
        OBVIOUS
      <4>2. ASSUME f # Start PROVE b[fail[f]] = found[fail[f]]
        <5>1. fail[f] \in shorter /\ Len(fail[f]) \in Nat /\ Len(fail[f]) < n
          BY <2>3, <4>1, <4>2
        <5>2. Len(fail[f]) \in 0 .. n - 1
          BY <5>1
        <5>3. Len(fail[f]) \in Same
          BY <3>1, <5>2
        <5> HIDE DEF found, shorter
        <5>4. QED BY <5>1, <5>3
      <4> HIDE DEF found
      <4>3. QED BY <2>4, <2>7, <4>2
    <3>2. \A n \in Nat : n \in Same
      <4> HIDE DEF Same
      <4>1. QED BY <3>1, StrongInduction
    <3>3. TAKE f \in shorter
    <3>4. Len(f) \in Nat
      BY DEF Tree
    <3>5. Len(f) \in Same
      BY <3>2, <3>4
    <3> HIDE DEF found
    <3>6. QED BY <3>5
  <2>9. FailOf(q, fail, states) = b[fail[Front(q)]]
    BY <1>3 DEF FailOf, b
  <2>10. /\ fail[Front(q)] \in shorter
         /\ found[fail[Front(q)]] = Match(Append(Tail(Front(q)), u), states)
         /\ Tail(q) = Append(Tail(Front(q)), u)
    <3> HIDE DEF found
    <3>1. Front(q) # Start
      BY <2>2 DEF Start
    <3>2. Tail(Append(Front(q), u)) = Append(Tail(Front(q)), u)
      BY <2>2, <2>3, <3>1
    <3>3. QED BY <2>1, <2>2, <2>3, <3>1, <3>2
  <2>11. FallsTo(q, states) = Match(Tail(q), states)
    BY <2>1 DEF FallsTo, Start
  <2> HIDE DEF found
  <2>12. QED BY <2>8, <2>9, <2>10, <2>11
<1>4. QED BY <1>2, <1>3

LEMMA FailStatesAre ==
    ASSUME NEW U, NEW states, Tree(states, U)
    PROVE  FailStates(states) = [q \in states |-> FallsTo(q, states)]
<1> DEFINE falls == [q \in states |-> FallsTo(q, states)]
           IsFail(fail) == fail = [q \in states |-> FailOf(q, fail, states)]
<1>1. FailStates(states) = CHOOSE fail : IsFail(fail)
  BY DEF FailStates, FailOf, IsBacktrack
<1>2. IsFail(falls)
  <2>1. ASSUME NEW q \in states PROVE FailOf(q, falls, states) = FallsTo(q, states)
    <3>1. \A f \in states : Len(f) < Len(q) => falls[f] = FallsTo(f, states)
      OBVIOUS
    <3> HIDE DEF falls
    <3>2. QED BY <3>1, BacktrackedState
  <2>2. QED BY <2>1
<1>3. ASSUME NEW fail, IsFail(fail) PROVE fail = falls
  <2>1. \A q \in states : fail[q] = FailOf(q, fail, states)
    BY <1>3
  <2> DEFINE Same == {n \in Nat : \A q \in states : Len(q) = n => fail[q] = FallsTo(q, states)}
  <2>2. ASSUME NEW n \in Nat, \A k \in 0 .. n - 1 : k \in Same PROVE n \in Same
    <3>1. SUFFICES ASSUME NEW q \in states, Len(q) = n PROVE fail[q] = FallsTo(q, states)
      OBVIOUS
    <3>2. ASSUME NEW f \in states, Len(f) < Len(q) PROVE fail[f] = FallsTo(f, states)
      <4>1. Len(f) \in Nat
        BY DEF Tree
      <4>2. Len(f) \in 0 .. n - 1
        BY <3>1, <3>2, <4>1
      <4>3. Len(f) \in Same
        BY <2>2, <4>2
      <4>4. QED BY <4>3
    <3>3. FailOf(q, fail, states) = FallsTo(q, states)
      BY <3>2, BacktrackedState
    <3>4. QED BY <2>1, <3>3
  <2>3. \A n \in Nat : n \in Same
    <3> HIDE DEF Same
    <3>1. QED BY <2>2, StrongInduction
  <2>4. ASSUME NEW q \in states PROVE fail[q] = FallsTo(q, states)
    <3>1. Len(q) \in Nat
      BY DEF Tree
    <3>2. Len(q) \in Same
      BY <2>3, <3>1
    <3>3. QED BY <3>2
  <2>5. \A q \in states : FailOf(q, fail, states) = FallsTo(q, states)
    BY <2>1, <2>4
  <2>6. QED BY <1>3, <2>5
<1> HIDE DEF IsFail, falls
<1>4. QED BY <1>1, <1>2, <1>3 DEF falls

(***************************************************************************)
(* The states of a graph of hot words and what they have collected.        *)
(***************************************************************************)
HotWordLists == SUBSET (Seq(Units) \ {<<>>})

HasChild(q, words) == \E u \in Units : Append(q, u) \in NumStates(words)

LEMMA PrefixFacts ==
    ASSUME NEW U, NEW c \in Seq(U)
    PROVE  /\ \A l \in 0 .. Len(c) : SubSeq(c, 1, l) \in Seq(U) /\ Len(SubSeq(c, 1, l)) = l
           /\ \A l \in 0 .. Len(c) - 1 :
                c[l + 1] \in U /\ SubSeq(c, 1, l + 1) = Append(SubSeq(c, 1, l), c[l + 1])
           /\ SubSeq(c, 1, Len(c)) = c
<1>1. PICK n \in Nat : n = Len(c)
  OBVIOUS
<1>2. \A i \in 1 .. n : c[i] \in U
  BY <1>1
<1>3. ASSUME NEW l \in 0 .. n
      PROVE  /\ SubSeq(c, 1, l) \in Seq(U) /\ Len(SubSeq(c, 1, l)) = l
             /\ \A i \in 1 .. l : SubSeq(c, 1, l)[i] = c[i]
  <2>1. l \in Int /\ 1 \in Int /\ \A i \in 1 .. l : c[i] \in U
    BY <1>2
  <2> DEFINE p == SubSeq(c, 1, l)
  <2>2. /\ p \in Seq(U) /\ Len(p) = (IF 1 <= l THEN l - 1 + 1 ELSE 0)
        /\ \A i \in 1 .. l - 1 + 1 : p[i] = c[1 + i - 1]
    BY <2>1, SubSeqProperties
  <2> HIDE DEF p
  <2>3. l - 1 + 1 = l /\ (~(1 <= l) => l = 0) /\ \A i \in 1 .. l : 1 + i - 1 = i
    OBVIOUS
  <2>4. p \in Seq(U) /\ Len(p) = l /\ \A i \in 1 .. l : p[i] = c[i]
    BY <2>2, <2>3
  <2>5. QED BY <2>4 DEF p
<1>4. ASSUME NEW l \in 0 .. n - 1
      PROVE  c[l + 1] \in U /\ SubSeq(c, 1, l + 1) = Append(SubSeq(c, 1, l), c[l + 1])
  <2>1. l \in 0 .. n /\ l + 1 \in 0 .. n /\ l + 1 \in 1 .. n
    OBVIOUS
  <2> DEFINE p == SubSeq(c, 1, l)
             q == SubSeq(c, 1, l + 1)
             a == Append(p, c[l + 1])
  <2>2. c[l + 1] \in U
    BY <1>2, <2>1
  <2>3. p \in Seq(U) /\ Len(p) = l /\ \A i \in 1 .. l : p[i] = c[i]
    BY <1>3, <2>1
  <2>4. q \in Seq(U) /\ Len(q) = l + 1 /\ \A i \in 1 .. l + 1 : q[i] = c[i]
    BY <1>3, <2>1
  <2> HIDE DEF p, q
  <2>5. a \in Seq(U) /\ Len(a) = l + 1 /\ a[l + 1] = c[l + 1] /\ \A i \in 1 .. l : a[i] = p[i]
    BY <2>2, <2>3
  <2> HIDE DEF a
  <2>6. ASSUME NEW i \in 1 .. l + 1 PROVE q[i] = a[i]
    <3>1. i # l + 1 => i \in 1 .. l
      BY <2>1
    <3>2. QED BY <2>3, <2>4, <2>5, <3>1
  <2>7. q = a
    BY <2>4, <2>5, <2>6, SeqEqual
  <2>8. QED BY <2>2, <2>7 DEF a, p, q
<1>5. SubSeq(c, 1, Len(c)) = c
  BY SubSeqFull
<1>6. QED BY <1>1, <1>3, <1>4, <1>5

LEMMA StatesAreATree ==
    ASSUME NEW words \in HotWordLists
    PROVE  /\ Tree(NumStates(words), Units)
           /\ words \subseteq NumStates(words)
           /\ \A q \in NumStates(words) : q \notin words /\ q # Start => HasChild(q, words)
<1> DEFINE states == NumStates(words)
<1>1. \A s : s \in states <=> s = Start \/ \E c \in words : \E l \in 0 .. Len(c) : s = SubSeq(c, 1, l)
  BY DEF NumStates, Prefixes
<1>2. ASSUME NEW c \in words, NEW l \in 0 .. Len(c) PROVE SubSeq(c, 1, l) \in states
  BY <1>1
<1>3. \A c \in words : c \in Seq(Units) /\ Len(c) \in Nat
  BY DEF HotWordLists
<1>4. states \subseteq Seq(Units) /\ <<>> \in states
  <2>1. \A s \in states : s \in Seq(Units)
    <3>1. TAKE s \in states
    <3>2. CASE s = Start
      BY <3>2 DEF Start
    <3>3. ASSUME NEW c \in words, NEW l \in 0 .. Len(c), s = SubSeq(c, 1, l) PROVE s \in Seq(Units)
      BY <1>3, <3>3, PrefixFacts
    <3>4. QED BY <1>1, <3>2, <3>3
  <2>2. QED BY <1>1, <2>1 DEF Start
<1>5. ASSUME NEW s \in Seq(Units), NEW u \in Units, Append(s, u) \in states PROVE s \in states
  <2>1. Append(s, u) # Start /\ Len(Append(s, u)) = Len(s) + 1 /\ Len(s) \in Nat
    BY DEF Start
  <2>2. PICK c \in words : \E l \in 0 .. Len(c) : Append(s, u) = SubSeq(c, 1, l)
    BY <1>1, <1>5, <2>1
  <2>3. PICK l \in 0 .. Len(c) : Append(s, u) = SubSeq(c, 1, l)
    BY <2>2
  <2>4. c \in Seq(Units) /\ Len(c) \in Nat
    BY <1>3
  <2>5. l = Len(s) + 1
    BY <2>1, <2>3, <2>4, PrefixFacts
  <2>6. Len(s) \in 0 .. Len(c) - 1 /\ Len(s) \in 0 .. Len(c)
    BY <2>1, <2>4, <2>5
  <2>7. Append(s, u) = Append(SubSeq(c, 1, Len(s)), c[Len(s) + 1])
    BY <2>3, <2>4, <2>5, <2>6, PrefixFacts
  <2>8. SubSeq(c, 1, Len(s)) \in Seq(Units) /\ c[Len(s) + 1] \in Units
    BY <2>4, <2>6, PrefixFacts
  <2>9. s = SubSeq(c, 1, Len(s))
    BY <2>7, <2>8, AppendInjective
  <2>10. QED BY <1>2, <2>6, <2>9
<1>6. words \subseteq states
  <2>1. ASSUME NEW c \in words PROVE c \in states
    <3>1. c = SubSeq(c, 1, Len(c)) /\ Len(c) \in 0 .. Len(c)
      BY <1>3, PrefixFacts
    <3>2. QED BY <1>1, <3>1
  <2>2. QED BY <2>1
<1>7. ASSUME NEW q \in states, q \notin words, q # Start PROVE HasChild(q, words)
  <2>1. PICK c \in words : \E l \in 0 .. Len(c) : q = SubSeq(c, 1, l)
    BY <1>1, <1>7
  <2>2. PICK l \in 0 .. Len(c) : q = SubSeq(c, 1, l)
    BY <2>1
  <2>3. c \in Seq(Units) /\ Len(c) \in Nat /\ SubSeq(c, 1, Len(c)) = c
    BY <1>3, PrefixFacts
  <2>4. l # Len(c)
    BY <1>7, <2>2, <2>3
  <2>5. l \in 0 .. Len(c) - 1 /\ l + 1 \in 0 .. Len(c)
    <3>1. Len(c) \in Nat
      BY <2>3
    <3>2. QED BY ONLY <2>4, <3>1, l \in 0 .. Len(c)
  <2>6. c[l + 1] \in Units /\ SubSeq(c, 1, l + 1) = Append(q, c[l + 1])
    BY <2>2, <2>3, <2>5, PrefixFacts
  <2>7. SubSeq(c, 1, l + 1) \in states
    BY <1>2, <2>5
  <2>8. QED BY <2>6, <2>7 DEF HasChild
<1>8. QED BY <1>4, <1>5, <1>6, <1>7 DEF Tree

LEMMA TotalFacts ==
    /\ TotalOf[0] = 0
    /\ \A n \in Nat : TotalOf[n] \in Nat
    /\ \A n \in Nat : ArcWeight(n + 1) \in Nat /\ TotalOf[n + 1] = TotalOf[n] + ArcWeight(n + 1)
    /\ \A n \in Nat : \A m \in 0 .. n : TotalOf[m] <= TotalOf[n]
<1>1. ASSUME NEW n \in Nat, n # 0 PROVE ArcWeight(n) \in Nat
  <2>1. PICK k \in Nat : k = n - 1
    BY <1>1
  <2>2. PICK i \in Nat : i = incremental_context_score
    BY ScoresAssumption
  <2>3. PICK c \in Nat : c = context_score
    BY ScoresAssumption
  <2>4. k * i \in Nat
    OBVIOUS
  <2>5. ArcWeight(n) = k * i + c
    BY <2>1, <2>2, <2>3 DEF ArcWeight
  <2>6. PICK x \in Nat : x = k * i
    BY <2>4
  <2>7. QED BY ONLY <2>3, <2>5, <2>6
<1> DEFINE IsTotal(f) == f = [n \in Nat |-> IF n = 0 THEN 0 ELSE f[n - 1] + ArcWeight(n)]
<1>2. \E f : IsTotal(f)
  <2> DEFINE rank == [n \in Nat |-> n]
             base == [n \in Nat |-> 0]
             prev == [n \in Nat |-> IF n = 0 THEN 0 ELSE n - 1]
             step == [n \in Nat |-> [v \in Int |-> IF n = 0 THEN 0 ELSE v + ArcWeight(n)]]
             stop == {0}
  <2>1. rank \in [Nat -> Nat] /\ base \in [Nat -> Int]
    OBVIOUS
  <2>2. prev \in [Nat -> Nat]
    OBVIOUS
  <2>3. step \in [Nat -> [Int -> Int]]
    <3>1. ASSUME NEW n \in Nat, NEW v \in Int PROVE (IF n = 0 THEN 0 ELSE v + ArcWeight(n)) \in Int
      <4>1. n # 0 => ArcWeight(n) \in Nat
        BY <1>1
      <4>2. QED BY <4>1
    <3>2. QED BY <3>1
  <2>4. GetsSmaller(Nat, rank, stop, prev)
    BY DEF GetsSmaller
  <2>5. \A n \in Nat : /\ base[n] = 0 /\ (n # 0 => prev[n] = n - 1)
                       /\ \A v \in Int : n # 0 => step[n][v] = v + ArcWeight(n)
    OBVIOUS
  <2> HIDE DEF rank, base, prev, step, stop
  <2>6. PICK f : IsRecursive(f, Nat, Int, stop, base, prev, step)
    BY <2>1, <2>2, <2>3, <2>4, Recursion
  <2>7. ASSUME NEW n \in Nat PROVE f[n] = IF n = 0 THEN 0 ELSE f[n - 1] + ArcWeight(n)
    <3>1. CASE n = 0
      BY <2>5, <2>6, <3>1 DEF IsRecursive, stop
    <3>2. CASE n # 0
      <4>1. n - 1 \in Nat /\ f[n - 1] \in Int
        BY <2>6, <3>2 DEF IsRecursive
      <4>2. f[n] = step[n][f[n - 1]]
        BY <2>5, <2>6, <3>2 DEF IsRecursive, stop
      <4>3. QED BY <2>5, <3>2, <4>1, <4>2
    <3>3. QED BY <3>1, <3>2
  <2>8. f = [n \in Nat |-> f[n]]
    BY <2>6 DEF IsRecursive
  <2>9. IsTotal(f)
    BY <2>7, <2>8
  <2> HIDE DEF IsTotal
  <2>10. QED BY <2>9
<1>3. IsTotal(TotalOf)
  <2>1. TotalOf = CHOOSE f : IsTotal(f)
    BY DEF TotalOf
  <2> HIDE DEF IsTotal
  <2>2. QED BY <1>2, <2>1
<1>4. TotalOf[0] = 0
  BY <1>3
<1>5. ASSUME NEW n \in Nat PROVE ArcWeight(n + 1) \in Nat /\ TotalOf[n + 1] = TotalOf[n] + ArcWeight(n + 1)
  <2>1. n + 1 \in Nat /\ n + 1 # 0 /\ (n + 1) - 1 = n
    OBVIOUS
  <2>2. TotalOf[n + 1] = TotalOf[(n + 1) - 1] + ArcWeight(n + 1)
    BY <1>3, <2>1
  <2>3. QED BY <1>1, <2>1, <2>2
<1> DEFINE Good == {n \in Nat : TotalOf[n] \in Nat /\ \A m \in 0 .. n : TotalOf[m] <= TotalOf[n]}
<1>6. ASSUME NEW n \in Nat, \A k \in 0 .. n - 1 : k \in Good PROVE n \in Good
  <2>1. CASE n = 0
    <3>1. \A m \in 0 .. 0 : m = 0
      OBVIOUS
    <3>2. QED BY <1>4, <2>1, <3>1
  <2>2. CASE n # 0
    <3>1. n - 1 \in Nat /\ n - 1 \in 0 .. n - 1 /\ (n - 1) + 1 = n
      BY <2>2
    <3>2. TotalOf[n - 1] \in Nat /\ \A m \in 0 .. n - 1 : TotalOf[m] <= TotalOf[n - 1]
      BY <1>6, <3>1
    <3>3. PICK a \in Nat : a = ArcWeight(n)
      BY <1>1, <2>2
    <3>4. TotalOf[n] = TotalOf[n - 1] + a
      BY <1>5, <3>1, <3>3
    <3>5. TotalOf[n] \in Nat /\ TotalOf[n - 1] <= TotalOf[n]
      BY <3>2, <3>3, <3>4
    <3>6. ASSUME NEW m \in 0 .. n PROVE TotalOf[m] <= TotalOf[n]
      <4>1. CASE m = n
        BY <3>5, <4>1
      <4>2. CASE m # n
        <5>1. m \in 0 .. n - 1 /\ m \in Nat
          BY <4>2
        <5>2. TotalOf[m] \in Nat /\ TotalOf[m] <= TotalOf[n - 1]
          BY <1>6, <3>2, <5>1
        <5>3. QED BY <3>2, <3>5, <5>2
      <4>3. QED BY <4>1, <4>2
    <3>7. QED BY <3>5, <3>6
  <2>3. QED BY <2>1, <2>2
<1>7. \A n \in Nat : n \in Good
  <2> HIDE DEF Good
  <2>1. QED BY <1>6, StrongInduction
<1>8. QED BY <1>4, <1>5, <1>7

(***************************************************************************)
(* The fallback arcs.                                                      *)
(***************************************************************************)
Falls(q, words) == FallsTo(q, NumStates(words))

\* A hot word without an arc cannot be fallen back to.
Blocked(q, words) == q \in words /\ ~HasChild(q, words)

Loses(q, words) ==
    IF q \in words THEN 0 ELSE TotalWeight(Falls(q, words)) - TotalWeight(q)

LEMMA FallbackIs ==
    ASSUME NEW words \in HotWordLists
    PROVE  LET fallback == ConvertToAC(words)
           IN  /\ DOMAIN fallback \subseteq NumStates(words) \ {Start}
               /\ \A q \in NumStates(words) :
                    q \in DOMAIN fallback <=>
                        /\ q # Start
                        /\ Blocked(Falls(q, words), words) => Falls(q, words) \in DOMAIN fallback
                        /\ q \in words => Falls(q, words) # Start
               /\ \A q \in DOMAIN fallback :
                    fallback[q].to = Falls(q, words) /\ fallback[q].weight = Loses(q, words)
<1> DEFINE states == NumStates(words)
           fail == [q \in states |-> Falls(q, words)]
           Arc(q, below) == /\ q # Start
                            /\ ~(fail[q] \in words /\ ~HasChild(fail[q], words) /\ ~below)
                            /\ ~(q \in words /\ fail[q] = Start)
           IsHas(has) == has = [q \in states |-> Arc(q, has[fail[q]])]
           has == CHOOSE has : IsHas(has)
           fallback == ConvertToAC(words)
<1>1. Tree(states, Units)
  BY StatesAreATree
<1>2. FailStates(states) = fail
  BY <1>1, FailStatesAre DEF Falls
<1>3. /\ fail \in [states -> states] /\ Start \in states
      /\ \A q \in states : /\ Len(q) \in Nat /\ fail[q] = Falls(q, words)
                           /\ q # Start => Len(fail[q]) < Len(q)
  <2>1. \A q \in states : /\ Falls(q, words) \in states /\ Len(q) \in Nat
                          /\ q # Start => Len(Falls(q, words)) < Len(q)
    BY <1>1, FallsToFacts DEF Falls
  <2>2. Start \in states
    BY <1>1 DEF Tree, Start
  <2>3. QED BY <2>1, <2>2
<1>4. fallback = [q \in {r \in states : has[r]} |->
                    [to |-> fail[q],
                     weight |-> IF q \in words THEN 0 ELSE TotalWeight(fail[q]) - TotalWeight(q)]]
  BY <1>2 DEF ConvertToAC, HasChild
<1>5. \E h : IsHas(h)
  <2> DEFINE rank == [q \in states |-> Len(q)]
             base == [q \in states |-> FALSE]
             step == [q \in states |-> [below \in BOOLEAN |-> Arc(q, below)]]
             stop == {Start}
  <2>1. rank \in [states -> Nat] /\ base \in [states -> BOOLEAN]
    BY <1>3
  <2>2. step \in [states -> [BOOLEAN -> BOOLEAN]]
    OBVIOUS
  <2>3. GetsSmaller(states, rank, stop, fail)
    BY <1>3 DEF GetsSmaller
  <2> HIDE DEF rank, base, step, stop, fail, states
  <2>4. PICK h : IsRecursive(h, states, BOOLEAN, stop, base, fail, step)
    BY <1>3, <2>1, <2>2, <2>3, Recursion
  <2>5. ASSUME NEW q \in states PROVE h[q] = Arc(q, h[fail[q]])
    <3>1. fail[q] \in states /\ h[fail[q]] \in BOOLEAN /\ h[q] \in BOOLEAN
      BY <1>3, <2>4 DEF IsRecursive
    <3>2. CASE q = Start
      <4>1. h[q] = FALSE
        BY <2>4, <3>2 DEF IsRecursive, base, stop
      <4>2. QED BY <3>2, <4>1
    <3>3. CASE q # Start
      <4>1. h[q] = step[q][h[fail[q]]]
        BY <2>4, <3>3 DEF IsRecursive, stop
      <4>2. step[q][h[fail[q]]] = Arc(q, h[fail[q]])
        BY <3>1 DEF step
      <4> HIDE DEF Arc
      <4>3. QED BY <4>1, <4>2
    <3>4. QED BY <3>2, <3>3
  <2>6. h = [q \in states |-> h[q]]
    BY <2>4 DEF IsRecursive
  <2> HIDE DEF Arc
  <2>7. [q \in states |-> h[q]] = [q \in states |-> Arc(q, h[fail[q]])]
    BY <2>5
  <2>8. IsHas(h)
    BY <2>6, <2>7
  <2> HIDE DEF IsHas
  <2>9. QED BY <2>8
<1>6. IsHas(has)
  <2> HIDE DEF IsHas
  <2>1. QED BY <1>5
<1> HIDE DEF has
<1>7. \A q \in states : has[q] <=> Arc(q, has[fail[q]])
  <2> HIDE DEF Arc
  <2>1. QED BY <1>6
<1>8. DOMAIN fallback = {r \in states : has[r]}
  BY <1>4
<1>9. \A q \in DOMAIN fallback :
            fallback[q].to = Falls(q, words) /\ fallback[q].weight = Loses(q, words)
  <2>1. TAKE q \in DOMAIN fallback
  <2>2. q \in states /\ fail[q] = Falls(q, words)
    BY <1>3, <1>8
  <2>3. fallback[q] = [to |-> fail[q],
                       weight |-> IF q \in words THEN 0 ELSE TotalWeight(fail[q]) - TotalWeight(q)]
    BY <1>4, <1>8
  <2> HIDE DEF fallback, fail
  <2>4. QED BY <2>2, <2>3 DEF Loses
<1>10. ASSUME NEW q \in states
       PROVE  q \in DOMAIN fallback <=>
                        /\ q # Start
                        /\ Blocked(Falls(q, words), words) => Falls(q, words) \in DOMAIN fallback
                        /\ q \in words => Falls(q, words) # Start
  <2>1. fail[q] = Falls(q, words) /\ fail[q] \in states
    BY <1>3
  <2>2. q \in DOMAIN fallback <=> has[q]
    BY <1>8
  <2>3. fail[q] \in DOMAIN fallback <=> has[fail[q]]
    BY <1>8, <2>1
  <2>4. has[q] <=> Arc(q, has[fail[q]])
    BY <1>7
  <2> HIDE DEF fallback, fail
  <2>5. QED BY <2>1, <2>2, <2>3, <2>4 DEF Blocked
<1>11. DOMAIN fallback \subseteq states \ {Start}
  <2>1. \A q \in DOMAIN fallback : q \in states /\ q # Start
    BY <1>8, <1>10
  <2>2. QED BY <2>1
<1> HIDE DEF fallback
<1>12. QED BY <1>9, <1>10, <1>11 DEF fallback

(***************************************************************************)
(* The next state.                                                         *)
(***************************************************************************)
GraphOf(words) ==
    [states |-> NumStates(words), finals |-> words, fallback |-> ConvertToAC(words)]

Steps(words) == [state : NumStates(words), score : Int]

LEMMA EnterFacts ==
    ASSUME NEW words \in HotWordLists, NEW q \in NumStates(words)
    PROVE  /\ Enter(GraphOf(words), q) \in NumStates(words)
           /\ Enter(GraphOf(words), q) = q \/ Enter(GraphOf(words), q) = Start
           /\ q \in DOMAIN ConvertToAC(words) \/ HasChild(q, words) => Enter(GraphOf(words), q) = q
           /\ ~(q \in DOMAIN ConvertToAC(words) \/ HasChild(q, words)) =>
                Enter(GraphOf(words), q) = Start
<1>1. GraphOf(words).states = NumStates(words) /\ GraphOf(words).fallback = ConvertToAC(words)
  BY DEF GraphOf
<1>2. Start \in NumStates(words)
  BY StatesAreATree DEF Tree, Start
<1>3. Enter(GraphOf(words), q) =
        IF q \in DOMAIN ConvertToAC(words) \/ HasChild(q, words) THEN q ELSE Start
  BY <1>1 DEF Enter, HasChild
<1>4. QED BY <1>2, <1>3

LEMMA NextStateIs ==
    ASSUME NEW words \in HotWordLists, NEW u \in Units, NEW q \in NumStates(words)
    PROVE  LET graph == GraphOf(words)
               step == GetNextState(graph, q, u)
               below == GetNextState(graph, Falls(q, words), u)
           IN  /\ step \in Steps(words)
               /\ Append(q, u) \in NumStates(words) =>
                    step = [state |-> Enter(graph, Append(q, u)), score |-> ArcWeight(Len(q) + 1)]
               /\ Append(q, u) \notin NumStates(words) /\ q \in DOMAIN ConvertToAC(words) =>
                    /\ Falls(q, words) \in NumStates(words)
                    /\ below \in Steps(words)
                    /\ step = [state |-> below.state, score |-> below.score + Loses(q, words)]
               /\ Append(q, u) \notin NumStates(words) /\ q \notin DOMAIN ConvertToAC(words) =>
                    step = [state |-> Start, score |-> 0]
<1> DEFINE states == NumStates(words)
           graph == GraphOf(words)
           fallback == ConvertToAC(words)
           Onward(p) == [state |-> Enter(graph, Append(p, u)), score |-> ArcWeight(Len(p) + 1)]
           Stop(p) == [state |-> Start, score |-> 0]
           Back(p, r) == [r EXCEPT !.score = @ + fallback[p].weight]
           IsNext(next) ==
                next = [p \in states |->
                            IF Append(p, u) \in states THEN Onward(p)
                            ELSE IF p \in DOMAIN fallback THEN Back(p, next[fallback[p].to])
                            ELSE Stop(p)]
           next == CHOOSE next : IsNext(next)
<1>1. GraphOf(words).states = states /\ GraphOf(words).fallback = fallback
  BY DEF GraphOf
<1>2. ASSUME NEW p \in states PROVE GetNextState(graph, p, u) = next[p]
  BY <1>1 DEF GetNextState
<1>3. /\ \A p \in states : p \in Seq(Units) /\ Len(p) \in Nat /\ Falls(p, words) \in states
      /\ \A p \in states : p # Start => Len(Falls(p, words)) < Len(p)
      /\ Start \in states
  <2>1. Tree(states, Units)
    BY StatesAreATree
  <2>2. Start \in states
    BY <2>1 DEF Tree, Start
  <2>3. QED BY <2>1, <2>2, FallsToFacts DEF Falls
<1>4. /\ DOMAIN fallback \subseteq states \ {Start}
      /\ \A p \in DOMAIN fallback : /\ fallback[p].to = Falls(p, words)
                                    /\ fallback[p].weight = Loses(p, words)
                                    /\ Loses(p, words) \in Int
  <2>1. \A p \in DOMAIN fallback : p \in states /\ Falls(p, words) \in states
    BY <1>3, FallbackIs
  <2>2. \A p \in DOMAIN fallback : Loses(p, words) \in Int
    <3>1. TAKE p \in DOMAIN fallback
    <3>2. Len(p) \in Nat /\ Len(Falls(p, words)) \in Nat
      BY <1>3, <2>1
    <3>3. TotalOf[Len(p)] \in Int /\ TotalOf[Len(Falls(p, words))] \in Int
      <4>1. \A n \in Nat : TotalOf[n] \in Nat
        BY TotalFacts
      <4>2. QED BY ONLY <3>2, <4>1
    <3>4. QED BY <3>3 DEF Loses, TotalWeight
  <2>3. QED BY <2>2, FallbackIs
<1>5. \A p \in states : (Append(p, u) \in states => Onward(p) \in Steps(words)) /\ Stop(p) \in Steps(words)
  <2>1. TAKE p \in states
  <2>2. ArcWeight(Len(p) + 1) \in Int
    BY <1>3, TotalFacts
  <2>3. Append(p, u) \in states => Enter(graph, Append(p, u)) \in states
    BY EnterFacts
  <2> HIDE DEF graph
  <2>4. QED BY <1>3, <2>2, <2>3 DEF Steps
<1>6. \A p \in DOMAIN fallback : \A r \in Steps(words) :
            /\ Back(p, r) \in Steps(words)
            /\ Back(p, r) = [state |-> r.state, score |-> r.score + Loses(p, words)]
  BY <1>4 DEF Steps
<1> HIDE DEF graph, Onward, Stop, Back, fallback
<1>7. \E f \in [states -> Steps(words)] : IsNext(f)
  <2> DEFINE rank == [p \in states |-> Len(p)]
             stop == {p \in states : Append(p, u) \in states \/ p \notin DOMAIN fallback}
             base == [p \in states |-> IF Append(p, u) \in states THEN Onward(p) ELSE Stop(p)]
             prev == [p \in states |-> Falls(p, words)]
             step == [p \in states |-> [r \in Steps(words) |->
                            IF p \in DOMAIN fallback THEN Back(p, r) ELSE r]]
  <2>1. rank \in [states -> Nat] /\ base \in [states -> Steps(words)]
    BY <1>3, <1>5
  <2>2. prev \in [states -> states]
    BY <1>3
  <2>3. step \in [states -> [Steps(words) -> Steps(words)]]
    BY <1>6
  <2>4. GetsSmaller(states, rank, stop, prev)
    BY <1>3, <1>4 DEF GetsSmaller
  <2> HIDE DEF rank, base, prev, step, stop
  <2>5. PICK f : IsRecursive(f, states, Steps(words), stop, base, prev, step)
    BY <2>1, <2>2, <2>3, <2>4, Recursion
  <2>6. ASSUME NEW p \in states
        PROVE  f[p] = IF Append(p, u) \in states THEN Onward(p)
                      ELSE IF p \in DOMAIN fallback THEN Back(p, f[fallback[p].to])
                      ELSE Stop(p)
    <3>1. CASE p \in stop
      <4>1. f[p] = base[p]
        BY <2>5, <3>1 DEF IsRecursive
      <4>2. QED BY <3>1, <4>1 DEF base, stop
    <3>2. CASE p \notin stop
      <4>1. Append(p, u) \notin states /\ p \in DOMAIN fallback
        BY <3>2 DEF stop
      <4>2. prev[p] = fallback[p].to /\ prev[p] \in states
        BY <1>3, <1>4, <4>1 DEF prev
      <4>3. f[prev[p]] \in Steps(words) /\ f[p] = step[p][f[prev[p]]]
        BY <2>5, <3>2, <4>2 DEF IsRecursive
      <4>4. f[p] = Back(p, f[prev[p]])
        BY <4>1, <4>3 DEF step
      <4>5. QED BY <4>1, <4>2, <4>4
    <3>3. QED BY <3>1, <3>2
  <2>7. f \in [states -> Steps(words)] /\ f = [p \in states |-> f[p]]
    BY <2>5 DEF IsRecursive
  <2>8. IsNext(f)
    BY <2>6, <2>7
  <2> HIDE DEF IsNext
  <2>9. QED BY <2>7, <2>8
<1>8. IsNext(next)
  <2> HIDE DEF IsNext
  <2>1. QED BY <1>7
<1> HIDE DEF next
<1>9. \A p \in states : next[p] \in Steps(words)
  <2> DEFINE Typed == {n \in Nat : \A p \in states : Len(p) = n => next[p] \in Steps(words)}
  <2>1. ASSUME NEW n \in Nat, \A k \in 0 .. n - 1 : k \in Typed PROVE n \in Typed
    <3>1. SUFFICES ASSUME NEW p \in states, Len(p) = n PROVE next[p] \in Steps(words)
      OBVIOUS
    <3>2. CASE Append(p, u) \in states \/ p \notin DOMAIN fallback
      <4>1. next[p] = IF Append(p, u) \in states THEN Onward(p) ELSE Stop(p)
        BY <1>8, <3>2
      <4>2. QED BY <1>5, <4>1
    <3>3. CASE ~(Append(p, u) \in states \/ p \notin DOMAIN fallback)
      <4>1. next[p] = Back(p, next[Falls(p, words)])
        BY <1>4, <1>8, <3>3
      <4>2. Falls(p, words) \in states /\ Len(Falls(p, words)) \in Nat /\ Len(Falls(p, words)) < n
        BY <1>3, <1>4, <3>1, <3>3
      <4>3. Len(Falls(p, words)) \in Typed
        <5>1. Len(Falls(p, words)) \in 0 .. n - 1
          BY <4>2
        <5>2. QED BY <2>1, <5>1
      <4>4. next[Falls(p, words)] \in Steps(words)
        BY <4>2, <4>3
      <4>5. QED BY <1>6, <3>3, <4>1, <4>4
    <3>4. QED BY <3>2, <3>3
  <2>2. \A n \in Nat : n \in Typed
    <3> HIDE DEF Typed
    <3>1. QED BY <2>1, StrongInduction
  <2>3. TAKE p \in states
  <2>4. Len(p) \in Typed
    BY <1>3, <2>2
  <2>5. QED BY <2>4
<1>10. ASSUME Append(q, u) \in states PROVE GetNextState(graph, q, u) = Onward(q)
  BY <1>2, <1>8, <1>10
<1>11. ASSUME Append(q, u) \notin states, q \notin DOMAIN fallback
       PROVE  GetNextState(graph, q, u) = Stop(q)
  BY <1>2, <1>8, <1>11
<1>12. ASSUME Append(q, u) \notin states, q \in DOMAIN fallback
       PROVE  LET below == GetNextState(graph, Falls(q, words), u)
              IN  /\ Falls(q, words) \in states /\ below \in Steps(words)
                  /\ GetNextState(graph, q, u) =
                        [state |-> below.state, score |-> below.score + Loses(q, words)]
  <2>1. GetNextState(graph, q, u) = Back(q, next[Falls(q, words)])
    BY <1>2, <1>4, <1>8, <1>12
  <2>2. Falls(q, words) \in states
    BY <1>3
  <2>3. GetNextState(graph, Falls(q, words), u) = next[Falls(q, words)]
    BY <1>2, <2>2
  <2>4. next[Falls(q, words)] \in Steps(words)
    BY <1>9, <2>2
  <2>5. QED BY <1>6, <1>12, <2>1, <2>2, <2>3, <2>4
<1>13. GetNextState(graph, q, u) \in Steps(words)
  BY <1>2, <1>9
<1>14. QED BY <1>10, <1>11, <1>12, <1>13 DEF graph, fallback, Onward, Stop

(***************************************************************************)
(* What a match collects.                                                  *)
(***************************************************************************)
Clean(q, words) == \A r \in Suffixes(q) : r \in words => r = q

Ready(q, words) == Clean(q, words) /\ (q \in words => Falls(q, words) # Start)

MatchOf(p, words) == Match(p, NumStates(words))

LEMMA TotalWeightFacts ==
    ASSUME NEW q \in Seq(Units), NEW r \in Seq(Units), Len(r) <= Len(q)
    PROVE  /\ TotalWeight(q) \in Nat /\ TotalWeight(r) \in Nat
           /\ TotalWeight(r) <= TotalWeight(q)
<1>1. Len(q) \in Nat /\ Len(r) \in 0 .. Len(q) /\ Len(r) \in Nat
  <2>1. Len(q) \in Nat /\ Len(r) \in Nat
    OBVIOUS
  <2>2. QED BY <2>1
<1>2. QED BY <1>1, TotalFacts DEF TotalWeight

LEMMA MatchOfFacts ==
    ASSUME NEW words \in HotWordLists, NEW p \in Seq(Units)
    PROVE  /\ MatchOf(p, words) \in NumStates(words)
           /\ MatchOf(p, words) \in Suffixes(p)
           /\ MatchOf(p, words) \in Seq(Units)
           /\ \A r \in Suffixes(p) \cap NumStates(words) : Len(r) <= Len(MatchOf(p, words))
           /\ p \in NumStates(words) => MatchOf(p, words) = p
           /\ p \notin NumStates(words) =>
                p # <<>> /\ MatchOf(p, words) = MatchOf(Tail(p), words)
           /\ \A u \in Units :
                MatchOf(Append(MatchOf(p, words), u), words) = MatchOf(Append(p, u), words)
<1>1. Tree(NumStates(words), Units)
  BY StatesAreATree
<1>2. <<>> \in NumStates(words) /\ NumStates(words) \subseteq Seq(Units)
  BY <1>1 DEF Tree
<1>3. IsMatch(MatchOf(p, words), p, NumStates(words))
  BY <1>2, MatchIs DEF MatchOf
<1>4. /\ p \in NumStates(words) => MatchOf(p, words) = p
      /\ p \notin NumStates(words) => p # <<>> /\ MatchOf(p, words) = MatchOf(Tail(p), words)
  BY <1>2, MatchIs DEF MatchOf
<1>5. \A u \in Units : MatchOf(Append(MatchOf(p, words), u), words) = MatchOf(Append(p, u), words)
  BY <1>1, MatchOfAppended DEF MatchOf
<1>6. QED BY <1>2, <1>3, <1>4, <1>5 DEF IsMatch

LEMMA FallsFacts ==
    ASSUME NEW words \in HotWordLists, NEW q \in NumStates(words)
    PROVE  /\ q \in Seq(Units) /\ Len(q) \in Nat
           /\ Falls(q, words) \in NumStates(words) /\ Falls(q, words) \in Seq(Units)
           /\ Falls(q, words) \in Suffixes(q)
           /\ q # Start => Len(Falls(q, words)) < Len(q)
           /\ Start \in NumStates(words) /\ Start \notin words
<1>1. Tree(NumStates(words), Units)
  BY StatesAreATree
<1>2. Start \in NumStates(words) /\ Start \notin words
  BY <1>1 DEF Tree, Start, HotWordLists
<1>3. /\ q \in Seq(Units) /\ Len(q) \in Nat
      /\ Falls(q, words) \in NumStates(words) /\ Falls(q, words) \in Suffixes(q)
      /\ q # Start => Len(Falls(q, words)) < Len(q)
  BY <1>1, FallsToFacts DEF Falls
<1>4. Falls(q, words) \in Seq(Units)
  BY <1>1, <1>3 DEF Tree
<1>5. QED BY <1>2, <1>3, <1>4

LEMMA MatchFromBelow ==
    ASSUME NEW words \in HotWordLists, NEW q \in NumStates(words), q # Start, NEW u \in Units,
           Append(q, u) \notin NumStates(words)
    PROVE  MatchOf(Append(Falls(q, words), u), words) = MatchOf(Append(q, u), words)
<1>1. q \in Seq(Units) /\ q # <<>> /\ Append(q, u) \in Seq(Units)
  BY FallsFacts DEF Start
<1>2. Tail(q) \in Seq(Units) /\ Falls(q, words) = MatchOf(Tail(q), words)
  BY <1>1, SuffixOfTail DEF Falls, FallsTo, MatchOf, Start
<1>3. MatchOf(Append(Falls(q, words), u), words) = MatchOf(Append(Tail(q), u), words)
  <2>1. \A v \in Units : MatchOf(Append(MatchOf(Tail(q), words), v), words)
                           = MatchOf(Append(Tail(q), v), words)
    BY <1>2, MatchOfFacts
  <2>2. QED BY <1>2, <2>1
<1>4. MatchOf(Append(q, u), words) = MatchOf(Tail(Append(q, u)), words)
  BY <1>1, MatchOfFacts
<1>5. Tail(Append(q, u)) = Append(Tail(q), u)
  BY <1>1, TailOfAppended
<1>6. QED BY <1>3, <1>4, <1>5

LEMMA NextMatch ==
    ASSUME NEW words \in HotWordLists, NEW u \in Units,
           NEW q0 \in NumStates(words), Ready(q0, words)
    PROVE  LET step == GetNextState(GraphOf(words), q0, u)
               match == MatchOf(Append(q0, u), words)
           IN  /\ step.state = Enter(GraphOf(words), match)
               /\ step.score \in Int
               /\ step.score >= TotalWeight(match) - TotalWeight(q0)
               /\ q0 \notin words => step.score = TotalWeight(match) - TotalWeight(q0)
<1> DEFINE states == NumStates(words)
           graph == GraphOf(words)
           To(q) == GetNextState(graph, q, u)
           M(q) == MatchOf(Append(q, u), words)
           Right(q) == /\ To(q).state = Enter(graph, M(q))
                       /\ To(q).score \in Int
                       /\ To(q).score >= TotalWeight(M(q)) - TotalWeight(q)
                       /\ q \notin words => To(q).score = TotalWeight(M(q)) - TotalWeight(q)
           Done == {n \in Nat : \A q \in states : Len(q) = n /\ Ready(q, words) => Right(q)}
<1>1. ASSUME NEW q \in states
      PROVE  /\ q \in Seq(Units) /\ Append(q, u) \in Seq(Units) /\ Len(Append(q, u)) = Len(q) + 1
             /\ M(q) \in Seq(Units) /\ M(q) \in states
             /\ TotalWeight(q) \in Nat /\ TotalWeight(M(q)) \in Nat
  <2>1. q \in Seq(Units)
    BY FallsFacts
  <2>2. Append(q, u) \in Seq(Units) /\ Len(Append(q, u)) = Len(q) + 1
    BY <2>1
  <2>3. M(q) \in Seq(Units) /\ M(q) \in states
    BY <2>2, MatchOfFacts
  <2>4. Len(q) <= Len(q) /\ Len(M(q)) <= Len(M(q))
    BY <2>1, <2>3
  <2>5. QED BY <2>1, <2>2, <2>3, <2>4, TotalWeightFacts
<1>2. ASSUME NEW n \in Nat, \A k \in 0 .. n - 1 : k \in Done PROVE n \in Done
  <2>1. SUFFICES ASSUME NEW q \in states, Len(q) = n, Ready(q, words) PROVE Right(q)
    OBVIOUS
  <2>2. CASE Append(q, u) \in states
    <3>1. M(q) = Append(q, u)
      BY <1>1, <2>2, MatchOfFacts
    <3>2. To(q).state = Enter(graph, Append(q, u)) /\ To(q).score = ArcWeight(n + 1)
      BY <2>1, <2>2, NextStateIs
    <3>3. /\ TotalWeight(Append(q, u)) = TotalWeight(q) + ArcWeight(n + 1)
          /\ ArcWeight(n + 1) \in Nat
      BY <1>1, <2>1, TotalFacts DEF TotalWeight
    <3>4. PICK a \in Nat : a = ArcWeight(n + 1)
      BY <3>3
    <3>5. TotalWeight(M(q)) = TotalWeight(q) + a /\ To(q).score = a /\ TotalWeight(q) \in Nat
      BY <1>1, <3>1, <3>2, <3>3, <3>4
    <3> HIDE DEF To, M
    <3>6. QED BY <3>1, <3>2, <3>5
  <2>3. CASE Append(q, u) \notin states /\ q = Start
    <3>1. q \notin DOMAIN ConvertToAC(words)
      BY <2>3, FallbackIs
    <3>2. To(q).state = Start /\ To(q).score = 0
      BY <2>3, <3>1, NextStateIs
    <3>3. M(q) = Start
      <4>1. Tail(Append(q, u)) = <<>>
        BY <2>3 DEF Start
      <4>2. M(q) = MatchOf(<<>>, words)
        <5>1. Append(q, u) \in Seq(Units) /\ Append(q, u) \notin states
          BY <1>1, <2>3
        <5>2. M(q) = MatchOf(Tail(Append(q, u)), words)
          BY <5>1, MatchOfFacts
        <5>3. QED BY <4>1, <5>2
      <4>3. MatchOf(<<>>, words) = <<>>
        <5>1. <<>> \in Seq(Units) /\ <<>> \in states
          BY FallsFacts DEF Start
        <5>2. QED BY <5>1, MatchOfFacts
      <4>4. QED BY <4>2, <4>3 DEF Start
    <3>4. Enter(graph, Start) = Start
      <4>1. Start \in states
        BY <2>3
      <4>2. QED BY <4>1, EnterFacts
    <3>5. TotalWeight(Start) \in Nat
      BY <1>1, <2>3
    <3> HIDE DEF To, M, graph
    <3>6. QED BY <2>3, <3>2, <3>3, <3>4, <3>5
  <2>4. CASE Append(q, u) \notin states /\ q # Start
    <3> DEFINE f == Falls(q, words)
    <3>1. /\ f \in states /\ f \in Suffixes(q) /\ Len(f) \in Nat /\ Len(f) < n
          /\ q \in Seq(Units) /\ f \in Seq(Units)
      <4>1. f \in states /\ f \in Suffixes(q) /\ q \in Seq(Units) /\ f \in Seq(Units) /\ Len(f) < Len(q)
        BY <2>4, FallsFacts
      <4>2. Len(f) \in Nat
        BY <4>1
      <4>3. QED BY <2>1, <4>1, <4>2
    <3>2. \A r \in Suffixes(f) : r \notin words
      <4>1. TAKE r \in Suffixes(f)
      <4>2. r \in Suffixes(q) /\ Len(r) <= Len(f) /\ Len(r) \in Nat
        BY <3>1, SuffixFacts
      <4>3. Len(r) # Len(q)
        BY <2>1, <3>1, <4>2
      <4>4. QED BY <2>1, <4>2, <4>3 DEF Ready, Clean
    <3>3. f \notin words
      BY <3>1, <3>2, SuffixFacts
    <3>4. Ready(f, words)
      BY <3>2, <3>3 DEF Ready, Clean
    <3>5. Right(f)
      <4>1. Len(f) \in 0 .. n - 1
        BY <3>1
      <4>2. Len(f) \in Done
        BY <1>2, <4>1
      <4> HIDE DEF Right, f
      <4>3. QED BY <3>1, <3>4, <4>2
    <3>6. q \in DOMAIN ConvertToAC(words)
      <4>1. ~Blocked(f, words) /\ (q \in words => f # Start)
        BY <2>1, <3>3 DEF Blocked, Ready
      <4>2. QED BY <2>4, <4>1, FallbackIs
    <3>7. To(q).state = To(f).state /\ To(q).score = To(f).score + Loses(q, words)
      BY <2>4, <3>6, NextStateIs
    <3>8. M(f) = M(q)
      BY <2>4, MatchFromBelow
    <3>9. TotalWeight(f) \in Nat /\ TotalWeight(f) <= TotalWeight(q)
      <4>1. Len(f) <= Len(q)
        BY <2>1, <3>1
      <4>2. QED BY <3>1, <4>1, TotalWeightFacts
    <3>10. Loses(q, words) = IF q \in words THEN 0 ELSE TotalWeight(f) - TotalWeight(q)
      BY DEF Loses
    <3>11. TotalWeight(q) \in Nat /\ TotalWeight(M(q)) \in Nat
      BY <1>1
    <3>12. To(f).score = TotalWeight(M(q)) - TotalWeight(f) /\ To(f).state = Enter(graph, M(q))
      BY <3>3, <3>5, <3>8
    <3> HIDE DEF To, M, graph, f
    <3>13. QED BY <3>7, <3>9, <3>10, <3>11, <3>12
  <2>5. QED BY <2>2, <2>3, <2>4
<1>3. \A n \in Nat : n \in Done
  <2> HIDE DEF Done
  <2>1. QED BY <1>2, StrongInduction
<1>4. Len(q0) \in Nat
  BY FallsFacts
<1>5. Len(q0) \in Done
  BY <1>3, <1>4
<1>6. Right(q0)
  <2> HIDE DEF Right
  <2>1. QED BY <1>5
<1>7. QED BY <1>6

(***************************************************************************)
(* The graph's answer to a whole prefix.                                   *)
(***************************************************************************)
IsWalk(walk, p, graph) ==
    walk = [i \in 0 .. Len(p) |->
                IF i = 0 THEN [state |-> Start, score |-> 0]
                ELSE LET r == GetNextState(graph, walk[i - 1].state, p[i])
                     IN  [r EXCEPT !.score = @ + walk[i - 1].score]]

WalkOf(p, graph) == (CHOOSE walk : IsWalk(walk, p, graph))[Len(p)]

Added(r, before) == [state |-> r.state, score |-> r.score + before.score]

LEMMA WalkExists ==
    ASSUME NEW words \in HotWordLists, NEW p \in Seq(Units)
    PROVE  LET walk == CHOOSE walk : IsWalk(walk, p, GraphOf(words))
           IN  /\ \A i \in 0 .. Len(p) : walk[i] \in Steps(words)
               /\ walk[0] = [state |-> Start, score |-> 0]
               /\ \A i \in 1 .. Len(p) :
                    walk[i] = Added(GetNextState(GraphOf(words), walk[i - 1].state, p[i]), walk[i - 1])
<1> DEFINE graph == GraphOf(words)
           V == Steps(words)
           Z == [state |-> Start, score |-> 0]
           Walked(w) == IsWalk(w, p, graph)
           walk == CHOOSE w : Walked(w)
<1>1. PICK n \in Nat : n = Len(p)
  OBVIOUS
<1>2. \A i \in 1 .. n : p[i] \in Units
  BY <1>1
<1>3. Z \in V
  <2>1. Start \in NumStates(words)
    BY StatesAreATree DEF Tree, Start
  <2>2. QED BY <2>1 DEF Steps
<1>4. ASSUME NEW i \in 1 .. n, NEW v \in V
      PROVE  LET r == GetNextState(graph, v.state, p[i])
             IN  /\ Added(r, v) \in V
                 /\ [r EXCEPT !.score = @ + v.score] = Added(r, v)
  <2>1. v.state \in NumStates(words) /\ v.score \in Int
    BY DEF Steps
  <2> DEFINE r == GetNextState(graph, v.state, p[i])
  <2>2. r \in V
    BY <1>2, <2>1, NextStateIs
  <2> HIDE DEF r, graph
  <2>3. QED BY <2>1, <2>2 DEF Steps, Added, r
<1>5. \E f : Walked(f) /\ \A i \in 0 .. n : f[i] \in V
  <2> DEFINE S == 0 .. n
             rank == [i \in S |-> i]
             stop == {0}
             base == [i \in S |-> Z]
             prev == [i \in S |-> IF i = 0 THEN 0 ELSE i - 1]
             step == [i \in S |-> [v \in V |->
                        IF i = 0 THEN v ELSE Added(GetNextState(graph, v.state, p[i]), v)]]
  <2>1. rank \in [S -> Nat] /\ base \in [S -> V]
    BY <1>3
  <2>2. prev \in [S -> S]
    OBVIOUS
  <2>3. step \in [S -> [V -> V]]
    <3>1. ASSUME NEW i \in S, NEW v \in V
          PROVE  (IF i = 0 THEN v ELSE Added(GetNextState(graph, v.state, p[i]), v)) \in V
      <4>1. i # 0 => i \in 1 .. n
        OBVIOUS
      <4> HIDE DEF graph, V
      <4>2. QED BY <1>4, <4>1
    <3> HIDE DEF graph, V
    <3>2. QED BY <3>1
  <2>4. GetsSmaller(S, rank, stop, prev)
    BY DEF GetsSmaller
  <2>5. \A i \in S : /\ base[i] = Z
                     /\ i # 0 => prev[i] = i - 1 /\ i - 1 \in S /\ i \in 1 .. n
                     /\ \A v \in V : i # 0 =>
                            step[i][v] = Added(GetNextState(graph, v.state, p[i]), v)
    <3> HIDE DEF graph, V, Z
    <3>1. QED OBVIOUS
  <2> HIDE DEF rank, base, prev, step, stop, V, graph, Z
  <2>6. PICK f : IsRecursive(f, S, V, stop, base, prev, step)
    BY <2>1, <2>2, <2>3, <2>4, Recursion
  <2>7. \A i \in S : f[i] \in V
    BY <2>6 DEF IsRecursive
  <2>8. ASSUME NEW i \in S
        PROVE  f[i] = IF i = 0 THEN Z
                      ELSE LET r == GetNextState(graph, f[i - 1].state, p[i])
                           IN  [r EXCEPT !.score = @ + f[i - 1].score]
    <3>1. CASE i = 0
      BY <2>5, <2>6, <3>1 DEF IsRecursive, stop
    <3>2. CASE i # 0
      <4>1. prev[i] = i - 1 /\ i - 1 \in S /\ i \in 1 .. n /\ f[i - 1] \in V
        BY <2>5, <2>7, <3>2
      <4>2. f[i] = step[i][f[i - 1]]
        BY <2>6, <3>2, <4>1 DEF IsRecursive, stop
      <4>3. f[i] = Added(GetNextState(graph, f[i - 1].state, p[i]), f[i - 1])
        BY <2>5, <3>2, <4>1, <4>2
      <4>4. QED BY <1>4, <3>2, <4>1, <4>3
    <3>3. QED BY <3>1, <3>2
  <2>9. f = [i \in S |-> f[i]]
    BY <2>6 DEF IsRecursive
  <2>10. Walked(f)
    BY <1>1, <2>8, <2>9 DEF IsWalk, Z
  <2> HIDE DEF Walked
  <2>11. QED BY <2>7, <2>10
<1>6. Walked(walk)
  <2> HIDE DEF Walked
  <2>1. QED BY <1>5
<1>7. ASSUME NEW i \in 0 .. n
      PROVE  walk[i] = IF i = 0 THEN Z
                       ELSE LET r == GetNextState(graph, walk[i - 1].state, p[i])
                            IN  [r EXCEPT !.score = @ + walk[i - 1].score]
  <2> HIDE DEF walk, graph
  <2>1. QED BY <1>1, <1>6 DEF IsWalk
<1> HIDE DEF walk
<1> DEFINE Typed == {i \in Nat : i \in 0 .. n => walk[i] \in V}
<1>8. ASSUME NEW k \in Nat, \A j \in 0 .. k - 1 : j \in Typed PROVE k \in Typed
  <2>1. SUFFICES ASSUME k \in 0 .. n PROVE walk[k] \in V
    OBVIOUS
  <2>2. CASE k = 0
    <3> HIDE DEF graph, V
    <3>1. QED BY <1>3, <1>7, <2>1, <2>2
  <2>3. CASE k # 0
    <3>1. k - 1 \in 0 .. k - 1 /\ k - 1 \in 0 .. n /\ k \in 1 .. n
      BY <2>1, <2>3
    <3>2. walk[k - 1] \in V
      BY <1>8, <3>1
    <3> HIDE DEF graph, V, Z
    <3>3. walk[k] = LET r == GetNextState(graph, walk[k - 1].state, p[k])
                    IN  [r EXCEPT !.score = @ + walk[k - 1].score]
      BY <1>7, <2>1, <2>3
    <3>4. walk[k] = Added(GetNextState(graph, walk[k - 1].state, p[k]), walk[k - 1])
      BY <1>4, <3>1, <3>2, <3>3
    <3>5. QED BY <1>4, <3>1, <3>2, <3>4
  <2>4. QED BY <2>2, <2>3
<1>9. \A k \in Nat : k \in Typed
  <2> HIDE DEF Typed
  <2>1. QED BY <1>8, StrongInduction
<1>10. \A i \in 0 .. n : walk[i] \in V
  BY <1>9
<1>11. ASSUME NEW i \in 1 .. n
       PROVE  walk[i] = Added(GetNextState(graph, walk[i - 1].state, p[i]), walk[i - 1])
  <2>1. i \in 0 .. n /\ i - 1 \in 0 .. n /\ i # 0
    OBVIOUS
  <2> HIDE DEF graph, V, Z
  <2>2. walk[i] = LET r == GetNextState(graph, walk[i - 1].state, p[i])
                  IN  [r EXCEPT !.score = @ + walk[i - 1].score]
    BY <1>7, <2>1
  <2>3. QED BY <1>4, <1>10, <2>1, <2>2
<1>12. walk[0] = Z
  <2>1. 0 \in 0 .. n
    OBVIOUS
  <2>2. QED BY <1>7, <2>1
<1>13. QED BY <1>1, <1>10, <1>11, <1>12 DEF walk

LEMMA WalkIs ==
    ASSUME NEW words \in HotWordLists
    PROVE  /\ WalkOf(<<>>, GraphOf(words)) = [state |-> Start, score |-> 0]
           /\ \A p \in Seq(Units) : WalkOf(p, GraphOf(words)) \in Steps(words)
           /\ \A p \in Seq(Units) : \A u \in Units :
                LET before == WalkOf(p, GraphOf(words))
                IN  WalkOf(Append(p, u), GraphOf(words)) =
                        Added(GetNextState(GraphOf(words), before.state, u), before)
<1> DEFINE graph == GraphOf(words)
           W(p) == CHOOSE walk : IsWalk(walk, p, graph)
           Good(p) == /\ \A i \in 0 .. Len(p) : W(p)[i] \in Steps(words)
                      /\ W(p)[0] = [state |-> Start, score |-> 0]
                      /\ \A i \in 1 .. Len(p) :
                            W(p)[i] = Added(GetNextState(graph, W(p)[i - 1].state, p[i]), W(p)[i - 1])
<1>1. ASSUME NEW p \in Seq(Units) PROVE Good(p) /\ WalkOf(p, graph) = W(p)[Len(p)] /\ Len(p) \in Nat
  BY WalkExists DEF WalkOf
<1> HIDE DEF W, graph
<1>2. WalkOf(<<>>, graph) = [state |-> Start, score |-> 0]
  <2>1. <<>> \in Seq(Units) /\ Len(<<>>) = 0
    OBVIOUS
  <2>2. QED BY <1>1, <2>1
<1>3. ASSUME NEW p \in Seq(Units) PROVE WalkOf(p, graph) \in Steps(words)
  <2>1. Len(p) \in 0 .. Len(p)
    BY <1>1
  <2>2. QED BY <1>1, <2>1
<1>4. ASSUME NEW p \in Seq(Units), NEW u \in Units
      PROVE  LET before == WalkOf(p, graph)
             IN  WalkOf(Append(p, u), graph) = Added(GetNextState(graph, before.state, u), before)
  <2>1. PICK n \in Nat : n = Len(p)
    OBVIOUS
  <2> DEFINE pu == Append(p, u)
  <2>2. /\ pu \in Seq(Units) /\ Len(pu) = n + 1 /\ pu[n + 1] = u
        /\ \A i \in 1 .. n : pu[i] = p[i]
    BY <2>1
  <2> HIDE DEF pu
  <2> DEFINE Same == {i \in Nat : i \in 0 .. n => W(pu)[i] = W(p)[i]}
  <2>3. Good(p) /\ Good(pu)
    BY <1>1, <2>2
  <2>4. ASSUME NEW k \in Nat, \A j \in 0 .. k - 1 : j \in Same PROVE k \in Same
    <3>1. SUFFICES ASSUME k \in 0 .. n PROVE W(pu)[k] = W(p)[k]
      OBVIOUS
    <3>2. CASE k = 0
      BY <2>3, <3>2
    <3>3. CASE k # 0
      <4>1. k - 1 \in 0 .. k - 1 /\ k - 1 \in 0 .. n /\ k \in 1 .. n /\ k \in 1 .. n + 1
        BY <3>1, <3>3
      <4>2. W(pu)[k - 1] = W(p)[k - 1]
        BY <2>4, <4>1
      <4>3. W(p)[k] = Added(GetNextState(graph, W(p)[k - 1].state, p[k]), W(p)[k - 1])
        BY <2>1, <2>3, <4>1
      <4>4. W(pu)[k] = Added(GetNextState(graph, W(pu)[k - 1].state, pu[k]), W(pu)[k - 1])
        BY <2>2, <2>3, <4>1
      <4>5. QED BY <2>2, <4>1, <4>2, <4>3, <4>4
    <3>4. QED BY <3>2, <3>3
  <2>5. \A k \in Nat : k \in Same
    <3> HIDE DEF Same
    <3>1. QED BY <2>4, StrongInduction
  <2>6. W(pu)[n] = W(p)[n]
    <3>1. n \in Same /\ n \in 0 .. n
      BY <2>5
    <3>2. QED BY <3>1
  <2>7. n + 1 \in 1 .. Len(pu) /\ (n + 1) - 1 = n
    BY <2>2
  <2>8. W(pu)[n + 1] = Added(GetNextState(graph, W(pu)[n].state, u), W(pu)[n])
    BY <2>2, <2>3, <2>7
  <2>9. WalkOf(pu, graph) = W(pu)[n + 1] /\ WalkOf(p, graph) = W(p)[n]
    BY <1>1, <2>1, <2>2
  <2>10. QED BY <2>6, <2>8, <2>9 DEF pu
<1>5. QED BY <1>2, <1>3, <1>4 DEF graph

(***************************************************************************)
(* Hot words within a prefix.                                              *)
(***************************************************************************)
NoWhole(p, words) == \A i \in 1 .. Len(p) : \A j \in i .. Len(p) : SubSeq(p, i, j) \notin words

LEMMA PartFacts ==
    ASSUME NEW U, NEW p \in Seq(U), NEW i \in 1 .. Len(p), NEW j \in i .. Len(p)
    PROVE  /\ SubSeq(p, i, j) \in Seq(U) /\ Len(SubSeq(p, i, j)) = j - i + 1
           /\ \A k \in 1 .. j - i + 1 : SubSeq(p, i, j)[k] = p[i + k - 1]
<1>1. PICK n \in Nat : n = Len(p)
  OBVIOUS
<1>2. \A k \in 1 .. n : p[k] \in U
  BY <1>1
<1>3. i \in Int /\ j \in Int /\ i <= j /\ \A k \in i .. j : k \in 1 .. n
  BY <1>1
<1>4. \A k \in i .. j : p[k] \in U
  BY <1>2, <1>3
<1>5. QED BY ONLY <1>3, <1>4, SubSeqProperties

LEMMA NoWholeFacts ==
    ASSUME NEW words \in HotWordLists, NEW p \in Seq(Units), NoWhole(p, words)
    PROVE  /\ \A r \in Suffixes(p) : r \notin words
           /\ p # <<>> => NoWhole(Front(p), words)
<1>1. ASSUME NEW r \in Suffixes(p) PROVE r \notin words
  <2>1. CASE r = <<>>
    BY <2>1 DEF HotWordLists
  <2>2. CASE r # <<>>
    <3>1. PICK l \in 1 .. Len(p) : r = SubSeq(p, l, Len(p))
      BY <2>2 DEF Suffixes
    <3>2. Len(p) \in l .. Len(p)
      OBVIOUS
    <3>3. QED BY <3>1, <3>2 DEF NoWhole
  <2>3. QED BY <2>1, <2>2
<1>2. ASSUME p # <<>> PROVE NoWhole(Front(p), words)
  <2> DEFINE f == Front(p)
  <2>1. /\ f \in Seq(Units) /\ Len(f) = Len(p) - 1 /\ Len(p) \in Nat \ {0}
        /\ \A k \in 1 .. Len(f) : f[k] = p[k]
    BY <1>2, FrontFacts
  <2> HIDE DEF f
  <2>2. PICK n \in Nat : Len(f) = n /\ Len(p) = n + 1
    <3>1. Len(p) - 1 \in Nat /\ Len(p) = (Len(p) - 1) + 1
      BY <2>1
    <3>2. QED BY <2>1, <3>1
  <2>3. ASSUME NEW i \in 1 .. n, NEW j \in i .. n PROVE SubSeq(f, i, j) \notin words
    <3>1. i \in 1 .. n + 1 /\ j \in i .. n + 1 /\ \A k \in 1 .. j - i + 1 : i + k - 1 \in 1 .. n
      OBVIOUS
    <3>2. /\ SubSeq(f, i, j) \in Seq(Units) /\ Len(SubSeq(f, i, j)) = j - i + 1
          /\ \A k \in 1 .. j - i + 1 : SubSeq(f, i, j)[k] = f[i + k - 1]
      BY <2>1, <2>2, <2>3, PartFacts
    <3>3. /\ SubSeq(p, i, j) \in Seq(Units) /\ Len(SubSeq(p, i, j)) = j - i + 1
          /\ \A k \in 1 .. j - i + 1 : SubSeq(p, i, j)[k] = p[i + k - 1]
      <4>1. p \in Seq(Units) /\ i \in 1 .. Len(p) /\ j \in i .. Len(p)
        BY <2>2, <3>1
      <4>2. QED BY ONLY <4>1, PartFacts
    <3>4. \A k \in 1 .. j - i + 1 : SubSeq(f, i, j)[k] = SubSeq(p, i, j)[k]
      BY <2>1, <2>2, <3>1, <3>2, <3>3
    <3>5. SubSeq(f, i, j) = SubSeq(p, i, j)
      BY <3>2, <3>3, <3>4, SeqEqual
    <3>6. QED BY <2>2, <3>1, <3>5 DEF NoWhole
  <2>4. NoWhole(f, words)
    BY <2>2, <2>3 DEF NoWhole
  <2>5. QED BY <2>4 DEF f
<1>3. QED BY <1>1, <1>2

LEMMA WalkStep ==
    ASSUME NEW words \in HotWordLists, NEW p \in Seq(Units), NEW u \in Units,
           Ready(MatchOf(p, words), words),
           WalkOf(p, GraphOf(words)).state = MatchOf(p, words),
           WalkOf(p, GraphOf(words)).score >= TotalWeight(MatchOf(p, words))
    PROVE  LET after == WalkOf(Append(p, u), GraphOf(words))
               match == MatchOf(Append(p, u), words)
           IN  /\ after.state = Enter(GraphOf(words), match)
               /\ after.score \in Int /\ TotalWeight(match) \in Nat
               /\ after.score >= TotalWeight(match)
               /\ /\ MatchOf(p, words) \notin words
                  /\ WalkOf(p, GraphOf(words)).score = TotalWeight(MatchOf(p, words))
                  => after.score = TotalWeight(match)
<1> DEFINE graph == GraphOf(words)
           m == MatchOf(p, words)
           M == MatchOf(Append(p, u), words)
           before == WalkOf(p, graph)
           step == GetNextState(graph, m, u)
           pu == Append(p, u)
<1>1. pu \in Seq(Units)
  OBVIOUS
<1>2. m \in NumStates(words) /\ m \in Seq(Units)
  BY MatchOfFacts
<1>3. M \in Seq(Units)
  <2> HIDE DEF pu
  <2>1. MatchOf(pu, words) \in Seq(Units)
    BY <1>1, MatchOfFacts
  <2>2. QED BY <2>1 DEF pu
<1>4. MatchOf(Append(m, u), words) = M
  BY MatchOfFacts
<1>5. /\ step.state = Enter(graph, M)
      /\ step.score \in Int
      /\ step.score >= TotalWeight(M) - TotalWeight(m)
      /\ m \notin words => step.score = TotalWeight(M) - TotalWeight(m)
  <2> HIDE DEF m
  <2>1. Ready(m, words)
    BY DEF m
  <2>2. /\ step.state = Enter(graph, MatchOf(Append(m, u), words))
        /\ step.score \in Int
        /\ step.score >= TotalWeight(MatchOf(Append(m, u), words)) - TotalWeight(m)
        /\ m \notin words => step.score = TotalWeight(MatchOf(Append(m, u), words)) - TotalWeight(m)
    BY <1>2, <2>1, NextMatch
  <2> HIDE DEF M, step
  <2>3. QED BY <1>4, <2>2
<1>6. TotalWeight(m) \in Nat /\ TotalWeight(M) \in Nat
  <2>1. \A q \in Seq(Units) : TotalWeight(q) \in Nat
    <3>1. TAKE q \in Seq(Units)
    <3>2. Len(q) <= Len(q)
      OBVIOUS
    <3>3. QED BY <3>2, TotalWeightFacts
  <2> HIDE DEF m, M
  <2>2. QED BY <1>2, <1>3, <2>1
<1>7. before \in Steps(words)
  BY WalkIs
<1>8. WalkOf(pu, graph) = Added(GetNextState(graph, before.state, u), before)
  BY WalkIs
<1>9. before.state = m /\ before.score >= TotalWeight(m) /\ before.score \in Int
  BY <1>7 DEF Steps
<1>10. WalkOf(pu, graph).state = step.state /\ WalkOf(pu, graph).score = step.score + before.score
  <2> HIDE DEF m, before, graph, pu
  <2>1. WalkOf(pu, graph) = Added(step, before)
    BY <1>8, <1>9
  <2> HIDE DEF step
  <2>2. QED BY <2>1 DEF Added
<1>11. /\ WalkOf(pu, graph).state = Enter(graph, M)
       /\ WalkOf(pu, graph).score \in Int
       /\ WalkOf(pu, graph).score >= TotalWeight(M)
       /\ m \notin words /\ before.score = TotalWeight(m) => WalkOf(pu, graph).score = TotalWeight(M)
  <2> HIDE DEF m, M, before, step, graph, pu
  <2>1. QED BY <1>5, <1>6, <1>9, <1>10
<1>12. QED BY <1>6, <1>11

LEMMA WalkUnfinished ==
    ASSUME NEW words \in HotWordLists, NEW p0 \in Seq(Units), NoWhole(p0, words)
    PROVE  WalkOf(p0, GraphOf(words)) =
               [state |-> MatchOf(p0, words), score |-> TotalWeight(MatchOf(p0, words))]
<1> DEFINE graph == GraphOf(words)
           Unfinished(p) == /\ WalkOf(p, graph).state = MatchOf(p, words)
                            /\ WalkOf(p, graph).score = TotalWeight(MatchOf(p, words))
           Done == {n \in Nat : \A p \in Seq(Units) : Len(p) = n /\ NoWhole(p, words) => Unfinished(p)}
<1>1. ASSUME NEW n \in Nat, \A k \in 0 .. n - 1 : k \in Done PROVE n \in Done
  <2>1. SUFFICES ASSUME NEW p \in Seq(Units), Len(p) = n, NoWhole(p, words) PROVE Unfinished(p)
    OBVIOUS
  <2>2. CASE p = <<>>
    <3>1. MatchOf(<<>>, words) = Start
      <4>1. <<>> \in Seq(Units) /\ <<>> \in NumStates(words)
        BY StatesAreATree DEF Tree
      <4>2. QED BY <4>1, MatchOfFacts DEF Start
    <3>2. TotalWeight(Start) = 0
      BY TotalFacts DEF TotalWeight, Start
    <3>3. WalkOf(<<>>, graph) = [state |-> Start, score |-> 0]
      BY WalkIs
    <3> HIDE DEF graph
    <3>4. QED BY <2>2, <3>1, <3>2, <3>3
  <2>3. CASE p # <<>>
    <3> DEFINE q == Front(p)
               u == Last(p)
    <3>1. q \in Seq(Units) /\ u \in Units /\ p = Append(q, u) /\ Len(q) = n - 1 /\ n # 0
      <4>1. /\ q \in Seq(Units) /\ Len(q) = Len(p) - 1 /\ Len(p) \in Nat \ {0}
            /\ u \in Units /\ p = Append(q, u)
        BY <2>3, FrontFacts
      <4> HIDE DEF q, u
      <4>2. QED BY <2>1, <4>1
    <3>2. NoWhole(q, words) /\ \A r \in Suffixes(p) : r \notin words
      BY <2>1, <2>3, NoWholeFacts
    <3> HIDE DEF q, u
    <3>3. \A r \in Suffixes(q) : r \notin words
      BY <3>1, <3>2, NoWholeFacts
    <3>4. Unfinished(q)
      <4>1. n - 1 \in 0 .. n - 1
        BY <3>1
      <4>2. n - 1 \in Done
        BY <1>1, <4>1
      <4> HIDE DEF Unfinished
      <4>3. QED BY <3>1, <3>2, <4>2
    <3> DEFINE m == MatchOf(q, words)
               M == MatchOf(p, words)
    <3>5. m \in Suffixes(q) /\ M \in Suffixes(p) /\ M \in NumStates(words) /\ m \in Seq(Units)
      BY <3>1, MatchOfFacts
    <3>6. m \notin words /\ M \notin words
      BY <3>2, <3>3, <3>5
    <3>7. Ready(m, words)
      <4>1. Suffixes(m) \subseteq Suffixes(q)
        BY <3>1, <3>5, SuffixFacts
      <4> HIDE DEF m
      <4>2. QED BY <3>3, <3>6, <4>1 DEF Ready, Clean
    <3>8. TotalWeight(m) \in Nat
      <4>1. Len(m) <= Len(m)
        BY <3>5
      <4>2. QED BY <3>5, <4>1, TotalWeightFacts
    <3>9. WalkOf(p, graph).state = Enter(graph, M) /\ WalkOf(p, graph).score = TotalWeight(M)
      <4>1. WalkOf(q, graph).state = m /\ WalkOf(q, graph).score = TotalWeight(m)
        BY <3>4
      <4>2. WalkOf(q, graph).score >= TotalWeight(m)
        BY <3>8, <4>1
      <4>3. /\ WalkOf(Append(q, u), graph).state = Enter(graph, MatchOf(Append(q, u), words))
            /\ WalkOf(Append(q, u), graph).score = TotalWeight(MatchOf(Append(q, u), words))
        BY <3>1, <3>6, <3>7, <4>1, <4>2, WalkStep
      <4>4. QED BY <3>1, <4>3
    <3>10. Enter(graph, M) = M
      <4>1. M # Start => HasChild(M, words)
        BY <3>5, <3>6, StatesAreATree
      <4>2. QED BY <3>5, <4>1, EnterFacts
    <3> HIDE DEF graph, M
    <3>11. QED BY <3>9, <3>10 DEF M
  <2>4. QED BY <2>2, <2>3
<1>2. \A n \in Nat : n \in Done
  <2> HIDE DEF Done
  <2>1. QED BY <1>1, StrongInduction
<1>3. Unfinished(p0)
  <2> HIDE DEF Unfinished
  <2>1. Len(p0) \in Nat
    OBVIOUS
  <2>2. QED BY <1>2, <2>1
<1>4. WalkOf(p0, graph) \in Steps(words)
  BY WalkIs
<1>5. QED BY <1>3, <1>4 DEF Steps

LEMMA FirstHotWord ==
    ASSUME NEW words \in HotWordLists, NEW p \in Seq(Units), p # <<>>, NoWhole(Front(p), words)
    PROVE  WalkOf(p, GraphOf(words)).score = TotalWeight(MatchOf(p, words))
<1> DEFINE q == Front(p)
           u == Last(p)
           m == MatchOf(q, words)
<1>1. q \in Seq(Units) /\ u \in Units /\ p = Append(q, u)
  BY FrontFacts
<1>2. NoWhole(q, words)
  OBVIOUS
<1> HIDE DEF q, u
<1>3. \A r \in Suffixes(q) : r \notin words
  BY <1>1, <1>2, NoWholeFacts
<1>4. m \in Suffixes(q) /\ m \in Seq(Units)
  BY <1>1, MatchOfFacts
<1>5. m \notin words
  BY <1>3, <1>4
<1>6. Ready(m, words)
  <2>1. Suffixes(m) \subseteq Suffixes(q)
    BY <1>1, <1>4, SuffixFacts
  <2> HIDE DEF m
  <2>2. QED BY <1>3, <1>5, <2>1 DEF Ready, Clean
<1>7. WalkOf(q, GraphOf(words)) = [state |-> m, score |-> TotalWeight(m)]
  BY <1>1, <1>2, WalkUnfinished
<1>8. TotalWeight(m) \in Nat
  <2>1. Len(m) <= Len(m)
    BY <1>4
  <2>2. QED BY <1>4, <2>1, TotalWeightFacts
<1>9. /\ WalkOf(q, GraphOf(words)).state = m
      /\ WalkOf(q, GraphOf(words)).score = TotalWeight(m)
      /\ WalkOf(q, GraphOf(words)).score >= TotalWeight(m)
  <2> HIDE DEF m
  <2>1. QED BY <1>7, <1>8
<1>10. WalkOf(Append(q, u), GraphOf(words)).score = TotalWeight(MatchOf(Append(q, u), words))
  BY <1>1, <1>5, <1>6, <1>9, WalkStep
<1>11. QED BY <1>1, <1>10

(***************************************************************************)
(* Hot words of which none is a part of another.                           *)
(***************************************************************************)
LEMMA SeparateFacts ==
    ASSUME NEW words \in HotWordLists, Separate(words)
    PROVE  /\ \A q \in NumStates(words) : Clean(q, words)
           /\ \A c \in words : ~HasChild(c, words)
<1> DEFINE states == NumStates(words)
<1>1. ASSUME NEW q \in states, q # Start
      PROVE  \E d \in words : /\ d \in Seq(Units) /\ Len(q) \in 1 .. Len(d)
                              /\ \A i \in 1 .. Len(q) : q[i] = d[i]
  <2>1. PICK d \in words : q \in Prefixes(d)
    BY <1>1 DEF NumStates
  <2>2. PICK l \in 0 .. Len(d) : q = SubSeq(d, 1, l)
    BY <2>1 DEF Prefixes
  <2>3. d \in Seq(Units)
    BY DEF HotWordLists
  <2>4. q \in Seq(Units) /\ Len(q) = l
    BY <2>2, <2>3, PrefixFacts
  <2>5. l # 0
    BY <1>1, <2>4 DEF Start
  <2>6. PICK n \in Nat : n = Len(d)
    BY <2>3
  <2>7. 1 \in 1 .. Len(d) /\ l \in 1 .. Len(d) /\ l - 1 + 1 = l /\ \A i \in 1 .. l : 1 + i - 1 = i
    BY <2>5, <2>6
  <2>8. \A i \in 1 .. l : q[i] = d[i]
    BY <2>2, <2>3, <2>7, PartFacts
  <2>9. QED BY <2>3, <2>4, <2>7, <2>8
<1>2. ASSUME NEW q \in states, NEW r \in Suffixes(q), r \in words PROVE r = q
  <2>1. r # <<>> /\ q \in Seq(Units)
    BY <1>2, FallsFacts DEF HotWordLists
  <2>2. PICK k \in 1 .. Len(q) : r = SubSeq(q, k, Len(q))
    BY <2>1 DEF Suffixes
  <2>3. q # Start
    BY <2>1, <2>2 DEF Start
  <2>4. PICK d \in words : /\ d \in Seq(Units) /\ Len(q) \in 1 .. Len(d)
                           /\ \A i \in 1 .. Len(q) : q[i] = d[i]
    BY <1>1, <2>3
  <2>5. PICK l \in Nat : l = Len(q)
    BY <2>1
  <2>6. PICK n \in Nat : n = Len(d)
    BY <2>4
  <2>7. k \in 1 .. l /\ l \in 1 .. n /\ l \in k .. l /\ k \in 1 .. n /\ l \in k .. n
    BY <2>2, <2>4, <2>5, <2>6
  <2>8. /\ SubSeq(q, k, l) \in Seq(Units) /\ Len(SubSeq(q, k, l)) = l - k + 1
        /\ \A i \in 1 .. l - k + 1 : SubSeq(q, k, l)[i] = q[k + i - 1]
    BY <2>1, <2>5, <2>7, PartFacts
  <2>9. /\ SubSeq(d, k, l) \in Seq(Units) /\ Len(SubSeq(d, k, l)) = l - k + 1
        /\ \A i \in 1 .. l - k + 1 : SubSeq(d, k, l)[i] = d[k + i - 1]
    BY <2>4, <2>6, <2>7, PartFacts
  <2>10. \A i \in 1 .. l - k + 1 : k + i - 1 \in 1 .. l
    BY <2>7
  <2>11. \A i \in 1 .. l - k + 1 : SubSeq(q, k, l)[i] = SubSeq(d, k, l)[i]
    BY <2>4, <2>5, <2>8, <2>9, <2>10
  <2>12. SubSeq(d, k, l) = r
    <3>1. SubSeq(d, k, l) = SubSeq(q, k, l)
      BY <2>8, <2>9, <2>11, SeqEqual
    <3>2. QED BY <2>2, <2>5, <3>1
  <2>13. r = d
    BY <1>2, <2>6, <2>7, <2>12 DEF Separate
  <2>14. Len(r) = Len(q)
    <3>1. Len(r) = l - k + 1
      BY <2>9, <2>12
    <3>2. Len(r) = n
      BY <2>6, <2>13
    <3>3. QED BY <2>5, <2>7, <3>1, <3>2
  <2>15. QED BY <2>1, <2>14, SuffixFacts
<1>3. ASSUME NEW c \in words, HasChild(c, words) PROVE FALSE
  <2>1. PICK u \in Units : Append(c, u) \in states
    BY <1>3 DEF HasChild
  <2>2. c \in Seq(Units) /\ c # <<>>
    BY DEF HotWordLists
  <2>3. PICK k \in Nat : k = Len(c)
    BY <2>2
  <2> DEFINE cu == Append(c, u)
  <2>4. cu \in Seq(Units) /\ Len(cu) = k + 1 /\ \A i \in 1 .. k : cu[i] = c[i]
    BY <2>2, <2>3
  <2>5. k # 0
    BY <2>2, <2>3
  <2>6. cu # Start
    <3> HIDE DEF cu
    <3>1. Len(Start) = 0
      BY DEF Start
    <3>2. QED BY <2>4, <3>1
  <2>7. cu \in states
    BY <2>1
  <2> HIDE DEF cu
  <2>8. PICK d \in words : /\ d \in Seq(Units) /\ Len(cu) \in 1 .. Len(d)
                           /\ \A i \in 1 .. Len(cu) : cu[i] = d[i]
    BY <1>1, <2>6, <2>7
  <2>9. PICK n \in Nat : n = Len(d)
    BY <2>8
  <2>10. /\ k + 1 \in 1 .. n /\ 1 \in 1 .. n /\ k \in 1 .. n /\ k - 1 + 1 = k
         /\ \A i \in 1 .. k : 1 + i - 1 = i /\ i \in 1 .. k + 1
    BY <2>4, <2>5, <2>8, <2>9
  <2>11. /\ SubSeq(d, 1, k) \in Seq(Units) /\ Len(SubSeq(d, 1, k)) = k
         /\ \A i \in 1 .. k : SubSeq(d, 1, k)[i] = d[i]
    BY <2>8, <2>9, <2>10, PartFacts
  <2>12. \A i \in 1 .. k : SubSeq(d, 1, k)[i] = c[i]
    BY <2>4, <2>8, <2>10, <2>11
  <2>13. SubSeq(d, 1, k) = c
    BY <2>2, <2>3, <2>11, <2>12, SeqEqual
  <2>14. c = d
    BY <2>9, <2>10, <2>13 DEF Separate
  <2>15. QED BY <2>3, <2>9, <2>10, <2>14
<1>4. QED BY <1>2, <1>3 DEF Clean

LEMMA EnteredState ==
    ASSUME NEW words \in HotWordLists, NEW m \in NumStates(words), Clean(m, words),
           m \in words => ~HasChild(m, words)
    PROVE  /\ Ready(m, words) => Enter(GraphOf(words), m) = m
           /\ ~Ready(m, words) =>
                m \in words /\ Falls(m, words) = Start /\ Enter(GraphOf(words), m) = Start
<1>1. CASE m \notin words
  <2>1. m # Start => HasChild(m, words)
    BY <1>1, StatesAreATree
  <2>2. Ready(m, words)
    BY <1>1 DEF Ready
  <2>3. QED BY <2>1, <2>2, EnterFacts
<1>2. CASE m \in words /\ Falls(m, words) # Start
  <2>1. m # Start /\ Falls(m, words) \in Suffixes(m) /\ Falls(m, words) # m
    BY <1>2, FallsFacts
  <2>2. ~Blocked(Falls(m, words), words)
    BY <2>1 DEF Blocked, Clean
  <2>3. m \in DOMAIN ConvertToAC(words)
    BY <1>2, <2>1, <2>2, FallbackIs
  <2>4. Ready(m, words)
    BY <1>2 DEF Ready
  <2>5. QED BY <2>3, <2>4, EnterFacts
<1>3. CASE m \in words /\ Falls(m, words) = Start
  <2>1. m \notin DOMAIN ConvertToAC(words)
    BY <1>3, FallbackIs
  <2>2. ~HasChild(m, words) /\ ~Ready(m, words)
    BY <1>3 DEF Ready
  <2>3. QED BY <1>3, <2>1, <2>2, EnterFacts
<1>4. QED BY <1>1, <1>2, <1>3

LEMMA WalkRewarded ==
    ASSUME NEW words \in HotWordLists, Separate(words), NEW p0 \in Seq(Units)
    PROVE  WalkOf(p0, GraphOf(words)).score >= TotalWeight(MatchOf(p0, words))
<1> DEFINE graph == GraphOf(words)
           Paid(p) == /\ WalkOf(p, graph).state = Enter(graph, MatchOf(p, words))
                      /\ WalkOf(p, graph).score >= TotalWeight(MatchOf(p, words))
           Done == {n \in Nat : \A p \in Seq(Units) : Len(p) = n => Paid(p)}
<1>1. ASSUME NEW n \in Nat, \A k \in 0 .. n - 1 : k \in Done PROVE n \in Done
  <2>1. SUFFICES ASSUME NEW p \in Seq(Units), Len(p) = n PROVE Paid(p)
    OBVIOUS
  <2>2. CASE p = <<>>
    <3>1. MatchOf(<<>>, words) = Start
      <4>1. <<>> \in Seq(Units) /\ <<>> \in NumStates(words)
        BY StatesAreATree DEF Tree
      <4>2. QED BY <4>1, MatchOfFacts DEF Start
    <3>2. TotalWeight(Start) = 0
      BY TotalFacts DEF TotalWeight, Start
    <3>3. WalkOf(<<>>, graph) = [state |-> Start, score |-> 0]
      BY WalkIs
    <3>4. Enter(graph, Start) = Start
      <4>1. Start \in NumStates(words)
        BY StatesAreATree DEF Tree, Start
      <4>2. QED BY <4>1, EnterFacts
    <3> HIDE DEF graph
    <3>5. QED BY <2>2, <3>1, <3>2, <3>3, <3>4
  <2>3. CASE p # <<>>
    <3> DEFINE q == Front(p)
               u == Last(p)
    <3>1. q \in Seq(Units) /\ u \in Units /\ p = Append(q, u) /\ Len(q) = n - 1 /\ n # 0
      <4>1. /\ q \in Seq(Units) /\ Len(q) = Len(p) - 1 /\ Len(p) \in Nat \ {0}
            /\ u \in Units /\ p = Append(q, u)
        BY <2>3, FrontFacts
      <4> HIDE DEF q, u
      <4>2. QED BY <2>1, <4>1
    <3> HIDE DEF q, u
    <3>2. Paid(q)
      <4>1. n - 1 \in 0 .. n - 1
        BY <3>1
      <4>2. n - 1 \in Done
        BY <1>1, <4>1
      <4> HIDE DEF Paid
      <4>3. QED BY <3>1, <4>2
    <3> DEFINE m == MatchOf(q, words)
               M == MatchOf(p, words)
    <3>3. m \in NumStates(words) /\ m \in Seq(Units)
      BY <3>1, MatchOfFacts
    <3>4. Clean(m, words) /\ (m \in words => ~HasChild(m, words))
      BY <3>3, SeparateFacts
    <3>5. CASE Ready(m, words)
      <4>1. WalkOf(q, graph).state = m /\ WalkOf(q, graph).score >= TotalWeight(m)
        BY <3>2, <3>3, <3>4, <3>5, EnteredState
      <4>2. /\ WalkOf(Append(q, u), graph).state = Enter(graph, MatchOf(Append(q, u), words))
            /\ WalkOf(Append(q, u), graph).score >= TotalWeight(MatchOf(Append(q, u), words))
        BY <3>1, <3>5, <4>1, WalkStep
      <4>3. QED BY <3>1, <4>2
    <3>6. CASE ~Ready(m, words)
      <4>1. m \in words /\ Falls(m, words) = Start /\ WalkOf(q, graph).state = Start
        <5>1. m \in words /\ Falls(m, words) = Start /\ Enter(graph, m) = Start
          BY <3>3, <3>4, <3>6, EnteredState
        <5>2. QED BY <3>2, <5>1
      <4>2. m # Start /\ Append(m, u) \notin NumStates(words) /\ Start \in NumStates(words) /\ Start \notin words
        <5>1. Start \in NumStates(words) /\ Start \notin words
          BY <3>3, FallsFacts
        <5>2. ~HasChild(m, words)
          BY <3>4, <4>1
        <5>3. Append(m, u) \notin NumStates(words)
          BY <3>1, <5>2 DEF HasChild
        <5>4. QED BY <4>1, <5>1, <5>3
      <4>3. MatchOf(Append(Start, u), words) = M
        <5>1. MatchOf(Append(Falls(m, words), u), words) = MatchOf(Append(m, u), words)
          BY <3>1, <3>3, <4>2, MatchFromBelow
        <5>2. MatchOf(Append(m, u), words) = MatchOf(Append(q, u), words)
          BY <3>1, MatchOfFacts
        <5>3. QED BY <3>1, <4>1, <5>1, <5>2
      <4>4. Ready(Start, words)
        BY <4>2, SeparateFacts DEF Ready
      <4> DEFINE step == GetNextState(graph, Start, u)
      <4>5. TotalWeight(Start) = 0
        BY TotalFacts DEF TotalWeight, Start
      <4>6. /\ step.state = Enter(graph, MatchOf(Append(Start, u), words))
            /\ step.score = TotalWeight(MatchOf(Append(Start, u), words)) - TotalWeight(Start)
        BY <3>1, <4>2, <4>4, NextMatch
      <4>7. WalkOf(p, graph) = Added(step, WalkOf(q, graph))
        <5>1. WalkOf(Append(q, u), graph) =
                    Added(GetNextState(graph, WalkOf(q, graph).state, u), WalkOf(q, graph))
          BY <3>1, WalkIs
        <5>2. QED BY <3>1, <4>1, <5>1
      <4>8. WalkOf(q, graph).score \in Int /\ WalkOf(q, graph).score >= 0
        <5>1. WalkOf(q, graph) \in Steps(words)
          BY <3>1, WalkIs
        <5>2. TotalWeight(m) \in Nat
          <6>1. Len(m) <= Len(m)
            BY <3>3
          <6>2. QED BY <3>3, <6>1, TotalWeightFacts
        <5>3. WalkOf(q, graph).score >= TotalWeight(m)
          BY <3>2
        <5> HIDE DEF m, graph
        <5>4. QED BY <5>1, <5>2, <5>3 DEF Steps
      <4>9. TotalWeight(M) \in Nat
        <5>1. M \in Seq(Units)
          BY MatchOfFacts
        <5>2. Len(M) <= Len(M)
          BY <5>1
        <5> HIDE DEF M
        <5>3. QED BY <5>1, <5>2, TotalWeightFacts
      <4> HIDE DEF step, M, m, graph
      <4>10. WalkOf(p, graph).state = step.state /\ WalkOf(p, graph).score = step.score + WalkOf(q, graph).score
        BY <4>7 DEF Added
      <4>11. WalkOf(p, graph).state = Enter(graph, M) /\ WalkOf(p, graph).score >= TotalWeight(M)
        BY <4>3, <4>5, <4>6, <4>8, <4>9, <4>10
      <4>12. QED BY <4>11 DEF M
    <3>7. QED BY <3>5, <3>6
  <2>4. QED BY <2>2, <2>3
<1>2. \A n \in Nat : n \in Done
  <2> HIDE DEF Done
  <2>1. QED BY <1>1, StrongInduction
<1>3. Paid(p0)
  <2> HIDE DEF Paid
  <2>1. Len(p0) \in Nat
    OBVIOUS
  <2>2. QED BY <1>2, <2>1
<1>4. QED BY <1>3

LEMMA SuffixMeans ==
    ASSUME NEW U, NEW c \in Seq(U), NEW p \in Seq(U), IsSuffix(c, p)
    PROVE  c \in Suffixes(p)
<1>1. PICK n \in Nat : n = Len(c)
  OBVIOUS
<1>2. PICK k \in Nat : k = Len(p)
  OBVIOUS
<1> DEFINE rc == Reverse(c)
           rp == Reverse(p)
<1>3. ASSUME NEW s \in Seq(U), NEW l \in Nat, l = Len(s)
      PROVE  /\ Reverse(s) \in Seq(U) /\ Len(Reverse(s)) = l
             /\ \A i \in 1 .. l : Reverse(s)[i] = s[l - i + 1]
  <2>1. \A i \in 1 .. l : l - i + 1 \in 1 .. l
    OBVIOUS
  <2>2. \A i \in 1 .. l : s[l - i + 1] \in U
    BY <1>3, <2>1
  <2>3. Reverse(s) = [i \in 1 .. l |-> s[l - i + 1]]
    BY <1>3 DEF Reverse
  <2>4. QED BY <2>2, <2>3
<1>4. rc \in Seq(U) /\ Len(rc) = n /\ \A i \in 1 .. n : rc[i] = c[n - i + 1]
  BY <1>1, <1>3
<1>5. rp \in Seq(U) /\ Len(rp) = k /\ \A i \in 1 .. k : rp[i] = p[k - i + 1]
  BY <1>2, <1>3
<1>6. Len(rc) <= Len(rp) /\ SubSeq(rc, 1, Len(rc)) = SubSeq(rp, 1, Len(rc))
  BY DEF IsSuffix, IsPrefix
<1> HIDE DEF rc, rp
<1>7. n <= k
  BY <1>4, <1>5, <1>6
<1>8. ASSUME NEW i \in 1 .. n PROVE rc[i] = rp[i]
  <2>1. /\ 1 \in 1 .. n /\ n \in 1 .. n /\ 1 \in 1 .. k /\ n \in 1 .. k
        /\ n - 1 + 1 = n /\ 1 + i - 1 = i
    BY <1>7
  <2>2. \A j \in 1 .. n : SubSeq(rc, 1, n)[j] = rc[1 + j - 1]
    BY <1>4, <2>1, PartFacts
  <2>3. \A j \in 1 .. n : SubSeq(rp, 1, n)[j] = rp[1 + j - 1]
    BY <1>5, <2>1, PartFacts
  <2>4. SubSeq(rc, 1, n) = SubSeq(rp, 1, n)
    BY <1>4, <1>6
  <2>5. QED BY <2>1, <2>2, <2>3, <2>4
<1>9. ASSUME NEW j \in 1 .. n PROVE c[j] = p[k - n + j]
  <2>1. n - j + 1 \in 1 .. n /\ n - j + 1 \in 1 .. k /\ n - (n - j + 1) + 1 = j
        /\ k - (n - j + 1) + 1 = k - n + j
    BY <1>7
  <2>2. rc[n - j + 1] = c[n - (n - j + 1) + 1]
    BY <1>4, <2>1
  <2>3. rp[n - j + 1] = p[k - (n - j + 1) + 1]
    BY <1>5, <2>1
  <2>4. QED BY <1>8, <2>1, <2>2, <2>3
<1>10. EndsWith(c, p, U)
  BY <1>1, <1>2, <1>7, <1>9 DEF EndsWith
<1>11. QED BY <1>10, SuffixIs

LEMMA RewardInFull ==
    ASSUME NEW words \in HotWordLists, NEW p \in Seq(Units), NEW c \in words, IsSuffix(c, p),
           Separate(words) \/ NoWhole(Front(p), words)
    PROVE  WalkOf(p, GraphOf(words)).score >= TotalWeight(c)
<1> DEFINE m == MatchOf(p, words)
<1>1. c \in Seq(Units) /\ c # <<>>
  BY DEF HotWordLists
<1>2. c \in Suffixes(p)
  BY <1>1, SuffixMeans
<1>3. p # <<>>
  <2>1. Len(c) # 0 /\ Len(c) \in Nat
    BY <1>1
  <2>2. Len(c) <= Len(p)
    BY <1>2, SuffixFacts
  <2>3. Len(<<>>) = 0
    OBVIOUS
  <2>4. QED BY <2>1, <2>2, <2>3
<1>4. WalkOf(p, GraphOf(words)).score >= TotalWeight(m)
  <2>1. CASE Separate(words)
    BY <2>1, WalkRewarded
  <2>2. CASE NoWhole(Front(p), words)
    <3>1. WalkOf(p, GraphOf(words)).score = TotalWeight(m)
      BY <1>3, <2>2, FirstHotWord
    <3>2. TotalWeight(m) \in Nat
      <4>1. m \in Seq(Units)
        BY MatchOfFacts
      <4>2. Len(m) <= Len(m)
        BY <4>1
      <4> HIDE DEF m
      <4>3. QED BY <4>1, <4>2, TotalWeightFacts
    <3>3. QED BY <3>1, <3>2
  <2>3. QED BY <2>1, <2>2
<1>5. m \in Seq(Units) /\ Len(c) <= Len(m)
  <2>1. c \in NumStates(words)
    BY StatesAreATree
  <2>2. QED BY <1>2, <2>1, MatchOfFacts
<1> HIDE DEF m
<1>6. TotalWeight(m) \in Nat /\ TotalWeight(c) \in Nat /\ TotalWeight(c) <= TotalWeight(m)
  BY <1>1, <1>5, TotalWeightFacts
<1>7. WalkOf(p, GraphOf(words)).score \in Int
  <2>1. WalkOf(p, GraphOf(words)) \in Steps(words)
    BY WalkIs
  <2>2. QED BY <2>1 DEF Steps
<1>8. QED BY <1>4, <1>6, <1>7

(***************************************************************************)
(* The context of a hypothesis is the walk along its prefix.               *)
(***************************************************************************)
ContextOf(h) == [state |-> h.context_state, score |-> h.context_score]

GraphBuilt == context_graph = NoGraph \/ \E words \in HotWordLists : context_graph = GraphOf(words)

PrefixesOfUnits == \A p \in DOMAIN cur_hyps : p \in Seq(Units)

ContextsWalked ==
    HotWords => \A p \in DOMAIN cur_hyps : ContextOf(cur_hyps[p]) = WalkOf(p, context_graph)

\* CtcInv is inductive.  Reward and state of a new prefix are those of the prefix
\* it extends, one unit further, so that both must be known of every hypothesis.
CtcInv == GraphBuilt /\ PrefixesOfUnits /\ ContextsWalked

LEMMA AppendedFront ==
    ASSUME NEW U, NEW q \in Seq(U), NEW u \in U
    PROVE  Append(q, u) # <<>> /\ Front(Append(q, u)) = q /\ Last(Append(q, u)) = u
<1>1. PICK n \in Nat : n = Len(q)
  OBVIOUS
<1> DEFINE p == Append(q, u)
<1>2. p \in Seq(U) /\ Len(p) = n + 1 /\ p[n + 1] = u /\ \A i \in 1 .. n : p[i] = q[i]
  BY <1>1
<1> HIDE DEF p
<1>3. p # <<>>
  BY <1>2
<1>4. /\ Front(p) \in Seq(U) /\ Len(Front(p)) = Len(p) - 1
      /\ \A i \in 1 .. Len(Front(p)) : Front(p)[i] = p[i]
  BY <1>2, <1>3, FrontFacts
<1>5. Len(Front(p)) = n
  BY <1>2, <1>4
<1>6. \A i \in 1 .. n : Front(p)[i] = q[i]
  BY <1>2, <1>4, <1>5
<1>7. Front(p) = q
  BY <1>1, <1>4, <1>5, <1>6, SeqEqual
<1>8. Last(p) = u
  BY <1>2 DEF Last
<1>9. QED BY <1>3, <1>7, <1>8 DEF p

LEMMA GraphIsBuilt ==
    ASSUME NEW contexts \in ContextSets
    PROVE  \E words \in HotWordLists : BuildContextGraph(contexts) = GraphOf(words)
<1> DEFINE words == Known(contexts)
<1>1. ASSUME NEW c \in words PROVE c \in Seq(Units) \ {<<>>}
  <2>1. c \in contexts /\ ToSet(c) \subseteq Units
    BY DEF Known
  <2>2. c \in Seq(Nat) /\ c # <<>>
    BY <2>1, ContextSetsAssumption
  <2>3. \A i \in 1 .. Len(c) : c[i] \in Units
    BY <2>1, <2>2 DEF ToSet
  <2>4. QED BY <2>2, <2>3
<1>2. words \in HotWordLists
  BY <1>1 DEF HotWordLists
<1>3. BuildContextGraph(contexts) = GraphOf(words)
  BY DEF BuildContextGraph, GraphOf
<1>4. QED BY <1>2, <1>3

LEMMA EmptyPrefixFacts ==
    /\ DOMAIN EmptyPrefix = {<<>>}
    /\ ContextOf(EmptyPrefix[<<>>]) = [state |-> Start, score |-> 0]
BY DEF EmptyPrefix, PrefixScore, ContextOf

HasContext(n) == {"context_state", "context_score"} \subseteq DOMAIN n

LEMMA ContextIsKept ==
    /\ HasContext(PrefixScore)
    /\ \A n, from, prob : HasContext(n) => HasContext(BlankStep(n, from, prob))
    /\ \A n, from, prob, c : HasContext(n) => HasContext(RepeatStep(n, from, prob, c))
    /\ \A n, from, prob, again : HasContext(n) => HasContext(ExtendStep(n, from, prob, again))
<1>1. HasContext(PrefixScore)
  BY DEF HasContext, PrefixScore
<1>2. ASSUME NEW n, NEW from, NEW prob, HasContext(n) PROVE HasContext(BlankStep(n, from, prob))
  BY <1>2 DEF HasContext, BlankStep
<1>3. ASSUME NEW n, NEW from, NEW prob, NEW c, HasContext(n)
      PROVE  HasContext(RepeatStep(n, from, prob, c))
  BY <1>3 DEF HasContext, RepeatStep
<1>4. ASSUME NEW n, NEW from, NEW prob, NEW again, HasContext(n)
      PROVE  HasContext(ExtendStep(n, from, prob, again))
  BY <1>4 DEF HasContext, ExtendStep
<1>5. QED BY <1>1, <1>2, <1>3, <1>4

LEMMA NextContextIs ==
    ASSUME NEW p, NEW logp, NEW top, NEW repeatFirst, context_graph # NoGraph
    PROVE  LET next == ContextOf(NextScore(p, logp, top, repeatFirst))
               own == cur_hyps[p]
               parent == cur_hyps[Front(p)]
               step == GetNextState(context_graph, parent.context_state, Last(p))
           IN  \/ next = ContextOf(own) /\ (Extends(p, top) => p \in DOMAIN cur_hyps)
               \/ /\ next = [state |-> step.state, score |-> parent.context_score + step.score]
                  /\ Extends(p, top)
<1> DEFINE own == cur_hyps[p]
           parent == cur_hyps[Front(p)]
           prob == logp[Last(p)]
           again == Len(p) > 1 /\ p[Len(p) - 1] = Last(p)
           viaBlank == IF Blanks(p, top) THEN BlankStep(PrefixScore, own, logp[blank])
                       ELSE PrefixScore
           first == ExtendStep(viaBlank, parent, prob, again)
           viaUnit ==
               IF Repeats(p, top) /\ Extends(p, top) THEN
                   IF repeatFirst
                   THEN ExtendStep(RepeatStep(viaBlank, own, prob, kFloatMin), parent, prob, again)
                   ELSE RepeatStep(first, own, prob, IF first.v_ns > kFloatMin THEN prob ELSE kFloatMin)
               ELSE IF Repeats(p, top) THEN RepeatStep(viaBlank, own, prob, kFloatMin)
               ELSE IF Extends(p, top) THEN ExtendStep(viaBlank, parent, prob, again)
               ELSE viaBlank
           copied == \/ ~Extends(p, top)
                     \/ Blanks(p, top) /\ Before(logp, blank, Last(p))
                     \/ Repeats(p, top) /\ repeatFirst
           step == GetNextState(context_graph, parent.context_state, Last(p))
<1>1. HasContext(viaBlank)
  BY ContextIsKept
<1>2. HasContext(viaUnit)
  <2> HIDE DEF viaBlank, own, parent, prob, again
  <2>1. HasContext(first)
    BY <1>1, ContextIsKept
  <2> HIDE DEF first
  <2>2. QED BY <1>1, <2>1, ContextIsKept
<1>3. NextScore(p, logp, top, repeatFirst) =
        IF copied THEN CopyContext(viaUnit, own) ELSE UpdateContext(viaUnit, parent, step)
  BY DEF NextScore
<1>4. copied => (Extends(p, top) => p \in DOMAIN cur_hyps)
  BY DEF Blanks, Repeats
<1>5. ~copied => Extends(p, top)
  OBVIOUS
<1> HIDE DEF viaUnit, copied, own, parent, step
<1>6. ContextOf(CopyContext(viaUnit, own)) = ContextOf(own)
  BY <1>2 DEF HasContext, ContextOf, CopyContext
<1>7. ContextOf(UpdateContext(viaUnit, parent, step)) =
        [state |-> step.state, score |-> parent.context_score + step.score]
  BY <1>2 DEF HasContext, ContextOf, UpdateContext
<1>8. QED BY <1>3, <1>4, <1>5, <1>6, <1>7 DEF own, parent, step

LEMMA NextPrefixesFacts ==
    ASSUME PrefixesOfUnits, NEW top \in SUBSET (Units \cup {blank}), NEW p \in NextPrefixes(top)
    PROVE  p \in Seq(Units) /\ (p \in DOMAIN cur_hyps \/ Extends(p, top))
<1>1. CASE p \in DOMAIN cur_hyps
  BY <1>1 DEF PrefixesOfUnits
<1>2. CASE p \notin DOMAIN cur_hyps
  <2>1. PICK q \in DOMAIN cur_hyps, u \in top \ {blank} : p = Append(q, u)
    BY <1>2 DEF NextPrefixes
  <2>2. q \in Seq(Units) /\ u \in Units
    BY DEF PrefixesOfUnits
  <2>3. p # <<>> /\ Front(p) = q /\ Last(p) = u /\ p \in Seq(Units)
    BY <2>1, <2>2, AppendedFront
  <2>4. QED BY <2>3 DEF Extends
<1>3. QED BY <1>1, <1>2

LEMMA NextContextWalked ==
    ASSUME CtcInv, HotWords, NEW top \in SUBSET (Units \cup {blank}), NEW p \in NextPrefixes(top),
           NEW logp, NEW repeatFirst
    PROVE  ContextOf(NextScore(p, logp, top, repeatFirst)) = WalkOf(p, context_graph)
<1>1. PICK words \in HotWordLists : context_graph = GraphOf(words)
  BY DEF CtcInv, GraphBuilt, HotWords
<1>2. PrefixesOfUnits /\ \A q \in DOMAIN cur_hyps : ContextOf(cur_hyps[q]) = WalkOf(q, context_graph)
  BY DEF CtcInv, ContextsWalked
<1>3. p \in Seq(Units) /\ (p \in DOMAIN cur_hyps \/ Extends(p, top))
  BY <1>2, NextPrefixesFacts
<1> DEFINE next == ContextOf(NextScore(p, logp, top, repeatFirst))
           parent == cur_hyps[Front(p)]
           step == GetNextState(context_graph, parent.context_state, Last(p))
<1>4. \/ next = ContextOf(cur_hyps[p]) /\ (Extends(p, top) => p \in DOMAIN cur_hyps)
      \/ /\ next = [state |-> step.state, score |-> parent.context_score + step.score]
         /\ Extends(p, top)
  <2>1. context_graph # NoGraph
    BY DEF HotWords
  <2>2. QED BY <2>1, NextContextIs
<1> HIDE DEF next
<1>5. CASE next = ContextOf(cur_hyps[p]) /\ (Extends(p, top) => p \in DOMAIN cur_hyps)
  BY <1>2, <1>3, <1>5 DEF next
<1>6. CASE /\ next = [state |-> step.state, score |-> parent.context_score + step.score]
           /\ Extends(p, top)
  <2> DEFINE q == Front(p)
             u == Last(p)
             before == WalkOf(q, context_graph)
  <2>1. p # <<>> /\ q \in DOMAIN cur_hyps
    BY <1>6 DEF Extends
  <2>2. q \in Seq(Units) /\ u \in Units /\ p = Append(q, u)
    BY <1>3, <2>1, FrontFacts
  <2>3. ContextOf(parent) = before
    BY <1>2, <2>1
  <2> HIDE DEF q, u
  <2>4. before \in Steps(words)
    BY <1>1, <2>2, WalkIs
  <2>5. WalkOf(p, context_graph) = Added(GetNextState(context_graph, before.state, u), before)
    BY <1>1, <2>2, WalkIs
  <2>6. GetNextState(context_graph, before.state, u) \in Steps(words)
    <3>1. before.state \in NumStates(words)
      BY <2>4 DEF Steps
    <3> HIDE DEF before
    <3>2. QED BY <1>1, <2>2, <3>1, NextStateIs
  <2>7. parent.context_state = before.state /\ parent.context_score = before.score
    <3> HIDE DEF before, parent
    <3>1. QED BY <2>3 DEF ContextOf
  <2>8. step = GetNextState(context_graph, before.state, u)
    <3> HIDE DEF before, parent
    <3>1. QED BY <2>7 DEF step, u
  <2>9. before.score \in Int /\ step.score \in Int
    <3> HIDE DEF before, step
    <3>1. QED BY <2>4, <2>6, <2>8 DEF Steps
  <2> HIDE DEF before, step, parent
  <2>10. parent.context_score + step.score = step.score + before.score
    BY <2>7, <2>9
  <2>11. QED BY <1>6, <2>5, <2>8, <2>10 DEF Added, next
<1>7. QED BY <1>4, <1>5, <1>6

LEMMA InitCtcInv == CtcInit => CtcInv
<1> SUFFICES ASSUME CtcInit PROVE CtcInv
  OBVIOUS
<1>1. GraphBuilt
  <2>1. context_graph = NoGraph \/ \E c \in ContextSets : context_graph = BuildContextGraph(c)
    BY DEF CtcInit
  <2>2. QED BY <2>1, GraphIsBuilt DEF GraphBuilt
<1>2. cur_hyps = EmptyPrefix
  BY DEF CtcInit
<1>3. PrefixesOfUnits
  <2>1. <<>> \in Seq(Units)
    OBVIOUS
  <2>2. QED BY <1>2, <2>1, EmptyPrefixFacts DEF PrefixesOfUnits
<1>4. ContextsWalked
  <2>1. SUFFICES ASSUME HotWords PROVE ContextOf(cur_hyps[<<>>]) = WalkOf(<<>>, context_graph)
    BY <1>2, EmptyPrefixFacts DEF ContextsWalked
  <2>2. PICK words \in HotWordLists : context_graph = GraphOf(words)
    BY <1>1, <2>1 DEF GraphBuilt, HotWords
  <2>3. QED BY <1>2, <2>2, EmptyPrefixFacts, WalkIs
<1>5. QED BY <1>1, <1>3, <1>4 DEF CtcInv

LEMMA SearchFrameCtcInv ==
    ASSUME CtcInv, SearchFrame
    PROVE  CtcInv'
<1>1. context_graph' = context_graph /\ finalized' = finalized /\ ~finalized
  BY DEF SearchFrame
<1>2. PICK logp \in LogProbs :
        LET top == TopK(logp, opts.first_beam_size)
            prefixes == NextPrefixes(top)
            ordered == {p \in prefixes :
                            NextScore(p, logp, top, TRUE) # NextScore(p, logp, top, FALSE)}
        IN  \E first \in SUBSET ordered :
            LET next_hyps == [p \in prefixes |-> NextScore(p, logp, top, p \in first)]
            IN  \E kept \in SecondBeam(next_hyps, opts.second_beam_size) :
                cur_hyps' = Restrict(next_hyps, kept)
  <2> HIDE DEF CtcInv
  <2>1. QED BY DEF SearchFrame
<1> DEFINE top == TopK(logp, opts.first_beam_size)
           prefixes == NextPrefixes(top)
           ordered == {p \in prefixes :
                            NextScore(p, logp, top, TRUE) # NextScore(p, logp, top, FALSE)}
<1>3. PICK first \in SUBSET ordered :
        LET next_hyps == [p \in prefixes |-> NextScore(p, logp, top, p \in first)]
        IN  \E kept \in SecondBeam(next_hyps, opts.second_beam_size) :
            cur_hyps' = Restrict(next_hyps, kept)
  BY <1>2
<1>4. top \in SUBSET (Units \cup {blank})
  BY LogProbsAssumption DEF TopK
<1> HIDE DEF top, ordered
<1> DEFINE next_hyps == [p \in prefixes |-> NextScore(p, logp, top, p \in first)]
<1>5. PICK kept \in SecondBeam(next_hyps, opts.second_beam_size) : cur_hyps' = Restrict(next_hyps, kept)
  BY <1>3
<1>6. kept \subseteq prefixes
  <2>1. DOMAIN next_hyps = prefixes
    OBVIOUS
  <2> HIDE DEF next_hyps, prefixes
  <2>2. kept \subseteq DOMAIN next_hyps
    BY DEF SecondBeam, kSubset
  <2>3. QED BY <2>1, <2>2
<1>7. DOMAIN cur_hyps' = kept
  <2> HIDE DEF next_hyps
  <2>1. QED BY <1>5 DEF Restrict
<1>8. ASSUME NEW p \in kept PROVE p \in prefixes /\ cur_hyps'[p] = NextScore(p, logp, top, p \in first)
  <2>1. p \in prefixes
    BY <1>6
  <2>2. next_hyps[p] = NextScore(p, logp, top, p \in first)
    <3> HIDE DEF prefixes
    <3>1. QED BY <2>1
  <2> HIDE DEF next_hyps
  <2>3. cur_hyps'[p] = next_hyps[p]
    BY <1>5 DEF Restrict
  <2>4. QED BY <2>1, <2>2, <2>3
<1> HIDE DEF next_hyps
<1>9. GraphBuilt'
  BY <1>1 DEF CtcInv, GraphBuilt
<1>10. PrefixesOfUnits'
  <2>1. PrefixesOfUnits
    BY DEF CtcInv
  <2>2. \A p \in kept : p \in Seq(Units)
    BY <1>4, <1>8, <2>1, NextPrefixesFacts
  <2>3. QED BY <1>7, <2>2 DEF PrefixesOfUnits
<1>11. ContextsWalked'
  <2>1. SUFFICES ASSUME HotWords', NEW p \in kept
                 PROVE  ContextOf(cur_hyps'[p]) = WalkOf(p, context_graph')
    BY <1>7 DEF ContextsWalked, ContextOf
  <2>2. HotWords
    BY <1>1, <2>1 DEF HotWords
  <2> DEFINE b == p \in first
  <2> HIDE DEF b
  <2>3. ContextOf(NextScore(p, logp, top, b)) = WalkOf(p, context_graph)
    BY <1>4, <1>8, <2>2, NextContextWalked
  <2>4. cur_hyps'[p] = NextScore(p, logp, top, b)
    BY <1>8 DEF b
  <2>5. QED BY <1>1, <2>3, <2>4
<1>12. QED BY <1>9, <1>10, <1>11 DEF CtcInv

LEMMA NextCtcInv == CtcInv /\ [CtcNext]_ctc_vars => CtcInv'
<1> SUFFICES ASSUME CtcInv, [CtcNext]_ctc_vars PROVE CtcInv'
  OBVIOUS
<1>1. CASE SearchFrame
  BY <1>1, SearchFrameCtcInv
<1>2. CASE FinalizeSearch
  <2>1. finalized' = TRUE /\ context_graph' = context_graph
    BY <1>2 DEF FinalizeSearch
  <2>2. DOMAIN cur_hyps' = DOMAIN cur_hyps
    BY <1>2 DEF FinalizeSearch
  <2>3. GraphBuilt' /\ PrefixesOfUnits'
    BY <2>1, <2>2 DEF CtcInv, GraphBuilt, PrefixesOfUnits
  <2>4. ContextsWalked'
    BY <2>1 DEF ContextsWalked, HotWords
  <2>5. QED BY <2>3, <2>4 DEF CtcInv
<1>3. CASE CtcReset
  <2>1. cur_hyps' = EmptyPrefix /\ context_graph' = context_graph
    BY <1>3 DEF CtcReset
  <2>2. GraphBuilt /\ GraphBuilt'
    BY <2>1 DEF CtcInv, GraphBuilt
  <2>3. PrefixesOfUnits'
    <3>1. <<>> \in Seq(Units)
      OBVIOUS
    <3>2. QED BY <2>1, <3>1, EmptyPrefixFacts DEF PrefixesOfUnits
  <2>4. ContextsWalked'
    <3>1. SUFFICES ASSUME HotWords' PROVE ContextOf(cur_hyps'[<<>>]) = WalkOf(<<>>, context_graph')
      BY <2>1, EmptyPrefixFacts DEF ContextsWalked, ContextOf
    <3>2. PICK words \in HotWordLists : context_graph' = GraphOf(words)
      BY <2>1, <2>2, <3>1 DEF GraphBuilt, HotWords
    <3>3. QED BY <2>1, <3>2, EmptyPrefixFacts, WalkIs
  <2>5. QED BY <2>2, <2>3, <2>4 DEF CtcInv
<1>4. CASE UNCHANGED ctc_vars
  BY <1>4 DEF CtcInv, GraphBuilt, PrefixesOfUnits, ContextsWalked, HotWords, ContextOf, ctc_vars
<1>5. QED BY <1>1, <1>2, <1>3, <1>4 DEF CtcNext

LEMMA CtcInvRewards == CtcInv => RewardsBelongToPrefix
<1> SUFFICES ASSUME CtcInv PROVE RewardsBelongToPrefix
  OBVIOUS
<1>1. CASE ~HotWords
  BY <1>1 DEF RewardsBelongToPrefix, ContextByPrefix, UnfinishedMatchesAreRepaid, HotWordIsRewarded
<1>2. CASE HotWords
  <2>1. PICK words \in HotWordLists : context_graph = GraphOf(words)
    BY <1>2 DEF CtcInv, GraphBuilt, HotWords
  <2>2. context_graph.states = NumStates(words) /\ context_graph.finals = words
    BY <2>1 DEF GraphOf
  <2>3. ASSUME NEW p \in DOMAIN cur_hyps
        PROVE  /\ p \in Seq(Units) /\ ContextOf(cur_hyps[p]) = WalkOf(p, context_graph)
               /\ cur_hyps[p].context_state = WalkOf(p, context_graph).state
               /\ cur_hyps[p].context_score = WalkOf(p, context_graph).score
    <3>1. p \in Seq(Units) /\ ContextOf(cur_hyps[p]) = WalkOf(p, context_graph)
      BY <1>2 DEF CtcInv, PrefixesOfUnits, ContextsWalked
    <3>2. /\ ContextOf(cur_hyps[p]).state = cur_hyps[p].context_state
          /\ ContextOf(cur_hyps[p]).score = cur_hyps[p].context_score
      BY DEF ContextOf
    <3>3. QED BY <3>1, <3>2
  <2>4. ContextByPrefix
    <3>1. \A p : Walk(p) = WalkOf(p, context_graph)
      BY DEF Walk, WalkOf, IsWalk
    <3>2. QED BY <2>3, <3>1 DEF ContextByPrefix, ContextOf
  <2>5. UnfinishedMatchesAreRepaid
    <3>1. SUFFICES ASSUME NEW p \in DOMAIN cur_hyps, NoWholeHotWord(p)
                   PROVE  /\ cur_hyps[p].context_state = LongestMatch(p)
                          /\ cur_hyps[p].context_score = TotalWeight(LongestMatch(p))
      BY DEF UnfinishedMatchesAreRepaid
    <3>2. NoWhole(p, words)
      BY <2>2, <3>1 DEF NoWholeHotWord, NoWhole
    <3>3. LongestMatch(p) = MatchOf(p, words)
      BY <2>2 DEF LongestMatch, MatchOf, Match
    <3>4. WalkOf(p, context_graph) =
            [state |-> MatchOf(p, words), score |-> TotalWeight(MatchOf(p, words))]
      BY <2>1, <2>3, <3>2, WalkUnfinished
    <3>5. QED BY <2>3, <3>3, <3>4
  <2>6. HotWordIsRewarded
    <3>1. SUFFICES ASSUME NEW p \in DOMAIN cur_hyps, NEW c \in words, IsSuffix(c, p),
                          Separate(words) \/ NoWholeHotWord(Front(p))
                   PROVE  cur_hyps[p].context_score >= TotalWeight(c)
      BY <2>2 DEF HotWordIsRewarded
    <3>2. Separate(words) \/ NoWhole(Front(p), words)
      BY <2>2, <3>1 DEF NoWholeHotWord, NoWhole
    <3>3. WalkOf(p, context_graph).score >= TotalWeight(c)
      BY <2>1, <2>3, <3>1, <3>2, RewardInFull
    <3>4. QED BY <2>3, <3>3
  <2>7. QED BY <2>4, <2>5, <2>6 DEF RewardsBelongToPrefix
<1>3. QED BY <1>1, <1>2

\* A hypothesis of the prefix search has the state and the reward of its own
\* prefix, a match that was given up has left nothing behind, however matches
\* overlapped, and a whole hot word has been rewarded in full (Search,
\* UpdateContext and the failure states of ConvertToAC), for every list of hot
\* words, both beams, all frames and every order of the hash map.
THEOREM RewardsAreThePrefixes == CtcSpec => []RewardsBelongToPrefix
<1>1. CtcInit => CtcInv
  BY InitCtcInv
<1>2. CtcInv /\ [CtcNext]_ctc_vars => CtcInv'
  BY NextCtcInv
<1>3. CtcInv => RewardsBelongToPrefix
  BY CtcInvRewards
<1>4. QED BY <1>1, <1>2, <1>3, PTL DEF CtcSpec

(***************************************************************************)
(* Frames that are skipped.                                                *)
(***************************************************************************)
BeginsAt(al, i) == al[i] # Blank /\ (i = 1 \/ al[i] # al[i - 1])

IsStarts(starts, al) ==
    starts = [cur \in 0 .. Len(al) |->
                IF cur = 0 THEN <<>>
                ELSE IF al[cur] # Blank /\ (cur = 1 \/ al[cur] # al[cur - 1])
                THEN Append(starts[cur - 1], cur)
                ELSE starts[cur - 1]]

StartsOf(al) == CHOOSE starts : IsStarts(starts, al)

LEMMA StartsExist ==
    ASSUME NEW S, NEW al \in Seq(S)
    PROVE  /\ Starts(al) = StartsOf(al)[Len(al)]
           /\ StartsOf(al)[0] = <<>>
           /\ \A i \in 1 .. Len(al) :
                StartsOf(al)[i] = IF BeginsAt(al, i) THEN Append(StartsOf(al)[i - 1], i)
                                  ELSE StartsOf(al)[i - 1]
           /\ \A i \in 0 .. Len(al) : StartsOf(al)[i] \in Seq(1 .. Len(al))
<1>1. PICK n \in Nat : n = Len(al)
  OBVIOUS
<1> DEFINE V == Seq(1 .. n)
           Right(f) == IsStarts(f, al)
<1>2. \E f : Right(f) /\ \A i \in 0 .. n : f[i] \in V
  <2> DEFINE D == 0 .. n
             rank == [i \in D |-> i]
             stop == {0}
             base == [i \in D |-> <<>>]
             prev == [i \in D |-> IF i = 0 THEN 0 ELSE i - 1]
             step == [i \in D |-> [v \in V |->
                        IF i # 0 /\ BeginsAt(al, i) THEN Append(v, i) ELSE v]]
  <2>1. rank \in [D -> Nat] /\ base \in [D -> V]
    OBVIOUS
  <2>2. prev \in [D -> D]
    OBVIOUS
  <2>3. step \in [D -> [V -> V]]
    <3>1. ASSUME NEW i \in D, NEW v \in V
          PROVE  (IF i # 0 /\ BeginsAt(al, i) THEN Append(v, i) ELSE v) \in V
      <4>1. i # 0 => i \in 1 .. n
        OBVIOUS
      <4>2. i # 0 => Append(v, i) \in V
        BY <4>1
      <4>3. QED BY <4>2
    <3> HIDE DEF V
    <3>2. QED BY <3>1
  <2>4. GetsSmaller(D, rank, stop, prev)
    BY DEF GetsSmaller
  <2>5. \A i \in D : /\ base[i] = <<>>
                     /\ i # 0 => prev[i] = i - 1 /\ i - 1 \in D
                     /\ \A v \in V : i # 0 =>
                            step[i][v] = IF BeginsAt(al, i) THEN Append(v, i) ELSE v
    <3> HIDE DEF V
    <3>1. QED OBVIOUS
  <2> HIDE DEF rank, base, prev, step, stop, V
  <2>6. PICK f : IsRecursive(f, D, V, stop, base, prev, step)
    BY <2>1, <2>2, <2>3, <2>4, Recursion
  <2>7. \A i \in D : f[i] \in V
    BY <2>6 DEF IsRecursive
  <2>8. ASSUME NEW i \in D
        PROVE  f[i] = IF i = 0 THEN <<>>
                      ELSE IF BeginsAt(al, i) THEN Append(f[i - 1], i)
                      ELSE f[i - 1]
    <3>1. CASE i = 0
      BY <2>5, <2>6, <3>1 DEF IsRecursive, stop
    <3>2. CASE i # 0
      <4>1. prev[i] = i - 1 /\ i - 1 \in D /\ f[i - 1] \in V
        BY <2>5, <2>7, <3>2
      <4>2. f[i] = step[i][f[i - 1]]
        BY <2>6, <3>2, <4>1 DEF IsRecursive, stop
      <4>3. QED BY <2>5, <3>2, <4>1, <4>2
    <3>3. QED BY <3>1, <3>2
  <2>9. f = [i \in D |-> f[i]]
    BY <2>6 DEF IsRecursive
  <2>10. Right(f)
    BY <1>1, <2>8, <2>9 DEF IsStarts, BeginsAt
  <2> HIDE DEF Right
  <2>11. QED BY <2>7, <2>10
<1> DEFINE starts == CHOOSE f : Right(f)
<1>3. Right(starts)
  <2> HIDE DEF Right
  <2>1. QED BY <1>2
<1>4. ASSUME NEW i \in 0 .. n
      PROVE  starts[i] = IF i = 0 THEN <<>>
                         ELSE IF BeginsAt(al, i) THEN Append(starts[i - 1], i)
                         ELSE starts[i - 1]
  <2> HIDE DEF starts
  <2>1. QED BY <1>1, <1>3 DEF IsStarts, BeginsAt
<1> HIDE DEF starts
<1> DEFINE Typed == {i \in Nat : i \in 0 .. n => starts[i] \in V}
<1>5. ASSUME NEW k \in Nat, \A j \in 0 .. k - 1 : j \in Typed PROVE k \in Typed
  <2>1. SUFFICES ASSUME k \in 0 .. n PROVE starts[k] \in V
    OBVIOUS
  <2>2. CASE k = 0
    <3>1. starts[k] = <<>>
      BY <1>4, <2>1, <2>2
    <3>2. QED BY <3>1
  <2>3. CASE k # 0
    <3>1. k - 1 \in 0 .. k - 1 /\ k - 1 \in 0 .. n /\ k \in 1 .. n
      BY <2>1, <2>3
    <3>2. starts[k - 1] \in V
      BY <1>5, <3>1
    <3>3. Append(starts[k - 1], k) \in V
      BY <3>1, <3>2
    <3> HIDE DEF V
    <3>4. QED BY <1>4, <2>1, <2>3, <3>2, <3>3
  <2>4. QED BY <2>2, <2>3
<1>6. \A k \in Nat : k \in Typed
  <2> HIDE DEF Typed
  <2>1. QED BY <1>5, StrongInduction
<1>7. \A i \in 0 .. n : starts[i] \in V
  <2> HIDE DEF V
  <2>1. QED BY <1>6
<1>8. starts = StartsOf(al)
  BY DEF starts, StartsOf
<1>9. Starts(al) = starts[n]
  BY <1>1, <1>8 DEF Starts, StartsOf, IsStarts
<1>10. starts[0] = <<>>
  <2>1. 0 \in 0 .. n
    OBVIOUS
  <2>2. QED BY <1>4, <2>1
<1>11. ASSUME NEW i \in 1 .. n
       PROVE  starts[i] = IF BeginsAt(al, i) THEN Append(starts[i - 1], i) ELSE starts[i - 1]
  <2>1. i \in 0 .. n /\ i # 0
    OBVIOUS
  <2>2. QED BY <1>4, <2>1
<1> HIDE DEF V
<1>12. QED BY <1>1, <1>7, <1>8, <1>9, <1>10, <1>11 DEF V

LEMMA StartsAre ==
    ASSUME NEW S
    PROVE  /\ Starts(<<>>) = <<>>
           /\ \A al \in Seq(S) : Starts(al) \in Seq(1 .. Len(al))
           /\ \A al \in Seq(S) : \A x \in S :
                Starts(Append(al, x)) =
                    IF x # Blank /\ (al = <<>> \/ x # al[Len(al)])
                    THEN Append(Starts(al), Len(al) + 1)
                    ELSE Starts(al)
<1>1. Starts(<<>>) = <<>>
  <2>1. <<>> \in Seq(S) /\ Len(<<>>) = 0
    OBVIOUS
  <2>2. QED BY <2>1, StartsExist
<1>2. ASSUME NEW al \in Seq(S) PROVE Starts(al) \in Seq(1 .. Len(al))
  <2>1. Len(al) \in 0 .. Len(al)
    OBVIOUS
  <2>2. QED BY <2>1, StartsExist
<1>3. ASSUME NEW al \in Seq(S), NEW x \in S
      PROVE  Starts(Append(al, x)) =
                IF x # Blank /\ (al = <<>> \/ x # al[Len(al)])
                THEN Append(Starts(al), Len(al) + 1)
                ELSE Starts(al)
  <2>1. PICK n \in Nat : n = Len(al)
    OBVIOUS
  <2> DEFINE ax == Append(al, x)
  <2>2. /\ ax \in Seq(S) /\ Len(ax) = n + 1 /\ ax[n + 1] = x
        /\ \A i \in 1 .. n : ax[i] = al[i]
    BY <2>1
  <2>3. al = <<>> <=> n = 0
    BY <2>1
  <2> HIDE DEF ax
  <2> DEFINE f == StartsOf(al)
             g == StartsOf(ax)
  <2>4. /\ Starts(al) = f[n] /\ f[0] = <<>>
        /\ \A i \in 1 .. n : f[i] = IF BeginsAt(al, i) THEN Append(f[i - 1], i) ELSE f[i - 1]
    BY <2>1, StartsExist
  <2>5. /\ Starts(ax) = g[n + 1] /\ g[0] = <<>>
        /\ \A i \in 1 .. n + 1 : g[i] = IF BeginsAt(ax, i) THEN Append(g[i - 1], i) ELSE g[i - 1]
    BY <2>2, StartsExist
  <2> HIDE DEF f, g
  <2> DEFINE Same == {i \in Nat : i \in 0 .. n => g[i] = f[i]}
  <2>6. ASSUME NEW k \in Nat, \A j \in 0 .. k - 1 : j \in Same PROVE k \in Same
    <3>1. SUFFICES ASSUME k \in 0 .. n PROVE g[k] = f[k]
      OBVIOUS
    <3>2. CASE k = 0
      BY <2>4, <2>5, <3>2
    <3>3. CASE k # 0
      <4>1. /\ k - 1 \in 0 .. k - 1 /\ k - 1 \in 0 .. n /\ k \in 1 .. n /\ k \in 1 .. n + 1
            /\ k # 1 => k - 1 \in 1 .. n
        BY <3>1, <3>3
      <4>2. g[k - 1] = f[k - 1]
        BY <2>6, <4>1
      <4>3. BeginsAt(ax, k) <=> BeginsAt(al, k)
        BY <2>2, <4>1 DEF BeginsAt
      <4>4. QED BY <2>4, <2>5, <4>1, <4>2, <4>3
    <3>4. QED BY <3>2, <3>3
  <2>7. \A k \in Nat : k \in Same
    <3> HIDE DEF Same
    <3>1. QED BY <2>6, StrongInduction
  <2>8. g[n] = f[n]
    <3>1. n \in Same /\ n \in 0 .. n
      BY <2>7
    <3>2. QED BY <3>1
  <2>9. BeginsAt(ax, n + 1) <=> x # Blank /\ (al = <<>> \/ x # al[n])
    <3>1. (n + 1) - 1 = n /\ (n + 1 = 1 <=> n = 0) /\ (n # 0 => n \in 1 .. n)
      OBVIOUS
    <3>2. QED BY <2>2, <2>3, <3>1 DEF BeginsAt
  <2>10. g[n + 1] = IF BeginsAt(ax, n + 1) THEN Append(g[n], n + 1) ELSE g[n]
    <3>1. n + 1 \in 1 .. n + 1 /\ (n + 1) - 1 = n
      OBVIOUS
    <3>2. QED BY <2>5, <3>1
  <2>11. QED BY <2>1, <2>4, <2>5, <2>8, <2>9, <2>10 DEF ax
<1>4. QED BY <1>1, <1>2, <1>3

\* In step: what begins in the one begins in the other, and mapping has the places.
Paired(A, P, mapping) ==
    /\ Len(Starts(A)) = Len(Starts(P))
    /\ \A k \in 1 .. Len(Starts(A)) :
            /\ A[Starts(A)[k]] = P[Starts(P)[k]]
            /\ mapping[Starts(A)[k]] = Starts(P)[k] - 1

BeginsAfter(al, x) == x # Blank /\ (al = <<>> \/ x # al[Len(al)])

LEMMA StartsStay ==
    ASSUME NEW S
    PROVE  \A al \in Seq(S) : \A x \in S : \A k \in 1 .. Len(Starts(al)) :
                /\ Starts(al)[k] \in 1 .. Len(al)
                /\ Append(al, x)[Starts(al)[k]] = al[Starts(al)[k]]
<1>1. SUFFICES ASSUME NEW al \in Seq(S), NEW x \in S, NEW k \in 1 .. Len(Starts(al))
               PROVE  /\ Starts(al)[k] \in 1 .. Len(al)
                      /\ Append(al, x)[Starts(al)[k]] = al[Starts(al)[k]]
  OBVIOUS
<1>2. Starts(al) \in Seq(1 .. Len(al))
  BY StartsAre
<1>3. Starts(al)[k] \in 1 .. Len(al)
  BY <1>2
<1>4. QED BY <1>3

LEMMA PairedSkip ==
    ASSUME NEW S, Blank \in S, NEW A \in Seq(S), NEW P \in Seq(S), NEW mapping,
           Paired(A, P, mapping)
    PROVE  Paired(A, Append(P, Blank), mapping)
<1>1. Starts(Append(P, Blank)) = Starts(P)
  BY StartsAre
<1>2. \A k \in 1 .. Len(Starts(P)) : Append(P, Blank)[Starts(P)[k]] = P[Starts(P)[k]]
  BY StartsStay
<1>3. QED BY <1>1, <1>2 DEF Paired

LEMMA PairedGivenBack ==
    ASSUME NEW S, Blank \in S, NEW A \in Seq(S), NEW P \in Seq(S), NEW mapping \in Seq(Int),
           Len(mapping) = Len(A), NEW m \in Int, Paired(A, P, mapping)
    PROVE  Paired(Append(A, Blank), P, Append(mapping, m))
<1>1. Starts(Append(A, Blank)) = Starts(A)
  BY StartsAre
<1>2. \A k \in 1 .. Len(Starts(A)) : /\ Append(A, Blank)[Starts(A)[k]] = A[Starts(A)[k]]
                                     /\ Starts(A)[k] \in 1 .. Len(A)
  BY StartsStay
<1>3. \A i \in 1 .. Len(A) : Append(mapping, m)[i] = mapping[i]
  OBVIOUS
<1>4. QED BY <1>1, <1>2, <1>3 DEF Paired

LEMMA PairedBoth ==
    ASSUME NEW S, NEW x \in S, NEW A \in Seq(S), NEW P \in Seq(S), NEW mapping \in Seq(Int),
           Len(mapping) = Len(A), Paired(A, P, mapping),
           BeginsAfter(A, x) <=> BeginsAfter(P, x)
    PROVE  Paired(Append(A, x), Append(P, x), Append(mapping, Len(P)))
<1> DEFINE Ax == Append(A, x)
           Px == Append(P, x)
           mx == Append(mapping, Len(P))
<1>1. PICK a : a = Starts(A)
  OBVIOUS
<1>2. PICK p : p = Starts(P)
  OBVIOUS
<1>3. a \in Seq(1 .. Len(A)) /\ p \in Seq(1 .. Len(P))
  BY <1>1, <1>2, StartsAre
<1>4. PICK n \in Nat : n = Len(a)
  BY <1>3
<1>5. /\ Len(p) = n
      /\ \A k \in 1 .. n : A[a[k]] = P[p[k]] /\ mapping[a[k]] = p[k] - 1
  BY <1>1, <1>2, <1>4 DEF Paired
<1>6. \A k \in 1 .. n : /\ Ax[a[k]] = A[a[k]] /\ a[k] \in 1 .. Len(A)
                        /\ Px[p[k]] = P[p[k]]
  <2>1. n = Len(a) /\ n = Len(p)
    BY <1>4, <1>5
  <2>2. \A k \in 1 .. Len(a) : Ax[a[k]] = A[a[k]] /\ a[k] \in 1 .. Len(A)
    BY <1>1, StartsStay
  <2>3. \A k \in 1 .. Len(p) : Px[p[k]] = P[p[k]]
    BY <1>2, StartsStay
  <2> HIDE DEF Ax, Px
  <2>4. QED BY <2>1, <2>2, <2>3
<1>7. \A i \in 1 .. Len(A) : mx[i] = mapping[i]
  OBVIOUS
<1>8. Ax[Len(A) + 1] = x /\ Px[Len(P) + 1] = x /\ mx[Len(A) + 1] = Len(P)
  OBVIOUS
<1>9. Len(A) \in Nat /\ Len(P) \in Nat
  OBVIOUS
<1>10. /\ Starts(Ax) = IF BeginsAfter(A, x) THEN Append(a, Len(A) + 1) ELSE a
       /\ Starts(Px) = IF BeginsAfter(P, x) THEN Append(p, Len(P) + 1) ELSE p
  BY <1>1, <1>2, StartsAre DEF BeginsAfter
<1> HIDE DEF Ax, Px, mx
<1>11. CASE BeginsAfter(A, x)
  <2>1. /\ Len(Append(a, Len(A) + 1)) = n + 1 /\ Append(a, Len(A) + 1)[n + 1] = Len(A) + 1
        /\ \A k \in 1 .. n : Append(a, Len(A) + 1)[k] = a[k]
    BY <1>3, <1>4
  <2>2. /\ Len(Append(p, Len(P) + 1)) = n + 1 /\ Append(p, Len(P) + 1)[n + 1] = Len(P) + 1
        /\ \A k \in 1 .. n : Append(p, Len(P) + 1)[k] = p[k]
    BY <1>3, <1>5
  <2>3. PICK ax : ax = Append(a, Len(A) + 1)
    OBVIOUS
  <2>4. PICK px : px = Append(p, Len(P) + 1)
    OBVIOUS
  <2>5. /\ Len(ax) = n + 1 /\ ax[n + 1] = Len(A) + 1 /\ \A k \in 1 .. n : ax[k] = a[k]
        /\ Len(px) = n + 1 /\ px[n + 1] = Len(P) + 1 /\ \A k \in 1 .. n : px[k] = p[k]
    BY <2>1, <2>2, <2>3, <2>4
  <2>6. ASSUME NEW k \in 1 .. n + 1
        PROVE  Ax[ax[k]] = Px[px[k]] /\ mx[ax[k]] = px[k] - 1
    <3>1. k \in 1 .. n \/ k = n + 1
      OBVIOUS
    <3>2. CASE k = n + 1
      BY <1>8, <1>9, <2>5, <3>2
    <3>3. CASE k \in 1 .. n
      <4>1. ax[k] = a[k] /\ px[k] = p[k]
        BY <2>5, <3>3
      <4>2. Ax[a[k]] = A[a[k]] /\ a[k] \in 1 .. Len(A) /\ Px[p[k]] = P[p[k]]
        BY <1>6, <3>3
      <4>3. A[a[k]] = P[p[k]] /\ mapping[a[k]] = p[k] - 1
        BY <1>5, <3>3
      <4>4. mx[a[k]] = mapping[a[k]]
        BY <1>7, <4>2
      <4>5. QED BY <4>1, <4>2, <4>3, <4>4
    <3>4. QED BY <3>1, <3>2, <3>3
  <2>7. Starts(Ax) = ax /\ Starts(Px) = px
    BY <1>10, <1>11, <2>3, <2>4
  <2>8. QED BY <2>5, <2>6, <2>7 DEF Paired, Ax, Px, mx
<1>12. CASE ~BeginsAfter(A, x)
  <2>1. Starts(Ax) = a /\ Starts(Px) = p
    BY <1>10, <1>12
  <2>2. ASSUME NEW k \in 1 .. n
        PROVE  Ax[a[k]] = Px[p[k]] /\ mx[a[k]] = p[k] - 1
    <3>1. A[a[k]] = P[p[k]] /\ mapping[a[k]] = p[k] - 1
      BY <1>5
    <3>2. Ax[a[k]] = A[a[k]] /\ a[k] \in 1 .. Len(A) /\ Px[p[k]] = P[p[k]]
      BY <1>6
    <3>3. mx[a[k]] = mapping[a[k]]
      BY <1>7, <3>2
    <3>4. QED BY <3>1, <3>2, <3>3
  <2>3. Paired(Ax, Px, mx)
    BY <1>4, <1>5, <2>1, <2>2 DEF Paired
  <2>4. QED BY <2>3 DEF Ax, Px, mx
<1>13. QED BY <1>11, <1>12

\* The symbols of an alignment.
Symbols == {BestUnit(logp) : logp \in Loglikes} \cup {Blank}

FramesTypes ==
    /\ heard \in Seq(Loglikes) /\ num_frames = Len(heard)
    /\ accepted \in Seq(Loglikes)
    /\ decoded_frames_mapping \in Seq(Int)
    /\ Len(decoded_frames_mapping) = Len(accepted)
    /\ is_last_frame_blank \in BOOLEAN

NumberedIn(known, given, mapping) ==
    \A i \in 1 .. Len(given) :
        /\ mapping[i] \in 0 .. Len(known) - 1
        /\ given[i] = known[mapping[i] + 1]
        /\ i > 1 => mapping[i - 1] < mapping[i]

Numbered == NumberedIn(heard, accepted, decoded_frames_mapping)

\* What Search remembers of the last frame it was given and of the last one it heard.
LastAccepted ==
    IF accepted = <<>> THEN last_best = 0
    ELSE BestUnit(accepted[Len(accepted)]) = last_best

LastHeard ==
    IF is_last_frame_blank
    THEN /\ heard # <<>>
         /\ last_frame_prob = heard[Len(heard)] /\ IsSkipped(last_frame_prob)
         /\ accepted # <<>> => decoded_frames_mapping[Len(accepted)] < Len(heard) - 1
    ELSE /\ heard = <<>> <=> accepted = <<>>
         /\ heard # <<>> => /\ ~IsSkipped(heard[Len(heard)])
                            /\ BestUnit(heard[Len(heard)]) = last_best

InStep == Paired(AcceptedBest, Plain, decoded_frames_mapping)

FramesInv == FramesTypes /\ Numbered /\ LastAccepted /\ LastHeard /\ InStep

\* A sequence, each element mapped by F.
Mapped(F, s) == [i \in DOMAIN s |-> F[s[i]]]

LEMMA MappedAre ==
    \A F \in [Loglikes -> Symbols] : \A s \in Seq(Loglikes) :
        /\ Mapped(F, s) \in Seq(Symbols) /\ Len(Mapped(F, s)) = Len(s)
        /\ \A i \in 1 .. Len(s) : Mapped(F, s)[i] = F[s[i]]
<1> SUFFICES ASSUME NEW F \in [Loglikes -> Symbols], NEW s \in Seq(Loglikes)
             PROVE  /\ Mapped(F, s) \in Seq(Symbols) /\ Len(Mapped(F, s)) = Len(s)
                    /\ \A i \in 1 .. Len(s) : Mapped(F, s)[i] = F[s[i]]
  OBVIOUS
<1>1. PICK n \in Nat : n = Len(s)
  OBVIOUS
<1> DEFINE Fs == [i \in DOMAIN s |-> F[s[i]]]
<1>2. DOMAIN s = 1 .. n
  BY <1>1
<1>3. \A i \in 1 .. n : s[i] \in Loglikes
  BY <1>1
<1>4. \A i \in 1 .. n : F[s[i]] \in Symbols
  BY <1>3
<1>5. Fs \in [1 .. n -> Symbols]
  BY <1>2, <1>4
<1>6. \A i \in 1 .. n : Fs[i] = F[s[i]]
  BY <1>2
<1> HIDE DEF Fs
<1>7. Fs \in Seq(Symbols) /\ Len(Fs) = n
  BY <1>5
<1>8. QED BY <1>1, <1>6, <1>7 DEF Fs, Mapped

LEMMA MappedAppend ==
    \A F \in [Loglikes -> Symbols] : \A s \in Seq(Loglikes) : \A x \in Loglikes :
        Mapped(F, Append(s, x)) = Append(Mapped(F, s), F[x])
<1> SUFFICES ASSUME NEW F \in [Loglikes -> Symbols], NEW s \in Seq(Loglikes), NEW x \in Loglikes
             PROVE  Mapped(F, Append(s, x)) = Append(Mapped(F, s), F[x])
  OBVIOUS
<1>1. PICK n \in Nat : n = Len(s)
  OBVIOUS
<1>2. PICK sx : sx = Append(s, x)
  OBVIOUS
<1>3. /\ sx \in Seq(Loglikes) /\ Len(sx) = n + 1 /\ sx[n + 1] = x
      /\ \A i \in 1 .. n : sx[i] = s[i]
  BY <1>1, <1>2
<1>4. \A q \in Seq(Loglikes) : /\ Mapped(F, q) \in Seq(Symbols) /\ Len(Mapped(F, q)) = Len(q)
                        /\ \A i \in 1 .. Len(q) : Mapped(F, q)[i] = F[q[i]]
  BY MappedAre
<1> DEFINE Fs == Mapped(F, s)
           Fsx == Mapped(F, sx)
<1> HIDE DEF Fs, Fsx
<1>5. Fs \in Seq(Symbols) /\ Len(Fs) = n /\ \A i \in 1 .. n : Fs[i] = F[s[i]]
  BY <1>1, <1>4 DEF Fs
<1>6. Fsx \in Seq(Symbols) /\ Len(Fsx) = n + 1 /\ \A i \in 1 .. n + 1 : Fsx[i] = F[sx[i]]
  <2>1. sx \in Seq(Loglikes) /\ Len(sx) = n + 1
    BY <1>3
  <2>2. /\ Fsx \in Seq(Symbols) /\ Len(Fsx) = Len(sx)
        /\ \A i \in 1 .. Len(sx) : Fsx[i] = F[sx[i]]
    BY <1>4, <2>1 DEF Fsx
  <2>3. QED BY <2>1, <2>2
<1>7. F[x] \in Symbols
  OBVIOUS
<1>8. /\ Append(Fs, F[x]) \in Seq(Symbols) /\ Len(Append(Fs, F[x])) = n + 1
      /\ \A i \in 1 .. n : Append(Fs, F[x])[i] = Fs[i]
      /\ Append(Fs, F[x])[n + 1] = F[x]
  BY <1>5, <1>7
<1>9. \A i \in 1 .. n + 1 : i \in 1 .. n \/ i = n + 1
  OBVIOUS
<1>10. \A i \in 1 .. Len(Fsx) : Fsx[i] = Append(Fs, F[x])[i]
  <2>1. SUFFICES ASSUME NEW i \in 1 .. n + 1 PROVE Fsx[i] = Append(Fs, F[x])[i]
    BY <1>6
  <2>2. CASE i \in 1 .. n
    BY <1>3, <1>5, <1>6, <1>8, <2>1, <2>2
  <2>3. CASE i = n + 1
    BY <1>3, <1>6, <1>8, <2>1, <2>3
  <2>4. QED BY <1>9, <2>2, <2>3
<1>11. QED BY <1>2, <1>5, <1>6, <1>8, <1>10, SeqEqual DEF Fs, Fsx

\* What Search makes of a frame: its best unit, or the blank.
BestUnitOf == [logp \in Loglikes |-> BestUnit(logp)]
PlainUnitOf == [logp \in Loglikes |-> IF IsSkipped(logp) THEN Blank ELSE BestUnit(logp)]

LEMMA UnitsTyped ==
    BestUnitOf \in [Loglikes -> Symbols] /\ PlainUnitOf \in [Loglikes -> Symbols]
BY DEF BestUnitOf, PlainUnitOf, Symbols

LEMMA FramesMapped ==
    ASSUME NEW s \in Seq(Loglikes)
    PROVE  /\ [i \in DOMAIN s |-> IF IsSkipped(s[i]) THEN Blank ELSE BestUnit(s[i])]
                 = Mapped(PlainUnitOf, s)
           /\ [i \in DOMAIN s |-> BestUnit(s[i])] = Mapped(BestUnitOf, s)
<1>1. DOMAIN s = 1 .. Len(s) /\ \A i \in 1 .. Len(s) : s[i] \in Loglikes
  OBVIOUS
<1>2. QED BY <1>1 DEF Mapped, PlainUnitOf, BestUnitOf

LEMMA NumberedLonger ==
    ASSUME NEW known \in Seq(Loglikes), NEW given \in Seq(Loglikes), NEW mapping \in Seq(Int),
           NumberedIn(known, given, mapping), NEW logp \in Loglikes
    PROVE  NumberedIn(Append(known, logp), given, mapping)
<1>1. PICK n \in Nat : n = Len(known)
  OBVIOUS
<1>2. PICK more : more = Append(known, logp)
  OBVIOUS
<1>3. Len(more) = n + 1 /\ \A i \in 1 .. n : more[i] = known[i]
  BY <1>1, <1>2
<1>4. ASSUME NEW i \in 1 .. Len(given)
      PROVE  /\ mapping[i] \in 0 .. Len(more) - 1
             /\ given[i] = more[mapping[i] + 1]
             /\ i > 1 => mapping[i - 1] < mapping[i]
  <2>1. /\ mapping[i] \in 0 .. n - 1
        /\ given[i] = known[mapping[i] + 1]
        /\ i > 1 => mapping[i - 1] < mapping[i]
    BY <1>1 DEF NumberedIn
  <2>2. mapping[i] + 1 \in 1 .. n /\ mapping[i] \in 0 .. (n + 1) - 1
    <3>1. \A j \in 0 .. n - 1 : j + 1 \in 1 .. n /\ j \in 0 .. (n + 1) - 1
      OBVIOUS
    <3>2. QED BY <2>1, <3>1
  <2>3. more[mapping[i] + 1] = known[mapping[i] + 1]
    BY <1>3, <2>2
  <2>4. QED BY <1>3, <2>1, <2>2, <2>3
<1>5. NumberedIn(more, given, mapping)
  BY <1>4 DEF NumberedIn
<1>6. QED BY <1>2, <1>5

\* A frame given to the decoder under the number it was heard with, which is above
\* all numbers so far.
LEMMA NumberedGiven ==
    ASSUME NEW known \in Seq(Loglikes), NEW given \in Seq(Loglikes), NEW mapping \in Seq(Int),
           Len(mapping) = Len(given), NumberedIn(known, given, mapping),
           NEW number \in 0 .. Len(known) - 1,
           Len(given) > 0 => mapping[Len(given)] < number
    PROVE  NumberedIn(known, Append(given, known[number + 1]), Append(mapping, number))
<1>1. PICK m \in Nat : m = Len(given)
  OBVIOUS
<1>2. known[number + 1] \in Loglikes
  OBVIOUS
<1>3. PICK x : x = known[number + 1]
  OBVIOUS
<1>4. PICK gx : gx = Append(given, x)
  OBVIOUS
<1>5. PICK mx : mx = Append(mapping, number)
  OBVIOUS
<1>6. gx[m + 1] = x /\ \A i \in 1 .. m : gx[i] = given[i]
  BY <1>1, <1>2, <1>3, <1>4
<1>7. mx[m + 1] = number /\ \A i \in 1 .. m : mx[i] = mapping[i]
  BY <1>1, <1>5
<1>8. ASSUME NEW i \in 1 .. m + 1
      PROVE  /\ mx[i] \in 0 .. Len(known) - 1
             /\ gx[i] = known[mx[i] + 1]
             /\ i > 1 => mx[i - 1] < mx[i]
  <2>1. CASE i \in 1 .. m
    <3>1. /\ mapping[i] \in 0 .. Len(known) - 1
          /\ given[i] = known[mapping[i] + 1]
          /\ i > 1 => mapping[i - 1] < mapping[i]
      BY <1>1, <2>1 DEF NumberedIn
    <3>2. mx[i] = mapping[i] /\ gx[i] = given[i]
      BY <1>6, <1>7, <2>1
    <3>3. i > 1 => i - 1 \in 1 .. m
      BY <2>1
    <3>4. i > 1 => mx[i - 1] = mapping[i - 1]
      BY <1>7, <3>3
    <3>5. QED BY <3>1, <3>2, <3>4
  <2>2. CASE i = m + 1
    <3>1. i > 1 => m > 0 /\ i - 1 = m /\ m \in 1 .. m
      BY <2>2
    <3>2. i > 1 => mx[i - 1] = mapping[m]
      BY <1>7, <3>1
    <3>3. i > 1 => mapping[m] < number
      BY <1>1, <3>1
    <3>4. mx[i] = number /\ gx[i] = x
      BY <1>6, <1>7, <2>2
    <3>5. QED BY <1>3, <3>2, <3>3, <3>4
  <2>3. QED BY <2>1, <2>2
<1>9. Len(gx) = m + 1
  BY <1>1, <1>2, <1>3, <1>4
<1>10. NumberedIn(known, gx, mx)
  BY <1>8, <1>9 DEF NumberedIn
<1>11. QED BY <1>3, <1>4, <1>5, <1>10

LEMMA InitFramesInv ==
    ASSUME heard = <<>>, accepted = <<>>, decoded_frames_mapping = <<>>, num_frames = 0,
           is_last_frame_blank = FALSE, last_best = 0
    PROVE  FramesInv
<1>1. FramesTypes
  <2>1. <<>> \in Seq(Loglikes) /\ <<>> \in Seq(Int) /\ Len(<<>>) = 0
    OBVIOUS
  <2>2. is_last_frame_blank \in BOOLEAN
    OBVIOUS
  <2>3. QED BY <2>1, <2>2 DEF FramesTypes
<1>2. Numbered /\ LastAccepted /\ LastHeard
  BY DEF Numbered, NumberedIn, LastAccepted, LastHeard
<1>3. Plain = <<>> /\ AcceptedBest = <<>>
  BY DEF Plain, AcceptedBest
<1>4. InStep
  <2>1. Starts(<<>>) = <<>>
    BY StartsAre
  <2>2. QED BY <1>3, <2>1 DEF InStep, Paired
<1>5. QED BY <1>1, <1>2, <1>4 DEF FramesInv

LEMMA SkipFramesInv ==
    ASSUME FramesInv, NEW logp \in Loglikes, HearFrame(logp), IsSkipped(logp)
    PROVE  FramesInv'
<1>1. /\ is_last_frame_blank' = TRUE /\ last_frame_prob' = logp /\ last_best' = last_best
      /\ accepted' = accepted /\ decoded_frames_mapping' = decoded_frames_mapping
      /\ heard' = Append(heard, logp) /\ num_frames' = num_frames + 1
  BY DEF HearFrame, Skip
<1>2. FramesTypes /\ Numbered /\ LastAccepted /\ LastHeard /\ InStep
  BY DEF FramesInv
<1>3. PICK n \in Nat : n = Len(heard)
  BY <1>2 DEF FramesTypes
<1>4. PICK m \in Nat : m = Len(accepted)
  BY <1>2 DEF FramesTypes
<1>5. /\ heard' \in Seq(Loglikes) /\ Len(heard') = n + 1 /\ heard'[n + 1] = logp
      /\ \A i \in 1 .. n : heard'[i] = heard[i]
  BY <1>1, <1>2, <1>3 DEF FramesTypes
<1>6. FramesTypes'
  BY <1>1, <1>2, <1>3, <1>5 DEF FramesTypes
<1>7. Numbered'
  BY <1>1, <1>2, NumberedLonger DEF FramesTypes, Numbered
<1>8. LastAccepted'
  BY <1>1, <1>2 DEF LastAccepted
<1>9. LastHeard'
  <2>1. accepted # <<>> => m \in 1 .. m
    BY <1>2, <1>4 DEF FramesTypes
  <2>2. accepted # <<>> => decoded_frames_mapping[m] \in 0 .. n - 1
    BY <1>2, <1>3, <1>4, <2>1 DEF Numbered, NumberedIn
  <2>3. heard' # <<>>
    BY <1>5
  <2>4. QED BY <1>1, <1>4, <1>5, <2>2, <2>3 DEF LastHeard
<1>10. InStep'
  <2>1. Blank \in Symbols
    BY DEF Symbols
  <2>2. AcceptedBest \in Seq(Symbols) /\ AcceptedBest' = AcceptedBest
    <3>1. AcceptedBest = Mapped(BestUnitOf, accepted)
      BY <1>2, FramesMapped DEF AcceptedBest, FramesTypes
    <3>2. Mapped(BestUnitOf, accepted) \in Seq(Symbols)
      BY <1>2, MappedAre, UnitsTyped DEF FramesTypes
    <3>3. AcceptedBest' = AcceptedBest
      BY <1>1 DEF AcceptedBest
    <3>4. QED BY <3>1, <3>2, <3>3
  <2>3. Plain \in Seq(Symbols) /\ Plain' = Append(Plain, Blank)
    <3>1. Plain = Mapped(PlainUnitOf, heard) /\ Plain' = Mapped(PlainUnitOf, heard')
      BY <1>2, <1>5, FramesMapped DEF Plain, FramesTypes
    <3>2. PlainUnitOf[logp] = Blank
      BY DEF PlainUnitOf
    <3>3. Mapped(PlainUnitOf, heard') = Append(Mapped(PlainUnitOf, heard), Blank)
      BY <1>1, <1>2, <3>2, MappedAppend, UnitsTyped DEF FramesTypes
    <3>4. QED BY <1>2, <3>1, <3>3, MappedAre, UnitsTyped DEF FramesTypes
  <2>4. Paired(AcceptedBest, Append(Plain, Blank), decoded_frames_mapping)
    BY <1>2, <2>1, <2>2, <2>3, PairedSkip DEF InStep
  <2>5. QED BY <1>1, <2>2, <2>3, <2>4 DEF InStep
<1>11. QED BY <1>6, <1>7, <1>8, <1>9, <1>10 DEF FramesInv

LEMMA Concatenated ==
    ASSUME NEW S, NEW a \in S, NEW b \in S
    PROVE  <<a>> \o <<b>> = <<a, b>>
<1>1. <<a>> \in Seq(S) /\ <<b>> \in Seq(S) /\ <<a, b>> \in Seq(S)
  OBVIOUS
<1>2. Len(<<a>>) = 1 /\ Len(<<b>>) = 1 /\ Len(<<a, b>>) = 2
  OBVIOUS
<1>3. PICK c : c = <<a>> \o <<b>>
  OBVIOUS
<1>4. c \in Seq(S) /\ Len(c) = 2
  BY <1>1, <1>2, <1>3
<1>5. c[1] = a /\ c[2] = b
  BY <1>1, <1>2, <1>3
<1>6. \A i \in 1 .. 2 : c[i] = <<a, b>>[i]
  <2>1. \A i \in 1 .. 2 : i = 1 \/ i = 2
    OBVIOUS
  <2>2. QED BY <1>5, <2>1
<1>7. c = <<a, b>>
  BY <1>1, <1>2, <1>4, <1>6, SeqEqual
<1>8. QED BY <1>3, <1>7

LEMMA GivenFrames ==
    ASSUME FramesTypes, NEW logp \in Loglikes, GiveFrames(logp),
           AddsBlank(BestUnit(logp)) => last_frame_prob \in Loglikes
    PROVE  IF AddsBlank(BestUnit(logp))
           THEN /\ accepted' = Append(Append(accepted, last_frame_prob), logp)
                /\ decoded_frames_mapping' =
                        Append(Append(decoded_frames_mapping, num_frames - 1), num_frames)
           ELSE /\ accepted' = Append(accepted, logp)
                /\ decoded_frames_mapping' = Append(decoded_frames_mapping, num_frames)
<1>1. /\ accepted \in Seq(Loglikes) /\ decoded_frames_mapping \in Seq(Int)
      /\ num_frames \in Int
  BY DEF FramesTypes
<1>2. /\ accepted' = accepted \o [i \in DOMAIN Given(logp) |-> Given(logp)[i].logp]
      /\ decoded_frames_mapping' =
            decoded_frames_mapping \o [i \in DOMAIN Given(logp) |-> Given(logp)[i].number]
  BY DEF GiveFrames
<1>3. CASE AddsBlank(BestUnit(logp))
  <2>1. Given(logp) = <<[logp |-> last_frame_prob, number |-> num_frames - 1],
                        [logp |-> logp, number |-> num_frames]>>
    <3>2. PICK back : back = [logp |-> last_frame_prob, number |-> num_frames - 1]
      OBVIOUS
    <3>3. PICK now : now = [logp |-> logp, number |-> num_frames]
      OBVIOUS
    <3>4. Given(logp) = <<back>> \o <<now>>
      BY <1>3, <3>2, <3>3 DEF Given
    <3>5. <<back>> \o <<now>> = <<back, now>>
      <4>1. back \in {back, now} /\ now \in {back, now}
        OBVIOUS
      <4>2. QED BY ONLY <4>1, Concatenated
    <3>6. QED BY <3>2, <3>3, <3>4, <3>5
  <2>2. /\ [i \in DOMAIN Given(logp) |-> Given(logp)[i].logp] = <<last_frame_prob, logp>>
        /\ [i \in DOMAIN Given(logp) |-> Given(logp)[i].number] = <<num_frames - 1, num_frames>>
    BY <2>1
  <2>3. /\ accepted \o <<last_frame_prob, logp>> = Append(Append(accepted, last_frame_prob), logp)
        /\ decoded_frames_mapping \o <<num_frames - 1, num_frames>>
            = Append(Append(decoded_frames_mapping, num_frames - 1), num_frames)
    BY <1>1, <1>3
  <2>4. QED BY <1>2, <1>3, <2>2, <2>3
<1>4. CASE ~AddsBlank(BestUnit(logp))
  <2>1. Given(logp) = <<[logp |-> logp, number |-> num_frames]>>
    BY <1>4 DEF Given
  <2>2. /\ [i \in DOMAIN Given(logp) |-> Given(logp)[i].logp] = <<logp>>
        /\ [i \in DOMAIN Given(logp) |-> Given(logp)[i].number] = <<num_frames>>
    BY <2>1
  <2>3. /\ accepted \o <<logp>> = Append(accepted, logp)
        /\ decoded_frames_mapping \o <<num_frames>> = Append(decoded_frames_mapping, num_frames)
    BY <1>1
  <2>4. QED BY <1>2, <1>4, <2>2, <2>3
<1>5. QED BY <1>3, <1>4


LEMMA GiveFramesInv ==
    ASSUME FramesInv, NEW logp \in Loglikes, HearFrame(logp), ~IsSkipped(logp)
    PROVE  FramesInv'
<1> DEFINE best == BestUnit(logp)
<1>1. /\ GiveFrames(logp)
      /\ is_last_frame_blank' = FALSE /\ last_best' = best
      /\ heard' = Append(heard, logp) /\ num_frames' = num_frames + 1
  BY DEF HearFrame, GiveFrames
<1>2. FramesTypes /\ Numbered /\ LastAccepted /\ LastHeard /\ InStep
  BY DEF FramesInv
<1>3. PICK n \in Nat : n = Len(heard) /\ n = num_frames
  BY <1>2 DEF FramesTypes
<1>4. PICK m \in Nat : m = Len(accepted) /\ m = Len(decoded_frames_mapping)
  BY <1>2 DEF FramesTypes
<1>5. /\ heard' \in Seq(Loglikes) /\ Len(heard') = n + 1 /\ heard'[n + 1] = logp
      /\ \A i \in 1 .. n : heard'[i] = heard[i]
  BY <1>1, <1>2, <1>3 DEF FramesTypes
<1>6. /\ best \in Symbols /\ Blank \in Symbols
      /\ BestUnitOf[logp] = best /\ PlainUnitOf[logp] = best
  BY DEF Symbols, BestUnitOf, PlainUnitOf
<1>7. /\ Plain = Mapped(PlainUnitOf, heard) /\ Plain \in Seq(Symbols) /\ Len(Plain) = n
      /\ AcceptedBest = Mapped(BestUnitOf, accepted) /\ AcceptedBest \in Seq(Symbols)
      /\ Len(AcceptedBest) = m
  <2>1. Plain = Mapped(PlainUnitOf, heard) /\ AcceptedBest = Mapped(BestUnitOf, accepted)
    BY <1>2, FramesMapped DEF Plain, AcceptedBest, FramesTypes
  <2>2. QED BY <1>2, <1>3, <1>4, <2>1, MappedAre, UnitsTyped DEF FramesTypes
<1>8. Plain' = Append(Plain, best)
  <2>1. Plain' = Mapped(PlainUnitOf, heard')
    BY <1>5, FramesMapped DEF Plain
  <2>2. Mapped(PlainUnitOf, heard') = Append(Mapped(PlainUnitOf, heard), best)
    <3> HIDE DEF best
    <3>1. QED BY <1>1, <1>2, <1>6, MappedAppend, UnitsTyped DEF FramesTypes
  <2>3. QED BY <1>7, <2>1, <2>2
<1>9. (heard # <<>> <=> n > 0) /\ (accepted # <<>> <=> m > 0)
  BY <1>2, <1>3, <1>4 DEF FramesTypes
<1>10. n > 0 => heard[n] \in Loglikes /\ Plain[n] = PlainUnitOf[heard[n]]
  <2>1. n > 0 => n \in 1 .. n
    OBVIOUS
  <2>2. heard \in Seq(Loglikes) /\ Len(heard) = n
    BY <1>2, <1>3 DEF FramesTypes
  <2>3. \A i \in 1 .. n : heard[i] \in Loglikes
    BY <2>2
  <2>4. \A i \in 1 .. n : Mapped(PlainUnitOf, heard)[i] = PlainUnitOf[heard[i]]
    BY <2>2, MappedAre, UnitsTyped
  <2>5. QED BY <1>7, <2>1, <2>3, <2>4
<1>11. m > 0 => AcceptedBest[m] = last_best
  <2>1. m > 0 => m \in 1 .. m
    OBVIOUS
  <2>2. m > 0 => accepted[m] \in Loglikes /\ AcceptedBest[m] = BestUnitOf[accepted[m]]
    <3>1. accepted \in Seq(Loglikes) /\ Len(accepted) = m
      BY <1>2, <1>4 DEF FramesTypes
    <3>2. \A i \in 1 .. m : accepted[i] \in Loglikes
      BY <3>1
    <3>3. \A i \in 1 .. m : Mapped(BestUnitOf, accepted)[i] = BestUnitOf[accepted[i]]
      BY <3>1, MappedAre, UnitsTyped
    <3>4. QED BY <1>7, <2>1, <3>2, <3>3
  <2>3. m > 0 => BestUnit(accepted[m]) = last_best
    BY <1>2, <1>4, <1>9 DEF LastAccepted
  <2>4. QED BY <2>2, <2>3 DEF BestUnitOf

<1>12. m > 0 => decoded_frames_mapping[m] \in 0 .. n - 1
  <2>1. m > 0 => m \in 1 .. m
    OBVIOUS
  <2>2. QED BY <1>2, <1>3, <1>4, <2>1 DEF Numbered, NumberedIn
<1>13. NumberedIn(heard', accepted, decoded_frames_mapping)
  BY <1>1, <1>2, NumberedLonger DEF FramesTypes, Numbered
<1>14. n \in 0 .. Len(heard') - 1 /\ heard'[n + 1] = logp
  BY <1>5
\* The frame at the end of what is given: what it is remembered by and stands for.
<1>15. ASSUME NEW given \in Seq(Loglikes), NEW mapping \in Seq(Int), NEW A \in Seq(Symbols),
              Len(mapping) = Len(given), A = Mapped(BestUnitOf, given), Len(A) = Len(given),
              NumberedIn(heard', given, mapping),
              Len(given) > 0 => mapping[Len(given)] < n,
              Paired(A, Plain, mapping),
              BeginsAfter(A, best) <=> BeginsAfter(Plain, best),
              accepted' = Append(given, logp), decoded_frames_mapping' = Append(mapping, n)
       PROVE  FramesInv'
  <2>1. /\ accepted' \in Seq(Loglikes) /\ Len(accepted') = Len(given) + 1
        /\ accepted'[Len(accepted')] = logp /\ accepted' # <<>>
        /\ decoded_frames_mapping' \in Seq(Int)
        /\ Len(decoded_frames_mapping') = Len(mapping) + 1
    BY <1>15
  <2>2. FramesTypes'
    BY <1>1, <1>3, <1>5, <1>15, <2>1 DEF FramesTypes
  <2>3. Numbered'
    BY <1>5, <1>14, <1>15, NumberedGiven DEF Numbered
  <2>4. LastAccepted'
    BY <1>1, <2>1 DEF LastAccepted
  <2>5. LastHeard'
    <3>1. heard' # <<>>
      BY <1>5
    <3>2. QED BY <1>1, <1>5, <2>1, <3>1 DEF LastHeard
  <2>6. InStep'
    <3>1. AcceptedBest' = Mapped(BestUnitOf, accepted')
      BY <2>1, FramesMapped DEF AcceptedBest
    <3>2. AcceptedBest' = Append(A, best)
      <4> HIDE DEF best
      <4>1. QED BY <1>6, <1>15, <3>1, MappedAppend, UnitsTyped
    <3>3. Paired(Append(A, best), Append(Plain, best), Append(mapping, Len(Plain)))
      <4> HIDE DEF best
      <4>1. best \in Symbols /\ Plain \in Seq(Symbols) /\ Len(mapping) = Len(A)
        BY <1>6, <1>7, <1>15
      <4>2. QED BY ONLY <1>15, <4>1, PairedBoth
    <3>4. QED BY <1>7, <1>8, <1>15, <3>2, <3>3 DEF InStep
  <2>7. QED BY <2>2, <2>3, <2>4, <2>5, <2>6 DEF FramesInv
<1>16. CASE AddsBlank(best)
  <2>1. /\ best # Blank /\ is_last_frame_blank /\ best = last_best
        /\ n > 0 /\ last_frame_prob = heard[n] /\ IsSkipped(heard[n])
        /\ m > 0 => decoded_frames_mapping[m] < n - 1
    BY <1>2, <1>3, <1>4, <1>9, <1>16 DEF AddsBlank, LastHeard
  <2>2. BestUnit(heard[n]) = Blank
    BY <1>10, <2>1, SkippedAssumption
  <2>3. PICK given : given = Append(accepted, heard[n])
    OBVIOUS
  <2>4. PICK mapping : mapping = Append(decoded_frames_mapping, n - 1)
    OBVIOUS
  <2>5. PICK A : A = Append(AcceptedBest, Blank)
    OBVIOUS
  <2>6. /\ given \in Seq(Loglikes) /\ Len(given) = m + 1
        /\ mapping \in Seq(Int) /\ Len(mapping) = m + 1 /\ mapping[m + 1] = n - 1
        /\ A \in Seq(Symbols) /\ Len(A) = m + 1 /\ A[m + 1] = Blank /\ A # <<>>
    <3>1. accepted \in Seq(Loglikes) /\ Len(accepted) = m /\ heard[n] \in Loglikes
      BY <1>2, <1>4, <1>10, <2>1 DEF FramesTypes
    <3>2. given \in Seq(Loglikes) /\ Len(given) = m + 1
      BY <2>3, <3>1
    <3>3. decoded_frames_mapping \in Seq(Int) /\ Len(decoded_frames_mapping) = m
      BY <1>2, <1>4 DEF FramesTypes
    <3>4. mapping \in Seq(Int) /\ Len(mapping) = m + 1 /\ mapping[m + 1] = n - 1
      BY <2>4, <3>3
    <3>5. Blank \in Symbols /\ AcceptedBest \in Seq(Symbols) /\ Len(AcceptedBest) = m
      BY <1>6, <1>7
    <3>6. A \in Seq(Symbols) /\ Len(A) = m + 1 /\ A[m + 1] = Blank
      BY <2>5, <3>5
    <3>7. A # <<>>
      BY <3>6
    <3>8. QED BY <3>2, <3>4, <3>6, <3>7
  <2>7. A = Mapped(BestUnitOf, given)
    <3>1. BestUnitOf[heard[n]] = Blank
      BY <1>10, <2>1, <2>2 DEF BestUnitOf
    <3>2. QED BY <1>2, <1>7, <1>10, <2>1, <2>3, <2>5, <3>1, MappedAppend, UnitsTyped
              DEF FramesTypes
  <2>8. NumberedIn(heard', given, mapping)
    <3>1. n - 1 \in 0 .. Len(heard') - 1 /\ heard'[(n - 1) + 1] = heard[n]
      BY <1>5, <2>1
    <3>2. QED BY <1>2, <1>4, <1>5, <1>13, <2>1, <2>3, <2>4, <3>1, NumberedGiven DEF FramesTypes
  <2>9. Paired(A, Plain, mapping)
    <3>1. n - 1 \in Int /\ Len(decoded_frames_mapping) = Len(AcceptedBest)
      BY <1>4, <1>7
    <3>2. QED BY <1>2, <1>6, <1>7, <2>4, <2>5, <3>1, PairedGivenBack DEF FramesTypes, InStep
  <2>10. BeginsAfter(A, best) /\ BeginsAfter(Plain, best)
    <3>1. Plain[n] = Blank
      BY <1>10, <2>1 DEF PlainUnitOf
    <3> HIDE DEF best
    <3>2. QED BY <1>7, <2>1, <2>6, <3>1 DEF BeginsAfter
  <2>11. accepted' = Append(given, logp) /\ decoded_frames_mapping' = Append(mapping, n)
    <3>1. last_frame_prob \in Loglikes
      BY <1>10, <2>1
    <3>2. QED BY <1>1, <1>2, <1>3, <1>16, <2>1, <2>3, <2>4, <3>1, GivenFrames
  <2>12. mapping[Len(given)] < n /\ Len(mapping) = Len(given) /\ Len(A) = Len(given)
    BY <2>6
  <2>13. QED BY <1>15, <2>6, <2>7, <2>8, <2>9, <2>10, <2>11, <2>12
<1>17. CASE ~AddsBlank(best)
  <2>1. /\ accepted' = Append(accepted, logp)
        /\ decoded_frames_mapping' = Append(decoded_frames_mapping, n)
    BY <1>1, <1>2, <1>3, <1>17, GivenFrames
  <2>2. BeginsAfter(AcceptedBest, best) <=> BeginsAfter(Plain, best)
    <3>1. SUFFICES ASSUME best # Blank
                   PROVE  (AcceptedBest = <<>> \/ best # AcceptedBest[m])
                            <=> (Plain = <<>> \/ best # Plain[n])
      BY <1>7 DEF BeginsAfter
    <3>2. (AcceptedBest = <<>> <=> m = 0) /\ (Plain = <<>> <=> n = 0)
      BY <1>7
    <3>3. CASE is_last_frame_blank
      <4>1. n > 0 /\ IsSkipped(heard[n])
        BY <1>2, <1>3, <1>9, <3>3 DEF LastHeard
      <4>2. Plain[n] = Blank
        BY <1>10, <4>1 DEF PlainUnitOf
      <4>3. best # last_best
        BY <1>17, <3>1, <3>3 DEF AddsBlank
      <4> HIDE DEF best
      <4>4. QED BY <1>11, <3>1, <3>2, <4>2, <4>3
    <3>4. CASE ~is_last_frame_blank
      <4>1. n = 0 <=> m = 0
        BY <1>2, <1>9, <3>4 DEF LastHeard
      <4>2. n > 0 => Plain[n] = last_best
        <5>1. n > 0 => ~IsSkipped(heard[n]) /\ BestUnit(heard[n]) = last_best
          BY <1>2, <1>3, <1>9, <3>4 DEF LastHeard
        <5>2. QED BY <1>10, <5>1 DEF PlainUnitOf
      <4> HIDE DEF best
      <4>3. QED BY <1>11, <3>2, <4>1, <4>2
    <3>5. QED BY <3>3, <3>4
  <2>3. m > 0 => decoded_frames_mapping[m] < n
    BY <1>12
  <2>4. QED BY <1>2, <1>4, <1>7, <1>13, <1>15, <2>1, <2>2, <2>3 DEF FramesTypes, InStep
<1>18. QED BY <1>16, <1>17

LEMMA NextFramesInv ==
    ASSUME FramesInv, [FramesNext]_frames_vars
    PROVE  FramesInv'
<1>1. CASE \E logp \in Loglikes : HearFrame(logp)
  BY <1>1, SkipFramesInv, GiveFramesInv
<1>2. CASE ResetFrames
  <2>1. (heard = <<>> /\ accepted = <<>> /\ decoded_frames_mapping = <<>> /\ num_frames = 0
            /\ is_last_frame_blank = FALSE /\ last_best = 0)'
    BY <1>2 DEF ResetFrames
  <2>2. QED BY <2>1, InitFramesInv, PTL
<1>3. CASE UNCHANGED frames_vars
  BY <1>3 DEF frames_vars, FramesInv, FramesTypes, Numbered, LastAccepted, LastHeard, InStep,
              Plain, AcceptedBest
<1>4. QED BY <1>1, <1>2, <1>3 DEF FramesNext

LEMMA FramesInvMapped ==
    ASSUME FramesInv
    PROVE  FramesAreMapped
<1>1. FramesTypes /\ Numbered /\ InStep
  BY DEF FramesInv
<1>2. NumbersAreFrames
  BY <1>1 DEF FramesTypes, Numbered, NumberedIn, NumbersAreFrames
<1>3. Starts(AcceptedBest) \in Seq(1 .. Len(AcceptedBest)) /\ Starts(Plain) \in Seq(1 .. Len(Plain))
  <2>1. Plain \in Seq(Symbols) /\ AcceptedBest \in Seq(Symbols)
    BY <1>1, FramesMapped, MappedAre, UnitsTyped DEF Plain, AcceptedBest, FramesTypes
  <2>2. QED BY <2>1, StartsAre
<1>4. DOMAIN Starts(AcceptedBest) = 1 .. Len(Starts(AcceptedBest))
      /\ DOMAIN Starts(Plain) = 1 .. Len(Starts(Plain))
  BY <1>3
<1>5. SkippingLosesNothing
  BY <1>1, <1>4 DEF InStep, Paired, SkippingLosesNothing, Inputs, InputTimes
<1>6. QED BY <1>2, <1>5 DEF FramesAreMapped

\* Frames that are surely blank are not given to the decoder of Kaldi, and this
\* changes neither the tokens of the best symbols nor the frames they start at:
\* decoded_frames_mapping has, for each frame the decoder was given, the number it
\* was heard with (CtcWfstBeamSearch::Search), for every threshold at which the
\* blank is the best unit and every sequence of frames and resets.
THEOREM SkippedFramesAreMapped == FramesSpec => []FramesAreMapped
<1>1. FramesInit => FramesInv
  BY InitFramesInv DEF FramesInit
<1>2. FramesInv /\ [FramesNext]_frames_vars => FramesInv'
  BY NextFramesInv
<1>3. FramesInv => FramesAreMapped
  BY FramesInvMapped
<1>4. QED BY <1>1, <1>2, <1>3, PTL DEF FramesSpec

--------------------------------------------------------------------------------
(***************************************************************************)
(* label_checker: a finished path is an alignment, for every unit table    *)
(* and all texts.  Each part of the invariant speaks of two or three of a  *)
(* path's fields, and is kept by what a step does to them.                 *)
(***************************************************************************)
OutSymbols == UnitLabels \cup Marks

PathTypes ==
    /\ labels \in Seq(UnitLabels)
    /\ ctc_fst = CompileCtcFst
    /\ align_fst = CompileAlignFst(labels)
    /\ path \in [ctc : 1 .. NumUnits, align : 1 .. 3 + Len(labels), frames : Seq(1 .. NumUnits),
                 written : Seq(OutSymbols), cost : Nat, arcs : Nat]

\* Frames that say what is written, the last of them the unit that is being read.
SaysWith(place, read, written) ==
    /\ place \in [DOMAIN read -> 0 .. Len(written)]
    /\ \A i \in DOMAIN read :
        IF read[i] = kBlank THEN place[i] = 0
        ELSE place[i] # 0 /\ written[place[i]] = read[i]
    /\ \A i, j \in DOMAIN read : i < j /\ place[i] # 0 /\ place[j] # 0 =>
        /\ place[i] <= place[j]
        /\ place[i] = place[j] => \A k \in i .. j : place[k] = place[i]
    /\ \A p \in DOMAIN written : written[p] \notin Marks => \E i \in DOMAIN read : place[i] = p

SaysSoFar(ctc, read, written) ==
    \E place :
        /\ SaysWith(place, read, written)
        /\ ctc # 1 => read # <<>> /\ read[Len(read)] = ctc

Open(align) == align \in {filler_start, filler_end}

ClosedAt(i, written) ==
    \E j \in i + 2 .. Len(written) :
        written[j] = kIsEnd /\ \A k \in i + 1 .. j - 1 : written[k] \in UnitLabels

OpenAt(i, written) ==
    written[i] = kIsStart /\ \A k \in i + 1 .. Len(written) : written[k] \in UnitLabels

\* A start is closed, or is the one that the filler's states are for.
PairedSoFar(align, written) ==
    /\ Number(kIsStart, written) = Number(kIsEnd, written) + (IF Open(align) THEN 1 ELSE 0)
    /\ \A i \in DOMAIN written : written[i] = kIsStart =>
            \/ ClosedAt(i, written)
            \/ OpenAt(i, written) /\ (align = filler_start \/ (align = filler_end /\ i < Len(written)))
    /\ Open(align) => \E i \in DOMAIN written : OpenAt(i, written)

InsertedUnits(written) == {i \in Inserted(written) : written[i] \in UnitLabels}

PaidSoFar(cost, written) ==
    cost = Number(kDeletion, written) + Cardinality(InsertedUnits(written))

\* Without a filler so far, the state counts the labels.
InOrderSoFar(of, align, written) ==
    (\A i \in DOMAIN written : written[i] # kIsStart) =>
        /\ Len(written) <= Len(of)
        /\ align = PlaceState(Len(written))
        /\ \A i \in DOMAIN written : written[i] \in {of[i], kDeletion}

LabelIInv ==
    /\ PathTypes
    /\ SaysSoFar(path.ctc, path.frames, path.written)
    /\ PairedSoFar(path.align, path.written)
    /\ PaidSoFar(path.cost, path.written)
    /\ InOrderSoFar(labels, path.align, path.written)

\* What an arc of the composition does.
Reads(frame, ctc, align) ==
    /\ path'.ctc = ctc /\ path'.align = align
    /\ path'.frames = Append(path.frames, frame)
Writes(symbol, align) ==
    path'.align = align /\ path'.written = Append(path.written, symbol)

ReadBlank ==
    /\ path.ctc = 1 /\ Reads(kBlank, 1, path.align)
    /\ path'.written = path.written /\ path'.cost = path.cost
ReadAgain ==
    /\ path.ctc \in UnitLabels /\ Reads(path.ctc, path.ctc, path.align)
    /\ path'.written = path.written /\ path'.cost = path.cost
UnitEnds ==
    /\ path.ctc \in UnitLabels /\ path'.ctc = 1 /\ path'.align = path.align
    /\ path'.frames = path.frames /\ path'.written = path.written /\ path'.cost = path.cost
FillerStarts ==
    /\ ~Open(path.align) /\ Writes(kIsStart, filler_start)
    /\ path'.ctc = path.ctc /\ path'.frames = path.frames /\ path'.cost = path.cost
LabelMisses(i) ==
    /\ path.align = PlaceState(i) /\ Writes(kDeletion, PlaceState(i + 1))
    /\ path'.ctc = path.ctc /\ path'.frames = path.frames /\ path'.cost = path.cost + 1
FillerGoesOn ==
    /\ path.align = filler_end /\ path'.align = filler_start /\ path'.ctc = path.ctc
    /\ path'.frames = path.frames /\ path'.written = path.written /\ path'.cost = path.cost
FillerEnds(i) ==
    /\ path.align = filler_end /\ Writes(kIsEnd, PlaceState(i))
    /\ path'.ctc = path.ctc /\ path'.frames = path.frames /\ path'.cost = path.cost
LabelSaid(i) ==
    /\ path.ctc = 1 /\ path.align = PlaceState(i) /\ path'.cost = path.cost
    /\ Reads(labels[i + 1], labels[i + 1], PlaceState(i + 1))
    /\ Writes(labels[i + 1], PlaceState(i + 1))
UnitPutIn(u) ==
    /\ path.ctc = 1 /\ path.align = filler_start /\ path'.cost = path.cost + 1
    /\ Reads(u, u, filler_end) /\ Writes(u, filler_end)

LEMMA SymbolFacts ==
    /\ NumUnits \in Nat \ {0}
    /\ UnitLabels \subseteq 1 .. NumUnits /\ 1 \notin UnitLabels
    /\ UnitLabels \subseteq Nat /\ 0 \notin UnitLabels
    /\ \A u \in 1 .. NumUnits : u # 1 => u \in UnitLabels
    /\ UnitLabels \subseteq OutSymbols /\ {kDeletion, kIsStart, kIsEnd} \subseteq OutSymbols
    /\ \A u \in UnitLabels : u \notin Marks /\ u # kDeletion /\ u # kIsStart /\ u # kIsEnd
    /\ kDeletion # kIsStart /\ kDeletion # kIsEnd /\ kIsStart # kIsEnd
    /\ kDeletion # 0 /\ kIsStart # 0 /\ kIsEnd # 0
    /\ kDeletion \in Marks /\ kIsStart \in Marks /\ kIsEnd \in Marks
<1>1. NumUnits \in Nat \ {0}
  BY LabelsAssumption
<1>2. QED BY <1>1 DEF UnitLabels, OutSymbols, Marks, kDeletion, kIsStart, kIsEnd

LEMMA PlaceFacts ==
    ASSUME NEW n \in Nat
    PROVE  /\ \A i \in 0 .. n : PlaceState(i) \in 1 .. 3 + n /\ ~Open(PlaceState(i))
           /\ \A i, j \in 0 .. n : PlaceState(i) = PlaceState(j) => i = j
           /\ \A s \in 1 .. 3 + n : ~Open(s) => \E i \in 0 .. n : s = PlaceState(i)
           /\ Open(filler_start) /\ Open(filler_end) /\ filler_start # filler_end
           /\ filler_start \in 1 .. 3 + n /\ filler_end \in 1 .. 3 + n
<1>1. ASSUME NEW s \in 1 .. 3 + n, ~Open(s) PROVE \E i \in 0 .. n : s = PlaceState(i)
  <2>1. CASE s = 1
    BY <2>1 DEF PlaceState
  <2>2. CASE s # 1
    <3>1. s - 3 \in 1 .. n /\ s = PlaceState(s - 3)
      BY <1>1, <2>2 DEF PlaceState, Open, filler_start, filler_end
    <3>2. QED BY <3>1
  <2>3. QED BY <2>1, <2>2
<1>2. QED BY <1>1 DEF PlaceState, Open, filler_start, filler_end

\* The arcs that leave a state of the CTC graph.
LEMMA CtcArcs ==
    ASSUME NEW s \in 1 .. NumUnits, NEW arc \in CompileCtcFst.arcs[s]
    PROVE  \/ s = 1 /\ arc = StdArc(kBlank, 0, 0, 1)
           \/ s = 1 /\ \E u \in UnitLabels : arc = StdArc(u, u, 0, u)
           \/ s \in UnitLabels /\ arc = StdArc(s, 0, 0, s)
           \/ s \in UnitLabels /\ arc = StdArc(0, 0, 0, 1)
<1>1. CompileCtcFst.arcs[s] =
        IF s = 1 THEN {StdArc(kBlank, 0, 0, 1)} \cup {StdArc(u, u, 0, u) : u \in UnitLabels}
        ELSE {StdArc(s, 0, 0, s), StdArc(0, 0, 0, 1)}
  BY DEF CompileCtcFst
<1>2. s # 1 => s \in UnitLabels
  BY SymbolFacts
<1>3. QED BY <1>1, <1>2

\* And those that leave a state of the alignment graph.
LEMMA AlignArcs ==
    ASSUME NEW of \in Seq(UnitLabels), NEW s \in 1 .. 3 + Len(of),
           NEW arc \in CompileAlignFst(of).arcs[s]
    PROVE  \/ s = filler_start /\ \E u \in UnitLabels : arc = StdArc(u, u, 1, filler_end)
           \/ s = filler_end /\ arc = StdArc(0, 0, 0, filler_start)
           \/ s = filler_end /\ \E i \in 0 .. Len(of) : arc = StdArc(0, kIsEnd, 0, PlaceState(i))
           \/ ~Open(s) /\ arc = StdArc(0, kIsStart, 0, filler_start)
           \/ \E i \in 0 .. Len(of) - 1 : s = PlaceState(i)
                /\ arc \in {StdArc(of[i + 1], of[i + 1], 0, PlaceState(i + 1)),
                            StdArc(0, kDeletion, 1, PlaceState(i + 1))}
<1> DEFINE n == Len(of)
           from(i) ==
            {StdArc(0, kIsStart, 0, filler_start)} \cup
            (IF i = n THEN {} ELSE {StdArc(of[i + 1], of[i + 1], 0, PlaceState(i + 1)),
                                    StdArc(0, kDeletion, DelPenalty, PlaceState(i + 1))})
<1>1. n \in Nat
  OBVIOUS
<1>2. CompileAlignFst(of).arcs[s] =
        CASE s = filler_start -> {StdArc(u, u, IsPenalty, filler_end) : u \in UnitLabels}
          [] s = filler_end -> {StdArc(0, 0, 0, filler_start)} \cup {LeaveFiller(PlaceState(i)) : i \in 0 .. n}
          [] OTHER -> from(IF s = 1 THEN 0 ELSE s - 3)
  BY DEF CompileAlignFst
<1>3. CASE s = filler_start
  <2>1. CompileAlignFst(of).arcs[s] = {StdArc(u, u, IsPenalty, filler_end) : u \in UnitLabels}
    BY <1>2, <1>3 DEF filler_start, filler_end
  <2>2. QED BY <1>3, <2>1 DEF IsPenalty
<1>4. CASE s = filler_end
  <2>1. CompileAlignFst(of).arcs[s] =
          {StdArc(0, 0, 0, filler_start)} \cup {LeaveFiller(PlaceState(i)) : i \in 0 .. n}
    BY <1>2, <1>4 DEF filler_start, filler_end
  <2>2. QED BY <1>4, <2>1 DEF LeaveFiller
<1>5. CASE ~Open(s)
  <2>1. PICK i \in 0 .. n : s = PlaceState(i)
    BY <1>1, <1>5, PlaceFacts
  <2>2. i = IF s = 1 THEN 0 ELSE s - 3
    BY <2>1 DEF PlaceState
  <2>3. CompileAlignFst(of).arcs[s] = from(i)
    <3> HIDE DEF from
    <3>1. QED BY <1>2, <1>5, <2>2 DEF Open
  <2>4. i # n => i \in 0 .. n - 1
    BY <1>1
  <2>5. CASE arc = StdArc(0, kIsStart, 0, filler_start)
    BY <1>5, <2>5
  <2>6. CASE arc # StdArc(0, kIsStart, 0, filler_start)
    <3>1. i # n /\ arc \in {StdArc(of[i + 1], of[i + 1], 0, PlaceState(i + 1)),
                            StdArc(0, kDeletion, DelPenalty, PlaceState(i + 1))}
      BY <2>3, <2>6
    <3>2. QED BY <2>1, <2>4, <3>1 DEF DelPenalty
  <2>7. QED BY <2>5, <2>6
<1>6. QED BY <1>3, <1>4, <1>5 DEF Open

LEMMA ArcFields ==
    ASSUME NEW i, NEW o, NEW w, NEW s
    PROVE  /\ StdArc(i, o, w, s).ilabel = i /\ StdArc(i, o, w, s).olabel = o
           /\ StdArc(i, o, w, s).weight = w /\ StdArc(i, o, w, s).nextstate = s
BY DEF StdArc

\* Each arc of the composition is one of nine.
LEMMA LabelStepCases ==
    ASSUME PathTypes, LabelNext
    PROVE  /\ \/ ReadBlank \/ ReadAgain \/ UnitEnds \/ FillerStarts \/ FillerGoesOn
              \/ \E i \in 0 .. Len(labels) - 1 : LabelMisses(i) \/ LabelSaid(i)
              \/ \E i \in 0 .. Len(labels) : FillerEnds(i)
              \/ \E u \in UnitLabels : UnitPutIn(u)
           /\ path' \in [ctc : {path'.ctc}, align : {path'.align}, frames : {path'.frames},
                         written : {path'.written}, cost : {path'.cost}, arcs : Nat]
           /\ UNCHANGED <<labels, ctc_fst, align_fst>>
<1> DEFINE n == Len(labels)
<1>1. /\ labels \in Seq(UnitLabels) /\ n \in Nat
      /\ path.ctc \in 1 .. NumUnits /\ path.align \in 1 .. 3 + n
      /\ path.cost \in Nat /\ path.arcs \in Nat
      /\ ctc_fst.arcs = CompileCtcFst.arcs /\ align_fst.arcs = CompileAlignFst(labels).arcs
  BY DEF PathTypes
<1>2. ASSUME NEW ctc, NEW align, NEW frame, NEW olabel, NEW weight,
             Taken(ctc, align, frame, olabel, weight)
      PROVE  /\ path' \in [ctc : {path'.ctc}, align : {path'.align}, frames : {path'.frames},
                           written : {path'.written}, cost : {path'.cost}, arcs : Nat]
             /\ UNCHANGED <<labels, ctc_fst, align_fst>>
             /\ path'.ctc = ctc /\ path'.align = align
             /\ path'.frames = IF frame = 0 THEN path.frames ELSE Append(path.frames, frame)
             /\ path'.written = IF olabel = 0 THEN path.written ELSE Append(path.written, olabel)
             /\ path'.cost = path.cost + weight
  BY <1>1, <1>2 DEF Taken
<1>3. path.cost + 0 = path.cost
  BY <1>1
<1>11. ASSUME NEW ctc, NEW align, NEW frame, frame # 0, Taken(ctc, align, frame, 0, 0)
       PROVE  /\ path'.ctc = ctc /\ path'.align = align /\ path'.frames = Append(path.frames, frame)
              /\ path'.written = path.written /\ path'.cost = path.cost
  BY <1>2, <1>3, <1>11
<1>12. ASSUME NEW ctc, NEW align, NEW olabel, NEW weight, olabel # 0, Taken(ctc, align, 0, olabel, weight)
       PROVE  /\ path'.ctc = ctc /\ path'.align = align /\ path'.frames = path.frames
              /\ path'.written = Append(path.written, olabel) /\ path'.cost = path.cost + weight
  BY <1>2, <1>12
<1>13. ASSUME NEW ctc, NEW align, Taken(ctc, align, 0, 0, 0)
       PROVE  /\ path'.ctc = ctc /\ path'.align = align /\ path'.frames = path.frames
              /\ path'.written = path.written /\ path'.cost = path.cost
  BY <1>2, <1>3, <1>13
<1>14. ASSUME NEW ctc, NEW align, NEW u, NEW weight, u # 0, Taken(ctc, align, u, u, weight)
       PROVE  /\ path'.ctc = ctc /\ path'.align = align /\ path'.frames = Append(path.frames, u)
              /\ path'.written = Append(path.written, u) /\ path'.cost = path.cost + weight
  BY <1>2, <1>14
<1>4. CASE TakeCtc
  <2>1. PICK arc \in CompileCtcFst.arcs[path.ctc] :
          arc.olabel = 0 /\ Taken(arc.nextstate, path.align, arc.ilabel, 0, arc.weight)
    BY <1>1, <1>4 DEF TakeCtc
  <2>2. \/ path.ctc = 1 /\ arc = StdArc(kBlank, 0, 0, 1)
        \/ path.ctc = 1 /\ \E u \in UnitLabels : arc = StdArc(u, u, 0, u)
        \/ path.ctc \in UnitLabels /\ arc = StdArc(path.ctc, 0, 0, path.ctc)
        \/ path.ctc \in UnitLabels /\ arc = StdArc(0, 0, 0, 1)
    BY <1>1, <2>1, CtcArcs
  <2>3. CASE path.ctc = 1 /\ arc = StdArc(kBlank, 0, 0, 1)
    <3>1. Taken(1, path.align, kBlank, 0, 0)
      BY <2>1, <2>3, ArcFields
    <3>2. kBlank # 0
      BY DEF kBlank
    <3>3. ReadBlank
      BY <1>11, <2>3, <3>1, <3>2 DEF ReadBlank, Reads
    <3>4. QED BY <1>2, <3>1, <3>3
  <2>4. CASE path.ctc = 1 /\ \E u \in UnitLabels : arc = StdArc(u, u, 0, u)
    BY <2>1, <2>4, ArcFields, SymbolFacts
  <2>5. CASE path.ctc \in UnitLabels /\ arc = StdArc(path.ctc, 0, 0, path.ctc)
    <3>1. path.ctc # 0
      BY <2>5, SymbolFacts
    <3>2. Taken(path.ctc, path.align, path.ctc, 0, 0)
      BY <2>1, <2>5, ArcFields
    <3>3. ReadAgain
      BY <1>11, <2>5, <3>1, <3>2 DEF ReadAgain, Reads
    <3>4. QED BY <1>2, <3>2, <3>3
  <2>6. CASE path.ctc \in UnitLabels /\ arc = StdArc(0, 0, 0, 1)
    <3>1. Taken(1, path.align, 0, 0, 0)
      BY <2>1, <2>6, ArcFields
    <3>2. UnitEnds
      BY <1>13, <2>6, <3>1 DEF UnitEnds
    <3>3. QED BY <1>2, <3>1, <3>2
  <2>7. QED BY <2>2, <2>3, <2>4, <2>5, <2>6
<1>5. CASE TakeAlign
  <2>1. PICK arc \in CompileAlignFst(labels).arcs[path.align] :
          arc.ilabel = 0 /\ Taken(path.ctc, arc.nextstate, 0, arc.olabel, arc.weight)
    BY <1>1, <1>5 DEF TakeAlign
  <2>2. \/ path.align = filler_start /\ \E u \in UnitLabels : arc = StdArc(u, u, 1, filler_end)
        \/ path.align = filler_end /\ arc = StdArc(0, 0, 0, filler_start)
        \/ path.align = filler_end /\ \E i \in 0 .. n : arc = StdArc(0, kIsEnd, 0, PlaceState(i))
        \/ ~Open(path.align) /\ arc = StdArc(0, kIsStart, 0, filler_start)
        \/ \E i \in 0 .. n - 1 : path.align = PlaceState(i)
             /\ arc \in {StdArc(labels[i + 1], labels[i + 1], 0, PlaceState(i + 1)),
                         StdArc(0, kDeletion, 1, PlaceState(i + 1))}
    BY <1>1, <2>1, AlignArcs
  <2>3. CASE path.align = filler_start /\ \E u \in UnitLabels : arc = StdArc(u, u, 1, filler_end)
    BY <2>1, <2>3, ArcFields, SymbolFacts
  <2>4. CASE path.align = filler_end /\ arc = StdArc(0, 0, 0, filler_start)
    <3>1. Taken(path.ctc, filler_start, 0, 0, 0)
      BY <2>1, <2>4, ArcFields
    <3>2. FillerGoesOn
      BY <1>13, <2>4, <3>1 DEF FillerGoesOn
    <3>3. QED BY <1>2, <3>1, <3>2
  <2>5. CASE path.align = filler_end /\ \E i \in 0 .. n : arc = StdArc(0, kIsEnd, 0, PlaceState(i))
    <3>1. PICK i \in 0 .. n : arc = StdArc(0, kIsEnd, 0, PlaceState(i))
      BY <2>5
    <3>2. Taken(path.ctc, PlaceState(i), 0, kIsEnd, 0)
      BY <2>1, <3>1, ArcFields
    <3>3. kIsEnd # 0
      BY SymbolFacts
    <3>4. FillerEnds(i)
      BY <1>3, <1>12, <2>5, <3>2, <3>3 DEF FillerEnds, Writes
    <3>5. QED BY <1>2, <3>2, <3>4
  <2>6. CASE ~Open(path.align) /\ arc = StdArc(0, kIsStart, 0, filler_start)
    <3>1. Taken(path.ctc, filler_start, 0, kIsStart, 0)
      BY <2>1, <2>6, ArcFields
    <3>2. kIsStart # 0
      BY SymbolFacts
    <3>3. FillerStarts
      BY <1>3, <1>12, <2>6, <3>1, <3>2 DEF FillerStarts, Writes
    <3>4. QED BY <1>2, <3>1, <3>3
  <2>7. ASSUME NEW i \in 0 .. n - 1, path.align = PlaceState(i),
               arc \in {StdArc(labels[i + 1], labels[i + 1], 0, PlaceState(i + 1)),
                        StdArc(0, kDeletion, 1, PlaceState(i + 1))}
        PROVE  LabelMisses(i)
    <3>1. labels[i + 1] \in UnitLabels /\ labels[i + 1] # 0 /\ kDeletion # 0
      <4>1. i + 1 \in 1 .. n
        BY <1>1
      <4>2. labels[i + 1] \in UnitLabels
        BY <1>1, <4>1
      <4>3. QED BY <4>2, SymbolFacts
    <3>2. arc = StdArc(0, kDeletion, 1, PlaceState(i + 1))
      BY <2>1, <2>7, <3>1, ArcFields
    <3>3. Taken(path.ctc, PlaceState(i + 1), 0, kDeletion, 1)
      BY <2>1, <3>2, ArcFields
    <3>4. QED BY <1>12, <2>7, <3>1, <3>3 DEF LabelMisses, Writes
  <2>8. QED BY <1>2, <2>1, <2>2, <2>3, <2>4, <2>5, <2>6, <2>7
<1>6. CASE TakeBoth
  <2>1. PICK a \in CompileCtcFst.arcs[path.ctc], b \in CompileAlignFst(labels).arcs[path.align] :
          a.olabel # 0 /\ a.olabel = b.ilabel
          /\ Taken(a.nextstate, b.nextstate, a.ilabel, b.olabel, a.weight + b.weight)
    BY <1>1, <1>6 DEF TakeBoth
  <2>2. \/ path.ctc = 1 /\ a = StdArc(kBlank, 0, 0, 1)
        \/ path.ctc = 1 /\ \E u \in UnitLabels : a = StdArc(u, u, 0, u)
        \/ path.ctc \in UnitLabels /\ a = StdArc(path.ctc, 0, 0, path.ctc)
        \/ path.ctc \in UnitLabels /\ a = StdArc(0, 0, 0, 1)
    BY <1>1, <2>1, CtcArcs
  <2>3. path.ctc = 1 /\ \E u \in UnitLabels : a = StdArc(u, u, 0, u)
    BY <2>1, <2>2, ArcFields
  <2>4. PICK u \in UnitLabels : a = StdArc(u, u, 0, u)
    BY <2>3
  <2>5. u # 0 /\ b.ilabel = u
    BY <2>1, <2>4, ArcFields, SymbolFacts
  <2>6. \/ path.align = filler_start /\ \E v \in UnitLabels : b = StdArc(v, v, 1, filler_end)
        \/ path.align = filler_end /\ b = StdArc(0, 0, 0, filler_start)
        \/ path.align = filler_end /\ \E i \in 0 .. n : b = StdArc(0, kIsEnd, 0, PlaceState(i))
        \/ ~Open(path.align) /\ b = StdArc(0, kIsStart, 0, filler_start)
        \/ \E i \in 0 .. n - 1 : path.align = PlaceState(i)
             /\ b \in {StdArc(labels[i + 1], labels[i + 1], 0, PlaceState(i + 1)),
                       StdArc(0, kDeletion, 1, PlaceState(i + 1))}
    BY <1>1, <2>1, AlignArcs
  <2>7. CASE path.align = filler_start /\ \E v \in UnitLabels : b = StdArc(v, v, 1, filler_end)
    <3>1. b = StdArc(u, u, 1, filler_end)
      BY <2>5, <2>7, ArcFields
    <3>2. a.weight + b.weight = 1
      BY <2>4, <3>1, ArcFields
    <3>3. Taken(u, filler_end, u, u, 1)
      BY <2>1, <2>4, <3>1, <3>2, ArcFields
    <3>4. UnitPutIn(u)
      BY <1>14, <2>3, <2>5, <2>7, <3>3 DEF UnitPutIn, Reads, Writes
    <3>5. QED BY <1>2, <3>3, <3>4
  <2>8. ASSUME NEW i \in 0 .. n - 1, path.align = PlaceState(i),
               b \in {StdArc(labels[i + 1], labels[i + 1], 0, PlaceState(i + 1)),
                      StdArc(0, kDeletion, 1, PlaceState(i + 1))}
        PROVE  LabelSaid(i)
    <3>1. b = StdArc(labels[i + 1], labels[i + 1], 0, PlaceState(i + 1)) /\ u = labels[i + 1]
      BY <2>5, <2>8, ArcFields
    <3>2. a.weight + b.weight = 0
      <4>1. a.weight = 0 /\ b.weight = 0
        BY <2>4, <3>1, ArcFields
      <4>2. QED BY <4>1
    <3>3. Taken(u, PlaceState(i + 1), u, u, 0)
      BY <2>1, <2>4, <3>1, <3>2, ArcFields
    <3>4. QED BY <1>3, <1>14, <2>3, <2>5, <2>8, <3>1, <3>3 DEF LabelSaid, Reads, Writes
  <2>9. QED BY <1>2, <2>1, <2>5, <2>6, <2>7, <2>8, ArcFields
<1>7. QED BY <1>4, <1>5, <1>6 DEF LabelNext

(***************************************************************************)
(* Append                                                                  *)
(***************************************************************************)
LEMMA Written ==
    ASSUME NEW S, NEW w \in Seq(S), NEW m \in S
    PROVE  /\ Len(w) \in Nat
           /\ Append(w, m) \in Seq(S) /\ Len(Append(w, m)) = Len(w) + 1
           /\ DOMAIN w = 1 .. Len(w) /\ DOMAIN Append(w, m) = 1 .. Len(w) + 1
           /\ \A i \in 1 .. Len(w) : Append(w, m)[i] = w[i] /\ w[i] \in S
           /\ Append(w, m)[Len(w) + 1] = m
<1>1. Len(Append(w, m)) = Len(w) + 1 /\ Append(w, m) \in Seq(S)
  BY AppendProperties
<1>2. QED BY <1>1, AppendProperties

\* One more symbol is one more of that symbol.
LEMMA NumberMore ==
    ASSUME NEW S, NEW w \in Seq(S), NEW m \in S, NEW mark
    PROVE  /\ Number(mark, w) \in Nat
           /\ Number(mark, Append(w, m)) = Number(mark, w) + (IF m = mark THEN 1 ELSE 0)
<1> DEFINE at == {i \in DOMAIN w : w[i] = mark}
           more == {i \in DOMAIN Append(w, m) : Append(w, m)[i] = mark}
           n == Len(w) + 1
<1>1. IsFiniteSet(at) /\ Cardinality(at) \in Nat
  <2>1. IsFiniteSet(1 .. Len(w)) /\ at \in SUBSET (1 .. Len(w))
    <3>1. Len(w) \in Int /\ 1 \in Int /\ at \in SUBSET (1 .. Len(w))
      BY Written
    <3>2. QED BY <3>1, FS_Interval
  <2>2. IsFiniteSet(at)
    BY <2>1, FS_Subset
  <2>3. QED BY <2>2, FS_CardinalityType
<1>2. n \notin at
  BY Written
<1>3. CASE m = mark
  <2>1. more = at \cup {n}
    BY <1>3, Written
  <2>2. Cardinality(at \cup {n}) = Cardinality(at) + 1
    BY ONLY <1>1, <1>2, FS_AddElement
  <2>3. QED BY <1>1, <1>3, <2>1, <2>2 DEF Number
<1>4. CASE m # mark
  <2>1. n \notin more /\ DOMAIN Append(w, m) = DOMAIN w \cup {n}
    BY <1>4, Written
  <2>2. \A i \in DOMAIN w : Append(w, m)[i] = w[i]
    BY Written
  <2>3. more = at
    BY <2>1, <2>2
  <2>4. Number(mark, Append(w, m)) = Cardinality(at) /\ Number(mark, w) = Cardinality(at)
    BY <2>3 DEF Number
  <2>5. QED BY <1>1, <1>4, <2>4
<1>5. QED BY <1>3, <1>4

(***************************************************************************)
(* What the frames say                                                     *)
(***************************************************************************)
\* A frame more: a blank, or one that says what the last place says, where no frame so
\* far is in a later one, and only those at the end are in that one.
LEMMA SaysFrame ==
    ASSUME NEW F \in Seq(1 .. NumUnits), NEW w \in Seq(OutSymbols), NEW place, SaysWith(place, F, w),
           NEW f \in 1 .. NumUnits, NEW p \in 0 .. Len(w),
           IF f = kBlank THEN p = 0 ELSE p # 0 /\ w[p] = f,
           p # 0 => \A i \in DOMAIN F : place[i] # 0 =>
               /\ place[i] <= p
               /\ place[i] = p => \A k \in i .. Len(F) : place[k] = p
    PROVE  SaysWith([i \in DOMAIN Append(F, f) |-> IF i = Len(F) + 1 THEN p ELSE place[i]],
                    Append(F, f), w)
<1> DEFINE G == Append(F, f)
           n == Len(F)
           next == [i \in DOMAIN G |-> IF i = n + 1 THEN p ELSE place[i]]
<1>1. /\ n \in Nat /\ DOMAIN F = 1 .. n /\ DOMAIN G = 1 .. n + 1
      /\ \A i \in 1 .. n : G[i] = F[i]
      /\ G[n + 1] = f
  BY Written
<1>2. /\ place \in [1 .. n -> 0 .. Len(w)]
      /\ \A i \in 1 .. n : IF F[i] = kBlank THEN place[i] = 0 ELSE place[i] # 0 /\ w[place[i]] = F[i]
      /\ \A i, j \in 1 .. n : i < j /\ place[i] # 0 /\ place[j] # 0 =>
            /\ place[i] <= place[j]
            /\ place[i] = place[j] => \A k \in i .. j : place[k] = place[i]
      /\ \A q \in DOMAIN w : w[q] \notin Marks => \E i \in 1 .. n : place[i] = q
  BY <1>1 DEF SaysWith
<1>3. /\ \A i \in 1 .. n : i \in 1 .. n + 1 /\ next[i] = place[i]
      /\ next[n + 1] = p
  BY <1>1
<1>4. next \in [DOMAIN G -> 0 .. Len(w)]
  BY <1>1, <1>2
<1> HIDE DEF G, n, next
<1>5. ASSUME NEW i \in DOMAIN G
      PROVE  IF G[i] = kBlank THEN next[i] = 0 ELSE next[i] # 0 /\ w[next[i]] = G[i]
  <2>1. CASE i = n + 1
    BY <1>1, <1>3, <2>1
  <2>2. CASE i # n + 1
    <3>1. i \in 1 .. n
      BY <1>1, <2>2
    <3>2. QED BY <1>1, <1>2, <1>3, <3>1
  <2>3. QED BY <2>1, <2>2
<1>6. ASSUME NEW i \in DOMAIN G, NEW j \in DOMAIN G, i < j, next[i] # 0, next[j] # 0
      PROVE  /\ next[i] <= next[j]
             /\ next[i] = next[j] => \A k \in i .. j : next[k] = next[i]
  <2>1. i \in 1 .. n
    BY <1>1, <1>6
  <2>2. CASE j = n + 1
    <3>1. p # 0 /\ place[i] # 0 /\ next[i] = place[i] /\ next[j] = p
      BY <1>3, <1>6, <2>1, <2>2
    <3>2. place[i] <= p /\ (place[i] = p => \A k \in i .. n : place[k] = p)
      BY <1>1, <2>1, <3>1 DEF n
    <3>3. ASSUME place[i] = p, NEW k \in i .. j PROVE next[k] = p
      <4>1. k = n + 1 \/ (k \in i .. n /\ k \in 1 .. n)
        BY <1>1, <2>1, <2>2
      <4>2. QED BY <1>3, <3>2, <3>3, <4>1
    <3>4. QED BY <3>1, <3>2, <3>3
  <2>3. CASE j # n + 1
    <3>1. j \in 1 .. n
      BY <1>1, <2>3
    <3>2. place[i] # 0 /\ place[j] # 0 /\ next[i] = place[i] /\ next[j] = place[j]
      BY <1>3, <1>6, <2>1, <3>1
    <3>3. \A k \in i .. j : k \in 1 .. n /\ next[k] = place[k]
      BY <1>1, <1>3, <2>1, <3>1
    <3>4. QED BY <1>2, <1>6, <2>1, <3>1, <3>2, <3>3
  <2>4. QED BY <2>2, <2>3
<1>7. ASSUME NEW q \in DOMAIN w, w[q] \notin Marks PROVE \E i \in DOMAIN G : next[i] = q
  <2>1. PICK i \in 1 .. n : place[i] = q
    BY <1>2, <1>7
  <2>2. i \in DOMAIN G /\ next[i] = q
    BY <1>1, <1>3, <2>1
  <2>3. QED BY <2>2
<1>8. QED BY <1>4, <1>5, <1>6, <1>7 DEF SaysWith, G, next, n

\* A mark more says nothing.
LEMMA SaysMark ==
    ASSUME NEW F \in Seq(1 .. NumUnits), NEW w \in Seq(OutSymbols), NEW place, SaysWith(place, F, w),
           NEW m \in Marks \cap OutSymbols
    PROVE  SaysWith(place, F, Append(w, m))
<1> DEFINE v == Append(w, m)
           n == Len(w)
<1>1. /\ n \in Nat /\ DOMAIN w = 1 .. n /\ DOMAIN v = 1 .. n + 1 /\ Len(v) = n + 1
      /\ \A i \in 1 .. n : v[i] = w[i]
      /\ v[n + 1] = m
  BY Written
<1>2. /\ place \in [DOMAIN F -> 0 .. n]
      /\ \A i \in DOMAIN F : IF F[i] = kBlank THEN place[i] = 0 ELSE place[i] # 0 /\ w[place[i]] = F[i]
      /\ \A q \in DOMAIN w : w[q] \notin Marks => \E i \in DOMAIN F : place[i] = q
  BY DEF SaysWith
<1> HIDE DEF v, n
<1>3. place \in [DOMAIN F -> 0 .. Len(v)]
  BY <1>1, <1>2
<1>4. \A i \in DOMAIN F : IF F[i] = kBlank THEN place[i] = 0 ELSE place[i] # 0 /\ v[place[i]] = F[i]
  <2>1. \A i \in DOMAIN F : place[i] # 0 => place[i] \in 1 .. n
    BY <1>1, <1>2
  <2>2. QED BY <1>1, <1>2, <2>1
<1>5. \A q \in DOMAIN v : v[q] \notin Marks => \E i \in DOMAIN F : place[i] = q
  <2>1. \A q \in DOMAIN v : q = n + 1 \/ q \in DOMAIN w
    BY <1>1
  <2>2. QED BY <1>1, <1>2, <2>1
<1>6. QED BY <1>3, <1>4, <1>5 DEF SaysWith, v

\* A unit more, with the first of its frames.
LEMMA SaysUnit ==
    ASSUME NEW F \in Seq(1 .. NumUnits), NEW w \in Seq(OutSymbols), NEW place, SaysWith(place, F, w),
           NEW u \in UnitLabels
    PROVE  SaysWith([i \in DOMAIN Append(F, u) |-> IF i = Len(F) + 1 THEN Len(w) + 1 ELSE place[i]],
                    Append(F, u), Append(w, u))
<1> DEFINE G == Append(F, u)
           v == Append(w, u)
           n == Len(F)
           p == Len(w) + 1
           next == [i \in DOMAIN G |-> IF i = n + 1 THEN p ELSE place[i]]
<1>1. /\ n \in Nat /\ DOMAIN F = 1 .. n /\ DOMAIN G = 1 .. n + 1
      /\ \A i \in 1 .. n : G[i] = F[i]
      /\ G[n + 1] = u
  BY Written, SymbolFacts
<1>2. /\ p \in Nat /\ p - 1 \in Nat /\ DOMAIN w = 1 .. p - 1 /\ DOMAIN v = 1 .. p /\ Len(v) = p
      /\ Len(w) = p - 1
      /\ \A i \in 1 .. p - 1 : v[i] = w[i]
      /\ v[p] = u
  BY Written, SymbolFacts
<1>3. /\ \A i \in 1 .. n : i \in 1 .. n + 1 /\ next[i] = place[i]
      /\ next[n + 1] = p
  BY <1>1
<1> HIDE DEF v, p
<1>4. /\ place \in [1 .. n -> 0 .. p - 1]
      /\ \A i \in 1 .. n : IF F[i] = kBlank THEN place[i] = 0 ELSE place[i] # 0 /\ w[place[i]] = F[i]
      /\ \A i, j \in 1 .. n : i < j /\ place[i] # 0 /\ place[j] # 0 =>
            /\ place[i] <= place[j]
            /\ place[i] = place[j] => \A k \in i .. j : place[k] = place[i]
      /\ \A q \in DOMAIN w : w[q] \notin Marks => \E i \in 1 .. n : place[i] = q
  <2>1. DOMAIN F = 1 .. n /\ Len(w) = p - 1
    BY <1>1, <1>2
  <2>2. SaysWith(place, F, w)
    OBVIOUS
  <2>3. QED BY ONLY <2>1, <2>2 DEF SaysWith
<1>5. next \in [DOMAIN G -> 0 .. Len(v)]
  BY <1>1, <1>2, <1>4
<1> HIDE DEF G, n, next
<1>6. ASSUME NEW i \in DOMAIN G
      PROVE  IF G[i] = kBlank THEN next[i] = 0 ELSE next[i] # 0 /\ v[next[i]] = G[i]
  <2>1. CASE i = n + 1
    <3>1. u # kBlank /\ p # 0
      BY <1>2, SymbolFacts DEF kBlank
    <3>2. QED BY <1>1, <1>2, <1>3, <2>1, <3>1
  <2>2. CASE i # n + 1
    <3>1. i \in 1 .. n
      BY <1>1, <2>2
    <3>2. place[i] # 0 => place[i] \in 1 .. p - 1
      BY <1>2, <1>4, <3>1
    <3>3. QED BY <1>1, <1>2, <1>3, <1>4, <3>1, <3>2
  <2>3. QED BY <2>1, <2>2
<1>7. ASSUME NEW i \in DOMAIN G, NEW j \in DOMAIN G, i < j, next[i] # 0, next[j] # 0
      PROVE  /\ next[i] <= next[j]
             /\ next[i] = next[j] => \A k \in i .. j : next[k] = next[i]
  <2>1. i \in 1 .. n
    BY <1>1, <1>7
  <2>2. CASE j = n + 1
    <3>1. next[i] \in 0 .. p - 1 /\ next[j] = p
      BY <1>3, <1>4, <2>1, <2>2
    <3>2. QED BY <1>2, <3>1
  <2>3. CASE j # n + 1
    <3>1. j \in 1 .. n
      BY <1>1, <2>3
    <3>2. place[i] # 0 /\ place[j] # 0 /\ next[i] = place[i] /\ next[j] = place[j]
      BY <1>3, <1>7, <2>1, <3>1
    <3>3. \A k \in i .. j : k \in 1 .. n /\ next[k] = place[k]
      BY <1>1, <1>3, <2>1, <3>1
    <3>4. QED BY <1>4, <1>7, <2>1, <3>1, <3>2, <3>3
  <2>4. QED BY <2>2, <2>3
<1>8. ASSUME NEW q \in DOMAIN v, v[q] \notin Marks PROVE \E i \in DOMAIN G : next[i] = q
  <2>1. CASE q = p
    <3>1. n + 1 \in DOMAIN G
      BY <1>1
    <3>2. QED BY <1>3, <2>1, <3>1
  <2>2. CASE q # p
    <3>1. q \in DOMAIN w /\ v[q] = w[q]
      BY <1>2, <2>2
    <3>2. PICK i \in 1 .. n : place[i] = q
      BY <1>4, <1>8, <3>1
    <3>3. i \in DOMAIN G /\ next[i] = q
      BY <1>1, <1>3, <3>2
    <3>4. QED BY <3>3
  <2>3. QED BY <2>1, <2>2
<1>9. QED BY <1>5, <1>6, <1>7, <1>8 DEF SaysWith, G, v, next, n, p

(***************************************************************************)
(* The marks                                                               *)
(***************************************************************************)
LEMMA ClosedStays ==
    ASSUME NEW w \in Seq(OutSymbols), NEW m \in OutSymbols, NEW i \in DOMAIN w, ClosedAt(i, w)
    PROVE  ClosedAt(i, Append(w, m))
<1> DEFINE v == Append(w, m)
<1>1. /\ Len(w) \in Nat /\ DOMAIN w = 1 .. Len(w) /\ Len(v) = Len(w) + 1
      /\ \A k \in 1 .. Len(w) : v[k] = w[k]
  BY Written
<1>2. PICK j \in i + 2 .. Len(w) : w[j] = kIsEnd /\ \A k \in i + 1 .. j - 1 : w[k] \in UnitLabels
  BY DEF ClosedAt
<1> HIDE DEF v
<1>3. j \in i + 2 .. Len(v) /\ v[j] = kIsEnd /\ \A k \in i + 1 .. j - 1 : v[k] \in UnitLabels
  <2>1. j \in 1 .. Len(w) /\ \A k \in i + 1 .. j - 1 : k \in 1 .. Len(w)
    BY <1>1
  <2>2. QED BY <1>1, <1>2, <2>1
<1>4. QED BY <1>3 DEF ClosedAt, v

LEMMA OpenGoesOn ==
    ASSUME NEW w \in Seq(OutSymbols), NEW m \in UnitLabels, NEW i \in DOMAIN w, OpenAt(i, w)
    PROVE  OpenAt(i, Append(w, m))
<1> DEFINE v == Append(w, m)
<1>1. /\ Len(w) \in Nat /\ DOMAIN w = 1 .. Len(w) /\ Len(v) = Len(w) + 1
      /\ \A k \in 1 .. Len(w) : v[k] = w[k]
      /\ v[Len(w) + 1] = m
  BY Written, SymbolFacts
<1> HIDE DEF v
<1>2. v[i] = kIsStart
  BY <1>1 DEF OpenAt
<1>3. ASSUME NEW k \in i + 1 .. Len(v) PROVE v[k] \in UnitLabels
  <2>1. k = Len(w) + 1 \/ (k \in 1 .. Len(w) /\ k \in i + 1 .. Len(w))
    BY <1>1
  <2>2. QED BY <1>1, <2>1 DEF OpenAt
<1>4. QED BY <1>2, <1>3 DEF OpenAt, v

LEMMA OpenCloses ==
    ASSUME NEW w \in Seq(OutSymbols), NEW i \in DOMAIN w, OpenAt(i, w), i < Len(w)
    PROVE  ClosedAt(i, Append(w, kIsEnd))
<1> DEFINE v == Append(w, kIsEnd)
           j == Len(w) + 1
<1>1. /\ Len(w) \in Nat /\ DOMAIN w = 1 .. Len(w) /\ Len(v) = j
      /\ \A k \in 1 .. Len(w) : v[k] = w[k]
      /\ v[j] = kIsEnd
  BY Written, SymbolFacts
<1> HIDE DEF v
<1>2. j \in i + 2 .. Len(v) /\ j - 1 = Len(w) /\ \A k \in i + 1 .. Len(w) : k \in 1 .. Len(w)
  BY <1>1
<1>3. \A k \in i + 1 .. j - 1 : v[k] \in UnitLabels
  BY <1>1, <1>2 DEF OpenAt
<1>4. QED BY <1>1, <1>2, <1>3 DEF ClosedAt, v

\* A symbol more: what is put in so far, and the symbol if a start is open.
LEMMA InsertedMore ==
    ASSUME NEW w \in Seq(OutSymbols), NEW m \in OutSymbols
    PROVE  /\ IsFiniteSet(InsertedUnits(w)) /\ Len(w) + 1 \notin InsertedUnits(w)
           /\ m \notin UnitLabels => InsertedUnits(Append(w, m)) = InsertedUnits(w)
           /\ (m \in UnitLabels /\ \E j \in DOMAIN w : OpenAt(j, w)) =>
                InsertedUnits(Append(w, m)) = InsertedUnits(w) \cup {Len(w) + 1}
           /\ (m \in UnitLabels /\ \A j \in DOMAIN w : w[j] = kIsStart => ClosedAt(j, w)) =>
                InsertedUnits(Append(w, m)) = InsertedUnits(w)
<1> DEFINE v == Append(w, m)
           n == Len(w)
           in(s, i) == \E j \in 1 .. i - 1 : s[j] = kIsStart /\ \A k \in j .. i : s[k] # kIsEnd
<1>1. /\ n \in Nat /\ DOMAIN w = 1 .. n /\ DOMAIN v = 1 .. n + 1
      /\ \A k \in 1 .. n : v[k] = w[k]
      /\ v[n + 1] = m
  BY Written
<1>2. /\ InsertedUnits(w) = {i \in 1 .. n : in(w, i) /\ w[i] \in UnitLabels}
      /\ InsertedUnits(v) = {i \in 1 .. n + 1 : in(v, i) /\ v[i] \in UnitLabels}
  BY <1>1 DEF InsertedUnits, Inserted
<1>3. IsFiniteSet(InsertedUnits(w)) /\ n + 1 \notin InsertedUnits(w)
  <2>1. InsertedUnits(w) \in SUBSET (1 .. n) /\ n + 1 \notin 1 .. n
    BY <1>1, <1>2
  <2>2. IsFiniteSet(1 .. n)
    <3>1. 1 \in Int /\ n \in Int
      BY <1>1
    <3>2. QED BY <3>1, FS_Interval
  <2>3. QED BY <2>1, <2>2, FS_Subset
<1>4. \A i \in 1 .. n : in(v, i) <=> in(w, i)
  <2>1. TAKE i \in 1 .. n
  <2>2. /\ \A j \in 1 .. i - 1 : v[j] = w[j]
        /\ \A j \in 1 .. i - 1 : \A k \in j .. i : v[k] = w[k]
    BY <1>1
  <2>3. QED BY <2>2
<1> HIDE DEF v, n, in
<1>5. /\ \A i \in 1 .. n : i \in InsertedUnits(v) <=> i \in InsertedUnits(w)
      /\ n + 1 \in InsertedUnits(v) <=> in(v, n + 1) /\ m \in UnitLabels
      /\ InsertedUnits(v) \subseteq 1 .. n + 1 /\ InsertedUnits(w) \subseteq 1 .. n
  <2>1. \A i \in 1 .. n : i \in 1 .. n + 1
    BY <1>1
  <2>2. n + 1 \in 1 .. n + 1
    BY <1>1
  <2>3. QED BY <1>1, <1>2, <1>4, <2>1, <2>2
<1>6. ASSUME ~in(v, n + 1) \/ m \notin UnitLabels PROVE InsertedUnits(v) = InsertedUnits(w)
  <2>1. n + 1 \notin InsertedUnits(v)
    BY <1>5, <1>6
  <2>2. \A i \in 1 .. n + 1 : i = n + 1 \/ i \in 1 .. n
    BY <1>1
  <2>3. QED BY <1>5, <2>1, <2>2
<1>7. ASSUME in(v, n + 1), m \in UnitLabels
      PROVE  InsertedUnits(v) = InsertedUnits(w) \cup {n + 1}
  <2>1. n + 1 \in InsertedUnits(v)
    BY <1>5, <1>7
  <2>2. \A i \in 1 .. n + 1 : i = n + 1 \/ i \in 1 .. n
    BY <1>1
  <2>3. QED BY <1>5, <2>1, <2>2
<1>8. ASSUME m \in UnitLabels, NEW j \in DOMAIN w, OpenAt(j, w) PROVE in(v, n + 1)
  <2>1. OpenAt(j, v)
    BY <1>8, OpenGoesOn DEF v
  <2>2. Len(v) = n + 1 /\ j \in 1 .. n /\ j \in 1 .. (n + 1) - 1
    BY <1>1, Written DEF v, n
  <2>3. \A k \in j .. n + 1 : k = j \/ k \in j + 1 .. n + 1
    BY <1>1, <2>2
  <2>4. \A k \in j .. n + 1 : v[k] # kIsEnd
    <3>1. v[j] # kIsEnd
      BY <2>1, SymbolFacts DEF OpenAt
    <3>2. \A k \in j + 1 .. n + 1 : v[k] # kIsEnd
      BY <2>1, <2>2, SymbolFacts DEF OpenAt
    <3>3. QED BY <2>3, <3>1, <3>2
  <2>5. QED BY <2>1, <2>2, <2>4 DEF in, OpenAt
<1>9. ASSUME \A j \in DOMAIN w : w[j] = kIsStart => ClosedAt(j, w) PROVE ~in(v, n + 1)
  <2>1. SUFFICES ASSUME NEW j \in 1 .. (n + 1) - 1, v[j] = kIsStart
                 PROVE  \E k \in j .. n + 1 : v[k] = kIsEnd
    BY DEF in
  <2>2. j \in 1 .. n /\ w[j] = kIsStart
    BY <1>1, <2>1
  <2>3. ClosedAt(j, w)
    BY <1>1, <1>9, <2>2
  <2>4. PICK k \in j + 2 .. n : w[k] = kIsEnd
    BY <2>3 DEF ClosedAt, n
  <2>5. k \in 1 .. n /\ k \in j .. n + 1
    BY <1>1, <2>2
  <2>6. QED BY <1>1, <2>4, <2>5
<1>10. QED BY <1>3, <1>6, <1>7, <1>8, <1>9 DEF v, n

\* A state that is in no filler has every start closed.
LEMMA NothingOpen ==
    ASSUME NEW align, NEW w, PairedSoFar(align, w), ~Open(align)
    PROVE  /\ \A i \in DOMAIN w : w[i] = kIsStart => ClosedAt(i, w)
           /\ Number(kIsStart, w) = Number(kIsEnd, w) + 0
<1>1. align # filler_start /\ align # filler_end
  BY DEF Open
<1>2. QED BY <1>1 DEF PairedSoFar

LEMMA PairedOutside ==
    ASSUME NEW w \in Seq(OutSymbols), NEW align, NEW to, PairedSoFar(align, w), ~Open(align), ~Open(to),
           NEW m \in UnitLabels \cup {kDeletion}
    PROVE  PairedSoFar(to, Append(w, m))
<1> DEFINE v == Append(w, m)
<1>1. m \in OutSymbols /\ m # kIsStart /\ m # kIsEnd
  BY SymbolFacts
<1>2. /\ Len(w) \in Nat /\ DOMAIN w = 1 .. Len(w) /\ DOMAIN v = 1 .. Len(w) + 1
      /\ \A i \in 1 .. Len(w) : v[i] = w[i]
      /\ v[Len(w) + 1] = m
  BY <1>1, Written
<1>3. Number(kIsStart, v) = Number(kIsEnd, v) + 0
  <2>1. Number(kIsStart, v) = Number(kIsStart, w) + 0 /\ Number(kIsEnd, v) = Number(kIsEnd, w) + 0
    BY <1>1, NumberMore
  <2>2. Number(kIsStart, w) \in Nat /\ Number(kIsEnd, w) \in Nat
    BY <1>1, NumberMore
  <2>3. QED BY <2>1, <2>2, NothingOpen
<1>4. \A i \in DOMAIN v : v[i] = kIsStart => ClosedAt(i, v)
  <2>1. TAKE i \in DOMAIN v
  <2>2. HAVE v[i] = kIsStart
  <2>3. i \in DOMAIN w /\ w[i] = kIsStart
    BY <1>1, <1>2, <2>2
  <2>4. ClosedAt(i, w)
    BY <2>3, NothingOpen
  <2>5. QED BY <1>1, <2>3, <2>4, ClosedStays
<1>5. QED BY <1>3, <1>4 DEF PairedSoFar

LEMMA PairedStart ==
    ASSUME NEW w \in Seq(OutSymbols), NEW align, PairedSoFar(align, w), ~Open(align)
    PROVE  PairedSoFar(filler_start, Append(w, kIsStart))
<1> DEFINE v == Append(w, kIsStart)
           n == Len(w) + 1
<1>1. kIsStart \in OutSymbols /\ kIsStart # kIsEnd
  BY SymbolFacts
<1>2. /\ Len(w) \in Nat /\ DOMAIN w = 1 .. Len(w) /\ DOMAIN v = 1 .. n /\ Len(v) = n
      /\ \A i \in 1 .. Len(w) : v[i] = w[i]
      /\ v[n] = kIsStart
  BY <1>1, Written
<1>3. Number(kIsStart, v) = Number(kIsEnd, v) + 1
  <2>1. Number(kIsStart, v) = Number(kIsStart, w) + 1 /\ Number(kIsEnd, v) = Number(kIsEnd, w) + 0
    BY <1>1, NumberMore
  <2>2. Number(kIsStart, w) \in Nat /\ Number(kIsEnd, w) \in Nat
    BY <1>1, NumberMore
  <2>3. QED BY <2>1, <2>2, NothingOpen
<1>4. n \in DOMAIN v /\ OpenAt(n, v)
  <2>1. \A k \in n + 1 .. Len(v) : FALSE
    BY <1>2
  <2>2. QED BY <1>2, <2>1 DEF OpenAt
<1> HIDE DEF v, n
<1>5. \A i \in DOMAIN v : v[i] = kIsStart => ClosedAt(i, v) \/ OpenAt(i, v)
  <2>1. TAKE i \in DOMAIN v
  <2>2. HAVE v[i] = kIsStart
  <2>3. CASE i = n
    BY <1>4, <2>3
  <2>4. CASE i # n
    <3>1. i \in DOMAIN w /\ w[i] = kIsStart
      BY <1>2, <2>2, <2>4 DEF n
    <3>2. ClosedAt(i, w)
      BY <3>1, NothingOpen
    <3>3. QED BY <1>1, <3>1, <3>2, ClosedStays DEF v
  <2>5. QED BY <2>3, <2>4
<1>6. QED BY <1>3, <1>4, <1>5 DEF PairedSoFar, Open, v

LEMMA PairedUnit ==
    ASSUME NEW w \in Seq(OutSymbols), PairedSoFar(filler_start, w), NEW u \in UnitLabels
    PROVE  PairedSoFar(filler_end, Append(w, u))
<1> DEFINE v == Append(w, u)
<1>1. u \in OutSymbols /\ u # kIsStart /\ u # kIsEnd
  BY SymbolFacts
<1>2. /\ Len(w) \in Nat /\ DOMAIN w = 1 .. Len(w) /\ DOMAIN v = 1 .. Len(w) + 1 /\ Len(v) = Len(w) + 1
      /\ \A i \in 1 .. Len(w) : v[i] = w[i]
      /\ v[Len(w) + 1] = u
  BY <1>1, Written
<1>3. Number(kIsStart, v) = Number(kIsEnd, v) + 1
  <2>1. Number(kIsStart, v) = Number(kIsStart, w) + 0 /\ Number(kIsEnd, v) = Number(kIsEnd, w) + 0
    BY <1>1, NumberMore
  <2>2. Number(kIsStart, w) \in Nat /\ Number(kIsEnd, w) \in Nat
    BY <1>1, NumberMore
  <2>3. Number(kIsStart, w) = Number(kIsEnd, w) + 1
    BY DEF PairedSoFar, Open
  <2>4. QED BY <2>1, <2>2, <2>3
<1>4. /\ \A i \in DOMAIN w : w[i] = kIsStart => ClosedAt(i, w) \/ OpenAt(i, w)
      /\ \E i \in DOMAIN w : OpenAt(i, w)
  BY DEF PairedSoFar, Open
<1> HIDE DEF v
<1>5. \A i \in DOMAIN v : v[i] = kIsStart => ClosedAt(i, v) \/ (OpenAt(i, v) /\ i < Len(v))
  <2>1. TAKE i \in DOMAIN v
  <2>2. HAVE v[i] = kIsStart
  <2>3. i \in DOMAIN w /\ w[i] = kIsStart /\ i < Len(v)
    BY <1>1, <1>2, <2>2
  <2>4. CASE ClosedAt(i, w)
    BY <1>1, <2>3, <2>4, ClosedStays DEF v
  <2>5. CASE OpenAt(i, w)
    BY <2>3, <2>5, OpenGoesOn DEF v
  <2>6. QED BY <1>4, <2>3, <2>4, <2>5
<1>6. \E i \in DOMAIN v : OpenAt(i, v)
  <2>1. PICK i \in DOMAIN w : OpenAt(i, w)
    BY <1>4
  <2>2. i \in DOMAIN v
    BY <1>2
  <2>3. QED BY <2>1, <2>2, OpenGoesOn DEF v
<1>7. QED BY <1>3, <1>5, <1>6 DEF PairedSoFar, Open, v

LEMMA PairedEnd ==
    ASSUME NEW w \in Seq(OutSymbols), PairedSoFar(filler_end, w), NEW to, ~Open(to)
    PROVE  PairedSoFar(to, Append(w, kIsEnd))
<1> DEFINE v == Append(w, kIsEnd)
<1>1. kIsEnd \in OutSymbols /\ kIsStart # kIsEnd
  BY SymbolFacts
<1>2. /\ Len(w) \in Nat /\ DOMAIN w = 1 .. Len(w) /\ DOMAIN v = 1 .. Len(w) + 1
      /\ \A i \in 1 .. Len(w) : v[i] = w[i]
      /\ v[Len(w) + 1] = kIsEnd
  BY <1>1, Written
<1>3. Number(kIsStart, v) = Number(kIsEnd, v) + 0
  <2>1. Number(kIsStart, v) = Number(kIsStart, w) + 0 /\ Number(kIsEnd, v) = Number(kIsEnd, w) + 1
    BY <1>1, NumberMore
  <2>2. Number(kIsStart, w) \in Nat /\ Number(kIsEnd, w) \in Nat
    BY <1>1, NumberMore
  <2>3. Number(kIsStart, w) = Number(kIsEnd, w) + 1
    BY DEF PairedSoFar, Open
  <2>4. QED BY <2>1, <2>2, <2>3
<1>4. \A i \in DOMAIN w : w[i] = kIsStart => ClosedAt(i, w) \/ (OpenAt(i, w) /\ i < Len(w))
  BY DEF PairedSoFar, filler_start, filler_end
<1> HIDE DEF v
<1>5. \A i \in DOMAIN v : v[i] = kIsStart => ClosedAt(i, v)
  <2>1. TAKE i \in DOMAIN v
  <2>2. HAVE v[i] = kIsStart
  <2>3. i \in DOMAIN w /\ w[i] = kIsStart
    BY <1>1, <1>2, <2>2
  <2>4. CASE ClosedAt(i, w)
    BY <1>1, <2>3, <2>4, ClosedStays DEF v
  <2>5. CASE OpenAt(i, w) /\ i < Len(w)
    BY <2>3, <2>5, OpenCloses DEF v
  <2>6. QED BY <1>4, <2>3, <2>4, <2>5
<1>6. QED BY <1>3, <1>5 DEF PairedSoFar, v

LEMMA PairedAgain ==
    ASSUME NEW w, PairedSoFar(filler_end, w)
    PROVE  PairedSoFar(filler_start, w)
BY DEF PairedSoFar, Open

(***************************************************************************)
(* The penalties                                                           *)
(***************************************************************************)
LEMMA PaidMore ==
    ASSUME NEW w \in Seq(OutSymbols), NEW m \in OutSymbols, NEW cost \in Nat, PaidSoFar(cost, w),
           NEW weight \in {0, 1},
           \/ m \in {kIsStart, kIsEnd} /\ weight = 0
           \/ m = kDeletion /\ weight = 1
           \/ m \in UnitLabels /\ weight = 0 /\ \A j \in DOMAIN w : w[j] = kIsStart => ClosedAt(j, w)
           \/ m \in UnitLabels /\ weight = 1 /\ \E j \in DOMAIN w : OpenAt(j, w)
    PROVE  PaidSoFar(cost + weight, Append(w, m))
<1> DEFINE put == InsertedUnits(w)
           more == InsertedUnits(Append(w, m))
           n == Len(w) + 1
<1>1. IsFiniteSet(put) /\ n \notin put /\ Cardinality(put) \in Nat
  BY InsertedMore, FS_CardinalityType
<1>2. Cardinality(put \cup {n}) = Cardinality(put) + 1
  <2> HIDE DEF put, n
  <2>1. QED BY <1>1, FS_AddElement
<1>3. /\ Number(kDeletion, w) \in Nat
      /\ Number(kDeletion, Append(w, m)) = Number(kDeletion, w) + (IF m = kDeletion THEN 1 ELSE 0)
  BY NumberMore
<1>4. cost = Number(kDeletion, w) + Cardinality(put)
  BY DEF PaidSoFar
<1>5. CASE m \in {kIsStart, kIsEnd} /\ weight = 0
  <2>1. m \notin UnitLabels /\ m # kDeletion
    BY <1>5, SymbolFacts
  <2>2. more = put
    BY <2>1, InsertedMore
  <2>3. QED BY <1>1, <1>3, <1>4, <1>5, <2>1, <2>2 DEF PaidSoFar
<1>6. CASE m = kDeletion /\ weight = 1
  <2>1. m \notin UnitLabels
    BY <1>6, SymbolFacts
  <2>2. more = put
    BY <2>1, InsertedMore
  <2>3. QED BY <1>1, <1>3, <1>4, <1>6, <2>2 DEF PaidSoFar
<1>7. CASE m \in UnitLabels /\ weight = 0 /\ \A j \in DOMAIN w : w[j] = kIsStart => ClosedAt(j, w)
  <2>1. m # kDeletion
    BY <1>7, SymbolFacts
  <2>2. more = put
    BY <1>7, InsertedMore
  <2>3. QED BY <1>1, <1>3, <1>4, <1>7, <2>1, <2>2 DEF PaidSoFar
<1>8. CASE m \in UnitLabels /\ weight = 1 /\ \E j \in DOMAIN w : OpenAt(j, w)
  <2>1. m # kDeletion
    BY <1>8, SymbolFacts
  <2>2. more = put \cup {n}
    BY <1>8, InsertedMore
  <2>3. QED BY <1>1, <1>2, <1>3, <1>4, <1>8, <2>1, <2>2 DEF PaidSoFar
<1>9. QED BY <1>5, <1>6, <1>7, <1>8

(***************************************************************************)
(* The order                                                               *)
(***************************************************************************)
LEMMA InOrderMore ==
    ASSUME NEW of \in Seq(UnitLabels), NEW w \in Seq(OutSymbols), NEW i \in 0 .. Len(of) - 1,
           InOrderSoFar(of, PlaceState(i), w), NEW m \in {of[i + 1], kDeletion}
    PROVE  InOrderSoFar(of, PlaceState(i + 1), Append(w, m))
<1> DEFINE v == Append(w, m)
<1>1. m \in OutSymbols
  <2>1. i + 1 \in 1 .. Len(of)
    OBVIOUS
  <2>2. of[i + 1] \in UnitLabels
    BY <2>1
  <2>3. QED BY <2>2, SymbolFacts
<1>2. /\ Len(w) \in Nat /\ DOMAIN w = 1 .. Len(w) /\ DOMAIN v = 1 .. Len(w) + 1 /\ Len(v) = Len(w) + 1
      /\ \A k \in 1 .. Len(w) : v[k] = w[k]
      /\ v[Len(w) + 1] = m
  BY <1>1, Written
<1> HIDE DEF v
<1>3. SUFFICES ASSUME \A k \in DOMAIN v : v[k] # kIsStart
               PROVE  /\ Len(v) <= Len(of) /\ PlaceState(i + 1) = PlaceState(Len(v))
                      /\ \A k \in DOMAIN v : v[k] \in {of[k], kDeletion}
  BY DEF InOrderSoFar, v
<1>4. \A k \in DOMAIN w : w[k] # kIsStart
  <2>1. \A k \in DOMAIN w : k \in DOMAIN v /\ v[k] = w[k]
    BY <1>2
  <2>2. QED BY <1>3, <2>1
<1>5. /\ Len(w) <= Len(of) /\ PlaceState(i) = PlaceState(Len(w))
      /\ \A k \in DOMAIN w : w[k] \in {of[k], kDeletion}
  BY <1>4 DEF InOrderSoFar
<1>6. i = Len(w)
  <2>1. Len(of) \in Nat /\ i \in 0 .. Len(of) /\ Len(w) \in 0 .. Len(of)
    BY <1>2, <1>5
  <2>2. QED BY <1>5, <2>1, PlaceFacts
<1>7. \A k \in DOMAIN v : v[k] \in {of[k], kDeletion}
  <2>1. \A k \in DOMAIN v : k = Len(w) + 1 \/ k \in DOMAIN w
    BY <1>2
  <2>2. QED BY <1>2, <1>5, <1>6, <2>1
<1>8. QED BY <1>2, <1>6, <1>7

LEMMA NotInOrder ==
    ASSUME NEW of, NEW w \in Seq(OutSymbols), NEW m \in OutSymbols, NEW align,
           m = kIsStart \/ \E i \in DOMAIN w : OpenAt(i, w)
    PROVE  InOrderSoFar(of, align, Append(w, m))
<1>1. \E i \in DOMAIN Append(w, m) : Append(w, m)[i] = kIsStart
  <2>1. CASE m = kIsStart
    BY <2>1, Written
  <2>2. CASE \E i \in DOMAIN w : OpenAt(i, w)
    <3>1. PICK i \in DOMAIN w : OpenAt(i, w)
      BY <2>2
    <3>2. i \in DOMAIN Append(w, m) /\ Append(w, m)[i] = w[i]
      BY Written
    <3>3. QED BY <3>1, <3>2 DEF OpenAt
  <2>3. QED BY <2>1, <2>2
<1>2. QED BY <1>1 DEF InOrderSoFar

LEMMA NotInOrderAgain ==
    ASSUME NEW of, NEW w, NEW align, \E i \in DOMAIN w : OpenAt(i, w)
    PROVE  InOrderSoFar(of, align, w)
BY DEF InOrderSoFar, OpenAt

(***************************************************************************)
(* The invariant                                                           *)
(***************************************************************************)
\* MapToLabel leaves out what the unit table lacks.
LEMMA LabelsFacts ==
    ASSUME NEW text \in Seq(0 .. NumUnits - 1)
    PROVE  MapToLabel(text) \in Seq(UnitLabels)
<1> DEFINE n == Len(text)
           S == 0 .. n
           V == Seq(UnitLabels)
           rank == [s \in S |-> s]
           stop == {0}
           base == [s \in S |-> <<>>]
           prev == [s \in S |-> IF s = 0 THEN 0 ELSE s - 1]
           step == [s \in S |-> [l \in V |-> IF s = 0 \/ text[s] = 0 THEN l ELSE Append(l, text[s] + 1)]]
           IsLabelled(g) == g = [k \in 0 .. Len(text) |->
                IF k = 0 THEN <<>> ELSE IF text[k] = 0 THEN g[k - 1] ELSE Append(g[k - 1], text[k] + 1)]
           labelled == CHOOSE g : IsLabelled(g)
<1>1. n \in Nat /\ rank \in [S -> Nat] /\ base \in [S -> V] /\ prev \in [S -> S]
  OBVIOUS
<1>2. step \in [S -> [V -> V]]
  <2>1. ASSUME NEW s \in S, NEW l \in V, ~(s = 0 \/ text[s] = 0) PROVE Append(l, text[s] + 1) \in V
    <3>1. s \in 1 .. n
      BY <2>1, <1>1
    <3>2. text[s] \in 0 .. NumUnits - 1 /\ text[s] # 0
      BY <2>1, <3>1, ElementOfSeq
    <3>3. text[s] + 1 \in UnitLabels
      BY <3>2, SymbolFacts DEF UnitLabels
    <3>4. QED BY <3>3, AppendProperties
  <2>2. QED BY <2>1
<1>3. GetsSmaller(S, rank, stop, prev)
  BY <1>1 DEF GetsSmaller
<1>4. PICK f : IsRecursive(f, S, V, stop, base, prev, step)
  <2> HIDE DEF S, V, rank, stop, base, prev, step
  <2>1. QED BY <1>1, <1>2, <1>3, Recursion
<1>5. f \in [S -> V]
  BY <1>4 DEF IsRecursive
<1>6. ASSUME NEW k \in S
      PROVE  f[k] = IF k = 0 THEN <<>> ELSE IF text[k] = 0 THEN f[k - 1] ELSE Append(f[k - 1], text[k] + 1)
  <2>1. f[k] = IF k \in stop THEN base[k] ELSE step[k][f[prev[k]]]
    <3> HIDE DEF stop, base, step, prev
    <3>1. QED BY <1>4 DEF IsRecursive
  <2>2. CASE k = 0
    BY <2>1, <2>2
  <2>3. CASE k # 0
    <3>1. prev[k] = k - 1 /\ k - 1 \in S
      BY <1>1, <2>3
    <3>2. f[k - 1] \in V
      BY <1>5, <3>1
    <3>3. step[k][f[k - 1]] = IF text[k] = 0 THEN f[k - 1] ELSE Append(f[k - 1], text[k] + 1)
      BY <2>3, <3>2
    <3>4. f[k] = step[k][f[k - 1]]
      <4> HIDE DEF step, prev
      <4>1. QED BY <2>1, <2>3, <3>1
    <3>5. QED BY <2>3, <3>3, <3>4
  <2>4. QED BY <2>2, <2>3
<1>7. f = [k \in S |-> f[k]]
  BY <1>5
<1>8. IsLabelled(f)
  BY <1>6, <1>7
<1>9. IsLabelled(labelled)
  <2> HIDE DEF IsLabelled
  <2>1. QED BY <1>8
<1>10. MapToLabel(text) = labelled[Len(text)]
  BY DEF MapToLabel
<1> HIDE DEF labelled
<1>11. ASSUME NEW k \in S
       PROVE  labelled[k] = IF k = 0 THEN <<>> ELSE IF text[k] = 0 THEN labelled[k - 1]
                            ELSE Append(labelled[k - 1], text[k] + 1)
  BY <1>9
<1> DEFINE Good == {k \in Nat : k \in S => labelled[k] \in V}
<1>12. ASSUME NEW k \in Nat, \A j \in 0 .. k - 1 : j \in Good PROVE k \in Good
  <2>1. SUFFICES ASSUME k \in S PROVE labelled[k] \in V
    OBVIOUS
  <2>2. CASE k = 0
    <3>1. labelled[k] = <<>>
      BY <1>11, <2>1, <2>2
    <3>2. QED BY <3>1
  <2>3. CASE k # 0
    <3>1. k - 1 \in 0 .. k - 1 /\ k - 1 \in S /\ k \in 1 .. n
      BY <1>1, <2>1, <2>3
    <3>2. labelled[k - 1] \in V
      BY <1>12, <3>1
    <3>3. CASE text[k] = 0
      BY <1>11, <2>1, <2>3, <3>2, <3>3
    <3>4. CASE text[k] # 0
      <4>1. text[k] \in 0 .. NumUnits - 1
        BY <3>1, ElementOfSeq
      <4>2. text[k] + 1 \in UnitLabels
        BY <3>4, <4>1, SymbolFacts DEF UnitLabels
      <4>3. Append(labelled[k - 1], text[k] + 1) \in V
        BY <3>2, <4>2, AppendProperties
      <4>4. QED BY <1>11, <2>1, <2>3, <3>4, <4>3
    <3>5. QED BY <3>3, <3>4
  <2>4. QED BY <2>2, <2>3
<1>13. \A k \in Nat : k \in Good
  <2> HIDE DEF Good
  <2>1. QED BY <1>12, StrongInduction
<1>14. n \in Good /\ n \in S
  BY <1>1, <1>13
<1>15. QED BY <1>10, <1>14

LEMMA InitLabelIInv == LabelInit => LabelIInv
<1> SUFFICES ASSUME LabelInit PROVE LabelIInv
  OBVIOUS
<1>1. PICK text \in Texts : labels = MapToLabel(text)
  BY DEF LabelInit
<1>2. labels \in Seq(UnitLabels)
  BY <1>1, LabelsFacts, LabelsAssumption
<1>3. /\ path.ctc = 1 /\ path.align = PlaceState(0) /\ path.frames = <<>> /\ path.written = <<>>
      /\ path.cost = 0
      /\ path \in [ctc : {path.ctc}, align : {path.align}, frames : {path.frames},
                   written : {path.written}, cost : {0}, arcs : {0}]
  BY DEF LabelInit, CompileCtcFst, CompileAlignFst, PlaceState
<1>4. PathTypes
  <2>1. path.ctc \in 1 .. NumUnits /\ path.align \in 1 .. 3 + Len(labels)
    BY <1>2, <1>3, SymbolFacts DEF PlaceState
  <2>2. path.frames \in Seq(1 .. NumUnits) /\ path.written \in Seq(OutSymbols)
    BY <1>3
  <2>3. QED BY <1>2, <1>3, <2>1, <2>2 DEF PathTypes, LabelInit
<1>5. SaysSoFar(1, <<>>, <<>>)
  <2>1. SaysWith([i \in DOMAIN <<>> |-> 0], <<>>, <<>>)
    <3>1. DOMAIN <<>> = {}
      OBVIOUS
    <3>2. QED BY <3>1 DEF SaysWith
  <2>2. QED BY <2>1 DEF SaysSoFar
<1>6. \A mark : Number(mark, <<>>) = 0
  <2>1. \A mark : {i \in DOMAIN <<>> : (<<>>)[i] = mark} = {}
    OBVIOUS
  <2>2. QED BY <2>1, FS_EmptySet DEF Number
<1>7. ~Open(PlaceState(0))
  BY DEF PlaceState, Open, filler_start, filler_end
<1>8. PairedSoFar(PlaceState(0), <<>>)
  <2>1. Number(kIsStart, <<>>) = 0 /\ Number(kIsEnd, <<>>) = 0
    BY <1>6
  <2>2. DOMAIN <<>> = {}
    OBVIOUS
  <2>3. QED BY <1>7, <2>1, <2>2 DEF PairedSoFar
<1>9. PaidSoFar(0, <<>>)
  <2>1. InsertedUnits(<<>>) = {}
    BY DEF InsertedUnits, Inserted
  <2>2. Number(kDeletion, <<>>) = 0 /\ Cardinality({}) = 0
    BY <1>6, FS_EmptySet
  <2>3. QED BY <2>1, <2>2 DEF PaidSoFar
<1>10. InOrderSoFar(labels, PlaceState(0), <<>>)
  <2>1. Len(<<>>) = 0 /\ DOMAIN <<>> = {} /\ 0 <= Len(labels)
    BY <1>2
  <2>2. QED BY <2>1 DEF InOrderSoFar
<1>11. QED BY <1>3, <1>4, <1>5, <1>8, <1>9, <1>10 DEF LabelIInv

LEMMA TypesNow ==
    ASSUME PathTypes
    PROVE  /\ labels \in Seq(UnitLabels) /\ Len(labels) \in Nat
           /\ path.ctc \in 1 .. NumUnits /\ path.align \in 1 .. 3 + Len(labels)
           /\ path.frames \in Seq(1 .. NumUnits) /\ path.written \in Seq(OutSymbols)
           /\ path.cost \in Nat
BY DEF PathTypes

\* What the next state has to have.
LEMMA LabelIInvNext ==
    ASSUME PathTypes, LabelNext,
           path'.ctc \in 1 .. NumUnits, path'.align \in 1 .. 3 + Len(labels),
           path'.frames \in Seq(1 .. NumUnits), path'.written \in Seq(OutSymbols), path'.cost \in Nat,
           SaysSoFar(path'.ctc, path'.frames, path'.written),
           PairedSoFar(path'.align, path'.written),
           PaidSoFar(path'.cost, path'.written),
           InOrderSoFar(labels, path'.align, path'.written)
    PROVE  LabelIInv'
<1>1. /\ path' \in [ctc : {path'.ctc}, align : {path'.align}, frames : {path'.frames},
                    written : {path'.written}, cost : {path'.cost}, arcs : Nat]
      /\ UNCHANGED <<labels, ctc_fst, align_fst>>
  BY LabelStepCases
<1>2. path' \in [ctc : 1 .. NumUnits, align : 1 .. 3 + Len(labels), frames : Seq(1 .. NumUnits),
                 written : Seq(OutSymbols), cost : Nat, arcs : Nat]
  BY <1>1
<1>3. PathTypes'
  BY <1>1, <1>2 DEF PathTypes
<1>4. InOrderSoFar(labels', path'.align, path'.written)
  BY <1>1
<1>5. QED BY <1>3, <1>4 DEF LabelIInv

LEMMA BlankKeeps == LabelIInv /\ LabelNext /\ ReadBlank => LabelIInv'
<1> SUFFICES ASSUME LabelIInv, LabelNext, ReadBlank PROVE LabelIInv'
  OBVIOUS
<1> DEFINE F == path.frames
           w == path.written
<1>1. PathTypes
  BY DEF LabelIInv
<1>2. /\ path.ctc = 1 /\ path'.ctc = 1 /\ path'.align = path.align
      /\ path'.frames = Append(F, kBlank) /\ path'.written = w /\ path'.cost = path.cost
  BY DEF ReadBlank, Reads
<1>3. PICK place : SaysWith(place, F, w)
  BY DEF LabelIInv, SaysSoFar
<1>4. kBlank \in 1 .. NumUnits /\ 0 \in 0 .. Len(w) /\ Append(F, kBlank) \in Seq(1 .. NumUnits)
  <2>1. kBlank \in 1 .. NumUnits
    BY SymbolFacts DEF kBlank
  <2>2. QED BY <1>1, <2>1, TypesNow, AppendProperties
<1>5. SaysWith([i \in DOMAIN Append(F, kBlank) |-> IF i = Len(F) + 1 THEN 0 ELSE place[i]],
               Append(F, kBlank), w)
  BY <1>1, <1>3, <1>4, TypesNow, SaysFrame
<1>6. SaysSoFar(1, Append(F, kBlank), w)
  BY <1>5 DEF SaysSoFar
<1>7. QED BY <1>1, <1>2, <1>4, <1>6, TypesNow, LabelIInvNext DEF LabelIInv

LEMMA AgainKeeps == LabelIInv /\ LabelNext /\ ReadAgain => LabelIInv'
<1> SUFFICES ASSUME LabelIInv, LabelNext, ReadAgain PROVE LabelIInv'
  OBVIOUS
<1> DEFINE F == path.frames
           w == path.written
           u == path.ctc
           n == Len(F)
<1>1. PathTypes
  BY DEF LabelIInv
<1>2. /\ u \in UnitLabels /\ path'.ctc = u /\ path'.align = path.align
      /\ path'.frames = Append(F, u) /\ path'.written = w /\ path'.cost = path.cost
  BY DEF ReadAgain, Reads
<1>3. /\ F \in Seq(1 .. NumUnits) /\ w \in Seq(OutSymbols) /\ u \in 1 .. NumUnits
      /\ u # 1 /\ u # kBlank /\ Len(w) \in Nat
  BY <1>1, <1>2, TypesNow, SymbolFacts DEF kBlank
<1>4. PICK place : SaysWith(place, F, w) /\ F # <<>> /\ F[n] = u
  BY <1>3 DEF LabelIInv, SaysSoFar
<1>5. n \in DOMAIN F /\ n \in Nat /\ DOMAIN F = 1 .. n
  BY <1>3, <1>4
<1> DEFINE p == place[n]
<1> HIDE DEF F, w, u, n
<1>6. p \in 0 .. Len(w) /\ p # 0 /\ w[p] = u
  BY <1>3, <1>4, <1>5 DEF SaysWith
<1>7. ASSUME NEW i \in DOMAIN F, place[i] # 0
      PROVE  place[i] <= p /\ (place[i] = p => \A k \in i .. n : place[k] = p)
  <2>1. CASE i = n
    <3>1. \A k \in i .. n : k = n
      BY <1>5, <2>1
    <3>2. QED BY <1>6, <2>1, <3>1
  <2>2. CASE i # n
    <3>1. i < n
      BY <1>5, <2>2
    <3>2. QED BY <1>4, <1>5, <1>6, <1>7, <3>1 DEF SaysWith
  <2>3. QED BY <2>1, <2>2
<1> HIDE DEF p
<1>8. SaysWith([i \in DOMAIN Append(F, u) |-> IF i = Len(F) + 1 THEN p ELSE place[i]], Append(F, u), w)
  <2>1. IF u = kBlank THEN p = 0 ELSE p # 0 /\ w[p] = u
    BY <1>3, <1>6
  <2>2. p # 0 => \A i \in DOMAIN F : place[i] # 0 =>
          place[i] <= p /\ (place[i] = p => \A k \in i .. Len(F) : place[k] = p)
    BY <1>7 DEF n
  <2>3. QED BY <1>3, <1>4, <1>6, <2>1, <2>2, SaysFrame
<1>9. Append(F, u) \in Seq(1 .. NumUnits) /\ Append(F, u) # <<>> /\ Append(F, u)[Len(Append(F, u))] = u
  BY <1>3, AppendProperties
<1>10. SaysSoFar(u, Append(F, u), w)
  BY <1>8, <1>9 DEF SaysSoFar
<1>11. QED BY <1>1, <1>2, <1>3, <1>9, <1>10, TypesNow, LabelIInvNext DEF LabelIInv, F, w

LEMMA UnitEndsKeeps == LabelIInv /\ LabelNext /\ UnitEnds => LabelIInv'
<1> SUFFICES ASSUME LabelIInv, LabelNext, UnitEnds PROVE LabelIInv'
  OBVIOUS
<1>1. PathTypes
  BY DEF LabelIInv
<1>2. SaysSoFar(1, path.frames, path.written)
  BY DEF LabelIInv, SaysSoFar
<1>3. 1 \in 1 .. NumUnits
  BY SymbolFacts
<1>4. QED BY <1>1, <1>2, <1>3, TypesNow, LabelIInvNext DEF LabelIInv, UnitEnds

LEMMA FillerGoesOnKeeps == LabelIInv /\ LabelNext /\ FillerGoesOn => LabelIInv'
<1> SUFFICES ASSUME LabelIInv, LabelNext, FillerGoesOn PROVE LabelIInv'
  OBVIOUS
<1>1. PathTypes
  BY DEF LabelIInv
<1>2. /\ path'.ctc = path.ctc /\ path'.align = filler_start /\ path'.frames = path.frames
      /\ path'.written = path.written /\ path'.cost = path.cost
  BY DEF FillerGoesOn
<1>3. PairedSoFar(filler_end, path.written)
  BY DEF LabelIInv, FillerGoesOn
<1>4. PairedSoFar(filler_start, path.written) /\ \E i \in DOMAIN path.written : OpenAt(i, path.written)
  BY <1>3, PairedAgain DEF PairedSoFar, Open
<1>5. InOrderSoFar(labels, filler_start, path.written)
  BY <1>4, NotInOrderAgain
<1>6. filler_start \in 1 .. 3 + Len(labels)
  BY <1>1, TypesNow, PlaceFacts
<1>7. QED BY <1>1, <1>2, <1>4, <1>5, <1>6, TypesNow, LabelIInvNext DEF LabelIInv

\* A mark changes nothing in what the frames say.
LEMMA MarkSays ==
    ASSUME LabelIInv, NEW m \in {kDeletion, kIsStart, kIsEnd}
    PROVE  /\ Append(path.written, m) \in Seq(OutSymbols)
           /\ SaysSoFar(path.ctc, path.frames, Append(path.written, m))
<1>1. PathTypes
  BY DEF LabelIInv
<1>2. m \in Marks \cap OutSymbols
  BY SymbolFacts
<1>3. PICK place : /\ SaysWith(place, path.frames, path.written)
                   /\ path.ctc # 1 => path.frames # <<>> /\ path.frames[Len(path.frames)] = path.ctc
  BY DEF LabelIInv, SaysSoFar
<1>4. SaysWith(place, path.frames, Append(path.written, m))
  BY <1>1, <1>2, <1>3, TypesNow, SaysMark
<1>5. Append(path.written, m) \in Seq(OutSymbols)
  BY <1>1, <1>2, TypesNow, AppendProperties
<1>6. QED BY <1>3, <1>4, <1>5 DEF SaysSoFar

LEMMA FillerStartsKeeps == LabelIInv /\ LabelNext /\ FillerStarts => LabelIInv'
<1> SUFFICES ASSUME LabelIInv, LabelNext, FillerStarts PROVE LabelIInv'
  OBVIOUS
<1> DEFINE v == Append(path.written, kIsStart)
<1>1. PathTypes
  BY DEF LabelIInv
<1>2. /\ ~Open(path.align) /\ path'.align = filler_start /\ path'.written = v
      /\ path'.ctc = path.ctc /\ path'.frames = path.frames /\ path'.cost = path.cost
  BY DEF FillerStarts, Writes
<1>3. v \in Seq(OutSymbols) /\ SaysSoFar(path.ctc, path.frames, v)
  BY MarkSays
<1>4. PairedSoFar(filler_start, v)
  BY <1>1, <1>2, TypesNow, PairedStart DEF LabelIInv
<1>5. PaidSoFar(path.cost, v)
  <2>1. PaidSoFar(path.cost + 0, v)
    BY <1>1, TypesNow, SymbolFacts, PaidMore DEF LabelIInv
  <2>2. path.cost + 0 = path.cost
    BY <1>1, TypesNow
  <2>3. QED BY <2>1, <2>2
<1>6. InOrderSoFar(labels, filler_start, v)
  BY <1>1, TypesNow, SymbolFacts, NotInOrder
<1>7. filler_start \in 1 .. 3 + Len(labels)
  BY <1>1, TypesNow, PlaceFacts
<1>8. QED BY <1>1, <1>2, <1>3, <1>4, <1>5, <1>6, <1>7, TypesNow, LabelIInvNext

LEMMA FillerEndsKeeps ==
    ASSUME LabelIInv, LabelNext, NEW i \in 0 .. Len(labels), FillerEnds(i)
    PROVE  LabelIInv'
<1> DEFINE v == Append(path.written, kIsEnd)
<1>1. PathTypes
  BY DEF LabelIInv
<1>2. /\ path.align = filler_end /\ path'.align = PlaceState(i) /\ path'.written = v
      /\ path'.ctc = path.ctc /\ path'.frames = path.frames /\ path'.cost = path.cost
  BY DEF FillerEnds, Writes
<1>3. v \in Seq(OutSymbols) /\ SaysSoFar(path.ctc, path.frames, v)
  BY MarkSays
<1>4. PlaceState(i) \in 1 .. 3 + Len(labels) /\ ~Open(PlaceState(i))
  BY <1>1, TypesNow, PlaceFacts
<1>5. PairedSoFar(filler_end, path.written)
  BY <1>2 DEF LabelIInv
<1>6. PairedSoFar(PlaceState(i), v)
  BY <1>1, <1>4, <1>5, TypesNow, PairedEnd
<1>7. PaidSoFar(path.cost, v)
  <2>1. PaidSoFar(path.cost + 0, v)
    BY <1>1, TypesNow, SymbolFacts, PaidMore DEF LabelIInv
  <2>2. path.cost + 0 = path.cost
    BY <1>1, TypesNow
  <2>3. QED BY <2>1, <2>2
<1>8. \E j \in DOMAIN path.written : OpenAt(j, path.written)
  BY <1>5 DEF PairedSoFar, Open
<1>9. InOrderSoFar(labels, PlaceState(i), v)
  BY <1>1, <1>8, TypesNow, SymbolFacts, NotInOrder
<1>10. QED BY <1>1, <1>2, <1>3, <1>4, <1>6, <1>7, <1>9, TypesNow, LabelIInvNext

LEMMA LabelMissesKeeps ==
    ASSUME LabelIInv, LabelNext, NEW i \in 0 .. Len(labels) - 1, LabelMisses(i)
    PROVE  LabelIInv'
<1> DEFINE v == Append(path.written, kDeletion)
<1>1. PathTypes
  BY DEF LabelIInv
<1>2. /\ path.align = PlaceState(i) /\ path'.align = PlaceState(i + 1) /\ path'.written = v
      /\ path'.ctc = path.ctc /\ path'.frames = path.frames /\ path'.cost = path.cost + 1
  BY DEF LabelMisses, Writes
<1>3. v \in Seq(OutSymbols) /\ SaysSoFar(path.ctc, path.frames, v)
  BY MarkSays
<1>4. /\ i \in 0 .. Len(labels) /\ i + 1 \in 0 .. Len(labels)
      /\ ~Open(PlaceState(i)) /\ ~Open(PlaceState(i + 1)) /\ PlaceState(i + 1) \in 1 .. 3 + Len(labels)
  <2>1. i \in 0 .. Len(labels) /\ i + 1 \in 0 .. Len(labels)
    BY <1>1, TypesNow
  <2>2. QED BY <1>1, <2>1, TypesNow, PlaceFacts
<1>5. PairedSoFar(PlaceState(i + 1), v)
  BY <1>1, <1>2, <1>4, TypesNow, PairedOutside DEF LabelIInv
<1>6. PaidSoFar(path.cost + 1, v)
  BY <1>1, TypesNow, SymbolFacts, PaidMore DEF LabelIInv
<1>7. InOrderSoFar(labels, PlaceState(i + 1), v)
  BY <1>1, <1>2, TypesNow, InOrderMore DEF LabelIInv
<1>8. path.cost + 1 \in Nat
  BY <1>1, TypesNow
<1>9. QED BY <1>1, <1>2, <1>3, <1>4, <1>5, <1>6, <1>7, <1>8, TypesNow, LabelIInvNext

\* A unit is written with its first frame.
LEMMA UnitSays ==
    ASSUME LabelIInv, NEW u \in UnitLabels
    PROVE  /\ Append(path.written, u) \in Seq(OutSymbols) /\ Append(path.frames, u) \in Seq(1 .. NumUnits)
           /\ SaysSoFar(u, Append(path.frames, u), Append(path.written, u))
<1> DEFINE F == path.frames
           w == path.written
<1>1. F \in Seq(1 .. NumUnits) /\ w \in Seq(OutSymbols) /\ u \in 1 .. NumUnits /\ u \in OutSymbols
  BY TypesNow, SymbolFacts DEF LabelIInv
<1>2. PICK place : SaysWith(place, F, w)
  BY DEF LabelIInv, SaysSoFar
<1> HIDE DEF F, w
<1>3. SaysWith([i \in DOMAIN Append(F, u) |-> IF i = Len(F) + 1 THEN Len(w) + 1 ELSE place[i]],
               Append(F, u), Append(w, u))
  BY <1>1, <1>2, SaysUnit
<1>4. /\ Append(F, u) \in Seq(1 .. NumUnits) /\ Append(F, u) # <<>>
      /\ Append(F, u)[Len(Append(F, u))] = u
      /\ Append(w, u) \in Seq(OutSymbols)
  BY <1>1, AppendProperties
<1>5. SaysSoFar(u, Append(F, u), Append(w, u))
  BY <1>3, <1>4 DEF SaysSoFar
<1>6. QED BY <1>4, <1>5 DEF F, w

LEMMA LabelSaidKeeps ==
    ASSUME LabelIInv, LabelNext, NEW i \in 0 .. Len(labels) - 1, LabelSaid(i)
    PROVE  LabelIInv'
<1> DEFINE u == labels[i + 1]
           v == Append(path.written, u)
<1>1. PathTypes
  BY DEF LabelIInv
<1>2. /\ path.align = PlaceState(i) /\ path'.align = PlaceState(i + 1) /\ path'.written = v
      /\ path'.ctc = u /\ path'.frames = Append(path.frames, u) /\ path'.cost = path.cost
  BY DEF LabelSaid, Reads, Writes
<1>3. /\ i \in 0 .. Len(labels) /\ i + 1 \in 0 .. Len(labels) /\ i + 1 \in 1 .. Len(labels)
  BY <1>1, TypesNow
<1>4. /\ ~Open(PlaceState(i)) /\ ~Open(PlaceState(i + 1)) /\ PlaceState(i + 1) \in 1 .. 3 + Len(labels)
  BY <1>1, <1>3, TypesNow, PlaceFacts
<1>5. u \in UnitLabels
  BY <1>1, <1>3, TypesNow, ElementOfSeq
<1> HIDE DEF u
<1>6. /\ v \in Seq(OutSymbols) /\ Append(path.frames, u) \in Seq(1 .. NumUnits)
      /\ SaysSoFar(u, Append(path.frames, u), v)
  BY <1>5, UnitSays
<1>7. PairedSoFar(PlaceState(i), path.written)
  BY <1>2 DEF LabelIInv
<1>8. PairedSoFar(PlaceState(i + 1), v)
  BY <1>1, <1>4, <1>5, <1>7, TypesNow, PairedOutside
<1>9. PaidSoFar(path.cost, v)
  <2>1. \A j \in DOMAIN path.written : path.written[j] = kIsStart => ClosedAt(j, path.written)
    BY <1>4, <1>7, NothingOpen
  <2>2. path.cost \in Nat /\ path.written \in Seq(OutSymbols) /\ u \in OutSymbols
        /\ PaidSoFar(path.cost, path.written)
    BY <1>1, <1>5, TypesNow, SymbolFacts DEF LabelIInv
  <2>3. PaidSoFar(path.cost + 0, v)
    BY <1>5, <2>1, <2>2, PaidMore
  <2>4. path.cost + 0 = path.cost
    BY <2>2
  <2>5. QED BY <2>3, <2>4
<1>10. InOrderSoFar(labels, PlaceState(i + 1), v)
  BY <1>1, <1>2, TypesNow, InOrderMore DEF LabelIInv, u
<1>11. u \in 1 .. NumUnits
  BY <1>5, SymbolFacts
<1>12. QED BY <1>1, <1>2, <1>4, <1>6, <1>8, <1>9, <1>10, <1>11, TypesNow, LabelIInvNext

LEMMA UnitPutInKeeps ==
    ASSUME LabelIInv, LabelNext, NEW u \in UnitLabels, UnitPutIn(u)
    PROVE  LabelIInv'
<1> DEFINE v == Append(path.written, u)
<1>1. PathTypes
  BY DEF LabelIInv
<1>2. /\ path.align = filler_start /\ path'.align = filler_end /\ path'.written = v
      /\ path'.ctc = u /\ path'.frames = Append(path.frames, u) /\ path'.cost = path.cost + 1
  BY DEF UnitPutIn, Reads, Writes
<1>3. /\ v \in Seq(OutSymbols) /\ Append(path.frames, u) \in Seq(1 .. NumUnits)
      /\ SaysSoFar(u, Append(path.frames, u), v)
  BY UnitSays
<1>4. PairedSoFar(filler_start, path.written)
  BY <1>2 DEF LabelIInv
<1>5. PairedSoFar(filler_end, v)
  BY <1>1, <1>4, TypesNow, PairedUnit
<1>6. \E j \in DOMAIN path.written : OpenAt(j, path.written)
  BY <1>4 DEF PairedSoFar, Open
<1>7. path.cost \in Nat /\ path.written \in Seq(OutSymbols) /\ u \in OutSymbols
      /\ PaidSoFar(path.cost, path.written) /\ path.cost + 1 \in Nat
  BY <1>1, TypesNow, SymbolFacts DEF LabelIInv
<1>8. PaidSoFar(path.cost + 1, v)
  BY <1>6, <1>7, PaidMore
<1>9. InOrderSoFar(labels, filler_end, v)
  BY <1>6, <1>7, NotInOrder
<1>10. filler_end \in 1 .. 3 + Len(labels) /\ u \in 1 .. NumUnits
  BY <1>1, TypesNow, PlaceFacts, SymbolFacts
<1>11. QED BY <1>1, <1>2, <1>3, <1>5, <1>7, <1>8, <1>9, <1>10, TypesNow, LabelIInvNext

LEMMA NextKeepsLabelIInv == LabelIInv /\ [LabelNext]_label_vars => LabelIInv'
<1>1. ASSUME LabelIInv, LabelNext PROVE LabelIInv'
  <2>1. PathTypes
    BY <1>1 DEF LabelIInv
  <2>2. \/ ReadBlank \/ ReadAgain \/ UnitEnds \/ FillerStarts \/ FillerGoesOn
        \/ \E i \in 0 .. Len(labels) - 1 : LabelMisses(i) \/ LabelSaid(i)
        \/ \E i \in 0 .. Len(labels) : FillerEnds(i)
        \/ \E u \in UnitLabels : UnitPutIn(u)
    BY <1>1, <2>1, LabelStepCases
  <2>3. CASE ReadBlank \/ ReadAgain \/ UnitEnds \/ FillerStarts \/ FillerGoesOn
    BY <1>1, <2>3, BlankKeeps, AgainKeeps, UnitEndsKeeps, FillerStartsKeeps, FillerGoesOnKeeps
  <2>4. ASSUME NEW i \in 0 .. Len(labels) - 1, LabelMisses(i) \/ LabelSaid(i) PROVE LabelIInv'
    <3>1. CASE LabelMisses(i)
      BY <1>1, <3>1, LabelMissesKeeps
    <3>2. CASE LabelSaid(i)
      BY <1>1, <3>2, LabelSaidKeeps
    <3>3. QED BY <2>4, <3>1, <3>2
  <2>5. ASSUME NEW i \in 0 .. Len(labels), FillerEnds(i) PROVE LabelIInv'
    BY <1>1, <2>5, FillerEndsKeeps
  <2>6. ASSUME NEW u \in UnitLabels, UnitPutIn(u) PROVE LabelIInv'
    BY <1>1, <2>6, UnitPutInKeeps
  <2>7. QED BY <2>2, <2>3, <2>4, <2>5, <2>6
<1>2. ASSUME LabelIInv, UNCHANGED label_vars PROVE LabelIInv'
  BY <1>2 DEF LabelIInv, PathTypes, label_vars
<1>3. QED BY <1>1, <1>2

LEMMA IInvIsRight == LabelIInv => AlignmentIsRight
<1> SUFFICES ASSUME LabelIInv, Complete PROVE AlignmentIsRight
  BY DEF AlignmentIsRight
<1> DEFINE F == path.frames
           w == path.written
           n == Len(labels)
<1>1. PathTypes
  BY DEF LabelIInv
<1>2. /\ F \in Seq(1 .. NumUnits) /\ w \in Seq(OutSymbols) /\ Len(w) \in Nat
      /\ labels \in Seq(UnitLabels) /\ n \in Nat
  BY <1>1, TypesNow
<1>3. path.align = PlaceState(n) /\ ~Open(path.align)
  <2>1. align_fst.final = PlaceState(n)
    BY <1>1 DEF PathTypes, CompileAlignFst
  <2>2. n \in 0 .. n
    BY <1>2
  <2>3. ~Open(PlaceState(n))
    <3> HIDE DEF n
    <3>1. QED BY <1>2, <2>2, PlaceFacts
  <2>4. path.align = PlaceState(n)
    BY <2>1 DEF Complete
  <2>5. QED BY <2>3, <2>4
<1>4. Says(F, w)
  <2>1. PICK place : SaysWith(place, F, w)
    BY DEF LabelIInv, SaysSoFar
  <2>2. QED BY <2>1 DEF SaysWith, Says
<1>5. MarksArePaired(w)
  <2>1. /\ \A i \in DOMAIN w : w[i] = kIsStart => ClosedAt(i, w)
        /\ Number(kIsStart, w) = Number(kIsEnd, w) + 0
    BY <1>3, NothingOpen DEF LabelIInv
  <2>2. Number(kIsEnd, w) \in Nat
    BY <1>2, SymbolFacts, NumberMore
  <2>3. QED BY <2>1, <2>2 DEF MarksArePaired, ClosedAt
<1>6. path.cost = DelPenalty * Number(kDeletion, w) +
          IsPenalty * Cardinality({i \in Inserted(w) : w[i] \in UnitLabels})
  <2>1. path.cost = Number(kDeletion, w) + Cardinality(InsertedUnits(w))
    BY DEF LabelIInv, PaidSoFar
  <2>2. Number(kDeletion, w) \in Nat
    BY <1>2, SymbolFacts, NumberMore
  <2>3. Cardinality(InsertedUnits(w)) \in Nat
    BY <1>2, SymbolFacts, InsertedMore, FS_CardinalityType
  <2>4. QED BY <2>1, <2>2, <2>3 DEF InsertedUnits, DelPenalty, IsPenalty
<1>7. ASSUME Number(kIsStart, w) = 0
      PROVE  Len(w) = Len(labels) /\ \A i \in DOMAIN w : w[i] \in {labels[i], kDeletion}
  <2> DEFINE starts == {i \in DOMAIN w : w[i] = kIsStart}
  <2>1. IsFiniteSet(starts)
    <3>1. starts \in SUBSET (1 .. Len(w)) /\ 1 \in Int /\ Len(w) \in Int
      BY <1>2
    <3>2. IsFiniteSet(1 .. Len(w))
      BY <3>1, FS_Interval
    <3>3. QED BY <3>1, <3>2, FS_Subset
  <2>2. starts = {}
    BY <1>7, <2>1, FS_EmptySet DEF Number
  <2>3. /\ Len(w) <= Len(labels) /\ path.align = PlaceState(Len(w))
        /\ \A i \in DOMAIN w : w[i] \in {labels[i], kDeletion}
    BY <2>2 DEF LabelIInv, InOrderSoFar
  <2>4. Len(w) \in 0 .. n /\ n \in 0 .. n /\ PlaceState(Len(w)) = PlaceState(n)
    BY <1>2, <1>3, <2>3
  <2>5. QED BY <1>2, <2>3, <2>4, PlaceFacts
<1>8. QED BY <1>4, <1>5, <1>6, <1>7 DEF AlignmentIsRight

\* Every path that label_checker's decoder may finish is an alignment of what was
\* said to the labels: for every unit table, all texts and paths of any length.
THEOREM AlignmentsAreRight == LabelSpec => []AlignmentIsRight
<1>1. LabelInit => LabelIInv
  BY InitLabelIInv
<1>2. LabelIInv /\ [LabelNext]_label_vars => LabelIInv'
  BY NextKeepsLabelIInv
<1>3. LabelIInv => AlignmentIsRight
  BY IInvIsRight
<1>4. QED BY <1>1, <1>2, <1>3, PTL DEF LabelSpec
================================================================================
