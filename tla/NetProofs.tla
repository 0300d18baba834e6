------------------------------- MODULE NetProofs -------------------------------
(***************************************************************************)
(* Of src/utils/net.  Every checksum of every answer pro_frame.c can make, *)
(* and of the header example.c sends, verifies at the receiver; the two    *)
(* loops of list_devs agree for every list of adapters; and main opens the *)
(* device that is printed beside the number typed, if that is below 256,   *)
(* or none when it was not printed.                                        *)
(*                                                                         *)
(* The sums, the listing and the copying are folds.  A fold is shown to    *)
(* make its steps one after the other (FoldSteps), with the step as a      *)
(* function and induction (Climb) as the least number outside of a set.    *)
(***************************************************************************)
EXTENDS MCNet, FiniteSetTheorems, SequenceTheorems, WellFoundedInduction, TLAPS
-----------------------------------------------------------------------------
(* Folds.                                                                  *)

\* A set of numbers that is not empty has a lowest one.
LEMMA LowestNumber ==
    ASSUME NEW S \in SUBSET Nat, S # {}
    PROVE  \E i \in S : \A j \in S : i <= j
<1>1. PICK i \in S : \A j \in S : ~(<<j, i>> \in OpToRel(<, Nat))
  BY NatLessThanWellFounded, WFMin
<1>2. ASSUME NEW j \in S PROVE i <= j
  <2>1. ~(j < i)
    BY <1>1 DEF OpToRel
  <2>. QED BY <2>1
<1>. QED BY <1>2

\* Induction up to a number, for what can be said as a set.
LEMMA Climb ==
    ASSUME NEW S, NEW n \in Nat, 0 \in S, \A i \in 0 .. n : i \in S /\ i < n => i + 1 \in S
    PROVE  \A i \in 0 .. n : i \in S
<1>. SUFFICES ASSUME NEW k \in 0 .. n, k \notin S PROVE FALSE
  OBVIOUS
<1>. DEFINE C == {i \in 0 .. n : i \notin S}
<1>1. C \in SUBSET Nat /\ C # {}
  OBVIOUS
<1>2. PICK i \in C : \A j \in C : i <= j
  BY <1>1, LowestNumber
<1>3. i \in Nat /\ i # 0 /\ i - 1 \in 0 .. n /\ i - 1 < n /\ (i - 1) + 1 = i
  BY <1>2
<1>4. i - 1 \in S
  BY <1>2, <1>3
<1>. QED BY <1>2, <1>3, <1>4

\* A set of places that is not empty has a last one.
LEMMA HasMax ==
    ASSUME NEW n \in Nat, NEW T \in SUBSET (1 .. n), T # {}
    PROVE  Max(T) \in T /\ \A y \in T : Max(T) >= y
<1>. DEFINE S == {n - x : x \in T}
<1>1. S \in SUBSET Nat /\ S # {}
  <2>1. \A x \in T : n - x \in Nat
    <3>1. \A x \in 1 .. n : n - x \in Nat
      OBVIOUS
    <3>. QED BY <3>1
  <2>. QED BY <2>1
<1>2. PICK i \in S : \A j \in S : i <= j
  BY <1>1, LowestNumber
<1>3. PICK x \in T : i = n - x
  BY <1>2
<1>4. \A y \in T : x >= y
  <2>1. ASSUME NEW y \in T PROVE x >= y
    <3>1. n - y \in S
      OBVIOUS
    <3>2. n - x <= n - y
      BY <1>2, <1>3, <3>1
    <3>3. x \in 1 .. n /\ y \in 1 .. n
      OBVIOUS
    <3>. HIDE DEF S
    <3>. QED BY ONLY n \in Nat, <3>2, <3>3
  <2>. QED BY <2>1
<1>. QED BY <1>4 DEF Max

LEMMA LastPlace ==
    ASSUME NEW n \in Nat, NEW T \in SUBSET (1 .. n + 1), n + 1 \in T
    PROVE  Max(T) = n + 1
<1>1. n + 1 \in T /\ \A y \in T : n + 1 >= y
  OBVIOUS
<1>2. \A x \in T : (\A y \in T : x >= y) => x = n + 1
  OBVIOUS
<1>. QED BY <1>1, <1>2 DEF Max

LEMMA NextPlace ==
    ASSUME NEW n \in Nat, NEW i \in 0 .. n, i < n
    PROVE  i + 1 \in 1 .. n /\ i + 1 \in 0 .. n /\ (i + 1) - 1 = i
OBVIOUS

\* it folds from the left as step does on S: a set of places has what step makes
\* of the places but the last, and of the last.
IsFold(it, S, base, n, step) ==
    /\ it[{}] = base
    /\ \A T \in SUBSET (1 .. n) :
          T # {} /\ it[T \ {Max(T)}] \in S => it[T] = step[<<it[T \ {Max(T)}], Max(T)>>]

\* The same, one place after the other.
Steps(t, base, n, step) == t[0] = base /\ \A i \in 1 .. n : t[i] = step[<<t[i - 1], i>>]

\* What n steps end in.
EndsIn(x, S, base, n, step) == \E t \in [0 .. n -> S] : Steps(t, base, n, step) /\ t[n] = x

\* What folds from the left over n places is a function on the sets of places.
LEMMA FoldExists ==
    ASSUME NEW S, NEW base \in S, NEW n \in Nat, NEW step \in [S \X (1 .. n) -> S]
    PROVE  \E it \in [SUBSET (1 .. n) -> S] : IsFold(it, S, base, n, step)
<1>. DEFINE Fold(it, k) == it \in [SUBSET (1 .. k) -> S] /\ IsFold(it, S, base, k, step)
            Can == {k \in 0 .. n : \E it : Fold(it, k)}
<1>1. 0 \in Can
  <2>1. 1 .. 0 = {}
    OBVIOUS
  <2>2. Fold([T \in SUBSET (1 .. 0) |-> base], 0)
    BY <2>1 DEF IsFold
  <2>3. 0 \in 0 .. n
    OBVIOUS
  <2>. HIDE DEF Fold
  <2>. QED BY <2>2, <2>3
<1>2. ASSUME NEW k \in 0 .. n, k \in Can, k < n PROVE k + 1 \in Can
  <2>0. k \in Nat /\ k + 1 \in 1 .. n /\ k + 1 \in 0 .. n
    <3>. HIDE DEF Can
    <3>. QED BY <1>2
  <2>1. PICK g : Fold(g, k)
    BY <1>2
  <2>. DEFINE h == [T \in SUBSET (1 .. k + 1) |->
                      IF k + 1 \in T THEN step[<<g[T \ {k + 1}], k + 1>>] ELSE g[T]]
  <2>2. ASSUME NEW T \in SUBSET (1 .. k + 1)
        PROVE  h[T] \in S /\ h[T] = IF T = {} THEN base ELSE step[<<h[T \ {Max(T)}], Max(T)>>]
    <3>0. \A x \in 1 .. k + 1 : x # k + 1 => x \in 1 .. k
      BY <2>0
    <3>1. CASE k + 1 \in T
      <4>1. Max(T) = k + 1
        BY <2>0, <3>1, LastPlace
      <4>2. T \ {k + 1} \in SUBSET (1 .. k) /\ T \ {k + 1} \in SUBSET (1 .. k + 1)
        BY <3>0
      <4>3. h[T \ {k + 1}] = g[T \ {k + 1}] /\ g[T \ {k + 1}] \in S
        BY <2>1, <4>2
      <4>. QED BY <2>0, <3>1, <4>1, <4>2, <4>3
    <3>2. CASE k + 1 \notin T
      <4>1. /\ T \in SUBSET (1 .. k) /\ T \ {Max(T)} \in SUBSET (1 .. k)
            /\ T \ {Max(T)} \in SUBSET (1 .. k + 1)
        BY <3>0, <3>2
      <4>2. h[T] = g[T] /\ h[T \ {Max(T)}] = g[T \ {Max(T)}]
        BY <3>2, <4>1
      <4>. QED BY <2>1, <4>1, <4>2 DEF IsFold
    <3>. QED BY <3>1, <3>2
  <2>3. h \in [SUBSET (1 .. k + 1) -> S]
    BY <2>2
  <2>. HIDE DEF h
  <2>4. Fold(h, k + 1)
    BY <2>2, <2>3 DEF IsFold
  <2>. HIDE DEF Fold
  <2>. QED BY <2>0, <2>4
<1>3. n \in Can
  <2>. HIDE DEF Can
  <2>. QED BY <1>1, <1>2, Climb
<1>. QED BY <1>3

LEMMA FirstPlaces ==
    ASSUME NEW n \in Nat, NEW i \in 1 .. n
    PROVE  /\ i \in Nat /\ 1 .. i \in SUBSET (1 .. n) /\ 1 .. i # {} /\ Max(1 .. i) = i
           /\ (1 .. i) \ {i} = 1 .. (i - 1) /\ i - 1 \in 0 .. n /\ (i - 1) + 1 = i
           /\ i \in 0 .. n
<1>1. i \in Nat /\ i \in 1 .. i /\ i - 1 \in Nat /\ (i - 1) + 1 = i /\ i - 1 \in 0 .. n
      /\ i \in 0 .. n
  <2>1. i \in Int /\ 1 <= i /\ i <= n
    OBVIOUS
  <2>. QED BY <2>1
<1>2. \A x \in 1 .. i : x \in 1 .. n
  OBVIOUS
<1>3. \A x : x \in (1 .. i) \ {i} <=> x \in 1 .. (i - 1)
  OBVIOUS
<1>4. Max(1 .. i) = i
  <2>1. Max(1 .. ((i - 1) + 1)) = (i - 1) + 1
    <3>1. \A k \in Nat : 1 .. k + 1 \in SUBSET (1 .. k + 1) /\ k + 1 \in 1 .. k + 1
      OBVIOUS
    <3>. QED BY <1>1, <3>1, LastPlace
  <2>. QED BY <1>1, <2>1
<1>. QED BY <1>1, <1>2, <1>3, <1>4

\* Whatever folds like step on what step is for makes one step after the other.
LEMMA FoldSteps ==
    ASSUME NEW S, NEW base \in S, NEW n \in Nat, NEW step \in [S \X (1 .. n) -> S],
           NEW it, IsFold(it, S, base, n, step)
    PROVE  EndsIn(it[1 .. n], S, base, n, step)
<1>. DEFINE t == [i \in 0 .. n |-> it[1 .. i]]
            Typed == {i \in 0 .. n : t[i] \in S}
<1>1. 0 \in 0 .. n /\ n \in 0 .. n /\ t[0] = base
  <2>1. 0 \in 0 .. n /\ n \in 0 .. n /\ 1 .. 0 = {}
    OBVIOUS
  <2>. QED BY <2>1 DEF IsFold
<1>2. ASSUME NEW i \in 1 .. n, t[i - 1] \in S PROVE t[i] = step[<<t[i - 1], i>>] /\ t[i] \in S
  <2>1. /\ 1 .. i \in SUBSET (1 .. n) /\ 1 .. i # {} /\ Max(1 .. i) = i
        /\ (1 .. i) \ {i} = 1 .. (i - 1) /\ i - 1 \in 0 .. n /\ i \in 0 .. n
    BY FirstPlaces
  <2>2. t[i - 1] = it[1 .. (i - 1)] /\ t[i] = it[1 .. i]
    BY <2>1
  <2>. QED BY <1>2, <2>1, <2>2 DEF IsFold
<1>. HIDE DEF t
<1>3. \A i \in 0 .. n : i \in Typed
  <2>1. ASSUME NEW i \in 0 .. n, i \in Typed, i < n PROVE i + 1 \in Typed
    <3>1. i + 1 \in 1 .. n /\ i + 1 \in 0 .. n /\ (i + 1) - 1 = i
      BY <2>1, NextPlace
    <3>. QED BY <1>2, <2>1, <3>1
  <2>2. 0 \in Typed
    BY <1>1
  <2>. HIDE DEF Typed
  <2>. QED BY <2>1, <2>2, Climb
<1>4. \A i \in 1 .. n : t[i] = step[<<t[i - 1], i>>]
  BY <1>2, <1>3, FirstPlaces
<1>5. t \in [0 .. n -> S] /\ t[n] = it[1 .. n]
  BY <1>1, <1>3 DEF t
<1>. QED BY <1>1, <1>4, <1>5 DEF Steps, EndsIn

\* The sum of a sequence, number by number.
LEMMA TotalIs ==
    ASSUME NEW n \in Nat, NEW w \in [1 .. n -> Nat]
    PROVE  \E t \in [0 .. n -> Nat] :
              /\ t[0] = 0 /\ t[n] = Total(w)
              /\ \A i \in 1 .. n : t[i] = t[i - 1] + w[i]
<1>. DEFINE S == Nat
            zero == 0
            step == [p \in Nat \X (1 .. n) |-> p[1] + w[p[2]]]
            Is(it) == it = [T \in SUBSET (1 .. n) |->
                              IF T = {} THEN zero ELSE it[T \ {Max(T)}] + w[Max(T)]]
            F == CHOOSE it : Is(it)
<1>1. Total(w) = F[1 .. n]
  BY DEF Total, FoldLeft, MapThenFoldSet
<1>2. step \in [S \X (1 .. n) -> S] /\ zero \in S
  OBVIOUS
<1>3. \A i \in 1 .. n, x \in S : step[<<x, i>>] = x + w[i]
  OBVIOUS
<1>. HIDE DEF step, S, zero
<1>4. Is(F)
  <2>1. PICK it \in [SUBSET (1 .. n) -> S] : IsFold(it, S, zero, n, step)
    BY <1>2, FoldExists
  <2>2. ASSUME NEW T \in SUBSET (1 .. n)
        PROVE  it[T] = IF T = {} THEN zero ELSE it[T \ {Max(T)}] + w[Max(T)]
    <3>1. T # {} => Max(T) \in 1 .. n
      BY HasMax
    <3>2. T \ {Max(T)} \in SUBSET (1 .. n)
      OBVIOUS
    <3>. QED BY <1>3, <2>1, <3>1, <3>2 DEF IsFold
  <2>3. Is(it)
    BY <2>2
  <2>. QED BY <2>3, Zenon
<1>. HIDE DEF F
<1>5. IsFold(F, S, zero, n, step)
  <2>1. ASSUME NEW T \in SUBSET (1 .. n), T # {} PROVE Max(T) \in 1 .. n
    BY <2>1, HasMax
  <2>. QED BY <1>3, <1>4, <2>1 DEF IsFold
<1>6. PICK t \in [0 .. n -> S] : Steps(t, zero, n, step) /\ t[n] = F[1 .. n]
  <2>1. EndsIn(F[1 .. n], S, zero, n, step)
    BY <1>2, <1>5, FoldSteps
  <2>. QED BY <2>1 DEF EndsIn
<1>7. \A i \in 1 .. n : t[i] = t[i - 1] + w[i]
  <2>1. \A i \in 1 .. n : i - 1 \in 0 .. n
    BY FirstPlaces
  <2>. QED BY <1>3, <1>6, <2>1 DEF Steps
<1>. QED BY <1>1, <1>6, <1>7 DEF S, zero, Steps

\* The places that are chosen, one by one.
LEMMA PlacesIs ==
    ASSUME NEW n \in Nat, NEW chosen \in [1 .. n -> BOOLEAN]
    PROVE  \E t \in [0 .. n -> Seq(1 .. n)] :
              /\ t[0] = << >> /\ t[n] = Places(chosen)
              /\ \A i \in 1 .. n : t[i] = IF chosen[i] THEN Append(t[i - 1], i) ELSE t[i - 1]
<1>. DEFINE S == Seq(1 .. n)
            none == << >>
            place == [i \in 1 .. n |-> i]
            Longer(x, i) == IF chosen[place[i]] THEN Append(x, place[i]) ELSE x
            step == [p \in S \X (1 .. n) |-> Longer(p[1], p[2])]
            Is(it) == it = [T \in SUBSET (1 .. n) |->
                              IF T = {} THEN none ELSE Longer(it[T \ {Max(T)}], Max(T))]
            F == CHOOSE it : Is(it)
<1>1. Places(chosen) = F[1 .. n]
  BY DEF Places, FoldLeft, MapThenFoldSet
<1>2. /\ none \in S
      /\ \A x \in S, i \in 1 .. n : Append(x, i) \in S
      /\ \A i \in 1 .. n : place[i] = i
  <2>1. ASSUME NEW x \in Seq(1 .. n), NEW i \in 1 .. n PROVE Append(x, i) \in Seq(1 .. n)
    <3>. HIDE DEF S, step, place
    <3>. QED BY AppendProperties
  <2>2. none \in S /\ \A i \in 1 .. n : place[i] = i
    OBVIOUS
  <2>. HIDE DEF step, place, none
  <2>. QED BY <2>1, <2>2
<1>. HIDE DEF S, none, place
<1>3. \A x \in S, i \in 1 .. n : /\ Longer(x, i) \in S
                                 /\ Longer(x, i) = IF chosen[i] THEN Append(x, i) ELSE x
  BY ONLY <1>2
<1>. HIDE DEF Longer
<1>step. /\ step \in [S \X (1 .. n) -> S]
         /\ \A x \in S, i \in 1 .. n : step[<<x, i>>] = Longer(x, i)
  BY ONLY <1>3 DEF step
<1>. HIDE DEF step
<1>4. Is(F)
  <2>1. PICK it \in [SUBSET (1 .. n) -> S] : IsFold(it, S, none, n, step)
    BY <1>2, <1>step, FoldExists
  <2>2. ASSUME NEW T \in SUBSET (1 .. n)
        PROVE  it[T] = IF T = {} THEN none ELSE Longer(it[T \ {Max(T)}], Max(T))
    <3>1. CASE T = {}
      BY <2>1, <3>1 DEF IsFold
    <3>2. CASE T # {}
      <4>1. Max(T) \in 1 .. n
        BY <3>2, HasMax
      <4>2. T \ {Max(T)} \in SUBSET (1 .. n) /\ it[T \ {Max(T)}] \in S
        BY <2>1
      <4>3. it[T] = step[<<it[T \ {Max(T)}], Max(T)>>]
        BY <2>1, <3>2, <4>2 DEF IsFold
      <4>. QED BY ONLY <1>step, <3>2, <4>1, <4>2, <4>3
    <3>. QED BY <3>1, <3>2
  <2>3. Is(it)
    BY <2>2
  <2>. QED BY <2>3, Zenon
<1>. HIDE DEF F
<1>5. IsFold(F, S, none, n, step)
  <2>1. F[{}] = none
    BY <1>4
  <2>2. ASSUME NEW T \in SUBSET (1 .. n), T # {}, F[T \ {Max(T)}] \in S
        PROVE  F[T] = step[<<F[T \ {Max(T)}], Max(T)>>]
    <3>1. Max(T) \in 1 .. n
      BY <2>2, HasMax
    <3>2. F[T] = Longer(F[T \ {Max(T)}], Max(T))
      BY <1>4, <2>2
    <3>. QED BY ONLY <1>step, <2>2, <3>1, <3>2
  <2>. QED BY <2>1, <2>2 DEF IsFold
<1>6. PICK t \in [0 .. n -> S] : Steps(t, none, n, step) /\ t[n] = F[1 .. n]
  <2>1. EndsIn(F[1 .. n], S, none, n, step)
    BY <1>2, <1>step, <1>5, FoldSteps
  <2>. QED BY <2>1 DEF EndsIn
<1>7. \A i \in 1 .. n : t[i] = IF chosen[i] THEN Append(t[i - 1], i) ELSE t[i - 1]
  <2>. SUFFICES ASSUME NEW i \in 1 .. n
                PROVE  t[i] = IF chosen[i] THEN Append(t[i - 1], i) ELSE t[i - 1]
    OBVIOUS
  <2>1. t[i - 1] \in S
    BY ONLY <1>6, i \in 1 .. n, FirstPlaces
  <2>2. t[i] = step[<<t[i - 1], i>>]
    BY ONLY <1>6, i \in 1 .. n DEF Steps
  <2>. QED BY ONLY <1>3, <1>step, i \in 1 .. n, <2>1, <2>2, ZenonT(60)
<1>. QED BY <1>1, <1>6, <1>7 DEF S, none, Steps
-----------------------------------------------------------------------------
(* Frames: a checksum and its sum.                                         *)

\* A sum that unsigned long holds, with room for the checksum itself.
Sums == {s \in Nat : s < 65536 * 65535}

\* A number and its two halves.
LEMMA Halves ==
    ASSUME NEW n \in Nat
    PROVE  /\ n \div 65536 \in Nat
           /\ n % 65536 \in Nat /\ n % 65536 < 65536
           /\ n = 65536 * (n \div 65536) + (n % 65536)
<1>1. ASSUME NEW d \in Nat, d > 0
      PROVE  /\ n \div d \in Nat /\ n % d \in Nat /\ n % d < d
             /\ n = d * (n \div d) + (n % d)
  BY <1>1, SMT
<1>2. 65536 \in Nat /\ 65536 > 0
  BY SMT
<1> QED
  BY ONLY <1>1, <1>2

\* The low half of a number whose high half and rest are known.
LEMMA LowHalf ==
    ASSUME NEW q \in Nat, NEW r \in Nat, r < 65536
    PROVE  (65536 * q + r) % 65536 = r
BY SMT

\* The low half of the folded sum, when a is the carry of the first fold and b
\* what is left of it.
LEMMA FoldedHalf ==
    ASSUME NEW h \in Nat, NEW l \in Nat, h < 65535, l < 65536
    PROVE  \E a \in Nat, b \in Nat :
              /\ h + l = 65536 * a + b
              /\ a + b < 65536
              /\ (h + l) + ((h + l) \div 65536) = 65536 * a + (a + b)
<1> DEFINE a == (h + l) \div 65536
           b == (h + l) % 65536
<1>1. h + l \in Nat
  BY SMT
<1>2. a \in Nat /\ b \in Nat /\ b < 65536 /\ h + l = 65536 * a + b
  BY ONLY <1>1, Halves
<1>3. (h + l) + ((h + l) \div 65536) = (65536 * a + b) + a
  BY ONLY <1>2
<1> HIDE DEF a, b
<1>4. a + b < 65536
  BY <1>2, SMT
<1>5. (65536 * a + b) + a = 65536 * a + (a + b)
  BY <1>2, SMT
<1> QED
  BY ONLY <1>2, <1>3, <1>4, <1>5

\* The two folds of lines 158-159 lose no carry: with the checksum, a sum is a
\* multiple of 65535 that is not 0.
LEMMA SumsToMultiple ==
    ASSUME NEW s \in Sums
    PROVE  \E m \in Nat : s + Complement(Folded(s)) = 65535 * (m + 1)
<1> DEFINE h == s \div 65536
           l == s % 65536
<1>1. s \in Nat /\ s < 65536 * 65535
  BY DEF Sums
<1>2. h \in Nat /\ l \in Nat /\ l < 65536 /\ s = 65536 * h + l
  BY ONLY <1>1, Halves
<1>3. Folded(s) = (h + l) + ((h + l) \div 65536)
  BY DEF Folded
<1> HIDE DEF h, l
<1>4. h < 65535
  BY <1>1, <1>2, SMT
<1>5. PICK a \in Nat, b \in Nat :
         h + l = 65536 * a + b /\ a + b < 65536 /\ Folded(s) = 65536 * a + (a + b)
  BY ONLY <1>2, <1>3, <1>4, FoldedHalf
<1>6. Complement(Folded(s)) = 65535 - (a + b)
  <2>1. a + b \in Nat
    BY SMT
  <2> QED
    BY <1>5, <2>1, LowHalf DEF Complement
<1>7. s + Complement(Folded(s)) = 65535 * (h + a + 1)
  BY <1>2, <1>5, <1>6, SMT
<1>8. h + a \in Nat
  BY <1>2, SMT
<1> QED
  BY ONLY <1>7, <1>8

\* Which is what the receiver looks for.
LEMMA MultipleVerifies ==
    ASSUME NEW m \in Nat
    PROVE  OnesComplementSum(65535 * (m + 1)) = 65535
<1>1. (65535 * (m + 1) - 1) % 65535 = 65534 /\ 65535 * (m + 1) # 0
  BY SMT
<1> QED
  BY ONLY <1>1, SMTT(60) DEF OnesComplementSum

\* The receiver's sum, checksum included, is 65535 for every frame.
THEOREM ChecksumVerifies ==
    ASSUME NEW s \in Sums
    PROVE  OnesComplementSum(s + Complement(Folded(s))) = 65535
BY SumsToMultiple, MultipleVerifies, SMTT(60)

LEMMA WordIsNat ==
    ASSUME NEW w \in Word
    PROVE  w \in Nat /\ w < 65536
<1>1. MaxWord \in Nat /\ MaxWord < 65536
  BY DEF MaxWord
<1>. QED BY <1>1 DEF Word

LEMMA SwapsWord ==
    ASSUME NEW w \in Nat, w < 65536
    PROVE  Swap(w) \in Nat /\ Swap(w) < 65536
<1>1. ASSUME NEW h \in Nat, NEW l \in Nat, h < 256, l < 256
      PROVE  l * 256 + h \in Nat /\ l * 256 + h < 65536
  BY <1>1, SMT
<1>2. w \div 256 \in Nat /\ w \div 256 < 256 /\ w % 256 \in Nat /\ w % 256 < 256
  BY SMT
<1> QED
  BY ONLY <1>1, <1>2 DEF Swap

LEMMA NextIdIsWord ==
    ASSUME NEW w \in Word
    PROVE  NextId(w) \in Nat /\ NextId(w) < 65536
<1>1. w \in Nat /\ w < 65536
  BY WordIsNat
<1>2. Swap(w) + 1 \in Nat
  BY <1>1, SwapsWord
<1>3. (Swap(w) + 1) % 65536 \in Nat /\ (Swap(w) + 1) % 65536 < 65536
  BY <1>2, Halves
<1> QED
  BY ONLY <1>3, SwapsWord DEF NextId

\* The IP header tcp_rep_frame makes verifies whatever frame it answers, and
\* whatever the length of the payload.
THEOREM AnswerHeaderVerifies ==
    ASSUME NEW p \in Packets, NEW n \in Nat, n <= 32767
    PROVE  LET c == cal_checksum(Total10(IpCheckBuffer(p, n)))
           IN  OnesComplementSum(Total10(IpHeader(p, n, c))) = 65535
<1> DEFINE s == Total10(IpCheckBuffer(p, n))
           c == cal_checksum(s)
<1>1. NextId(p.id) \in Nat /\ NextId(p.id) < 65536
  BY NextIdIsWord DEF Packets
<1>2a. ASSUME NEW l \in Long
      PROVE  l[1] \in Nat /\ l[1] < 65536 /\ l[2] \in Nat /\ l[2] < 65536
  <2>1. PICK v \in Word, w \in Word : l = <<v, w>>
    BY <1>2a DEF Long
  <2>2. l[1] = v /\ l[2] = w
    BY <2>1
  <2>3. v \in Nat /\ v < 65536 /\ w \in Nat /\ w < 65536
    BY ONLY <2>1, WordIsNat
  <2> QED
    BY ONLY <2>2, <2>3
<1>2b. p.dst \in Long /\ p.src \in Long
  BY DEF Packets
<1>2. /\ p.dst[1] \in Nat /\ p.dst[1] < 65536 /\ p.dst[2] \in Nat /\ p.dst[2] < 65536
      /\ p.src[1] \in Nat /\ p.src[1] < 65536 /\ p.src[2] \in Nat /\ p.src[2] < 65536
  BY ONLY <1>2a, <1>2b
<1> DEFINE id == NextId(p.id)
           d1 == p.dst[1]  d2 == p.dst[2]  s1 == p.src[1]  s2 == p.src[2]
<1>3. s = 69 * 256 + (40 + n) + id + 64 * 256 + (50 * 256 + 6) + 0 + d1 + d2 + s1 + s2
  BY DEF Total10, IpCheckBuffer
<1>4. Total10(IpHeader(p, n, c)) =
        69 * 256 + (40 + n) + id + 64 * 256 + (50 * 256 + 6) + c + d1 + d2 + s1 + s2
  BY DEF Total10, IpHeader
<1> HIDE DEF id, d1, d2, s1, s2, s, c
<1>5. id \in Nat /\ id < 65536 /\ d1 \in Nat /\ d1 < 65536 /\ d2 \in Nat /\ d2 < 65536
      /\ s1 \in Nat /\ s1 < 65536 /\ s2 \in Nat /\ s2 < 65536
  BY <1>1, <1>2 DEF id, d1, d2, s1, s2
<1>6. s \in Sums
  <2>1. n \in Nat /\ n <= 32767
    OBVIOUS
  <2>2. s \in Nat /\ s < 655360
    BY ONLY <1>3, <1>5, <2>1, SMT
  <2> QED
    BY ONLY <2>2, SMT DEF Sums
<1>7. c \in Int
  <2>1. Folded(s) \in Nat
    BY <1>6, Halves, SMT DEF Folded, Sums
  <2> QED
    BY <2>1, Halves, SMT DEF c, cal_checksum, Complement
<1>8. Total10(IpHeader(p, n, c)) = s + c
  BY <1>3, <1>4, <1>5, <1>7, SMT
<1>9. OnesComplementSum(s + c) = 65535
  BY <1>6, ChecksumVerifies DEF c, cal_checksum
<1> QED
  BY <1>8, <1>9 DEF c, s
-----------------------------------------------------------------------------
(* Frames: the sum of the words, and of the bytes that are sent.           *)

\* A sum is known by its steps.
LEMMA TotalOf ==
    ASSUME NEW n \in Nat, NEW w \in [1 .. n -> Nat], NEW t,
           t[0] = 0, \A i \in 1 .. n : t[i] = t[i - 1] + w[i]
    PROVE  Total(w) = t[n] /\ Total(w) \in Nat
<1>1. PICK q \in [0 .. n -> Nat] :
         q[0] = 0 /\ q[n] = Total(w) /\ \A i \in 1 .. n : q[i] = q[i - 1] + w[i]
  BY TotalIs
<1>. DEFINE S == {i \in 0 .. n : t[i] = q[i]}
<1>2. 0 \in S
  BY <1>1
<1>3. ASSUME NEW i \in 0 .. n, i \in S, i < n PROVE i + 1 \in S
  <2>1. i + 1 \in 1 .. n /\ i + 1 \in 0 .. n /\ (i + 1) - 1 = i
    <3>. HIDE DEF S
    <3>. QED BY <1>3, NextPlace
  <2>2. t[i + 1] = t[i] + w[i + 1] /\ q[i + 1] = q[i] + w[i + 1]
    BY <1>1, <2>1
  <2>. QED BY <1>3, <2>1, <2>2
<1>4. n \in 0 .. n
  OBVIOUS
<1>5. \A i \in 0 .. n : i \in S
  <2>. HIDE DEF S
  <2>. QED BY <1>2, <1>3, Climb
<1>. QED BY <1>1, <1>4, <1>5

LEMMA SeqIsFunction ==
    ASSUME NEW S, NEW s \in Seq(S)
    PROVE  Len(s) \in Nat /\ s \in [1 .. Len(s) -> S] /\ DOMAIN s = 1 .. Len(s)
BY LenProperties

\* The sum of two sequences, one after the other.
LEMMA TotalConcat ==
    ASSUME NEW v \in Seq(Nat), NEW w \in Seq(Nat)
    PROVE  /\ v \o w \in Seq(Nat) /\ Len(v \o w) = Len(v) + Len(w)
           /\ Total(v \o w) = Total(v) + Total(w)
<1>. DEFINE m == Len(v)
            n == Len(w)
            u == v \o w
<1>1. m \in Nat /\ n \in Nat /\ v \in [1 .. m -> Nat] /\ w \in [1 .. n -> Nat]
  BY SeqIsFunction
<1>2. /\ u \in Seq(Nat) /\ Len(u) = m + n
      /\ \A i \in 1 .. m : u[i] = v[i]
      /\ \A i \in m + 1 .. m + n : u[i] = w[i - m]
  BY <1>1, ConcatProperties
<1>3. m + n \in Nat /\ u \in [1 .. m + n -> Nat]
  <2>. HIDE DEF u
  <2>. QED BY <1>1, <1>2, SeqIsFunction
<1>. HIDE DEF m, n, u
<1>4. PICK q \in [0 .. m -> Nat] :
         q[0] = 0 /\ q[m] = Total(v) /\ \A i \in 1 .. m : q[i] = q[i - 1] + v[i]
  BY <1>1, TotalIs
<1>5. PICK r \in [0 .. n -> Nat] :
         r[0] = 0 /\ r[n] = Total(w) /\ \A i \in 1 .. n : r[i] = r[i - 1] + w[i]
  BY <1>1, TotalIs
<1>. DEFINE t == [i \in 0 .. m + n |-> IF i <= m THEN q[i] ELSE q[m] + r[i - m]]
<1>6. t[0] = 0 /\ t[m + n] = Total(v) + Total(w)
  <2>1. 0 \in 0 .. m + n /\ m + n \in 0 .. m + n /\ m \in 0 .. m /\ n \in 0 .. n
    BY <1>1
  <2>2. t[0] = 0
    BY <1>1, <1>4, <2>1
  <2>3. CASE n = 0
    <3>1. t[m + n] = q[m] /\ r[n] = 0 /\ q[m] \in Nat
      BY <1>1, <1>4, <1>5, <2>1, <2>3
    <3>. QED BY <1>4, <1>5, <2>2, <3>1
  <2>4. CASE n # 0
    <3>1. ~(m + n <= m) /\ (m + n) - m = n
      BY <1>1, <2>4
    <3>. QED BY <1>4, <1>5, <2>1, <2>2, <3>1
  <2>. QED BY <2>3, <2>4
<1>7. ASSUME NEW i \in 1 .. m + n PROVE t[i] = t[i - 1] + u[i]
  <2>1. i \in Nat /\ i \in 0 .. m + n /\ i - 1 \in 0 .. m + n
    BY <1>1
  <2>2. CASE i <= m
    <3>1. i \in 1 .. m /\ i - 1 <= m
      BY <1>1, <2>1, <2>2
    <3>. QED BY <1>2, <1>4, <2>1, <2>2, <3>1
  <2>3. CASE i = m + 1
    <3>1. /\ ~(i <= m) /\ i - 1 <= m /\ i - 1 = m /\ i - m = 1 /\ (i - m) - 1 = 0
          /\ i - m \in 1 .. n /\ i \in m + 1 .. m + n /\ m \in 0 .. m /\ 1 \in 0 .. n
      BY <1>1, <2>1, <2>3
    <3>2. t[i - 1] = q[m] /\ t[i] = q[m] + r[1] /\ u[i] = w[1]
      BY <1>2, <2>1, <3>1
    <3>3. r[1] = 0 + w[1] /\ w[1] \in Nat /\ q[m] \in Nat
      BY <1>1, <1>4, <1>5, <3>1
    <3>. QED BY <3>2, <3>3
  <2>4. CASE i > m + 1
    <3>1. /\ ~(i <= m) /\ ~(i - 1 <= m) /\ (i - 1) - m = (i - m) - 1
          /\ i - m \in 1 .. n /\ i \in m + 1 .. m + n /\ (i - m) - 1 \in 0 .. n
          /\ i - m \in 0 .. n /\ m \in 0 .. m
      BY <1>1, <2>1, <2>4
    <3>2. t[i - 1] = q[m] + r[(i - m) - 1] /\ t[i] = q[m] + r[i - m] /\ u[i] = w[i - m]
      BY <1>2, <2>1, <3>1
    <3>3. /\ r[i - m] = r[(i - m) - 1] + w[i - m] /\ w[i - m] \in Nat /\ q[m] \in Nat
          /\ r[(i - m) - 1] \in Nat
      BY <1>1, <1>4, <1>5, <3>1
    <3>. QED BY <3>2, <3>3
  <2>. QED BY <1>1, <2>1, <2>2, <2>3, <2>4
<1>. HIDE DEF t
<1>8. Total(u) = t[m + n]
  BY <1>3, <1>6, <1>7, TotalOf
<1>. QED BY <1>2, <1>6, <1>8 DEF m, n, u

LEMMA TotalOfPair ==
    ASSUME NEW x \in Nat, NEW y \in Nat
    PROVE  <<x, y>> \in Seq(Nat) /\ Len(<<x, y>>) = 2 /\ Total(<<x, y>>) = x + y
<1>. DEFINE t == [i \in 0 .. 2 |-> IF i = 0 THEN 0 ELSE IF i = 1 THEN x ELSE x + y]
            w == <<x, y>>
<1>1. w \in [1 .. 2 -> Nat] /\ 1 .. 2 = {1, 2} /\ w[1] = x /\ w[2] = y
  OBVIOUS
<1>. HIDE DEF w
<1>2. t[0] = 0 /\ t[1] = x /\ t[2] = x + y
  OBVIOUS
<1>. HIDE DEF t
<1>3. \A i \in 1 .. 2 : t[i] = t[i - 1] + w[i]
  <2>1. t[1] = t[1 - 1] + w[1] /\ t[2] = t[2 - 1] + w[2]
    <3>1. 1 - 1 = 0 /\ 2 - 1 = 1
      OBVIOUS
    <3>. QED BY <1>1, <1>2, <3>1
  <2>. QED BY ONLY <1>1, <2>1
<1>4. Total(w) = x + y
  <2>1. 2 \in Nat
    OBVIOUS
  <2>2. Total(w) = t[2]
    <3>1. w \in [1 .. 2 -> Nat] /\ t[0] = 0
      BY <1>1, <1>2
    <3>. QED BY ONLY <1>3, <2>1, <3>1, TotalOf
  <2>. QED BY <1>2, <2>2
<1>. QED BY <1>4 DEF w

\* The sum of so many words.
LEMMA TotalBound ==
    ASSUME NEW w \in Seq(Nat), \A i \in 1 .. Len(w) : w[i] <= 65535
    PROVE  Total(w) \in Nat /\ Total(w) <= 65535 * Len(w)
<1>. DEFINE n == Len(w)
<1>1. n \in Nat /\ w \in [1 .. n -> Nat]
  BY SeqIsFunction
<1>2. \A i \in 1 .. n : w[i] <= 65535
  OBVIOUS
<1>. HIDE DEF n
<1>3. PICK q \in [0 .. n -> Nat] :
         q[0] = 0 /\ q[n] = Total(w) /\ \A i \in 1 .. n : q[i] = q[i - 1] + w[i]
  BY ONLY <1>1, TotalIs
<1>. DEFINE S == {i \in 0 .. n : q[i] <= 65535 * i}
<1>4. 0 \in S
  BY <1>1, <1>3
<1>5. ASSUME NEW i \in 0 .. n, i \in S, i < n PROVE i + 1 \in S
  <2>1. i \in Nat /\ i + 1 \in 1 .. n /\ i + 1 \in 0 .. n /\ (i + 1) - 1 = i
    <3>. HIDE DEF S
    <3>. QED BY <1>1, <1>5, NextPlace
  <2>2. q[i + 1] = q[i] + w[i + 1] /\ w[i + 1] \in Nat /\ w[i + 1] <= 65535 /\ q[i] \in Nat
    BY <1>1, <1>2, <1>3, <2>1
  <2>3. q[i] <= 65535 * i
    BY <1>5
  <2>4. q[i + 1] <= 65535 * (i + 1)
    BY <2>1, <2>2, <2>3
  <2>. QED BY <2>1, <2>4
<1>6. n \in 0 .. n
  BY <1>1
<1>7. \A i \in 0 .. n : i \in S
  <2>. HIDE DEF S
  <2>. QED BY ONLY <1>1, <1>4, <1>5, Climb
<1>. QED BY <1>3, <1>6, <1>7 DEF n

LEMMA Parity ==
    ASSUME NEW i \in Nat
    PROVE  \E h \in Nat : \/ i = 2 * h /\ i % 2 = 0 /\ i \div 2 = h
                          \/ i = 2 * h + 1 /\ i % 2 = 1 /\ i \div 2 = h
<1>1. i \div 2 \in Nat /\ i = 2 * (i \div 2) + (i % 2) /\ i % 2 \in {0, 1}
  OBVIOUS
<1>. QED BY <1>1

\* The words of a payload, of an odd one too, have the sum of its bytes as they
\* are sent.
LEMMA WordsOfBytes ==
    ASSUME NEW b \in Seq(Byte)
    PROVE  LET w == PayloadWords(b)
           IN  /\ w \in Seq(Nat) /\ Len(w) = (Len(b) + 1) \div 2
               /\ \A i \in 1 .. Len(w) : w[i] <= 65535
               /\ ByteTotal(b) = Total(w)
<1>. DEFINE n == Len(b)
            m == (n + 1) \div 2
            w == PayloadWords(b)
            c == [i \in 1 .. n |-> (IF i % 2 = 1 THEN 256 ELSE 1) * b[i]]
<1>1. n \in Nat /\ \A i \in 1 .. n : b[i] \in Nat /\ b[i] <= 255
  <2>1. n \in Nat /\ \A i \in 1 .. n : b[i] \in Byte
    <3>. HIDE DEF w, c, m
    <3>. QED BY SeqIsFunction
  <2>2. \A x \in Byte : x \in Nat /\ x <= 255
    BY DEF Byte
  <2>. QED BY <2>1, <2>2
<1>2. w = [i \in 1 .. m |-> 256 * b[2 * i - 1] + (IF 2 * i <= n THEN b[2 * i] ELSE 0)]
  BY DEF PayloadWords
<1>3. ByteTotal(b) = Total(c)
  BY DEF ByteTotal
<1>4. c \in [1 .. n -> Nat]
  <2>1. ASSUME NEW i \in 1 .. n PROVE (IF i % 2 = 1 THEN 256 ELSE 1) * b[i] \in Nat
    BY <1>1
  <2>. QED BY <2>1
<1>. HIDE DEF n, w, c
<1>5. m \in Nat /\ \A i \in 1 .. m : 2 * i - 1 \in 1 .. n /\ 2 * i <= n + 1
  BY <1>1
<1>. HIDE DEF m
<1>6. ASSUME NEW i \in 1 .. m PROVE w[i] \in Nat /\ w[i] <= 65535
  <2>1. i \in Nat /\ 2 * i - 1 \in 1 .. n /\ (2 * i <= n => 2 * i \in 1 .. n)
    BY <1>1, <1>5
  <2>2. w[i] = 256 * b[2 * i - 1] + (IF 2 * i <= n THEN b[2 * i] ELSE 0)
    BY <1>2
  <2>3. b[2 * i - 1] \in Nat /\ b[2 * i - 1] <= 255
    BY <1>1, <2>1
  <2>4. 2 * i <= n => b[2 * i] \in Nat /\ b[2 * i] <= 255
    BY <1>1, <2>1
  <2>. QED BY ONLY <2>2, <2>3, <2>4, SMTT(60)
<1>7. w \in [1 .. m -> Nat]
  BY <1>2, <1>6
<1>8. w \in Seq(Nat) /\ Len(w) = m
  BY <1>5, <1>7, SeqDef
<1>9. PICK q \in [0 .. m -> Nat] :
         q[0] = 0 /\ q[m] = Total(w) /\ \A i \in 1 .. m : q[i] = q[i - 1] + w[i]
  BY ONLY <1>5, <1>7, TotalIs
\* Byte by byte.
<1>. DEFINE t == [i \in 0 .. n |-> IF i % 2 = 0 THEN q[i \div 2]
                                   ELSE q[i \div 2] + 256 * b[i]]
<1>10. \A h \in Nat : /\ 2 * h \in 0 .. n => t[2 * h] = q[h]
                      /\ 2 * h + 1 \in 0 .. n => t[2 * h + 1] = q[h] + 256 * b[2 * h + 1]
  <2>1. \A h \in Nat : /\ (2 * h) % 2 = 0 /\ (2 * h) \div 2 = h
                       /\ (2 * h + 1) % 2 = 1 /\ (2 * h + 1) \div 2 = h
    OBVIOUS
  <2>. QED BY <2>1
<1>. HIDE DEF t
<1>11. t[0] = 0
  <2>1. 0 \in 0 .. n /\ 2 * 0 = 0 /\ 0 \in Nat
    BY <1>1
  <2>. QED BY <1>9, <1>10, <2>1
\* The two bytes of a word.
<1>12. ASSUME NEW h \in Nat, 2 * h + 1 <= n
       PROVE  /\ h \in 0 .. m /\ h + 1 \in 1 .. m /\ q[h] \in Nat
              /\ q[h + 1] = q[h] + w[h + 1]
              /\ 2 * h + 1 \in 1 .. n /\ b[2 * h + 1] \in Nat
              /\ w[h + 1] = 256 * b[2 * h + 1] + (IF 2 * h + 2 <= n THEN b[2 * h + 2] ELSE 0)
  <2>1. h \in 0 .. m /\ h + 1 \in 1 .. m /\ (h + 1) - 1 = h /\ 2 * h + 1 \in 1 .. n
    BY <1>1, <1>12 DEF m
  <2>2. 2 * (h + 1) - 1 = 2 * h + 1 /\ 2 * (h + 1) = 2 * h + 2
    OBVIOUS
  <2>3. w[h + 1] = 256 * b[2 * h + 1] + (IF 2 * h + 2 <= n THEN b[2 * h + 2] ELSE 0)
    BY ONLY <1>2, <2>1, <2>2
  <2>4. q[h + 1] = q[h] + w[h + 1] /\ q[h] \in Nat
    BY ONLY <1>9, <2>1
  <2>5. b[2 * h + 1] \in Nat
    BY ONLY <1>1, <2>1
  <2>. QED BY ONLY <2>1, <2>3, <2>4, <2>5
<1>13. t[n] = q[m]
  <2>1. PICK h \in Nat : n = 2 * h \/ n = 2 * h + 1
    BY <1>1, Parity
  <2>2. CASE n = 2 * h
    <3>1. m = h /\ 2 * h \in 0 .. n
      BY <2>2 DEF m
    <3>. QED BY <1>10, <2>2, <3>1
  <2>3. CASE n = 2 * h + 1
    <3>1. m = h + 1 /\ 2 * h + 1 \in 0 .. n /\ ~(2 * h + 2 <= n)
      BY <2>3 DEF m
    <3>2. q[h + 1] = q[h] + (256 * b[2 * h + 1] + 0) /\ q[h] \in Nat /\ b[2 * h + 1] \in Nat
      BY <1>1, <1>12, <2>3, <3>1
    <3>3. t[2 * h + 1] = q[h] + 256 * b[2 * h + 1]
      BY <1>10, <3>1
    <3>. QED BY <2>3, <3>1, <3>2, <3>3
  <2>. QED BY <2>1, <2>2, <2>3
<1>14. ASSUME NEW i \in 1 .. n PROVE t[i] = t[i - 1] + c[i]
  <2>1. i \in Nat /\ i # 0 /\ i <= n
    BY <1>1
  <2>2. c[i] = (IF i % 2 = 1 THEN 256 ELSE 1) * b[i] /\ b[i] \in Nat
    BY <1>1 DEF c
  <2>3. PICK h \in Nat : (i = 2 * h /\ i % 2 = 0) \/ (i = 2 * h + 1 /\ i % 2 = 1)
    BY <2>1, Parity
  <2>4. CASE i = 2 * h + 1 /\ i % 2 = 1
    <3>1. 2 * h + 1 \in 0 .. n /\ 2 * h \in 0 .. n /\ i - 1 = 2 * h
      BY <1>1, <2>1, <2>4
    <3>2. t[i] = q[h] + 256 * b[i] /\ t[i - 1] = q[h]
      BY <1>10, <2>4, <3>1
    <3>3. c[i] = 256 * b[i]
      BY <2>2, <2>4
    <3>. QED BY <3>2, <3>3
  <2>5. CASE i = 2 * h /\ i % 2 = 0
    <3>1. PICK g \in Nat : h = g + 1
      <4>1. h - 1 \in Nat /\ h = (h - 1) + 1
        BY <2>1, <2>5
      <4>. QED BY <4>1
    <3>2. /\ i = 2 * g + 2 /\ i - 1 = 2 * g + 1 /\ 2 * g + 1 <= n /\ 2 * g + 1 \in 0 .. n
          /\ 2 * h \in 0 .. n
      BY <1>1, <2>1, <2>5, <3>1
    <3>3. t[i] = q[g + 1] /\ t[i - 1] = q[g] + 256 * b[2 * g + 1]
      BY <1>10, <2>5, <3>1, <3>2
    <3>4. /\ q[g + 1] = q[g] + (256 * b[2 * g + 1] + b[i])
          /\ q[g] \in Nat /\ b[2 * g + 1] \in Nat
      <4>1. 2 * g + 2 <= n /\ 2 * g + 2 = i
        BY <2>1, <3>2
      <4>2. /\ q[g + 1] = q[g] + w[g + 1] /\ q[g] \in Nat /\ b[2 * g + 1] \in Nat
            /\ w[g + 1] = 256 * b[2 * g + 1] + (IF 2 * g + 2 <= n THEN b[2 * g + 2] ELSE 0)
        BY ONLY <1>12, <3>1, <3>2
      <4>. QED BY ONLY <4>1, <4>2
    <3>5. c[i] = b[i]
      BY <2>2, <2>5
    <3>. QED BY ONLY <2>2, <3>3, <3>4, <3>5, SMTT(60)
  <2>. QED BY <2>3, <2>4, <2>5
<1>15. Total(c) = t[n]
  BY ONLY <1>1, <1>4, <1>11, <1>14, TotalOf
<1>. QED BY <1>3, <1>6, <1>8, <1>9, <1>13, <1>15 DEF w, m, n

\* Words of 16 bits.
AreWords(w) == w \in Seq(Nat) /\ \A i \in 1 .. Len(w) : w[i] <= 65535

LEMMA JoinWords ==
    ASSUME NEW v, NEW w, AreWords(v), AreWords(w)
    PROVE  /\ AreWords(v \o w) /\ Len(v \o w) = Len(v) + Len(w)
           /\ Total(v \o w) = Total(v) + Total(w)
<1>1. v \in Seq(Nat) /\ w \in Seq(Nat) /\ Len(v) \in Nat /\ Len(w) \in Nat
  BY LenProperties DEF AreWords
<1>2. /\ v \o w \in Seq(Nat) /\ Len(v \o w) = Len(v) + Len(w)
      /\ Total(v \o w) = Total(v) + Total(w)
  BY <1>1, TotalConcat
<1>3. /\ \A i \in 1 .. Len(v) : (v \o w)[i] = v[i]
      /\ \A i \in Len(v) + 1 .. Len(v) + Len(w) : (v \o w)[i] = w[i - Len(v)]
  BY <1>1, ConcatProperties
<1>4. ASSUME NEW i \in 1 .. Len(v) + Len(w) PROVE (v \o w)[i] <= 65535
  <2>1. CASE i \in 1 .. Len(v)
    BY <1>3, <2>1 DEF AreWords
  <2>2. CASE i \notin 1 .. Len(v)
    <3>1. i \in Len(v) + 1 .. Len(v) + Len(w) /\ i - Len(v) \in 1 .. Len(w)
      BY <1>1, <2>2
    <3>. QED BY <1>3, <3>1 DEF AreWords
  <2>. QED BY <2>1, <2>2
<1>. QED BY <1>2, <1>4 DEF AreWords

LEMMA PairOfWords ==
    ASSUME NEW x \in Nat, NEW y \in Nat, x <= 65535, y <= 65535
    PROVE  AreWords(<<x, y>>) /\ Len(<<x, y>>) = 2 /\ Total(<<x, y>>) = x + y
<1>1. 1 .. 2 = {1, 2} /\ <<x, y>>[1] = x /\ <<x, y>>[2] = y
  OBVIOUS
<1>2. <<x, y>> \in Seq(Nat) /\ Len(<<x, y>>) = 2 /\ Total(<<x, y>>) = x + y
  BY TotalOfPair
<1>. QED BY <1>1, <1>2 DEF AreWords

LEMMA FourWords ==
    ASSUME NEW x \in Nat, x <= 65535
    PROVE  LET w == <<80 * 256 + 24, 255, x, 0>>
           IN  AreWords(w) /\ Len(w) = 4 /\ Total(w) = 20759 + x
<1>. DEFINE w == <<80 * 256 + 24, 255, x, 0>>
            t == [i \in 0 .. 4 |-> CASE i = 0 -> 0 [] i = 1 -> 20504 [] i = 2 -> 20759
                                     [] i = 3 -> 20759 + x [] i = 4 -> 20759 + x]
<1>1. /\ w[1] = 20504 /\ w[2] = 255 /\ w[3] = x /\ w[4] = 0
      /\ w \in Seq(Nat) /\ Len(w) = 4 /\ w \in [1 .. 4 -> Nat]
  OBVIOUS
<1>2. 1 .. 4 = {1, 2, 3, 4} /\ 4 \in Nat
  OBVIOUS
<1>. HIDE DEF w
<1>3. t[0] = 0 /\ t[1] = 20504 /\ t[2] = 20759 /\ t[3] = 20759 + x /\ t[4] = 20759 + x
  OBVIOUS
<1>. HIDE DEF t
<1>4. \A i \in 1 .. 4 : t[i] = t[i - 1] + w[i]
  <2>1. 1 - 1 = 0 /\ 2 - 1 = 1 /\ 3 - 1 = 2 /\ 4 - 1 = 3
    OBVIOUS
  <2>2. /\ t[1] = t[1 - 1] + w[1] /\ t[2] = t[2 - 1] + w[2]
        /\ t[3] = t[3 - 1] + w[3] /\ t[4] = t[4 - 1] + w[4]
    BY <1>1, <1>3, <2>1
  <2>. QED BY <1>2, <2>2
<1>5. Total(w) = 20759 + x
  <2>1. ASSUME NEW n \in Nat, n = 4 PROVE Total(w) = t[n]
    <3>1. w \in [1 .. n -> Nat] /\ t[0] = 0 /\ \A i \in 1 .. n : t[i] = t[i - 1] + w[i]
      BY <1>1, <1>3, <1>4, <2>1
    <3>. QED BY ONLY n \in Nat, <3>1, TotalOf
  <2>. QED BY <1>3, <2>1
<1>6. AreWords(w)
  BY <1>1, <1>2 DEF AreWords
<1>. QED BY <1>1, <1>5, <1>6 DEF w

\* A field of 32 bits is two words.
LEMMA LongIs ==
    ASSUME NEW l \in Long
    PROVE  /\ AreWords(l) /\ Len(l) = 2
           /\ l[1] \in Nat /\ l[1] < 65536 /\ l[2] \in Nat /\ l[2] < 65536
<1>1. PICK v \in Word, w \in Word : l = <<v, w>>
  BY DEF Long
<1>2. v \in Nat /\ v < 65536 /\ w \in Nat /\ w < 65536
  BY ONLY <1>1, WordIsNat
<1>3. l[1] = v /\ l[2] = w
  BY <1>1
<1>4. AreWords(l) /\ Len(l) = 2
  <2>1. v <= 65535 /\ w <= 65535
    BY <1>2
  <2>. QED BY ONLY <1>1, <1>2, <2>1, PairOfWords
<1>. QED BY ONLY <1>2, <1>3, <1>4

LEMMA LowWord ==
    ASSUME NEW x \in Int
    PROVE  x % 65536 \in Nat /\ x % 65536 < 65536 /\ x \div 65536 \in Int
BY SMT

LEMMA AddLongIsLong ==
    ASSUME NEW l \in Long, NEW n \in Int
    PROVE  AreWords(AddLong(l, n)) /\ Len(AddLong(l, n)) = 2
<1>. DEFINE low == Swap(l[1]) + n
            high == Swap(l[2]) + low \div 65536
<1>1. Swap(l[1]) \in Int /\ Swap(l[2]) \in Int
  BY LongIs, SwapsWord
<1>2. low \in Int
  BY <1>1
<1>3. high \in Int
  <2>. HIDE DEF low
  <2>1. low \div 65536 \in Int
    BY <1>2, LowWord
  <2>. QED BY <1>1, <2>1
<1>4. AddLong(l, n) = <<Swap(low % 65536), Swap(high % 65536)>>
  BY DEF AddLong
<1>. HIDE DEF low, high
<1>5. /\ Swap(low % 65536) \in Nat /\ Swap(low % 65536) <= 65535
      /\ Swap(high % 65536) \in Nat /\ Swap(high % 65536) <= 65535
  <2>1. \A x \in Nat : x < 65536 => x <= 65535
    OBVIOUS
  <2>. QED BY <1>2, <1>3, <2>1, LowWord, SwapsWord
<1>. QED BY ONLY <1>4, <1>5, PairOfWords

\* A checksum is a word.
LEMMA ChecksumIsWord ==
    ASSUME NEW s \in Nat
    PROVE  cal_checksum(s) \in Nat /\ cal_checksum(s) <= 65535
<1>1. Folded(s) \in Nat
  BY Halves, SMT DEF Folded
<1>2. Folded(s) % 65536 \in Nat /\ Folded(s) % 65536 < 65536
  BY <1>1, Halves
<1>3. cal_checksum(s) = 65535 - (Folded(s) % 65536)
  BY SMTT(60) DEF cal_checksum, Complement
<1>. HIDE DEF cal_checksum
<1>. QED BY <1>2, <1>3

\* What comes before the last words of a TCP header.
Ports(p) == <<p.dport, p.sport>> \o p.ack \o Ack(p)

LEMMA FieldsAre ==
    ASSUME NEW p \in Packets
    PROVE  /\ AreWords(<<p.dport, p.sport>>) /\ Len(<<p.dport, p.sport>>) = 2
           /\ AreWords(p.ack) /\ Len(p.ack) = 2 /\ AreWords(Ack(p)) /\ Len(Ack(p)) = 2
<1>1. p.dport \in Nat /\ p.dport <= 65535 /\ p.sport \in Nat /\ p.sport <= 65535
  <2>1. p.dport \in Word /\ p.sport \in Word
    BY DEF Packets
  <2>2. /\ p.dport \in Nat /\ p.dport < 65536
        /\ p.sport \in Nat /\ p.sport < 65536
    BY ONLY <2>1, WordIsNat
  <2>. QED BY ONLY <2>2
<1>2. p.ack \in Long /\ p.seq \in Long /\ p.len - 44 \in Int
  BY DEF Packets
<1>3. AreWords(<<p.dport, p.sport>>) /\ Len(<<p.dport, p.sport>>) = 2
  BY <1>1, PairOfWords
<1>4. AreWords(p.ack) /\ Len(p.ack) = 2 /\ AreWords(Ack(p)) /\ Len(Ack(p)) = 2
  BY <1>2, LongIs, AddLongIsLong DEF Ack
<1>. QED BY ONLY <1>3, <1>4, SMTT(60)

LEMMA PortsAre ==
    ASSUME NEW p \in Packets
    PROVE  AreWords(Ports(p)) /\ Len(Ports(p)) = 6
<1>. DEFINE pair == <<p.dport, p.sport>>
<1>1. /\ AreWords(pair) /\ Len(pair) = 2 /\ AreWords(p.ack) /\ Len(p.ack) = 2
      /\ AreWords(Ack(p)) /\ Len(Ack(p)) = 2
  BY FieldsAre
<1>. HIDE DEF pair
<1>2. AreWords(pair \o p.ack) /\ Len(pair \o p.ack) = 4
  <2>1. AreWords(pair \o p.ack) /\ Len(pair \o p.ack) = Len(pair) + Len(p.ack)
    BY ONLY <1>1, JoinWords
  <2>. QED BY <1>1, <2>1
<1>3. AreWords(pair \o p.ack \o Ack(p)) /\ Len(pair \o p.ack \o Ack(p)) = 6
  <2>1. /\ AreWords(pair \o p.ack \o Ack(p))
        /\ Len(pair \o p.ack \o Ack(p)) = Len(pair \o p.ack) + Len(Ack(p))
    BY ONLY <1>1, <1>2, JoinWords
  <2>. QED BY <1>1, <1>2, <2>1
<1>. QED BY <1>3 DEF Ports, pair

LEMMA PseudoHeaderIs ==
    ASSUME NEW p \in Packets, NEW n \in Nat, n <= 32767
    PROVE  AreWords(PseudoHeader(p, n)) /\ Len(PseudoHeader(p, n)) = 6
<1>1. p.dst \in Long /\ p.src \in Long
  BY DEF Packets
<1>2. AreWords(p.dst) /\ Len(p.dst) = 2 /\ AreWords(p.src) /\ Len(p.src) = 2
  BY <1>1, LongIs
<1>. DEFINE pair == <<6, n + 20>>
<1>3. AreWords(pair) /\ Len(pair) = 2
  <2>1. 6 \in Nat /\ 6 <= 65535 /\ n + 20 \in Nat /\ n + 20 <= 65535
    OBVIOUS
  <2>. QED BY ONLY <2>1, PairOfWords
<1>. HIDE DEF pair
<1>4. AreWords(p.dst \o p.src) /\ Len(p.dst \o p.src) = 4
  <2>1. AreWords(p.dst \o p.src) /\ Len(p.dst \o p.src) = Len(p.dst) + Len(p.src)
    BY ONLY <1>2, JoinWords
  <2>. QED BY <1>2, <2>1
<1>5. AreWords(p.dst \o p.src \o pair) /\ Len(p.dst \o p.src \o pair) = 6
  <2>1. /\ AreWords(p.dst \o p.src \o pair)
        /\ Len(p.dst \o p.src \o pair) = Len(p.dst \o p.src) + Len(pair)
    BY ONLY <1>3, <1>4, JoinWords
  <2>. QED BY <1>3, <1>4, <2>1
<1>. DEFINE all == p.dst \o p.src \o pair
            header == PseudoHeader(p, n)
<1>6. AreWords(all) /\ Len(all) = 6
  BY <1>5
<1>7. header = all
  BY DEF PseudoHeader, pair
<1>. HIDE DEF all, header
<1>8. AreWords(header) /\ Len(header) = 6
  BY ONLY <1>6, <1>7
<1>. QED BY ONLY <1>8 DEF header

LEMMA WordsSum ==
    ASSUME NEW w, AreWords(w)
    PROVE  Len(w) \in Nat /\ Total(w) \in Nat /\ Total(w) <= 65535 * Len(w)
BY TotalBound, LenProperties DEF AreWords

\* The same words, in one piece or field by field.
Joins(u, v, w) == AreWords(u) /\ Len(u) = Len(v) + Len(w) /\ Total(u) = Total(v) + Total(w)

LEMMA JoinFields ==
    ASSUME NEW v, NEW x, NEW y, NEW z, AreWords(v), AreWords(x), AreWords(y), AreWords(z)
    PROVE  Joins(v \o x \o y \o z, v, x \o y \o z)
<1>1. AreWords(v \o x) /\ AreWords(v \o x \o y) /\ AreWords(x \o y) /\ AreWords(x \o y \o z)
  BY JoinWords
<1>2. AreWords(v \o x \o y \o z)
  BY <1>1, JoinWords
<1>3. /\ Len(v) \in Nat /\ Len(x) \in Nat /\ Len(y) \in Nat /\ Len(z) \in Nat
      /\ Total(v) \in Nat /\ Total(x) \in Nat /\ Total(y) \in Nat /\ Total(z) \in Nat
  BY WordsSum
<1>4. /\ Len(v \o x) = Len(v) + Len(x) /\ Total(v \o x) = Total(v) + Total(x)
      /\ Len(x \o y) = Len(x) + Len(y) /\ Total(x \o y) = Total(x) + Total(y)
  BY JoinWords
<1>5. /\ Len(v \o x \o y) = Len(v \o x) + Len(y) /\ Total(v \o x \o y) = Total(v \o x) + Total(y)
      /\ Len(x \o y \o z) = Len(x \o y) + Len(z) /\ Total(x \o y \o z) = Total(x \o y) + Total(z)
  BY <1>1, JoinWords
<1>6. /\ Len(v \o x \o y \o z) = Len(v \o x \o y) + Len(z)
      /\ Total(v \o x \o y \o z) = Total(v \o x \o y) + Total(z)
  BY <1>1, JoinWords
<1>. QED BY <1>2, <1>3, <1>4, <1>5, <1>6 DEF Joins

\* Of the fields of the answer's TCP segment: what the receiver adds up is what
\* cal_checksum added up, and the checksum.
THEOREM AnswerSegmentVerifies ==
    ASSUME NEW p \in Packets, NEW b \in Seq(Byte), Len(b) <= 32767
    PROVE  LET c == cal_checksum(Total(TcpCheckBuffer(p, b)))
           IN  OnesComplementSum(Total(PseudoHeader(p, Len(b))) + Total(TcpHeader(p, c))
                                   + ByteTotal(b)) = 65535
<1>. DEFINE n == Len(b)
            pseudo == PseudoHeader(p, n)
            ports == Ports(p)
            words == PayloadWords(b)
            four(x) == <<80 * 256 + 24, 255, x, 0>>
            head == pseudo \o <<p.dport, p.sport>> \o p.ack \o Ack(p)
            buffer == TcpCheckBuffer(p, b)
            s == Total(buffer)
            c == cal_checksum(s)
<1>1. n \in Nat /\ n <= 32767
  BY LenProperties
<1>2. AreWords(pseudo) /\ Len(pseudo) = 6
  BY <1>1, PseudoHeaderIs
<1>3. AreWords(ports) /\ Len(ports) = 6
  BY PortsAre
<1>4. /\ AreWords(words) /\ Len(words) = (n + 1) \div 2 /\ Total(words) = ByteTotal(b)
      /\ Len(words) \in Nat /\ Len(words) <= 16384
  <2>1. AreWords(words) /\ Len(words) = (n + 1) \div 2 /\ Total(words) = ByteTotal(b)
    BY WordsOfBytes DEF AreWords
  <2>2. \A k \in Nat : k <= 32767 => (k + 1) \div 2 \in Nat /\ (k + 1) \div 2 <= 16384
    OBVIOUS
  <2>. HIDE DEF n
  <2>. QED BY <1>1, <2>1, <2>2
<1>5. buffer = head \o four(0) \o words
  BY DEF TcpCheckBuffer
<1>6. /\ AreWords(head) /\ Len(head) = Len(pseudo) + Len(ports)
      /\ Total(head) = Total(pseudo) + Total(ports)
  <2>. DEFINE pair == <<p.dport, p.sport>>
  <2>1. AreWords(pair) /\ AreWords(p.ack) /\ AreWords(Ack(p))
    BY FieldsAre
  <2>2. head = pseudo \o pair \o p.ack \o Ack(p) /\ ports = pair \o p.ack \o Ack(p)
    BY DEF Ports
  <2>. HIDE DEF pseudo, pair, head, ports
  <2>3. Joins(pseudo \o pair \o p.ack \o Ack(p), pseudo, pair \o p.ack \o Ack(p))
    BY ONLY <1>2, <2>1, JoinFields
  <2>4. Joins(head, pseudo, ports)
    BY ONLY <2>2, <2>3
  <2>. QED BY ONLY <2>4 DEF Joins
<1>. HIDE DEF n, pseudo, ports, words, head, buffer
<1>7. \A x \in Nat : x <= 65535 =>
         AreWords(four(x)) /\ Len(four(x)) = 4 /\ Total(four(x)) = 20759 + x
  BY FourWords
<1>8. AreWords(four(0)) /\ Len(four(0)) = 4 /\ Total(four(0)) = 20759
  <2>1. 0 \in Nat /\ 0 <= 65535 /\ 20759 + 0 = 20759
    OBVIOUS
  <2>. HIDE DEF four
  <2>. QED BY <1>7, <2>1
<1>. HIDE DEF four
<1>9. /\ AreWords(head \o four(0)) /\ Len(head \o four(0)) = Len(head) + Len(four(0))
      /\ Total(head \o four(0)) = Total(head) + Total(four(0))
  BY ONLY <1>6, <1>8, JoinWords
<1>10. /\ AreWords(buffer) /\ Len(buffer) = Len(head \o four(0)) + Len(words)
       /\ s = Total(head \o four(0)) + Total(words)
  <2>. DEFINE rest == head \o four(0)
  <2>1. AreWords(rest)
    BY <1>9
  <2>. HIDE DEF rest
  <2>2. /\ AreWords(rest \o words) /\ Len(rest \o words) = Len(rest) + Len(words)
        /\ Total(rest \o words) = Total(rest) + Total(words)
    BY ONLY <1>4, <2>1, JoinWords
  <2>3. buffer = rest \o words
    BY <1>5 DEF rest
  <2>. QED BY ONLY <2>2, <2>3 DEF rest, s
<1>11. Len(buffer) \in Nat /\ Len(buffer) <= 16400
  <2>1. Len(head) = 12
    BY ONLY <1>2, <1>3, <1>6
  <2>. DEFINE zero == four(0)
              rest == head \o zero
  <2>2. Len(zero) = 4 /\ Len(rest) = Len(head) + Len(zero) /\ Len(buffer) = Len(rest) + Len(words)
    BY <1>8, <1>9, <1>10
  <2>. HIDE DEF zero, rest
  <2>3. Len(buffer) = 16 + Len(words)
    BY ONLY <2>1, <2>2, <1>4
  <2>. QED BY ONLY <1>4, <2>3
<1>12. s \in Nat /\ s \in Sums
  <2>1. s \in Nat /\ s <= 65535 * Len(buffer)
    BY <1>10, WordsSum
  <2>. QED BY <1>11, <2>1 DEF Sums
<1>. HIDE DEF s
<1>13. c \in Nat /\ c <= 65535
  BY <1>12, ChecksumIsWord
<1>14. OnesComplementSum(s + c) = 65535
  BY <1>12, ChecksumVerifies DEF cal_checksum
<1>. HIDE DEF c
<1>15. Total(TcpHeader(p, c)) = Total(ports) + (20759 + c)
  <2>1. AreWords(four(c)) /\ Total(four(c)) = 20759 + c
    BY <1>7, <1>13
  <2>2. Total(ports \o four(c)) = Total(ports) + Total(four(c))
    BY ONLY <1>3, <2>1, JoinWords
  <2>3. TcpHeader(p, c) = ports \o four(c)
    BY DEF TcpHeader, Ports, ports, four
  <2>. QED BY ONLY <2>1, <2>2, <2>3
<1>16. /\ Total(pseudo) \in Nat /\ Total(ports) \in Nat /\ Total(words) \in Nat
  BY <1>2, <1>3, <1>4, WordsSum
<1>17. s = Total(pseudo) + Total(ports) + 20759 + Total(words)
  <2>1. Total(head \o four(0)) = Total(pseudo) + Total(ports) + 20759
    BY ONLY <1>6, <1>8, <1>9
  <2>. QED BY ONLY <1>10, <2>1
<1>18. Total(pseudo) + Total(TcpHeader(p, c)) + ByteTotal(b) = s + c
  <2>1. ByteTotal(b) = Total(words)
    BY <1>4
  <2>. QED BY ONLY <1>13, <1>15, <1>16, <1>17, <2>1
<1>. QED BY <1>14, <1>18 DEF c, s, buffer, pseudo, n
-----------------------------------------------------------------------------
(* example.c: a header summed in the other byte order.                     *)

\* A word with its bytes swapped is 256 times the word, but for a multiple of
\* 65535; swapped twice it is what it was.
LEMMA SwapTimes ==
    ASSUME NEW w \in Nat, w < 65536
    PROVE  /\ w \div 256 \in Nat /\ Swap(w) = 256 * w - 65535 * (w \div 256)
           /\ Swap(w) \in Nat /\ Swap(w) < 65536 /\ Swap(Swap(w)) = w
<1>1. PICK h \in Nat, l \in Nat : w = 256 * h + l /\ h < 256 /\ l < 256
  <2>1. w \div 256 \in Nat /\ w % 256 \in Nat /\ w \div 256 < 256 /\ w % 256 < 256
        /\ w = 256 * (w \div 256) + (w % 256)
    BY SMT
  <2>. QED BY ONLY <2>1
<1>2. ASSUME NEW x \in Nat, NEW y \in Nat, x < 256, y < 256
      PROVE  (256 * x + y) \div 256 = x /\ (256 * x + y) % 256 = y
  BY <1>2, SMT
<1>3. w \div 256 = h /\ w % 256 = l
  BY ONLY <1>1, <1>2
<1>4. Swap(w) = 256 * l + h
  BY <1>1, <1>3 DEF Swap
<1>5. Swap(256 * l + h) = 256 * h + l
  <2>1. (256 * l + h) \div 256 = l /\ (256 * l + h) % 256 = h
    BY ONLY <1>1, <1>2
  <2>. QED BY <1>1, <2>1 DEF Swap
<1>. QED BY <1>1, <1>3, <1>4, <1>5

LEMMA Concat ==
    ASSUME NEW v \in Seq(Nat), NEW w \in Seq(Nat)
    PROVE  /\ v \o w \in Seq(Nat) /\ Len(v \o w) = Len(v) + Len(w)
           /\ \A i \in 1 .. Len(v) : (v \o w)[i] = v[i]
           /\ \A i \in Len(v) + 1 .. Len(v) + Len(w) : (v \o w)[i] = w[i - Len(v)]
<1>1. Len(v) \in Nat /\ Len(w) \in Nat
  BY LenProperties
<1>. QED BY <1>1, ConcatProperties

LEMMA ExampleFieldsAre ==
    ASSUME NEW p \in Packets, NEW n \in Nat, NEW c \in Nat
    PROVE  LET f == ExampleFields(p, n, c)
           IN  /\ f[1] = 17664 /\ f[2] = 40 + n /\ f[3] = 0 /\ f[4] = 0 /\ f[5] = 32774
               /\ f[6] = c /\ f[7] = p.src[1] /\ f[8] = p.src[2]
               /\ f[9] = p.dst[1] /\ f[10] = p.dst[2]
<1>. DEFINE six == <<69 * 256, 40 + n, 0, 0, 128 * 256 + 6, c>>
            src == p.src
            dst == p.dst
<1>1. /\ src \in Seq(Nat) /\ Len(src) = 2 /\ dst \in Seq(Nat) /\ Len(dst) = 2
  BY LongIs DEF Packets, AreWords
<1>2. /\ six \in Seq(Nat) /\ Len(six) = 6
      /\ six[1] = 17664 /\ six[2] = 40 + n /\ six[3] = 0 /\ six[4] = 0 /\ six[5] = 32774
      /\ six[6] = c
  OBVIOUS
<1>3. ExampleFields(p, n, c) = six \o src \o dst
  BY DEF ExampleFields
<1>. HIDE DEF six, src, dst
<1>4. /\ six \o src \in Seq(Nat) /\ Len(six \o src) = 8
      /\ \A i \in 1 .. 6 : (six \o src)[i] = six[i]
      /\ (six \o src)[7] = src[1] /\ (six \o src)[8] = src[2]
  <2>. DEFINE k == Len(six)
              m == Len(src)
              eight == six \o src
  <2>1. /\ eight \in Seq(Nat) /\ Len(eight) = k + m
        /\ \A i \in 1 .. k : eight[i] = six[i]
        /\ \A i \in k + 1 .. k + m : eight[i] = src[i - k]
    <3>1. six \in Seq(Nat) /\ src \in Seq(Nat)
      BY <1>1, <1>2
    <3>. QED BY ONLY <3>1, Concat, Zenon DEF k, m, eight
  <2>2. k = 6 /\ m = 2
    BY <1>1, <1>2
  <2>. HIDE DEF k, m, eight
  <2>3. k + m = 8 /\ 7 \in k + 1 .. k + m /\ 8 \in k + 1 .. k + m /\ 7 - k = 1 /\ 8 - k = 2
    BY ONLY <2>2
  <2>4. eight[7] = src[1] /\ eight[8] = src[2]
    BY ONLY <2>1, <2>3
  <2>. QED BY <2>1, <2>2, <2>3, <2>4, Zenon DEF eight
<1>. DEFINE eight == six \o src
<1>. HIDE DEF eight
<1>5. /\ \A i \in 1 .. 8 : (eight \o dst)[i] = eight[i]
      /\ (eight \o dst)[9] = dst[1] /\ (eight \o dst)[10] = dst[2]
  <2>. DEFINE k == Len(eight)
              m == Len(dst)
              ten == eight \o dst
  <2>1. eight \in Seq(Nat) /\ k = 8 /\ m = 2
    BY <1>1, <1>4 DEF eight
  <2>2. /\ \A i \in 1 .. k : ten[i] = eight[i]
        /\ \A i \in k + 1 .. k + m : ten[i] = dst[i - k]
    BY <1>1, <2>1, Concat, Zenon
  <2>. HIDE DEF k, m, ten
  <2>3. 9 \in k + 1 .. k + m /\ 10 \in k + 1 .. k + m /\ 9 - k = 1 /\ 10 - k = 2
    BY ONLY <2>1
  <2>4. ten[9] = dst[1] /\ ten[10] = dst[2]
    BY ONLY <2>2, <2>3
  <2>. QED BY <2>1, <2>2, <2>4, Zenon DEF ten
<1>6. /\ \A i \in 1 .. 6 : eight[i] = six[i]
      /\ eight[7] = src[1] /\ eight[8] = src[2]
  BY <1>4 DEF eight
<1>7. ExampleFields(p, n, c) = eight \o dst
  BY <1>3 DEF eight
<1>. DEFINE f == ExampleFields(p, n, c)
<1>8. \A i \in 1 .. 8 : f[i] = eight[i]
  BY <1>5, <1>7
<1>9. f[9] = dst[1] /\ f[10] = dst[2]
  BY <1>5, <1>7
<1>. HIDE DEF f
<1>10. /\ f[1] = 17664 /\ f[2] = 40 + n /\ f[3] = 0 /\ f[4] = 0 /\ f[5] = 32774
       /\ f[6] = c
  BY <1>2, <1>6, <1>8
<1>11. f[7] = src[1] /\ f[8] = src[2]
  BY <1>6, <1>8
<1>. QED BY <1>9, <1>10, <1>11 DEF f, src, dst

\* A sum whose 256-fold is a multiple of 65535 verifies.
LEMMA TimesVerifies ==
    ASSUME NEW x \in Nat, NEW m \in Int, x > 0, 256 * x = 65535 * m
    PROVE  OnesComplementSum(x) = 65535
<1>. DEFINE k == 256 * m - x - 1
<1>1. x = 65535 * (256 * m - x)
  OBVIOUS
<1>2. k \in Nat /\ x = 65535 * (k + 1)
  BY <1>1
<1>. HIDE DEF k
<1>. QED BY <1>2, MultipleVerifies

\* The header example.c sends verifies although it is summed in the order of
\* this machine: neither the words nor the checksum are swapped, or both are.
THEOREM ExampleHeaderVerifies ==
    ASSUME NEW p \in Packets, NEW n \in Nat, n <= 32767
    PROVE  OnesComplementSum(Total10(ExampleHeader(p, n))) = 65535
<1>. DEFINE loaded == [i \in 1 .. 10 |-> Swap(ExampleFields(p, n, 0)[i])]
            s == Total10(loaded)
            c == cal_checksum(s)
            a == 40 + n
            s1 == p.src[1]  s2 == p.src[2]  d1 == p.dst[1]  d2 == p.dst[2]
<1>1. ExampleHeader(p, n) = ExampleFields(p, n, Swap(c))
  BY DEF ExampleHeader
<1>2. /\ s1 \in Nat /\ s1 < 65536 /\ s2 \in Nat /\ s2 < 65536
      /\ d1 \in Nat /\ d1 < 65536 /\ d2 \in Nat /\ d2 < 65536
  BY LongIs DEF Packets
<1>3. a \in Nat /\ a < 65536
  OBVIOUS
<1>4. s = Swap(17664) + Swap(a) + Swap(0) + Swap(0) + Swap(32774) + Swap(0)
            + Swap(s1) + Swap(s2) + Swap(d1) + Swap(d2)
  <2>. DEFINE f == ExampleFields(p, n, 0)
  <2>1. /\ f[1] = 17664 /\ f[2] = a /\ f[3] = 0 /\ f[4] = 0 /\ f[5] = 32774
        /\ f[6] = 0 /\ f[7] = s1 /\ f[8] = s2 /\ f[9] = d1 /\ f[10] = d2
    <3>1. 0 \in Nat
      OBVIOUS
    <3>. QED BY <3>1, ExampleFieldsAre
  <2>. HIDE DEF f, a, s1, s2, d1, d2
  <2>2. loaded = [i \in 1 .. 10 |-> Swap(f[i])]
    BY DEF f
  <2>. HIDE DEF loaded
  <2>3. /\ loaded[1] = Swap(17664) /\ loaded[2] = Swap(a) /\ loaded[3] = Swap(0)
        /\ loaded[4] = Swap(0) /\ loaded[5] = Swap(32774) /\ loaded[6] = Swap(0)
        /\ loaded[7] = Swap(s1) /\ loaded[8] = Swap(s2)
        /\ loaded[9] = Swap(d1) /\ loaded[10] = Swap(d2)
    BY <2>1, <2>2
  <2>. QED BY <2>3 DEF Total10
<1>5. /\ Swap(0) = 0 /\ Swap(17664) = 69 /\ Swap(32774) = 1664
  BY DEF Swap
<1>. HIDE DEF a, s1, s2, d1, d2, loaded
\* Both sums, but for multiples of 65535.
<1>6. PICK k \in Int :
         /\ s \in Nat /\ s < 655360
         /\ s = 256 * (17664 + a + 32774 + s1 + s2 + d1 + d2) - 65535 * k
  <2>1. /\ Swap(a) \in Nat /\ Swap(a) < 65536 /\ a \div 256 \in Nat
        /\ Swap(a) = 256 * a - 65535 * (a \div 256)
    BY <1>3, SwapTimes
  <2>2. /\ Swap(s1) \in Nat /\ Swap(s1) < 65536 /\ s1 \div 256 \in Nat
        /\ Swap(s1) = 256 * s1 - 65535 * (s1 \div 256)
        /\ Swap(s2) \in Nat /\ Swap(s2) < 65536 /\ s2 \div 256 \in Nat
        /\ Swap(s2) = 256 * s2 - 65535 * (s2 \div 256)
    BY <1>2, SwapTimes
  <2>3. /\ Swap(d1) \in Nat /\ Swap(d1) < 65536 /\ d1 \div 256 \in Nat
        /\ Swap(d1) = 256 * d1 - 65535 * (d1 \div 256)
        /\ Swap(d2) \in Nat /\ Swap(d2) < 65536 /\ d2 \div 256 \in Nat
        /\ Swap(d2) = 256 * d2 - 65535 * (d2 \div 256)
    BY <1>2, SwapTimes
  <2>4. /\ 69 = 256 * 17664 - 65535 * 69 /\ 1664 = 256 * 32774 - 65535 * 128
    OBVIOUS
  <2>. DEFINE k == 69 + 128 + a \div 256 + s1 \div 256 + s2 \div 256 + d1 \div 256 + d2 \div 256
  <2>5. k \in Int
    BY <2>1, <2>2, <2>3
  <2>6. s = 69 + Swap(a) + 1664 + Swap(s1) + Swap(s2) + Swap(d1) + Swap(d2)
    BY <1>4, <1>5, <2>1, <2>2, <2>3
  <2>7. s \in Nat /\ s < 655360
    BY ONLY <2>1, <2>2, <2>3, <2>6
  <2>8. s = 256 * (17664 + a + 32774 + s1 + s2 + d1 + d2) - 65535 * k
    BY ONLY <1>2, <1>3, <2>1, <2>2, <2>3, <2>6
  <2>. HIDE DEF k
  <2>. QED BY ONLY <2>5, <2>7, <2>8
<1>. HIDE DEF s
<1>7. PICK m \in Nat : s + c = 65535 * (m + 1)
  <2>1. s \in Sums
    BY ONLY <1>6 DEF Sums
  <2>. QED BY ONLY <2>1, SumsToMultiple DEF cal_checksum, c
<1>8. c \in Nat /\ c < 65536
  <2>1. c \in Nat /\ c <= 65535
    BY <1>6, ChecksumIsWord
  <2>. HIDE DEF c
  <2>. QED BY <2>1
<1>. HIDE DEF c
<1>. DEFINE y == Swap(c)
<1>9. /\ y \in Nat /\ y < 65536 /\ y \div 256 \in Nat /\ c = 256 * y - 65535 * (y \div 256)
  <2>1. Swap(c) \in Nat /\ Swap(c) < 65536 /\ Swap(Swap(c)) = c
    BY <1>8, SwapTimes
  <2>. HIDE DEF y
  <2>2. y \in Nat /\ y < 65536 /\ Swap(y) = c
    BY <2>1 DEF y
  <2>. QED BY <2>2, SwapTimes
<1>10. Total10(ExampleHeader(p, n)) = 17664 + a + 32774 + y + s1 + s2 + d1 + d2
  <2>. HIDE DEF y
  <2>. DEFINE f == ExampleFields(p, n, y)
  <2>1. /\ f[1] = 17664 /\ f[2] = a /\ f[3] = 0 /\ f[4] = 0 /\ f[5] = 32774
        /\ f[6] = y /\ f[7] = s1 /\ f[8] = s2 /\ f[9] = d1 /\ f[10] = d2
    <3>1. y \in Nat
      BY <1>9
    <3>. QED BY ONLY p \in Packets, n \in Nat, <3>1, ExampleFieldsAre DEF a, s1, s2, d1, d2
  <2>2. ExampleHeader(p, n) = f
    BY <1>1 DEF y
  <2>. HIDE DEF f
  <2>. QED BY <1>2, <1>3, <1>9, <2>1, <2>2 DEF Total10
<1>. HIDE DEF y
<1>. DEFINE x == 17664 + a + 32774 + y + s1 + s2 + d1 + d2
            w == y \div 256
            r == m + 1 + k + w
<1>11. x \in Nat /\ x > 0 /\ r \in Int
  BY ONLY <1>2, <1>3, <1>6, <1>7, <1>9
<1>12. 256 * x = 65535 * r
  <2>. HIDE DEF w
  <2>1. w \in Nat /\ c = 256 * y - 65535 * w
    BY <1>9 DEF w
  <2>. QED BY ONLY <1>2, <1>3, <1>6, <1>7, <1>9, <2>1
<1>. HIDE DEF x, r
<1>13. OnesComplementSum(x) = 65535
  BY ONLY <1>11, <1>12, TimesVerifies
<1>. QED BY <1>10, <1>13 DEF x

\* Every answer to every frame, with a payload of any length that fits a short:
\* all its checksums verify over the bytes that are sent.
THEOREM EveryAnswerVerifies ==
    ASSUME NEW p \in Packets, NEW b \in Seq(Byte), Len(b) <= 32767
    PROVE  Verifies(p, b)
<1>. DEFINE n == Len(b)
            f == tcp_rep_frame(p, b)
<1>1. n \in Nat /\ n <= 32767
  BY LenProperties
<1>2. /\ f.ip = IpHeader(p, n, cal_checksum(Total10(IpCheckBuffer(p, n))))
      /\ f.tcp = TcpHeader(p, cal_checksum(Total(TcpCheckBuffer(p, b))))
      /\ f.payload = b
  BY DEF tcp_rep_frame
<1>3. OnesComplementSum(Total(PseudoHeader(p, n)) + Total(f.tcp) + ByteTotal(f.payload))
        = 65535
  BY <1>2, AnswerSegmentVerifies
<1>. HIDE DEF n, f
<1>4. OnesComplementSum(Total10(f.ip)) = 65535
  BY <1>1, <1>2, AnswerHeaderVerifies
<1>5. OnesComplementSum(Total10(ExampleHeader(p, n))) = 65535
  BY <1>1, ExampleHeaderVerifies
<1>. QED BY <1>3, <1>4, <1>5 DEF Verifies, f, n
-----------------------------------------------------------------------------
(* The list of adapters.                                                   *)

\* What list_devs keeps while it fills the buffer.
Devs == [rest : Int, made : Seq(Adapter), last : BOOLEAN, whole : BOOLEAN]

LEMMA CopyCounts ==
    ASSUME NEW len \in Nat, NEW max \in Int, NEW isW \in BOOLEAN
    PROVE  my_copy(len, max, isW).n \in Int /\ my_copy(len, max, isW).ended \in BOOLEAN
<1>1. max % 2 \in Int /\ max + (max % 2) \in Int /\ len + 1 \in Int /\ 2 * len + 2 \in Int
  OBVIOUS
<1>2. (2 * len < max) \in BOOLEAN /\ (len < max) \in BOOLEAN /\ 0 \in Int
  OBVIOUS
<1>3. CASE isW = TRUE
  BY <1>1, <1>2, <1>3 DEF my_copy
<1>4. CASE isW = FALSE
  BY <1>1, <1>2, <1>4 DEF my_copy
<1>. QED BY <1>3, <1>4

\* With room for the string and its terminator, both are copied.
LEMMA CopyFits ==
    ASSUME NEW len \in Nat, NEW max \in Int
    PROVE  /\ len < max => my_copy(len, max, FALSE) = [n |-> len + 1, ended |-> TRUE]
           /\ 2 * len < max => my_copy(len, max, TRUE) = [n |-> 2 * len + 2, ended |-> TRUE]
<1>1. ASSUME len < max
      PROVE  my_copy(len, max, FALSE) = [n |-> len + 1, ended |-> TRUE]
  <2>1. (len < max) = TRUE
    BY <1>1
  <2>. QED BY <1>1, <2>1 DEF my_copy
<1>2. ASSUME 2 * len < max
      PROVE  my_copy(len, max, TRUE) = [n |-> 2 * len + 2, ended |-> TRUE]
  <2>1. (2 * len < max) = TRUE /\ ~(max <= 0)
    BY <1>2
  <2>. QED BY <1>2, <2>1 DEF my_copy
<1>. QED BY <1>1, <1>2

LEMMA AdapterIs ==
    ASSUME NEW a \in Adapter
    PROVE  /\ a.name \in Nat /\ a.description \in Nat /\ a.friendly \in Nat
           /\ BriefSize \in Nat /\ Room(a) \in Nat /\ Room(a) > 0
           /\ Room(a) = a.name + 2 * a.description + 2 * a.friendly + BriefSize + 5
<1>1. a.name \in Nat /\ a.description \in Nat /\ a.friendly \in Nat /\ BriefSize \in Nat
  BY AdaptersAssumption DEF Adapter
<1>. QED BY <1>1 DEF Room

LEMMA TurnType ==
    ASSUME NEW s \in Devs, NEW a \in Adapter
    PROVE  Append1(s, a) \in Devs
<1>. DEFINE c1 == my_copy(a.name, s.rest - BriefSize, FALSE)
            r1 == s.rest - BriefSize - c1.n
            c2 == my_copy(a.description, r1, TRUE)
            c3 == my_copy(a.friendly, r1 - c2.n, TRUE)
<1>1. s.rest \in Int /\ s.made \in Seq(Adapter) /\ s.whole \in BOOLEAN
  BY DEF Devs
<1>2. s.rest - BriefSize \in Int
  BY <1>1, AdapterIs
<1>3. c1.n \in Int /\ c1.ended \in BOOLEAN
  BY <1>2, AdapterIs, CopyCounts
<1>. HIDE DEF c1
<1>4. r1 \in Int
  BY <1>2, <1>3
<1>. HIDE DEF r1
<1>5. c2.n \in Int /\ c2.ended \in BOOLEAN
  BY <1>4, AdapterIs, CopyCounts
<1>. HIDE DEF c2
<1>6. r1 - c2.n \in Int
  BY <1>4, <1>5
<1>7. c3.n \in Int /\ c3.ended \in BOOLEAN
  BY <1>6, AdapterIs, CopyCounts
<1>. HIDE DEF c3
<1>8. r1 - c2.n - c3.n \in Int
  BY <1>6, <1>7
<1>9. Append(s.made, a) \in Seq(Adapter)
  BY <1>1, AppendProperties
<1>10. Append1(s, a) =
          IF s.last THEN s
          ELSE [rest |-> r1 - c2.n - c3.n, made |-> Append(s.made, a),
                last |-> r1 - c2.n - c3.n = 0,
                whole |-> s.whole /\ c1.ended /\ c2.ended /\ c3.ended]
  BY DEF Append1, c1, r1, c2, c3
<1>. QED BY <1>1, <1>3, <1>5, <1>7, <1>8, <1>9, <1>10 DEF Devs

\* A turn that has room for a device uses exactly this room.
LEMMA TurnFits ==
    ASSUME NEW s \in Devs, NEW a \in Adapter, ~s.last, s.whole, Room(a) <= s.rest
    PROVE  Append1(s, a) = [rest |-> s.rest - Room(a), made |-> Append(s.made, a),
                            last |-> s.rest - Room(a) = 0, whole |-> TRUE]
<1>. DEFINE c1 == my_copy(a.name, s.rest - BriefSize, FALSE)
            r1 == s.rest - BriefSize - c1.n
            c2 == my_copy(a.description, r1, TRUE)
            c3 == my_copy(a.friendly, r1 - c2.n, TRUE)
<1>1. s.rest \in Int
  BY DEF Devs
<1>2. s.rest - BriefSize \in Int /\ a.name < s.rest - BriefSize
  BY <1>1, AdapterIs
<1>3. c1 = [n |-> a.name + 1, ended |-> TRUE]
  BY <1>2, AdapterIs, CopyFits
<1>. HIDE DEF c1
<1>4. r1 = s.rest - BriefSize - (a.name + 1) /\ r1 \in Int /\ 2 * a.description < r1
  BY <1>1, <1>3, AdapterIs
<1>. HIDE DEF r1
<1>5. c2 = [n |-> 2 * a.description + 2, ended |-> TRUE]
  BY <1>4, AdapterIs, CopyFits
<1>. HIDE DEF c2
<1>6. /\ r1 - c2.n = s.rest - BriefSize - (a.name + 1) - (2 * a.description + 2)
      /\ r1 - c2.n \in Int /\ 2 * a.friendly < r1 - c2.n
  BY <1>1, <1>4, <1>5, AdapterIs
<1>7. c3 = [n |-> 2 * a.friendly + 2, ended |-> TRUE]
  BY <1>6, AdapterIs, CopyFits
<1>. HIDE DEF c3
<1>8. r1 - c2.n - c3.n = s.rest - Room(a)
  BY <1>1, <1>6, <1>7, AdapterIs
<1>9. Append1(s, a) =
          [rest |-> r1 - c2.n - c3.n, made |-> Append(s.made, a),
           last |-> r1 - c2.n - c3.n = 0,
           whole |-> s.whole /\ c1.ended /\ c2.ended /\ c3.ended]
  BY DEF Append1, c1, r1, c2, c3
<1>. QED BY <1>3, <1>5, <1>7, <1>8, <1>9

\* list_devs, device by device.
LEMMA DevsIs ==
    ASSUME NEW n \in Nat, NEW devs \in [1 .. n -> Adapter], NEW start \in Devs
    PROVE  \E t \in [0 .. n -> Devs] :
              /\ t[0] = start /\ t[n] = FoldLeft(Append1, start, devs)
              /\ \A i \in 1 .. n : t[i] = Append1(t[i - 1], devs[i])
<1>. DEFINE step == [p \in Devs \X (1 .. n) |-> Append1(p[1], devs[p[2]])]
            Is(it) == it = [T \in SUBSET (1 .. n) |->
                              IF T = {} THEN start
                              ELSE Append1(it[T \ {Max(T)}], devs[Max(T)])]
            F == CHOOSE it : Is(it)
<1>1. FoldLeft(Append1, start, devs) = F[1 .. n]
  BY DEF FoldLeft, MapThenFoldSet
<1>2. step \in [Devs \X (1 .. n) -> Devs]
  BY TurnType
<1>3. \A i \in 1 .. n, x \in Devs : step[<<x, i>>] = Append1(x, devs[i])
  OBVIOUS
<1>. HIDE DEF step
<1>4. Is(F)
  <2>1. PICK it \in [SUBSET (1 .. n) -> Devs] : IsFold(it, Devs, start, n, step)
    BY <1>2, FoldExists
  <2>2. ASSUME NEW T \in SUBSET (1 .. n)
        PROVE  it[T] = IF T = {} THEN start
                       ELSE Append1(it[T \ {Max(T)}], devs[Max(T)])
    <3>1. T # {} => Max(T) \in 1 .. n
      BY HasMax
    <3>2. T \ {Max(T)} \in SUBSET (1 .. n)
      OBVIOUS
    <3>. QED BY <1>3, <2>1, <3>1, <3>2 DEF IsFold
  <2>3. Is(it)
    BY <2>2
  <2>. QED BY <2>3, Zenon
<1>. HIDE DEF F
<1>5. IsFold(F, Devs, start, n, step)
  <2>1. ASSUME NEW T \in SUBSET (1 .. n), T # {} PROVE Max(T) \in 1 .. n
    BY <2>1, HasMax
  <2>. QED BY <1>3, <1>4, <2>1 DEF IsFold
<1>6. PICK t \in [0 .. n -> Devs] : Steps(t, start, n, step) /\ t[n] = F[1 .. n]
  <2>1. EndsIn(F[1 .. n], Devs, start, n, step)
    BY <1>2, <1>5, FoldSteps
  <2>. QED BY <2>1 DEF EndsIn
<1>7. \A i \in 1 .. n : t[i] = Append1(t[i - 1], devs[i])
  <2>1. \A i \in 1 .. n : i - 1 \in 0 .. n
    BY FirstPlaces
  <2>. QED BY <1>3, <1>6, <2>1 DEF Steps
<1>. QED BY <1>1, <1>6, <1>7 DEF Steps

LEMMA ListedIs ==
    ASSUME NEW as \in Seq(Adapter)
    PROVE  Listed(as) \in Seq(Adapter)
<1>. DEFINE n == Len(as)
            chosen == [i \in DOMAIN as |-> as[i].listed]
            places == Places(chosen)
<1>1. n \in Nat /\ DOMAIN as = 1 .. n /\ \A i \in 1 .. n : as[i] \in Adapter
  <2>. HIDE DEF chosen, places
  <2>. QED BY LenProperties, ElementOfSeq
<1>2. chosen \in [1 .. n -> BOOLEAN]
  BY <1>1 DEF Adapter
<1>. HIDE DEF n, chosen
<1>3. places \in Seq(1 .. n)
  BY <1>1, <1>2, PlacesIs
<1>4. Listed(as) = [k \in DOMAIN places |-> as[places[k]]]
  BY DEF Listed, chosen
<1>. HIDE DEF places
<1>5. \A k \in 1 .. Len(places) : places[k] \in 1 .. n
  BY <1>3, ElementOfSeq
<1>6. Len(places) \in Nat /\ DOMAIN places = 1 .. Len(places)
  BY <1>3
<1>7. Listed(as) \in [1 .. Len(places) -> Adapter]
  BY <1>1, <1>4, <1>5, <1>6
<1>. HIDE DEF Adapter
<1>. QED BY <1>6, <1>7, SeqDef

\* Two sequences of devices, element by element.
LEMMA SameDevices ==
    ASSUME NEW n \in Nat, NEW devs \in [1 .. n -> Adapter], NEW made \in Seq(Adapter),
           Len(made) = n, \A k \in 1 .. n : made[k] = devs[k]
    PROVE  made = devs
OBVIOUS

\* One device more at the end of what is made of the first i.
LEMMA OneMore ==
    ASSUME NEW n \in Nat, NEW devs \in [1 .. n -> Adapter], NEW made \in Seq(Adapter),
           NEW i \in 0 .. n, i < n, Len(made) = i, \A k \in 1 .. i : made[k] = devs[k]
    PROVE  LET more == Append(made, devs[i + 1])
           IN  Len(more) = i + 1 /\ \A k \in 1 .. i + 1 : more[k] = devs[k]
<1>1. i + 1 \in 1 .. n /\ devs[i + 1] \in Adapter
  OBVIOUS
<1>2. /\ Len(Append(made, devs[i + 1])) = i + 1
      /\ Append(made, devs[i + 1])[i + 1] = devs[i + 1]
      /\ \A k \in 1 .. i : Append(made, devs[i + 1])[k] = made[k]
  BY <1>1, AppendProperties
<1>. QED BY <1>2

\* The two loops of list_devs agree for every list of adapters and every
\* length of their strings: the buffer is used up to its last byte, no string is
\* cut, and the list ends at its last device and never before (lines 79-120).
THEOREM ListFits ==
    ASSUME NEW as \in Seq(Adapter)
    PROVE  Fits(as)
<1>. SUFFICES ASSUME Listed(as) # << >>
              PROVE  /\ list_devs(as).rest = 0 /\ list_devs(as).whole
                     /\ list_devs(as).made = Listed(as)
  BY DEF Fits
<1>. DEFINE devs == Listed(as)
            n == Len(devs)
            start == [rest |-> bufsize(devs), made |-> << >>, last |-> FALSE, whole |-> TRUE]
            rooms == [i \in 1 .. n |-> Room(devs[i])]
<1>1. n \in Nat /\ n # 0 /\ devs \in [1 .. n -> Adapter] /\ DOMAIN devs = 1 .. n
  <2>1. devs \in Seq(Adapter) /\ devs # << >>
    BY ListedIs
  <2>. HIDE DEF devs
  <2>. QED BY <2>1
<1>2. list_devs(as) = FoldLeft(Append1, start, devs)
  BY DEF list_devs
<1>. HIDE DEF devs, n
<1>3. rooms \in [1 .. n -> Nat] /\ \A i \in 1 .. n : rooms[i] > 0
  BY <1>1, AdapterIs
<1>4. PICK q \in [0 .. n -> Nat] :
         /\ q[0] = 0 /\ q[n] = bufsize(devs)
         /\ \A i \in 1 .. n : q[i] = q[i - 1] + rooms[i]
  <2>1. Total(rooms) = bufsize(devs)
    BY <1>1 DEF Total, bufsize
  <2>. HIDE DEF rooms
  <2>. QED BY <1>1, <1>3, <2>1, TotalIs
<1>5. start \in Devs
  <2>1. 0 \in 0 .. n /\ n \in 0 .. n
    BY <1>1
  <2>2. bufsize(devs) \in Int /\ << >> \in Seq(Adapter)
    BY <1>4, <2>1
  <2>. QED BY <2>2 DEF Devs
<1>. HIDE DEF start
<1>6. PICK t \in [0 .. n -> Devs] :
         /\ t[0] = start /\ t[n] = list_devs(as)
         /\ \A i \in 1 .. n : t[i] = Append1(t[i - 1], devs[i])
  BY ONLY <1>1, <1>2, <1>5, DevsIs
<1>. HIDE DEF rooms
\* What is needed grows with every device.
<1>7. \A i \in 0 .. n : q[i] \in Nat /\ q[i] <= q[n] /\ (i # n => q[i] < q[n])
  <2>. DEFINE S == {i \in 0 .. n : \A j \in 0 .. i : q[j] <= q[i] /\ (j # i => q[j] < q[i])}
  <2>1. 0 \in S
    <3>1. 0 \in 0 .. n /\ 0 .. 0 = {0}
      BY <1>1
    <3>. QED BY <1>4, <3>1
  <2>2. ASSUME NEW i \in 0 .. n, i \in S, i < n PROVE i + 1 \in S
    <3>1. i + 1 \in 1 .. n /\ i + 1 \in 0 .. n /\ (i + 1) - 1 = i
      BY <1>1, <2>2, NextPlace
    <3>2. q[i + 1] = q[i] + rooms[i + 1] /\ rooms[i + 1] \in Nat /\ rooms[i + 1] > 0
      BY <1>3, <1>4, <3>1
    <3>3. \A j \in 0 .. i + 1 : j = i + 1 \/ j \in 0 .. i
      BY <1>1
    <3>4. ASSUME NEW j \in 0 .. i PROVE q[j] < q[i + 1]
      <4>1. q[j] <= q[i] /\ q[j] \in Nat /\ q[i] \in Nat
        <5>1. j \in 0 .. n
          BY <1>1
        <5>. QED BY <1>4, <2>2, <5>1
      <4>. QED BY <3>2, <4>1
    <3>5. \A j \in 0 .. i + 1 : q[j] <= q[i + 1] /\ (j # i + 1 => q[j] < q[i + 1])
      <4>1. q[i + 1] \in Nat
        BY <1>4, <3>1
      <4>2. \A j \in 0 .. i : q[j] \in Nat /\ j \in 0 .. n
        BY <1>1, <1>4
      <4>. QED BY <3>3, <3>4, <4>1, <4>2
    <3>. QED BY <3>1, <3>5
  <2>3. \A i \in 0 .. n : i \in S
    <3>. HIDE DEF S
    <3>. QED BY <1>1, <2>1, <2>2, Climb
  <2>4. n \in 0 .. n
    BY <1>1
  <2>. QED BY <1>4, <2>3, <2>4
\* After i devices.
<1>. DEFINE After(i) == /\ t[i].rest = q[n] - q[i] /\ t[i].whole /\ (t[i].last <=> i = n)
                        /\ Len(t[i].made) = i /\ \A k \in 1 .. i : t[i].made[k] = devs[k]
            S == {i \in 0 .. n : After(i)}
<1>8. 0 \in S
  <2>1. 0 \in 0 .. n
    BY <1>1
  <2>2. t[0] = [rest |-> bufsize(devs), made |-> << >>, last |-> FALSE, whole |-> TRUE]
    BY <1>6 DEF start
  <2>3. q[n] = bufsize(devs) /\ q[0] = 0 /\ q[n] \in Nat
    BY <1>1, <1>4, <1>7
  <2>4. t[0].rest = q[n] - q[0] /\ t[0].whole /\ ~t[0].last /\ Len(t[0].made) = 0
    BY <2>2, <2>3
  <2>5. \A k \in 1 .. 0 : t[0].made[k] = devs[k]
    OBVIOUS
  <2>. QED BY <1>1, <2>1, <2>4, <2>5
<1>9. ASSUME NEW i \in 0 .. n, i \in S, i < n PROVE i + 1 \in S
  <2>1. i + 1 \in 1 .. n /\ i + 1 \in 0 .. n /\ (i + 1) - 1 = i /\ i # n
    BY <1>1, <1>9, NextPlace
  <2>2. After(i)
    BY <1>9
  <2>3. /\ t[i] \in Devs /\ devs[i + 1] \in Adapter /\ t[i].made \in Seq(Adapter)
        /\ t[i + 1] = Append1(t[i], devs[i + 1])
    BY <1>1, <1>6, <2>1 DEF Devs
  <2>4. q[i + 1] = q[i] + Room(devs[i + 1])
    BY <1>4, <2>1 DEF rooms
  <2>5. /\ q[i] \in Nat /\ q[i + 1] \in Nat /\ q[n] \in Nat /\ q[i + 1] <= q[n]
        /\ (i + 1 # n => q[i + 1] < q[n]) /\ Room(devs[i + 1]) \in Nat
    BY <1>1, <1>7, <2>1, <2>3, AdapterIs
  <2>6. Room(devs[i + 1]) <= t[i].rest /\ t[i].rest - Room(devs[i + 1]) = q[n] - q[i + 1]
    BY <2>2, <2>4, <2>5
  <2>7. t[i + 1] = [rest |-> q[n] - q[i + 1], made |-> Append(t[i].made, devs[i + 1]),
                    last |-> q[n] - q[i + 1] = 0, whole |-> TRUE]
    <3>1. ~t[i].last /\ t[i].whole
      BY <2>1, <2>2
    <3>2. Append1(t[i], devs[i + 1]) =
              [rest |-> t[i].rest - Room(devs[i + 1]), made |-> Append(t[i].made, devs[i + 1]),
               last |-> t[i].rest - Room(devs[i + 1]) = 0, whole |-> TRUE]
      BY ONLY <2>3, <2>6, <3>1, TurnFits
    <3>. QED BY ONLY <2>3, <2>6, <3>2
  <2>8. /\ Len(t[i + 1].made) = i + 1
        /\ \A k \in 1 .. i + 1 : t[i + 1].made[k] = devs[k]
    BY <1>1, <1>9, <2>2, <2>3, <2>7, OneMore, SMTT(60)
  <2>9. q[n] - q[i + 1] = 0 <=> i + 1 = n
    BY <2>5
  <2>10. /\ t[i + 1].rest = q[n] - q[i + 1] /\ t[i + 1].whole
         /\ t[i + 1].last = (q[n] - q[i + 1] = 0)
    BY <2>7
  <2>11. After(i + 1)
    <3>. HIDE DEF Append1
    <3>. QED BY <2>8, <2>9, <2>10
  <2>. QED BY <2>1, <2>11
<1>10. After(n)
  <2>1. \A i \in 0 .. n : i \in S
    <3>. HIDE DEF S
    <3>. QED BY <1>1, <1>8, <1>9, Climb
  <2>2. n \in 0 .. n
    BY <1>1
  <2>. QED BY <2>1, <2>2
<1>11. t[n].rest = 0 /\ t[n].made \in Seq(Adapter)
  <2>1. n \in 0 .. n
    BY <1>1
  <2>2. t[n].made \in Seq(Adapter)
    BY <1>6, <2>1 DEF Devs
  <2>3. t[n].rest = q[n] - q[n] /\ q[n] \in Nat
    BY <1>7, <1>10, <2>1
  <2>. QED BY <2>2, <2>3
<1>12. t[n].made = devs
  BY <1>1, <1>10, <1>11, SameDevices
<1>. QED BY <1>6, <1>10, <1>11, <1>12 DEF devs
-----------------------------------------------------------------------------
(* The choice of a device.                                                 *)

\* The usable devices among the first j: the number printed beside a usable one.
UpTo(usable, j) == Cardinality({i \in 1 .. j : usable[i]})

\* One device more counts one more, if it is usable.
LEMMA UpToNext ==
    ASSUME NEW usable \in Seq(BOOLEAN), NEW j \in Nat
    PROVE  /\ UpTo(usable, 0) = 0 /\ UpTo(usable, j) \in Nat
           /\ UpTo(usable, j + 1) = IF usable[j + 1] THEN UpTo(usable, j) + 1
                                    ELSE UpTo(usable, j)
<1>. DEFINE S(n) == {i \in 1 .. n : usable[i]}
<1>1. S(0) = {} /\ UpTo(usable, 0) = 0
  BY FS_EmptySet DEF UpTo
<1>2. IsFiniteSet(S(j)) /\ Cardinality(S(j)) \in Nat
  <2>1. IsFiniteSet(1 .. j) /\ S(j) \in SUBSET (1 .. j)
    BY FS_Interval
  <2>. QED BY <2>1, FS_Subset, FS_CardinalityType
<1>3. CASE usable[j + 1]
  <2>1. S(j + 1) = S(j) \cup {j + 1} /\ j + 1 \notin S(j)
    BY <1>3
  <2>. QED BY <1>1, <1>2, <1>3, <2>1, FS_AddElement DEF UpTo
<1>4. CASE ~usable[j + 1]
  <2>1. S(j + 1) = S(j)
    BY <1>4
  <2>. QED BY <1>1, <1>2, <1>4, <2>1 DEF UpTo
<1>. QED BY <1>3, <1>4

\* A usable device has a number higher than every device before it.
LEMMA NumbersRise ==
    ASSUME NEW usable \in Seq(BOOLEAN), NEW j \in Nat, NEW k \in Nat, j < k
    PROVE  /\ UpTo(usable, j) <= UpTo(usable, k)
           /\ usable[k] => UpTo(usable, j) < UpTo(usable, k)
<1>. DEFINE S(n) == {i \in 1 .. n : usable[i]}
<1>1. S(j) \in SUBSET S(k) /\ (usable[k] => k \in S(k) /\ k \notin S(j))
  OBVIOUS
<1>2. IsFiniteSet(S(k))
  <2>1. IsFiniteSet(1 .. k) /\ S(k) \in SUBSET (1 .. k)
    BY FS_Interval
  <2>. QED BY <2>1, FS_Subset
<1>3. /\ Cardinality(S(j)) <= Cardinality(S(k))
      /\ Cardinality(S(k)) = Cardinality(S(j)) => S(k) = S(j)
      /\ Cardinality(S(j)) \in Nat /\ Cardinality(S(k)) \in Nat
  BY <1>1, <1>2, FS_Subset, FS_CardinalityType
<1>. QED BY <1>1, <1>3 DEF UpTo


\* The places that are chosen, in their order: each is listed at the place that
\* is its number.
LEMMA PlacesNumbered ==
    ASSUME NEW usable \in Seq(BOOLEAN)
    PROVE  /\ Places(usable) \in Seq(1 .. Len(usable))
           /\ Len(Places(usable)) = UpTo(usable, Len(usable))
           /\ \A k \in DOMAIN Places(usable) :
                 usable[Places(usable)[k]] /\ UpTo(usable, Places(usable)[k]) = k
           /\ \A j \in DOMAIN usable : usable[j] => Places(usable)[UpTo(usable, j)] = j
<1>. DEFINE n == Len(usable)
<1>1. n \in Nat /\ DOMAIN usable = 1 .. n /\ usable \in [1 .. n -> BOOLEAN]
  BY LenProperties
<1>. HIDE DEF n
<1>2. PICK t \in [0 .. n -> Seq(1 .. n)] :
         /\ t[0] = << >> /\ t[n] = Places(usable)
         /\ \A i \in 1 .. n : t[i] = IF usable[i] THEN Append(t[i - 1], i) ELSE t[i - 1]
  BY <1>1, PlacesIs
<1>. DEFINE After(i) == /\ Len(t[i]) = UpTo(usable, i)
                        /\ \A k \in 1 .. Len(t[i]) :
                              usable[t[i][k]] /\ UpTo(usable, t[i][k]) = k
                        /\ \A j \in 1 .. i : usable[j] => t[i][UpTo(usable, j)] = j
            S == {i \in 0 .. n : After(i)}
<1>3. 0 \in S
  <2>1. 0 \in 0 .. n /\ 1 .. 0 = {}
    BY <1>1
  <2>2. Len(t[0]) = 0 /\ UpTo(usable, 0) = 0
    BY <1>2, UpToNext
  <2>. QED BY <2>1, <2>2
<1>4. ASSUME NEW i \in 0 .. n, i \in S, i < n PROVE i + 1 \in S
  <2>1. i \in Nat /\ i + 1 \in 1 .. n /\ i + 1 \in 0 .. n /\ (i + 1) - 1 = i
    <3>. HIDE DEF S
    <3>. QED BY <1>1, <1>4, NextPlace
  <2>2. After(i)
    BY <1>4
  <2>3. t[i] \in Seq(1 .. n) /\ UpTo(usable, i) \in Nat
    BY <1>2, <2>1, UpToNext
  <2>4. \A j \in 1 .. i + 1 : j = i + 1 \/ j \in 1 .. i
    BY <2>1
  <2>5. CASE usable[i + 1]
    <3>1. t[i + 1] = Append(t[i], i + 1) /\ UpTo(usable, i + 1) = UpTo(usable, i) + 1
      BY <1>2, <2>1, <2>5, UpToNext
    <3>2. /\ Len(t[i + 1]) = UpTo(usable, i) + 1
          /\ t[i + 1][UpTo(usable, i) + 1] = i + 1
          /\ \A k \in 1 .. UpTo(usable, i) : t[i + 1][k] = t[i][k]
      BY <2>1, <2>2, <2>3, <3>1, AppendProperties
    <3>3. \A k \in 1 .. Len(t[i + 1]) :
             usable[t[i + 1][k]] /\ UpTo(usable, t[i + 1][k]) = k
      <4>1. \A k \in 1 .. UpTo(usable, i) + 1 :
               k = UpTo(usable, i) + 1 \/ k \in 1 .. UpTo(usable, i)
        BY <2>3
      <4>. QED BY <2>2, <2>5, <3>1, <3>2, <4>1
    <3>4. ASSUME NEW j \in 1 .. i, usable[j] PROVE t[i + 1][UpTo(usable, j)] = j
      <4>1. UpTo(usable, j) <= UpTo(usable, i) /\ UpTo(usable, j) \in Nat
        <5>1. j \in Nat /\ (j = i \/ j < i)
          BY <2>1
        <5>2. UpTo(usable, j) \in Nat
          BY <5>1, UpToNext
        <5>3. j < i => UpTo(usable, j) <= UpTo(usable, i)
          BY <2>1, <5>1, NumbersRise
        <5>. QED BY <2>3, <5>1, <5>2, <5>3
      <4>2. UpTo(usable, 0) = 0 /\ UpTo(usable, 0) < UpTo(usable, j)
        <5>1. j \in Nat /\ 0 \in Nat /\ 0 < j
          BY <2>1
        <5>. QED BY <3>4, <5>1, NumbersRise, UpToNext
      <4>3. UpTo(usable, j) \in 1 .. UpTo(usable, i)
        BY <2>3, <4>1, <4>2
      <4>. QED BY <2>2, <3>2, <3>4, <4>3
    <3>5. After(i + 1)
      BY <2>4, <3>1, <3>2, <3>3, <3>4
    <3>. QED BY <2>1, <3>5
  <2>6. CASE ~usable[i + 1]
    <3>1. t[i + 1] = t[i] /\ UpTo(usable, i + 1) = UpTo(usable, i)
      BY <1>2, <2>1, <2>6, UpToNext
    <3>2. After(i + 1)
      BY <2>2, <2>4, <2>6, <3>1
    <3>. QED BY <2>1, <3>2
  <2>. QED BY <2>5, <2>6
<1>5. After(n) /\ t[n] \in Seq(1 .. n)
  <2>1. \A i \in 0 .. n : i \in S
    <3>. HIDE DEF S
    <3>. QED BY <1>1, <1>3, <1>4, Climb
  <2>2. n \in 0 .. n
    BY <1>1
  <2>. QED BY <1>2, <2>1, <2>2
<1>6. DOMAIN Places(usable) = 1 .. Len(Places(usable))
  <2>1. Places(usable) \in Seq(1 .. n)
    BY <1>2, <1>5
  <2>. QED BY <2>1, LenProperties
<1>. HIDE DEF S
<1>. QED BY <1>1, <1>2, <1>5, <1>6 DEF n

\* Usable devices at the first m places are at most m.
LEMMA FewUsable ==
    ASSUME NEW usable \in Seq(BOOLEAN), NEW m \in Nat,
           \A j \in DOMAIN usable : usable[j] => j <= m
    PROVE  UpTo(usable, Len(usable)) \in Nat /\ UpTo(usable, Len(usable)) <= m
<1>. DEFINE U == {i \in 1 .. Len(usable) : usable[i]}
<1>1. Len(usable) \in Nat /\ DOMAIN usable = 1 .. Len(usable)
  BY LenProperties
<1>2. U \in SUBSET (1 .. m)
  BY <1>1
<1>3. IsFiniteSet(1 .. m) /\ Cardinality(1 .. m) = m
  <2>1. 1 \in Int /\ m \in Int /\ (IF 1 > m THEN 0 ELSE m - 1 + 1) = m
    OBVIOUS
  <2>. QED BY <2>1, FS_Interval
<1>4. Cardinality(U) \in Nat /\ Cardinality(U) <= m
  BY <1>2, <1>3, FS_Subset, FS_CardinalityType
<1>. QED BY <1>4 DEF UpTo

\* pick_dev gives the device beside which the number typed was printed, and it
\* is the only one; no device when the number was not printed.  The number and
\* the count are kept in a byte, so that "the number typed" is its remainder
\* modulo 256 (lines 82-117 of npcap_utils.c).
THEOREM PickCorrect ==
    ASSUME NEW usable \in Seq(BOOLEAN), RiHolds(usable), NEW typed \in Nat
    PROVE  LET d == pick_dev(usable, typed)
               number == typed % 256
           IN  IF number \in 1 .. UpTo(usable, Len(usable))
               THEN /\ d \in DOMAIN usable /\ usable[d] /\ UpTo(usable, d) = number
                    /\ \A j \in DOMAIN usable :
                          usable[j] /\ UpTo(usable, j) = number => j = d
               ELSE d = None
<1>. DEFINE N == Len(usable)
            number == typed % 256
            d == pick_dev(usable, typed)
            HasNumber(j) == usable[j] /\ UpTo(usable, j) = number
<1>1. N \in Nat /\ DOMAIN usable = 1 .. N /\ number \in Nat
  OBVIOUS
<1>2. UpTo(usable, N) \in Nat /\ UpTo(usable, N) < 256
  <2>1. UpTo(usable, N) \in Nat /\ UpTo(usable, N) <= 31
    BY FewUsable DEF RiHolds
  <2>. HIDE DEF N
  <2>. QED BY <2>1
<1>3. UpTo(usable, N) % 256 = UpTo(usable, N)
  BY <1>2
<1>4. d = IF UpTo(usable, N) = 0 \/ number < 1 \/ number > UpTo(usable, N) THEN None
          ELSE CHOOSE j \in DOMAIN usable : HasNumber(j)
  BY <1>3 DEF pick_dev, UpTo
<1>5. CASE number \in 1 .. UpTo(usable, N)
\* The first device up to which so many are usable is usable itself.
  <2>. DEFINE S == {j \in 0 .. N : number <= UpTo(usable, j)}
  <2>1. S \in SUBSET Nat /\ N \in S
    BY <1>1, <1>5
  <2>2. PICK j \in S : \A k \in S : j <= k
    BY <2>1, LowestNumber
  <2>3. j \in Nat /\ j # 0
    <3>1. 0 \notin S
      BY <1>5, UpToNext
    <3>. QED BY <2>1, <3>1
  <2>4. j - 1 \in Nat /\ j - 1 \in 0 .. N /\ (j - 1) + 1 = j /\ j - 1 \notin S
    BY <1>1, <2>2, <2>3
  <2>5. UpTo(usable, j - 1) \in Nat /\ UpTo(usable, j - 1) < number
    <3>1. UpTo(usable, j - 1) \in Nat
      BY <2>4, UpToNext
    <3>. QED BY <1>1, <2>4, <3>1
  <2>6. UpTo(usable, j) = IF usable[j] THEN UpTo(usable, j - 1) + 1 ELSE UpTo(usable, j - 1)
    BY <2>4, UpToNext
  <2>7. HasNumber(j) /\ j \in DOMAIN usable
    BY <1>1, <2>2, <2>3, <2>5, <2>6
  <2>8. d \in DOMAIN usable /\ HasNumber(d)
    <3>1. d = CHOOSE k \in DOMAIN usable : HasNumber(k)
      BY <1>1, <1>2, <1>4, <1>5
    <3>. HIDE DEF HasNumber, d
    <3>. QED BY <2>7, <3>1
  <2>9. ASSUME NEW k \in DOMAIN usable, HasNumber(k) PROVE k = d
    <3>1. k \in Nat /\ d \in Nat /\ (k = d \/ k < d \/ d < k)
      BY <1>1, <2>8
    <3>. HIDE DEF d
    <3>2. ~(k < d)
      <4>1. k < d => UpTo(usable, k) < UpTo(usable, d)
        BY <2>8, <3>1, NumbersRise
      <4>. QED BY <1>1, <2>8, <2>9, <4>1
    <3>3. ~(d < k)
      <4>1. d < k => UpTo(usable, d) < UpTo(usable, k)
        BY <2>9, <3>1, NumbersRise
      <4>. QED BY <1>1, <2>8, <2>9, <4>1
    <3>. QED BY <3>1, <3>2, <3>3
  <2>. QED BY <1>5, <2>8, <2>9
<1>6. CASE number \notin 1 .. UpTo(usable, N)
  BY <1>1, <1>2, <1>4, <1>6
<1>. QED BY <1>5, <1>6

\* The device that is opened is the one printed beside the number typed, and none
\* when the number was not printed, for every number below 256 and every list,
\* however long, whose usable devices are at places that ri has (npcap_utils.c
\* 74-123).
THEOREM OpensPrinted ==
    ASSUME NEW usable \in Seq(BOOLEAN), NEW typed \in Nat
    PROVE  PicksPrinted(usable, typed)
<1>. SUFFICES ASSUME RiHolds(usable), typed < 256
              PROVE  pick_dev(usable, typed)
                        = IF typed \in DOMAIN Places(usable) THEN Places(usable)[typed]
                          ELSE None
  BY DEF PicksPrinted
<1>. DEFINE count == UpTo(usable, Len(usable))
            d == pick_dev(usable, typed)
            printed == Places(usable)
<1>1. typed % 256 = typed
  OBVIOUS
<1>2. IF typed \in 1 .. count
      THEN d \in DOMAIN usable /\ usable[d] /\ UpTo(usable, d) = typed
      ELSE d = None
  BY <1>1, PickCorrect
<1>3. DOMAIN printed = 1 .. count
  <2>1. printed \in Seq(1 .. Len(usable)) /\ Len(printed) = count
    BY PlacesNumbered
  <2>. QED BY <2>1, LenProperties
<1>4. \A j \in DOMAIN usable : usable[j] => printed[UpTo(usable, j)] = j
  BY PlacesNumbered
<1>. HIDE DEF count, d, printed
<1>. QED BY <1>2, <1>3, <1>4 DEF d, printed

\* main opens the device that is printed beside the number typed, up to 255, and
\* none when the number was not printed, whatever devices there are.
THEOREM PickedCorrect == Spec => []PickedIsPrinted
<1>. DEFINE Chosen == choice = << >> \/ \E l \in Lists, n \in Numbers : choice = <<l, n>>
<1>1. Init => Chosen
  BY DEF Init
<1>2. Chosen /\ [Next]_vars => Chosen'
  BY DEF Next, vars, PickDev, Main, At, Goes, Crash, Pick, PickFails, PickOverruns, Listen,
         FreeName, UsesUnset, StartThread, SendArp, Sent, Wait, Close, CloseNull, Return,
         Prepare, Capture, Forward, UsesNoHandle, Arrives
<1>3. Chosen => PickedIsPrinted
  <2>1. ASSUME NEW l \in Lists, NEW n \in Numbers PROVE PicksPrinted(l, n)
    BY ArpAssumption, OpensPrinted
  <2>. QED BY <2>1 DEF PickedIsPrinted
<1>. QED BY <1>1, <1>2, <1>3, PTL DEF Spec
-----------------------------------------------------------------------------
(* The functions on the inputs TLC is given, as states of the run.         *)

LEMMA ShortSequence ==
    ASSUME NEW S, NEW n \in Nat, NEW s \in [1 .. n -> S]
    PROVE  s \in Seq(S) /\ Len(s) = n
BY SeqDef

\* What the run gives tcp_rep_frame and example.c: every one of its answers
\* verifies, whatever words and bytes and however long a payload it is given.
THEOREM AnswersCorrect == MCSpec => []AnswersVerify
<1>1. SomePackets \subseteq Packets /\ CarryPackets \subseteq Packets
  <2>1. 65535 \in Word /\ 258 \in Word /\ 80 \in Word /\ 47 \in Nat /\ 60 \in Nat
    <3>1. MaxWord = 65535
      BY DEF MaxWord
    <3>. QED BY <3>1 DEF Word
  <2>2. Words \subseteq Word
    BY MCAssumption
  <2>. HIDE DEF Word
  <2>3. Longs \subseteq Long
    BY <2>1, <2>2 DEF Longs, Long
  <2>4. /\ Words \X Words \subseteq Long /\ {65535} \X Word \subseteq Long
        /\ <<65535, 65535>> \in Long
    BY <2>1, <2>2 DEF Long
  <2>. HIDE DEF Longs, Long
  <2>. QED BY <2>1, <2>2, <2>3, <2>4 DEF SomePackets, CarryPackets, Packets
<1>2. \A b \in SomePayloads : b \in Seq(Byte) /\ Len(b) <= 32767
  <2>1. ASSUME NEW n \in 0 .. MaxPayload, NEW b \in [1 .. n -> Bytes]
        PROVE  b \in Seq(Byte) /\ Len(b) <= 32767
    <3>1. n \in Nat /\ n <= 32767 /\ b \in [1 .. n -> Byte]
      BY MCAssumption
    <3>. QED BY <3>1, ShortSequence
  <2>. QED BY <2>1 DEF SomePayloads
<1>3. <<255>> \in Seq(Byte) /\ Len(<<255>>) <= 32767
  BY DEF Byte
<1>4. MCInit => AnswersVerify
  <2>1. ASSUME NEW p, NEW b, input = <<p, b>>, p \in Packets, b \in Seq(Byte), Len(b) <= 32767
        PROVE  AnswersVerify
    BY <2>1, EveryAnswerVerifies DEF AnswersVerify
  <2>2. input = << >> \/ (\E as : input = <<as>>) => AnswersVerify
    BY DEF AnswersVerify
  <2>3. MCInit => \/ input = << >> \/ \E as : input = <<as>>
                  \/ \E p \in SomePackets, b \in SomePayloads : input = <<p, b>>
                  \/ \E p \in CarryPackets : input = <<p, <<255>>>>
    BY DEF MCInit
  <2>. QED BY <1>1, <1>2, <1>3, <2>1, <2>2, <2>3
<1>5. AnswersVerify /\ [MCNext]_<<vars, input>> => AnswersVerify'
  BY DEF AnswersVerify, MCNext
<1>. QED BY <1>4, <1>5, PTL DEF MCSpec

\* What the run gives list_devs: the list it makes fits, for strings of whatever
\* lengths.
THEOREM ListsCorrect == MCSpec => []ListsFit
<1>1. \A as \in SomeAdapters : as \in Seq(Adapter)
  <2>. DEFINE Some == [listed : BOOLEAN, name : Lengths, description : Lengths,
                       friendly : Lengths]
  <2>1. Some \subseteq Adapter
    <3>1. Lengths \subseteq Nat
      BY MCAssumption
    <3>. QED BY ONLY <3>1 DEF Adapter, Some
  <2>2. \A n \in 0 .. 3 : \A as \in [1 .. n -> Some] : as \in Seq(Adapter)
    <3>. HIDE DEF Some
    <3>1. ASSUME NEW n \in 0 .. 3, NEW as \in [1 .. n -> Some] PROVE as \in Seq(Adapter)
      <4>1. n \in Nat /\ as \in [1 .. n -> Adapter]
        <5>1. n \in Nat
          OBVIOUS
        <5>. QED BY ONLY <2>1, <3>1, <5>1
      <4>. QED BY <4>1, ShortSequence
    <3>. QED BY <3>1
  <2>. QED BY <2>2 DEF SomeAdapters
<1>2. MCInit => ListsFit
  <2>1. ASSUME NEW as, input = <<as>>, as \in Seq(Adapter) PROVE ListsFit
    BY <2>1, ListFits DEF ListsFit
  <2>2. (input = << >> \/ \E p, b : input = <<p, b>>) => ListsFit
    BY DEF ListsFit
  <2>3. MCInit => \/ input = << >> \/ \E p, b : input = <<p, b>>
                  \/ \E as \in SomeAdapters : input = <<as>>
    BY DEF MCInit
  <2>. QED BY <1>1, <2>1, <2>2, <2>3
<1>3. ListsFit /\ [MCNext]_<<vars, input>> => ListsFit'
  BY DEF ListsFit, MCNext
<1>. QED BY <1>2, <1>3, PTL DEF MCSpec
==============================================================================
