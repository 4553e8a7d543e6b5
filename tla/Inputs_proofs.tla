----------------------------- MODULE Inputs_proofs -----------------------------
(***************************************************************************)
(* Proofs about Inputs, for every amount up to the bound, every limit,      *)
(* every precision that is wide enough, and any number of faults.           *)
(***************************************************************************)
EXTENDS Inputs, FiniteSetTheorems, WellFoundedInduction, TLAPS

-----------------------------------------------------------------------------
(* Powers of two, which the provers only know as cardinalities of powersets. *)

LEMMA PowerIsNat == ASSUME NEW n \in Nat PROVE 2 ^ n \in Nat \ {0}
<1>1. IsFiniteSet(1..n) /\ Cardinality(1..n) = n
  BY FS_Interval
<1>2. IsFiniteSet(SUBSET (1..n)) /\ Cardinality(SUBSET (1..n)) = 2 ^ n
  BY <1>1, FS_SUBSET
<1>3. SUBSET (1..n) # {}
  OBVIOUS
<1> QED
  BY <1>2, <1>3, FS_CardinalityType, FS_EmptySet

\* A subset of 1..(n + 1) is one of 1..n, with n + 1 or without.
LEMMA PowerDoubles == ASSUME NEW n \in Nat PROVE 2 ^ (n + 1) = 2 * 2 ^ n
<1> DEFINE Old == SUBSET (1..n)
           New == {T \cup {n + 1} : T \in Old}
           with == [T \in Old |-> T \cup {n + 1}]
<1>1. IsFiniteSet(1..n) /\ Cardinality(1..n) = n
  BY FS_Interval
<1>2. IsFiniteSet(1..(n + 1)) /\ Cardinality(1..(n + 1)) = n + 1
  BY FS_Interval
<1>3. IsFiniteSet(Old) /\ Cardinality(Old) = 2 ^ n
  BY <1>1, FS_SUBSET
<1>4. Cardinality(SUBSET (1..(n + 1))) = 2 ^ (n + 1)
  BY <1>2, FS_SUBSET
<1>5. SUBSET (1..(n + 1)) = Old \cup New
  <2>1. ASSUME NEW T \in SUBSET (1..(n + 1)) PROVE T \in Old \cup New
    <3>1. CASE n + 1 \in T
      <4>1. T = (T \ {n + 1}) \cup {n + 1} /\ T \ {n + 1} \in Old
        BY <3>1
      <4> QED
        BY <4>1
    <3>2. CASE n + 1 \notin T
      BY <3>2
    <3> QED
      BY <3>1, <3>2
  <2>2. ASSUME NEW T \in Old \cup New PROVE T \in SUBSET (1..(n + 1))
    OBVIOUS
  <2> QED
    BY <2>1, <2>2
<1>6. Old \cap New = {}
  <2>1. n + 1 \notin 1..n
    OBVIOUS
  <2> QED
    BY <2>1
<1>7. with \in Bijection(Old, New)
  <2>1. with \in [Old -> New] /\ \A T \in New : \E U \in Old : with[U] = T
    OBVIOUS
  <2>2. ASSUME NEW T \in Old, NEW U \in Old, with[T] = with[U] PROVE T = U
    <3>1. T = with[T] \ {n + 1} /\ U = with[U] \ {n + 1}
      OBVIOUS
    <3> QED
      BY <2>2, <3>1
  <2> HIDE DEF Old, New, with
  <2> QED
    BY <2>1, <2>2 DEF Bijection, Injection, Surjection, IsInjective
<1> HIDE DEF Old, New, with
<1>8. IsFiniteSet(New) /\ Cardinality(New) = 2 ^ n
  BY <1>3, <1>7, FS_Bijection DEF ExistsBijection
<1>9. Cardinality(Old \cup New) = 2 ^ n + 2 ^ n - Cardinality({})
  BY <1>3, <1>6, <1>8, FS_Union
<1> QED
  <2>1. Cardinality({}) = 0
    BY FS_EmptySet
  <2>2. 2 ^ n \in Nat
    BY PowerIsNat
  <2>3. 2 ^ (n + 1) = Cardinality(Old \cup New)
    BY <1>4, <1>5
  <2> QED
    BY <1>9, <2>1, <2>2, <2>3

-----------------------------------------------------------------------------
(* Division. *)

LEMMA Division ==
  ASSUME NEW n \in Nat, NEW d \in Nat \ {0}
  PROVE  /\ n \div d \in Nat /\ n % d \in Nat /\ n % d < d
         /\ n = d * (n \div d) + (n % d)
OBVIOUS

\* Rounding is off by half a unit at most.
LEMMA NearestIsClose ==
  ASSUME NEW n \in Nat, NEW d \in Nat \ {0}
  PROVE  /\ Nearest(n, d) \in Nat
         /\ 2 * (d * Nearest(n, d)) <= 2 * n + d
         /\ 2 * n <= 2 * (d * Nearest(n, d)) + d
<1> DEFINE q == n \div d
           r == n % d
<1>1. q \in Nat /\ r \in Nat /\ r < d /\ n = d * q + r
  BY Division
<1>2. (Nearest(n, d) = q + 1 /\ 2 * r >= d) \/ (Nearest(n, d) = q /\ 2 * r <= d)
  <2>1. Nearest(n, d) = IF 2 * r > d \/ (2 * r = d /\ q % 2 = 1) THEN q + 1 ELSE q
    BY DEF Nearest
  <2> HIDE DEF q, r
  <2> QED
    BY <1>1, <2>1
<1> HIDE DEF q, r
<1>3. d * (q + 1) = d * q + d /\ d * q \in Nat
  BY <1>1
<1> QED
  BY <1>1, <1>2, <1>3

-----------------------------------------------------------------------------
(* Doubles. Low is the smallest significand. *)

Low == 2 ^ (Precision - 1)

LEMMA LowAndHigh == Low \in Nat \ {0} /\ 2 ^ Precision = 2 * Low
<1>1. Precision - 1 \in Nat /\ (Precision - 1) + 1 = Precision
  BY PrecisionAssumption
<1> QED
  BY <1>1, PowerIsNat, PowerDoubles DEF Low

LEMMA Powers ==
  \A d \in Nat :
    /\ (d = 0 => 2 ^ d = 1) /\ (d = 1 => 2 ^ d = 2) /\ (d = 2 => 2 ^ d = 4)
    /\ (d = 3 => 2 ^ d = 8) /\ (d = 4 => 2 ^ d = 16) /\ (d = 5 => 2 ^ d = 32)
    /\ (d = 6 => 2 ^ d = 64) /\ (d = 7 => 2 ^ d = 128) /\ (d = 8 => 2 ^ d = 256)
<1>0. \A d \in Nat : d = 0 => 2 ^ d = 1
  OBVIOUS
<1>1. \A d \in Nat : d = 1 => 2 ^ d = 2
  OBVIOUS
<1>2. \A d \in Nat : d = 2 => 2 ^ d = 4
  OBVIOUS
<1>3. \A d \in Nat : d = 3 => 2 ^ d = 8
  OBVIOUS
<1>4. \A d \in Nat : d = 4 => 2 ^ d = 16
  OBVIOUS
<1>5. \A d \in Nat : d = 5 => 2 ^ d = 32
  OBVIOUS
<1>6. \A d \in Nat : d = 6 => 2 ^ d = 64
  OBVIOUS
<1>7. \A d \in Nat : d = 7 => 2 ^ d = 128
  OBVIOUS
<1>8. \A d \in Nat : d = 8 => 2 ^ d = 256
  OBVIOUS
<1> QED
  BY <1>0, <1>1, <1>2, <1>3, <1>4, <1>5, <1>6, <1>7, <1>8

\* Ten doublings, one after the other.
LEMMA Doublings ==
  ASSUME NEW n \in Nat
  PROVE  /\ 2 ^ n \in Nat /\ 2 ^ (n + 1) = 2 * 2 ^ n /\ 2 ^ (n + 2) = 4 * 2 ^ n
         /\ 2 ^ (n + 3) = 8 * 2 ^ n /\ 2 ^ (n + 4) = 16 * 2 ^ n /\ 2 ^ (n + 5) = 32 * 2 ^ n
         /\ 2 ^ (n + 6) = 64 * 2 ^ n /\ 2 ^ (n + 7) = 128 * 2 ^ n
         /\ 2 ^ (n + 8) = 256 * 2 ^ n /\ 2 ^ (n + 10) = 1024 * 2 ^ n
<1> DEFINE p(d) == 2 ^ (n + d)
<1>1. \A d \in Nat : p(d) \in Nat /\ p(d + 1) = 2 * p(d)
  <2>1. ASSUME NEW d \in Nat PROVE p(d) \in Nat /\ p(d + 1) = 2 * p(d)
    <3>1. n + d \in Nat /\ (n + d) + 1 = n + (d + 1)
      OBVIOUS
    <3> QED
      BY <3>1, PowerIsNat, PowerDoubles
  <2> QED
    BY <2>1
<1>2. p(0) = 2 ^ n
  OBVIOUS
<1> HIDE DEF p
<1>3. /\ p(1) = 2 * p(0) /\ p(2) = 4 * p(0) /\ p(3) = 8 * p(0) /\ p(4) = 16 * p(0)
      /\ p(5) = 32 * p(0) /\ p(6) = 64 * p(0) /\ p(7) = 128 * p(0) /\ p(8) = 256 * p(0)
      /\ p(10) = 1024 * p(0)
  <2>1. /\ p(0 + 1) = 2 * p(0) /\ p(1 + 1) = 2 * p(1) /\ p(2 + 1) = 2 * p(2)
        /\ p(3 + 1) = 2 * p(3) /\ p(4 + 1) = 2 * p(4) /\ p(5 + 1) = 2 * p(5)
        /\ p(6 + 1) = 2 * p(6) /\ p(7 + 1) = 2 * p(7) /\ p(8 + 1) = 2 * p(8)
        /\ p(9 + 1) = 2 * p(9)
    BY <1>1
  <2>2. p(0) \in Nat /\ p(1) \in Nat /\ p(2) \in Nat /\ p(3) \in Nat /\ p(4) \in Nat
        /\ p(5) \in Nat /\ p(6) \in Nat /\ p(7) \in Nat /\ p(8) \in Nat /\ p(9) \in Nat
    BY <1>1
  <2> QED
    BY <2>1, <2>2
<1>4. p(0) \in Nat
  BY <1>1
<1> QED
  BY <1>2, <1>3, <1>4 DEF p

\* An exponent that is larger by d is as many doublings.
LEMMA PowerOfSum ==
  ASSUME NEW n \in Nat, NEW d \in 0..8
  PROVE  2 ^ (n + d) = 2 ^ d * 2 ^ n
<1>1. d \in Nat /\ n + 0 = n
  OBVIOUS
<1>2. CASE d = 0
  BY <1>1, <1>2, Doublings, Powers
<1>3. CASE d = 1
  BY <1>1, <1>3, Doublings, Powers
<1>4. CASE d = 2
  BY <1>1, <1>4, Doublings, Powers
<1>5. CASE d = 3
  BY <1>1, <1>5, Doublings, Powers
<1>6. CASE d = 4
  BY <1>1, <1>6, Doublings, Powers
<1>7. CASE d = 5
  BY <1>1, <1>7, Doublings, Powers
<1>8. CASE d = 6
  BY <1>1, <1>8, Doublings, Powers
<1>9. CASE d = 7
  BY <1>1, <1>9, Doublings, Powers
<1>10. CASE d = 8
  BY <1>1, <1>10, Doublings, Powers
<1>11. d \in {0, 1, 2, 3, 4, 5, 6, 7, 8}
  OBVIOUS
<1> QED
  BY <1>2, <1>3, <1>4, <1>5, <1>6, <1>7, <1>8, <1>9, <1>10, <1>11

\* There is an exponent that brings a significand into its range: the smallest one that
\* makes it large enough.
LEMMA ScaleExists ==
  ASSUME NEW k \in 1..(2 ^ Precision)
  PROVE  \E e \in 0..(Precision + 9) : Normal(k * 2 ^ e, 1000)
<1> DEFINE Enough == {e \in Nat : Low * 1000 <= k * 2 ^ e}
<1>1. k \in Nat \ {0} /\ k <= 2 * Low /\ Low \in Nat \ {0} /\ Precision \in Nat \ {0}
  BY LowAndHigh, PrecisionAssumption
<1>2. Precision + 9 \in Enough
  <2>1. Precision - 1 \in Nat /\ Precision + 9 = (Precision - 1) + 10
    BY <1>1
  <2>2. 2 ^ (Precision + 9) = 1024 * Low
    BY <2>1, Doublings DEF Low
  <2>3. \A x \in Nat : x <= k * x
    BY <1>1
  <2>4. 1024 * Low <= k * (1024 * Low)
    BY <1>1, <2>3
  <2> QED
    BY <1>1, <2>2, <2>4
<1>3. PICK e \in Enough : \A f \in Enough : ~(f < e)
  <2>1. PICK e \in Enough : \A f \in Enough : <<f, e>> \notin OpToRel(<, Nat)
    <3>1. Enough \subseteq Nat /\ Enough # {}
      BY <1>2
    <3> HIDE DEF Enough
    <3> QED
      BY <3>1, NatLessThanWellFounded, WFMin
  <2>2. \A f \in Enough : f < e => <<f, e>> \in OpToRel(<, Nat)
    BY DEF OpToRel
  <2> QED
    BY <2>1, <2>2
<1>4. e \in Nat /\ e <= Precision + 9
  BY <1>1, <1>2, <1>3
<1>5. k * 2 ^ e < 2 * Low * 1000
  <2>1. CASE e = 0
    BY <1>1, <2>1, Powers
  <2>2. CASE e # 0
    <3>1. e - 1 \in Nat /\ (e - 1) + 1 = e
      BY <1>4, <2>2
    <3>2. e - 1 \notin Enough
      BY <1>3, <3>1
    <3>3. 2 ^ (e - 1) \in Nat /\ 2 ^ e = 2 * 2 ^ (e - 1)
      BY <3>1, PowerIsNat, PowerDoubles
    <3>4. k * 2 ^ e = 2 * (k * 2 ^ (e - 1)) /\ k * 2 ^ (e - 1) \in Nat
      BY <1>1, <3>3
    <3>5. k * 2 ^ (e - 1) < Low * 1000
      BY <1>1, <3>1, <3>2, <3>4
    <3> QED
      BY <1>1, <3>4, <3>5
  <2> QED
    BY <2>1, <2>2
<1> QED
  BY <1>1, <1>3, <1>4, <1>5, LowAndHigh DEF Normal, Low


\* The double of k thousandths is off by half a unit of its significand at most.
LEMMA DoubleIsClose ==
  ASSUME NEW k \in 1..(2 ^ Precision)
  PROVE  LET x == Double(k)
             E == 2 ^ x.e
         IN  /\ x.m \in Low..(2 * Low) /\ x.e \in Nat /\ E \in Nat
             /\ k * E <= 1000 * x.m + 500 /\ 1000 * x.m <= k * E + 500
             /\ 1000 * Low <= k * E /\ x.e >= 9 /\ E >= 500
<1> DEFINE e == CHOOSE e \in 0..(Precision + 9) : Normal(k * 2 ^ e, 1000)
           n == k * 2 ^ e
           m == Nearest(n, 1000)
<1>1. e \in 0..(Precision + 9) /\ Normal(n, 1000)
  BY ScaleExists
<1>2. k \in Nat \ {0} /\ k <= 2 * Low /\ Low \in Nat \ {0}
  BY LowAndHigh
<1>3. e \in Nat
  BY <1>1, PrecisionAssumption
<1>4. Double(k) = [m |-> m, e |-> e]
  BY DEF Double
<1> HIDE DEF e
<1>5. 2 ^ e \in Nat
  BY <1>3, PowerIsNat
<1>6. n \in Nat /\ Low * 1000 <= n /\ n < 2 * Low * 1000
  BY <1>1, <1>2, <1>5, LowAndHigh DEF Normal, Low
<1>7. m \in Nat /\ 2 * (1000 * m) <= 2 * n + 1000 /\ 2 * n <= 2 * (1000 * m) + 1000
  <2> HIDE DEF n
  <2> QED
    BY <1>6, NearestIsClose
<1>8. 2 ^ e >= 500
  <2>1. k * 2 ^ e <= (2 * Low) * 2 ^ e
    BY <1>2, <1>5
  <2>2. 500 * (2 * Low) <= 2 ^ e * (2 * Low)
    BY <1>2, <1>5, <1>6, <2>1
  <2>3. \A a, b, c \in Nat : c > 0 /\ a * c <= b * c => a <= b
    OBVIOUS
  <2> QED
    BY <1>2, <1>5, <2>2, <2>3
<1>9. e >= 9
  <2>1. e < 9 => e \in {0, 1, 2, 3, 4, 5, 6, 7, 8}
    BY <1>3
  <2> QED
    BY <1>3, <1>8, <2>1, Powers
<1> HIDE DEF m
<1>10. m \in Low..(2 * Low)
  BY <1>2, <1>6, <1>7
<1>11. n <= 1000 * m + 500 /\ 1000 * m <= n + 500
  BY <1>6, <1>7, <1>10, <1>2
<1>12. Double(k).m = m /\ Double(k).e = e /\ 1000 * Low = Low * 1000
  BY <1>2, <1>4
<1> QED
  BY <1>3, <1>5, <1>6, <1>8, <1>9, <1>10, <1>11, <1>12

\* Multiplying by 100 takes the exponent down by at most 7, and rounds once more.
LEMMA HundredfoldIsClose ==
  ASSUME NEW m \in Low..(2 * Low), NEW e \in Nat, e >= 9,
         NEW y, y = Hundredfold([m |-> m, e |-> e])
  PROVE  \E d \in 0..7 : /\ y.e = e - d /\ y.m \in Nat
                         /\ 2 * (2 ^ d * y.m) <= 200 * m + 2 ^ d
                         /\ 200 * m <= 2 * (2 ^ d * y.m) + 2 ^ d
<1> DEFINE d == CHOOSE d \in 0..8 : Normal(100 * m, 2 ^ d)
<1>1. m \in Nat /\ Low \in Nat \ {0}
  BY LowAndHigh
<1>2. \E b \in 0..8 : Normal(100 * m, 2 ^ b)
  <2>1. CASE 100 * m < 2 * Low * 64
    <3>1. ASSUME NEW b \in 0..8, b = 6 PROVE Normal(100 * m, 2 ^ b)
      <4>1. 2 ^ b = 64
        BY <3>1, Powers
      <4> QED
        BY <1>1, <2>1, <4>1, LowAndHigh DEF Normal, Low
    <3> QED
      BY <3>1
  <2>2. CASE 100 * m >= 2 * Low * 64
    <3>1. ASSUME NEW b \in 0..8, b = 7 PROVE Normal(100 * m, 2 ^ b)
      <4>1. 2 ^ b = 128
        BY <3>1, Powers
      <4> QED
        BY <1>1, <2>2, <4>1, LowAndHigh DEF Normal, Low
    <3> QED
      BY <3>1
  <2> QED
    BY <1>1, <2>1, <2>2
<1>3. d \in 0..8 /\ Normal(100 * m, 2 ^ d)
  BY <1>2
<1>4. Hundredfold([m |-> m, e |-> e]) = [m |-> Nearest(100 * m, 2 ^ d), e |-> e - d]
  BY DEF Hundredfold
<1> HIDE DEF d
<1>5. 2 ^ d \in Nat \ {0}
  BY <1>3, PowerIsNat
<1>6. d # 8
  <2>1. d = 8 => 2 ^ d = 256
    BY <1>3, Powers
  <2>2. Low * 2 ^ d <= 100 * m
    BY <1>3 DEF Normal, Low
  <2> QED
    BY <1>1, <2>1, <2>2
<1> DEFINE D == 2 ^ d
<1>7. y.m = Nearest(100 * m, D) /\ y.e = e - d
  BY <1>4
<1>8. y.m \in Nat /\ 2 * (D * y.m) <= 2 * (100 * m) + D /\ 2 * (100 * m) <= 2 * (D * y.m) + D
  <2>1. 100 * m \in Nat /\ D \in Nat \ {0}
    BY <1>1, <1>5
  <2> HIDE DEF D
  <2> QED
    BY <1>7, <2>1, NearestIsClose
<1>9. d \in 0..7
  BY <1>3, <1>6
<1>10. 2 * (100 * m) = 200 * m
  BY <1>1
<1> QED
  BY <1>7, <1>8, <1>9, <1>10

\* Math.round takes the nearest integer.
LEMMA RoundIsClose ==
  ASSUME NEW m \in Nat, NEW e \in Nat
  PROVE  LET c == (2 * m + 2 ^ e) \div 2 ^ (e + 1)
         IN  /\ c \in Nat
             /\ 2 * (2 ^ e * c) <= 2 * m + 2 ^ e
             /\ 2 * m < 2 * (2 ^ e * c) + 2 ^ e
<1> DEFINE F == 2 ^ e
           c == (2 * m + F) \div (2 * F)
<1>1. F \in Nat \ {0} /\ 2 ^ (e + 1) = 2 * F
  BY PowerIsNat, PowerDoubles
<1> HIDE DEF F
<1>2. c \in Nat /\ 2 * F * c <= 2 * m + F /\ 2 * m + F < 2 * F * c + 2 * F
  <2>1. 2 * m + F \in Nat /\ 2 * F \in Nat \ {0}
    BY <1>1
  <2> DEFINE N == 2 * m + F
             D == 2 * F
  <2> HIDE DEF N, D
  <2>2. /\ N \div D \in Nat /\ N % D \in Nat /\ N % D < D
        /\ N = D * (N \div D) + (N % D) /\ N \in Nat /\ D \in Nat
    BY <2>1, Division DEF N, D
  <2>3. c = N \div D /\ 2 * F * c = D * c
    BY DEF N, D
  <2>4. D * c <= N /\ N < D * c + D /\ c \in Nat
    <3> HIDE DEF c
    <3> QED
      BY <2>2, <2>3
  <2> QED
    BY <2>3, <2>4 DEF N, D
<1>3. 2 * F * c = 2 * (F * c) /\ F * c \in Nat
  BY <1>1, <1>2
<1>4. c \in Nat /\ 2 * (F * c) <= 2 * m + F /\ 2 * m < 2 * (F * c) + F
  BY <1>1, <1>2, <1>3
<1> QED
  BY <1>1, <1>4 DEF F


\* The three roundings together, in units of E, the scale of the double: half a cent,
\* and what the two significands are off by.
LEMMA RoundingsAddUp ==
  ASSUME NEW k \in Nat, NEW E \in Nat, NEW D \in Nat, NEW F \in Nat, E = D * F,
         NEW m \in Nat, NEW n \in Nat, NEW c \in Nat,
         k * E <= 1000 * m + 500, 1000 * m <= k * E + 500,
         2 * (D * n) <= 200 * m + D, 200 * m <= 2 * (D * n) + D,
         2 * (F * c) <= 2 * n + F, 2 * n < 2 * (F * c) + F
  PROVE  /\ 10 * (E * c) <= k * E + 5 * E + 5 * D + 500
         /\ k * E <= 10 * (E * c) + 5 * E + 5 * D + 500
<1>1. \A a, b \in Nat : a <= b => D * a <= D * b
  OBVIOUS
<1>2. F * c \in Nat /\ 2 * n + F \in Nat /\ 2 * (F * c) + F \in Nat /\ 2 * (F * c) \in Nat
  OBVIOUS
<1>3. /\ D * (2 * (F * c)) <= D * (2 * n + F)
      /\ D * (2 * n) <= D * (2 * (F * c) + F)
  <2>1. 2 * n <= 2 * (F * c) + F /\ 2 * n \in Nat
    BY <1>2
  <2> QED
    BY <1>1, <1>2, <2>1
<1>4. D * (F * c) = E * c
  OBVIOUS
<1>5. /\ D * (2 * (F * c)) = 2 * (D * (F * c)) /\ D * (2 * n) = 2 * (D * n)
      /\ D * (2 * n + F) = 2 * (D * n) + D * F
      /\ D * (2 * (F * c) + F) = 2 * (D * (F * c)) + D * F
  BY <1>2
<1>6. 2 * (E * c) <= 2 * (D * n) + E /\ 2 * (D * n) <= 2 * (E * c) + E
  BY <1>3, <1>4, <1>5
<1>7. E * c \in Nat /\ D * n \in Nat /\ k * E \in Nat
  OBVIOUS
<1> QED
  BY <1>6, <1>7

\* Cents that fit the column belong to an amount whose double is so precise that only the
\* half a cent matters.
LEMMA CentsAreClose ==
  ASSUME NEW k \in 1..(2 ^ Precision), Cents(k) <= MaxCents
  PROVE  Cents(k) \in Nat /\ 10 * Cents(k) - k \in -5..5
<1> DEFINE x == Double(k)
           y == Hundredfold(x)
           F == 2 ^ y.e
           c == (2 * y.m + 2 ^ y.e) \div 2 ^ (y.e + 1)
<1>0. PICK m \in Low..(2 * Low), e \in Nat : x.m = m /\ x.e = e
  BY DoubleIsClose
<1> DEFINE E == 2 ^ e
<1>1. /\ E \in Nat /\ k * E <= 1000 * m + 500 /\ 1000 * m <= k * E + 500
      /\ 1000 * Low <= k * E /\ e >= 9 /\ E >= 500
  BY <1>0, DoubleIsClose
<1>2. x = [m |-> m, e |-> e]
  <2>1. PICK a, b : x = [m |-> a, e |-> b]
    BY DEF Double
  <2> HIDE DEF x
  <2> QED
    BY <1>0, <2>1
<1>3. Cents(k) = c
  BY DEF Cents
<1>4. k \in Nat /\ MaxCents \in Nat /\ Low \in Nat \ {0} /\ 16 * (MaxCents + 1) <= Low
  BY LowAndHigh, PrecisionAssumption
<1> HIDE DEF x
<1>5. PICK d \in 0..7 :
        /\ y.e = e - d /\ y.m \in Nat
        /\ 2 * (2 ^ d * y.m) <= 200 * m + 2 ^ d
        /\ 200 * m <= 2 * (2 ^ d * y.m) + 2 ^ d
  <2>1. y = Hundredfold([m |-> m, e |-> e])
    BY <1>2
  <2> HIDE DEF y
  <2> QED
    BY <1>1, <2>1, HundredfoldIsClose
<1> HIDE DEF y
<1>6. PICK f \in Nat : y.e = f /\ f + d = e
  BY <1>1, <1>5
<1>7. E = 2 ^ d * F /\ F \in Nat
  <2>1. 2 ^ (f + d) = 2 ^ d * 2 ^ f /\ 2 ^ f \in Nat
    <3>1. d \in 0..8
      BY <1>5
    <3>2. 2 ^ (f + d) = 2 ^ d * 2 ^ f
      BY <3>1, PowerOfSum
    <3> QED
      BY <3>1, <3>2, PowerIsNat
  <2> QED
    BY <1>6, <2>1
<1>8. 2 ^ d \in Nat /\ 2 ^ d <= 128
  <2>1. d \in {0, 1, 2, 3, 4, 5, 6, 7}
    BY <1>5
  <2> QED
    BY <2>1, Powers
<1>9. c \in Nat /\ 2 * (F * c) <= 2 * y.m + F /\ 2 * y.m < 2 * (F * c) + F
  BY <1>5, <1>6, RoundIsClose
<1> HIDE DEF c, E, F
<1> DEFINE D == 2 ^ d
<1> HIDE DEF D
<1>10. /\ 10 * (E * c) <= k * E + 5 * E + 5 * D + 500
       /\ k * E <= 10 * (E * c) + 5 * E + 5 * D + 500
  <2>1. m \in Nat
    BY <1>1, <1>4
  <2> QED
    BY <1>1, <1>4, <1>5, <1>7, <1>8, <1>9, <2>1, RoundingsAddUp DEF D
<1>11. D \in Nat /\ D <= 128
  BY <1>8 DEF D
<1>12. c <= MaxCents
  BY <1>3
<1>13. 5 * D + 500 < E
  <2>1. 1000 * (16 * (c + 1)) <= 1000 * Low
    BY <1>4, <1>9, <1>12
  <2>2. 16000 * (c + 1) <= 10 * (E * c) + 5 * E + 1140
    BY <1>1, <1>4, <1>9, <1>10, <1>11, <2>1
  <2>3. E * (c + 1) = E * c + E /\ E * c \in Nat
    BY <1>1, <1>9
  <2>4. 14860 * (c + 1) <= 10 * (E * (c + 1))
    BY <1>1, <1>9, <2>2, <2>3
  <2>5. CASE E <= 1140
    <3>1. E * (c + 1) <= 1140 * (c + 1) /\ E * (c + 1) \in Nat /\ c + 1 \in Nat \ {0}
      BY <1>1, <1>9, <2>5
    <3>2. \A g, a \in Nat : 14860 * a <= 10 * g /\ g <= 1140 * a => a = 0
      OBVIOUS
    <3> QED
      BY <2>4, <3>1, <3>2
  <2> QED
    BY <1>1, <1>11, <2>5
<1>14. /\ E * (10 * c) < E * (k + 6)
       /\ E * k < E * (10 * c + 6)
  <2>1. /\ E * (10 * c) = 10 * (E * c) /\ E * (k + 6) = k * E + 6 * E
        /\ E * k = k * E /\ E * (10 * c + 6) = 10 * (E * c) + 6 * E
        /\ E * c \in Nat /\ k * E \in Nat
    BY <1>1, <1>4, <1>9
  <2> QED
    BY <1>1, <1>10, <1>11, <1>13, <2>1
<1>15. 10 * c < k + 6 /\ k < 10 * c + 6
  <2>1. \A a, b \in Nat : E * a < E * b => a < b
    BY <1>1
  <2> QED
    BY <1>4, <1>9, <1>14, <2>1
<1> QED
  BY <1>3, <1>4, <1>9, <1>15


-----------------------------------------------------------------------------
(* The specification. *)

\* Cents that are to be stored are near the amount of the request.
LEMMA StoredIsClose ==
  ASSUME request \in Requests, request.kind = "intent", Storable
  PROVE  Value \in Int /\ 10 * Value - request.amount \in -5..5
<1>1. request.amount \in 1..(2 ^ Precision)
  <2>1. request \in [kind : {"intent"}, amount : Amounts]
    BY DEF Requests, Lists
  <2> QED
    BY <2>1, AmountsAssumption
<1>2. Cents(request.amount) <= MaxCents /\ Value = Cents(request.amount)
  BY DEF Storable, Value
<1> QED
  BY <1>1, <1>2, CentsAreClose

\* Whatever an amount is, whichever double carries it, and however often the client tries
\* again: a row of a payment holds the nearest cents.
THEOREM CentsAreNearestCorrect == Spec => []CentsAreNearest
<1> DEFINE Inv == /\ request \in Requests
                  /\ \A i \in DOMAIN stored : stored[i] = Value /\ Storable
                  /\ stored \in Seq({Value})
                  /\ status \in {201, 202} => stored # <<>>
<1>1. Init => Inv
  BY DEF Init
<1>2. Inv /\ [Next]_vars => Inv'
  <2> SUFFICES ASSUME Inv, [Next]_vars PROVE Inv'
    OBVIOUS
  <2>0. request' = request /\ Value' = Value /\ (Storable' <=> Storable)
    BY DEF Next, vars, Receive, Insert, InsertRefused, InsertFails, Select, Retry, Value, Storable
  <2>1. CASE stored' = stored /\ status' \notin {201, 202}
    BY <2>0, <2>1
  <2>2. CASE stored' = Append(stored, Value) /\ Storable
    BY <2>0, <2>2
  <2>3. CASE UNCHANGED vars
    BY <2>0, <2>3 DEF vars
  <2>4. ASSUME Receive \/ InsertRefused \/ InsertFails \/ Select \/ Retry
        PROVE  \/ stored' = stored /\ status' \notin {201, 202}
               \/ stored' = stored /\ status' = status
               \/ stored' = Append(stored, Value) /\ Storable
    BY <2>4 DEF Receive, InsertRefused, InsertFails, Select, Retry, Reply
  <2>5. CASE stored' = stored /\ status' = status
    BY <2>0, <2>5
  <2>6. CASE Insert
    BY <2>2, <2>6 DEF Insert
  <2> QED
    BY <2>1, <2>2, <2>3, <2>4, <2>5, <2>6 DEF Next
<1>3. Inv => CentsAreNearest
  BY StoredIsClose DEF CentsAreNearest
<1> QED
  BY <1>1, <1>2, <1>3, PTL DEF Spec

-----------------------------------------------------------------------------
(* Limits. *)

\* A limit that reaches the SQL is at most the cap's; one that is whole and in range is
\* what the client gave; one that Postgres refuses is fractional, or negative.
LEMMA LimitIsHonoured ==
  ASSUME NEW kind \in Lists, NEW limit \in Limits \cup {Absent}
  PROVE  /\ CapOf(kind) \in Nat /\ Limit(kind, limit) \in Int
         /\ Limit(kind, limit) <= 2 * CapOf(kind)
         /\ limit \in {2 * n : n \in 1..CapOf(kind)} => Limit(kind, limit) = limit
         /\ ~Selectable(Limit(kind, limit)) =>
              limit \in Int /\ (limit % 2 = 1 \/ (limit < 0 /\ kind = "entities"))
<1>1. CapOf(kind) \in Nat
  BY BoundsAssumption DEF CapOf, Lists
<1>2. limit \in Int \/ limit = Absent
  BY LimitsAssumption
<1>3. \A n \in Nat : (2 * n) % 2 = 0
  OBVIOUS
<1>4. CASE kind = "entities"
  <2>1. CapOf(kind) = 100
    BY <1>4 DEF CapOf
  <2>2. Limit(kind, limit) = AtMost(IF limit = Absent THEN 40 ELSE limit, 200)
    BY <1>4, <2>1 DEF Limit, Capped
  <2>3. CASE limit = Absent
    BY <1>4, <2>1, <2>2, <2>3, LimitsAssumption DEF AtMost, Selectable
  <2>4. CASE limit # Absent
    BY <1>2, <1>4, <2>1, <2>2, <2>4 DEF AtMost, Selectable
  <2> QED
    BY <2>3, <2>4
<1>5. CASE kind # "entities"
  <2>1. PICK default \in Nat :
          Limit(kind, limit) = PositiveOr(limit, CapOf(kind), default) /\ default <= CapOf(kind)
    <3>1. CASE kind = "events"
      <4>1. CapOf(kind) = 200 /\ Limit(kind, limit) = PositiveOr(limit, CapOf(kind), 50)
        BY <3>1 DEF Limit, CapOf
      <4> QED
        BY <4>1
    <3>2. CASE kind # "events"
      <4>1. Limit(kind, limit) = PositiveOr(limit, CapOf(kind), CapOf(kind))
        BY <1>5, <3>2 DEF Limit
      <4> QED
        BY <1>1, <4>1
    <3> QED
      BY <3>1, <3>2
  <2> DEFINE cap == CapOf(kind)
  <2> HIDE DEF cap
  <2>2. CASE limit # Absent /\ limit > 0
    <3>1. Limit(kind, limit) = AtMost(limit, 2 * cap) /\ limit \in Int
      BY <1>2, <2>1, <2>2 DEF PositiveOr, cap
    <3> QED
      BY <1>1, <1>3, <2>2, <3>1 DEF AtMost, Selectable, cap
  <2>3. CASE ~(limit # Absent /\ limit > 0)
    <3>1. Limit(kind, limit) = 2 * default
      BY <2>1, <2>3 DEF PositiveOr
    <3>2. Selectable(2 * default)
      BY <1>3 DEF Selectable
    <3>3. limit \notin {2 * n : n \in 1..cap}
      BY <1>1, <1>2, <2>3, LimitsAssumption DEF cap
    <3> QED
      BY <1>1, <2>1, <3>1, <3>2, <3>3 DEF cap
  <2> QED
    BY <2>2, <2>3
<1> QED
  BY <1>4, <1>5

\* For each list and every limit: never more than the cap, exactly what was asked for when
\* it is in range, and refused only when it is not a number of rows.
THEOREM LimitsAreHonouredCorrect == Spec => []LimitsAreHonoured
<1> DEFINE Inv == /\ request \in Requests
                  /\ request.kind \in Lists => pc # "insert" /\ rows \in Nat
                  /\ LimitsAreHonoured
<1>1. Init => Inv
  <2> SUFFICES ASSUME Init PROVE Inv
    OBVIOUS
  <2>1. request.kind \in Lists => CapOf(request.kind) \in Nat
    BY BoundsAssumption DEF CapOf, Lists
  <2> QED
    BY <2>1 DEF Init, LimitsAreHonoured
<1>2. Inv /\ [Next]_vars => Inv'
  <2> SUFFICES ASSUME Inv, [Next]_vars PROVE Inv'
    OBVIOUS
  <2>0. request' = request
    BY DEF Next, vars, Receive, Insert, InsertRefused, InsertFails, Select, Retry
  <2>1. CASE request.kind \notin Lists
    BY <2>0, <2>1 DEF LimitsAreHonoured
  <2>2. CASE request.kind \in Lists
    <3>1. ~Receive /\ ~Insert /\ ~InsertRefused /\ ~InsertFails
      BY <2>2 DEF Receive, Insert, InsertRefused, InsertFails, Lists
    <3>2. CASE Select
      <4> DEFINE limit == request.limit
                 kind == request.kind
                 sql == Limit(kind, limit)
      <4>1. kind \in Lists /\ limit \in Limits \cup {Absent, Bad}
        BY <2>2 DEF Requests, Lists
      <4> HIDE DEF limit, kind
      <4>2. CASE status' = 400 /\ pc' = "done" /\ rows' = rows
        BY <2>0, <2>2, <4>2 DEF LimitsAreHonoured
      <4>3. CASE limit # Bad
        <5>1. /\ CapOf(kind) \in Nat /\ sql \in Int /\ sql <= 2 * CapOf(kind)
              /\ limit \in {2 * n : n \in 1..CapOf(kind)} => sql = limit
              /\ ~Selectable(sql) =>
                   limit \in Int /\ (limit % 2 = 1 \/ (limit < 0 /\ kind = "entities"))
          BY <4>1, <4>3, LimitIsHonoured
        <5>2. pc' = "done"
          BY <3>2 DEF Select, Reply
        <5>3. \/ Selectable(sql) /\ status' = 200 /\ rows' = AtMost(sql \div 2, Available)
              \/ ~Selectable(sql) /\ status' = 500 /\ rows' = rows
          BY <3>2, <4>3 DEF Select, Reply, limit, kind
        <5> HIDE DEF sql
        <5>4. CASE Selectable(sql) /\ status' = 200 /\ rows' = AtMost(sql \div 2, Available)
          <6>1. rows' \in Nat /\ rows' <= CapOf(kind)
            BY <5>1, <5>4, BoundsAssumption DEF Selectable, AtMost
          <6> QED
            BY <2>0, <5>1, <5>2, <5>4, <6>1 DEF LimitsAreHonoured, limit, kind
        <5>5. CASE ~Selectable(sql) /\ status' = 500 /\ rows' = rows
          BY <2>0, <2>2, <5>1, <5>2, <5>5 DEF LimitsAreHonoured, limit, kind
        <5> QED
          BY <5>3, <5>4, <5>5
      <4> QED
        BY <3>2, <4>2, <4>3 DEF Select, Reply, limit
    <3>3. CASE Retry
      BY <2>0, <2>2, <3>3 DEF Retry, LimitsAreHonoured
    <3>4. CASE UNCHANGED vars
      BY <2>2, <3>4 DEF vars, LimitsAreHonoured
    <3> QED
      BY <3>1, <3>2, <3>3, <3>4 DEF Next
  <2> QED
    BY <2>1, <2>2
<1>3. Inv => LimitsAreHonoured
  OBVIOUS
<1> QED
  BY <1>1, <1>2, <1>3, PTL DEF Spec
=============================================================================
