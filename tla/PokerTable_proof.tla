-------------------------- MODULE PokerTable_proof --------------------------
(***************************************************************************)
(* The chips of a table are conserved, its hands are legal and end, for    *)
(* every set of six to nine seats, every stack, every number of hands and  *)
(* every target a user may type.  First the sums of chips and the award of *)
(* a pot, then what an action, a start, a settlement and a rebuy do to the *)
(* inductive invariant TableInv, then what follows from it.  After that    *)
(* the layers of the pot and how fairly they are shared, and last the      *)
(* order of turns, without which a hand could end that cannot be settled.  *)
(***************************************************************************)
EXTENDS PokerTable, FiniteSetTheorems, TLAPS

\* The chips of a place of the table, occupied or not, and of all nine.
Chips(f, i) == IF i \in DOMAIN f THEN f[i] ELSE 0

NinePlaces(f) ==
  Chips(f, 0) + Chips(f, 1) + Chips(f, 2) + Chips(f, 3) + Chips(f, 4)
    + Chips(f, 5) + Chips(f, 6) + Chips(f, 7) + Chips(f, 8)

\* The sum over the seats is the sum of the nine places.
LEMMA ChipSumIs ==
  ASSUME NEW f, \A i \in DOMAIN f : f[i] \in Int
  PROVE  ChipSum(f) = NinePlaces(f)
<1> DEFINE Sum == CHOOSE g : g = [n \in 0 .. 9 |->
                    IF n = 0 THEN 0 ELSE g[n - 1] + (IF n - 1 \in DOMAIN f THEN f[n - 1] ELSE 0)]
           c(i) == Chips(f, i)
           w == [n \in 0 .. 9 |->
                   IF n = 0 THEN 0 ELSE IF n = 1 THEN c(0) ELSE IF n = 2 THEN c(0) + c(1)
                   ELSE IF n = 3 THEN c(0) + c(1) + c(2)
                   ELSE IF n = 4 THEN c(0) + c(1) + c(2) + c(3)
                   ELSE IF n = 5 THEN c(0) + c(1) + c(2) + c(3) + c(4)
                   ELSE IF n = 6 THEN c(0) + c(1) + c(2) + c(3) + c(4) + c(5)
                   ELSE IF n = 7 THEN c(0) + c(1) + c(2) + c(3) + c(4) + c(5) + c(6)
                   ELSE IF n = 8 THEN c(0) + c(1) + c(2) + c(3) + c(4) + c(5) + c(6) + c(7)
                   ELSE NinePlaces(f)]
<1>1. ChipSum(f) = Sum[9]
  BY DEF ChipSum
<1>2. \A i \in 0 .. 8 : c(i) \in Int
  BY DEF Chips
<1>3. w = [n \in 0 .. 9 |->
             IF n = 0 THEN 0 ELSE w[n - 1] + (IF n - 1 \in DOMAIN f THEN f[n - 1] ELSE 0)]
  <2> HIDE DEF c
  <2>1. \A n \in 0 .. 9 : n = 0 \/ (n - 1 \in 0 .. 9 /\ w[n] = w[n - 1] + c(n - 1))
    <3> SUFFICES ASSUME NEW n \in 0 .. 9
                 PROVE  n = 0 \/ (n - 1 \in 0 .. 9 /\ w[n] = w[n - 1] + c(n - 1))
      OBVIOUS
    <3> n = 0 \/ n = 1 \/ n = 2 \/ n = 3 \/ n = 4 \/ n = 5 \/ n = 6 \/ n = 7 \/ n = 8 \/ n = 9
      OBVIOUS
    <3> QED BY <1>2 DEF NinePlaces, c
  <2> QED BY <2>1 DEF c, Chips
<1>4. Sum = [n \in 0 .. 9 |->
               IF n = 0 THEN 0 ELSE Sum[n - 1] + (IF n - 1 \in DOMAIN f THEN f[n - 1] ELSE 0)]
  <2> HIDE DEF w
  <2> QED BY <1>3
<1>5. \A n \in 0 .. 9 : Sum[n] = IF n = 0 THEN 0 ELSE Sum[n - 1] + c(n - 1)
  <2> HIDE DEF Sum
  <2> QED BY <1>4 DEF Chips
<1> HIDE DEF Sum, c
<1> QED
  <2>1. Sum[0] = 0 /\ Sum[1] = Sum[0] + c(0) /\ Sum[2] = Sum[1] + c(1) /\ Sum[3] = Sum[2] + c(2)
    BY <1>5
  <2>2. Sum[4] = Sum[3] + c(3) /\ Sum[5] = Sum[4] + c(4) /\ Sum[6] = Sum[5] + c(5)
    BY <1>5
  <2>3. Sum[7] = Sum[6] + c(6) /\ Sum[8] = Sum[7] + c(7) /\ Sum[9] = Sum[8] + c(8)
    BY <1>5
  <2> QED BY <1>1, <1>2, <2>1, <2>2, <2>3 DEF NinePlaces, c

-----------------------------------------------------------------------------
(* Sums over a finite set, as MapThenSumSet computes them.                 *)

\* A set of numbers that holds 0 and every successor holds them all.
LEMMA EveryNumber ==
  ASSUME NEW P \in SUBSET Nat, 0 \in P, \A n \in P : n + 1 \in P
  PROVE  P = Nat
<1> SUFFICES ASSUME Nat \ P # {} PROVE FALSE
  OBVIOUS
<1>1. PICK m \in Nat \ P : \A k \in Nat \ P : ~(<<k, m>> \in OpToRel(<, Nat))
  BY NatLessThanWellFounded, WFMin
<1>2. \A k \in Nat \ P : ~(k < m)
  BY <1>1 DEF OpToRel
<1>3. m - 1 \in Nat /\ m - 1 < m
  OBVIOUS
<1>4. m - 1 \in P
  BY <1>2, <1>3
<1> QED BY <1>4

Chosen(s) == CHOOSE x \in s : TRUE

\* g sums h up, choosing one element after the other.
SumsUp(g, h, S) ==
  g = [s \in SUBSET S |-> IF s = {} THEN 0 ELSE h[Chosen(s)] + g[s \ {Chosen(s)}]]

\* One sum for each of the nine places.
SumsOfPlaces(g, a, S) ==
  \A i \in 0 .. 8 : SumsUp(g[i], a[i], S) /\ \A x \in S : a[i][x] \in Nat

\* Every function on a finite set can be summed up.
LEMMA SumExists ==
  ASSUME NEW S, IsFiniteSet(S), NEW h
  PROVE  \E g : SumsUp(g, h, S)
<1> DEFINE Small(n) == {s \in SUBSET S : Cardinality(s) <= n}
           Sums(g, n) == g = [s \in Small(n) |->
                                IF s = {} THEN 0 ELSE h[Chosen(s)] + g[s \ {Chosen(s)}]]
           P == {n \in Nat : \E g : Sums(g, n)}
<1>1. \A s \in SUBSET S : /\ Cardinality(s) \in Nat
                          /\ Cardinality(s) = 0 <=> s = {}
                          /\ s # {} => /\ Chosen(s) \in s
                                       /\ s \ {Chosen(s)} \in SUBSET S
                                       /\ Cardinality(s \ {Chosen(s)}) = Cardinality(s) - 1
  <2> SUFFICES ASSUME NEW s \in SUBSET S
               PROVE  /\ Cardinality(s) \in Nat
                      /\ Cardinality(s) = 0 <=> s = {}
                      /\ s # {} => /\ Chosen(s) \in s
                                   /\ s \ {Chosen(s)} \in SUBSET S
                                   /\ Cardinality(s \ {Chosen(s)}) = Cardinality(s) - 1
    OBVIOUS
  <2>1. IsFiniteSet(s) /\ Cardinality(s) \in Nat
    BY FS_Subset, FS_CardinalityType
  <2>2. Cardinality(s) = 0 <=> s = {}
    BY <2>1, FS_EmptySet
  <2>3. s # {} => Chosen(s) \in s
    BY DEF Chosen
  <2>4. s # {} => Cardinality(s \ {Chosen(s)}) = Cardinality(s) - 1
    BY <2>1, <2>3, FS_RemoveElement
  <2> QED BY <2>1, <2>2, <2>3, <2>4
<1>2. 0 \in P
  <2>1. \A s : s \in Small(0) <=> s = {}
    <3>1. \A s \in SUBSET S : Cardinality(s) <= 0 <=> s = {}
      <4>1. \A s \in SUBSET S : Cardinality(s) \in Nat
        BY <1>1
      <4>2. \A s \in SUBSET S : Cardinality(s) = 0 <=> s = {}
        BY <1>1
      <4>3. \A s \in SUBSET S : Cardinality(s) <= 0 <=> Cardinality(s) = 0
        BY <4>1
      <4> QED BY <4>2, <4>3
    <3> QED BY <3>1
  <2> DEFINE g == [s \in Small(0) |-> 0]
  <2>2. \A s \in Small(0) : s = {}
    BY <2>1
  <2>3. g = [s \in Small(0) |-> IF s = {} THEN 0 ELSE h[Chosen(s)] + g[s \ {Chosen(s)}]]
    <3> HIDE DEF Small
    <3> QED BY <2>2
  <2> HIDE DEF Small, g
  <2> QED BY <2>3
<1>3. \A n \in P : n + 1 \in P
  <2> SUFFICES ASSUME NEW n \in Nat, NEW g, Sums(g, n)
               PROVE  \E f : Sums(f, n + 1)
    <3> HIDE DEF Sums
    <3> QED OBVIOUS
  <2> DEFINE f == [s \in Small(n + 1) |->
                     IF s = {} THEN 0 ELSE h[Chosen(s)] + g[s \ {Chosen(s)}]]
  <2>1. \A s \in Small(n) : s \in Small(n + 1) /\ f[s] = g[s]
    <3>1. \A s \in Small(n) : s \in Small(n + 1)
      <4>1. \A s \in SUBSET S : Cardinality(s) \in Nat
        BY <1>1
      <4> QED BY <4>1
    <3> HIDE DEF Small
    <3> QED BY <3>1
  <2>2. \A s \in Small(n + 1) : s # {} => s \ {Chosen(s)} \in Small(n)
    BY <1>1
  <2>3. f = [s \in Small(n + 1) |-> IF s = {} THEN 0 ELSE h[Chosen(s)] + f[s \ {Chosen(s)}]]
    <3> HIDE DEF Small
    <3> QED BY <2>1, <2>2
  <2> HIDE DEF Small, f
  <2> QED BY <2>3
<1>4. P = Nat
  <2> HIDE DEF P
  <2>1. P \in SUBSET Nat
    BY DEF P
  <2> QED BY <1>2, <1>3, <2>1, EveryNumber
<1>5. Cardinality(S) \in Nat
  BY FS_CardinalityType
<1>6. Small(Cardinality(S)) = SUBSET S
  BY FS_Subset
<1>7. PICK g : Sums(g, Cardinality(S))
  BY <1>4, <1>5
<1> QED BY <1>6, <1>7 DEF SumsUp

\* Sums of numbers are numbers, and sums of sums are the sum of the sums:
\* what each of the nine places gets adds up to what all of them get.
LEMMA SumOfSums ==
  ASSUME NEW S, IsFiniteSet(S), NEW a, NEW b, NEW g, NEW k,
         SumsOfPlaces(g, a, S), SumsUp(k, b, S),
         \A x \in S : b[x] = a[0][x] + a[1][x] + a[2][x] + a[3][x] + a[4][x]
                               + a[5][x] + a[6][x] + a[7][x] + a[8][x]
  PROVE  /\ \A i \in 0 .. 8 : g[i][S] \in Nat
         /\ k[S] = g[0][S] + g[1][S] + g[2][S] + g[3][S] + g[4][S]
                     + g[5][S] + g[6][S] + g[7][S] + g[8][S]
<1> DEFINE Nine(s) == g[0][s] + g[1][s] + g[2][s] + g[3][s] + g[4][s]
                        + g[5][s] + g[6][s] + g[7][s] + g[8][s]
           Good(s) == (\A i \in 0 .. 8 : g[i][s] \in Nat) /\ k[s] = Nine(s)
           P == {n \in Nat : \A s \in SUBSET S : Cardinality(s) = n => Good(s)}
<1>0. /\ \A i \in 0 .. 8 : SumsUp(g[i], a[i], S)
      /\ \A i \in 0 .. 8 : \A x \in S : a[i][x] \in Nat
  BY DEF SumsOfPlaces
<1>1. \A s \in SUBSET S : IsFiniteSet(s) /\ Cardinality(s) \in Nat
  BY FS_Subset, FS_CardinalityType
<1>2. \A i \in 0 .. 8 : g[i][{}] = 0
  BY <1>0 DEF SumsUp
<1>3. \A s \in SUBSET S : s # {} =>
        \A i \in 0 .. 8 : g[i][s] = a[i][Chosen(s)] + g[i][s \ {Chosen(s)}]
  <2> SUFFICES ASSUME NEW s \in SUBSET S, s # {}, NEW i \in 0 .. 8
               PROVE  g[i][s] = a[i][Chosen(s)] + g[i][s \ {Chosen(s)}]
    OBVIOUS
  <2>1. g[i] = [t \in SUBSET S |-> IF t = {} THEN 0 ELSE a[i][Chosen(t)] + g[i][t \ {Chosen(t)}]]
    BY <1>0 DEF SumsUp
  <2> QED BY <2>1
<1>4. /\ k[{}] = 0
      /\ \A s \in SUBSET S : s # {} => k[s] = b[Chosen(s)] + k[s \ {Chosen(s)}]
  BY DEF SumsUp
<1>5. 0 \in P
  <2>1. \A s \in SUBSET S : Cardinality(s) = 0 => s = {}
    BY <1>1, FS_EmptySet
  <2>2. Good({})
    BY <1>2, <1>4
  <2> HIDE DEF Good
  <2> QED BY <2>1, <2>2
<1>6. \A n \in P : n + 1 \in P
  <2> SUFFICES ASSUME NEW n \in Nat, \A t \in SUBSET S : Cardinality(t) = n => Good(t),
                      NEW s \in SUBSET S, Cardinality(s) = n + 1
               PROVE  Good(s)
    <3> HIDE DEF Good
    <3> QED OBVIOUS
  <2> DEFINE c == Chosen(s)
             r == s \ {c}
  <2>1. s # {}
    <3>1. s = {} => Cardinality(s) = 0
      BY FS_EmptySet
    <3>2. n + 1 # 0
      OBVIOUS
    <3> QED BY <3>1, <3>2
  <2>2. c \in s
    BY <2>1 DEF Chosen
  <2>3. Cardinality(r) = n
    <3>1. IsFiniteSet(s)
      BY <1>1
    <3> HIDE DEF c
    <3>2. Cardinality(s \ {c}) = Cardinality(s) - 1
      BY <2>2, <3>1, FS_RemoveElement
    <3>3. n + 1 - 1 = n
      OBVIOUS
    <3> QED BY <3>2, <3>3
  <2>4. Good(r)
    <3> r \in SUBSET S
      OBVIOUS
    <3> HIDE DEF Good, r
    <3> QED BY <2>3
  <2>5. \A i \in 0 .. 8 : g[i][s] = a[i][c] + g[i][r] /\ a[i][c] \in Nat /\ g[i][r] \in Nat
    BY <1>0, <1>3, <2>1, <2>2, <2>4
  <2>6. k[s] = b[c] + k[r]
    BY <1>4, <2>1
  <2>7. b[c] = a[0][c] + a[1][c] + a[2][c] + a[3][c] + a[4][c]
                 + a[5][c] + a[6][c] + a[7][c] + a[8][c]
    BY <2>2
  <2>8. k[r] = Nine(r)
    BY <2>4
  <2> HIDE DEF c, r
  <2>9. \A i \in 0 .. 8 : g[i][s] \in Nat
    BY <2>5
  <2>10. k[s] = Nine(s)
    BY <2>5, <2>6, <2>7, <2>8
  <2> QED BY <2>9, <2>10
<1>7. P = Nat
  <2> HIDE DEF P
  <2>1. P \in SUBSET Nat
    BY DEF P
  <2> QED BY <1>5, <1>6, <2>1, EveryNumber
<1>8. Good(S)
  <2> HIDE DEF Good
  <2> QED BY <1>1, <1>7
<1> QED BY <1>8

-----------------------------------------------------------------------------
(* Counting seats.                                                         *)

LEMMA Intervals ==
  \A n \in Nat : IsFiniteSet(0 .. n - 1) /\ Cardinality(0 .. n - 1) = n
<1> SUFFICES ASSUME NEW n \in Nat
             PROVE  IsFiniteSet(0 .. n - 1) /\ Cardinality(0 .. n - 1) = n
  OBVIOUS
<1> DEFINE m == n - 1
<1>1. 0 \in Int /\ m \in Int /\ (0 > m <=> n = 0) /\ m - 0 + 1 = n
  OBVIOUS
<1> HIDE DEF m
<1>2. IsFiniteSet(0 .. m) /\ Cardinality(0 .. m) = IF 0 > m THEN 0 ELSE m - 0 + 1
  BY <1>1, FS_Interval
<1>3. Cardinality(0 .. m) = n
  BY <1>1, <1>2
<1> QED BY <1>2, <1>3 DEF m

LEMMA NinePlacesFinite == IsFiniteSet(0 .. 8) /\ Cardinality(0 .. 8) = 9
<1>1. 9 \in Nat /\ 9 - 1 = 8
  OBVIOUS
<1>2. IsFiniteSet(0 .. 9 - 1) /\ Cardinality(0 .. 9 - 1) = 9
  BY <1>1, Intervals
<1> QED BY <1>1, <1>2

LEMMA SeatsFinite ==
  /\ IsFiniteSet(Seats) /\ \A s \in Seats : s \in 0 .. 8
  /\ \A S \in SUBSET Seats : IsFiniteSet(S) /\ Cardinality(S) \in 0 .. 9
<1>1. IsFiniteSet(0 .. 8) /\ Cardinality(0 .. 8) = 9
  BY NinePlacesFinite
<1>2. \A S \in SUBSET (0 .. 8) : IsFiniteSet(S) /\ Cardinality(S) \in Nat /\ Cardinality(S) <= 9
  <2> SUFFICES ASSUME NEW S \in SUBSET (0 .. 8)
               PROVE  IsFiniteSet(S) /\ Cardinality(S) \in Nat /\ Cardinality(S) <= 9
    OBVIOUS
  <2>1. IsFiniteSet(S) /\ Cardinality(S) <= Cardinality(0 .. 8)
    BY <1>1, FS_Subset
  <2>2. Cardinality(S) \in Nat
    BY <2>1, FS_CardinalityType
  <2> QED BY <1>1, <2>1, <2>2
<1>3. Seats \subseteq 0 .. 8
  BY SeatsAssumption
<1> QED BY <1>2, <1>3

Shares(E, q, i) == IF i \in E THEN q ELSE 0

\* A share for each of some places is as many shares as there are places.
LEMMA SharesAdd ==
  ASSUME NEW E \in SUBSET (0 .. 8), NEW q \in Nat
  PROVE  /\ Cardinality(E) \in Nat
         /\ Shares(E, q, 0) + Shares(E, q, 1) + Shares(E, q, 2) + Shares(E, q, 3)
              + Shares(E, q, 4) + Shares(E, q, 5) + Shares(E, q, 6) + Shares(E, q, 7)
              + Shares(E, q, 8) = q * Cardinality(E)
<1> DEFINE Below(n) == {e \in E : e < n}
           C(n) == Cardinality(Below(n))
           x(i) == Shares(E, q, i)
<1>0. \A e \in E : e \in 0 .. 8 /\ e \in Int
  OBVIOUS
<1>1. \A n \in 0 .. 9 : IsFiniteSet(Below(n)) /\ C(n) \in Nat
  <2> SUFFICES ASSUME NEW n \in 0 .. 9 PROVE IsFiniteSet(Below(n)) /\ C(n) \in Nat
    OBVIOUS
  <2>1. IsFiniteSet(0 .. 8)
    BY NinePlacesFinite
  <2>2. Below(n) \in SUBSET (0 .. 8)
    OBVIOUS
  <2> HIDE DEF Below
  <2> QED BY <2>1, <2>2, FS_Subset, FS_CardinalityType
<1>2. C(0) = 0
  <2>1. Below(0) = {}
    <3>1. \A e \in E : ~(e < 0)
      BY <1>0
    <3> QED BY <3>1
  <2> QED BY <2>1, FS_EmptySet
<1>3. \A n \in 0 .. 8 : C(n + 1) = C(n) + Shares(E, 1, n) /\ C(n + 1) \in Nat /\ C(n) \in Nat
  <2> SUFFICES ASSUME NEW n \in 0 .. 8
               PROVE  C(n + 1) = C(n) + Shares(E, 1, n) /\ C(n + 1) \in Nat /\ C(n) \in Nat
    OBVIOUS
  <2>0. n + 1 \in 0 .. 9 /\ n \in 0 .. 9
    OBVIOUS
  <2>1. CASE n \in E
    <3>1. Below(n + 1) = Below(n) \cup {n} /\ n \notin Below(n)
      <4>1. \A e \in E : e < n + 1 <=> e < n \/ e = n
        BY <1>0
      <4>2. ~(n < n)
        OBVIOUS
      <4> QED BY <2>1, <4>1, <4>2
    <3>2. IsFiniteSet(Below(n)) /\ C(n) \in Nat /\ C(n + 1) \in Nat
      BY <1>1, <2>0
    <3> HIDE DEF Below
    <3>3. Cardinality(Below(n) \cup {n}) = Cardinality(Below(n)) + 1
      BY <3>1, <3>2, FS_AddElement
    <3> QED BY <2>1, <3>1, <3>2, <3>3 DEF Shares
  <2>2. CASE n \notin E
    <3>1. Below(n + 1) = Below(n)
      <4>1. \A e \in E : e < n + 1 <=> e < n \/ e = n
        BY <1>0
      <4> QED BY <2>2, <4>1
    <3>2. C(n) \in Nat
      BY <1>1, <2>0
    <3> HIDE DEF Below
    <3> QED BY <2>2, <3>1, <3>2 DEF Shares
  <2> QED BY <2>1, <2>2
<1>4. \A n \in 0 .. 8 : q * C(n + 1) = q * C(n) + x(n) /\ q * C(n) \in Nat /\ x(n) \in Nat
  <2> SUFFICES ASSUME NEW n \in 0 .. 8
               PROVE  q * C(n + 1) = q * C(n) + x(n) /\ q * C(n) \in Nat /\ x(n) \in Nat
    OBVIOUS
  <2>1. C(n) \in Nat /\ C(n + 1) = C(n) + Shares(E, 1, n)
    BY <1>3
  <2> HIDE DEF C
  <2>2. CASE n \in E
    BY <2>1, <2>2 DEF Shares
  <2>3. CASE n \notin E
    BY <2>1, <2>3 DEF Shares
  <2> QED BY <2>2, <2>3
<1>5. Below(9) = E
  <2>1. \A e \in E : e < 9
    BY <1>0
  <2> QED BY <2>1
<1>6. q * C(0) = 0
  BY <1>2
<1> DEFINE y(n) == q * C(n)
<1>7. \A n \in 0 .. 8 : y(n + 1) = y(n) + x(n) /\ y(n) \in Nat /\ x(n) \in Nat
  BY <1>4
<1>8. y(0) = 0 /\ y(9) = q * Cardinality(E) /\ Cardinality(E) \in Nat
  <2>1. C(9) = Cardinality(E)
    BY <1>5
  <2>2. C(9) \in Nat
    BY <1>1
  <2> HIDE DEF C
  <2> QED BY <1>6, <2>1, <2>2
<1> HIDE DEF y, x
<1>9. /\ y(1) = y(0) + x(0) /\ y(2) = y(1) + x(1) /\ y(3) = y(2) + x(2)
      /\ y(4) = y(3) + x(3) /\ y(5) = y(4) + x(4) /\ y(6) = y(5) + x(5)
      /\ y(7) = y(6) + x(6) /\ y(8) = y(7) + x(7) /\ y(9) = y(8) + x(8)
  <2>1. \A n \in 0 .. 8 : y(n + 1) = y(n) + x(n)
    BY <1>7
  <2> QED BY <2>1
<1>10. y(9) = x(0) + x(1) + x(2) + x(3) + x(4) + x(5) + x(6) + x(7) + x(8)
  <2>1. /\ x(0) \in Nat /\ x(1) \in Nat /\ x(2) \in Nat /\ x(3) \in Nat /\ x(4) \in Nat
        /\ x(5) \in Nat /\ x(6) \in Nat /\ x(7) \in Nat /\ x(8) \in Nat
    BY <1>7
  <2> QED BY <1>8, <1>9, <2>1
<1> QED BY <1>8, <1>10 DEF x

\* Of the winners of a layer exactly as many sit early enough for an odd
\* chip as there are odd chips: no two have the same number of winners
\* between the button and themselves.
LEMMA EarlyWinners ==
  ASSUME NEW W \in SUBSET Seats, NEW button \in Seats, NEW r \in Nat, r <= Cardinality(W)
  PROVE  Cardinality({s \in W : Cardinality({o \in W : Offset(button, o) < Offset(button, s)}) < r})
           = r
<1> DEFINE Before(s) == {o \in W : Offset(button, o) < Offset(button, s)}
           rank == [s \in W |-> Cardinality(Before(s))]
           n == Cardinality(W)
           E == {s \in W : rank[s] < r}
<1>1. IsFiniteSet(W) /\ n \in Nat
  BY SeatsFinite
<1>2. \A s, o \in Seats : /\ Offset(button, s) \in Nat
                          /\ Offset(button, s) = Offset(button, o) => s = o
  BY SeatsFinite DEF Offset
<1>3. \A s \in W : IsFiniteSet(Before(s)) /\ Cardinality(Before(s)) \in 0 .. n - 1
  <2> SUFFICES ASSUME NEW s \in W
               PROVE  IsFiniteSet(Before(s)) /\ Cardinality(Before(s)) \in 0 .. n - 1
    OBVIOUS
  <2>1. Before(s) \in SUBSET (W \ {s})
    BY <1>2
  <2>2. IsFiniteSet(W \ {s}) /\ Cardinality(W \ {s}) = n - 1
    BY <1>1, FS_RemoveElement
  <2> HIDE DEF Before, n
  <2>3. IsFiniteSet(Before(s)) /\ Cardinality(Before(s)) <= n - 1
    BY <2>1, <2>2, FS_Subset
  <2>4. Cardinality(Before(s)) \in Nat
    BY <2>3, FS_CardinalityType
  <2> QED BY <1>1, <2>3, <2>4
<1>4. \A s, o \in W : Offset(button, s) < Offset(button, o) => rank[s] < rank[o]
  <2> SUFFICES ASSUME NEW s \in W, NEW o \in W, Offset(button, s) < Offset(button, o)
               PROVE  Cardinality(Before(s)) < Cardinality(Before(o))
    BY <1>3
  <2>1. Before(s) \in SUBSET Before(o) /\ s \in Before(o) /\ s \notin Before(s)
    BY <1>2
  <2>2. /\ IsFiniteSet(Before(o))
        /\ Cardinality(Before(o)) \in Nat /\ Cardinality(Before(s)) \in Nat
    <3>1. IsFiniteSet(Before(o))
      BY <1>3
    <3>2. Cardinality(Before(o)) \in 0 .. n - 1 /\ Cardinality(Before(s)) \in 0 .. n - 1
      BY <1>3
    <3> HIDE DEF Before, n
    <3> QED BY <3>1, <3>2
  <2> HIDE DEF Before
  <2>3. Cardinality(Before(s)) <= Cardinality(Before(o))
    BY <2>1, <2>2, FS_Subset
  <2>4. Cardinality(Before(s)) # Cardinality(Before(o))
    BY <2>1, <2>2, FS_Subset
  <2> QED BY <2>2, <2>3, <2>4
<1>5. rank \in Injection(W, 0 .. n - 1)
  <2>1. rank \in [W -> 0 .. n - 1]
    BY <1>3
  <2>2. \A s, o \in W : rank[s] = rank[o] => s = o
    <3> SUFFICES ASSUME NEW s \in W, NEW o \in W, rank[s] = rank[o]
                 PROVE  s = o
      OBVIOUS
    <3>1. rank[s] \in Nat /\ Offset(button, s) \in Nat /\ Offset(button, o) \in Nat
      BY <1>2, <2>1
    <3>2. ~(Offset(button, s) < Offset(button, o)) /\ ~(Offset(button, o) < Offset(button, s))
      <4> HIDE DEF rank
      <4> QED BY <1>4, <3>1
    <3>3. Offset(button, s) = Offset(button, o)
      BY <3>1, <3>2
    <3> QED BY <1>2, <3>3
  <2> HIDE DEF rank, n
  <2> QED BY <2>1, <2>2 DEF Injection, IsInjective
<1>6. rank \in Surjection(W, 0 .. n - 1)
  <2>1. IsFiniteSet(0 .. n - 1) /\ Cardinality(0 .. n - 1) = n
    BY <1>1, Intervals
  <2> HIDE DEF rank, n
  <2> QED BY <1>5, <2>1, FS_Injection DEF n
<1> HIDE DEF rank
<1>7. [s \in E |-> rank[s]] \in Bijection(E, 0 .. r - 1)
  <2>1. \A s \in E : rank[s] \in 0 .. r - 1
    BY <1>5 DEF Injection
  <2>2. \A s, o \in E : rank[s] = rank[o] => s = o
    BY <1>5 DEF Injection, IsInjective
  <2>3. \A k \in 0 .. r - 1 : \E s \in E : rank[s] = k
    <3> SUFFICES ASSUME NEW k \in 0 .. r - 1 PROVE \E s \in E : rank[s] = k
      OBVIOUS
    <3>1. k \in 0 .. n - 1
      BY <1>1
    <3>2. PICK s \in W : rank[s] = k
      BY <1>6, <3>1 DEF Surjection
    <3> QED BY <3>2
  <2> HIDE DEF E
  <2> QED BY <2>1, <2>2, <2>3 DEF Bijection, Injection, Surjection, IsInjective
<1>8. IsFiniteSet(E) /\ IsFiniteSet(0 .. r - 1) /\ Cardinality(0 .. r - 1) = r
  <2>1. E \in SUBSET Seats
    OBVIOUS
  <2> HIDE DEF E
  <2> QED BY <2>1, SeatsFinite, Intervals
<1>9. Cardinality(E) = r
  <2> HIDE DEF E
  <2> QED BY <1>7, <1>8, FS_Bijection DEF ExistsBijection
<1> QED BY <1>9 DEF rank

-----------------------------------------------------------------------------
(* What is awarded of the pot.                                             *)

LEMMA LeastNumber ==
  ASSUME NEW T \in SUBSET Nat, T # {}
  PROVE  \E m \in T : \A k \in T : m <= k
<1>1. PICK m \in T : \A k \in T : ~(<<k, m>> \in OpToRel(<, Nat))
  BY NatLessThanWellFounded, WFMin
<1>2. \A k \in T : ~(k < m)
  BY <1>1 DEF OpToRel
<1> QED BY <1>2

\* Of the hands shown one is the best.
LEMMA BestHand ==
  ASSUME NEW S, S # {}, NEW f, NEW n \in Nat, \A s \in S : f[s] \in 1 .. n
  PROVE  \E s \in S : \A o \in S : f[o] <= f[s]
<1> DEFINE T == {n - f[s] : s \in S}
<1>1. T \in SUBSET Nat /\ T # {}
  OBVIOUS
<1>2. PICK m \in T : \A k \in T : m <= k
  <2> HIDE DEF T
  <2> QED BY <1>1, LeastNumber
<1>3. PICK s \in S : m = n - f[s]
  OBVIOUS
<1>4. \A o \in S : n - f[s] <= n - f[o]
  BY <1>2, <1>3
<1> QED BY <1>4

LEMMA WinnersExist ==
  ASSUME NEW S \in SUBSET Seats, S # {}, NEW strength,
         \A s \in S : strength[s] \in 1 .. HandClasses
  PROVE  Winners(S, strength) \in SUBSET S /\ Winners(S, strength) # {}
<1>1. \E s \in S : \A o \in S : strength[o] <= strength[s]
  BY BestHand, HandClassesAssumption
<1> QED BY <1>1 DEF Winners

\* The award of a place of the table, occupied or not.
AwardOf(layer, strength, button, i) ==
  IF i \in Seats THEN Award(layer, strength, button, i) ELSE 0

\* What the seats get from a layer is the layer, odd chips included.
LEMMA LayerIsAwarded ==
  ASSUME NEW layer, NEW strength, NEW button \in Seats,
         layer.amount \in Nat, Winners(layer.eligible, strength) \in SUBSET Seats,
         Winners(layer.eligible, strength) # {}
  PROVE  LET a(i) == AwardOf(layer, strength, button, i)
         IN  /\ \A i \in 0 .. 8 : a(i) \in Nat
             /\ layer.amount = a(0) + a(1) + a(2) + a(3) + a(4) + a(5) + a(6) + a(7) + a(8)
<1> DEFINE a(i) == AwardOf(layer, strength, button, i)
           W == Winners(layer.eligible, strength)
           n == Cardinality(W)
           q == layer.amount \div n
           r == layer.amount % n
           E == {s \in W : Cardinality({o \in W : Offset(button, o) < Offset(button, s)}) < r}
           x(i) == Shares(W, q, i)
           y(i) == Shares(E, 1, i)
<1>1. W \in SUBSET Seats /\ IsFiniteSet(W) /\ n \in 1 .. 9
  <2>1. IsFiniteSet(W) /\ n \in 0 .. 9
    BY SeatsFinite
  <2>2. n # 0
    BY <2>1, FS_EmptySet
  <2> QED BY <2>1, <2>2
<1>2. q \in Nat /\ r \in Nat /\ r < n /\ layer.amount = q * n + r
  <2> HIDE DEF n
  <2>1. n = 1 \/ n = 2 \/ n = 3 \/ n = 4 \/ n = 5 \/ n = 6 \/ n = 7 \/ n = 8 \/ n = 9
    BY <1>1
  <2> DEFINE amount == layer.amount
  <2>2. amount \in Nat
    OBVIOUS
  <2> HIDE DEF amount
  <2>3. amount \div n \in Nat /\ amount % n \in Nat /\ amount % n < n
          /\ amount = (amount \div n) * n + (amount % n)
    BY <2>1, <2>2
  <2> QED BY <2>3 DEF amount
<1>3. E \in SUBSET Seats /\ Cardinality(E) = r
  <2>1. r <= Cardinality(W)
    BY <1>1, <1>2
  <2> HIDE DEF W, r
  <2> QED BY <1>1, <1>2, <2>1, EarlyWinners
<1>4. W \in SUBSET (0 .. 8) /\ E \in SUBSET (0 .. 8)
  BY <1>1, SeatsFinite
<1>5. x(0) + x(1) + x(2) + x(3) + x(4) + x(5) + x(6) + x(7) + x(8) = q * n
  <2> HIDE DEF W, q
  <2> QED BY <1>2, <1>4, SharesAdd
<1>6. y(0) + y(1) + y(2) + y(3) + y(4) + y(5) + y(6) + y(7) + y(8) = r
  <2>1. 1 \in Nat /\ 1 * r = r
    BY <1>2
  <2> HIDE DEF W, r, E
  <2> QED BY <1>2, <1>3, <1>4, <2>1, SharesAdd
<1>7. \A i \in 0 .. 8 : a(i) = x(i) + y(i) /\ x(i) \in Nat /\ y(i) \in Nat
  <2> SUFFICES ASSUME NEW i \in 0 .. 8
               PROVE  a(i) = x(i) + y(i) /\ x(i) \in Nat /\ y(i) \in Nat
    OBVIOUS
  <2> HIDE DEF W, q, r
  <2>1. CASE i \in W
    <3>1. x(i) = q /\ y(i) \in Nat /\ i \in Seats
      BY <1>1, <1>2, <2>1 DEF Shares
    <3>2. Award(layer, strength, button, i) = q + y(i)
      BY <2>1 DEF Award, Shares, W, q, r
    <3> QED BY <1>2, <3>1, <3>2 DEF AwardOf
  <2>2. CASE i \notin W
    <3>1. x(i) = 0 /\ y(i) = 0
      BY <2>2 DEF Shares
    <3>2. a(i) = 0
      BY <2>2 DEF AwardOf, Award, W
    <3> QED BY <3>1, <3>2
  <2> QED BY <2>1, <2>2
<1> HIDE DEF a, x, y, q, n, r
<1>8. q * n \in Nat /\ layer.amount = q * n + r
  BY <1>1, <1>2
<1>9. \A i \in 0 .. 8 : a(i) \in Nat
  BY <1>7
<1>10. layer.amount = a(0) + a(1) + a(2) + a(3) + a(4) + a(5) + a(6) + a(7) + a(8)
  <2>1. /\ a(0) = x(0) + y(0) /\ a(1) = x(1) + y(1) /\ a(2) = x(2) + y(2) /\ a(3) = x(3) + y(3)
        /\ a(4) = x(4) + y(4) /\ a(5) = x(5) + y(5) /\ a(6) = x(6) + y(6) /\ a(7) = x(7) + y(7)
        /\ a(8) = x(8) + y(8)
    BY <1>7
  <2>2. /\ x(0) \in Nat /\ x(1) \in Nat /\ x(2) \in Nat /\ x(3) \in Nat /\ x(4) \in Nat
        /\ x(5) \in Nat /\ x(6) \in Nat /\ x(7) \in Nat /\ x(8) \in Nat
    BY <1>7
  <2>3. /\ y(0) \in Nat /\ y(1) \in Nat /\ y(2) \in Nat /\ y(3) \in Nat /\ y(4) \in Nat
        /\ y(5) \in Nat /\ y(6) \in Nat /\ y(7) \in Nat /\ y(8) \in Nat
    BY <1>7
  <2> QED BY <1>5, <1>6, <1>8, <2>1, <2>2, <2>3
<1> QED BY <1>9, <1>10 DEF a

-----------------------------------------------------------------------------
(* Sums of chips.                                                          *)

LEMMA ChipsAdd ==
  ASSUME NEW f \in [Seats -> Int], NEW g \in [Seats -> Int]
  PROVE  /\ ChipSum(f) \in Int /\ ChipSum(f) = NinePlaces(f)
         /\ ChipSum([s \in Seats |-> f[s] + g[s]]) = ChipSum(f) + ChipSum(g)
<1> DEFINE h == [s \in Seats |-> f[s] + g[s]]
<1>1. /\ ChipSum(f) = NinePlaces(f) /\ ChipSum(g) = NinePlaces(g) /\ ChipSum(h) = NinePlaces(h)
  <2>1. /\ \A i \in DOMAIN f : f[i] \in Int
        /\ \A i \in DOMAIN g : g[i] \in Int
        /\ \A i \in DOMAIN h : h[i] \in Int
    OBVIOUS
  <2> HIDE DEF h
  <2> QED BY <2>1, ChipSumIs
<1>2. \A i \in 0 .. 8 : /\ Chips(f, i) \in Int /\ Chips(g, i) \in Int
                        /\ Chips(h, i) = Chips(f, i) + Chips(g, i)
  BY DEF Chips
<1> HIDE DEF h
<1> DEFINE a(i) == Chips(f, i)
           b(i) == Chips(g, i)
           c(i) == Chips(h, i)
<1>3. /\ a(0) \in Int /\ a(1) \in Int /\ a(2) \in Int /\ a(3) \in Int /\ a(4) \in Int
      /\ a(5) \in Int /\ a(6) \in Int /\ a(7) \in Int /\ a(8) \in Int
  BY <1>2
<1>4. /\ b(0) \in Int /\ b(1) \in Int /\ b(2) \in Int /\ b(3) \in Int /\ b(4) \in Int
      /\ b(5) \in Int /\ b(6) \in Int /\ b(7) \in Int /\ b(8) \in Int
  BY <1>2
<1>5. /\ c(0) = a(0) + b(0) /\ c(1) = a(1) + b(1) /\ c(2) = a(2) + b(2) /\ c(3) = a(3) + b(3)
      /\ c(4) = a(4) + b(4) /\ c(5) = a(5) + b(5) /\ c(6) = a(6) + b(6) /\ c(7) = a(7) + b(7)
      /\ c(8) = a(8) + b(8)
  BY <1>2
<1>6. /\ NinePlaces(f) = a(0) + a(1) + a(2) + a(3) + a(4) + a(5) + a(6) + a(7) + a(8)
      /\ NinePlaces(g) = b(0) + b(1) + b(2) + b(3) + b(4) + b(5) + b(6) + b(7) + b(8)
      /\ NinePlaces(h) = c(0) + c(1) + c(2) + c(3) + c(4) + c(5) + c(6) + c(7) + c(8)
  BY DEF NinePlaces
<1> HIDE DEF a, b, c
<1> QED BY <1>1, <1>3, <1>4, <1>5, <1>6 DEF h

LEMMA NoChips == ChipSum([s \in Seats |-> 0]) = 0
<1> DEFINE f == [s \in Seats |-> 0]
<1>1. \A i \in DOMAIN f : f[i] \in Int
  OBVIOUS
<1>2. \A i \in 0 .. 8 : Chips(f, i) = 0
  BY DEF Chips
<1> HIDE DEF f
<1>3. ChipSum(f) = NinePlaces(f)
  BY <1>1, ChipSumIs
<1> QED BY <1>2, <1>3 DEF NinePlaces, f

LEMMA ChipsOfOne ==
  ASSUME NEW s \in Seats, NEW n \in Int
  PROVE  ChipSum([o \in Seats |-> IF o = s THEN n ELSE 0]) = n
<1> DEFINE f == [o \in Seats |-> IF o = s THEN n ELSE 0]
<1>1. \A i \in DOMAIN f : f[i] \in Int
  OBVIOUS
<1>2. \A i \in 0 .. 8 : Chips(f, i) = IF i = s THEN n ELSE 0
  BY DEF Chips
<1> HIDE DEF f
<1>3. ChipSum(f) = NinePlaces(f)
  BY <1>1, ChipSumIs
<1>4. s \in 0 .. 8
  BY SeatsFinite
<1>5. s = 0 \/ s = 1 \/ s = 2 \/ s = 3 \/ s = 4 \/ s = 5 \/ s = 6 \/ s = 7 \/ s = 8
  BY <1>4
<1>6. NinePlaces(f) = n
  BY <1>2, <1>5 DEF NinePlaces
<1> QED BY <1>3, <1>6 DEF f

\* One seat gets n chips more, and so do all together.
LEMMA ChipsChange ==
  ASSUME NEW f \in [Seats -> Int], NEW g \in [Seats -> Int], NEW s \in Seats, NEW n \in Int,
         g[s] = f[s] + n, \A o \in Seats \ {s} : g[o] = f[o]
  PROVE  ChipSum(g) = ChipSum(f) + n
<1> DEFINE d == [o \in Seats |-> IF o = s THEN n ELSE 0]
<1>1. d \in [Seats -> Int]
  OBVIOUS
<1>2. ChipSum([o \in Seats |-> f[o] + d[o]]) = ChipSum(f) + ChipSum(d)
  <2> HIDE DEF d
  <2> QED BY <1>1, ChipsAdd
<1>3. [o \in Seats |-> f[o] + d[o]] = g
  OBVIOUS
<1>4. ChipSum(d) = n
  BY ChipsOfOne
<1> HIDE DEF d
<1> QED BY <1>2, <1>3, <1>4

LEMMA ChipsNat ==
  ASSUME NEW f \in [Seats -> Nat]
  PROVE  ChipSum(f) \in Nat /\ \A s \in Seats : f[s] <= ChipSum(f)
<1> DEFINE c(i) == Chips(f, i)
<1>1. ChipSum(f) = NinePlaces(f)
  <2>1. \A i \in DOMAIN f : f[i] \in Int
    OBVIOUS
  <2> QED BY <2>1, ChipSumIs
<1>2. \A i \in 0 .. 8 : c(i) \in Nat
  BY DEF Chips
<1>3. /\ c(0) \in Nat /\ c(1) \in Nat /\ c(2) \in Nat /\ c(3) \in Nat /\ c(4) \in Nat
      /\ c(5) \in Nat /\ c(6) \in Nat /\ c(7) \in Nat /\ c(8) \in Nat
  BY <1>2
<1>4. NinePlaces(f) = c(0) + c(1) + c(2) + c(3) + c(4) + c(5) + c(6) + c(7) + c(8)
  BY DEF NinePlaces
<1>5. \A s \in Seats : s \in 0 .. 8 /\ c(s) = f[s]
  BY SeatsFinite DEF Chips
<1> HIDE DEF c
<1>6. \A i \in 0 .. 8 : c(i) <= NinePlaces(f)
  <2> SUFFICES ASSUME NEW i \in 0 .. 8 PROVE c(i) <= NinePlaces(f)
    OBVIOUS
  <2>1. i = 0 \/ i = 1 \/ i = 2 \/ i = 3 \/ i = 4 \/ i = 5 \/ i = 6 \/ i = 7 \/ i = 8
    OBVIOUS
  <2> QED BY <1>3, <1>4, <2>1
<1> QED BY <1>1, <1>3, <1>4, <1>5, <1>6

-----------------------------------------------------------------------------
(* The pot of a hand that has ended is what its seats are paid.            *)

SeatRecords ==
  [status : Statuses, stack : Nat, streetContribution : Nat, totalContribution : Nat,
   betLevel : Nat \cup {NotActed}]

LEMMA Highest ==
  ASSUME NEW S \in SUBSET Nat, S # {}, NEW n \in Nat, \A k \in S : k <= n
  PROVE  Max(S) \in S /\ \A k \in S : k <= Max(S)
<1> DEFINE T == {n - k : k \in S}
<1>1. T \in SUBSET Nat /\ T # {}
  <2>1. \A k \in S : n - k \in Nat
    OBVIOUS
  <2> QED BY <2>1
<1>2. PICK m \in T : \A k \in T : m <= k
  <2> HIDE DEF T
  <2> QED BY <1>1, LeastNumber
<1>3. PICK x \in S : m = n - x
  OBVIOUS
<1>4. \A k \in S : n - x <= n - k
  BY <1>2, <1>3
<1>5. \A k \in S : x >= k
  BY <1>4
<1>6. Max(S) \in S /\ \A k \in S : Max(S) >= k
  BY <1>5 DEF Max
<1> QED BY <1>6

LEMMA LevelsFinite ==
  ASSUME NEW seats \in [Seats -> SeatRecords]
  PROVE  IsFiniteSet(Levels(seats)) /\ \A level \in Levels(seats) : level \in Nat /\ level > 0
<1> DEFINE T == {seats[s].totalContribution : s \in Seats}
           f == [s \in Seats |-> seats[s].totalContribution]
<1>1. f \in Surjection(Seats, T)
  BY DEF Surjection
<1>2. IsFiniteSet(T)
  <2> HIDE DEF f, T
  <2> QED BY <1>1, SeatsFinite, FS_Surjection
<1>3. Levels(seats) \in SUBSET T
  BY DEF Levels
<1>4. IsFiniteSet(Levels(seats))
  <2> HIDE DEF T
  <2> QED BY <1>2, <1>3, FS_Subset
<1>5. \A level \in Levels(seats) : level \in Nat /\ level > 0
  BY DEF Levels, SeatRecords
<1> QED BY <1>4, <1>5

\* A layer lies between two levels, and who contributed reached the upper.
LEMMA LayerBounds ==
  ASSUME NEW seats \in [Seats -> SeatRecords], NEW level \in Levels(seats)
  PROVE  /\ LowerLevel(seats, level) \in Nat /\ LowerLevel(seats, level) < level
         /\ Layer(seats, level).amount \in Nat
         /\ Layer(seats, level).eligible \in SUBSET Seats
         /\ Layer(seats, level).contributors \in SUBSET Seats
         /\ \A s \in Layer(seats, level).eligible : InHand(seats[s])
<1> DEFINE S == {0} \cup {l \in Levels(seats) : l < level}
           contributors == {s \in Seats : seats[s].totalContribution >= level}
<1>1. level \in Nat /\ level > 0 /\ \A l \in Levels(seats) : l \in Nat
  BY LevelsFinite
<1>2. S \in SUBSET Nat /\ S # {} /\ \A k \in S : k <= level /\ k < level
  <2>1. 0 \in Nat /\ 0 < level /\ 0 <= level
    BY <1>1
  <2>2. \A l \in Levels(seats) : l < level => l \in Nat /\ l <= level
    BY <1>1
  <2>3. \A k \in S : k \in Nat /\ k <= level /\ k < level
    BY <2>1, <2>2
  <2> QED BY <2>3
<1>3. Max(S) \in S
  <2> HIDE DEF S
  <2> QED BY <1>1, <1>2, Highest
<1>4. LowerLevel(seats, level) \in Nat /\ LowerLevel(seats, level) < level
  <2>1. LowerLevel(seats, level) = Max(S)
    BY DEF LowerLevel
  <2> HIDE DEF S
  <2> QED BY <1>2, <1>3, <2>1
<1>5. Cardinality(contributors) \in Nat
  BY SeatsFinite
<1>6. Layer(seats, level).amount = (level - LowerLevel(seats, level)) * Cardinality(contributors)
  BY DEF Layer
<1>7. Layer(seats, level).amount \in Nat
  <2> HIDE DEF contributors
  <2> QED BY <1>1, <1>4, <1>5, <1>6
<1> QED BY <1>4, <1>7 DEF Layer

\* The chips of a pot that can be cut into layers are awarded, all of them.
LEMMA PotIsAwarded ==
  ASSUME NEW seats \in [Seats -> SeatRecords], NEW pot, NEW button \in Seats,
         LayersValid(seats, pot), NEW strength,
         \A s \in Seats : InHand(seats[s]) => strength[s] \in 1 .. HandClasses
  PROVE  /\ \A s \in Seats : Awarded(seats, strength, button, s) \in Nat
         /\ ChipSum([s \in Seats |-> Awarded(seats, strength, button, s)]) = pot
<1> DEFINE S == Levels(seats)
           a == [i \in 0 .. 8 |-> [l \in S |-> AwardOf(Layer(seats, l), strength, button, i)]]
           b == [l \in S |-> Layer(seats, l).amount]
           won == [s \in Seats |-> Awarded(seats, strength, button, s)]
<1>1. IsFiniteSet(S)
  BY LevelsFinite
<1>2. \A l \in S :
        /\ \A i \in 0 .. 8 : a[i][l] \in Nat
        /\ b[l] = a[0][l] + a[1][l] + a[2][l] + a[3][l] + a[4][l]
                    + a[5][l] + a[6][l] + a[7][l] + a[8][l]
  <2> SUFFICES ASSUME NEW l \in S
               PROVE  /\ \A i \in 0 .. 8 : a[i][l] \in Nat
                      /\ b[l] = a[0][l] + a[1][l] + a[2][l] + a[3][l] + a[4][l]
                                  + a[5][l] + a[6][l] + a[7][l] + a[8][l]
    OBVIOUS
  <2> DEFINE layer == Layer(seats, l)
  <2>1. layer.amount \in Nat /\ layer.eligible \in SUBSET Seats
    BY LayerBounds
  <2>2. layer.eligible # {}
    BY DEF LayersValid, Layers
  <2>3. \A s \in layer.eligible : strength[s] \in 1 .. HandClasses
    BY LayerBounds
  <2>4. /\ Winners(layer.eligible, strength) \in SUBSET Seats
        /\ Winners(layer.eligible, strength) # {}
    <3> HIDE DEF layer
    <3> QED BY <2>1, <2>2, <2>3, WinnersExist
  <2> DEFINE x(i) == AwardOf(layer, strength, button, i)
  <2>5. /\ \A i \in 0 .. 8 : x(i) \in Nat
        /\ layer.amount = x(0) + x(1) + x(2) + x(3) + x(4) + x(5) + x(6) + x(7) + x(8)
    <3> HIDE DEF layer
    <3> QED BY <2>1, <2>4, LayerIsAwarded
  <2>6. \A i \in 0 .. 8 : a[i][l] = x(i)
    OBVIOUS
  <2>7. b[l] = layer.amount
    OBVIOUS
  <2> HIDE DEF a, b, x, layer
  <2> QED BY <2>5, <2>6, <2>7
<1>5. \E k : SumsUp(k, b, S) /\ LayersTotal(seats) = k[S]
  <2> DEFINE K == CHOOSE k : k = [t \in SUBSET S |-> IF t = {} THEN 0
                     ELSE Layer(seats, Chosen(t)).amount + k[t \ {Chosen(t)}]]
  <2>1. \E k : SumsUp(k, b, S)
    <3> HIDE DEF b, S
    <3> QED BY <1>1, SumExists
  <2>2. \A t \in SUBSET S : t # {} => Chosen(t) \in S
    BY DEF Chosen
  <2>3. \A k : SumsUp(k, b, S) <=> k = [t \in SUBSET S |-> IF t = {} THEN 0
                     ELSE Layer(seats, Chosen(t)).amount + k[t \ {Chosen(t)}]]
    <3> SUFFICES ASSUME NEW k
                 PROVE  [t \in SUBSET S |-> IF t = {} THEN 0 ELSE b[Chosen(t)] + k[t \ {Chosen(t)}]]
                        = [t \in SUBSET S |-> IF t = {} THEN 0
                             ELSE Layer(seats, Chosen(t)).amount + k[t \ {Chosen(t)}]]
      BY DEF SumsUp
    <3>1. \A t \in SUBSET S : t # {} => b[Chosen(t)] = Layer(seats, Chosen(t)).amount
      BY <2>2
    <3> HIDE DEF b, S
    <3> QED BY <3>1
  <2>4. SumsUp(K, b, S)
    <3> HIDE DEF b, S
    <3> QED BY <2>1, <2>3
  <2>5. LayersTotal(seats) = K[S]
    BY DEF LayersTotal, MapThenSumSet, MapThenFoldSet, Chosen
  <2> QED BY <2>4, <2>5
<1> DEFINE paid(i) == IF i \in Seats THEN Awarded(seats, strength, button, i) ELSE 0
           Claim(i, f) == SumsUp(f, a[i], S) /\ f[S] = paid(i)
<1>6. \A i \in 0 .. 8 : \E f : Claim(i, f)
  <2> SUFFICES ASSUME NEW i \in 0 .. 8 PROVE \E f : Claim(i, f)
    OBVIOUS
  <2>0. \A t \in SUBSET S : t # {} => Chosen(t) \in S
    BY DEF Chosen
  <2>1. CASE i \notin Seats
    <3> DEFINE f == [t \in SUBSET S |-> 0]
    <3>1. \A t \in SUBSET S : t # {} => a[i][Chosen(t)] = 0
      BY <2>0, <2>1 DEF AwardOf
    <3>2. \A t \in SUBSET S : f[t \ {Chosen(t)}] = 0
      <4> HIDE DEF S
      <4> QED OBVIOUS
    <3>3. SumsUp(f, a[i], S)
      <4> SUFFICES \A t \in SUBSET S : 0 = IF t = {} THEN 0 ELSE a[i][Chosen(t)] + f[t \ {Chosen(t)}]
        <5> HIDE DEF a, S
        <5> QED BY DEF SumsUp
      <4> SUFFICES ASSUME NEW t \in SUBSET S, t # {}
                   PROVE  0 = a[i][Chosen(t)] + f[t \ {Chosen(t)}]
        OBVIOUS
      <4>1. a[i][Chosen(t)] = 0 /\ f[t \ {Chosen(t)}] = 0
        <5> HIDE DEF a, S, f
        <5> QED BY <3>1, <3>2
      <4> HIDE DEF a, S, f
      <4> QED BY <4>1
    <3>4. f[S] = paid(i)
      BY <2>1
    <3> QED BY <3>3, <3>4
  <2>2. CASE i \in Seats
    <3> DEFINE K == CHOOSE k : k = [t \in SUBSET S |-> IF t = {} THEN 0
                       ELSE Award(Layer(seats, Chosen(t)), strength, button, i) + k[t \ {Chosen(t)}]]
    <3>1. \E f : SumsUp(f, a[i], S)
      <4> HIDE DEF a, S
      <4> QED BY <1>1, SumExists
    <3>2. \A k : SumsUp(k, a[i], S) <=> k = [t \in SUBSET S |-> IF t = {} THEN 0
                       ELSE Award(Layer(seats, Chosen(t)), strength, button, i) + k[t \ {Chosen(t)}]]
      <4> SUFFICES ASSUME NEW k
                   PROVE  [t \in SUBSET S |-> IF t = {} THEN 0
                              ELSE a[i][Chosen(t)] + k[t \ {Chosen(t)}]]
                          = [t \in SUBSET S |-> IF t = {} THEN 0
                               ELSE Award(Layer(seats, Chosen(t)), strength, button, i)
                                      + k[t \ {Chosen(t)}]]
        BY DEF SumsUp
      <4>1. \A t \in SUBSET S : t # {} =>
               a[i][Chosen(t)] = Award(Layer(seats, Chosen(t)), strength, button, i)
        BY <2>0, <2>2 DEF AwardOf
      <4> HIDE DEF a, S
      <4> QED BY <4>1
    <3>3. SumsUp(K, a[i], S)
      <4> HIDE DEF a, S
      <4> QED BY <3>1, <3>2
    <3>4. Awarded(seats, strength, button, i) = K[S]
      BY DEF Awarded, MapThenSumSet, MapThenFoldSet, Chosen
    <3>5. K[S] = paid(i)
      BY <2>2, <3>4
    <3> HIDE DEF K, paid, a, S
    <3> QED BY <3>3, <3>5
  <2> QED BY <2>1, <2>2
<1> DEFINE g == [i \in 0 .. 8 |-> CHOOSE f : Claim(i, f)]
<1>7. \A i \in 0 .. 8 : Claim(i, g[i])
  <2> HIDE DEF Claim
  <2> QED BY <1>6
<1> HIDE DEF g
<1>8. PICK k : SumsUp(k, b, S) /\ LayersTotal(seats) = k[S]
  <2> HIDE DEF b, S
  <2> QED BY <1>5
<1>9. /\ \A i \in 0 .. 8 : g[i][S] \in Nat
      /\ k[S] = g[0][S] + g[1][S] + g[2][S] + g[3][S] + g[4][S]
                  + g[5][S] + g[6][S] + g[7][S] + g[8][S]
  <2>1. \A i \in 0 .. 8 : SumsUp(g[i], a[i], S)
    <3> HIDE DEF a, S, paid
    <3> QED BY <1>7
  <2>2. \A i \in 0 .. 8 : \A x \in S : a[i][x] \in Nat
    <3> HIDE DEF a, b, S
    <3> QED BY <1>2
  <2>3. \A x \in S : b[x] = a[0][x] + a[1][x] + a[2][x] + a[3][x] + a[4][x]
                              + a[5][x] + a[6][x] + a[7][x] + a[8][x]
    <3> HIDE DEF a, b, S
    <3> QED BY <1>2
  <2> HIDE DEF a, b, S
  <2>4. SumsOfPlaces(g, a, S)
    BY <2>1, <2>2 DEF SumsOfPlaces
  <2> QED BY <1>1, <1>8, <2>3, <2>4, SumOfSums
<1>10. \A i \in 0 .. 8 : g[i][S] = paid(i)
  <2> HIDE DEF a, S, paid
  <2> QED BY <1>7
<1>11. \A s \in Seats : won[s] \in Nat /\ won[s] = Awarded(seats, strength, button, s)
  <2> SUFFICES ASSUME NEW s \in Seats PROVE Awarded(seats, strength, button, s) \in Nat
    OBVIOUS
  <2>1. s \in 0 .. 8
    BY SeatsFinite
  <2>2. paid(s) = Awarded(seats, strength, button, s)
    OBVIOUS
  <2>3. paid(s) \in Nat
    <3> HIDE DEF paid, S
    <3> QED BY <1>9, <1>10, <2>1
  <2> QED BY <2>2, <2>3
<1>12. \A i \in 0 .. 8 : Chips(won, i) = paid(i)
  BY DEF Chips
<1>13. ChipSum(won) = NinePlaces(won)
  <2>1. \A i \in DOMAIN won : won[i] \in Int
    BY <1>11
  <2> HIDE DEF won
  <2> QED BY <2>1, ChipSumIs
<1>14. ChipSum(won) = k[S]
  <2> HIDE DEF won, paid, S
  <2> QED BY <1>9, <1>10, <1>12, <1>13 DEF NinePlaces
<1>15. k[S] = pot
  BY <1>8 DEF LayersValid
<1> QED BY <1>11, <1>14, <1>15

LEMMA SettlingReturns ==
  ASSUME NEW seats \in [Seats -> SeatRecords], Levels(seats) # {},
         \A s \in Seats : seats[s].streetContribution <= seats[s].totalContribution,
         LET back == UncalledReturn(seats)
         IN  back.seat # NoSeat => back.amount <= seats[back.seat].streetContribution
  PROVE  LET back == UncalledReturn(seats)
         IN  /\ back.amount \in Nat
             /\ Returned(seats) \in [Seats -> SeatRecords]
             /\ \A s \in Seats : Returned(seats)[s].status = seats[s].status
             /\ ChipSum([s \in Seats |-> Returned(seats)[s].stack])
                  = ChipSum([s \in Seats |-> seats[s].stack]) + back.amount
<1> DEFINE back == UncalledReturn(seats)
           level == Max(Levels(seats))
           top == Layer(seats, level)
           total == [s \in Seats |-> seats[s].totalContribution]
           f == [s \in Seats |-> seats[s].stack]
           g == [s \in Seats |-> Returned(seats)[s].stack]
<1>1. level \in Levels(seats)
  <2>1. total \in [Seats -> Nat]
    BY DEF SeatRecords
  <2>2. ChipSum(total) \in Nat /\ \A s \in Seats : total[s] <= ChipSum(total)
    <3> HIDE DEF total
    <3> QED BY <2>1, ChipsNat
  <2>3. Levels(seats) \in SUBSET Nat
    BY LevelsFinite
  <2>4. \A k \in Levels(seats) : k <= ChipSum(total)
    <3>1. \A k \in Levels(seats) : \E s \in Seats : k = total[s]
      BY DEF Levels
    <3> HIDE DEF total
    <3> QED BY <2>2, <3>1
  <2> HIDE DEF total
  <2> QED BY <2>2, <2>3, <2>4, Highest
<1>2. top.amount \in Nat /\ top.contributors \in SUBSET Seats
  <2> HIDE DEF level
  <2> QED BY <1>1, LayerBounds
<1>3. NoSeat \notin Seats
  BY SeatsFinite DEF NoSeat
<1>4. f \in [Seats -> Int]
  BY DEF SeatRecords
<1>5. CASE Cardinality(top.contributors) = 1
  <2>1. back = [seat |-> CHOOSE s \in top.contributors : TRUE, amount |-> top.amount]
    BY <1>5 DEF UncalledReturn
  <2>2. \E s \in top.contributors : TRUE
    <3>1. Cardinality({}) = 0 /\ 0 # 1
      BY FS_EmptySet
    <3> HIDE DEF top
    <3> QED BY <1>5, <3>1
  <2>3. back.seat \in Seats /\ back.amount \in Nat
    <3> HIDE DEF top, back
    <3> QED BY <1>2, <2>1, <2>2
  <2>4. back.amount <= seats[back.seat].streetContribution
    BY <1>3, <2>3
  <2> HIDE DEF back
  <2> DEFINE s == back.seat
             n == back.amount
             old == seats[s]
             new == Refunded(old, n)
  <2>5. Returned(seats) = [seats EXCEPT ![s] = new]
    BY <1>3, <2>3 DEF Returned, back
  <2>6. s \in Seats /\ n \in Nat /\ n <= old.streetContribution
    BY <2>3, <2>4
  <2> HIDE DEF s, n
  <2>7. old \in SeatRecords /\ old.streetContribution <= old.totalContribution
    BY <2>6
  <2> HIDE DEF old
  <2>8. /\ old.stack + n \in Nat /\ old.streetContribution - n \in Nat
        /\ old.totalContribution - n \in Nat
    BY <2>6, <2>7 DEF SeatRecords
  <2>9. new \in SeatRecords /\ new.stack = old.stack + n /\ new.status = old.status
    BY <2>7, <2>8 DEF SeatRecords, Refunded
  <2> HIDE DEF new
  <2>10. /\ Returned(seats) \in [Seats -> SeatRecords]
         /\ \A o \in Seats : Returned(seats)[o].status = seats[o].status
    BY <2>5, <2>6, <2>9 DEF old
  <2>11. g[s] = f[s] + n /\ \A o \in Seats \ {s} : g[o] = f[o]
    BY <2>5, <2>6, <2>9 DEF old
  <2>12. g \in [Seats -> Int]
    BY <2>10 DEF SeatRecords
  <2>13. ChipSum(g) = ChipSum(f) + n
    <3> HIDE DEF f, g
    <3> QED BY <1>4, <2>6, <2>11, <2>12, ChipsChange
  <2> QED BY <2>3, <2>10, <2>13 DEF back, n
<1>6. CASE Cardinality(top.contributors) # 1
  <2>1. back = [seat |-> NoSeat, amount |-> 0]
    BY <1>6 DEF UncalledReturn
  <2>2. Returned(seats) = seats
    BY <2>1 DEF Returned
  <2>3. ChipSum(f) \in Int
    <3> HIDE DEF f
    <3> QED BY <1>4, ChipsAdd
  <2> QED BY <2>1, <2>2, <2>3
<1> QED BY <1>5, <1>6

TableRecords ==
  [street : Streets, button : Seats, actor : Seats \cup {NoSeat}, pot : Nat, currentBet : Nat,
   minInc : Nat, board : 0 .. 5, seats : [Seats -> SeatRecords]]

Stacks(t) == [s \in Seats |-> t.seats[s].stack]
Totals(t) == [s \in Seats |-> t.seats[s].totalContribution]

\* Between two hands the pot is empty and the seats are what their stacks
\* make of them.
AtRest(t) ==
  /\ t.street = "betweenHands" /\ t.actor = NoSeat /\ t.pot = 0 /\ t.board = 0
  /\ \A s \in Seats : /\ t.seats[s].status = IF t.seats[s].stack > 0 THEN "active" ELSE "out"
                      /\ t.seats[s].streetContribution = 0
                      /\ t.seats[s].totalContribution = 0

LEMMA SettlingPays ==
  ASSUME NEW t \in TableRecords, Settleable(t), t.actor = NoSeat,
         Levels(t.seats) # {}, \A s \in Seats : t.seats[s].status # "out",
         \A s \in Seats : t.seats[s].streetContribution <= t.seats[s].totalContribution,
         NEW strength \in [Contenders(t) -> 1 .. HandClasses]
  PROVE  LET u == Settled(t, strength)
         IN  /\ u \in TableRecords /\ AtRest(u)
             /\ ChipSum(Stacks(u)) = ChipSum(Stacks(t)) + t.pot
<1> DEFINE back == UncalledReturn(t.seats)
           seats == Returned(t.seats)
           f == [s \in Seats |-> seats[s].stack]
           g == [s \in Seats |-> Awarded(seats, strength, t.button, s)]
           chips == [s \in Seats |-> f[s] + g[s]]
           u == Settled(t, strength)
<1>1. t.seats \in [Seats -> SeatRecords] /\ t.button \in Seats /\ t.pot \in Nat
  BY DEF TableRecords
<1>2. /\ back.amount \in Nat /\ seats \in [Seats -> SeatRecords]
      /\ \A s \in Seats : seats[s].status = t.seats[s].status
      /\ ChipSum(f) = ChipSum(Stacks(t)) + back.amount
  <2>1. back.seat # NoSeat => back.amount <= t.seats[back.seat].streetContribution
    BY DEF Settleable
  <2> QED BY <1>1, <2>1, SettlingReturns DEF Stacks
<1>3. LayersValid(seats, t.pot - back.amount)
  BY DEF Settleable
<1> HIDE DEF seats, back
<1>4. \A s \in Seats : InHand(seats[s]) => strength[s] \in 1 .. HandClasses
  BY <1>2 DEF Contenders, InHand
<1>5. (\A s \in Seats : g[s] \in Nat) /\ ChipSum(g) = t.pot - back.amount
  <2>1. /\ \A s \in Seats : Awarded(seats, strength, t.button, s) \in Nat
        /\ ChipSum(g) = t.pot - back.amount
    <3> DEFINE button == t.button
               pot == t.pot - back.amount
    <3>1. seats \in [Seats -> SeatRecords] /\ button \in Seats /\ LayersValid(seats, pot)
      BY <1>1, <1>2, <1>3
    <3> HIDE DEF button, pot
    <3>2. /\ \A s \in Seats : Awarded(seats, strength, button, s) \in Nat
          /\ ChipSum([s \in Seats |-> Awarded(seats, strength, button, s)]) = pot
      BY <1>4, <3>1, PotIsAwarded
    <3> QED BY <3>2 DEF button, pot
  <2> QED BY <2>1
<1>6. f \in [Seats -> Nat] /\ \A s \in Seats : seats[s].status \in Statuses \ {"out"}
  BY <1>2 DEF SeatRecords
<1>7. g \in [Seats -> Nat]
  BY <1>5
<1>8. ChipSum(chips) = ChipSum(Stacks(t)) + t.pot /\ chips \in [Seats -> Nat]
  <2>1. ChipSum(chips) = ChipSum(f) + ChipSum(g)
    <3>1. f \in [Seats -> Int] /\ g \in [Seats -> Int]
      BY <1>6, <1>7
    <3> HIDE DEF f, g
    <3> QED BY <3>1, ChipsAdd
  <2>2. ChipSum(Stacks(t)) \in Int
    <3>1. Stacks(t) \in [Seats -> Int]
      BY <1>1 DEF Stacks, SeatRecords
    <3> QED BY <3>1, ChipsAdd
  <2>3. chips \in [Seats -> Nat]
    BY <1>6, <1>7
  <2> HIDE DEF f, g, chips
  <2> QED BY <1>1, <1>2, <1>5, <2>1, <2>2, <2>3
<1>9. u = [t EXCEPT !.street = "betweenHands", !.pot = 0, !.board = 0,
                    !.seats = [s \in Seats |->
                       [status |-> IF chips[s] > 0 THEN "active" ELSE "out",
                        stack |-> chips[s], streetContribution |-> 0, totalContribution |-> 0,
                        betLevel |-> NotActed]]]
  BY <1>6 DEF Settled, Paid, seats
<1>10. Stacks(u) = chips
  <2> HIDE DEF chips, u
  <2> QED BY <1>8, <1>9 DEF Stacks, TableRecords
<1>11. u \in TableRecords /\ AtRest(u)
  <2> DEFINE rest == [s \in Seats |->
                       [status |-> IF chips[s] > 0 THEN "active" ELSE "out",
                        stack |-> chips[s], streetContribution |-> 0, totalContribution |-> 0,
                        betLevel |-> NotActed]]
  <2>1. rest \in [Seats -> SeatRecords]
    <3> HIDE DEF chips
    <3> QED BY <1>8 DEF SeatRecords, Statuses
  <2>2. u = [t EXCEPT !.street = "betweenHands", !.pot = 0, !.board = 0, !.seats = rest]
    BY <1>9
  <2>3. \A s \in Seats : /\ rest[s].status = IF rest[s].stack > 0 THEN "active" ELSE "out"
                         /\ rest[s].streetContribution = 0 /\ rest[s].totalContribution = 0
    <3> HIDE DEF chips
    <3> QED OBVIOUS
  <2> HIDE DEF chips, u, rest
  <2>4. u \in TableRecords
    <3>1. "betweenHands" \in Streets /\ 0 \in Nat /\ 0 \in 0 .. 5
      BY DEF Streets
    <3> HIDE DEF rest
    <3> QED BY <2>1, <2>2, <3>1 DEF TableRecords
  <2>5. /\ u.street = "betweenHands" /\ u.actor = NoSeat /\ u.pot = 0 /\ u.board = 0
        /\ u.seats = rest
    BY <2>2 DEF TableRecords
  <2> QED BY <2>3, <2>4, <2>5 DEF AtRest
<1> QED BY <1>8, <1>10, <1>11

-----------------------------------------------------------------------------
(* The inductive invariant of the table.                                   *)

\* A seat in a hand that is being played.
SeatSound(t, seat) ==
  /\ seat.status # "out"
  /\ seat.status = "allIn" => seat.stack = 0
  /\ seat.streetContribution <= seat.totalContribution
  /\ seat.streetContribution <= t.currentBet
  /\ seat.betLevel <= t.currentBet

\* Who has acted and still can has matched the bet it acted at.
KeepsUp(seat) ==
  CanAct(seat) /\ seat.betLevel # NotActed => seat.betLevel = seat.streetContribution

InPlay(t) ==
  /\ \A s \in Seats : SeatSound(t, t.seats[s]) /\ KeepsUp(t.seats[s])
  /\ t.board = BoardOf(t.street)
  /\ t.pot > 0 /\ t.pot = ChipSum(Totals(t))
  /\ t.minInc >= 20
  /\ t.street = "preflop" => t.currentBet >= BigBlind
  /\ t.actor \in Seats /\ StillOwesAction(t, t.actor)

TableInv ==
  /\ table \in TableRecords
  /\ handCount \in Nat
  /\ buyIn \in [Seats -> Nat]
  /\ table.street \in ActionStreets \cup {"betweenHands"}
  /\ table.street = "betweenHands" => AtRest(table)
  /\ table.street \in ActionStreets => InPlay(table)
  /\ ChipsConserved

LEMMA FirstIn ==
  ASSUME NEW anchor \in Seats, NEW S \in SUBSET Seats, S # {}
  PROVE  FirstClockwise(anchor, S) \in S
<1> DEFINE T == {Offset(anchor, s) : s \in S}
<1>1. \A s \in Seats : Offset(anchor, s) \in Nat
  BY SeatsFinite DEF Offset
<1>2. T \in SUBSET Nat /\ T # {}
  <2> HIDE DEF T
  <2>1. \A k \in T : k \in Nat
    BY <1>1 DEF T
  <2> QED BY <2>1 DEF T
<1>3. PICK m \in T : \A k \in T : m <= k
  <2> HIDE DEF T
  <2> QED BY <1>2, LeastNumber
<1>4. \E s \in S : \A o \in S : Offset(anchor, s) <= Offset(anchor, o)
  BY <1>3
<1> QED BY <1>4 DEF FirstClockwise

LEMMA UserIsSeated == UserSeat \in Seats
<1>1. Seats \in SUBSET Nat
  BY SeatsFinite
<1>2. Seats # {}
  BY SeatsAssumption, FS_EmptySet
<1>3. \E s \in Seats : \A o \in Seats : s <= o
  BY <1>1, <1>2, LeastNumber
<1> QED BY <1>3 DEF UserSeat

\* Three seats are taken by the button and the blinds, and three are left.
LEMMA SeatsLeft ==
  ASSUME NEW a, NEW b
  PROVE  /\ Seats \ {a} # {} /\ Seats \ {a, b} # {}
<1>1. IsFiniteSet(Seats) /\ Cardinality(Seats) \in 6 .. 9
  BY SeatsFinite, SeatsAssumption
<1>2. IsFiniteSet(Seats \ {a}) /\ Cardinality(Seats \ {a}) >= 5 /\ Cardinality(Seats \ {a}) \in Int
  <2>1. /\ IsFiniteSet(Seats \ {a})
        /\ Cardinality(Seats \ {a}) = IF a \in Seats THEN Cardinality(Seats) - 1 ELSE Cardinality(Seats)
    BY <1>1, FS_RemoveElement
  <2> QED BY <1>1, <2>1
<1>3. Cardinality((Seats \ {a}) \ {b}) >= 4
  <2>1. Cardinality((Seats \ {a}) \ {b})
          = IF b \in Seats \ {a} THEN Cardinality(Seats \ {a}) - 1 ELSE Cardinality(Seats \ {a})
    BY <1>2, FS_RemoveElement
  <2> QED BY <1>2, <2>1
<1>4. Cardinality({}) = 0 /\ ~(0 >= 4) /\ ~(0 >= 5)
  BY FS_EmptySet
<1>5. (Seats \ {a}) \ {b} = Seats \ {a, b}
  OBVIOUS
<1> QED BY <1>2, <1>3, <1>4, <1>5

LEMMA BlindSeats ==
  ASSUME NEW button \in Seats
  PROVE  /\ SmallBlindSeat(button) \in Seats /\ BigBlindSeat(button) \in Seats
         /\ SmallBlindSeat(button) # BigBlindSeat(button)
<1>1. SmallBlindSeat(button) \in Seats \ {button}
  <2>1. Seats \ {button} \in SUBSET Seats /\ Seats \ {button} # {}
    BY SeatsLeft
  <2> QED BY <2>1, FirstIn DEF SmallBlindSeat
<1>2. BigBlindSeat(button) \in Seats \ {button, SmallBlindSeat(button)}
  <2> DEFINE S == Seats \ {button, SmallBlindSeat(button)}
  <2>1. S \in SUBSET Seats /\ S # {}
    BY SeatsLeft
  <2>2. SmallBlindSeat(button) \in Seats
    BY <1>1
  <2>3. FirstClockwise(SmallBlindSeat(button), S) \in S
    <3> HIDE DEF S
    <3> QED BY <2>1, <2>2, FirstIn
  <2> QED BY <2>3 DEF BigBlindSeat
<1> QED BY <1>1, <1>2

\* A seat that posts a blind.
LEMMA BlindPosted ==
  ASSUME NEW seat \in SeatRecords, seat.status = "active", seat.stack > 0,
         seat.streetContribution = 0, seat.totalContribution = 0, seat.betLevel = NotActed,
         NEW nominal \in {SmallBlind, BigBlind}
  PROVE  LET u == PostBlind(seat, nominal)
         IN  /\ u \in SeatRecords /\ u.status \in {"active", "allIn"} /\ u.betLevel = NotActed
             /\ u.status = "allIn" => u.stack = 0
             /\ u.streetContribution = u.totalContribution /\ u.streetContribution <= BigBlind
             /\ u.totalContribution > 0 /\ u.stack + u.totalContribution = seat.stack
<1> DEFINE paid == IF seat.stack < nominal THEN seat.stack ELSE nominal
<1>1. seat.stack \in Nat /\ nominal \in Nat /\ nominal > 0 /\ nominal <= BigBlind
  BY DEF SeatRecords, SmallBlind, BigBlind
<1>2. /\ paid \in Nat /\ paid > 0 /\ paid <= BigBlind /\ seat.stack - paid \in Nat
      /\ seat.streetContribution + paid = paid /\ seat.totalContribution + paid = paid
      /\ paid = seat.stack => seat.stack - paid = 0
      /\ (seat.stack - paid) + paid = seat.stack
  <2>1. BigBlind \in Nat
    BY DEF BigBlind
  <2> QED BY <1>1, <2>1
<1>3. PostBlind(seat, nominal) =
        [seat EXCEPT !.stack = @ - paid, !.status = IF paid = seat.stack THEN "allIn" ELSE "active",
                     !.streetContribution = @ + paid, !.totalContribution = @ + paid]
  BY DEF PostBlind
<1> HIDE DEF paid
<1> DEFINE u == PostBlind(seat, nominal)
<1>4. /\ u.stack = seat.stack - paid /\ u.status = IF paid = seat.stack THEN "allIn" ELSE "active"
      /\ u.streetContribution = paid /\ u.totalContribution = paid /\ u.betLevel = seat.betLevel
  BY <1>2, <1>3 DEF SeatRecords
<1>5. u \in SeatRecords
  <2>1. "allIn" \in Statuses /\ "active" \in Statuses
    BY DEF Statuses
  <2> QED BY <1>2, <1>3, <2>1 DEF SeatRecords
<1> QED BY <1>2, <1>4, <1>5

-----------------------------------------------------------------------------
(* What an action of the seat whose turn it is puts in.                    *)

Lone(t) == Cardinality(Actionable(t)) = 1

\* The seat whose turn it is can act, and what it has to call is known.
LEMMA ActorFacts ==
  ASSUME NEW t \in TableRecords, InPlay(t), BettingOpen(t)
  PROVE  LET me == t.seats[t.actor]
             call == AmountToCall(t)
         IN  /\ t.actor \in Seats /\ me \in SeatRecords /\ me.status = "active" /\ me.stack > 0
             /\ me.streetContribution <= t.currentBet /\ t.currentBet \in Nat
             /\ t.minInc \in Nat /\ t.minInc >= 20
             /\ call \in Nat /\ me.streetContribution + call <= t.currentBet
             /\ ~Lone(t) => me.streetContribution + call = t.currentBet
             /\ Lone(t) => /\ call > 0
                           /\ \A o \in Contenders(t) \ {t.actor} :
                                 t.seats[o].streetContribution <= me.streetContribution + call
<1> DEFINE me == t.seats[t.actor]
           others == Contenders(t) \ {t.actor}
           S == {t.seats[s].streetContribution : s \in others}
           call == AmountToCall(t)
<1>1. /\ t.actor \in Seats /\ me \in SeatRecords /\ me.status = "active" /\ me.stack > 0
      /\ me.streetContribution <= t.currentBet /\ t.currentBet \in Nat
      /\ t.minInc \in Nat /\ t.minInc >= 20 /\ me.streetContribution \in Nat
  <2>1. t.actor \in Seats /\ CanAct(t.seats[t.actor]) /\ SeatSound(t, t.seats[t.actor])
    BY DEF InPlay, StillOwesAction
  <2>2. t.seats[t.actor] \in SeatRecords /\ t.currentBet \in Nat /\ t.minInc \in Nat
    BY <2>1 DEF TableRecords
  <2>3. t.minInc >= 20
    BY DEF InPlay
  <2> QED BY <2>1, <2>2, <2>3 DEF CanAct, SeatSound, SeatRecords
<1>2. others # {}
  <2>1. IsFiniteSet(Contenders(t)) /\ Cardinality(Contenders(t)) \in Nat
    BY SeatsFinite DEF Contenders
  <2>2. Cardinality(Contenders(t)) >= 2
    BY DEF BettingOpen
  <2>3. Cardinality(others) >= 1
    <3>1. Cardinality(others) = IF t.actor \in Contenders(t) THEN Cardinality(Contenders(t)) - 1
                                ELSE Cardinality(Contenders(t))
      BY <2>1, FS_RemoveElement
    <3> QED BY <2>1, <2>2, <3>1
  <2>4. Cardinality({}) = 0 /\ ~(0 >= 1)
    BY FS_EmptySet
  <2> QED BY <2>3, <2>4
<1>3. \A o \in others : /\ t.seats[o].streetContribution \in Nat
                        /\ t.seats[o].streetContribution <= t.currentBet
  BY DEF Contenders, InPlay, SeatSound, TableRecords, SeatRecords
<1>4. Max(S) \in S /\ \A k \in S : k <= Max(S)
  <2>1. S \in SUBSET Nat /\ S # {} /\ \A k \in S : k <= t.currentBet
    BY <1>2, <1>3
  <2> HIDE DEF S
  <2> QED BY <1>1, <2>1, Highest
<1>5. Max(S) \in Nat /\ Max(S) <= t.currentBet
  BY <1>3, <1>4
<1>6. \A o \in others : t.seats[o].streetContribution <= Max(S)
  BY <1>4
<1>7. CASE Lone(t)
  <2>1. call = IF Max(S) > me.streetContribution THEN Max(S) - me.streetContribution ELSE 0
    BY <1>7 DEF AmountToCall, Lone
  <2>2. call > 0
    BY <1>7 DEF BettingOpen, Lone
  <2> HIDE DEF S, call, me, others
  <2>3. call = Max(S) - me.streetContribution /\ Max(S) > me.streetContribution
    BY <1>1, <1>5, <2>1, <2>2
  <2>4. call \in Nat /\ me.streetContribution + call = Max(S)
    BY <1>1, <1>5, <2>3
  <2> QED BY <1>1, <1>5, <1>6, <1>7, <2>2, <2>4 DEF me, call, others
<1>8. CASE ~Lone(t)
  <2>1. call = t.currentBet - me.streetContribution
    BY <1>8 DEF AmountToCall, Lone
  <2> QED BY <1>1, <1>8, <2>1
<1> QED BY <1>7, <1>8

\* What an accepted action puts in.
LEMMA ActionShape ==
  ASSUME NEW t \in TableRecords, InPlay(t), BettingOpen(t), NEW action,
         ActionAccepted(t, t.actor, action)
  PROVE  LET me == t.seats[t.actor]
             paid == Delta(t, action)
             level == me.streetContribution + paid
         IN  /\ paid \in Nat /\ paid <= me.stack
             /\ \/ action.type = "fold" /\ paid = 0
                \/ action.type = "check" /\ paid = 0 /\ ~Lone(t) /\ level = t.currentBet
                \/ /\ action.type = "call" /\ paid > 0
                   /\ ~Lone(t) => level = t.currentBet
                   /\ level <= t.currentBet
                   /\ Lone(t) => \A o \in Contenders(t) \ {t.actor} :
                                    t.seats[o].streetContribution <= level
                \/ /\ action.type \in {"bet", "raise"} /\ ~Lone(t) /\ paid > 0
                   /\ level > t.currentBet
                \/ action.type = "allIn" /\ paid = me.stack /\ paid > 0
<1> DEFINE me == t.seats[t.actor]
           call == AmountToCall(t)
           paid == Delta(t, action)
           level == me.streetContribution + paid
<1>1. /\ me \in SeatRecords /\ me.stack > 0 /\ t.currentBet \in Nat
      /\ me.streetContribution <= t.currentBet
      /\ t.minInc \in Nat /\ t.minInc >= 20 /\ call \in Nat
      /\ me.streetContribution + call <= t.currentBet
      /\ ~Lone(t) => me.streetContribution + call = t.currentBet
      /\ Lone(t) => /\ call > 0
                    /\ \A o \in Contenders(t) \ {t.actor} :
                          t.seats[o].streetContribution <= me.streetContribution + call
  BY ActorFacts
<1>2. me.stack \in Nat /\ me.streetContribution \in Nat
  BY <1>1 DEF SeatRecords
<1>3. PICK legal \in LegalActions(t) :
        /\ legal.type = action.type
        /\ action.type \in {"bet", "raise"} => action.target \in legal.min .. legal.max
  BY DEF ActionAccepted
<1>4. \/ legal.type = "fold"
      \/ legal.type = "check" /\ ~Lone(t) /\ call = 0
      \/ legal.type = "call" /\ call > 0 /\ call < me.stack
      \/ /\ legal.type \in {"bet", "raise"} /\ ~Lone(t)
         /\ legal.min = MinTarget(t) /\ legal.max = AllInTarget(t) - 1
      \/ legal.type = "allIn"
  <2>1. legal \in ActionsFacing(t, call)
    BY <1>3 DEF LegalActions
  <2>2. CASE Lone(t)
    <3>1. \/ legal = [type |-> "fold", min |-> 0, max |-> 0]
          \/ me.stack > call /\ legal = [type |-> "call", min |-> call, max |-> call]
          \/ legal = [type |-> "allIn", min |-> AllInTarget(t), max |-> AllInTarget(t)]
      BY <2>1, <2>2 DEF ActionsFacing, Lone
    <3> QED BY <1>1, <1>2, <2>2, <3>1
  <2>3. CASE ~Lone(t)
    <3>1. \/ legal = [type |-> "fold", min |-> 0, max |-> 0]
          \/ call = 0 /\ legal = [type |-> "check", min |-> 0, max |-> 0]
          \/ call # 0 /\ call < me.stack /\ legal = [type |-> "call", min |-> call, max |-> call]
          \/ legal = [type |-> BetType(t), min |-> MinTarget(t), max |-> AllInTarget(t) - 1]
          \/ legal = [type |-> "allIn", min |-> AllInTarget(t), max |-> AllInTarget(t)]
      BY <2>1, <2>3 DEF ActionsFacing, Lone
    <3>2. BetType(t) \in {"bet", "raise"}
      BY DEF BetType
    <3> QED BY <1>1, <1>2, <2>3, <3>1, <3>2
  <2> QED BY <2>2, <2>3
<1>5. CASE action.type = "fold"
  BY <1>2, <1>5 DEF Delta
<1>6. CASE action.type = "check"
  <2>1. paid = 0 /\ ~Lone(t) /\ call = 0
    BY <1>3, <1>4, <1>6 DEF Delta
  <2> QED BY <1>1, <1>2, <1>6, <2>1
<1>7. CASE action.type = "call"
  <2>1. paid = call /\ call > 0 /\ call < me.stack
    BY <1>3, <1>4, <1>7 DEF Delta
  <2> QED BY <1>1, <1>2, <1>7, <2>1
<1>8. CASE action.type \in {"bet", "raise"}
  <2>1. paid = action.target - me.streetContribution
    BY <1>8 DEF Delta
  <2>2. ~Lone(t) /\ action.target \in MinTarget(t) .. AllInTarget(t) - 1
    BY <1>3, <1>4, <1>8
  <2>3. /\ MinTarget(t) \in Nat /\ MinTarget(t) > t.currentBet
        /\ AllInTarget(t) = me.streetContribution + me.stack
    BY <1>1 DEF MinTarget, AllInTarget
  <2>4. action.target \in Nat /\ action.target > t.currentBet
          /\ action.target < me.streetContribution + me.stack
    BY <1>1, <1>2, <2>2, <2>3
  <2>5. paid \in Nat /\ paid <= me.stack /\ paid > 0 /\ level = action.target
    BY <1>1, <1>2, <2>1, <2>4
  <2> QED BY <1>8, <2>2, <2>4, <2>5
<1>9. CASE action.type = "allIn"
  <2>1. paid = me.stack
    BY <1>9 DEF Delta
  <2> QED BY <1>1, <1>2, <1>9, <2>1
<1> QED BY <1>3, <1>4, <1>5, <1>6, <1>7, <1>8, <1>9

\* What the table is after an accepted action, before it is decided who is
\* next: chips have moved from the seat that acted into the pot.
LEMMA ActionTaken ==
  ASSUME NEW t \in TableRecords, InPlay(t), BettingOpen(t), NEW action,
         ActionAccepted(t, t.actor, action)
  PROVE  LET u == BettingTransition(t, action)
         IN  /\ u \in TableRecords
             /\ u.street = t.street /\ u.button = t.button /\ u.actor = t.actor /\ u.board = t.board
             /\ u.currentBet >= t.currentBet /\ u.minInc >= 20
             /\ u.pot > 0 /\ u.pot = ChipSum(Totals(u))
             /\ ChipSum(Stacks(u)) + u.pot = ChipSum(Stacks(t)) + t.pot
             /\ u.pot = t.pot + Delta(t, action) /\ Delta(t, action) \in Nat
             /\ u.currentBet = BetAfter(t, action)
             /\ u.minInc = IF IsFullRaise(t, action) THEN BetAfter(t, action) - t.currentBet
                           ELSE t.minInc
             /\ Delta(t, action) = 0 => /\ ~StillOwesAction(u, t.actor)
                                       /\ u.currentBet = t.currentBet
             /\ \A s \in Seats : SeatSound(u, u.seats[s])
             /\ \A s \in Seats \ {t.actor} : u.seats[s] = t.seats[s]
             /\ u.seats[t.actor].betLevel = u.currentBet
             /\ \/ KeepsUp(u.seats[t.actor])
                \/ /\ Lone(t)
                   /\ \A o \in Contenders(t) \ {t.actor} :
                         t.seats[o].streetContribution <= u.seats[t.actor].streetContribution
<1> DEFINE a == t.actor
           me == t.seats[a]
           paid == Delta(t, action)
           bet == BetAfter(t, action)
           level == me.streetContribution + paid
           new == Contributing(me, paid, StatusAfter(action), bet)
           inc == IF IsFullRaise(t, action) THEN bet - t.currentBet ELSE t.minInc
           u == BettingTransition(t, action)
<1>1. /\ a \in Seats /\ me \in SeatRecords /\ me.status = "active" /\ me.stack > 0
      /\ me.streetContribution <= t.currentBet /\ t.currentBet \in Nat
      /\ t.minInc \in Nat /\ t.minInc >= 20
  BY ActorFacts
<1>2. /\ me.stack \in Nat /\ me.streetContribution \in Nat /\ me.totalContribution \in Nat
      /\ me.streetContribution <= me.totalContribution
  BY <1>1 DEF SeatRecords, InPlay, SeatSound
<1>3. /\ paid \in Nat /\ paid <= me.stack
      /\ \/ action.type = "fold" /\ paid = 0
         \/ action.type = "check" /\ paid = 0 /\ ~Lone(t) /\ level = t.currentBet
         \/ /\ action.type = "call" /\ paid > 0
            /\ ~Lone(t) => level = t.currentBet
            /\ level <= t.currentBet
            /\ Lone(t) => \A o \in Contenders(t) \ {a} : t.seats[o].streetContribution <= level
         \/ action.type \in {"bet", "raise"} /\ ~Lone(t) /\ paid > 0 /\ level > t.currentBet
         \/ action.type = "allIn" /\ paid = me.stack /\ paid > 0
  BY ActionShape
<1>4. bet = IF level > t.currentBet THEN level ELSE t.currentBet
  BY DEF BetAfter
<1>5. u = [t EXCEPT !.pot = @ + paid, !.currentBet = bet, !.minInc = inc, !.seats[a] = new]
  BY DEF BettingTransition, PutIn
<1>6. inc \in Nat /\ inc >= 20
  <2>1. bet \in Nat /\ bet >= t.currentBet
    BY <1>1, <1>2, <1>3, <1>4
  <2>2. IsFullRaise(t, action) => bet - t.currentBet >= t.minInc
    BY DEF IsFullRaise
  <2> HIDE DEF bet
  <2> QED BY <1>1, <2>1, <2>2
<1>7. StatusAfter(action) = IF action.type = "fold" THEN "folded"
                            ELSE IF action.type = "allIn" THEN "allIn" ELSE "active"
  BY <1>3 DEF StatusAfter
<1> HIDE DEF paid, bet, inc, u, me, a
<1>8. /\ level \in Nat /\ bet \in Nat /\ bet >= t.currentBet /\ level <= bet
      /\ me.stack - paid \in Nat /\ me.totalContribution + paid \in Nat
      /\ level <= me.totalContribution + paid /\ me.stack = me.stack - paid + paid
  BY <1>1, <1>2, <1>3, <1>4
<1>9. /\ new.stack = me.stack - paid /\ new.status = StatusAfter(action)
      /\ new.streetContribution = level /\ new.totalContribution = me.totalContribution + paid
      /\ new.betLevel = bet
  BY <1>1 DEF Contributing, SeatRecords
<1>10. new \in SeatRecords
  <2>1. StatusAfter(action) \in Statuses
    BY <1>7 DEF Statuses
  <2> HIDE DEF level
  <2> QED BY <1>1, <1>8, <2>1 DEF Contributing, SeatRecords, level
<1> HIDE DEF new, level
<1>11. t.pot \in Nat /\ t.pot > 0 /\ t.pot = ChipSum(Totals(t)) /\ t.pot + paid \in Nat
       /\ t.seats \in [Seats -> SeatRecords]
  BY <1>3 DEF TableRecords, InPlay
<1>12. /\ u \in TableRecords
       /\ u.street = t.street /\ u.button = t.button /\ u.actor = t.actor /\ u.board = t.board
       /\ u.currentBet = bet /\ u.minInc = inc /\ u.pot = t.pot + paid
       /\ u.seats = [t.seats EXCEPT ![a] = new]
  <2>1. [t.seats EXCEPT ![a] = new] \in [Seats -> SeatRecords]
    BY <1>10, <1>11
  <2> QED BY <1>5, <1>6, <1>8, <1>11, <2>1 DEF TableRecords
<1>13. u.seats[a] = new /\ \A s \in Seats \ {a} : u.seats[s] = t.seats[s]
  BY <1>1, <1>11, <1>12
<1>14. ChipSum(Totals(u)) = t.pot + paid
  <2> DEFINE f == Totals(t)
             g == Totals(u)
  <2>1. f \in [Seats -> Int] /\ g \in [Seats -> Int]
    BY <1>11, <1>12 DEF Totals, SeatRecords, TableRecords
  <2>2. g[a] = f[a] + paid /\ \A o \in Seats \ {a} : g[o] = f[o]
    BY <1>1, <1>9, <1>13 DEF Totals, me
  <2> HIDE DEF f, g
  <2>3. ChipSum(g) = ChipSum(f) + paid
    BY <1>1, <1>3, <2>1, <2>2, ChipsChange
  <2> QED BY <1>11, <2>3 DEF f, g
<1>15. ChipSum(Stacks(u)) + u.pot = ChipSum(Stacks(t)) + t.pot
  <2> DEFINE f == Stacks(t)
             g == Stacks(u)
             n == 0 - paid
  <2>1. f \in [Seats -> Int] /\ g \in [Seats -> Int]
    BY <1>11, <1>12 DEF Stacks, SeatRecords, TableRecords
  <2>2. g[a] = f[a] - paid /\ \A o \in Seats \ {a} : g[o] = f[o]
    BY <1>1, <1>9, <1>13 DEF Stacks, me
  <2>3. n \in Int /\ g[a] = f[a] + n
    BY <1>1, <1>3, <2>1, <2>2
  <2> HIDE DEF f, g, n
  <2>4. ChipSum(g) = ChipSum(f) + n /\ ChipSum(f) \in Int
    BY <1>1, <2>1, <2>2, <2>3, ChipsChange, ChipsAdd
  <2> QED BY <1>3, <1>11, <1>12, <2>4 DEF f, g, n
<1>16. ASSUME NEW s \in Seats PROVE SeatSound(u, u.seats[s])
  <2>1. CASE s = a
    <3>1. new.status # "out" /\ (new.status = "allIn" => new.stack = 0)
      BY <1>2, <1>3, <1>7, <1>9
    <3> QED BY <1>8, <1>9, <1>12, <1>13, <2>1, <3>1 DEF SeatSound
  <2>2. CASE s # a
    <3>1. SeatSound(t, t.seats[s]) /\ t.seats[s] \in SeatRecords
      BY <1>11 DEF InPlay
    <3>2. /\ t.seats[s].streetContribution \in Nat
          /\ t.seats[s].betLevel \in Nat \cup {NotActed}
      BY <3>1 DEF SeatRecords
    <3> QED BY <1>1, <1>8, <1>12, <1>13, <2>2, <3>1, <3>2 DEF SeatSound, NotActed
  <2> QED BY <2>1, <2>2
<1>17. \/ KeepsUp(new)
       \/ /\ Lone(t)
          /\ \A o \in Contenders(t) \ {a} : t.seats[o].streetContribution <= new.streetContribution
  <2>1. CASE action.type \in {"fold", "allIn"}
    BY <1>7, <1>9, <2>1 DEF KeepsUp, CanAct
  <2>2. CASE action.type \in {"check", "call", "bet", "raise"} /\ ~Lone(t)
    <3>1. level >= t.currentBet
      BY <1>1, <1>3, <1>8, <2>2
    <3>2. bet = level
      BY <1>1, <1>4, <1>8, <3>1
    <3> QED BY <1>9, <3>2 DEF KeepsUp
  <2>3. CASE action.type \in {"check", "call", "bet", "raise"} /\ Lone(t)
    BY <1>3, <1>9, <2>3
  <2> QED BY <1>3, <2>1, <2>2, <2>3
<1>18. /\ u.currentBet >= t.currentBet /\ u.minInc >= 20
       /\ u.pot > 0 /\ u.pot = ChipSum(Totals(u)) /\ u.seats[a].betLevel = u.currentBet
  BY <1>3, <1>6, <1>8, <1>9, <1>11, <1>12, <1>13, <1>14
<1>19. \/ KeepsUp(u.seats[a])
       \/ /\ Lone(t)
          /\ \A o \in Contenders(t) \ {a} :
                t.seats[o].streetContribution <= u.seats[a].streetContribution
  BY <1>13, <1>17
<1>20. \A s \in Seats : SeatSound(u, u.seats[s])
  BY <1>16
<1>21. paid = 0 => ~StillOwesAction(u, a) /\ u.currentBet = t.currentBet
  <2> SUFFICES ASSUME paid = 0 PROVE ~StillOwesAction(u, a) /\ u.currentBet = t.currentBet
    OBVIOUS
  <2>1. level = me.streetContribution /\ level <= t.currentBet
    BY <1>1, <1>2 DEF level
  <2>2. bet = t.currentBet
    BY <1>1, <1>4, <1>8, <2>1
  <2>3. CASE action.type = "fold"
    BY <1>7, <1>9, <1>12, <1>13, <2>2, <2>3 DEF StillOwesAction, CanAct
  <2>4. CASE action.type = "check" /\ level = t.currentBet
    <3>1. ~(level < bet) /\ bet # NotActed
      BY <1>8, <2>2, <2>4 DEF NotActed
    <3> QED BY <1>9, <1>12, <1>13, <2>2, <3>1 DEF StillOwesAction
  <2> QED BY <1>3, <2>3, <2>4
<1>22. /\ u.currentBet = BetAfter(t, action) /\ u.pot = t.pot + Delta(t, action)
       /\ Delta(t, action) \in Nat
       /\ u.minInc = IF IsFullRaise(t, action) THEN BetAfter(t, action) - t.currentBet ELSE t.minInc
       /\ Delta(t, action) = 0 => ~StillOwesAction(u, t.actor) /\ u.currentBet = t.currentBet
  BY <1>3, <1>12, <1>21 DEF bet, inc, paid, a
<1>23. /\ u.seats[t.actor].betLevel = u.currentBet
       /\ \A s \in Seats \ {t.actor} : u.seats[s] = t.seats[s]
       /\ \/ KeepsUp(u.seats[t.actor])
          \/ /\ Lone(t)
             /\ \A o \in Contenders(t) \ {t.actor} :
                   t.seats[o].streetContribution <= u.seats[t.actor].streetContribution
  BY <1>13, <1>18, <1>19 DEF a
<1> QED BY <1>12, <1>15, <1>18, <1>20, <1>22, <1>23 DEF u

-----------------------------------------------------------------------------
(* How a hand goes on after an action.                                     *)

\* A table after an action, before it is decided who is next.
AfterAction(u) ==
  /\ u.street \in ActionStreets /\ u.actor \in Seats /\ u.board = BoardOf(u.street)
  /\ u.minInc >= 20 /\ u.pot > 0 /\ u.pot = ChipSum(Totals(u))
  /\ u.street = "preflop" => u.currentBet >= BigBlind
  /\ \A s \in Seats : SeatSound(u, u.seats[s])
  /\ \A s \in Seats \ {u.actor} : KeepsUp(u.seats[s])
  /\ \/ KeepsUp(u.seats[u.actor])
     \/ /\ Actionable(u) = {u.actor}
        /\ \A o \in Contenders(u) \ {u.actor} :
              u.seats[o].streetContribution <= u.seats[u.actor].streetContribution

\* Who acts next on the street owes an action, and nobody is left behind
\* who acted at another bet than the one it has matched.
LEMMA WhoIsNext ==
  ASSUME NEW u \in TableRecords, AfterAction(u)
  PROVE  \/ Continuation(u) \in EndStreets
         \/ /\ Continuation(u) = "sameStreet" /\ NextResponder(u) \in Owing(u)
            /\ \A s \in Seats : KeepsUp(u.seats[s])
         \/ /\ Continuation(u) = "nextStreet" /\ Actionable(u) # {}
            /\ u.street \in {"preflop", "flop", "turn"}
<1> DEFINE A == Actionable(u)
           c == Continuation(u)
<1>1. IsFiniteSet(A) /\ A \in SUBSET Seats /\ Cardinality(A) \in Nat
  BY SeatsFinite DEF Actionable
<1>2. (A = {}) <=> (Cardinality(A) = 0)
  BY <1>1, FS_EmptySet
<1>3. \/ c \in EndStreets
      \/ Cardinality(A) = 1 /\ LoneActorMustMatch(u) /\ c = "sameStreet"
      \/ Cardinality(A) > 1 /\ Owing(u) # {} /\ c = "sameStreet"
      \/ Cardinality(A) > 1 /\ u.street # "river" /\ c = "nextStreet"
  <2>1. Cardinality(Contenders(u)) = 1 \/ A = {} \/ Cardinality(A) = 1 \/ Cardinality(A) > 1
    BY <1>1, <1>2
  <2>2. Owing(u) = {} \/ Owing(u) # {}
    OBVIOUS
  <2>3. CASE Cardinality(Contenders(u)) = 1
    BY <2>3 DEF Continuation, EndStreets
  <2>4. CASE Cardinality(Contenders(u)) # 1 /\ A = {}
    BY <2>4 DEF Continuation, EndStreets
  <2>5. CASE Cardinality(Contenders(u)) # 1 /\ A # {} /\ Cardinality(A) = 1
    BY <2>5 DEF Continuation, EndStreets
  <2>6. CASE Cardinality(Contenders(u)) # 1 /\ A # {} /\ Cardinality(A) > 1 /\ Owing(u) # {}
    <3>1. Cardinality(A) # 1
      BY <1>1, <2>6
    <3> QED BY <2>6, <3>1 DEF Continuation, EndStreets
  <2>7. CASE Cardinality(Contenders(u)) # 1 /\ A # {} /\ Cardinality(A) > 1 /\ Owing(u) = {}
    <3>1. Cardinality(A) # 1
      BY <1>1, <2>7
    <3> QED BY <2>7, <3>1 DEF Continuation, EndStreets
  <2> QED BY <1>2, <1>1, <2>1, <2>3, <2>4, <2>5, <2>6, <2>7
<1>4. \A s \in Seats \ {u.actor} : KeepsUp(u.seats[s])
  BY DEF AfterAction
<1>5. CASE Cardinality(A) = 1 /\ LoneActorMustMatch(u) /\ c = "sameStreet"
  <2>1. PICK x : A = {x}
    BY <1>1, <1>5, FS_Singleton
  <2>2. PICK s \in A : \E o \in Contenders(u) \ {s} :
           u.seats[o].streetContribution > u.seats[s].streetContribution
    BY <1>5 DEF LoneActorMustMatch
  <2>3. PICK o \in Contenders(u) \ {s} :
           u.seats[o].streetContribution > u.seats[s].streetContribution
    BY <2>2
  <2>4. s = x /\ NextResponder(u) = s /\ s \in Seats /\ CanAct(u.seats[s])
    BY <1>5, <2>1, <2>2 DEF NextResponder, Actionable
  <2>5. o \in Seats /\ u.seats[o].streetContribution <= u.currentBet
    BY <2>3 DEF AfterAction, SeatSound, Contenders
  <2>6. /\ u.seats[o].streetContribution \in Nat /\ u.seats[s].streetContribution \in Nat
        /\ u.currentBet \in Nat
    BY <2>4, <2>5 DEF TableRecords, SeatRecords
  <2>7. NextResponder(u) \in Owing(u)
    BY <2>3, <2>4, <2>5, <2>6 DEF Owing, StillOwesAction
  <2>8. KeepsUp(u.seats[u.actor])
    <3>1. ASSUME A = {u.actor}, \A p \in Contenders(u) \ {u.actor} :
                    u.seats[p].streetContribution <= u.seats[u.actor].streetContribution
          PROVE  FALSE
      <4>1. s = u.actor
        BY <2>2, <3>1
      <4>2. u.seats[o].streetContribution <= u.seats[s].streetContribution
        BY <2>3, <3>1, <4>1
      <4> QED BY <2>3, <2>6, <4>2
    <3> QED BY <3>1 DEF AfterAction
  <2> QED BY <1>4, <1>5, <2>7, <2>8
<1>6. CASE Cardinality(A) > 1 /\ Owing(u) # {} /\ c = "sameStreet"
  <2>1. Cardinality(A) # 1 /\ A # {u.actor}
    BY <1>1, <1>6, FS_Singleton
  <2>2. KeepsUp(u.seats[u.actor])
    BY <2>1 DEF AfterAction
  <2>3. Owing(u) \in SUBSET Seats /\ u.actor \in Seats
    BY DEF Owing, AfterAction
  <2>4. NextResponder(u) \in Owing(u)
    BY <1>6, <2>1, <2>3, FirstIn DEF NextResponder
  <2> QED BY <1>4, <1>6, <2>2, <2>4
<1>7. CASE Cardinality(A) > 1 /\ u.street # "river" /\ c = "nextStreet"
  <2>1. A # {}
    BY <1>2, <1>7
  <2>2. u.street \in {"preflop", "flop", "turn"}
    BY <1>7 DEF AfterAction, ActionStreets
  <2> QED BY <1>7, <2>1, <2>2
<1> QED BY <1>3, <1>5, <1>6, <1>7

\* The table a hand goes on with, or ends with.
LEMMA HandGoesOn ==
  ASSUME NEW u \in TableRecords, AfterAction(u)
  PROVE  LET v == Continued(u)
         IN  /\ v \in TableRecords /\ v.pot = u.pot /\ Stacks(v) = Stacks(u) /\ Totals(v) = Totals(u)
             /\ \A s \in Seats : v.seats[s].status = u.seats[s].status
             /\ \/ /\ v.street = u.street /\ InPlay(v) /\ v.seats = u.seats
                   /\ v.currentBet = u.currentBet /\ v.minInc = u.minInc
                \/ /\ v.street \in ActionStreets /\ InPlay(v)
                   /\ BoardOf(v.street) > BoardOf(u.street) /\ v.minInc = BigBlind
                   /\ \A s \in Seats : v.seats[s].betLevel = NotActed
                \/ /\ v.street \in EndStreets /\ v.actor = NoSeat
                   /\ \A s \in Seats : /\ v.seats[s].status # "out"
                                       /\ v.seats[s].streetContribution <= v.seats[s].totalContribution
<1> DEFINE v == Continued(u)
           c == Continuation(u)
<1>1. /\ u.street \in ActionStreets /\ u.actor \in Seats /\ u.board = BoardOf(u.street)
      /\ u.minInc >= 20 /\ u.pot > 0 /\ u.pot = ChipSum(Totals(u))
      /\ u.street = "preflop" => u.currentBet >= BigBlind
      /\ \A s \in Seats : SeatSound(u, u.seats[s])
  BY DEF AfterAction
<1>2. /\ u.seats \in [Seats -> SeatRecords] /\ u.button \in Seats /\ u.pot \in Nat
      /\ u.currentBet \in Nat /\ u.minInc \in Nat
  BY DEF TableRecords
<1>3. CASE c \in EndStreets
  <2> DEFINE seats == [s \in Seats |-> [u.seats[s] EXCEPT !.betLevel = NotActed]]
             board == IF c = "showdown" THEN 5 ELSE u.board
  <2>1. v = [u EXCEPT !.street = c, !.actor = NoSeat, !.currentBet = 0, !.minInc = 20,
                      !.board = board, !.seats = seats]
    <3>1. v = TerminalHand(u, c)
      BY <1>3 DEF Continued, EndStreets
    <3> QED BY <3>1 DEF TerminalHand
  <2>2. seats \in [Seats -> SeatRecords]
    <3> SUFFICES ASSUME NEW s \in Seats
                 PROVE  [u.seats[s] EXCEPT !.betLevel = NotActed] \in SeatRecords
      OBVIOUS
    <3>1. u.seats[s] \in SeatRecords
      BY <1>2
    <3> QED BY <3>1 DEF SeatRecords
  <2>3. \A s \in Seats : /\ seats[s].status = u.seats[s].status
                         /\ seats[s].stack = u.seats[s].stack
                         /\ seats[s].streetContribution = u.seats[s].streetContribution
                         /\ seats[s].totalContribution = u.seats[s].totalContribution
    BY <1>2 DEF SeatRecords
  <2>4. board \in 0 .. 5 /\ c \in Streets /\ 20 \in Nat
    BY <1>3 DEF TableRecords, Streets
  <2> HIDE DEF v, c, seats, board
  <2>5. /\ v \in TableRecords /\ v.pot = u.pot /\ v.seats = seats /\ v.street = c
        /\ v.actor = NoSeat
    BY <2>1, <2>2, <2>4 DEF TableRecords
  <2>6. Stacks(v) = Stacks(u) /\ Totals(v) = Totals(u)
    BY <2>3, <2>5 DEF Stacks, Totals
  <2>7. \A s \in Seats : /\ v.seats[s].status # "out"
                         /\ v.seats[s].streetContribution <= v.seats[s].totalContribution
    BY <1>1, <2>3, <2>5 DEF SeatSound
  <2>8. \A s \in Seats : v.seats[s].status = u.seats[s].status
    BY <2>3, <2>5
  <2> QED BY <1>3, <2>5, <2>6, <2>7, <2>8 DEF v
<1>4. CASE /\ c = "sameStreet" /\ NextResponder(u) \in Owing(u)
           /\ \A s \in Seats : KeepsUp(u.seats[s])
  <2> DEFINE n == NextResponder(u)
  <2>1. v = [u EXCEPT !.actor = n]
    BY <1>4 DEF Continued, EndStreets
  <2>2. n \in Seats /\ StillOwesAction(u, n)
    BY <1>4 DEF Owing
  <2> HIDE DEF v, n
  <2>3. /\ v \in TableRecords /\ v.pot = u.pot /\ v.seats = u.seats /\ v.street = u.street
        /\ v.currentBet = u.currentBet /\ v.minInc = u.minInc /\ v.board = u.board /\ v.actor = n
    BY <2>1, <2>2 DEF TableRecords
  <2>4. Stacks(v) = Stacks(u) /\ Totals(v) = Totals(u)
    BY <2>3 DEF Stacks, Totals
  <2>5. StillOwesAction(v, v.actor) /\ \A s \in Seats : SeatSound(v, v.seats[s])
    BY <1>1, <2>2, <2>3 DEF StillOwesAction, SeatSound
  <2>6. InPlay(v)
    BY <1>1, <1>4, <2>2, <2>3, <2>4, <2>5 DEF InPlay
  <2> QED BY <1>1, <2>3, <2>4, <2>6 DEF v
<1>5. CASE /\ c = "nextStreet" /\ Actionable(u) # {}
           /\ u.street \in {"preflop", "flop", "turn"}
  <2> DEFINE seats == [s \in Seats |-> [u.seats[s] EXCEPT !.streetContribution = 0,
                                                           !.betLevel = NotActed]]
             street == NextStreetOf(u.street)
             a == FirstClockwise(u.button, Actionable(u))
             board == BoardOf(street)
  <2>1. v = [u EXCEPT !.street = street, !.board = board, !.actor = a,
                      !.currentBet = 0, !.minInc = 20, !.seats = seats]
    BY <1>5 DEF Continued, AdvancedStreet, EndStreets
  <2>2. seats \in [Seats -> SeatRecords]
    <3> SUFFICES ASSUME NEW s \in Seats
                 PROVE  [u.seats[s] EXCEPT !.streetContribution = 0, !.betLevel = NotActed]
                          \in SeatRecords
      OBVIOUS
    <3>1. u.seats[s] \in SeatRecords
      BY <1>2
    <3> QED BY <3>1 DEF SeatRecords
  <2>3. \A s \in Seats : /\ seats[s].status = u.seats[s].status
                         /\ seats[s].stack = u.seats[s].stack
                         /\ seats[s].streetContribution = 0
                         /\ seats[s].totalContribution = u.seats[s].totalContribution
                         /\ seats[s].betLevel = NotActed
    BY <1>2 DEF SeatRecords
  <2>4. street \in {"flop", "turn", "river"} /\ board \in 0 .. 5
    BY <1>5 DEF NextStreetOf, BoardOf
  <2>5. a \in Actionable(u) /\ a \in Seats /\ CanAct(u.seats[a])
    <3>1. Actionable(u) \in SUBSET Seats
      BY DEF Actionable
    <3>2. a \in Actionable(u)
      BY <1>2, <1>5, <3>1, FirstIn
    <3> QED BY <3>2 DEF Actionable
  <2>6. board = BoardOf(street) /\ street \in ActionStreets /\ street \in Streets
    BY <2>4 DEF ActionStreets, Streets
  <2> HIDE DEF v, c, seats, board, street, a
  <2>7. /\ v \in TableRecords /\ v.pot = u.pot /\ v.seats = seats /\ v.street = street
        /\ v.currentBet = 0 /\ v.minInc = 20 /\ v.board = board /\ v.actor = a
    <3>1. 20 \in Nat /\ 0 \in Nat
      OBVIOUS
    <3> QED BY <2>1, <2>2, <2>4, <2>5, <2>6, <3>1 DEF TableRecords
  <2>8. Stacks(v) = Stacks(u) /\ Totals(v) = Totals(u)
    BY <2>3, <2>7 DEF Stacks, Totals
  <2>9. \A s \in Seats : SeatSound(v, v.seats[s]) /\ KeepsUp(v.seats[s])
    <3> SUFFICES ASSUME NEW s \in Seats PROVE SeatSound(v, v.seats[s]) /\ KeepsUp(v.seats[s])
      OBVIOUS
    <3>1. u.seats[s].totalContribution \in Nat
      BY <1>2 DEF SeatRecords
    <3>2. SeatSound(u, u.seats[s])
      BY <1>1
    <3> QED BY <2>3, <2>7, <3>1, <3>2 DEF SeatSound, KeepsUp, NotActed
  <2>10. StillOwesAction(v, v.actor)
    BY <2>3, <2>5, <2>7 DEF StillOwesAction, CanAct
  <2>11. v.street # "preflop" /\ 20 >= 20
    BY <2>4, <2>7
  <2>12. InPlay(v)
    BY <1>1, <2>5, <2>6, <2>7, <2>8, <2>9, <2>10, <2>11 DEF InPlay
  <2>13. /\ \A s \in Seats : v.seats[s].status = u.seats[s].status
         /\ \A s \in Seats : v.seats[s].betLevel = NotActed
    BY <2>3, <2>7
  <2>14. BoardOf(v.street) > BoardOf(u.street) /\ v.minInc = BigBlind
    <3>1. BoardOf(street) > BoardOf(u.street)
      BY <1>5 DEF BoardOf, NextStreetOf, street
    <3> QED BY <2>7, <3>1 DEF BigBlind
  <2> QED BY <2>6, <2>7, <2>8, <2>12, <2>13, <2>14 DEF v
<1> QED BY <1>3, <1>4, <1>5, WhoIsNext

-----------------------------------------------------------------------------
(* How a hand starts.                                                      *)

\* The blinds are posted from the stacks: everybody is in the hand, and the
\* first to act has not acted.
LEMMA HandStarted ==
  ASSUME NEW t \in TableRecords, AtRest(t), ReadySeats(t), NEW n \in Nat
  PROVE  LET v == StartedHand(t, n)
         IN  /\ v \in TableRecords /\ v.street = "preflop" /\ InPlay(v)
             /\ ChipSum(Stacks(v)) + v.pot = ChipSum(Stacks(t))
             /\ v.minInc = BigBlind /\ v.board = 0
             /\ \A s \in Seats : InHand(v.seats[s]) /\ v.seats[s].betLevel = NotActed
<1> DEFINE v == StartedHand(t, n)
           button == ButtonForHand(t.button, n)
           sb == SmallBlindSeat(button)
           bb == BigBlindSeat(button)
           fresh == [s \in Seats |-> [t.seats[s] EXCEPT !.betLevel = NotActed]]
           seats == PostBlinds(fresh, button)
           able == {s \in Seats : CanAct(seats[s])}
           total == [s \in Seats |-> seats[s].totalContribution]
           stack == [s \in Seats |-> seats[s].stack]
<1>1. button \in Seats
  <2>1. t.button \in Seats /\ Seats # {} /\ Seats \in SUBSET Seats
    BY SeatsLeft DEF TableRecords
  <2>2. FirstClockwise(t.button, Seats) \in Seats
    BY <2>1, FirstIn
  <2> QED BY <2>1, <2>2 DEF ButtonForHand
<1>2. sb \in Seats /\ bb \in Seats /\ sb # bb
  <2> HIDE DEF button
  <2> QED BY <1>1, BlindSeats
<1>3. \A s \in Seats : /\ t.seats[s] \in SeatRecords /\ t.seats[s].status = "active"
                       /\ t.seats[s].stack > 0 /\ t.seats[s].streetContribution = 0
                       /\ t.seats[s].totalContribution = 0
  BY DEF ReadySeats, AtRest, TableRecords
<1>4. \A s \in Seats : /\ fresh[s] \in SeatRecords /\ fresh[s].status = "active"
                       /\ fresh[s].stack = t.seats[s].stack /\ fresh[s].stack > 0
                       /\ fresh[s].streetContribution = 0
                       /\ fresh[s].totalContribution = 0 /\ fresh[s].betLevel = NotActed
  BY <1>3 DEF SeatRecords
<1>5. DOMAIN fresh = Seats
  OBVIOUS
<1>6. seats = [fresh EXCEPT ![sb] = PostBlind(@, SmallBlind), ![bb] = PostBlind(@, BigBlind)]
  BY DEF PostBlinds
<1>7. v = [street |-> "preflop", button |-> button, actor |-> FirstClockwise(bb, able),
           pot |-> ChipSum(total), currentBet |-> BigBlind, minInc |-> BigBlind,
           board |-> 0, seats |-> seats]
  BY DEF StartedHand
<1> HIDE DEF v, button, sb, bb, fresh, seats
<1>8. /\ DOMAIN seats = Seats
      /\ seats[sb] = PostBlind(fresh[sb], SmallBlind) /\ seats[bb] = PostBlind(fresh[bb], BigBlind)
      /\ \A s \in Seats \ {sb, bb} : seats[s] = fresh[s]
      /\ seats = [s \in Seats |-> seats[s]]
  BY <1>2, <1>5, <1>6
<1>9. \A s \in {sb, bb} :
        /\ seats[s] \in SeatRecords /\ seats[s].status \in {"active", "allIn"}
        /\ seats[s].betLevel = NotActed
        /\ seats[s].status = "allIn" => seats[s].stack = 0
        /\ seats[s].streetContribution = seats[s].totalContribution
        /\ seats[s].streetContribution <= BigBlind
        /\ seats[s].totalContribution > 0
        /\ seats[s].stack + seats[s].totalContribution = fresh[s].stack
  <2>1. SmallBlind \in {SmallBlind, BigBlind} /\ BigBlind \in {SmallBlind, BigBlind}
    OBVIOUS
  <2>2. PICK x : x = fresh[sb]
    OBVIOUS
  <2>3. PICK y : y = fresh[bb]
    OBVIOUS
  <2>4. /\ x \in SeatRecords /\ x.status = "active" /\ x.stack > 0
        /\ x.streetContribution = 0 /\ x.totalContribution = 0 /\ x.betLevel = NotActed
    BY <1>2, <1>4, <2>2
  <2>5. /\ y \in SeatRecords /\ y.status = "active" /\ y.stack > 0
        /\ y.streetContribution = 0 /\ y.totalContribution = 0 /\ y.betLevel = NotActed
    BY <1>2, <1>4, <2>3
  <2>6. LET u == PostBlind(x, SmallBlind)
        IN  /\ u \in SeatRecords /\ u.status \in {"active", "allIn"} /\ u.betLevel = NotActed
            /\ u.status = "allIn" => u.stack = 0
            /\ u.streetContribution = u.totalContribution /\ u.streetContribution <= BigBlind
            /\ u.totalContribution > 0 /\ u.stack + u.totalContribution = x.stack
    BY <2>1, <2>4, BlindPosted
  <2>7. LET u == PostBlind(y, BigBlind)
        IN  /\ u \in SeatRecords /\ u.status \in {"active", "allIn"} /\ u.betLevel = NotActed
            /\ u.status = "allIn" => u.stack = 0
            /\ u.streetContribution = u.totalContribution /\ u.streetContribution <= BigBlind
            /\ u.totalContribution > 0 /\ u.stack + u.totalContribution = y.stack
    BY <2>1, <2>5, BlindPosted
  <2>8. seats[sb] = PostBlind(x, SmallBlind) /\ seats[bb] = PostBlind(y, BigBlind)
    BY <1>8, <2>2, <2>3
  <2> QED BY <2>2, <2>3, <2>6, <2>7, <2>8
<1>10. \A s \in Seats :
        /\ seats[s] \in SeatRecords /\ seats[s].status \in {"active", "allIn"}
        /\ seats[s].betLevel = NotActed
        /\ seats[s].status = "allIn" => seats[s].stack = 0
        /\ seats[s].streetContribution = seats[s].totalContribution
        /\ seats[s].streetContribution <= BigBlind
        /\ seats[s].stack + seats[s].totalContribution = t.seats[s].stack
  <2> SUFFICES ASSUME NEW s \in Seats
               PROVE  /\ seats[s] \in SeatRecords /\ seats[s].status \in {"active", "allIn"}
                      /\ seats[s].betLevel = NotActed
                      /\ seats[s].status = "allIn" => seats[s].stack = 0
                      /\ seats[s].streetContribution = seats[s].totalContribution
                      /\ seats[s].streetContribution <= BigBlind
                      /\ seats[s].stack + seats[s].totalContribution = t.seats[s].stack
    OBVIOUS
  <2>1. CASE s \in {sb, bb}
    BY <1>4, <1>9, <2>1
  <2>2. CASE s \notin {sb, bb}
    <3>1. seats[s] = fresh[s] /\ t.seats[s].stack \in Nat /\ BigBlind >= 0
      BY <1>3, <1>8, <2>2 DEF SeatRecords, BigBlind
    <3> QED BY <1>4, <3>1
  <2> QED BY <2>1, <2>2
<1>11. able # {} /\ able \in SUBSET Seats
  <2>1. PICK s \in Seats : s \notin {sb, bb}
    BY SeatsLeft
  <2>2. CanAct(seats[s])
    BY <1>4, <1>8, <2>1 DEF CanAct
  <2> QED BY <2>1, <2>2
<1>12. v.actor \in able
  <2>1. FirstClockwise(bb, able) \in able
    <3> HIDE DEF able
    <3> QED BY <1>2, <1>11, FirstIn
  <2> QED BY <1>7, <2>1
<1>13. seats \in [Seats -> SeatRecords]
  BY <1>8, <1>10
<1>14. total \in [Seats -> Nat] /\ stack \in [Seats -> Nat]
  BY <1>10 DEF SeatRecords
<1>15. ChipSum(total) \in Nat /\ ChipSum(total) > 0
  <2>1. ChipSum(total) \in Nat /\ total[sb] <= ChipSum(total)
    <3> HIDE DEF total
    <3> QED BY <1>2, <1>14, ChipsNat
  <2>2. total[sb] > 0 /\ total[sb] \in Nat
    BY <1>2, <1>9, <1>14
  <2> HIDE DEF total
  <2> QED BY <2>1, <2>2
<1>16. /\ v.street = "preflop" /\ v.button = button /\ v.pot = ChipSum(total)
       /\ v.currentBet = BigBlind /\ v.minInc = BigBlind /\ v.board = 0 /\ v.seats = seats
  BY <1>7
<1>17. v \in TableRecords
  <2>1. v.actor \in Seats /\ "preflop" \in Streets /\ BigBlind \in Nat /\ 0 \in 0 .. 5
    BY <1>12 DEF Streets, ActionStreets, BigBlind
  <2> HIDE DEF total, able
  <2> QED BY <1>1, <1>7, <1>13, <1>15, <2>1 DEF TableRecords
<1>18. InPlay(v)
  <2>1. \A s \in Seats : SeatSound(v, v.seats[s]) /\ KeepsUp(v.seats[s])
    <3> SUFFICES ASSUME NEW s \in Seats PROVE SeatSound(v, v.seats[s]) /\ KeepsUp(v.seats[s])
      OBVIOUS
    <3>1. seats[s].totalContribution \in Nat /\ BigBlind >= NotActed
      BY <1>10 DEF SeatRecords, BigBlind, NotActed
    <3> QED BY <1>10, <1>16, <3>1 DEF SeatSound, KeepsUp
  <2>2. v.board = BoardOf(v.street) /\ v.minInc >= 20 /\ v.currentBet >= BigBlind
    BY <1>16 DEF BoardOf, BigBlind
  <2>3. v.actor \in Seats /\ StillOwesAction(v, v.actor)
    BY <1>10, <1>12, <1>16 DEF StillOwesAction
  <2>4. Totals(v) = total
    BY <1>16 DEF Totals
  <2> QED BY <1>15, <1>16, <2>1, <2>2, <2>3, <2>4 DEF InPlay
<1>19. ChipSum(Stacks(v)) + v.pot = ChipSum(Stacks(t))
  <2>1. stack \in [Seats -> Int] /\ total \in [Seats -> Int]
    BY <1>14
  <2>2. Stacks(v) = stack /\ Stacks(t) = [s \in Seats |-> stack[s] + total[s]]
    BY <1>10, <1>16 DEF Stacks
  <2> HIDE DEF stack, total
  <2>3. ChipSum([s \in Seats |-> stack[s] + total[s]]) = ChipSum(stack) + ChipSum(total)
    BY <2>1, ChipsAdd
  <2> QED BY <1>16, <2>2, <2>3 DEF total
<1>20. \A s \in Seats : InHand(v.seats[s]) /\ v.seats[s].betLevel = NotActed
  BY <1>10, <1>16 DEF InHand
<1> QED BY <1>16, <1>17, <1>18, <1>19, <1>20 DEF v

\* What the broke AI seats buy is added to the stacks as to the accounts.
LEMMA AutoBought ==
  ASSUME NEW t \in TableRecords, AtRest(t), NEW bought \in [Seats -> Nat],
         ChipSum(Stacks(t)) = ChipSum(bought)
  PROVE  LET u == AutoRebought(t)
             accounts == [s \in Seats |-> IF s # UserSeat /\ t.seats[s].stack = 0
                                          THEN bought[s] + BuyIn ELSE bought[s]]
         IN  /\ u \in TableRecords /\ AtRest(u) /\ accounts \in [Seats -> Nat]
             /\ ChipSum(Stacks(u)) = ChipSum(accounts)
<1> DEFINE u == AutoRebought(t)
           Broke(s) == s # UserSeat /\ t.seats[s].stack = 0
           accounts == [s \in Seats |-> IF Broke(s) THEN bought[s] + BuyIn ELSE bought[s]]
           extra == [s \in Seats |-> IF Broke(s) THEN BuyIn ELSE 0]
           seats == [s \in Seats |->
                       IF Broke(s) THEN [t.seats[s] EXCEPT !.stack = BuyIn, !.status = "active"]
                       ELSE t.seats[s]]
<1>1. BuyIn \in Nat /\ BuyIn > 0
  BY BuyInAssumption
<1>2. u = [t EXCEPT !.seats = seats]
  BY DEF AutoRebought
<1>3. \A s \in Seats : t.seats[s] \in SeatRecords
  BY DEF TableRecords
<1>4. \A s \in Seats : /\ seats[s] \in SeatRecords
                       /\ seats[s].stack = t.seats[s].stack + extra[s]
                       /\ seats[s].status = IF seats[s].stack > 0 THEN "active" ELSE "out"
                       /\ seats[s].streetContribution = 0 /\ seats[s].totalContribution = 0
  <2> SUFFICES ASSUME NEW s \in Seats
               PROVE  /\ seats[s] \in SeatRecords
                      /\ seats[s].stack = t.seats[s].stack + extra[s]
                      /\ seats[s].status = IF seats[s].stack > 0 THEN "active" ELSE "out"
                      /\ seats[s].streetContribution = 0 /\ seats[s].totalContribution = 0
    OBVIOUS
  <2>1. /\ t.seats[s] \in SeatRecords /\ t.seats[s].stack \in Nat
        /\ t.seats[s].status = IF t.seats[s].stack > 0 THEN "active" ELSE "out"
        /\ t.seats[s].streetContribution = 0 /\ t.seats[s].totalContribution = 0
    BY <1>3 DEF AtRest, SeatRecords
  <2>2. CASE Broke(s)
    <3>1. seats[s] = [t.seats[s] EXCEPT !.stack = BuyIn, !.status = "active"] /\ extra[s] = BuyIn
      BY <2>2
    <3>2. t.seats[s].stack + extra[s] = BuyIn
      BY <1>1, <2>2, <3>1
    <3> HIDE DEF seats, extra
    <3>3. seats[s].stack = BuyIn /\ seats[s].status = "active"
      BY <2>1, <3>1 DEF SeatRecords
    <3>4. seats[s] \in SeatRecords /\ seats[s].streetContribution = 0
            /\ seats[s].totalContribution = 0
      BY <1>1, <2>1, <3>1 DEF SeatRecords, Statuses
    <3> QED BY <1>1, <3>2, <3>3, <3>4
  <2>3. CASE ~Broke(s)
    <3>1. seats[s] = t.seats[s] /\ extra[s] = 0
      BY <2>3
    <3> HIDE DEF seats, extra
    <3>2. t.seats[s].stack = t.seats[s].stack + extra[s]
      BY <2>1, <3>1
    <3> QED BY <2>1, <3>1, <3>2
  <2> QED BY <2>2, <2>3
<1>5. seats \in [Seats -> SeatRecords]
  BY <1>4
<1>6. extra \in [Seats -> Int] /\ bought \in [Seats -> Int] /\ Stacks(t) \in [Seats -> Int]
  BY <1>1, <1>3 DEF Stacks, SeatRecords
<1>7. accounts \in [Seats -> Nat] /\ accounts = [s \in Seats |-> bought[s] + extra[s]]
  BY <1>1
<1> HIDE DEF u, seats
<1>8. u \in TableRecords /\ u.seats = seats /\ AtRest(u)
  <2>1. u \in TableRecords /\ u.seats = seats /\ u.street = t.street /\ u.actor = t.actor
        /\ u.pot = t.pot /\ u.board = t.board
    BY <1>2, <1>5 DEF TableRecords
  <2> QED BY <1>4, <2>1 DEF AtRest
<1>9. Stacks(u) = [s \in Seats |-> Stacks(t)[s] + extra[s]]
  BY <1>4, <1>8 DEF Stacks
<1>10. /\ ChipSum([s \in Seats |-> bought[s] + extra[s]]) = ChipSum(bought) + ChipSum(extra)
       /\ ChipSum([s \in Seats |-> Stacks(t)[s] + extra[s]]) = ChipSum(Stacks(t)) + ChipSum(extra)
  <2> HIDE DEF extra
  <2> QED BY <1>6, ChipsAdd
<1> QED BY <1>7, <1>8, <1>9, <1>10 DEF u

\* After an action every other seat is as it was, and the seat that acted has
\* matched the bet, or all that can be won from the others.
LEMMA ActionLeaves ==
  ASSUME NEW t \in TableRecords, t.street \in ActionStreets, InPlay(t), BettingOpen(t),
         NEW action, ActionAccepted(t, t.actor, action)
  PROVE  AfterAction(BettingTransition(t, action))
<1> DEFINE u == BettingTransition(t, action)
<1>1. /\ u \in TableRecords
      /\ u.street = t.street /\ u.button = t.button /\ u.actor = t.actor /\ u.board = t.board
      /\ u.currentBet >= t.currentBet /\ u.minInc >= 20
      /\ u.pot > 0 /\ u.pot = ChipSum(Totals(u))
      /\ ChipSum(Stacks(u)) + u.pot = ChipSum(Stacks(t)) + t.pot
      /\ \A s \in Seats : SeatSound(u, u.seats[s])
      /\ \A s \in Seats \ {t.actor} : u.seats[s] = t.seats[s]
      /\ \/ KeepsUp(u.seats[t.actor])
         \/ /\ Lone(t)
            /\ \A o \in Contenders(t) \ {t.actor} :
                  t.seats[o].streetContribution <= u.seats[t.actor].streetContribution
  BY ActionTaken
<1> HIDE DEF u
<1>2. /\ t.actor \in Seats /\ CanAct(t.seats[t.actor]) /\ InHand(t.seats[t.actor])
      /\ t.board = BoardOf(t.street)
      /\ t.street = "preflop" => t.currentBet >= BigBlind
      /\ \A s \in Seats : KeepsUp(t.seats[s])
  BY DEF InPlay, StillOwesAction, CanAct, InHand
<1>3. u.street = "preflop" => u.currentBet >= BigBlind
  <2>1. t.currentBet \in Nat /\ u.currentBet \in Nat /\ BigBlind \in Nat
    BY <1>1 DEF TableRecords, BigBlind
  <2> QED BY <1>1, <1>2, <2>1
<1>4. \/ KeepsUp(u.seats[u.actor])
      \/ /\ Actionable(u) = {u.actor}
         /\ \A o \in Contenders(u) \ {u.actor} :
               u.seats[o].streetContribution <= u.seats[u.actor].streetContribution
  <2> SUFFICES ASSUME ~KeepsUp(u.seats[u.actor])
               PROVE  /\ Actionable(u) = {u.actor}
                      /\ \A o \in Contenders(u) \ {u.actor} :
                            u.seats[o].streetContribution <= u.seats[u.actor].streetContribution
    OBVIOUS
  <2>1. /\ Lone(t)
        /\ \A o \in Contenders(t) \ {t.actor} :
              t.seats[o].streetContribution <= u.seats[t.actor].streetContribution
    BY <1>1
  <2>2. Actionable(t) = {t.actor}
    <3>1. IsFiniteSet(Actionable(t)) /\ t.actor \in Actionable(t)
      BY <1>2, SeatsFinite DEF Actionable
    <3> QED BY <2>1, <3>1, FS_Singleton DEF Lone
  <2>3. CanAct(u.seats[u.actor])
    BY DEF KeepsUp
  <2>4. Actionable(u) = {u.actor}
    BY <1>1, <1>2, <2>2, <2>3 DEF Actionable
  <2>5. Contenders(u) \ {u.actor} = Contenders(t) \ {t.actor}
    BY <1>1 DEF Contenders
  <2>6. ASSUME NEW o \in Contenders(u) \ {u.actor}
        PROVE  u.seats[o].streetContribution <= u.seats[u.actor].streetContribution
    <3>1. o \in Contenders(t) \ {t.actor} /\ o \in Seats \ {t.actor}
      BY <2>5, <2>6 DEF Contenders
    <3> QED BY <1>1, <2>1, <3>1
  <2> QED BY <2>4, <2>6
<1>5. \A s \in Seats \ {u.actor} : KeepsUp(u.seats[s])
  BY <1>1, <1>2
<1> QED BY <1>1, <1>2, <1>3, <1>4, <1>5 DEF AfterAction, u

\* The hand after an action of the seat whose turn it was: it goes on along
\* the street, on the next street, or it has ended.
LEMMA HandProgress ==
  ASSUME NEW t \in TableRecords, t.street \in ActionStreets, InPlay(t), BettingOpen(t),
         NEW action, ActionAccepted(t, t.actor, action)
  PROVE  LET v == Progress(t, action)
         IN  /\ v \in TableRecords /\ v.pot > 0 /\ v.pot = ChipSum(Totals(v))
             /\ ChipSum(Stacks(v)) + v.pot = ChipSum(Stacks(t)) + t.pot
             /\ \A s \in Seats : InHand(v.seats[s]) => InHand(t.seats[s])
             /\ \/ /\ v.street = t.street /\ InPlay(v)
                   /\ v.seats = BettingTransition(t, action).seats
                   /\ v.currentBet = BettingTransition(t, action).currentBet
                   /\ v.minInc = BettingTransition(t, action).minInc
                   /\ v.pot = BettingTransition(t, action).pot
                \/ /\ v.street \in ActionStreets /\ InPlay(v)
                   /\ BoardOf(v.street) > BoardOf(t.street) /\ v.minInc = BigBlind
                   /\ \A s \in Seats : v.seats[s].betLevel = NotActed
                \/ /\ v.street \in EndStreets /\ v.actor = NoSeat
                   /\ \A s \in Seats : /\ v.seats[s].status # "out"
                                       /\ v.seats[s].streetContribution <= v.seats[s].totalContribution
<1> DEFINE u == BettingTransition(t, action)
           v == Progress(t, action)
<1>1. /\ u \in TableRecords
      /\ u.street = t.street /\ u.actor = t.actor
      /\ ChipSum(Stacks(u)) + u.pot = ChipSum(Stacks(t)) + t.pot
      /\ u.pot > 0 /\ u.pot = ChipSum(Totals(u))
      /\ \A s \in Seats \ {t.actor} : u.seats[s] = t.seats[s]
  BY ActionTaken
<1>2. v = Continued(u) /\ AfterAction(u)
  BY ActionLeaves DEF Progress
<1>3. t.actor \in Seats /\ InHand(t.seats[t.actor])
  BY DEF InPlay, StillOwesAction, CanAct, InHand
<1> HIDE DEF u, v
<1>4. /\ v \in TableRecords /\ v.pot = u.pot /\ Stacks(v) = Stacks(u) /\ Totals(v) = Totals(u)
      /\ \A s \in Seats : v.seats[s].status = u.seats[s].status
      /\ \/ /\ v.street = u.street /\ InPlay(v) /\ v.seats = u.seats
            /\ v.currentBet = u.currentBet /\ v.minInc = u.minInc
         \/ /\ v.street \in ActionStreets /\ InPlay(v)
            /\ BoardOf(v.street) > BoardOf(u.street) /\ v.minInc = BigBlind
            /\ \A s \in Seats : v.seats[s].betLevel = NotActed
         \/ /\ v.street \in EndStreets /\ v.actor = NoSeat
            /\ \A s \in Seats : /\ v.seats[s].status # "out"
                                /\ v.seats[s].streetContribution <= v.seats[s].totalContribution
  BY <1>1, <1>2, HandGoesOn
<1>5. \A s \in Seats : InHand(v.seats[s]) => InHand(t.seats[s])
  BY <1>1, <1>3, <1>4 DEF InHand
<1> QED BY <1>1, <1>4, <1>5 DEF u, v

-----------------------------------------------------------------------------
(* The table keeps its invariant.                                          *)

LEMMA ChipsOfPot ==
  ASSUME NEW t \in TableRecords, t.pot > 0, t.pot = ChipSum(Totals(t))
  PROVE  Levels(t.seats) # {}
<1> SUFFICES ASSUME Levels(t.seats) = {} PROVE FALSE
  OBVIOUS
<1>1. \A s \in Seats : t.seats[s].totalContribution = 0
  BY DEF Levels
<1>2. Totals(t) = [s \in Seats |-> 0]
  BY <1>1 DEF Totals
<1>3. t.pot = 0
  BY <1>2, NoChips
<1> QED BY <1>3

LEMMA TableInit == Init => TableInv
<1> SUFFICES ASSUME Init PROVE TableInv
  OBVIOUS
<1>1. PICK first \in FirstTables :
        /\ table = [street |-> "betweenHands", button |-> first.button, actor |-> NoSeat,
                    pot |-> 0, currentBet |-> 0, minInc |-> 20, board |-> 0,
                    seats |-> [s \in Seats |->
                       [status |-> IF first.stack[s] > 0 THEN "active" ELSE "out",
                        stack |-> first.stack[s], streetContribution |-> 0,
                        totalContribution |-> 0, betLevel |-> NotActed]]]
        /\ handCount = first.hands
        /\ buyIn = first.bought
  BY DEF Init
<1>2. /\ first.stack \in [Seats -> Nat] /\ first.bought \in [Seats -> Nat]
      /\ first.button \in Seats /\ first.hands \in Nat
      /\ ChipSum(first.stack) = ChipSum(first.bought)
  BY TablesAssumption
<1> DEFINE seats == [s \in Seats |->
                       [status |-> IF first.stack[s] > 0 THEN "active" ELSE "out",
                        stack |-> first.stack[s], streetContribution |-> 0,
                        totalContribution |-> 0, betLevel |-> NotActed]]
<1>3. seats \in [Seats -> SeatRecords]
  BY <1>2 DEF SeatRecords, Statuses
<1>4. \A s \in Seats : /\ seats[s].status = IF seats[s].stack > 0 THEN "active" ELSE "out"
                       /\ seats[s].stack = first.stack[s]
                       /\ seats[s].streetContribution = 0 /\ seats[s].totalContribution = 0
  OBVIOUS
<1>5. /\ table.street = "betweenHands" /\ table.button = first.button /\ table.actor = NoSeat
      /\ table.pot = 0 /\ table.board = 0 /\ table.seats = seats
  BY <1>1
<1> HIDE DEF seats
<1>6. table \in TableRecords
  <2>1. "betweenHands" \in Streets /\ 0 \in Nat /\ 20 \in Nat /\ 0 \in 0 .. 5
    BY DEF Streets
  <2> QED BY <1>1, <1>2, <1>3, <2>1 DEF TableRecords, seats
<1>7. AtRest(table)
  BY <1>4, <1>5 DEF AtRest
<1>8. ChipsConserved
  <2>1. [s \in Seats |-> table.seats[s].stack] = first.stack
    BY <1>2, <1>4, <1>5
  <2>2. first.stack \in [Seats -> Int]
    BY <1>2
  <2>3. ChipSum(first.stack) \in Int
    BY <2>2, ChipsAdd
  <2> QED BY <1>1, <1>2, <1>5, <2>1, <2>3 DEF ChipsConserved
<1>9. table.street \notin ActionStreets
  BY <1>5 DEF ActionStreets
<1> QED BY <1>1, <1>2, <1>5, <1>6, <1>7, <1>8, <1>9 DEF TableInv

\* Chips and stacks of a table that is at rest or in play.
LEMMA ChipsAreWhole ==
  ASSUME NEW t \in TableRecords
  PROVE  /\ Stacks(t) \in [Seats -> Nat] /\ ChipSum(Stacks(t)) \in Nat /\ t.pot \in Nat
<1>1. Stacks(t) \in [Seats -> Nat] /\ t.pot \in Nat
  BY DEF Stacks, TableRecords, SeatRecords
<1> QED BY <1>1, ChipsNat

LEMMA StartKeepsTable ==
  ASSUME TableInv, StartHand
  PROVE  TableInv' /\ table'.street = "preflop"
<1> DEFINE u == AutoRebought(table)
           v == StartedHand(u, handCount)
           accounts == [s \in Seats |-> IF s # UserSeat /\ table.seats[s].stack = 0
                                        THEN buyIn[s] + BuyIn ELSE buyIn[s]]
<1>1. /\ table \in TableRecords /\ AtRest(table) /\ handCount \in Nat /\ buyIn \in [Seats -> Nat]
      /\ ReadySeats(u) /\ table' = v /\ buyIn' = accounts /\ handCount' = handCount
  BY DEF TableInv, StartHand
<1>2. ChipSum(Stacks(table)) = ChipSum(buyIn)
  <2>1. ChipSum(Stacks(table)) + table.pot = ChipSum(buyIn) /\ table.pot = 0
    BY <1>1 DEF TableInv, ChipsConserved, Stacks, AtRest
  <2>2. ChipSum(Stacks(table)) \in Nat
    BY <1>1, ChipsAreWhole
  <2> QED BY <2>1, <2>2
<1>3. /\ u \in TableRecords /\ AtRest(u) /\ accounts \in [Seats -> Nat]
      /\ ChipSum(Stacks(u)) = ChipSum(accounts)
  BY <1>1, <1>2, AutoBought
<1> HIDE DEF u, accounts
<1>4. /\ v \in TableRecords /\ v.street = "preflop" /\ InPlay(v)
      /\ ChipSum(Stacks(v)) + v.pot = ChipSum(Stacks(u))
  BY <1>1, <1>3, HandStarted
<1> HIDE DEF v
<1>5. ChipsConserved'
  <2>1. ChipSum(Stacks(v)) + v.pot = ChipSum(accounts)
    BY <1>3, <1>4
  <2> QED BY <1>1, <2>1 DEF ChipsConserved, Stacks
<1>6. table'.street = "preflop" /\ "preflop" \in ActionStreets /\ "preflop" # "betweenHands"
  BY <1>1, <1>4 DEF ActionStreets
<1>7. InPlay(table)'
  BY <1>1, <1>4 DEF InPlay, SeatSound, KeepsUp, CanAct, StillOwesAction, Totals
<1> QED BY <1>1, <1>3, <1>4, <1>5, <1>6, <1>7 DEF TableInv

LEMMA ActKeepsTable ==
  ASSUME TableInv, NEW action, Act(action)
  PROVE  TableInv'
<1> DEFINE v == Progress(table, action)
<1>1. /\ table \in TableRecords /\ handCount \in Nat /\ buyIn \in [Seats -> Nat]
      /\ ActionAccepted(table, table.actor, action) /\ BettingOpen(table)
      /\ MovesOn(action, v) /\ buyIn' = buyIn
  BY DEF TableInv, Act
<1>2. table.street \in ActionStreets /\ InPlay(table)
  BY <1>1 DEF ActionAccepted, TableInv
<1>3. /\ v \in TableRecords /\ v.pot > 0 /\ v.pot = ChipSum(Totals(v))
      /\ ChipSum(Stacks(v)) + v.pot = ChipSum(Stacks(table)) + table.pot
      /\ \/ v.street \in ActionStreets /\ InPlay(v)
         \/ /\ v.street \in EndStreets /\ v.actor = NoSeat
            /\ \A s \in Seats : /\ v.seats[s].status # "out"
                                /\ v.seats[s].streetContribution <= v.seats[s].totalContribution
  BY <1>1, <1>2, HandProgress
<1>4. ChipSum(Stacks(table)) + table.pot = ChipSum(buyIn)
  BY DEF TableInv, ChipsConserved, Stacks
<1> HIDE DEF v
<1>5. CASE v.street \in EndStreets
  <2>1. PICK strength \in [Contenders(v) -> 1 .. HandClasses] :
           Settles(v, strength, Settled(v, strength))
    BY <1>1, <1>5 DEF MovesOn
  <2> DEFINE u == Settled(v, strength)
  <2>2. Settleable(v) /\ table' = u /\ handCount' = handCount + 1
    BY <2>1 DEF Settles
  <2>3. Levels(v.seats) # {}
    BY <1>3, ChipsOfPot
  <2>4. v.actor = NoSeat /\ \A s \in Seats : /\ v.seats[s].status # "out"
           /\ v.seats[s].streetContribution <= v.seats[s].totalContribution
    BY <1>3, <1>5 DEF EndStreets, ActionStreets
  <2>5. /\ u \in TableRecords /\ AtRest(u)
        /\ ChipSum(Stacks(u)) = ChipSum(Stacks(v)) + v.pot
    BY <1>3, <2>1, <2>2, <2>3, <2>4, SettlingPays
  <2> HIDE DEF u
  <2>6. ChipsConserved'
    <3>1. u.pot = 0 /\ ChipSum(Stacks(u)) \in Nat
      BY <2>5, ChipsAreWhole DEF AtRest
    <3>2. ChipSum(Stacks(u)) + u.pot = ChipSum(buyIn)
      BY <1>3, <1>4, <2>5, <3>1
    <3> QED BY <1>1, <2>2, <3>2 DEF ChipsConserved, Stacks
  <2>7. AtRest(table)'
    BY <2>2, <2>5 DEF AtRest
  <2>8. table'.street = "betweenHands" /\ "betweenHands" \notin ActionStreets
    BY <2>2, <2>5 DEF AtRest, ActionStreets
  <2>9. handCount' \in Nat
    BY <1>1, <2>2
  <2> QED BY <1>1, <2>2, <2>5, <2>6, <2>7, <2>8, <2>9 DEF TableInv
<1>6. CASE v.street \notin EndStreets
  <2>1. v.street \in ActionStreets /\ InPlay(v) /\ table' = v /\ handCount' = handCount
    BY <1>1, <1>3, <1>6 DEF MovesOn
  <2>2. ChipsConserved'
    <3>1. ChipSum(Stacks(v)) + v.pot = ChipSum(buyIn)
      BY <1>3, <1>4
    <3> QED BY <1>1, <2>1, <3>1 DEF ChipsConserved, Stacks
  <2>3. InPlay(table)'
    BY <2>1 DEF InPlay, SeatSound, KeepsUp, CanAct, StillOwesAction, Totals
  <2>4. table'.street \in ActionStreets /\ table'.street # "betweenHands"
    BY <2>1 DEF ActionStreets
  <2> QED BY <1>1, <1>3, <2>1, <2>2, <2>3, <2>4 DEF TableInv
<1> QED BY <1>5, <1>6

LEMMA RebuyKeepsTable ==
  ASSUME TableInv, Rebuy
  PROVE  TableInv'
<1> DEFINE me == table.seats[UserSeat]
<1>1. PICK amount \in {BuyIn - me.stack, BuyIn} :
        /\ amount > 0
        /\ table' = [table EXCEPT !.seats[UserSeat] = Bought(@, amount)]
        /\ buyIn' = [buyIn EXCEPT ![UserSeat] = @ + amount]
        /\ handCount' = handCount
  BY DEF Rebuy
<1>2. /\ table \in TableRecords /\ AtRest(table) /\ handCount \in Nat /\ buyIn \in [Seats -> Nat]
  BY DEF TableInv, Rebuy
<1>3. UserSeat \in Seats /\ BuyIn \in Nat
  BY UserIsSeated, BuyInAssumption
<1> DEFINE a == UserSeat
           new == Bought(me, amount)
           seats == [table.seats EXCEPT ![a] = new]
<1>4. me \in SeatRecords /\ me.stack \in Nat /\ me.streetContribution = 0 /\ me.totalContribution = 0
  BY <1>2, <1>3 DEF TableRecords, SeatRecords, AtRest
<1>5. amount \in Nat /\ me.stack + amount \in Nat /\ me.stack + amount > 0
  BY <1>1, <1>3, <1>4
<1>6. /\ new.stack = me.stack + amount /\ new.status = "active"
      /\ new.streetContribution = 0 /\ new.totalContribution = 0
  BY <1>4 DEF Bought, SeatRecords
<1>7. new \in SeatRecords
  BY <1>4, <1>5 DEF Bought, SeatRecords, Statuses
<1>8. table' = [table EXCEPT !.seats = seats]
  BY <1>1, <1>2 DEF TableRecords
<1> HIDE DEF me, new, a
<1>9. seats \in [Seats -> SeatRecords] /\ seats[a] = new
      /\ \A s \in Seats \ {a} : seats[s] = table.seats[s]
  BY <1>2, <1>3, <1>7 DEF TableRecords, a
<1> HIDE DEF seats
<1>10. /\ table' \in TableRecords /\ table'.street = table.street /\ table'.actor = table.actor
       /\ table'.pot = table.pot /\ table'.board = table.board /\ table'.seats = seats
  BY <1>2, <1>8, <1>9 DEF TableRecords
<1>11. AtRest(table)'
  <2>1. \A s \in Seats : /\ seats[s].status = IF seats[s].stack > 0 THEN "active" ELSE "out"
                         /\ seats[s].streetContribution = 0
                         /\ seats[s].totalContribution = 0
    <3> SUFFICES ASSUME NEW s \in Seats
                 PROVE  /\ seats[s].status = IF seats[s].stack > 0 THEN "active" ELSE "out"
                        /\ seats[s].streetContribution = 0 /\ seats[s].totalContribution = 0
      OBVIOUS
    <3>1. CASE s = a
      BY <1>5, <1>6, <1>9, <3>1
    <3>2. CASE s # a
      BY <1>2, <1>9, <3>2 DEF AtRest
    <3> QED BY <3>1, <3>2
  <2> QED BY <1>2, <1>10, <2>1 DEF AtRest
<1>12. buyIn' \in [Seats -> Nat] /\ buyIn'[a] = buyIn[a] + amount
       /\ \A s \in Seats \ {a} : buyIn'[s] = buyIn[s]
  BY <1>1, <1>2, <1>3, <1>5 DEF a
<1>13. ChipSum(buyIn') = ChipSum(buyIn) + amount
  <2>1. buyIn \in [Seats -> Int] /\ buyIn' \in [Seats -> Int] /\ a \in Seats /\ amount \in Int
    BY <1>2, <1>3, <1>5, <1>12 DEF a
  <2> QED BY <1>12, <2>1, ChipsChange
<1>14. ChipSum(Stacks(table')) = ChipSum(Stacks(table)) + amount
  <2> DEFINE f == Stacks(table)
             g == Stacks(table')
  <2>1. f \in [Seats -> Int] /\ g \in [Seats -> Int] /\ a \in Seats /\ amount \in Int
    BY <1>2, <1>3, <1>5, <1>10 DEF Stacks, TableRecords, SeatRecords, a
  <2>2. g[a] = f[a] + amount /\ \A s \in Seats \ {a} : g[s] = f[s]
    BY <1>3, <1>6, <1>9, <1>10 DEF Stacks, a, me
  <2> HIDE DEF f, g
  <2>3. ChipSum(g) = ChipSum(f) + amount
    BY <2>1, <2>2, ChipsChange
  <2> QED BY <2>3 DEF f, g
<1>15. ChipsConserved'
  <2>1. ChipSum(Stacks(table)) + table.pot = ChipSum(buyIn)
    BY DEF TableInv, ChipsConserved, Stacks
  <2>2. ChipSum(Stacks(table)) \in Nat /\ table.pot \in Nat
    BY <1>2, ChipsAreWhole
  <2>3. ChipSum(Stacks(table')) + table'.pot = ChipSum(buyIn')
    BY <1>5, <1>10, <1>13, <1>14, <2>1, <2>2
  <2> QED BY <2>3 DEF ChipsConserved, Stacks
<1>16. table'.street = "betweenHands" /\ "betweenHands" \notin ActionStreets
  BY <1>2, <1>10 DEF AtRest, ActionStreets
<1> QED BY <1>1, <1>2, <1>10, <1>11, <1>12, <1>15, <1>16 DEF TableInv

LEMMA TableStep == TableInv /\ [Next]_vars => TableInv'
<1> SUFFICES ASSUME TableInv, [Next]_vars PROVE TableInv'
  OBVIOUS
<1>1. CASE StartHand
  BY <1>1, StartKeepsTable
<1>2. CASE Play
  BY <1>2, ActKeepsTable DEF Play
<1>3. CASE Rebuy
  BY <1>3, RebuyKeepsTable
<1>4. CASE UNCHANGED vars
  BY <1>4 DEF vars, TableInv, AtRest, InPlay, SeatSound, KeepsUp, CanAct, StillOwesAction,
     Totals, ChipsConserved
<1> QED BY <1>1, <1>2, <1>3, <1>4 DEF Next

\* No chip appears or disappears (private-table-state.ts): in every
\* reachable state the stacks and the pot are what was bought in for.
THEOREM ChipsAreConserved == Spec => []ChipsConserved
<1>1. TableInv => ChipsConserved
  BY DEF TableInv
<1> QED BY <1>1, TableInit, TableStep, PTL DEF Spec

-----------------------------------------------------------------------------
(* The statistics of a hand can be read.                                   *)

SeatStatistics ==
  [vpip : BOOLEAN, pfr : BOOLEAN, threeBets : Nat, threeBetChances : Nat, sawFlop : BOOLEAN]

Consistent(st) ==
  /\ st \in SeatStatistics
  /\ st.pfr => st.vpip
  /\ st.threeBets <= st.threeBetChances
  /\ st.threeBets > 0 => st.pfr

\* From the flop on every seat that is still in has seen it.
StatsInv ==
  /\ stats.fullRaises \in 0 .. 2
  /\ DOMAIN stats.seat = Seats
  /\ \A s \in Seats : Consistent(stats.seat[s])
  /\ table.street \in ActionStreets /\ table.board >= 3 =>
        \A s \in Seats : InHand(table.seats[s]) => stats.seat[s].sawFlop
  /\ table.street = "betweenHands" /\ lastHand.record.reason = "showdown" =>
        \A s \in Seats : s \in lastHand.record.evaluated => stats.seat[s].sawFlop

\* Nothing has been counted when a hand starts.
LEMMA FreshStatistics ==
  /\ FreshStats.fullRaises \in 0 .. 2
  /\ DOMAIN FreshStats.seat = Seats
  /\ \A s \in Seats : Consistent(FreshStats.seat[s])
<1>1. \A s \in Seats : FreshStats.seat[s] = [vpip |-> FALSE, pfr |-> FALSE, threeBets |-> 0,
                                             threeBetChances |-> 0, sawFlop |-> FALSE]
  BY DEF FreshStats
<1>2. /\ FreshStats.fullRaises = 0 /\ DOMAIN FreshStats.seat = Seats
  BY DEF FreshStats
<1>3. Consistent([vpip |-> FALSE, pfr |-> FALSE, threeBets |-> 0,
                  threeBetChances |-> 0, sawFlop |-> FALSE])
  BY DEF Consistent, SeatStatistics
<1> QED BY <1>1, <1>2, <1>3

\* What one action adds keeps the statistics readable.
LEMMA TallyCounts ==
  ASSUME stats.fullRaises \in 0 .. 2, \A s \in Seats : Consistent(stats.seat[s]),
         NEW t, NEW facts, NEW after, NEW flop \in BOOLEAN,
         facts.voluntary \in BOOLEAN, facts.raise \in BOOLEAN,
         facts.raise => facts.voluntary, facts.fullRaise => facts.raise
  PROVE  LET new == Tally(t, facts, after, flop)
         IN  /\ new.fullRaises \in 0 .. 2
             /\ DOMAIN new.seat = Seats
             /\ \A s \in Seats : Consistent(new.seat[s])
             /\ \A s \in Seats : stats.seat[s].sawFlop => new.seat[s].sawFlop
             /\ \A s \in Seats : flop /\ InHand(after.seats[s]) => new.seat[s].sawFlop
<1> DEFINE new == Tally(t, facts, after, flop)
           chance == stats.fullRaises = 1 /\ facts.chance
           third == chance /\ facts.fullRaise
           saw(s) == stats.seat[s].sawFlop \/ (flop /\ InHand(after.seats[s]))
           vpip(s) == stats.seat[s].vpip \/ facts.voluntary
           pfr(s) == stats.seat[s].pfr \/ facts.raise
           bets(s) == stats.seat[s].threeBets + (IF third THEN 1 ELSE 0)
           chances(s) == stats.seat[s].threeBetChances + (IF chance THEN 1 ELSE 0)
<1>1. new.fullRaises \in 0 .. 2 /\ DOMAIN new.seat = Seats
  <2>1. /\ new.fullRaises = stats.fullRaises
             + (IF facts.fullRaise /\ stats.fullRaises < 2 THEN 1 ELSE 0)
        /\ DOMAIN new.seat = Seats
    BY DEF Tally
  <2> HIDE DEF new
  <2> QED BY <2>1
<1>2. ASSUME NEW s \in Seats
      PROVE  /\ Consistent(new.seat[s])
             /\ saw(s) => new.seat[s].sawFlop
  <2> DEFINE old == stats.seat[s]
  <2>1. /\ old \in SeatStatistics /\ old.pfr \in BOOLEAN /\ old.vpip \in BOOLEAN
        /\ old.sawFlop \in BOOLEAN
        /\ old.threeBets \in Nat /\ old.threeBetChances \in Nat
        /\ old.pfr => old.vpip
        /\ old.threeBets <= old.threeBetChances
        /\ old.threeBets > 0 => old.pfr
    BY DEF Consistent, SeatStatistics
  <2>2. saw(s) \in BOOLEAN /\ vpip(s) \in BOOLEAN /\ pfr(s) \in BOOLEAN
    OBVIOUS
  <2>3. CASE s = t.actor
    <3>1. new.seat[s] = [vpip |-> vpip(s), pfr |-> pfr(s), threeBets |-> bets(s),
                         threeBetChances |-> chances(s), sawFlop |-> saw(s)]
      BY <2>3 DEF Tally
    <3>2. /\ bets(s) \in Nat /\ chances(s) \in Nat /\ bets(s) <= chances(s)
          /\ bets(s) > 0 => old.threeBets > 0 \/ third
      BY <2>1
    <3>3. (pfr(s) => vpip(s)) /\ (old.threeBets > 0 \/ third => pfr(s))
      BY <2>1
    <3> HIDE DEF new, vpip, pfr, bets, chances, saw, old, third
    <3>4. new.seat[s] \in SeatStatistics
      BY <2>2, <3>1, <3>2 DEF SeatStatistics
    <3>5. /\ new.seat[s].vpip = vpip(s) /\ new.seat[s].pfr = pfr(s)
          /\ new.seat[s].threeBets = bets(s) /\ new.seat[s].threeBetChances = chances(s)
          /\ new.seat[s].sawFlop = saw(s)
      BY <3>1
    <3> QED BY <3>2, <3>3, <3>4, <3>5 DEF Consistent
  <2>4. CASE s # t.actor
    <3>1. new.seat[s] = [old EXCEPT !.sawFlop = saw(s)]
      BY <2>4 DEF Tally
    <3> HIDE DEF new, saw, old
    <3>2. /\ new.seat[s] \in SeatStatistics
          /\ new.seat[s].vpip = old.vpip /\ new.seat[s].pfr = old.pfr
          /\ new.seat[s].threeBets = old.threeBets
          /\ new.seat[s].threeBetChances = old.threeBetChances
          /\ new.seat[s].sawFlop = saw(s)
      BY <2>1, <2>2, <3>1 DEF SeatStatistics
    <3> QED BY <2>1, <3>2 DEF Consistent
  <2> QED BY <2>3, <2>4
<1> QED BY <1>1, <1>2

\* A raise is voluntary, and a full raise is a raise.
LEMMA FactsAreOrdered ==
  ASSUME NEW t, NEW action
  PROVE  LET facts == ActionFacts(t, action)
         IN  /\ facts.voluntary \in BOOLEAN /\ facts.raise \in BOOLEAN
             /\ facts.raise => facts.voluntary
             /\ facts.fullRaise => facts.raise
<1> DEFINE facts == ActionFacts(t, action)
           voluntary == t.street = "preflop" /\ action.type \in {"call", "bet", "raise", "allIn"}
           raise == t.street = "preflop" /\ action.type \in {"bet", "raise", "allIn"}
                      /\ t.seats[t.actor].streetContribution + Delta(t, action) > t.currentBet
           full == raise /\ IsFullRaise(t, action)
<1>1. facts = [voluntary |-> voluntary, raise |-> raise, fullRaise |-> full,
               chance |-> t.street = "preflop" /\ CanMakeFullRaise(t)]
  BY DEF ActionFacts
<1>2. voluntary \in BOOLEAN /\ raise \in BOOLEAN /\ (raise => voluntary) /\ (full => raise)
  OBVIOUS
<1> HIDE DEF voluntary, raise, full
<1>3. facts.voluntary = voluntary /\ facts.raise = raise /\ facts.fullRaise = full
  BY <1>1
<1> QED BY <1>2, <1>3 DEF facts

LEMMA ActKeepsStatistics ==
  ASSUME TableInv, StatsInv, NEW action, Act(action)
  PROVE  StatsInv'
<1> DEFINE t == table
           v == Progress(table, action)
           flop == table.board < 3 /\ v.board >= 3
           new == Tally(table, ActionFacts(table, action), v, flop)
<1>1. /\ t \in TableRecords /\ BettingOpen(t) /\ ActionAccepted(t, t.actor, action)
      /\ MovesOn(action, v) /\ t.street \in ActionStreets /\ InPlay(t)
  BY DEF TableInv, Act, ActionAccepted
<1>2. /\ v \in TableRecords
      /\ \A s \in Seats : InHand(v.seats[s]) => InHand(t.seats[s])
      /\ v.street \in ActionStreets \cup EndStreets
  BY <1>1, HandProgress
<1>3. stats' = new
  BY <1>1 DEF MovesOn, Counted
<1>4. /\ new.fullRaises \in 0 .. 2 /\ DOMAIN new.seat = Seats
      /\ \A s \in Seats : Consistent(new.seat[s])
      /\ \A s \in Seats : stats.seat[s].sawFlop => new.seat[s].sawFlop
      /\ \A s \in Seats : flop /\ InHand(v.seats[s]) => new.seat[s].sawFlop
  <2> DEFINE facts == ActionFacts(table, action)
  <2>1. /\ facts.voluntary \in BOOLEAN /\ facts.raise \in BOOLEAN
        /\ facts.raise => facts.voluntary /\ (facts.fullRaise => facts.raise)
    BY FactsAreOrdered
  <2>2. facts.fullRaise => facts.raise
    BY FactsAreOrdered
  <2>3. flop \in BOOLEAN /\ stats.fullRaises \in 0 .. 2 /\ \A s \in Seats : Consistent(stats.seat[s])
    BY DEF StatsInv
  <2> HIDE DEF facts, flop, v
  <2> QED BY <2>1, <2>2, <2>3, TallyCounts DEF facts
<1>5. v.board >= 3 => \A s \in Seats : InHand(v.seats[s]) => new.seat[s].sawFlop
  <2> SUFFICES ASSUME v.board >= 3, NEW s \in Seats, InHand(v.seats[s])
               PROVE  new.seat[s].sawFlop
    OBVIOUS
  <2>1. t.board \in 0 .. 5
    BY <1>1 DEF TableRecords
  <2>2. CASE t.board >= 3
    <3>1. stats.seat[s].sawFlop
      BY <1>1, <1>2, <2>2 DEF StatsInv
    <3> QED BY <1>4, <3>1
  <2>3. CASE t.board < 3
    <3>1. flop
      BY <2>3
    <3> QED BY <1>4, <3>1
  <2> QED BY <2>1, <2>2, <2>3
<1> HIDE DEF new, v, flop
<1>6. CASE v.street \in EndStreets
  <2>1. PICK strength \in [Contenders(v) -> 1 .. HandClasses] :
           Settles(v, strength, Settled(v, strength))
    BY <1>1, <1>6 DEF MovesOn, v
  <2>2. /\ Settleable(v) /\ table' = Settled(v, strength)
        /\ lastHand'.record = HandRecord(v, strength, Settled(v, strength))
    BY <2>1 DEF Settles, Completed
  <2>3. table'.street = "betweenHands" /\ "betweenHands" \notin ActionStreets
    BY <1>2, <2>2 DEF Settled, Paid, TableRecords, ActionStreets
  <2>4. /\ lastHand'.record.reason = v.street
        /\ v.street = "showdown" => \A s \in lastHand'.record.evaluated : InHand(v.seats[s])
    BY <2>2 DEF HandRecord, RecordOf
  <2>5. v.street = "showdown" => v.board = 5 /\ 5 >= 3
    BY <2>2 DEF Settleable
  <2>6. lastHand'.record.reason = "showdown" =>
           \A s \in Seats : s \in lastHand'.record.evaluated => stats'.seat[s].sawFlop
    BY <1>3, <1>5, <2>4, <2>5
  <2> QED BY <1>3, <1>4, <2>3, <2>6 DEF StatsInv
<1>7. CASE v.street \notin EndStreets
  <2>1. v.street \in ActionStreets /\ table' = v
    BY <1>1, <1>2, <1>7 DEF MovesOn, v
  <2>2. table'.street # "betweenHands"
    BY <2>1 DEF ActionStreets
  <2> QED BY <1>3, <1>4, <1>5, <2>1, <2>2 DEF StatsInv
<1> QED BY <1>6, <1>7

LEMMA StatisticsStep == TableInv /\ StatsInv /\ [Next]_vars => StatsInv'
<1> SUFFICES ASSUME TableInv, StatsInv, [Next]_vars PROVE StatsInv'
  OBVIOUS
<1>1. CASE StartHand
  <2>1. stats' = FreshStats /\ table' = StartedHand(AutoRebought(table), handCount)
    BY <1>1 DEF StartHand
  <2>2. table'.street = "preflop" /\ table'.board = 0 /\ "preflop" # "betweenHands" /\ ~(0 >= 3)
    BY <2>1 DEF StartedHand
  <2> QED BY <2>1, <2>2, FreshStatistics DEF StatsInv
<1>2. CASE Play
  BY <1>2, ActKeepsStatistics DEF Play
<1>3. CASE Rebuy
  <2>1. stats' = stats /\ lastHand' = lastHand /\ table.street = "betweenHands"
    BY <1>3 DEF Rebuy
  <2>2. table'.street = "betweenHands"
    BY <1>3 DEF Rebuy, TableInv, TableRecords
  <2>3. "betweenHands" \notin ActionStreets
    BY DEF ActionStreets
  <2> QED BY <2>1, <2>2, <2>3 DEF StatsInv
<1>4. CASE UNCHANGED vars
  BY <1>4 DEF vars, StatsInv
<1> QED BY <1>1, <1>2, <1>3, <1>4 DEF Next

LEMMA StatisticsInit == Init => StatsInv
<1> SUFFICES ASSUME Init PROVE StatsInv
  OBVIOUS
<1>1. stats = FreshStats /\ lastHand = NoHand
  BY DEF Init
<1>2. table.street = "betweenHands" /\ "betweenHands" \notin ActionStreets
  BY DEF Init, ActionStreets
<1>3. lastHand.record.reason # "showdown"
  BY <1>1 DEF NoHand
<1> QED BY <1>1, <1>2, <1>3, FreshStatistics DEF StatsInv

-----------------------------------------------------------------------------
(* When a raise is open again.                                             *)

\* The increment of the table is the last full raise of the street, and for
\* a seat that has acted before it the bet has risen by at least as much.
ReopenInv ==
  /\ reopen.fullSize \in Nat /\ reopen.fullSize >= BigBlind
  /\ table.street \in ActionStreets =>
       /\ reopen.fullSize = table.minInc
       /\ \A s \in Seats :
             reopen.fullSince[s] /\ table.seats[s].betLevel # NotActed =>
                table.currentBet - table.seats[s].betLevel >= table.minInc

LEMMA FreshReopening ==
  /\ FreshReopen.fullSize = BigBlind /\ BigBlind \in Nat /\ BigBlind >= BigBlind
  /\ \A s \in Seats : ~FreshReopen.fullSince[s]
BY DEF FreshReopen, BigBlind

LEMMA ActKeepsReopening ==
  ASSUME TableInv, ReopenInv, NEW action, Act(action)
  PROVE  ReopenInv'
<1> DEFINE t == table
           v == Progress(table, action)
           u == BettingTransition(table, action)
           bet == BetAfter(t, action)
           rise == bet - t.currentBet
           full == rise >= reopen.fullSize
<1>1. /\ t \in TableRecords /\ BettingOpen(t) /\ ActionAccepted(t, t.actor, action)
      /\ MovesOn(action, v) /\ t.street \in ActionStreets /\ InPlay(t)
  BY DEF TableInv, Act, ActionAccepted
<1>2. \/ /\ v.street = t.street /\ v.seats = u.seats
         /\ v.currentBet = u.currentBet /\ v.minInc = u.minInc
      \/ /\ v.street \in ActionStreets
         /\ BoardOf(v.street) > BoardOf(t.street) /\ v.minInc = BigBlind
         /\ \A s \in Seats : v.seats[s].betLevel = NotActed
      \/ v.street \in EndStreets
  BY <1>1, HandProgress
<1>3. /\ u \in TableRecords /\ u.currentBet = bet /\ bet >= t.currentBet
      /\ u.minInc = IF IsFullRaise(t, action) THEN bet - t.currentBet ELSE t.minInc
      /\ \A s \in Seats \ {t.actor} : u.seats[s] = t.seats[s]
  BY <1>1, ActionTaken
<1>4. /\ t.currentBet \in Nat /\ bet \in Nat /\ t.minInc \in Nat /\ t.minInc >= 20
      /\ reopen.fullSize = t.minInc /\ reopen.fullSize \in Nat /\ reopen.fullSize >= BigBlind
  BY <1>1, <1>3 DEF TableRecords, ReopenInv, InPlay
<1>5. u.minInc = IF full THEN rise ELSE t.minInc
  <2>1. IsFullRaise(t, action) <=> rise > 0 /\ rise >= t.minInc
    BY DEF IsFullRaise
  <2> HIDE DEF bet
  <2>2. IsFullRaise(t, action) <=> full
    BY <1>4, <2>1
  <2> QED BY <1>3, <2>2
<1>6. CASE v.street \in EndStreets
  <2>1. PICK strength \in [Contenders(v) -> 1 .. HandClasses] :
           Settles(v, strength, Settled(v, strength))
    BY <1>1, <1>6 DEF MovesOn
  <2>2. reopen' = FreshReopen /\ table' = Settled(v, strength)
    BY <2>1 DEF Settles
  <2>3. v \in TableRecords
    BY <1>1, HandProgress
  <2>4. table'.street = "betweenHands" /\ "betweenHands" \notin ActionStreets
    BY <2>2, <2>3 DEF Settled, Paid, TableRecords, ActionStreets
  <2> QED BY <2>2, <2>4, FreshReopening DEF ReopenInv
<1>7. CASE v.street \notin EndStreets /\ v.street # t.street
  <2>1. table' = v /\ reopen' = ReopenAfter(table, action, v)
    BY <1>1, <1>7 DEF MovesOn
  <2>2. reopen' = FreshReopen
    BY <1>7, <2>1 DEF ReopenAfter
  <2>3. v.minInc = BigBlind /\ \A s \in Seats : v.seats[s].betLevel = NotActed
    BY <1>2, <1>7
  <2> QED BY <2>1, <2>2, <2>3, FreshReopening DEF ReopenInv
<1>8. CASE v.street \notin EndStreets /\ v.street = t.street
  <2>1. table' = v /\ reopen' = ReopenAfter(table, action, v)
    BY <1>1, <1>8 DEF MovesOn
  <2>2. reopen' = [fullSize |-> IF full THEN rise ELSE reopen.fullSize,
                   fullSince |-> [s \in Seats |-> IF s = t.actor THEN FALSE
                                                  ELSE reopen.fullSince[s] \/ full]]
    BY <1>8, <2>1 DEF ReopenAfter
  <2>3. v.seats = u.seats /\ v.currentBet = bet /\ v.minInc = u.minInc
    <3>1. BoardOf(t.street) \in 0 .. 5
      BY DEF BoardOf
    <3>2. ~(BoardOf(v.street) > BoardOf(t.street))
      BY <1>8, <3>1
    <3> QED BY <1>2, <1>3, <1>8, <3>2
  <2> HIDE DEF v, u, bet, full
  <2>4. /\ reopen'.fullSize = IF full THEN rise ELSE reopen.fullSize
        /\ \A s \in Seats : reopen'.fullSince[s] => s # t.actor /\ (reopen.fullSince[s] \/ full)
    BY <2>2
  <2>5. reopen'.fullSize = v.minInc
    BY <1>4, <1>5, <2>3, <2>4
  <2>6. reopen'.fullSize \in Nat /\ reopen'.fullSize >= BigBlind
    <3>1. full => rise >= reopen.fullSize
      BY DEF full
    <3>2. BigBlind \in Nat
      BY DEF BigBlind
    <3> QED BY <1>3, <1>4, <2>4, <3>1, <3>2
  <2>7. ASSUME NEW s \in Seats, reopen'.fullSince[s], v.seats[s].betLevel # NotActed
        PROVE  v.currentBet - v.seats[s].betLevel >= v.minInc
    <3> DEFINE level == t.seats[s].betLevel
    <3>1. s # t.actor /\ (reopen.fullSince[s] \/ full)
      BY <2>4, <2>7
    <3>2. v.seats[s] = t.seats[s]
      BY <1>3, <2>3, <3>1
    <3>3. level # NotActed /\ level \in Nat /\ level <= t.currentBet
      BY <1>1, <2>7, <3>2 DEF TableRecords, SeatRecords, InPlay, SeatSound
    <3>4. reopen.fullSince[s] => t.currentBet - level >= t.minInc
      BY <1>1, <3>3 DEF ReopenInv
    <3>5. full => v.minInc = rise
      BY <1>5, <2>3
    <3>6. ~full => v.minInc = t.minInc
      BY <1>5, <2>3
    <3> HIDE DEF level
    <3>7. v.currentBet - level >= v.minInc
      <4>1. CASE full
        BY <1>3, <1>4, <2>3, <3>3, <3>5, <4>1
      <4>2. CASE ~full
        BY <1>3, <1>4, <2>3, <3>1, <3>3, <3>4, <3>6, <4>2
      <4> QED BY <4>1, <4>2
    <3> QED BY <3>2, <3>7 DEF level
  <2> QED BY <2>1, <2>5, <2>6, <2>7 DEF ReopenInv
<1> QED BY <1>6, <1>7, <1>8

LEMMA ReopeningStep == TableInv /\ ReopenInv /\ [Next]_vars => ReopenInv'
<1> SUFFICES ASSUME TableInv, ReopenInv, [Next]_vars PROVE ReopenInv'
  OBVIOUS
<1>1. CASE StartHand
  <2>1. reopen' = FreshReopen /\ table' = StartedHand(AutoRebought(table), handCount)
    BY <1>1 DEF StartHand
  <2>2. table'.minInc = BigBlind
    BY <2>1 DEF StartedHand
  <2> QED BY <2>1, <2>2, FreshReopening DEF ReopenInv
<1>2. CASE Play
  BY <1>2, ActKeepsReopening DEF Play
<1>3. CASE Rebuy
  <2>1. reopen' = reopen /\ table.street = "betweenHands"
    BY <1>3 DEF Rebuy
  <2>2. table'.street = "betweenHands" /\ "betweenHands" \notin ActionStreets
    BY <1>3 DEF Rebuy, TableInv, TableRecords, ActionStreets
  <2> QED BY <2>1, <2>2 DEF ReopenInv
<1>4. CASE UNCHANGED vars
  BY <1>4 DEF vars, ReopenInv
<1> QED BY <1>1, <1>2, <1>3, <1>4 DEF Next

LEMMA ReopeningInit == Init => ReopenInv
<1> SUFFICES ASSUME Init PROVE ReopenInv
  OBVIOUS
<1>1. reopen = FreshReopen /\ table.street = "betweenHands" /\ "betweenHands" \notin ActionStreets
  BY DEF Init, ActionStreets
<1> QED BY <1>1, FreshReopening DEF ReopenInv

LEMMA ReopeningIsFair == TableInv /\ ReopenInv => RaisesReopenFairly
<1> DEFINE t == table
           a == t.actor
           me == t.seats[a]
           call == AmountToCall(t)
           risen == t.currentBet - me.betLevel
           Raises(legal) == /\ legal.type \in {"bet", "raise", "allIn"}
                            /\ legal.type = "allIn" => legal.min > t.currentBet
           mayRaise == \E legal \in LegalActions(t) : Raises(legal)
<1> SUFFICES ASSUME TableInv, ReopenInv, t.street \in ActionStreets, me.betLevel # NotActed,
                    Cardinality(Actionable(t)) > 1
             PROVE  /\ risen > 0
                    /\ mayRaise => risen >= reopen.fullSize
                    /\ reopen.fullSince[a] /\ AllInTarget(t) > t.currentBet => mayRaise
  BY DEF RaisesReopenFairly
<1>1. /\ t \in TableRecords /\ InPlay(t) /\ a \in Seats /\ StillOwesAction(t, a)
      /\ KeepsUp(me) /\ me \in SeatRecords
  BY DEF TableInv, InPlay, TableRecords
<1>2. /\ t.currentBet \in Nat /\ t.minInc \in Nat /\ t.minInc >= 20
      /\ me.betLevel \in Nat /\ me.streetContribution \in Nat /\ me.stack \in Nat /\ me.stack > 0
      /\ me.betLevel = me.streetContribution /\ me.streetContribution < t.currentBet
      /\ reopen.fullSize = t.minInc
      /\ reopen.fullSince[a] => risen >= t.minInc
  BY <1>1 DEF TableRecords, SeatRecords, InPlay, StillOwesAction, CanAct, KeepsUp, ReopenInv
<1>3. Cardinality(Actionable(t)) # 1
  <2>1. Cardinality(Actionable(t)) \in Nat
    BY SeatsFinite DEF Actionable
  <2> QED BY <2>1
<1>4. call = t.currentBet - me.streetContribution
  BY <1>3 DEF AmountToCall
<1>5. AllInTarget(t) = me.streetContribution + me.stack
  BY DEF AllInTarget
<1>6. RaiseReopened(t) <=> risen >= t.minInc
  BY DEF RaiseReopened
<1> DEFINE fold == {[type |-> "fold", min |-> 0, max |-> 0]}
           check == IF call = 0 THEN {[type |-> "check", min |-> 0, max |-> 0]}
                    ELSE IF call < me.stack THEN {[type |-> "call", min |-> call, max |-> call]}
                    ELSE {}
           raise == IF MinTarget(t) <= AllInTarget(t) - 1 /\ (t.currentBet = 0 \/ RaiseReopened(t))
                    THEN {[type |-> BetType(t), min |-> MinTarget(t), max |-> AllInTarget(t) - 1]}
                    ELSE {}
           all == IF me.stack <= call \/ RaiseReopened(t)
                  THEN {[type |-> "allIn", min |-> AllInTarget(t), max |-> AllInTarget(t)]} ELSE {}
<1>7. LegalActions(t) = fold \cup check \cup raise \cup all
  BY <1>3 DEF LegalActions, ActionsFacing
<1>8. \A legal \in fold \cup check : legal.type \notin {"bet", "raise", "allIn"}
  OBVIOUS
<1>9. \A legal \in raise : t.currentBet = 0 \/ RaiseReopened(t)
  OBVIOUS
<1>10. \A legal \in all : legal.min = AllInTarget(t) /\ (me.stack <= call \/ RaiseReopened(t))
  OBVIOUS
<1>11. risen > 0
  BY <1>2
<1>12. mayRaise => risen >= reopen.fullSize
  <2> SUFFICES ASSUME NEW legal \in LegalActions(t), Raises(legal)
               PROVE  RaiseReopened(t)
    BY <1>2, <1>6
  <2>1. CASE legal \in fold \cup check
    BY <1>8, <2>1
  <2>2. CASE legal \in raise
    BY <1>2, <1>9, <2>2
  <2>3. CASE legal \in all
    <3>1. legal.type = "allIn" /\ legal.min = AllInTarget(t)
      BY <2>3
    <3>2. AllInTarget(t) > t.currentBet
      BY <3>1
    <3>3. ~(me.stack <= call)
      <4> HIDE DEF me, call
      <4> QED BY <1>2, <1>4, <1>5, <3>2
    <3> QED BY <1>10, <2>3, <3>3
  <2> HIDE DEF fold, check, raise, all
  <2> QED BY <1>7, <2>1, <2>2, <2>3
<1>13. reopen.fullSince[a] /\ AllInTarget(t) > t.currentBet => mayRaise
  <2> SUFFICES ASSUME reopen.fullSince[a], AllInTarget(t) > t.currentBet PROVE mayRaise
    OBVIOUS
  <2> DEFINE legal == [type |-> "allIn", min |-> AllInTarget(t), max |-> AllInTarget(t)]
  <2>1. RaiseReopened(t)
    BY <1>2, <1>6
  <2>2. legal \in all
    BY <2>1
  <2>3. Raises(legal)
    OBVIOUS
  <2>4. legal \in LegalActions(t)
    <3> HIDE DEF legal, all, fold, check, raise
    <3> QED BY <1>7, <2>2
  <2> HIDE DEF legal, Raises
  <2> QED BY <2>3, <2>4
<1> QED BY <1>11, <1>12, <1>13

-----------------------------------------------------------------------------
(* Types, and what the invariants say together.                            *)

LEMMA TableIsValid == TableInv => ValidTable(table)
<1> SUFFICES ASSUME TableInv PROVE ValidTable(table)
  OBVIOUS
<1>1. /\ table \in TableRecords /\ table.street \in ActionStreets \cup {"betweenHands"}
      /\ table.street = "betweenHands" => AtRest(table)
      /\ table.street \in ActionStreets => InPlay(table)
      /\ "betweenHands" \notin ActionStreets
  BY DEF TableInv, ActionStreets
<1>2. \A s \in Seats : table.seats[s] \in SeatRecords
  BY <1>1 DEF TableRecords
<1>3. CASE table.street = "betweenHands"
  <2>1. AtRest(table)
    BY <1>1, <1>3
  <2>2. SeatsValid(table)
    <3> SUFFICES ASSUME NEW s \in Seats
                 PROVE  LET seat == table.seats[s]
                        IN  /\ seat.status \in Statuses
                            /\ seat.stack >= 0
                            /\ seat.streetContribution \in 0 .. seat.totalContribution
                            /\ seat.status = "allIn" => seat.stack = 0
      BY DEF SeatsValid
    <3>1. /\ table.seats[s].stack \in Nat /\ table.seats[s].status \in Statuses
          /\ table.seats[s].status # "allIn"
          /\ table.seats[s].streetContribution = 0 /\ table.seats[s].totalContribution = 0
      BY <1>2, <2>1 DEF AtRest, SeatRecords
    <3>2. table.seats[s].streetContribution \in 0 .. table.seats[s].totalContribution
      BY <3>1
    <3> QED BY <3>1, <3>2
  <2>3. PhaseValid(table)
    <3>1. \A s \in Seats : (table.seats[s].stack > 0) = (table.seats[s].status = "active")
      BY <2>1 DEF AtRest
    <3> QED BY <1>1, <1>3, <2>1, <3>1 DEF PhaseValid, TableRecords, AtRest
  <2>4. RoundValid(table) /\ ActorValid(table)
    BY <1>1, <1>3, <2>1 DEF RoundValid, ActorValid, AtRest
  <2> QED BY <2>2, <2>3, <2>4 DEF ValidTable
<1>4. CASE table.street \in ActionStreets
  <2>1. InPlay(table)
    BY <1>1, <1>4
  <2>2. ASSUME NEW s \in Seats
        PROVE  /\ SeatSound(table, table.seats[s])
               /\ table.seats[s].status \in Statuses /\ table.seats[s].stack \in Nat
               /\ table.seats[s].streetContribution \in Nat
               /\ table.seats[s].totalContribution \in Nat
               /\ table.seats[s].betLevel \in Nat \cup {NotActed}
               /\ table.currentBet \in Nat
    BY <1>1, <1>2, <2>1 DEF InPlay, SeatRecords, TableRecords
  <2>3. SeatsValid(table)
    BY <2>2 DEF SeatsValid, SeatSound
  <2>4. PhaseValid(table)
    BY <1>1, <1>4, <2>1, <2>2 DEF PhaseValid, TableRecords, InPlay, SeatSound, Totals
  <2>5. RoundValid(table)
    <3>1. \A s \in Seats : /\ table.seats[s].streetContribution <= table.currentBet
                           /\ table.seats[s].betLevel \in NotActed .. table.currentBet
      BY <2>2 DEF SeatSound, NotActed
    <3> QED BY <2>1, <3>1 DEF RoundValid, InPlay
  <2>6. ActorValid(table)
    BY <1>4, <2>1 DEF ActorValid, InPlay, StillOwesAction
  <2> QED BY <2>3, <2>4, <2>5, <2>6 DEF ValidTable
<1> QED BY <1>1, <1>3, <1>4

LEMMA StatisticsCanBeRead == TableInv /\ StatsInv => StatisticsReadable
BY DEF StatsInv, Consistent, StatisticsReadable

LEMMA EveryTypeOK == TableInv /\ StatsInv /\ ReopenInv => TypeOK
BY TableIsValid, StatisticsCanBeRead DEF TypeOK, TableInv, StatsInv, ReopenInv

\* What is stored can be read back by every reader (createPokerTableState
\* and the statistics' schemas), whatever is played.
THEOREM TablesStayValid == Spec => []TypeOK
<1> QED BY EveryTypeOK, TableInit, TableStep, StatisticsInit, StatisticsStep, ReopeningInit,
           ReopeningStep, PTL DEF Spec

\* The statistics of every hand can be read, runouts included.
THEOREM StatisticsStayReadable == Spec => []StatisticsReadable
<1> QED BY StatisticsCanBeRead, TableInit, TableStep, StatisticsInit, StatisticsStep, PTL DEF Spec

\* Raising is reopened by a full raise and by nothing less (legal-actions.ts
\* measures it by the level of betting at which a seat acted last).
THEOREM RaisingReopensFairly == Spec => []RaisesReopenFairly
<1> QED BY ReopeningIsFair, TableInit, TableStep, ReopeningInit, ReopeningStep, PTL DEF Spec

-----------------------------------------------------------------------------
(* Every hand ends.                                                        *)

\* What every action inside a hand brings down: the streets to come, then
\* the chips behind, then the turns left on the street.
Nearer ==
  \/ StreetsLeft(table') < StreetsLeft(table)
  \/ StreetsLeft(table') = StreetsLeft(table) /\ Behind(table') < Behind(table)
  \/ /\ StreetsLeft(table') = StreetsLeft(table) /\ Behind(table') = Behind(table)
     /\ TurnsLeft(table') < TurnsLeft(table)

LEMMA ActBringsNearer ==
  ASSUME TableInv, NEW action, Act(action), table'.street \in ActionStreets
  PROVE  Nearer
<1> DEFINE t == table
           v == Progress(table, action)
           u == BettingTransition(table, action)
           paid == Delta(t, action)
<1>1. /\ t \in TableRecords /\ BettingOpen(t) /\ ActionAccepted(t, t.actor, action)
      /\ MovesOn(action, v) /\ t.street \in ActionStreets /\ InPlay(t)
  BY DEF TableInv, Act, ActionAccepted
<1>2. /\ v \in TableRecords
      /\ ChipSum(Stacks(v)) + v.pot = ChipSum(Stacks(t)) + t.pot
      /\ \/ /\ v.street = t.street /\ v.seats = u.seats
            /\ v.currentBet = u.currentBet /\ v.pot = u.pot
         \/ BoardOf(v.street) > BoardOf(t.street)
         \/ v.street \in EndStreets
  BY <1>1, HandProgress
<1>3. /\ u.pot = t.pot + paid /\ paid \in Nat
      /\ paid = 0 => ~StillOwesAction(u, t.actor) /\ u.currentBet = t.currentBet
      /\ \A s \in Seats \ {t.actor} : u.seats[s] = t.seats[s]
  BY <1>1, ActionTaken
<1>4. v.street \notin EndStreets
  <2> SUFFICES ASSUME v.street \in EndStreets PROVE FALSE
    OBVIOUS
  <2>1. PICK strength \in [Contenders(v) -> 1 .. HandClasses] :
           Settles(v, strength, Settled(v, strength))
    BY <1>1 DEF MovesOn
  <2>2. table' = Settled(v, strength)
    BY <2>1 DEF Settles
  <2>3. table'.street = "betweenHands"
    BY <1>2, <2>2 DEF Settled, Paid, TableRecords
  <2> QED BY <2>3 DEF ActionStreets
<1>5. table' = v
  BY <1>1, <1>4 DEF MovesOn
<1>6. BoardOf(t.street) \in 0 .. 5 /\ BoardOf(v.street) \in 0 .. 5
  BY DEF BoardOf
<1>7. Behind(t) = ChipSum(Stacks(t)) /\ Behind(v) = ChipSum(Stacks(v))
  BY DEF Behind, Stacks
<1>8. Behind(t) \in Nat /\ Behind(v) \in Nat /\ t.pot \in Nat
  BY <1>1, <1>2, <1>7, ChipsAreWhole
<1>9. CASE BoardOf(v.street) > BoardOf(t.street)
  <2>1. StreetsLeft(v) < StreetsLeft(t)
    BY <1>6, <1>9 DEF StreetsLeft
  <2> QED BY <1>5, <2>1 DEF Nearer
<1>10. CASE /\ v.street = t.street /\ v.seats = u.seats
            /\ v.currentBet = u.currentBet /\ v.pot = u.pot
  <2>1. StreetsLeft(v) = StreetsLeft(t)
    BY <1>10 DEF StreetsLeft
  <2>2. Behind(v) + (t.pot + paid) = Behind(t) + t.pot
    BY <1>2, <1>3, <1>7, <1>10
  <2>3. CASE paid > 0
    <3>1. Behind(v) < Behind(t)
      <4> HIDE DEF v, t, paid
      <4> QED BY <1>3, <1>8, <2>2, <2>3
    <3> QED BY <1>5, <2>1, <3>1 DEF Nearer
  <2>4. CASE paid = 0
    <3>1. Behind(v) = Behind(t)
      <4> HIDE DEF v, t, paid
      <4> QED BY <1>3, <1>8, <2>2, <2>4
    <3>2. t.actor \in Owing(t)
      BY <1>1 DEF InPlay, Owing
    <3>3. Owing(v) = Owing(t) \ {t.actor}
      <4>1. ~StillOwesAction(v, t.actor)
        BY <1>3, <1>10, <2>4 DEF StillOwesAction
      <4>2. \A s \in Seats \ {t.actor} : StillOwesAction(v, s) <=> StillOwesAction(t, s)
        BY <1>3, <1>10, <2>4 DEF StillOwesAction
      <4> QED BY <4>1, <4>2 DEF Owing
    <3>4. IsFiniteSet(Owing(t)) /\ Cardinality(Owing(t)) \in Nat
      BY SeatsFinite DEF Owing
    <3>5. Cardinality(Owing(t) \ {t.actor}) = Cardinality(Owing(t)) - 1
      BY <3>2, <3>4, FS_RemoveElement
    <3>6. TurnsLeft(v) < TurnsLeft(t)
      BY <3>3, <3>4, <3>5 DEF TurnsLeft
    <3> QED BY <1>5, <2>1, <3>1, <3>6 DEF Nearer
  <2> QED BY <1>3, <2>3, <2>4
<1> QED BY <1>2, <1>4, <1>9, <1>10

\* No sequence of legal actions keeps a hand alive forever
\* (decideBettingContinuation of betting-transition.ts).
THEOREM HandsEnd == Spec => EveryHandEnds
<1>1. TableInv /\ [Next]_vars =>
        [table.street \in ActionStreets /\ table'.street \in ActionStreets => Nearer]_vars
  <2> SUFFICES ASSUME TableInv, Next, table.street \in ActionStreets,
                      table'.street \in ActionStreets
               PROVE  Nearer
    OBVIOUS
  <2>1. "betweenHands" \notin ActionStreets
    BY DEF ActionStreets
  <2>2. ~StartHand /\ ~Rebuy
    BY <2>1 DEF StartHand, Rebuy
  <2>3. PICK action : Act(action)
    BY <2>2 DEF Next, Play
  <2> QED BY <2>3, ActBringsNearer
<1>2. TableInv /\ [Next]_vars =>
        [(table.street \in ActionStreets /\ table'.street \in ActionStreets) =>
         \/ StreetsLeft(table') < StreetsLeft(table)
         \/ StreetsLeft(table') = StreetsLeft(table) /\ Behind(table') < Behind(table)
         \/ /\ StreetsLeft(table') = StreetsLeft(table) /\ Behind(table') = Behind(table)
            /\ TurnsLeft(table') < TurnsLeft(table)]_vars
  BY <1>1 DEF Nearer
<1> QED BY <1>2, TableInit, TableStep, PTL DEF Spec, EveryHandEnds

-----------------------------------------------------------------------------
(* Sums over a finite set, in whatever order they are taken.               *)

\* A property of the empty set that no further element destroys holds of
\* every finite set.
LEMMA FiniteSetsGrow ==
  ASSUME NEW S, IsFiniteSet(S), NEW P \in SUBSET SUBSET S, {} \in P,
         \A T \in P : \A x \in S \ T : T \cup {x} \in P
  PROVE  S \in P
<1> DEFINE Q == {n \in Nat : \A T \in SUBSET S : Cardinality(T) = n => T \in P}
<1>1. \A T \in SUBSET S : IsFiniteSet(T) /\ Cardinality(T) \in Nat
  BY FS_Subset, FS_CardinalityType
<1>2. 0 \in Q
  <2>1. \A T \in SUBSET S : Cardinality(T) = 0 => T = {}
    BY <1>1, FS_EmptySet
  <2> QED BY <2>1
<1>3. \A n \in Q : n + 1 \in Q
  <2> SUFFICES ASSUME NEW n \in Nat, \A T \in SUBSET S : Cardinality(T) = n => T \in P,
                      NEW U \in SUBSET S, Cardinality(U) = n + 1
               PROVE  U \in P
    OBVIOUS
  <2>1. U # {}
    <3>1. U = {} => Cardinality(U) = 0
      BY FS_EmptySet
    <3>2. n + 1 # 0
      OBVIOUS
    <3> QED BY <3>1, <3>2
  <2>2. PICK x \in U : TRUE
    BY <2>1
  <2> DEFINE T == U \ {x}
  <2>3. Cardinality(T) = n
    <3>1. IsFiniteSet(U)
      BY <1>1
    <3>2. Cardinality(T) = Cardinality(U) - 1
      BY <2>2, <3>1, FS_RemoveElement
    <3>3. n + 1 - 1 = n
      OBVIOUS
    <3> QED BY <3>2, <3>3
  <2>4. T \in SUBSET S
    OBVIOUS
  <2>5. T \in P
    BY <2>3, <2>4
  <2>6. x \in S \ T /\ T \cup {x} = U
    BY <2>2
  <2> HIDE DEF T
  <2> QED BY <2>5, <2>6
<1>4. Q = Nat
  <2> HIDE DEF Q
  <2>1. Q \in SUBSET Nat
    BY DEF Q
  <2> QED BY <1>2, <1>3, <2>1, EveryNumber
<1> QED BY <1>1, <1>4

\* What is summed up does not depend on the set it is part of.
LEMMA SumsAgree ==
  ASSUME NEW S, NEW R, NEW T, T \in SUBSET S, T \in SUBSET R, IsFiniteSet(T),
         NEW g, NEW h, NEW f, NEW k, SumsUp(g, h, S), SumsUp(f, k, R),
         \A x \in T : h[x] = k[x]
  PROVE  g[T] = f[T]
<1> DEFINE Q == {n \in Nat : \A U \in SUBSET T : Cardinality(U) = n => g[U] = f[U]}
<1>1. \A U \in SUBSET T : IsFiniteSet(U) /\ Cardinality(U) \in Nat
  BY FS_Subset, FS_CardinalityType
<1>2. /\ \A U \in SUBSET S : g[U] = IF U = {} THEN 0 ELSE h[Chosen(U)] + g[U \ {Chosen(U)}]
      /\ \A U \in SUBSET R : f[U] = IF U = {} THEN 0 ELSE k[Chosen(U)] + f[U \ {Chosen(U)}]
  BY DEF SumsUp
<1>3. 0 \in Q
  <2>1. \A U \in SUBSET T : Cardinality(U) = 0 => U = {}
    BY <1>1, FS_EmptySet
  <2>2. g[{}] = 0 /\ f[{}] = 0
    BY <1>2
  <2> QED BY <2>1, <2>2
<1>4. \A n \in Q : n + 1 \in Q
  <2> SUFFICES ASSUME NEW n \in Nat, \A U \in SUBSET T : Cardinality(U) = n => g[U] = f[U],
                      NEW U \in SUBSET T, Cardinality(U) = n + 1
               PROVE  g[U] = f[U]
    OBVIOUS
  <2>1. U # {}
    <3>1. U = {} => Cardinality(U) = 0
      BY FS_EmptySet
    <3>2. n + 1 # 0
      OBVIOUS
    <3> QED BY <3>1, <3>2
  <2> DEFINE c == Chosen(U)
  <2>2. c \in U
    BY <2>1 DEF Chosen
  <2> HIDE DEF c
  <2>3. Cardinality(U \ {c}) = n
    <3>1. IsFiniteSet(U)
      BY <1>1
    <3>2. Cardinality(U \ {c}) = Cardinality(U) - 1
      BY <2>2, <3>1, FS_RemoveElement
    <3>3. n + 1 - 1 = n
      OBVIOUS
    <3> QED BY <3>2, <3>3
  <2>4. g[U \ {c}] = f[U \ {c}] /\ h[c] = k[c]
    BY <2>2, <2>3
  <2>5. g[U] = h[c] + g[U \ {c}] /\ f[U] = k[c] + f[U \ {c}]
    BY <1>2, <2>1 DEF c
  <2> QED BY <2>4, <2>5
<1>5. Q = Nat
  <2> HIDE DEF Q
  <2>1. Q \in SUBSET Nat
    BY DEF Q
  <2> QED BY <1>3, <1>4, <2>1, EveryNumber
<1> QED BY <1>1, <1>5

\* Any element may be summed up first.
LEMMA SumTakesOut ==
  ASSUME NEW S, IsFiniteSet(S), NEW g, NEW h, SumsUp(g, h, S), \A x \in S : h[x] \in Int
  PROVE  \A T \in SUBSET S : g[T] \in Int /\ \A x \in T : g[T] = h[x] + g[T \ {x}]
<1> DEFINE Good(T) == g[T] \in Int /\ \A x \in T : g[T] = h[x] + g[T \ {x}]
           Q == {n \in Nat : \A T \in SUBSET S : Cardinality(T) <= n => Good(T)}
<1>1. \A T \in SUBSET S : IsFiniteSet(T) /\ Cardinality(T) \in Nat
  BY FS_Subset, FS_CardinalityType
<1>2. \A T \in SUBSET S : g[T] = IF T = {} THEN 0 ELSE h[Chosen(T)] + g[T \ {Chosen(T)}]
  BY DEF SumsUp
<1>3. 0 \in Q
  <2>1. \A T \in SUBSET S : Cardinality(T) <= 0 => T = {}
    <3>1. \A T \in SUBSET S : Cardinality(T) = 0 => T = {}
      BY <1>1, FS_EmptySet
    <3>2. \A T \in SUBSET S : Cardinality(T) <= 0 => Cardinality(T) = 0
      BY <1>1
    <3> QED BY <3>1, <3>2
  <2>2. Good({})
    BY <1>2
  <2> HIDE DEF Good
  <2> QED BY <2>1, <2>2
<1>4. \A n \in Q : n + 1 \in Q
  <2> SUFFICES ASSUME NEW n \in Nat, \A T \in SUBSET S : Cardinality(T) <= n => Good(T),
                      NEW U \in SUBSET S, Cardinality(U) <= n + 1
               PROVE  Good(U)
    <3> HIDE DEF Good
    <3> QED OBVIOUS
  <2>1. \A x \in U : /\ Cardinality(U \ {x}) <= n /\ U \ {x} \in SUBSET S
                     /\ \A y \in U \ {x} : Good((U \ {x}) \ {y})
    <3>1. IsFiniteSet(U) /\ Cardinality(U) \in Nat
      BY <1>1
    <3>2. \A x \in U : Cardinality(U \ {x}) = Cardinality(U) - 1
      BY <3>1, FS_RemoveElement
    <3>3. \A x \in U : Cardinality(U \ {x}) <= n /\ IsFiniteSet(U \ {x})
      BY <1>1, <3>1, <3>2
    <3>4. ASSUME NEW x \in U, NEW y \in U \ {x} PROVE Good((U \ {x}) \ {y})
      <4>1. Cardinality((U \ {x}) \ {y}) = Cardinality(U \ {x}) - 1
        BY <3>3, FS_RemoveElement
      <4>2. Cardinality((U \ {x}) \ {y}) <= n /\ (U \ {x}) \ {y} \in SUBSET S
        BY <1>1, <3>3, <4>1
      <4> HIDE DEF Good
      <4> QED BY <4>2
    <3> HIDE DEF Good
    <3> QED BY <3>3, <3>4
  <2>2. \A x \in U : Good(U \ {x})
    <3> HIDE DEF Good
    <3> QED BY <2>1
  <2>3. CASE U = {}
    <3>1. g[U] = 0
      BY <1>2, <2>3
    <3> QED BY <2>3, <3>1
  <2>4. CASE U # {}
    <3> DEFINE c == Chosen(U)
    <3>1. c \in U
      BY <2>4 DEF Chosen
    <3>2. g[U] = h[c] + g[U \ {c}]
      BY <1>2, <2>4
    <3> HIDE DEF c
    <3>3. g[U] \in Int
      <4>1. g[U \ {c}] \in Int /\ h[c] \in Int
        BY <2>2, <3>1
      <4> HIDE DEF Good
      <4> QED BY <3>2, <4>1
    <3>4. ASSUME NEW x \in U PROVE g[U] = h[x] + g[U \ {x}]
      <4>1. CASE x = c
        BY <3>2, <4>1
      <4>2. CASE x # c
        <5>1. x \in U \ {c} /\ c \in U \ {x} /\ (U \ {c}) \ {x} = (U \ {x}) \ {c}
          BY <3>1, <4>2
        <5> DEFINE rest == (U \ {c}) \ {x}
        <5>2. g[U \ {c}] = h[x] + g[rest] /\ g[U \ {x}] = h[c] + g[rest]
          BY <2>2, <3>1, <5>1
        <5>3. h[x] \in Int /\ h[c] \in Int
          BY <3>1
        <5>4. g[rest] \in Int
          BY <2>1, <3>1, <5>1
        <5> HIDE DEF rest
        <5> QED BY <3>2, <5>2, <5>3, <5>4
      <4> QED BY <4>1, <4>2
    <3> QED BY <3>3, <3>4
  <2> QED BY <2>3, <2>4
<1>5. Q = Nat
  <2> HIDE DEF Q
  <2>1. Q \in SUBSET Nat
    BY DEF Q
  <2> QED BY <1>3, <1>4, <2>1, EveryNumber
<1> QED BY <1>1, <1>5

\* The sum of h over a finite set.
SumOver(h, S) == MapThenSumSet(LAMBDA x : h[x], S)

LEMMA SumIs ==
  ASSUME NEW S, IsFiniteSet(S), NEW h
  PROVE  \E g : SumsUp(g, h, S) /\ SumOver(h, S) = g[S]
<1> DEFINE K == CHOOSE k : k = [t \in SUBSET S |-> IF t = {} THEN 0
                   ELSE h[Chosen(t)] + k[t \ {Chosen(t)}]]
<1>1. \E k : SumsUp(k, h, S)
  BY SumExists
<1>2. SumsUp(K, h, S)
  BY <1>1 DEF SumsUp
<1>3. SumOver(h, S) = K[S]
  BY DEF SumOver, MapThenSumSet, MapThenFoldSet, Chosen
<1> QED BY <1>2, <1>3

\* Nothing sums up to nothing, and one element more adds what it stands for.
LEMMA SumOfNone == ASSUME NEW h PROVE SumOver(h, {}) = 0
<1>1. IsFiniteSet({})
  BY FS_EmptySet
<1>2. PICK g : SumsUp(g, h, {}) /\ SumOver(h, {}) = g[{}]
  BY <1>1, SumIs
<1> QED BY <1>2 DEF SumsUp

LEMMA SumOfMore ==
  ASSUME NEW S, IsFiniteSet(S), NEW x, x \notin S, NEW h, \A y \in S \cup {x} : h[y] \in Int
  PROVE  SumOver(h, S) \in Int /\ SumOver(h, S \cup {x}) = SumOver(h, S) + h[x]
<1> DEFINE R == S \cup {x}
<1>1. IsFiniteSet(R)
  BY FS_AddElement
<1>2. S \in SUBSET R /\ x \in R /\ R \ {x} = S
  OBVIOUS
<1>3. \A y \in R : h[y] \in Int
  OBVIOUS
<1> HIDE DEF R
<1>4. PICK g : SumsUp(g, h, S) /\ SumOver(h, S) = g[S]
  BY SumIs
<1>5. PICK f : SumsUp(f, h, R) /\ SumOver(h, R) = f[R]
  BY <1>1, SumIs
<1>6. g[S] = f[S]
  BY <1>2, <1>4, <1>5, SumsAgree
<1>7. \A T \in SUBSET R : f[T] \in Int /\ \A y \in T : f[T] = h[y] + f[T \ {y}]
  <2>1. SumsUp(f, h, R)
    BY <1>5
  <2> QED BY <1>1, <1>3, <2>1, SumTakesOut
<1>8. f[R] = h[x] + f[S] /\ f[S] \in Int /\ h[x] \in Int
  BY <1>2, <1>3, <1>7
<1> QED BY <1>4, <1>5, <1>6, <1>8 DEF R

LEMMA SumOfSame ==
  ASSUME NEW S, IsFiniteSet(S), NEW h, NEW k, \A x \in S : h[x] = k[x]
  PROVE  SumOver(h, S) = SumOver(k, S)
<1>1. PICK g : SumsUp(g, h, S) /\ SumOver(h, S) = g[S]
  BY SumIs
<1>2. PICK f : SumsUp(f, k, S) /\ SumOver(k, S) = f[S]
  BY SumIs
<1>4. g[S] = f[S]
  <2>1. PICK T : T = S
    OBVIOUS
  <2>2. T \in SUBSET S /\ IsFiniteSet(T) /\ \A x \in T : h[x] = k[x]
    BY <2>1
  <2>3. g[T] = f[T]
    BY <1>1, <1>2, <2>2, SumsAgree
  <2> QED BY <2>1, <2>3
<1> QED BY <1>1, <1>2, <1>4

\* A sum is a number, and no element of it stands for more than in a larger
\* one.
LEMMA SumGrows ==
  ASSUME NEW S, IsFiniteSet(S), NEW h, NEW k,
         \A x \in S : h[x] \in Int /\ k[x] \in Int /\ h[x] <= k[x]
  PROVE  SumOver(h, S) \in Int /\ SumOver(k, S) \in Int /\ SumOver(h, S) <= SumOver(k, S)
<1> DEFINE Good(T) == /\ SumOver(h, T) \in Int /\ SumOver(k, T) \in Int
                      /\ SumOver(h, T) <= SumOver(k, T)
           P == {T \in SUBSET S : Good(T)}
<1>1. {} \in P
  <2>1. SumOver(h, {}) = 0 /\ SumOver(k, {}) = 0
    BY SumOfNone
  <2> QED BY <2>1
<1>2. \A T \in P : \A x \in S \ T : T \cup {x} \in P
  <2> SUFFICES ASSUME NEW T \in SUBSET S, Good(T), NEW x \in S \ T
               PROVE  Good(T \cup {x})
    OBVIOUS
  <2>1. IsFiniteSet(T)
    BY FS_Subset
  <2>2. /\ \A y \in T \cup {x} : h[y] \in Int
        /\ \A y \in T \cup {x} : k[y] \in Int
    OBVIOUS
  <2>3. /\ SumOver(h, T \cup {x}) = SumOver(h, T) + h[x]
        /\ SumOver(k, T \cup {x}) = SumOver(k, T) + k[x]
    BY <2>1, <2>2, SumOfMore
  <2>4. h[x] \in Int /\ k[x] \in Int /\ h[x] <= k[x]
    OBVIOUS
  <2> QED BY <2>3, <2>4
<1>3. S \in P
  <2>1. P \in SUBSET SUBSET S
    OBVIOUS
  <2> HIDE DEF P
  <2> QED BY <1>1, <1>2, <2>1, FiniteSetsGrow
<1> QED BY <1>3

\* A sum does not depend on the names of what is summed up.
LEMMA SumOfImage ==
  ASSUME NEW S, IsFiniteSet(S), NEW f, NEW h, NEW k,
         \A x \in S : \A y \in S : f[x] = f[y] => x = y,
         \A x \in S : k[x] \in Int /\ h[f[x]] = k[x]
  PROVE  SumOver(h, {f[x] : x \in S}) = SumOver(k, S)
<1> DEFINE Image(T) == {f[x] : x \in T}
           P == {T \in SUBSET S : IsFiniteSet(Image(T)) /\ SumOver(h, Image(T)) = SumOver(k, T)}
<1>1. {} \in P
  <2>1. Image({}) = {}
    OBVIOUS
  <2>2. IsFiniteSet({}) /\ SumOver(h, {}) = 0 /\ SumOver(k, {}) = 0
    BY SumOfNone, FS_EmptySet
  <2> QED BY <2>1, <2>2
<1>2. \A T \in P : \A x \in S \ T : T \cup {x} \in P
  <2> SUFFICES ASSUME NEW T \in SUBSET S, IsFiniteSet(Image(T)),
                      SumOver(h, Image(T)) = SumOver(k, T), NEW x \in S \ T
               PROVE  /\ IsFiniteSet(Image(T \cup {x}))
                      /\ SumOver(h, Image(T \cup {x})) = SumOver(k, T \cup {x})
    OBVIOUS
  <2>1. Image(T \cup {x}) = Image(T) \cup {f[x]} /\ f[x] \notin Image(T)
    OBVIOUS
  <2>2. \A y \in Image(T) \cup {f[x]} : h[y] \in Int
    OBVIOUS
  <2>3. \A y \in T \cup {x} : k[y] \in Int
    OBVIOUS
  <2>4. h[f[x]] = k[x]
    OBVIOUS
  <2>5. IsFiniteSet(T)
    BY FS_Subset
  <2> HIDE DEF Image
  <2>6. IsFiniteSet(Image(T) \cup {f[x]})
    BY FS_AddElement
  <2>7. SumOver(h, Image(T) \cup {f[x]}) = SumOver(h, Image(T)) + h[f[x]]
    <3> DEFINE R == Image(T)
               z == f[x]
    <3>1. z \notin R /\ IsFiniteSet(R) /\ \A y \in R \cup {z} : h[y] \in Int
      BY <2>1, <2>2
    <3> HIDE DEF R, z
    <3>2. SumOver(h, R \cup {z}) = SumOver(h, R) + h[z]
      BY <3>1, SumOfMore
    <3> QED BY <3>2 DEF R, z
  <2>8. SumOver(k, T \cup {x}) = SumOver(k, T) + k[x]
    BY <2>3, <2>5, SumOfMore
  <2> QED BY <2>1, <2>4, <2>6, <2>7, <2>8
<1>3. S \in P
  <2>1. P \in SUBSET SUBSET S
    OBVIOUS
  <2> HIDE DEF P
  <2> QED BY <1>1, <1>2, <2>1, FiniteSetsGrow
<1> QED BY <1>3

-----------------------------------------------------------------------------
(* The layers of a pot add up to it.                                       *)

Paying(seats, s) == seats[s].totalContribution
UpTo(seats, n) == {l \in Levels(seats) : l <= n}
Capped(seats, n) == [s \in Seats |-> IF Paying(seats, s) <= n THEN Paying(seats, s) ELSE n]
Amounts(seats) == [l \in Levels(seats) |-> Layer(seats, l).amount]
Heights(seats) == [l \in Levels(seats) |-> l - LowerLevel(seats, l)]

\* The same share for some seats.
LEMMA ChipsShared ==
  ASSUME NEW E \in SUBSET Seats, NEW q \in Nat
  PROVE  ChipSum([s \in Seats |-> IF s \in E THEN q ELSE 0]) = q * Cardinality(E)
<1> DEFINE f == [s \in Seats |-> IF s \in E THEN q ELSE 0]
<1>1. \A i \in DOMAIN f : f[i] \in Int
  OBVIOUS
<1>2. \A i \in 0 .. 8 : Chips(f, i) = Shares(E, q, i)
  BY DEF Chips, Shares
<1>3. E \in SUBSET (0 .. 8)
  BY SeatsFinite
<1> HIDE DEF f
<1>4. ChipSum(f) = NinePlaces(f)
  BY <1>1, ChipSumIs
<1>5. /\ Shares(E, q, 0) + Shares(E, q, 1) + Shares(E, q, 2) + Shares(E, q, 3)
           + Shares(E, q, 4) + Shares(E, q, 5) + Shares(E, q, 6) + Shares(E, q, 7)
           + Shares(E, q, 8) = q * Cardinality(E)
  BY <1>3, SharesAdd
<1>6. NinePlaces(f) = q * Cardinality(E)
  BY <1>2, <1>5 DEF NinePlaces
<1> QED BY <1>4, <1>6 DEF f

\* Below a level lies the next lower one, or nothing, and no other between.
LEMMA NextLevel ==
  ASSUME NEW seats \in [Seats -> SeatRecords], NEW level \in Levels(seats)
  PROVE  LET lower == LowerLevel(seats, level)
         IN  /\ lower \in {0} \cup Levels(seats) /\ lower \in Nat /\ level \in Nat /\ lower < level
             /\ \A l \in {0} \cup Levels(seats) : l < level => l <= lower
             /\ \A s \in Seats : Paying(seats, s) \in {0} \cup Levels(seats)
<1> DEFINE S == {0} \cup {l \in Levels(seats) : l < level}
<1>1. level \in Nat /\ level > 0 /\ \A l \in Levels(seats) : l \in Nat
  BY LevelsFinite
<1>2. S \in SUBSET Nat /\ S # {} /\ \A k \in S : k <= level
  <2>1. 0 \in Nat /\ 0 <= level
    BY <1>1
  <2>2. \A l \in Levels(seats) : l < level => l \in Nat /\ l <= level
    BY <1>1
  <2>3. \A k \in S : k \in Nat /\ k <= level
    BY <2>1, <2>2
  <2> QED BY <2>3
<1>3. Max(S) \in S /\ \A k \in S : k <= Max(S)
  <2> HIDE DEF S
  <2> QED BY <1>1, <1>2, Highest
<1>4. LowerLevel(seats, level) = Max(S)
  BY DEF LowerLevel
<1>5. \A s \in Seats : Paying(seats, s) \in {0} \cup Levels(seats)
  BY DEF Paying, Levels
<1>6. Max(S) \in {0} \cup Levels(seats)
  BY <1>3
<1>7. \A l \in {0} \cup Levels(seats) : l < level => l <= Max(S)
  <2>1. \A l \in {0} \cup Levels(seats) : l < level => l \in S
    OBVIOUS
  <2> HIDE DEF S
  <2> QED BY <1>3, <2>1
<1>8. LowerLevel(seats, level) \in Nat /\ LowerLevel(seats, level) < level
  BY LayerBounds
<1> HIDE DEF S
<1> QED BY <1>1, <1>4, <1>5, <1>6, <1>7, <1>8

\* The layers up to a level hold what every seat has put in up to it, and
\* are together as high as it.
LEMMA LayersUpTo ==
  ASSUME NEW seats \in [Seats -> SeatRecords], NEW n \in {0} \cup Levels(seats)
  PROVE  /\ SumOver(Amounts(seats), UpTo(seats, n)) = ChipSum(Capped(seats, n))
         /\ SumOver(Heights(seats), UpTo(seats, n)) = n
<1> DEFINE L == {0} \cup Levels(seats)
           Good(m) == /\ SumOver(Amounts(seats), UpTo(seats, m)) = ChipSum(Capped(seats, m))
                      /\ SumOver(Heights(seats), UpTo(seats, m)) = m
           Bad == {m \in L : ~Good(m)}
<1>1. L \in SUBSET Nat /\ \A s \in Seats : Paying(seats, s) \in Nat
  BY LevelsFinite DEF Paying, SeatRecords
<1>2. Good(0)
  <2>1. UpTo(seats, 0) = {}
    BY LevelsFinite DEF UpTo
  <2>2. Capped(seats, 0) = [s \in Seats |-> 0]
    <3>1. \A s \in Seats : IF Paying(seats, s) <= 0 THEN Paying(seats, s) = 0 ELSE TRUE
      BY <1>1
    <3> QED BY <3>1 DEF Capped
  <2> QED BY <2>1, <2>2, NoChips, SumOfNone
<1>3. ASSUME NEW m \in Levels(seats), Good(LowerLevel(seats, m)) PROVE Good(m)
  <2> DEFINE low == LowerLevel(seats, m)
             E == {s \in Seats : Paying(seats, s) >= m}
             q == m - low
             more == [s \in Seats |-> IF s \in E THEN q ELSE 0]
  <2>1. /\ low \in L /\ low \in Nat /\ m \in Nat /\ low < m
        /\ \A l \in L : l < m => l <= low
        /\ \A s \in Seats : Paying(seats, s) \in L
    BY <1>3, NextLevel
  <2>2. UpTo(seats, m) = UpTo(seats, low) \cup {m} /\ m \notin UpTo(seats, low)
    <3>1. \A l \in Levels(seats) : l <= m <=> (l <= low \/ l = m)
      <4>1. \A l \in Levels(seats) : l \in L /\ l \in Nat
        BY <1>1
      <4> HIDE DEF L, low
      <4> QED BY <2>1, <4>1
    <3>2. ~(m <= low)
      BY <2>1
    <3> HIDE DEF low
    <3> QED BY <1>3, <3>1, <3>2 DEF UpTo
  <2>3. IsFiniteSet(UpTo(seats, low))
    <3>1. UpTo(seats, low) \in SUBSET Levels(seats)
      BY DEF UpTo
    <3> HIDE DEF low
    <3> QED BY <3>1, LevelsFinite, FS_Subset
  <2>4. /\ \A l \in UpTo(seats, low) \cup {m} : Amounts(seats)[l] \in Int
        /\ \A l \in UpTo(seats, low) \cup {m} : Heights(seats)[l] \in Int
    <3>1. \A l \in Levels(seats) : Amounts(seats)[l] \in Int /\ Heights(seats)[l] \in Int
      <4> SUFFICES ASSUME NEW l \in Levels(seats)
                   PROVE  Amounts(seats)[l] \in Int /\ Heights(seats)[l] \in Int
        OBVIOUS
      <4>1. Layer(seats, l).amount \in Nat /\ LowerLevel(seats, l) \in Nat /\ l \in Nat
        BY <1>1, LayerBounds
      <4> QED BY <4>1 DEF Amounts, Heights
    <3>2. UpTo(seats, low) \cup {m} \in SUBSET Levels(seats)
      BY <1>3 DEF UpTo
    <3> HIDE DEF low
    <3> QED BY <3>1, <3>2
  <2>5. Amounts(seats)[m] = q * Cardinality(E) /\ Heights(seats)[m] = q
    BY <1>3 DEF Amounts, Heights, Layer, Paying
  <2>6. q \in Nat /\ Cardinality(E) \in Nat /\ E \in SUBSET Seats
    BY <2>1, SeatsFinite
  <2>7. ChipSum(more) = q * Cardinality(E)
    <3> HIDE DEF E, q
    <3> QED BY <2>6, ChipsShared
  <2>8. Capped(seats, low) \in [Seats -> Int] /\ more \in [Seats -> Int]
    BY <1>1, <2>1, <2>6 DEF Capped
  <2>9. Capped(seats, m) = [s \in Seats |-> Capped(seats, low)[s] + more[s]]
    <3> SUFFICES ASSUME NEW s \in Seats
                 PROVE  (IF Paying(seats, s) <= m THEN Paying(seats, s) ELSE m)
                          = (IF Paying(seats, s) <= low THEN Paying(seats, s) ELSE low) + more[s]
      BY DEF Capped
    <3> DEFINE p == Paying(seats, s)
    <3>1. p \in Nat /\ (p < m => p <= low) /\ more[s] = IF p >= m THEN m - low ELSE 0
      BY <1>1, <2>1
    <3> HIDE DEF low, more, p, L
    <3> QED BY <2>1, <3>1 DEF p
  <2>10. ChipSum([s \in Seats |-> Capped(seats, low)[s] + more[s]])
           = ChipSum(Capped(seats, low)) + ChipSum(more)
    <3> HIDE DEF more, low
    <3> QED BY <2>8, ChipsAdd
  <2>11. /\ SumOver(Amounts(seats), UpTo(seats, m))
              = SumOver(Amounts(seats), UpTo(seats, low)) + Amounts(seats)[m]
         /\ SumOver(Heights(seats), UpTo(seats, m))
              = SumOver(Heights(seats), UpTo(seats, low)) + Heights(seats)[m]
    <3> DEFINE R == UpTo(seats, low)
               a == Amounts(seats)
               h == Heights(seats)
    <3>1. IsFiniteSet(R) /\ m \notin R
      BY <2>2, <2>3
    <3>2. \A l \in R \cup {m} : a[l] \in Int
      BY <2>4
    <3>3. \A l \in R \cup {m} : h[l] \in Int
      BY <2>4
    <3> HIDE DEF R, a, h
    <3>4. SumOver(a, R \cup {m}) = SumOver(a, R) + a[m]
      BY <3>1, <3>2, SumOfMore
    <3>5. SumOver(h, R \cup {m}) = SumOver(h, R) + h[m]
      BY <3>1, <3>3, SumOfMore
    <3> QED BY <2>2, <3>4, <3>5 DEF R, a, h
  <2>12. /\ SumOver(Amounts(seats), UpTo(seats, low)) = ChipSum(Capped(seats, low))
         /\ SumOver(Heights(seats), UpTo(seats, low)) = low
    BY <1>3
  <2>13. SumOver(Amounts(seats), UpTo(seats, m)) = ChipSum(Capped(seats, m))
    <3> HIDE DEF more, low, q, E
    <3> QED BY <2>5, <2>7, <2>9, <2>10, <2>11, <2>12
  <2>14. low + q = m
    BY <2>1
  <2>15. SumOver(Heights(seats), UpTo(seats, m)) = m
    <3> HIDE DEF low, q
    <3> QED BY <2>5, <2>11, <2>12, <2>14
  <2> QED BY <2>13, <2>15
<1>4. Bad = {}
  <2> SUFFICES ASSUME Bad # {} PROVE FALSE
    OBVIOUS
  <2>1. PICK m \in Bad : \A k \in Bad : m <= k
    <3>1. Bad \in SUBSET Nat
      BY <1>1
    <3> HIDE DEF Bad
    <3> QED BY <3>1, LeastNumber
  <2>2. m \in L /\ ~Good(m)
    BY <2>1
  <2>3. m \in Levels(seats)
    <3> HIDE DEF Good
    <3> QED BY <1>2, <2>2
  <2> DEFINE low == LowerLevel(seats, m)
  <2>4. low \in L /\ low \in Nat /\ m \in Nat /\ low < m
    BY <2>3, NextLevel
  <2>5. low \notin Bad
    <3> HIDE DEF Bad, L, low
    <3> QED BY <2>1, <2>4
  <2>6. Good(low)
    <3> HIDE DEF Good, low
    <3> QED BY <2>4, <2>5
  <2> HIDE DEF Good, Bad
  <2> QED BY <1>3, <2>2, <2>3, <2>6
<1>5. n \in L
  OBVIOUS
<1>6. Good(n)
  <2> HIDE DEF Good, L
  <2> QED BY <1>4, <1>5
<1> QED BY <1>6

\* However a sum is taken, it is the sum.
LEMMA AnySum ==
  ASSUME NEW S, IsFiniteSet(S), NEW g, NEW h, SumsUp(g, h, S)
  PROVE  SumOver(h, S) = g[S]
<1>1. PICK f : SumsUp(f, h, S) /\ SumOver(h, S) = f[S]
  BY SumIs
<1>2. PICK T : T = S
  OBVIOUS
<1>3. T \in SUBSET S /\ IsFiniteSet(T) /\ \A x \in T : h[x] = h[x]
  BY <1>2
<1>4. g[T] = f[T]
  BY <1>1, <1>3, SumsAgree
<1> QED BY <1>1, <1>2, <1>4

LEMMA LayersTotalIs ==
  ASSUME NEW seats \in [Seats -> SeatRecords]
  PROVE  LayersTotal(seats) = SumOver(Amounts(seats), Levels(seats))
<1> DEFINE S == Levels(seats)
           b == Amounts(seats)
           K == CHOOSE k : k = [t \in SUBSET S |-> IF t = {} THEN 0
                   ELSE Layer(seats, Chosen(t)).amount + k[t \ {Chosen(t)}]]
<1>1. IsFiniteSet(S)
  BY LevelsFinite
<1>2. \E k : SumsUp(k, b, S)
  <2> HIDE DEF b, S
  <2> QED BY <1>1, SumExists
<1>3. \A k : SumsUp(k, b, S) <=> k = [t \in SUBSET S |-> IF t = {} THEN 0
                   ELSE Layer(seats, Chosen(t)).amount + k[t \ {Chosen(t)}]]
  <2> SUFFICES ASSUME NEW k
               PROVE  [t \in SUBSET S |-> IF t = {} THEN 0 ELSE b[Chosen(t)] + k[t \ {Chosen(t)}]]
                      = [t \in SUBSET S |-> IF t = {} THEN 0
                           ELSE Layer(seats, Chosen(t)).amount + k[t \ {Chosen(t)}]]
    BY DEF SumsUp
  <2>1. \A t \in SUBSET S : t # {} => Chosen(t) \in S
    BY DEF Chosen
  <2>2. \A t \in SUBSET S : t # {} => b[Chosen(t)] = Layer(seats, Chosen(t)).amount
    BY <2>1 DEF Amounts
  <2> HIDE DEF b, S
  <2> QED BY <2>2
<1>4. SumsUp(K, b, S)
  <2> HIDE DEF b, S
  <2> QED BY <1>2, <1>3
<1>5. LayersTotal(seats) = K[S]
  BY DEF LayersTotal, MapThenSumSet, MapThenFoldSet, Chosen
<1> HIDE DEF K, b, S
<1>6. SumOver(b, S) = K[S]
  BY <1>1, <1>4, AnySum
<1> QED BY <1>5, <1>6 DEF b, S

\* The highest level is one, and bounds what every seat has put in.
LEMMA TopLevel ==
  ASSUME NEW seats \in [Seats -> SeatRecords], Levels(seats) # {}
  PROVE  /\ Max(Levels(seats)) \in Levels(seats)
         /\ \A l \in Levels(seats) : l <= Max(Levels(seats))
         /\ \A s \in Seats : Paying(seats, s) <= Max(Levels(seats))
<1> DEFINE total == [s \in Seats |-> Paying(seats, s)]
           L == Levels(seats)
<1>1. total \in [Seats -> Nat]
  BY DEF Paying, SeatRecords
<1>2. ChipSum(total) \in Nat /\ \A s \in Seats : total[s] <= ChipSum(total)
  <2> HIDE DEF total
  <2> QED BY <1>1, ChipsNat
<1>3. L \in SUBSET Nat /\ \A l \in L : l > 0
  BY LevelsFinite
<1>4. \A k \in L : k <= ChipSum(total)
  <2>1. \A k \in L : \E s \in Seats : k = total[s]
    BY DEF Levels, Paying
  <2> HIDE DEF total, L
  <2> QED BY <1>2, <2>1
<1>5. Max(L) \in L /\ \A l \in L : l <= Max(L)
  <2>1. L # {}
    OBVIOUS
  <2> HIDE DEF total, L
  <2> QED BY <1>2, <1>3, <1>4, <2>1, Highest
<1>6. \A s \in Seats : Paying(seats, s) \in L \/ Paying(seats, s) = 0
  BY DEF Levels, Paying
<1>7. Max(L) \in Nat
  BY <1>3, <1>5
<1> HIDE DEF L
<1> QED BY <1>5, <1>6, <1>7 DEF L

\* A pot is the sum of its layers (projectContributionLayers checks it).
LEMMA LayersAddUp ==
  ASSUME NEW seats \in [Seats -> SeatRecords]
  PROVE  LayersTotal(seats) = ChipSum([s \in Seats |-> seats[s].totalContribution])
<1> DEFINE total == [s \in Seats |-> seats[s].totalContribution]
<1>1. LayersTotal(seats) = SumOver(Amounts(seats), Levels(seats))
  BY LayersTotalIs
<1>2. CASE Levels(seats) = {}
  <2>1. total = [s \in Seats |-> 0]
    BY <1>2 DEF Levels
  <2> QED BY <1>1, <1>2, <2>1, SumOfNone, NoChips
<1>3. CASE Levels(seats) # {}
  <2> DEFINE n == Max(Levels(seats))
  <2>1. /\ n \in Levels(seats) /\ \A l \in Levels(seats) : l <= n
        /\ \A s \in Seats : Paying(seats, s) <= n
    BY <1>3, TopLevel
  <2> HIDE DEF n
  <2>2. UpTo(seats, n) = Levels(seats)
    BY <2>1 DEF UpTo
  <2>3. Capped(seats, n) = total
    BY <2>1 DEF Capped, Paying
  <2>4. n \in {0} \cup Levels(seats)
    BY <2>1
  <2>5. SumOver(Amounts(seats), UpTo(seats, n)) = ChipSum(Capped(seats, n))
    BY <2>4, LayersUpTo
  <2> QED BY <1>1, <2>2, <2>3, <2>5
<1> QED BY <1>2, <1>3

-----------------------------------------------------------------------------
(* What a hand must have become to be settled.                             *)

\* What a seat brought from the earlier streets.
Base(seat) == seat.totalContribution - seat.streetContribution
TopBase(seats, s) == \A o \in Seats : Base(seats[o]) <= Base(seats[s])

\* Somebody who is still in has put in as much as anybody.
TopInHand(seats) ==
  \A s \in Seats : \E h \in Seats : InHand(seats[h]) /\ Paying(seats, h) >= Paying(seats, s)

\* At least two seats brought as much as anybody from the earlier streets.
SharedBase(seats) == \E s, o \in Seats : s # o /\ TopBase(seats, s) /\ TopBase(seats, o)

TwoPaid(seats) == \E s, o \in Seats : s # o /\ Paying(seats, s) > 0 /\ Paying(seats, o) > 0

StreetInTotal(seats) == \A s \in Seats : seats[s].streetContribution <= seats[s].totalContribution

\* Every layer of such a pot has a winner, and the layers add up to it.
LEMMA LayersAreValid ==
  ASSUME NEW seats \in [Seats -> SeatRecords], TopInHand(seats)
  PROVE  LayersValid(seats, ChipSum([s \in Seats |-> seats[s].totalContribution]))
<1>1. ASSUME NEW level \in Levels(seats) PROVE Layer(seats, level).eligible # {}
  <2>1. PICK s \in Seats : level = Paying(seats, s)
    BY <1>1 DEF Levels, Paying
  <2>2. PICK h \in Seats : InHand(seats[h]) /\ Paying(seats, h) >= level
    BY <2>1 DEF TopInHand
  <2>3. h \in Layer(seats, level).eligible
    BY <2>2 DEF Layer, Paying
  <2> QED BY <2>3
<1>2. \A layer \in Layers(seats) : layer.eligible # {}
  BY <1>1 DEF Layers
<1> QED BY <1>2, LayersAddUp DEF LayersValid

\* What goes back: nothing, or what the seat that has put in most, which is
\* still in, has put in beyond every other.
ReturnFits(seats) ==
  LET back == UncalledReturn(seats)
  IN  \/ back = [seat |-> NoSeat, amount |-> 0]
      \/ /\ back.seat \in Seats /\ back.seat # NoSeat
         /\ back.amount \in Nat /\ back.amount > 0
         /\ InHand(seats[back.seat])
         /\ \A o \in Seats \ {back.seat} :
               Paying(seats, o) <= Paying(seats, back.seat) - back.amount

LEMMA UncalledFits ==
  ASSUME NEW seats \in [Seats -> SeatRecords], Levels(seats) # {}, TopInHand(seats)
  PROVE  ReturnFits(seats)
<1> DEFINE level == Max(Levels(seats))
           top == Layer(seats, level)
           lower == LowerLevel(seats, level)
           back == UncalledReturn(seats)
<1>1. CASE Cardinality(top.contributors) # 1
  BY <1>1 DEF UncalledReturn, ReturnFits
<1>2. CASE Cardinality(top.contributors) = 1
  <2>1. /\ level \in Levels(seats) /\ \A s \in Seats : Paying(seats, s) <= level
    BY TopLevel
  <2>2. top.contributors = {s \in Seats : Paying(seats, s) >= level}
    BY DEF Layer, Paying
  <2>3. IsFiniteSet(top.contributors)
    BY <2>2, SeatsFinite
  <2>4. PICK x : top.contributors = {x}
    <3> HIDE DEF top
    <3> QED BY <1>2, <2>3, FS_Singleton
  <2>5. back = [seat |-> x, amount |-> top.amount]
    BY <1>2, <2>4 DEF UncalledReturn
  <2>6. top.amount = (level - lower) * 1
    <3>1. top.amount = (level - lower) * Cardinality(top.contributors)
      BY DEF Layer
    <3> HIDE DEF top, lower, level
    <3> QED BY <1>2, <3>1
  <2> HIDE DEF level
  <2>7. /\ lower \in Nat /\ level \in Nat /\ lower < level
        /\ \A l \in {0} \cup Levels(seats) : l < level => l <= lower
        /\ \A s \in Seats : Paying(seats, s) \in {0} \cup Levels(seats)
    BY <2>1, NextLevel
  <2> HIDE DEF lower, back
  <2>8. \A s \in Seats : Paying(seats, s) \in Nat
    BY DEF Paying, SeatRecords
  <2>9. x \in Seats /\ Paying(seats, x) = level
    BY <2>1, <2>2, <2>4, <2>7, <2>8
  <2>10. \A o \in Seats \ {x} : Paying(seats, o) <= lower
    <3> SUFFICES ASSUME NEW o \in Seats \ {x} PROVE Paying(seats, o) <= lower
      OBVIOUS
    <3>1. o \notin top.contributors
      BY <2>4
    <3>2. ~(Paying(seats, o) >= level)
      BY <2>2, <3>1
    <3>3. Paying(seats, o) < level
      BY <2>7, <2>8, <3>2
    <3> QED BY <2>7, <3>3
  <2>11. InHand(seats[x])
    <3>1. PICK h \in Seats : InHand(seats[h]) /\ Paying(seats, h) >= Paying(seats, x)
      BY <2>9 DEF TopInHand
    <3>2. h \in top.contributors
      BY <2>2, <2>9, <3>1
    <3> QED BY <2>4, <3>1, <3>2
  <2>14. level - lower \in Nat /\ level - lower > 0 /\ Paying(seats, x) - (level - lower) = lower
    BY <2>7, <2>9
  <2>15. NoSeat \notin Seats
    BY SeatsFinite DEF NoSeat
  <2>16. back.seat = x /\ back.amount = level - lower
    <3>1. (level - lower) * 1 = level - lower
      BY <2>14
    <3> QED BY <2>5, <2>6, <3>1
  <2> QED BY <2>9, <2>10, <2>11, <2>14, <2>15, <2>16 DEF back, ReturnFits
<1> QED BY <1>1, <1>2

\* What a seat has put in beyond every other it has put in on this street.
LEMMA ExcessIsRecent ==
  ASSUME NEW seats \in [Seats -> SeatRecords], SharedBase(seats), StreetInTotal(seats),
         NEW x \in Seats, NEW n \in Nat,
         \A o \in Seats \ {x} : Paying(seats, o) <= Paying(seats, x) - n
  PROVE  n <= seats[x].streetContribution
<1>1. PICK p \in Seats \ {x} : Base(seats[x]) <= Base(seats[p])
  BY DEF SharedBase, TopBase
<1>2. \A s \in Seats : /\ Paying(seats, s) \in Nat /\ seats[s].streetContribution \in Nat
                       /\ Base(seats[s]) \in Nat
                       /\ Base(seats[s]) + seats[s].streetContribution = Paying(seats, s)
  BY DEF Paying, SeatRecords, Base, StreetInTotal
<1>3. /\ Paying(seats, x) \in Nat /\ Paying(seats, p) \in Nat
      /\ Base(seats[x]) \in Nat /\ Base(seats[p]) \in Nat
      /\ seats[x].streetContribution \in Nat /\ seats[p].streetContribution \in Nat
      /\ Base(seats[x]) + seats[x].streetContribution = Paying(seats, x)
      /\ Base(seats[p]) + seats[p].streetContribution = Paying(seats, p)
      /\ Paying(seats, p) <= Paying(seats, x) - n
  BY <1>1, <1>2
<1> QED BY <1>1, <1>3

\* What goes back was put in on the last street.
LEMMA UncalledIsRecent ==
  ASSUME NEW seats \in [Seats -> SeatRecords], ReturnFits(seats),
         SharedBase(seats), StreetInTotal(seats)
  PROVE  LET back == UncalledReturn(seats)
         IN  back.seat # NoSeat => back.amount <= seats[back.seat].streetContribution
<1> DEFINE back == UncalledReturn(seats)
<1>1. back.seat # NoSeat =>
        /\ back.seat \in Seats /\ back.amount \in Nat
        /\ \A o \in Seats \ {back.seat} :
              Paying(seats, o) <= Paying(seats, back.seat) - back.amount
  BY DEF ReturnFits
<1> HIDE DEF back
<1> QED BY <1>1, ExcessIsRecent DEF back

\* What is left after the return is a pot of the same kind.
LEMMA ReturnedIsValid ==
  ASSUME NEW seats \in [Seats -> SeatRecords], Levels(seats) # {}, TopInHand(seats),
         ReturnFits(seats), StreetInTotal(seats),
         LET back == UncalledReturn(seats)
         IN  back.seat # NoSeat => back.amount <= seats[back.seat].streetContribution
  PROVE  LET back == UncalledReturn(seats)
             rest == Returned(seats)
         IN  /\ rest \in [Seats -> SeatRecords] /\ TopInHand(rest)
             /\ TwoPaid(seats) => Levels(rest) # {}
             /\ \A s \in Seats :
                   /\ rest[s].status = seats[s].status
                   /\ rest[s].stack = seats[s].stack + (IF back.seat = s THEN back.amount ELSE 0)
                   /\ Paying(rest, s) = Paying(seats, s) - (IF back.seat = s THEN back.amount ELSE 0)
             /\ ChipSum([s \in Seats |-> rest[s].totalContribution])
                  = ChipSum([s \in Seats |-> seats[s].totalContribution]) - back.amount
             /\ LayersValid(rest, ChipSum([s \in Seats |-> seats[s].totalContribution]) - back.amount)
<1> DEFINE back == UncalledReturn(seats)
           rest == Returned(seats)
           total == [s \in Seats |-> seats[s].totalContribution]
           left == [s \in Seats |-> rest[s].totalContribution]
<1>0. NoSeat \notin Seats
  BY SeatsFinite DEF NoSeat
<1>1. total \in [Seats -> Nat] /\ ChipSum(total) \in Int
  <2>1. total \in [Seats -> Nat]
    BY DEF SeatRecords
  <2> HIDE DEF total
  <2> QED BY <2>1, ChipsNat
<1>2. CASE back = [seat |-> NoSeat, amount |-> 0]
  <2>1. rest = seats /\ back.amount = 0 /\ \A s \in Seats : back.seat # s
    BY <1>0, <1>2 DEF Returned
  <2> HIDE DEF rest, back
  <2>2. \A s \in Seats : seats[s].stack + 0 = seats[s].stack /\ Paying(seats, s) - 0 = Paying(seats, s)
    BY DEF SeatRecords, Paying
  <2>3. ChipSum(total) - 0 = ChipSum(total)
    BY <1>1
  <2> QED BY <2>1, <2>2, <2>3, LayersAreValid DEF back, rest
<1>3. CASE back # [seat |-> NoSeat, amount |-> 0]
  <2>1. /\ back.seat \in Seats /\ back.seat # NoSeat
        /\ back.amount \in Nat /\ back.amount > 0
        /\ InHand(seats[back.seat])
        /\ back.amount <= seats[back.seat].streetContribution
        /\ \A o \in Seats \ {back.seat} :
              Paying(seats, o) <= Paying(seats, back.seat) - back.amount
    BY <1>3 DEF ReturnFits
  <2> DEFINE x == back.seat
             n == back.amount
             new == Refunded(seats[x], n)
  <2>2. rest = [seats EXCEPT ![x] = new]
    BY <2>1 DEF Returned
  <2> HIDE DEF back, rest
  <2>3. /\ seats[x] \in SeatRecords /\ seats[x].totalContribution \in Nat /\ seats[x].stack \in Nat
        /\ seats[x].streetContribution \in Nat
        /\ seats[x].streetContribution <= seats[x].totalContribution
    BY <2>1 DEF SeatRecords, StreetInTotal
  <2>4. /\ new \in SeatRecords /\ new.status = seats[x].status /\ new.stack = seats[x].stack + n
        /\ new.totalContribution = seats[x].totalContribution - n
    <3>1. /\ seats[x].stack + n \in Nat /\ seats[x].streetContribution - n \in Nat
          /\ seats[x].totalContribution - n \in Nat
      BY <2>1, <2>3
    <3> QED BY <2>3, <3>1 DEF SeatRecords, Refunded
  <2> HIDE DEF new
  <2>5. rest \in [Seats -> SeatRecords] /\ rest[x] = new /\ \A o \in Seats \ {x} : rest[o] = seats[o]
    BY <2>1, <2>2, <2>4
  <2>6. ASSUME NEW s \in Seats
        PROVE  /\ rest[s].status = seats[s].status
               /\ rest[s].stack = seats[s].stack + (IF x = s THEN n ELSE 0)
               /\ Paying(rest, s) = Paying(seats, s) - (IF x = s THEN n ELSE 0)
    <3>1. seats[s].stack + 0 = seats[s].stack /\ Paying(seats, s) - 0 = Paying(seats, s)
      BY DEF SeatRecords, Paying
    <3> QED BY <2>4, <2>5, <3>1 DEF Paying
  <2>7. TopInHand(rest)
    <3>1. InHand(rest[x])
      BY <2>1, <2>4, <2>5 DEF InHand
    <3>2. \A s \in Seats : Paying(rest, x) >= Paying(rest, s)
      <4>1. \A s \in Seats : Paying(rest, s) \in Nat
        BY <2>5 DEF Paying, SeatRecords
      <4>2. Paying(rest, x) = Paying(seats, x) - n
        BY <2>1, <2>6
      <4>3. \A s \in Seats \ {x} : Paying(rest, s) = Paying(seats, s)
        BY <2>5 DEF Paying
      <4> QED BY <2>1, <4>1, <4>2, <4>3
    <3> QED BY <2>1, <3>1, <3>2 DEF TopInHand
  <2>8. ASSUME TwoPaid(seats) PROVE Levels(rest) # {}
    <3>1. PICK o \in Seats \ {x} : Paying(seats, o) > 0
      BY <2>8 DEF TwoPaid
    <3>2. rest[o].totalContribution > 0
      BY <2>5, <3>1 DEF Paying
    <3>3. rest[o].totalContribution # 0
      BY <2>5, <3>2
    <3> QED BY <3>3 DEF Levels
  <2>9. ChipSum(left) = ChipSum(total) - n
    <3>1. left \in [Seats -> Nat]
      BY <2>5 DEF SeatRecords
    <3>2. left[x] = total[x] + (0 - n) /\ \A o \in Seats \ {x} : left[o] = total[o]
      BY <2>1, <2>3, <2>4, <2>5
    <3>3. 0 - n \in Int /\ left \in [Seats -> Int] /\ total \in [Seats -> Int]
      BY <1>1, <2>1, <3>1
    <3> HIDE DEF left, total
    <3>4. ChipSum(left) = ChipSum(total) + (0 - n)
      BY <2>1, <3>2, <3>3, ChipsChange
    <3> QED BY <1>1, <2>1, <3>4
  <2>10. LayersValid(rest, ChipSum(left))
    BY <2>5, <2>7, LayersAreValid
  <2> QED BY <2>5, <2>6, <2>7, <2>8, <2>9, <2>10 DEF back, rest
<1> QED BY <1>2, <1>3

\* A hand that has ended so can be settled.
LEMMA CanBeSettled ==
  ASSUME NEW t \in TableRecords, t.street \in EndStreets, t.pot = ChipSum(Totals(t)), t.pot > 0,
         TopInHand(t.seats), SharedBase(t.seats), StreetInTotal(t.seats), TwoPaid(t.seats),
         IF t.street = "showdown" THEN t.board = 5 /\ Cardinality(Contenders(t)) >= 2
         ELSE Cardinality(Contenders(t)) = 1
  PROVE  Settleable(t)
<1> DEFINE back == UncalledReturn(t.seats)
<1>1. t.seats \in [Seats -> SeatRecords] /\ Levels(t.seats) # {}
  BY ChipsOfPot DEF TableRecords
<1>2. Totals(t) = [s \in Seats |-> t.seats[s].totalContribution]
  BY DEF Totals
<1>3. LayersValid(t.seats, t.pot)
  BY <1>1, <1>2, LayersAreValid
<1>4. /\ ReturnFits(t.seats)
      /\ back.seat # NoSeat => back.amount <= t.seats[back.seat].streetContribution
  BY <1>1, UncalledFits, UncalledIsRecent
<1>5. back.seat # NoSeat => InHand(t.seats[back.seat])
  BY <1>4 DEF ReturnFits
<1>6. LayersValid(Returned(t.seats), t.pot - back.amount)
  BY <1>1, <1>2, <1>4, ReturnedIsValid
<1> QED BY <1>2, <1>3, <1>4, <1>5, <1>6 DEF Settleable

-----------------------------------------------------------------------------
(* What a seat is awarded.                                                 *)

\* What counts for nothing may be left out of a sum.
LEMMA SumOfPart ==
  ASSUME NEW S, IsFiniteSet(S), NEW T \in SUBSET S, NEW h, \A x \in S : h[x] \in Int,
         \A x \in S \ T : h[x] = 0
  PROVE  SumOver(h, S) = SumOver(h, T)
<1> DEFINE R == S \ T
           P == {U \in SUBSET R : SumOver(h, T \cup U) = SumOver(h, T)}
<1>1. IsFiniteSet(R) /\ R \in SUBSET S
  BY FS_Subset
<1>2. {} \in P
  <2>1. T \cup {} = T
    OBVIOUS
  <2> QED BY <2>1
<1>3. \A U \in P : \A x \in R \ U : U \cup {x} \in P
  <2> SUFFICES ASSUME NEW U \in SUBSET R, SumOver(h, T \cup U) = SumOver(h, T), NEW x \in R \ U
               PROVE  SumOver(h, T \cup (U \cup {x})) = SumOver(h, T)
    OBVIOUS
  <2> DEFINE V == T \cup U
  <2>1. V \in SUBSET S /\ x \notin V /\ x \in S /\ T \cup (U \cup {x}) = V \cup {x} /\ h[x] = 0
    OBVIOUS
  <2>2. SumOver(h, V) = SumOver(h, T)
    OBVIOUS
  <2> HIDE DEF V
  <2>3. IsFiniteSet(V) /\ \A y \in V \cup {x} : h[y] \in Int
    BY <2>1, FS_Subset
  <2>4. SumOver(h, V) \in Int /\ SumOver(h, V \cup {x}) = SumOver(h, V) + h[x]
    BY <2>1, <2>3, SumOfMore
  <2>5. SumOver(h, V \cup {x}) = SumOver(h, T)
    BY <2>1, <2>2, <2>4
  <2> DEFINE W == V \cup {x}
  <2>6. T \cup (U \cup {x}) = W /\ SumOver(h, W) = SumOver(h, T)
    BY <2>1, <2>5
  <2> HIDE DEF W
  <2> QED BY <2>6
<1>4. R \in P
  <2>1. P \in SUBSET SUBSET R
    OBVIOUS
  <2> HIDE DEF P, R
  <2> QED BY <1>1, <1>2, <1>3, <2>1, FiniteSetsGrow
<1>5. T \cup R = S
  OBVIOUS
<1> HIDE DEF R
<1> QED BY <1>4, <1>5

\* One more of each makes as much more as there are.
LEMMA SumOfMoreEach ==
  ASSUME NEW S, IsFiniteSet(S), NEW h, NEW k, \A x \in S : h[x] \in Int /\ k[x] = h[x] + 1
  PROVE  SumOver(k, S) = SumOver(h, S) + Cardinality(S)
<1> DEFINE P == {T \in SUBSET S : SumOver(h, T) \in Int
                                  /\ SumOver(k, T) = SumOver(h, T) + Cardinality(T)}
<1>1. {} \in P
  <2>1. SumOver(h, {}) = 0 /\ SumOver(k, {}) = 0 /\ Cardinality({}) = 0
    BY SumOfNone, FS_EmptySet
  <2> QED BY <2>1
<1>2. \A T \in P : \A x \in S \ T : T \cup {x} \in P
  <2> SUFFICES ASSUME NEW T \in SUBSET S, SumOver(h, T) \in Int,
                      SumOver(k, T) = SumOver(h, T) + Cardinality(T), NEW x \in S \ T
               PROVE  /\ SumOver(h, T \cup {x}) \in Int
                      /\ SumOver(k, T \cup {x}) = SumOver(h, T \cup {x}) + Cardinality(T \cup {x})
    OBVIOUS
  <2>1. IsFiniteSet(T)
    BY FS_Subset
  <2>2. Cardinality(T) \in Nat /\ Cardinality(T \cup {x}) = Cardinality(T) + 1
    BY <2>1, FS_AddElement, FS_CardinalityType
  <2>3. /\ \A y \in T \cup {x} : h[y] \in Int
        /\ \A y \in T \cup {x} : k[y] \in Int
    OBVIOUS
  <2>4. /\ SumOver(h, T \cup {x}) = SumOver(h, T) + h[x]
        /\ SumOver(k, T \cup {x}) = SumOver(k, T) + k[x]
    BY <2>1, <2>3, SumOfMore
  <2>5. h[x] \in Int /\ k[x] = h[x] + 1
    OBVIOUS
  <2> QED BY <2>2, <2>4, <2>5
<1>3. S \in P
  <2>1. P \in SUBSET SUBSET S
    OBVIOUS
  <2> HIDE DEF P
  <2> QED BY <1>1, <1>2, <2>1, FiniteSetsGrow
<1> QED BY <1>3

\* What a seat gets from each layer.
AwardsOf(seats, strength, button, s) ==
  [l \in Levels(seats) |-> Award(Layer(seats, l), strength, button, s)]

LEMMA AwardedIs ==
  ASSUME NEW seats \in [Seats -> SeatRecords], NEW strength, NEW button, NEW s
  PROVE  Awarded(seats, strength, button, s)
           = SumOver(AwardsOf(seats, strength, button, s), Levels(seats))
<1> DEFINE S == Levels(seats)
           a(l) == Award(Layer(seats, l), strength, button, s)
           b == AwardsOf(seats, strength, button, s)
           K == CHOOSE k : k = [t \in SUBSET S |-> IF t = {} THEN 0
                   ELSE a(Chosen(t)) + k[t \ {Chosen(t)}]]
<1>1. IsFiniteSet(S)
  BY LevelsFinite
<1>2. \E k : SumsUp(k, b, S)
  <2> HIDE DEF b, S
  <2> QED BY <1>1, SumExists
<1>3. \A k : SumsUp(k, b, S) <=> k = [t \in SUBSET S |-> IF t = {} THEN 0
                   ELSE a(Chosen(t)) + k[t \ {Chosen(t)}]]
  <2> SUFFICES ASSUME NEW k
               PROVE  [t \in SUBSET S |-> IF t = {} THEN 0 ELSE b[Chosen(t)] + k[t \ {Chosen(t)}]]
                      = [t \in SUBSET S |-> IF t = {} THEN 0
                           ELSE a(Chosen(t)) + k[t \ {Chosen(t)}]]
    BY DEF SumsUp
  <2>1. \A t \in SUBSET S : t # {} => Chosen(t) \in S
    BY DEF Chosen
  <2>2. \A t \in SUBSET S : t # {} => b[Chosen(t)] = a(Chosen(t))
    BY <2>1 DEF AwardsOf
  <2> HIDE DEF a, b, S
  <2> QED BY <2>2
<1>4. SumsUp(K, b, S)
  <2> HIDE DEF b, S, a
  <2> QED BY <1>2, <1>3
<1>5. Awarded(seats, strength, button, s) = K[S]
  BY DEF Awarded, MapThenSumSet, MapThenFoldSet, Chosen
<1> HIDE DEF K, b, S
<1>6. SumOver(b, S) = K[S]
  BY <1>1, <1>4, AnySum
<1> QED BY <1>5, <1>6 DEF b, S

\* There are no more layers than seats.
LEMMA FewLevels ==
  ASSUME NEW seats \in [Seats -> SeatRecords]
  PROVE  Cardinality(Levels(seats)) \in Nat /\ Cardinality(Levels(seats)) <= Cardinality(Seats)
<1> DEFINE E == {s \in Seats : seats[s].totalContribution # 0}
           f == [s \in E |-> seats[s].totalContribution]
           L == Levels(seats)
<1>1. f \in Surjection(E, L)
  BY DEF Surjection, Levels
<1>2. IsFiniteSet(E) /\ E \in SUBSET Seats
  BY SeatsFinite
<1>3. IsFiniteSet(L)
  BY LevelsFinite
<1> HIDE DEF E, f, L
<1>4. Cardinality(L) <= Cardinality(E)
  BY <1>1, <1>2, FS_Surjection
<1>5. Cardinality(E) <= Cardinality(Seats)
  BY <1>2, SeatsFinite, FS_Subset
<1>6. Cardinality(L) \in Nat /\ Cardinality(E) \in Nat /\ Cardinality(Seats) \in Nat
  BY <1>2, <1>3, SeatsFinite, FS_CardinalityType
<1> QED BY <1>4, <1>5, <1>6 DEF L

\* What one seat gets from a layer: a share of it, nothing unless it can win
\* it, with the best hand at least what it has put into it, and as much as
\* an equal hand but for one chip.
LEMMA AwardOfLayer ==
  ASSUME NEW seats \in [Seats -> SeatRecords], NEW level \in Levels(seats),
         Layer(seats, level).eligible # {}, NEW button \in Seats, NEW strength,
         \A s \in Seats : InHand(seats[s]) => strength[s] \in 1 .. HandClasses,
         NEW s \in Seats
  PROVE  LET layer == Layer(seats, level)
             a == Award(layer, strength, button, s)
         IN  /\ a \in Nat /\ a <= layer.amount
             /\ s \notin layer.eligible => a = 0
             /\ s \in layer.eligible
                  /\ (\A o \in Seats : InHand(seats[o]) => strength[o] <= strength[s])
                => level - LowerLevel(seats, level) <= a
             /\ \A o \in layer.eligible :
                   s \in layer.eligible /\ strength[o] = strength[s] =>
                      Award(layer, strength, button, o) <= a + 1
<1> DEFINE layer == Layer(seats, level)
           W == Winners(layer.eligible, strength)
           n == Cardinality(W)
           height == level - LowerLevel(seats, level)
           m == Cardinality(layer.contributors)
           amount == layer.amount
           q == amount \div n
           r == amount % n
           odd(o) == IF Cardinality({p \in W : Offset(button, p) < Offset(button, o)}) < r THEN 1 ELSE 0
           award(o) == Award(layer, strength, button, o)
<1>1. /\ LowerLevel(seats, level) \in Nat /\ LowerLevel(seats, level) < level
      /\ layer.amount \in Nat /\ layer.eligible \in SUBSET Seats /\ layer.contributors \in SUBSET Seats
      /\ \A o \in layer.eligible : InHand(seats[o])
  BY LayerBounds
<1>2. level \in Nat /\ height \in Nat
  BY <1>1, LevelsFinite
<1>3. layer.eligible \in SUBSET layer.contributors /\ layer.amount = height * m
  BY DEF Layer
<1>4. W \in SUBSET layer.eligible /\ W # {}
  <2>1. \A o \in layer.eligible : strength[o] \in 1 .. HandClasses
    BY <1>1
  <2> DEFINE E == layer.eligible
  <2>2. E \in SUBSET Seats /\ E # {} /\ \A o \in E : strength[o] \in 1 .. HandClasses
    BY <1>1, <2>1
  <2> HIDE DEF E
  <2>3. Winners(E, strength) \in SUBSET E /\ Winners(E, strength) # {}
    BY <2>2, WinnersExist
  <2> QED BY <2>3 DEF E
<1>5. \A o \in Seats : award(o) = IF o \in W THEN q + odd(o) ELSE 0
  BY DEF Award
<1>6. /\ \A i \in 0 .. 8 : AwardOf(layer, strength, button, i) \in Nat
      /\ layer.amount = AwardOf(layer, strength, button, 0) + AwardOf(layer, strength, button, 1)
           + AwardOf(layer, strength, button, 2) + AwardOf(layer, strength, button, 3)
           + AwardOf(layer, strength, button, 4) + AwardOf(layer, strength, button, 5)
           + AwardOf(layer, strength, button, 6) + AwardOf(layer, strength, button, 7)
           + AwardOf(layer, strength, button, 8)
  <2>1. layer.amount \in Nat /\ W \in SUBSET Seats /\ W # {}
    BY <1>1, <1>4
  <2> HIDE DEF layer
  <2> QED BY <2>1, LayerIsAwarded
<1>7. \A o \in W : layer.eligible # {o} => \A p \in layer.eligible : strength[p] <= strength[o]
  <2>1. ASSUME Cardinality(layer.eligible) = 1, NEW o \in W PROVE layer.eligible = {o}
    <3>1. IsFiniteSet(layer.eligible)
      BY <1>1, SeatsFinite
    <3>2. PICK x : layer.eligible = {x}
      <4> HIDE DEF layer
      <4> QED BY <2>1, <3>1, FS_Singleton
    <3> QED BY <1>4, <3>2
  <2> HIDE DEF layer
  <2> QED BY <2>1 DEF Winners
<1>8. \A o \in layer.eligible : (\A p \in layer.eligible : strength[p] <= strength[o]) => o \in W
  BY DEF Winners
<1>9. n \in 1 .. 9 /\ m \in 0 .. 9 /\ n <= m
  <2>1. W \in SUBSET Seats /\ W \in SUBSET layer.contributors
    BY <1>1, <1>3, <1>4
  <2>2. IsFiniteSet(W) /\ n \in 0 .. 9 /\ IsFiniteSet(layer.contributors) /\ m \in 0 .. 9
    BY <1>1, <2>1, SeatsFinite
  <2>3. n # 0
    <3> HIDE DEF W
    <3> QED BY <1>4, <2>2, FS_EmptySet
  <2>4. n <= m
    <3> HIDE DEF W, layer
    <3> QED BY <2>1, <2>2, FS_Subset
  <2> QED BY <2>2, <2>3, <2>4
<1> HIDE DEF W
<1>10. q \in Nat /\ amount \in Nat /\ height <= q
  <2>1. n = 1 \/ n = 2 \/ n = 3 \/ n = 4 \/ n = 5 \/ n = 6 \/ n = 7 \/ n = 8 \/ n = 9
    BY <1>9
  <2>2. amount \in Nat /\ amount = height * m
    BY <1>1, <1>3
  <2> HIDE DEF n, m, height, amount
  <2>3. height * n <= height * m
    <3>1. m = 0 \/ m = 1 \/ m = 2 \/ m = 3 \/ m = 4 \/ m = 5 \/ m = 6 \/ m = 7 \/ m = 8 \/ m = 9
      BY <1>9
    <3> QED BY <1>2, <1>9, <2>1, <3>1
  <2> QED BY <1>2, <2>1, <2>2, <2>3
<1>11. \A o \in Seats : odd(o) \in {0, 1}
  OBVIOUS
<1>12. \A o \in Seats : award(o) = AwardOf(layer, strength, button, o)
  BY DEF AwardOf
<1>13. award(s) \in Nat /\ award(s) <= amount
  <2> DEFINE a(i) == AwardOf(layer, strength, button, i)
  <2>1. s \in 0 .. 8
    BY SeatsFinite
  <2>2. s = 0 \/ s = 1 \/ s = 2 \/ s = 3 \/ s = 4 \/ s = 5 \/ s = 6 \/ s = 7 \/ s = 8
    BY <2>1
  <2>3. /\ a(0) \in Nat /\ a(1) \in Nat /\ a(2) \in Nat /\ a(3) \in Nat /\ a(4) \in Nat
        /\ a(5) \in Nat /\ a(6) \in Nat /\ a(7) \in Nat /\ a(8) \in Nat
    BY <1>6
  <2>4. amount = a(0) + a(1) + a(2) + a(3) + a(4) + a(5) + a(6) + a(7) + a(8)
    BY <1>6
  <2>5. award(s) = a(s)
    BY <1>12
  <2> HIDE DEF a, amount, award
  <2> QED BY <2>2, <2>3, <2>4, <2>5
<1>14. s \notin layer.eligible => award(s) = 0
  BY <1>4, <1>5
<1>15. ASSUME s \in layer.eligible, \A o \in Seats : InHand(seats[o]) => strength[o] <= strength[s]
       PROVE  height <= award(s)
  <2>1. s \in W
    BY <1>1, <1>8, <1>15
  <2>2. award(s) = q + odd(s) /\ odd(s) \in {0, 1}
    BY <1>5, <2>1
  <2> HIDE DEF award, q, odd, height
  <2> QED BY <1>2, <1>10, <2>2
<1>16. ASSUME NEW o \in layer.eligible, s \in layer.eligible, strength[o] = strength[s]
       PROVE  award(o) <= award(s) + 1
  <2>1. o \in Seats
    BY <1>1, <1>16
  <2>2. CASE s = o
    BY <1>13, <2>2
  <2>3. CASE s # o
    <3>1. o \in W => s \in W
      <4> SUFFICES ASSUME o \in W PROVE s \in W
        OBVIOUS
      <4>1. \A p \in layer.eligible : strength[p] <= strength[o]
        BY <1>7, <1>16, <2>3
      <4> QED BY <1>8, <1>16, <4>1
    <3>2. CASE o \in W
      <4>1. award(o) = q + odd(o) /\ odd(o) \in {0, 1} /\ award(s) = q + odd(s) /\ odd(s) \in {0, 1}
        BY <1>5, <2>1, <3>1, <3>2
      <4> HIDE DEF award, q, odd
      <4> QED BY <1>10, <4>1
    <3>3. CASE o \notin W
      <4>1. award(o) = 0
        BY <1>5, <2>1, <3>3
      <4> HIDE DEF award
      <4> QED BY <1>13, <4>1
    <3> QED BY <3>2, <3>3
  <2> QED BY <2>2, <2>3
<1> HIDE DEF layer, award, height, amount
<1> QED BY <1>13, <1>14, <1>15, <1>16 DEF layer, award, height, amount

\* What a seat gets of all the layers together.
LEMMA AwardsAreFair ==
  ASSUME NEW seats \in [Seats -> SeatRecords],
         \A level \in Levels(seats) : Layer(seats, level).eligible # {},
         NEW button \in Seats, NEW strength,
         \A s \in Seats : InHand(seats[s]) => strength[s] \in 1 .. HandClasses,
         NEW s \in Seats
  PROVE  LET a(o) == Awarded(seats, strength, button, o)
         IN  /\ a(s) \in Nat /\ a(s) <= ChipSum(Capped(seats, Paying(seats, s)))
             /\ ~InHand(seats[s]) => a(s) = 0
             /\ InHand(seats[s])
                  /\ (\A o \in Seats : InHand(seats[o]) => strength[o] <= strength[s])
                => Paying(seats, s) <= a(s)
             /\ \A o \in Seats :
                   InHand(seats[s]) /\ InHand(seats[o]) /\ strength[o] = strength[s]
                      /\ Paying(seats, o) <= Paying(seats, s) =>
                         a(o) <= a(s) + Cardinality(Seats)
<1> DEFINE L == Levels(seats)
           c == Paying(seats, s)
           A(o) == AwardsOf(seats, strength, button, o)
           a(o) == Awarded(seats, strength, button, o)
           low == UpTo(seats, c)
           amounts == Amounts(seats)
           heights == Heights(seats)
           best == \A o \in Seats : InHand(seats[o]) => strength[o] <= strength[s]
<1>1. IsFiniteSet(L) /\ (\A l \in L : l \in Nat) /\ \A o \in Seats : Paying(seats, o) \in Nat
  BY LevelsFinite DEF Paying, SeatRecords
<1>2. low \in SUBSET L /\ IsFiniteSet(low)
  <2>1. low \in SUBSET L
    BY DEF UpTo
  <2> HIDE DEF low, L
  <2> QED BY <1>1, <2>1, FS_Subset
<1>3. \A l \in L : \A o \in Seats : o \in Layer(seats, l).eligible <=> l <= Paying(seats, o) /\ InHand(seats[o])
  <2> SUFFICES ASSUME NEW l \in L, NEW o \in Seats
               PROVE  o \in Layer(seats, l).eligible <=> l <= Paying(seats, o) /\ InHand(seats[o])
    OBVIOUS
  <2>1. Paying(seats, o) >= l <=> l <= Paying(seats, o)
    BY <1>1
  <2> QED BY <2>1 DEF Layer, Paying
<1>4. \A o \in Seats : a(o) = SumOver(A(o), L)
  BY AwardedIs
<1>5. ASSUME NEW l \in L, NEW p \in Seats
      PROVE  /\ A(p)[l] \in Nat /\ A(p)[l] <= amounts[l] /\ amounts[l] \in Nat /\ heights[l] \in Nat
             /\ ~(l <= Paying(seats, p) /\ InHand(seats[p])) => A(p)[l] = 0
             /\ l <= Paying(seats, p) /\ InHand(seats[p])
                  /\ (\A o \in Seats : InHand(seats[o]) => strength[o] <= strength[p]) => heights[l] <= A(p)[l]
             /\ \A o \in Seats :
                   l <= Paying(seats, p) /\ InHand(seats[p]) /\ l <= Paying(seats, o)
                      /\ InHand(seats[o]) /\ strength[o] = strength[p] => A(o)[l] <= A(p)[l] + 1
  <2> DEFINE layer == Layer(seats, l)
  <2>1. layer.eligible # {}
    OBVIOUS
  <2>2. LowerLevel(seats, l) \in Nat /\ LowerLevel(seats, l) < l /\ layer.amount \in Nat
    BY LayerBounds
  <2>3. \A o \in Seats : A(o)[l] = Award(layer, strength, button, o)
    BY DEF AwardsOf
  <2>4. amounts[l] = layer.amount /\ heights[l] = l - LowerLevel(seats, l)
    BY DEF Amounts, Heights
  <2>5. heights[l] \in Nat
    BY <1>1, <2>2, <2>4
  <2>6. LET x == Award(layer, strength, button, p)
         IN  /\ x \in Nat /\ x <= layer.amount
             /\ p \notin layer.eligible => x = 0
             /\ p \in layer.eligible
                  /\ (\A o \in Seats : InHand(seats[o]) => strength[o] <= strength[p])
                => l - LowerLevel(seats, l) <= x
             /\ \A o \in layer.eligible :
                   p \in layer.eligible /\ strength[o] = strength[p] =>
                      Award(layer, strength, button, o) <= x + 1
    BY <2>1, AwardOfLayer
  <2>7. \A o \in Seats : o \in layer.eligible <=> l <= Paying(seats, o) /\ InHand(seats[o])
    BY <1>3
  <2> HIDE DEF A, amounts, heights, layer, L
  <2>8. /\ A(p)[l] \in Nat /\ A(p)[l] <= amounts[l] /\ amounts[l] \in Nat
        /\ ~(l <= Paying(seats, p) /\ InHand(seats[p])) => A(p)[l] = 0
    BY <2>2, <2>3, <2>4, <2>6, <2>7
  <2>9. l <= Paying(seats, p) /\ InHand(seats[p])
          /\ (\A o \in Seats : InHand(seats[o]) => strength[o] <= strength[p]) => heights[l] <= A(p)[l]
    BY <2>3, <2>4, <2>6, <2>7
  <2>10. ASSUME NEW o \in Seats, l <= Paying(seats, p), InHand(seats[p]),
                l <= Paying(seats, o), InHand(seats[o]), strength[o] = strength[p]
         PROVE  A(o)[l] <= A(p)[l] + 1
    <3>1. o \in layer.eligible /\ p \in layer.eligible
      BY <2>7, <2>10
    <3>2. Award(layer, strength, button, o) <= Award(layer, strength, button, p) + 1
      BY <2>6, <2>10, <3>1
    <3> QED BY <2>3, <3>2
  <2> QED BY <2>5, <2>8, <2>9, <2>10
<1> HIDE DEF A, amounts, heights
<1>6. \A p \in Seats : SumOver(A(p), L) \in Nat
  <2> SUFFICES ASSUME NEW p \in Seats PROVE SumOver(A(p), L) \in Nat
    OBVIOUS
  <2> DEFINE z == [l \in L |-> 0]
             h == A(p)
  <2>1. \A l \in L : z[l] \in Int /\ h[l] \in Int /\ z[l] <= h[l]
    BY <1>5
  <2>2. \A l \in L \ {} : z[l] = 0
    OBVIOUS
  <2>3. \A l \in L : z[l] \in Int
    OBVIOUS
  <2> HIDE DEF z, h, L
  <2>4. SumOver(z, L) \in Int /\ SumOver(h, L) \in Int /\ SumOver(z, L) <= SumOver(h, L)
    BY <1>1, <2>1, SumGrows
  <2>5. SumOver(z, L) = SumOver(z, {})
    <3>1. {} \in SUBSET L
      OBVIOUS
    <3> QED BY <1>1, <2>2, <2>3, <3>1, SumOfPart
  <2>6. SumOver(z, {}) = 0
    BY SumOfNone
  <2> QED BY <2>4, <2>5, <2>6 DEF h
<1>7. SumOver(A(s), L) = SumOver(A(s), low)
  <2> DEFINE h == A(s)
  <2>1. \A l \in L : h[l] \in Int
    BY <1>5
  <2>2. \A l \in L \ low : h[l] = 0
    BY <1>5 DEF UpTo
  <2> HIDE DEF h, L, low
  <2>3. SumOver(h, L) = SumOver(h, low)
    BY <1>1, <1>2, <2>1, <2>2, SumOfPart
  <2> QED BY <2>3 DEF h
<1>8. SumOver(amounts, low) = ChipSum(Capped(seats, c)) /\ SumOver(heights, low) = c
  <2>1. c \in {0} \cup L
    BY DEF Paying, Levels
  <2> HIDE DEF c
  <2> QED BY <2>1, LayersUpTo DEF amounts, heights
<1>9. a(s) <= ChipSum(Capped(seats, c))
  <2> DEFINE h == A(s)
             k == amounts
  <2>1. \A l \in low : h[l] \in Int /\ k[l] \in Int /\ h[l] <= k[l]
    BY <1>2, <1>5
  <2> HIDE DEF h, k, low, L
  <2>2. SumOver(h, low) <= SumOver(k, low)
    BY <1>2, <2>1, SumGrows
  <2>3. a(s) = SumOver(h, low)
    BY <1>4, <1>7 DEF h
  <2> HIDE DEF a
  <2> QED BY <1>8, <2>2, <2>3 DEF k
<1>10. ASSUME ~InHand(seats[s]) PROVE a(s) = 0
  <2> DEFINE h == A(s)
  <2>1. \A l \in L : h[l] \in Int
    BY <1>5
  <2>2. \A l \in L \ {} : h[l] = 0
    BY <1>5, <1>10
  <2>3. {} \in SUBSET L
    OBVIOUS
  <2> HIDE DEF h, L
  <2>4. SumOver(h, L) = SumOver(h, {})
    BY <1>1, <2>1, <2>2, <2>3, SumOfPart
  <2>5. a(s) = SumOver(h, L)
    BY <1>4 DEF h
  <2> HIDE DEF a
  <2> QED BY <2>4, <2>5, SumOfNone
<1>11. ASSUME InHand(seats[s]), best PROVE c <= a(s)
  <2> DEFINE h == heights
             k == A(s)
  <2>0. \A l \in low : l \in L /\ l <= c
    BY DEF UpTo
  <2>1. \A l \in low : h[l] \in Int /\ k[l] \in Int /\ h[l] <= k[l]
    BY <1>5, <1>11, <2>0
  <2> HIDE DEF h, k, low, L
  <2>2. SumOver(h, low) <= SumOver(k, low)
    BY <1>2, <2>1, SumGrows
  <2>3. a(s) = SumOver(k, low)
    BY <1>4, <1>7 DEF k
  <2> HIDE DEF a, c
  <2> QED BY <1>8, <2>2, <2>3 DEF h
<1>12. ASSUME NEW o \in Seats, InHand(seats[s]), InHand(seats[o]), strength[o] = strength[s],
              Paying(seats, o) <= Paying(seats, s)
       PROVE  a(o) <= a(s) + Cardinality(Seats)
  <2> DEFINE h == A(o)
             k == A(s)
             m == [l \in L |-> k[l] + 1]
  <2>1. \A l \in L : k[l] \in Int /\ m[l] = k[l] + 1
    BY <1>5
  <2>2. \A l \in L : h[l] \in Int /\ m[l] \in Int /\ h[l] <= m[l]
    <3> SUFFICES ASSUME NEW l \in L PROVE h[l] \in Int /\ m[l] \in Int /\ h[l] <= m[l]
      OBVIOUS
    <3>1. h[l] \in Nat /\ k[l] \in Nat /\ m[l] = k[l] + 1
      BY <1>5
    <3>2. CASE l <= Paying(seats, o)
      <4>1. l \in Nat /\ Paying(seats, o) \in Nat /\ Paying(seats, s) \in Nat
        BY <1>1
      <4>2. l <= Paying(seats, s)
        BY <1>12, <3>2, <4>1
      <4>3. h[l] <= k[l] + 1
        BY <1>5, <1>12, <3>2, <4>2
      <4> HIDE DEF h, k, m
      <4> QED BY <3>1, <4>3
    <3>3. CASE ~(l <= Paying(seats, o))
      <4>1. h[l] = 0
        BY <1>5, <3>3
      <4> HIDE DEF h, k, m
      <4> QED BY <3>1, <4>1
    <3> QED BY <3>2, <3>3
  <2>3. a(o) = SumOver(h, L) /\ a(s) = SumOver(k, L) /\ SumOver(k, L) \in Nat
    BY <1>4, <1>6
  <2>6. SumOver(h, L) \in Nat
    BY <1>6
  <2> HIDE DEF h, k, m, L, a
  <2>4. SumOver(h, L) <= SumOver(m, L)
    BY <1>1, <2>2, SumGrows
  <2>5. SumOver(m, L) = SumOver(k, L) + Cardinality(L)
    BY <1>1, <2>1, SumOfMoreEach
  <2>7. Cardinality(L) \in Nat /\ Cardinality(L) <= Cardinality(Seats) /\ Cardinality(Seats) \in Nat
    BY SeatsFinite, FewLevels DEF L
  <2> QED BY <2>3, <2>4, <2>5, <2>6, <2>7
<1>13. a(s) \in Nat
  BY <1>4, <1>6
<1> HIDE DEF a, c
<1> QED BY <1>9, <1>10, <1>11, <1>12, <1>13 DEF a, c

-----------------------------------------------------------------------------
(* The seats divide the pot fairly.                                        *)

\* More chips at every seat are more chips together.
LEMMA ChipsGrow ==
  ASSUME NEW f \in [Seats -> Nat], NEW g \in [Seats -> Nat], \A s \in Seats : f[s] <= g[s]
  PROVE  ChipSum(f) \in Nat /\ ChipSum(g) \in Nat /\ ChipSum(f) <= ChipSum(g)
<1> DEFINE d == [s \in Seats |-> g[s] - f[s]]
<1>1. d \in [Seats -> Nat]
  BY \A s \in Seats : f[s] \in Nat /\ g[s] \in Nat
<1>2. [s \in Seats |-> f[s] + d[s]] = g
  <2>1. \A s \in Seats : f[s] + d[s] = g[s]
    <3>1. \A s \in Seats : f[s] \in Nat /\ g[s] \in Nat
      OBVIOUS
    <3> QED BY <3>1
  <2> HIDE DEF d
  <2> QED BY <2>1
<1> HIDE DEF d
<1>3. f \in [Seats -> Int] /\ d \in [Seats -> Int]
  BY <1>1
<1>4. ChipSum([s \in Seats |-> f[s] + d[s]]) = ChipSum(f) + ChipSum(d)
  BY <1>3, ChipsAdd
<1>5. ChipSum(f) \in Nat /\ ChipSum(d) \in Nat
  BY <1>1, ChipsNat
<1> QED BY <1>2, <1>4, <1>5

\* What a seat has put in, and what the others have put in up to that.
LEMMA CappedByOne ==
  ASSUME NEW seats \in [Seats -> SeatRecords], NEW s \in Seats, NEW C \in [Seats -> Nat],
         \A o \in Seats : Paying(seats, o) <= C[o]
  PROVE  LET Least(a, b) == IF a < b THEN a ELSE b
             matched == ChipSum([o \in Seats \ {s} |-> Least(C[s], C[o])])
         IN  /\ matched \in Nat
             /\ ChipSum(Capped(seats, Paying(seats, s))) <= Paying(seats, s) + matched
<1> DEFINE c == Paying(seats, s)
           f == [o \in Seats \ {s} |-> IF C[s] < C[o] THEN C[s] ELSE C[o]]
           g == [o \in Seats |-> IF o = s THEN 0 ELSE IF C[s] < C[o] THEN C[s] ELSE C[o]]
           h == [o \in Seats |-> IF o = s THEN c ELSE IF C[s] < C[o] THEN C[s] ELSE C[o]]
           k == Capped(seats, c)
<1>1. \A o \in Seats : Paying(seats, o) \in Nat /\ C[o] \in Nat
  BY DEF Paying, SeatRecords
<1>2. ChipSum(f) = ChipSum(g)
  <2>1. \A i \in DOMAIN f : f[i] \in Int
    BY <1>1
  <2>2. \A i \in DOMAIN g : g[i] \in Int
    BY <1>1
  <2>3. \A i \in 0 .. 8 : Chips(f, i) = Chips(g, i)
    BY DEF Chips
  <2> HIDE DEF f, g
  <2>4. ChipSum(f) = NinePlaces(f) /\ ChipSum(g) = NinePlaces(g)
    BY <2>1, <2>2, ChipSumIs
  <2> QED BY <2>3, <2>4 DEF NinePlaces
<1>3. g \in [Seats -> Nat] /\ h \in [Seats -> Nat] /\ k \in [Seats -> Nat]
  BY <1>1 DEF Capped
<1>4. ChipSum(h) = ChipSum(g) + c
  <2>1. h[s] = g[s] + c /\ \A o \in Seats \ {s} : h[o] = g[o]
    BY <1>1
  <2>2. g \in [Seats -> Int] /\ h \in [Seats -> Int] /\ c \in Int
    BY <1>1, <1>3
  <2> HIDE DEF g, h, c
  <2> QED BY <2>1, <2>2, ChipsChange
<1>5. \A o \in Seats : k[o] <= h[o]
  <2> SUFFICES ASSUME NEW o \in Seats PROVE k[o] <= h[o]
    OBVIOUS
  <2> DEFINE p == Paying(seats, o)
  <2>1. k[o] = IF p <= c THEN p ELSE c
    BY DEF Capped
  <2>2. h[o] = IF o = s THEN c ELSE IF C[s] < C[o] THEN C[s] ELSE C[o]
    OBVIOUS
  <2>3. p \in Nat /\ c \in Nat /\ C[s] \in Nat /\ C[o] \in Nat /\ p <= C[o] /\ c <= C[s]
    BY <1>1
  <2> HIDE DEF k, h, p, c
  <2> QED BY <2>1, <2>2, <2>3
<1>6. ChipSum(k) \in Nat /\ ChipSum(h) \in Nat /\ ChipSum(k) <= ChipSum(h)
  <2> HIDE DEF k, h
  <2> QED BY <1>3, <1>5, ChipsGrow
<1>7. ChipSum(g) \in Nat
  <2> HIDE DEF g
  <2> QED BY <1>3, ChipsNat
<1>8. c \in Nat
  BY <1>1
<1> HIDE DEF k, h, g, f, c
<1>9. ChipSum(f) \in Nat /\ ChipSum(k) <= c + ChipSum(f)
  BY <1>2, <1>4, <1>6, <1>7, <1>8
<1> QED BY <1>9 DEF f, k, c

\* A pot whose every layer has a winner.
LEMMA WinnableIsInHand ==
  ASSUME NEW seats \in [Seats -> SeatRecords], Levels(seats) # {},
         \A layer \in Layers(seats) : layer.eligible # {}
  PROVE  TopInHand(seats)
<1>1. ASSUME NEW l \in Levels(seats)
      PROVE  \E h \in Seats : InHand(seats[h]) /\ Paying(seats, h) >= l
  <2>1. Layer(seats, l).eligible # {}
    BY DEF Layers
  <2> QED BY <2>1 DEF Layer, Paying
<1>2. \A l \in Levels(seats) : l \in Nat
  BY LevelsFinite
<1>3. \A s \in Seats : Paying(seats, s) \in Levels(seats) \/ Paying(seats, s) = 0
  BY DEF Paying, Levels
<1>4. \A s \in Seats : Paying(seats, s) \in Nat
  BY DEF Paying, SeatRecords
<1> SUFFICES ASSUME NEW s \in Seats
             PROVE  \E h \in Seats : InHand(seats[h]) /\ Paying(seats, h) >= Paying(seats, s)
  BY DEF TopInHand
<1>5. CASE Paying(seats, s) \in Levels(seats)
  BY <1>1, <1>5
<1>6. CASE Paying(seats, s) = 0
  <2>1. PICK l \in Levels(seats) : TRUE
    OBVIOUS
  <2>2. PICK h \in Seats : InHand(seats[h]) /\ Paying(seats, h) >= l
    BY <1>1
  <2>3. Paying(seats, h) >= 0
    BY <1>4
  <2> QED BY <1>6, <2>2, <2>3
<1> QED BY <1>3, <1>5, <1>6

\* What is known of a hand that is settled (settleTerminalHand).
LEMMA SettledPot ==
  ASSUME NEW t \in TableRecords, Settleable(t), t.pot > 0, StreetInTotal(t.seats)
  PROVE  LET back == UncalledReturn(t.seats)
             rest == Returned(t.seats)
         IN  /\ ReturnFits(t.seats)
             /\ rest \in [Seats -> SeatRecords]
             /\ TwoPaid(t.seats) => Levels(rest) # {}
             /\ \A s \in Seats :
                   /\ rest[s].status = t.seats[s].status
                   /\ rest[s].stack = t.seats[s].stack + (IF back.seat = s THEN back.amount ELSE 0)
                   /\ Paying(rest, s) = Paying(t.seats, s) - (IF back.seat = s THEN back.amount ELSE 0)
             /\ ChipSum(Totals(t)) = t.pot
             /\ LayersTotal(rest) = t.pot - back.amount
             /\ \A level \in Levels(rest) : Layer(rest, level).eligible # {}
<1> DEFINE back == UncalledReturn(t.seats)
           rest == Returned(t.seats)
<1>1. t.seats \in [Seats -> SeatRecords]
  BY DEF TableRecords
<1>2. ChipSum(Totals(t)) = t.pot
  BY DEF Settleable, Totals
<1>3. Levels(t.seats) # {}
  BY <1>2, ChipsOfPot
<1>4. \A layer \in Layers(t.seats) : layer.eligible # {}
  BY DEF Settleable, LayersValid
<1>5. TopInHand(t.seats)
  BY <1>1, <1>3, <1>4, WinnableIsInHand
<1>6. ReturnFits(t.seats)
  BY <1>1, <1>3, <1>5, UncalledFits
<1>7. back.seat # NoSeat => back.amount <= t.seats[back.seat].streetContribution
  BY DEF Settleable
<1>8. /\ rest \in [Seats -> SeatRecords]
      /\ TwoPaid(t.seats) => Levels(rest) # {}
      /\ \A s \in Seats :
            /\ rest[s].status = t.seats[s].status
            /\ rest[s].stack = t.seats[s].stack + (IF back.seat = s THEN back.amount ELSE 0)
            /\ Paying(rest, s) = Paying(t.seats, s) - (IF back.seat = s THEN back.amount ELSE 0)
  BY <1>1, <1>3, <1>5, <1>6, <1>7, ReturnedIsValid
<1>9. LayersTotal(rest) = t.pot - back.amount /\ \A layer \in Layers(rest) : layer.eligible # {}
  BY DEF Settleable, LayersValid
<1>10. \A level \in Levels(rest) : Layer(rest, level).eligible # {}
  BY <1>9 DEF Layers
<1> QED BY <1>2, <1>6, <1>8, <1>9, <1>10

\* What FairShares says of the record of a hand.
Fair(r, strength, inHand) ==
  LET C == r.contribution
      Least(a, b) == IF a < b THEN a ELSE b
      MatchedBy(s) == ChipSum([o \in Seats \ {s} |-> Least(C[s], C[o])])
      Net(s) == r.ending[s] - r.starting[s]
  IN  \A s \in Seats :
         /\ Net(s) <= MatchedBy(s)
         /\ s \notin inHand => Net(s) = - C[s]
         /\ s \in inHand =>
              /\ (\A o \in inHand : strength[o] <= strength[s]) => Net(s) >= 0
              /\ \A o \in inHand :
                    (strength[o] = strength[s] /\ C[o] <= C[s]) =>
                       Net(s) + C[s] >= Net(o) + C[o] - Cardinality(Seats)

\* The chips of a seat after the hand.
LEMMA ChipsAfter ==
  ASSUME NEW t \in TableRecords, NEW strength, NEW s \in Seats
  PROVE  Settled(t, strength).seats[s].stack
           = Returned(t.seats)[s].stack + Awarded(Returned(t.seats), strength, t.button, s)
BY DEF Settled, Paid, TableRecords

LEMMA HandIsFair ==
  ASSUME NEW t \in TableRecords, Settleable(t), t.pot > 0, StreetInTotal(t.seats),
         NEW strength \in [Contenders(t) -> 1 .. HandClasses]
  PROVE  Fair(HandRecord(t, strength, Settled(t, strength)), strength, Contenders(t))
<1> DEFINE back == UncalledReturn(t.seats)
           rest == Returned(t.seats)
           r == HandRecord(t, strength, Settled(t, strength))
           C == Totals(t)
           b(s) == IF back.seat = s THEN back.amount ELSE 0
           a(s) == Awarded(rest, strength, t.button, s)
           Net(s) == r.ending[s] - r.starting[s]
           f(s) == [o \in Seats \ {s} |-> IF C[s] < C[o] THEN C[s] ELSE C[o]]
           inHand == Contenders(t)
           best(s) == \A o \in inHand : strength[o] <= strength[s]
<1>1. t.seats \in [Seats -> SeatRecords] /\ C \in [Seats -> Nat] /\ t.button \in Seats
  BY DEF TableRecords, Totals, SeatRecords
<1>2. /\ ReturnFits(t.seats) /\ rest \in [Seats -> SeatRecords]
      /\ \A s \in Seats :
            /\ rest[s].status = t.seats[s].status
            /\ rest[s].stack = t.seats[s].stack + b(s)
            /\ Paying(rest, s) = Paying(t.seats, s) - b(s)
      /\ \A level \in Levels(rest) : Layer(rest, level).eligible # {}
  BY SettledPot
<1>3. \A s \in Seats : /\ s \in inHand <=> InHand(t.seats[s])
                       /\ InHand(rest[s]) <=> InHand(t.seats[s])
                       /\ Paying(t.seats, s) = C[s]
  BY <1>2 DEF Contenders, InHand, Paying, Totals
<1>4. \A s \in Seats : /\ r.ending[s] = rest[s].stack + a(s)
                       /\ r.starting[s] = t.seats[s].stack + C[s]
                       /\ r.contribution = C
  <2> SUFFICES ASSUME NEW s \in Seats
               PROVE  /\ r.ending[s] = rest[s].stack + a(s)
                      /\ r.starting[s] = t.seats[s].stack + C[s]
                      /\ r.contribution = C
    OBVIOUS
  <2>1. r.ending[s] = Settled(t, strength).seats[s].stack
    BY DEF HandRecord, RecordOf
  <2>2. r.starting[s] = t.seats[s].stack + C[s] /\ r.contribution = C
    BY DEF HandRecord, RecordOf, Totals
  <2> HIDE DEF r
  <2> QED BY <2>1, <2>2, ChipsAfter
<1> HIDE DEF r, rest, C
<1>5. \A s \in Seats : /\ b(s) \in Nat /\ (~InHand(t.seats[s]) => b(s) = 0)
                       /\ \A o \in Seats : C[o] <= C[s] /\ o # s => b(o) = 0 /\ C[o] <= C[s] - b(s)
  <2> SUFFICES ASSUME NEW s \in Seats
               PROVE  /\ b(s) \in Nat /\ (~InHand(t.seats[s]) => b(s) = 0)
                      /\ \A o \in Seats : C[o] <= C[s] /\ o # s => b(o) = 0 /\ C[o] <= C[s] - b(s)
    OBVIOUS
  <2>1. NoSeat \notin Seats /\ \A o \in Seats : C[o] \in Nat
    BY <1>1, SeatsFinite DEF NoSeat
  <2>2. CASE back = [seat |-> NoSeat, amount |-> 0]
    <3>1. \A o \in Seats : b(o) = 0
      BY <2>2
    <3> HIDE DEF b
    <3> QED BY <2>1, <3>1
  <2>3. CASE back # [seat |-> NoSeat, amount |-> 0]
    <3>1. /\ back.seat \in Seats /\ back.amount \in Nat /\ back.amount > 0 /\ InHand(t.seats[back.seat])
          /\ \A o \in Seats \ {back.seat} : C[o] <= C[back.seat] - back.amount
      BY <1>2, <1>3, <2>3 DEF ReturnFits
    <3> HIDE DEF back
    <3>2. b(s) \in Nat /\ (~InHand(t.seats[s]) => b(s) = 0)
      BY <3>1
    <3>3. ASSUME NEW o \in Seats, C[o] <= C[s], o # s PROVE b(o) = 0 /\ C[o] <= C[s] - b(s)
      <4>1. back.seat # o
        BY <2>1, <3>1, <3>3
      <4> QED BY <2>1, <3>1, <3>3, <4>1
    <3> QED BY <3>2, <3>3
  <2> QED BY <2>2, <2>3
<1> HIDE DEF b
<1>6. ASSUME NEW s \in Seats
      PROVE  /\ a(s) \in Nat /\ a(s) <= ChipSum(Capped(rest, Paying(rest, s)))
             /\ ~InHand(rest[s]) => a(s) = 0
             /\ InHand(rest[s]) /\ best(s) => Paying(rest, s) <= a(s)
             /\ \A o \in Seats :
                   InHand(rest[s]) /\ InHand(rest[o]) /\ strength[o] = strength[s]
                      /\ Paying(rest, o) <= Paying(rest, s) =>
                         a(o) <= a(s) + Cardinality(Seats)
  <2> DEFINE button == t.button
  <2>1. button \in Seats
    BY <1>1
  <2>2. \A o \in Seats : InHand(rest[o]) => strength[o] \in 1 .. HandClasses
    BY <1>3
  <2>3. best(s) => \A o \in Seats : InHand(rest[o]) => strength[o] <= strength[s]
    BY <1>3
  <2> HIDE DEF button, best
  <2>4. LET aw(o) == Awarded(rest, strength, button, o)
         IN  /\ aw(s) \in Nat /\ aw(s) <= ChipSum(Capped(rest, Paying(rest, s)))
             /\ ~InHand(rest[s]) => aw(s) = 0
             /\ InHand(rest[s])
                  /\ (\A o \in Seats : InHand(rest[o]) => strength[o] <= strength[s])
                => Paying(rest, s) <= aw(s)
             /\ \A o \in Seats :
                   InHand(rest[s]) /\ InHand(rest[o]) /\ strength[o] = strength[s]
                      /\ Paying(rest, o) <= Paying(rest, s) =>
                         aw(o) <= aw(s) + Cardinality(Seats)
    BY <1>2, <2>1, <2>2, AwardsAreFair
  <2>5. \A o \in Seats : a(o) = Awarded(rest, strength, button, o)
    BY DEF button
  <2> HIDE DEF a
  <2> QED BY <2>3, <2>4, <2>5
<1> HIDE DEF a
<1>7. ASSUME NEW s \in Seats
      PROVE  /\ a(s) \in Nat /\ b(s) \in Nat /\ C[s] \in Nat
             /\ Paying(rest, s) = C[s] - b(s) /\ Paying(rest, s) \in Nat
             /\ Net(s) = b(s) + a(s) - C[s]
  <2>1. t.seats[s].stack \in Nat /\ C[s] \in Nat /\ Paying(rest, s) \in Nat
    BY <1>1, <1>2 DEF SeatRecords, Paying
  <2>2. Net(s) = (t.seats[s].stack + b(s) + a(s)) - (t.seats[s].stack + C[s])
    BY <1>2, <1>4
  <2> HIDE DEF Net
  <2> QED BY <1>2, <1>3, <1>5, <1>6, <2>1, <2>2
<1>8. ASSUME NEW s \in Seats PROVE Net(s) <= ChipSum(f(s))
  <2>1. \A o \in Seats : Paying(rest, o) <= C[o]
    BY <1>7
  <2>2. /\ ChipSum(f(s)) \in Nat
        /\ ChipSum(Capped(rest, Paying(rest, s))) <= Paying(rest, s) + ChipSum(f(s))
    BY <1>1, <1>2, <2>1, CappedByOne
  <2>3. a(s) <= ChipSum(Capped(rest, Paying(rest, s)))
    BY <1>6
  <2>4. ChipSum(Capped(rest, Paying(rest, s))) \in Nat
    <3> DEFINE k == Capped(rest, Paying(rest, s))
    <3>1. \A o \in Seats : Paying(rest, o) \in Nat
      BY <1>7
    <3>2. k \in [Seats -> Nat]
      BY <3>1 DEF Capped
    <3> HIDE DEF k
    <3>3. ChipSum(k) \in Nat
      BY <3>2, ChipsNat
    <3> QED BY <3>3 DEF k
  <2> DEFINE top == ChipSum(Capped(rest, Paying(rest, s)))
             m == ChipSum(f(s))
  <2>5. top \in Nat /\ m \in Nat /\ a(s) <= top /\ top <= Paying(rest, s) + m
    BY <2>2, <2>3, <2>4
  <2> HIDE DEF top, m, Net
  <2>6. Net(s) <= m
    BY <1>7, <2>5
  <2> QED BY <2>6 DEF m
<1>9. ASSUME NEW s \in Seats, s \notin inHand PROVE Net(s) = - C[s]
  <2>1. a(s) = 0 /\ b(s) = 0
    BY <1>3, <1>5, <1>6, <1>9
  <2> HIDE DEF Net
  <2> QED BY <1>7, <2>1
<1>10. ASSUME NEW s \in Seats, s \in inHand, best(s) PROVE Net(s) >= 0
  <2>1. Paying(rest, s) <= a(s)
    BY <1>3, <1>6, <1>10
  <2> HIDE DEF Net
  <2> QED BY <1>7, <2>1
<1>11. ASSUME NEW s \in Seats, s \in inHand, NEW o \in inHand, strength[o] = strength[s], C[o] <= C[s]
       PROVE  Net(s) + C[s] >= Net(o) + C[o] - Cardinality(Seats)
  <2>1. o \in Seats /\ Cardinality(Seats) \in Nat
    BY SeatsFinite DEF Contenders
  <2>2. CASE o = s
    <3>1. Net(s) \in Int /\ C[s] \in Nat
      BY <1>7
    <3> HIDE DEF Net
    <3> QED BY <2>1, <2>2, <3>1
  <2>3. CASE o # s
    <3>1. b(o) = 0 /\ C[o] <= C[s] - b(s)
      BY <1>5, <1>11, <2>1, <2>3
    <3>2. /\ Paying(rest, s) = C[s] - b(s) /\ Paying(rest, o) = C[o] - b(o)
          /\ C[o] \in Nat /\ C[s] \in Nat /\ b(s) \in Nat
      BY <1>7, <2>1
    <3>3. Paying(rest, o) <= Paying(rest, s)
      BY <3>1, <3>2
    <3>4. a(o) <= a(s) + Cardinality(Seats)
      BY <1>3, <1>6, <1>11, <2>1, <3>3
    <3>5. /\ Net(s) = b(s) + a(s) - C[s] /\ Net(o) = b(o) + a(o) - C[o]
          /\ a(s) \in Nat /\ a(o) \in Nat
      BY <1>7, <2>1
    <3> HIDE DEF Net
    <3> QED BY <2>1, <3>1, <3>2, <3>4, <3>5
  <2> QED BY <2>2, <2>3
<1>12. \A s \in Seats :
          /\ Net(s) <= ChipSum(f(s))
          /\ s \notin inHand => Net(s) = - C[s]
          /\ s \in inHand =>
               /\ best(s) => Net(s) >= 0
               /\ \A o \in inHand :
                     (strength[o] = strength[s] /\ C[o] <= C[s]) =>
                        Net(s) + C[s] >= Net(o) + C[o] - Cardinality(Seats)
  <2> HIDE DEF Net, f, inHand, best
  <2> QED BY <1>8, <1>9, <1>10, <1>11
<1>13. r.contribution = C
  <2>1. PICK s \in Seats : TRUE
    BY <1>1
  <2> QED BY <1>4
<1> QED BY <1>12, <1>13 DEF Fair, r

\* An action that ends the hand settles it.
LEMMA ActSettles ==
  ASSUME TableInv, NEW action, Act(action), Progress(table, action).street \in EndStreets
  PROVE  LET v == Progress(table, action)
         IN  /\ v \in TableRecords /\ Settleable(v) /\ v.pot > 0 /\ StreetInTotal(v.seats)
             /\ \E strength \in [Contenders(v) -> 1 .. HandClasses] :
                   /\ table' = Settled(v, strength)
                   /\ lastHand' = [record |-> HandRecord(v, strength, Settled(v, strength)),
                                   played |-> lastHand.played + 1, strength |-> strength,
                                   inHand |-> Contenders(v)]
<1> DEFINE v == Progress(table, action)
<1>1. /\ table \in TableRecords /\ ActionAccepted(table, table.actor, action)
      /\ BettingOpen(table) /\ MovesOn(action, v)
  BY DEF TableInv, Act
<1>2. table.street \in ActionStreets /\ InPlay(table)
  BY <1>1 DEF ActionAccepted, TableInv
<1>3. /\ v \in TableRecords /\ v.pot > 0
      /\ \/ v.street \in ActionStreets
         \/ \A s \in Seats : v.seats[s].streetContribution <= v.seats[s].totalContribution
  BY <1>1, <1>2, HandProgress
<1>4. v.street \notin ActionStreets
  BY DEF EndStreets, ActionStreets
<1> HIDE DEF v
<1>5. PICK strength \in [Contenders(v) -> 1 .. HandClasses] : Settles(v, strength, Settled(v, strength))
  BY <1>1 DEF MovesOn, v
<1> QED BY <1>3, <1>4, <1>5 DEF Settles, Completed, StreetInTotal, v

\* An action that does not end the hand leaves the hand before it as it was.
LEMMA ActGoesOn ==
  ASSUME NEW action, Act(action), Progress(table, action).street \notin EndStreets
  PROVE  table' = Progress(table, action) /\ lastHand' = lastHand
BY DEF Act, MovesOn

LEMMA FairnessStep == TableInv /\ FairShares /\ [Next]_vars => FairShares'
<1> SUFFICES ASSUME TableInv, FairShares, [Next]_vars PROVE FairShares'
  OBVIOUS
<1>1. FairShares <=> (lastHand.record.reason # "none" =>
                         Fair(lastHand.record, lastHand.strength, lastHand.inHand))
  BY DEF FairShares, Fair
<1>2. (lastHand'.record.reason # "none" =>
          Fair(lastHand'.record, lastHand'.strength, lastHand'.inHand)) => FairShares'
  BY DEF FairShares, Fair
<1>3. CASE lastHand' = lastHand
  BY <1>1, <1>2, <1>3
<1>4. CASE Play
  <2>1. PICK action : Act(action)
    BY <1>4 DEF Play
  <2> DEFINE v == Progress(table, action)
  <2>2. CASE v.street \in EndStreets
    <3>1. /\ v \in TableRecords /\ Settleable(v) /\ v.pot > 0 /\ StreetInTotal(v.seats)
          /\ \E strength \in [Contenders(v) -> 1 .. HandClasses] :
                lastHand' = [record |-> HandRecord(v, strength, Settled(v, strength)),
                             played |-> lastHand.played + 1, strength |-> strength,
                             inHand |-> Contenders(v)]
      BY <2>1, <2>2, ActSettles
    <3> HIDE DEF v
    <3>2. PICK strength \in [Contenders(v) -> 1 .. HandClasses] :
             lastHand' = [record |-> HandRecord(v, strength, Settled(v, strength)),
                          played |-> lastHand.played + 1, strength |-> strength,
                          inHand |-> Contenders(v)]
      BY <3>1
    <3>3. Fair(HandRecord(v, strength, Settled(v, strength)), strength, Contenders(v))
      BY <3>1, HandIsFair
    <3>4. /\ lastHand'.record = HandRecord(v, strength, Settled(v, strength))
          /\ lastHand'.strength = strength /\ lastHand'.inHand = Contenders(v)
      BY <3>2
    <3>5. Fair(lastHand'.record, lastHand'.strength, lastHand'.inHand)
      BY <3>3, <3>4
    <3> QED BY <1>2, <3>5
  <2>3. CASE v.street \notin EndStreets
    BY <1>3, <2>1, <2>3, ActGoesOn
  <2> QED BY <2>2, <2>3
<1>5. CASE ~Play
  BY <1>3, <1>5 DEF Next, StartHand, Rebuy, vars
<1> QED BY <1>4, <1>5

LEMMA FairnessInit == Init => FairShares
BY DEF Init, NoHand, FairShares

\* Nobody wins from another more than both have put in, the best hand loses
\* nothing, a folded seat gets nothing, and equal hands get equal shares but
\* for an odd chip of each layer (showdown-awards.ts): in every reachable
\* state this holds of the hand that was settled last.
THEOREM PotsAreSharedFairly == Spec => []FairShares
BY TableInit, TableStep, FairnessInit, FairnessStep, PTL DEF Spec

-----------------------------------------------------------------------------
(* The seats in their order.                                               *)

LEMMA FirstIsNearest ==
  ASSUME NEW anchor \in Seats, NEW S \in SUBSET Seats, S # {}
  PROVE  /\ FirstClockwise(anchor, S) \in S
         /\ \A o \in S : Offset(anchor, FirstClockwise(anchor, S)) <= Offset(anchor, o)
<1> DEFINE T == {Offset(anchor, s) : s \in S}
<1>1. \A s \in Seats : Offset(anchor, s) \in Nat
  BY SeatsFinite DEF Offset
<1>2. T \in SUBSET Nat /\ T # {}
  <2> HIDE DEF T
  <2>1. \A k \in T : k \in Nat
    BY <1>1 DEF T
  <2> QED BY <2>1 DEF T
<1>3. PICK m \in T : \A k \in T : m <= k
  <2> HIDE DEF T
  <2> QED BY <1>2, LeastNumber
<1>4. \E s \in S : \A o \in S : Offset(anchor, s) <= Offset(anchor, o)
  BY <1>3
<1> QED BY <1>4 DEF FirstClockwise

\* How far a seat is from another, without the modulus.
LEMMA OffsetIs ==
  ASSUME NEW a \in Seats, NEW s \in Seats
  PROVE  /\ a \in 0 .. 8 /\ s \in 0 .. 8
         /\ Offset(a, s) = IF s > a THEN s - a - 1 ELSE s - a + 8
<1>1. a \in 0 .. 8 /\ s \in 0 .. 8
  BY SeatsFinite
<1> QED BY <1>1 DEF Offset

\* From the big blind the button, the small and the big blind come last.
LEMMA BlindsComeLast ==
  ASSUME NEW button \in Seats
  PROVE  LET sb == SmallBlindSeat(button)
             bb == BigBlindSeat(button)
         IN  /\ sb \in Seats /\ bb \in Seats /\ sb # button /\ bb # button /\ sb # bb
             /\ Offset(bb, bb) = 8 /\ Offset(bb, sb) < 8 /\ Offset(bb, button) < Offset(bb, sb)
             /\ \A o \in Seats \ {button, sb, bb} : Offset(bb, o) < Offset(bb, button)
<1> DEFINE sb == SmallBlindSeat(button)
           bb == BigBlindSeat(button)
<1>1. sb \in Seats \ {button} /\ \A o \in Seats \ {button} : Offset(button, sb) <= Offset(button, o)
  <2> DEFINE S == Seats \ {button}
  <2>1. S \in SUBSET Seats /\ S # {}
    BY SeatsLeft
  <2>2. sb = FirstClockwise(button, S)
    BY DEF SmallBlindSeat
  <2> HIDE DEF S, sb
  <2>3. sb \in S /\ \A o \in S : Offset(button, sb) <= Offset(button, o)
    BY <2>1, <2>2, FirstIsNearest
  <2> QED BY <2>3 DEF S
<1>2. bb \in Seats \ {button, sb} /\ \A o \in Seats \ {button, sb} : Offset(sb, bb) <= Offset(sb, o)
  <2> DEFINE S == Seats \ {button, sb}
  <2>1. S \in SUBSET Seats /\ S # {}
    BY SeatsLeft
  <2>2. bb = FirstClockwise(sb, S) /\ sb \in Seats
    BY <1>1 DEF BigBlindSeat
  <2> HIDE DEF S, bb, sb
  <2>3. bb \in S /\ \A o \in S : Offset(sb, bb) <= Offset(sb, o)
    BY <2>1, <2>2, FirstIsNearest
  <2> QED BY <2>3 DEF S
<1> HIDE DEF sb, bb
<1>3. sb \in Seats /\ bb \in Seats /\ sb # button /\ bb # button /\ sb # bb
  BY <1>1, <1>2
<1>4. /\ button \in 0 .. 8 /\ sb \in 0 .. 8 /\ bb \in 0 .. 8
      /\ Offset(button, sb) = IF sb > button THEN sb - button - 1 ELSE sb - button + 8
      /\ Offset(button, bb) = IF bb > button THEN bb - button - 1 ELSE bb - button + 8
      /\ Offset(bb, sb) = IF sb > bb THEN sb - bb - 1 ELSE sb - bb + 8
      /\ Offset(bb, button) = IF button > bb THEN button - bb - 1 ELSE button - bb + 8
      /\ Offset(bb, bb) = 8
  <2>1. Offset(bb, bb) = IF bb > bb THEN bb - bb - 1 ELSE bb - bb + 8
    BY <1>3, OffsetIs
  <2>2. bb \in 0 .. 8
    BY <1>3, OffsetIs
  <2>3. Offset(bb, bb) = 8
    BY <2>1, <2>2
  <2> QED BY <1>3, <2>3, OffsetIs
<1>5. Offset(button, sb) <= Offset(button, bb)
  BY <1>1, <1>3
<1>6. Offset(bb, sb) < 8 /\ Offset(bb, button) < Offset(bb, sb)
  BY <1>3, <1>4, <1>5
<1>7. ASSUME NEW o \in Seats \ {button, sb, bb} PROVE Offset(bb, o) < Offset(bb, button)
  <2>1. Offset(button, sb) <= Offset(button, o) /\ Offset(sb, bb) <= Offset(sb, o)
    BY <1>1, <1>2
  <2>2. /\ o \in 0 .. 8
        /\ Offset(button, o) = IF o > button THEN o - button - 1 ELSE o - button + 8
        /\ Offset(sb, o) = IF o > sb THEN o - sb - 1 ELSE o - sb + 8
        /\ Offset(sb, bb) = IF bb > sb THEN bb - sb - 1 ELSE bb - sb + 8
        /\ Offset(bb, o) = IF o > bb THEN o - bb - 1 ELSE o - bb + 8
    BY <1>3, OffsetIs
  <2> QED BY <1>3, <1>4, <2>1, <2>2
<1> QED BY <1>3, <1>4, <1>6, <1>7 DEF sb, bb

\* Positions are different, and the last three are known.
LEMMA PlacesAre ==
  ASSUME NEW button \in Seats
  PROVE  LET n == Cardinality(Seats)
         IN  /\ PositionOf(button, button) = n - 3
             /\ PositionOf(button, SmallBlindSeat(button)) = n - 2
             /\ PositionOf(button, BigBlindSeat(button)) = n - 1
             /\ IsInjective([s \in Seats |-> PositionOf(button, s)])
<1> DEFINE n == Cardinality(Seats)
           sb == SmallBlindSeat(button)
           bb == BigBlindSeat(button)
           Before(s) == {o \in Seats : Offset(bb, o) < Offset(bb, s)}
<1>1. /\ sb \in Seats /\ bb \in Seats /\ sb # button /\ bb # button /\ sb # bb
      /\ Offset(bb, bb) = 8 /\ Offset(bb, sb) < 8 /\ Offset(bb, button) < Offset(bb, sb)
      /\ \A o \in Seats \ {button, sb, bb} : Offset(bb, o) < Offset(bb, button)
  BY BlindsComeLast
<1>2. \A s \in Seats : PositionOf(button, s) = Cardinality(Before(s))
  BY DEF PositionOf
<1> HIDE DEF sb, bb
<1>3. IsFiniteSet(Seats) /\ n \in Nat
  BY SeatsFinite
<1>4. \A s \in Seats : /\ Offset(bb, s) \in Int
                       /\ \A o \in Seats : Offset(bb, s) = Offset(bb, o) => s = o
  <2>1. \A s \in Seats : s \in 0 .. 8 /\ Offset(bb, s) = IF s > bb THEN s - bb - 1 ELSE s - bb + 8
    BY <1>1, OffsetIs
  <2>2. bb \in 0 .. 8
    BY <1>1, <2>1
  <2> QED BY <2>1, <2>2
<1>5. /\ Before(bb) = Seats \ {bb} /\ Before(sb) = (Seats \ {bb}) \ {sb}
      /\ Before(button) = ((Seats \ {bb}) \ {sb}) \ {button}
  <2>1. \A o \in Seats : /\ o \in Before(bb) <=> o # bb
                         /\ o \in Before(sb) <=> o # bb /\ o # sb
                         /\ o \in Before(button) <=> o # bb /\ o # sb /\ o # button
    <3> SUFFICES ASSUME NEW o \in Seats
                 PROVE  /\ Offset(bb, o) < Offset(bb, bb) <=> o # bb
                        /\ Offset(bb, o) < Offset(bb, sb) <=> o # bb /\ o # sb
                        /\ Offset(bb, o) < Offset(bb, button) <=> o # bb /\ o # sb /\ o # button
      OBVIOUS
    <3>1. Offset(bb, o) \in Int /\ Offset(bb, sb) \in Int /\ Offset(bb, button) \in Int
      BY <1>1, <1>4
    <3>2. CASE o \in {button, sb, bb}
      BY <1>1, <3>1, <3>2
    <3>3. CASE o \notin {button, sb, bb}
      BY <1>1, <3>1, <3>3
    <3> QED BY <3>2, <3>3
  <2>2. Before(bb) \in SUBSET Seats /\ Before(sb) \in SUBSET Seats /\ Before(button) \in SUBSET Seats
    OBVIOUS
  <2> HIDE DEF Before
  <2> QED BY <2>1, <2>2
<1>6. /\ Cardinality(Before(bb)) = n - 1 /\ Cardinality(Before(sb)) = n - 2
      /\ Cardinality(Before(button)) = n - 3
  <2>1. IsFiniteSet(Seats \ {bb}) /\ Cardinality(Seats \ {bb}) = n - 1
    BY <1>1, <1>3, FS_RemoveElement
  <2>2. /\ IsFiniteSet((Seats \ {bb}) \ {sb})
        /\ Cardinality((Seats \ {bb}) \ {sb}) = Cardinality(Seats \ {bb}) - 1
    <3>1. sb \in Seats \ {bb}
      BY <1>1
    <3> QED BY <2>1, <3>1, FS_RemoveElement
  <2>3. Cardinality(((Seats \ {bb}) \ {sb}) \ {button}) = Cardinality((Seats \ {bb}) \ {sb}) - 1
    <3>1. button \in (Seats \ {bb}) \ {sb}
      BY <1>1
    <3> QED BY <2>2, <3>1, FS_RemoveElement
  <2> HIDE DEF Before, n
  <2> QED BY <1>3, <1>5, <2>1, <2>2, <2>3
<1>7. ASSUME NEW s \in Seats, NEW o \in Seats, Offset(bb, s) < Offset(bb, o)
      PROVE  Cardinality(Before(s)) # Cardinality(Before(o))
  <2>1. Before(s) \in SUBSET Before(o) /\ s \in Before(o) /\ s \notin Before(s)
    BY <1>4, <1>7
  <2>2. Before(o) \in SUBSET Seats
    OBVIOUS
  <2> HIDE DEF Before
  <2>3. IsFiniteSet(Before(o))
    BY <1>3, <2>2, FS_Subset
  <2> QED BY <2>1, <2>3, FS_Subset
<1>8. \A s, o \in Seats : Cardinality(Before(s)) = Cardinality(Before(o)) => s = o
  <2> SUFFICES ASSUME NEW s \in Seats, NEW o \in Seats, s # o
               PROVE  Cardinality(Before(s)) # Cardinality(Before(o))
    OBVIOUS
  <2>1. Offset(bb, s) < Offset(bb, o) \/ Offset(bb, o) < Offset(bb, s)
    BY <1>4
  <2> HIDE DEF Before
  <2> QED BY <1>7, <2>1
<1>9. IsInjective([s \in Seats |-> PositionOf(button, s)])
  <2> HIDE DEF Before
  <2> QED BY <1>2, <1>8 DEF IsInjective
<1> HIDE DEF Before, n
<1> QED BY <1>1, <1>2, <1>6, <1>9 DEF sb, bb, n

-----------------------------------------------------------------------------
(* The record of a hand is accepted.                                       *)

PotOf(seats, strength, button, l) ==
  [layer |-> Layer(seats, l), winners |-> Winners(Layer(seats, l).eligible, strength),
   award |-> [s \in Seats |-> Award(Layer(seats, l), strength, button, s)]]

PotsOf(seats, strength, button) == {PotOf(seats, strength, button, l) : l \in Levels(seats)}

AwardsOfPots(pots, s) == MapThenSumSet(LAMBDA p : p.award[s], pots)

\* Summed up over the pots or over their levels, it is the same.
LEMMA PotsAddUp ==
  ASSUME NEW seats \in [Seats -> SeatRecords], NEW strength, NEW button,
         NEW s \in Seats, \A l \in Levels(seats) : AwardsOf(seats, strength, button, s)[l] \in Int
  PROVE  /\ AwardsOfPots(PotsOf(seats, strength, button), s)
              = Awarded(seats, strength, button, s)
         /\ MapThenSumSet(LAMBDA p : p.layer.amount, PotsOf(seats, strength, button))
              = LayersTotal(seats)
<1> DEFINE L == Levels(seats)
           f == [l \in L |-> PotOf(seats, strength, button, l)]
           S == {f[l] : l \in L}
           awards == [p \in S |-> p.award[s]]
           amounts == [p \in S |-> p.layer.amount]
           K == CHOOSE k : k = [t \in SUBSET S |-> IF t = {} THEN 0
                   ELSE Chosen(t).award[s] + k[t \ {Chosen(t)}]]
           M == CHOOSE k : k = [t \in SUBSET S |-> IF t = {} THEN 0
                   ELSE Chosen(t).layer.amount + k[t \ {Chosen(t)}]]
<1>1. PotsOf(seats, strength, button) = S
  BY DEF PotsOf
<1>2. /\ AwardsOfPots(PotsOf(seats, strength, button), s) = K[S]
      /\ MapThenSumSet(LAMBDA p : p.layer.amount, PotsOf(seats, strength, button)) = M[S]
  <2>1. /\ AwardsOfPots(S, s) = K[S]
        /\ MapThenSumSet(LAMBDA p : p.layer.amount, S) = M[S]
    BY DEF AwardsOfPots, MapThenSumSet, MapThenFoldSet, Chosen
  <2> HIDE DEF K, M, S
  <2> QED BY <1>1, <2>1
<1>3. IsFiniteSet(L)
  BY LevelsFinite
<1>4. IsFiniteSet(S)
  <2>1. f \in Surjection(L, S)
    <3>1. f \in [L -> S] /\ \A y \in S : \E x \in L : f[x] = y
      <4> HIDE DEF L
      <4> QED OBVIOUS
    <3> HIDE DEF f, S, L
    <3> QED BY <3>1 DEF Surjection
  <2> HIDE DEF f, S, L
  <2> QED BY <1>3, <2>1, FS_Surjection
<1>5. \A t \in SUBSET S : t # {} => Chosen(t) \in S
  BY DEF Chosen
<1>6. K[S] = SumOver(awards, S)
  <2>1. \A k : SumsUp(k, awards, S) <=> k = [t \in SUBSET S |-> IF t = {} THEN 0
                   ELSE Chosen(t).award[s] + k[t \ {Chosen(t)}]]
    <3> SUFFICES ASSUME NEW k
                 PROVE  [t \in SUBSET S |-> IF t = {} THEN 0
                             ELSE awards[Chosen(t)] + k[t \ {Chosen(t)}]]
                        = [t \in SUBSET S |-> IF t = {} THEN 0
                             ELSE Chosen(t).award[s] + k[t \ {Chosen(t)}]]
      BY DEF SumsUp
    <3> HIDE DEF S
    <3>1. \A t \in SUBSET S : t # {} => awards[Chosen(t)] = Chosen(t).award[s]
      BY <1>5
    <3> HIDE DEF awards
    <3> QED BY <3>1
  <2>2. \E k : SumsUp(k, awards, S)
    <3> HIDE DEF awards, S
    <3> QED BY <1>4, SumExists
  <2>3. SumsUp(K, awards, S)
    <3> HIDE DEF awards, S
    <3> QED BY <2>1, <2>2
  <2> HIDE DEF awards, S, K
  <2> QED BY <1>4, <2>3, AnySum
<1>7. M[S] = SumOver(amounts, S)
  <2>1. \A k : SumsUp(k, amounts, S) <=> k = [t \in SUBSET S |-> IF t = {} THEN 0
                   ELSE Chosen(t).layer.amount + k[t \ {Chosen(t)}]]
    <3> SUFFICES ASSUME NEW k
                 PROVE  [t \in SUBSET S |-> IF t = {} THEN 0
                             ELSE amounts[Chosen(t)] + k[t \ {Chosen(t)}]]
                        = [t \in SUBSET S |-> IF t = {} THEN 0
                             ELSE Chosen(t).layer.amount + k[t \ {Chosen(t)}]]
      BY DEF SumsUp
    <3> HIDE DEF S
    <3>1. \A t \in SUBSET S : t # {} => amounts[Chosen(t)] = Chosen(t).layer.amount
      BY <1>5
    <3> HIDE DEF amounts
    <3> QED BY <3>1
  <2>2. \E k : SumsUp(k, amounts, S)
    <3> HIDE DEF amounts, S
    <3> QED BY <1>4, SumExists
  <2>3. SumsUp(M, amounts, S)
    <3> HIDE DEF amounts, S
    <3> QED BY <2>1, <2>2
  <2> HIDE DEF amounts, S, M
  <2> QED BY <1>4, <2>3, AnySum
<1>8. \A x \in L : \A y \in L : f[x] = f[y] => x = y
  <2> SUFFICES ASSUME NEW x \in L, NEW y \in L, f[x] = f[y] PROVE x = y
    OBVIOUS
  <2>1. f[x].layer.upper = x /\ f[y].layer.upper = y
    BY DEF PotOf, Layer
  <2> HIDE DEF f
  <2> QED BY <2>1
<1>9. \A l \in L : /\ awards[f[l]] = AwardsOf(seats, strength, button, s)[l]
                   /\ amounts[f[l]] = Amounts(seats)[l]
  <2> SUFFICES ASSUME NEW l \in L
               PROVE  /\ awards[f[l]] = AwardsOf(seats, strength, button, s)[l]
                      /\ amounts[f[l]] = Amounts(seats)[l]
    OBVIOUS
  <2>1. f[l] \in S /\ f[l] = PotOf(seats, strength, button, l)
    <3> HIDE DEF L
    <3> QED OBVIOUS
  <2> HIDE DEF f, S
  <2>2. awards[f[l]] = f[l].award[s] /\ amounts[f[l]] = f[l].layer.amount
    BY <2>1
  <2> QED BY <2>1, <2>2 DEF PotOf, AwardsOf, Amounts
<1>10. \A l \in L : Amounts(seats)[l] \in Int
  BY LayerBounds DEF Amounts
<1>11. SumOver(awards, S) = SumOver(AwardsOf(seats, strength, button, s), L)
  <2> DEFINE k == AwardsOf(seats, strength, button, s)
  <2>1. \A l \in L : k[l] \in Int /\ awards[f[l]] = k[l]
    BY <1>9
  <2>2. S = {f[l] : l \in L}
    OBVIOUS
  <2> HIDE DEF awards, f, L, k, S
  <2>3. SumOver(awards, {f[l] : l \in L}) = SumOver(k, L)
    BY <1>3, <1>8, <2>1, SumOfImage
  <2> QED BY <2>2, <2>3 DEF k
<1>12. SumOver(amounts, S) = SumOver(Amounts(seats), L)
  <2> DEFINE k == Amounts(seats)
  <2>1. \A l \in L : k[l] \in Int /\ amounts[f[l]] = k[l]
    BY <1>9, <1>10
  <2>2. S = {f[l] : l \in L}
    OBVIOUS
  <2> HIDE DEF amounts, f, L, k, S
  <2>3. SumOver(amounts, {f[l] : l \in L}) = SumOver(k, L)
    BY <1>3, <1>8, <2>1, SumOfImage
  <2> QED BY <2>2, <2>3 DEF k
<1> HIDE DEF S, awards, amounts, K, M, f
<1> QED BY <1>2, <1>6, <1>7, <1>11, <1>12, AwardedIs, LayersTotalIs

\* Every pot of the record is somebody's, and all of it.
LEMMA PotIsRecorded ==
  ASSUME NEW seats \in [Seats -> SeatRecords], NEW level \in Levels(seats),
         Layer(seats, level).eligible # {}, NEW button \in Seats, NEW strength,
         \A s \in Seats : InHand(seats[s]) => strength[s] \in 1 .. HandClasses
  PROVE  LET p == PotOf(seats, strength, button, level)
         IN  /\ p.layer.amount > 0
             /\ p.winners # {} /\ p.winners \subseteq p.layer.eligible
             /\ p.layer.eligible \subseteq p.layer.contributors
             /\ ChipSum(p.award) = p.layer.amount
             /\ \A s \in Seats \ p.winners : p.award[s] = 0
<1> DEFINE layer == Layer(seats, level)
           W == Winners(layer.eligible, strength)
           award == [s \in Seats |-> Award(layer, strength, button, s)]
           p == PotOf(seats, strength, button, level)
           low == LowerLevel(seats, level)
<1>1. p.layer = layer /\ p.winners = W /\ p.award = award
  BY DEF PotOf
<1>2. /\ low \in Nat /\ low < level /\ layer.amount \in Nat
      /\ layer.eligible \in SUBSET Seats /\ layer.contributors \in SUBSET Seats
      /\ \A o \in layer.eligible : InHand(seats[o])
  BY LayerBounds
<1>3. /\ layer.eligible \in SUBSET layer.contributors
      /\ layer.amount = (level - low) * Cardinality(layer.contributors)
  BY DEF Layer
<1>4. W \in SUBSET layer.eligible /\ W # {}
  <2> DEFINE E == layer.eligible
  <2>1. E \in SUBSET Seats /\ E # {} /\ \A o \in E : strength[o] \in 1 .. HandClasses
    BY <1>2
  <2> HIDE DEF E
  <2>2. Winners(E, strength) \in SUBSET E /\ Winners(E, strength) # {}
    BY <2>1, WinnersExist
  <2> QED BY <2>2 DEF E
<1>5. layer.amount > 0
  <2> DEFINE m == Cardinality(layer.contributors)
  <2>1. IsFiniteSet(layer.contributors) /\ m \in 0 .. 9
    BY <1>2, SeatsFinite
  <2>2. layer.contributors # {}
    BY <1>3
  <2>3. m # 0
    <3> HIDE DEF layer
    <3> QED BY <2>1, <2>2, FS_EmptySet
  <2>4. level \in Nat
    BY LevelsFinite
  <2> HIDE DEF m, layer, low
  <2>5. layer.amount = (level - low) * m
    BY <1>3 DEF m
  <2>6. m = 1 \/ m = 2 \/ m = 3 \/ m = 4 \/ m = 5 \/ m = 6 \/ m = 7 \/ m = 8 \/ m = 9
    BY <2>1, <2>3
  <2> QED BY <1>2, <2>4, <2>5, <2>6
<1>6. ChipSum(award) = layer.amount
  <2> DEFINE a(i) == AwardOf(layer, strength, button, i)
  <2>1. W \in SUBSET Seats
    BY <1>2, <1>4
  <2> HIDE DEF layer
  <2>2. /\ \A i \in 0 .. 8 : a(i) \in Nat
        /\ layer.amount = a(0) + a(1) + a(2) + a(3) + a(4) + a(5) + a(6) + a(7) + a(8)
    BY <1>2, <1>4, <2>1, LayerIsAwarded
  <2>3. \A i \in 0 .. 8 : Chips(award, i) = a(i)
    BY DEF Chips, AwardOf
  <2>4. \A s \in Seats : s \in 0 .. 8 /\ award[s] = a(s)
    BY SeatsFinite DEF AwardOf
  <2>5. \A i \in DOMAIN award : award[i] \in Int
    BY <2>2, <2>4
  <2> HIDE DEF award, a
  <2>6. ChipSum(award) = NinePlaces(award)
    BY <2>5, ChipSumIs
  <2> QED BY <2>2, <2>3, <2>6 DEF NinePlaces
<1>7. \A s \in Seats \ W : award[s] = 0
  BY DEF Award
<1> HIDE DEF layer, W, award, p
<1> QED BY <1>1, <1>3, <1>4, <1>5, <1>6, <1>7 DEF p

\* The record of a hand that can be settled agrees with itself.
LEMMA RecordIsAccepted ==
  ASSUME NEW t \in TableRecords, Settleable(t), t.actor = NoSeat, t.pot > 0, StreetInTotal(t.seats),
         TwoPaid(t.seats), \A s \in Seats : t.seats[s].status # "out",
         NEW strength \in [Contenders(t) -> 1 .. HandClasses]
  PROVE  RecordAccepted(HandRecord(t, strength, Settled(t, strength)))
<1> DEFINE back == UncalledReturn(t.seats)
           rest == Returned(t.seats)
           u == Settled(t, strength)
           r == HandRecord(t, strength, u)
           C == Totals(t)
           b(s) == IF back.seat = s THEN back.amount ELSE 0
           a(s) == Awarded(rest, strength, t.button, s)
           pots == PotsOf(rest, strength, t.button)
<1>1. /\ t.seats \in [Seats -> SeatRecords] /\ C \in [Seats -> Nat] /\ Stacks(t) \in [Seats -> Nat]
      /\ t.button \in Seats /\ t.pot \in Nat
  BY DEF TableRecords, Totals, SeatRecords, Stacks
<1>2. /\ ReturnFits(t.seats) /\ rest \in [Seats -> SeatRecords] /\ Levels(rest) # {}
      /\ \A s \in Seats :
            /\ rest[s].status = t.seats[s].status
            /\ rest[s].stack = t.seats[s].stack + b(s)
            /\ Paying(rest, s) = Paying(t.seats, s) - b(s)
      /\ ChipSum(C) = t.pot /\ LayersTotal(rest) = t.pot - back.amount
      /\ \A level \in Levels(rest) : Layer(rest, level).eligible # {}
  BY SettledPot
<1>3. \A s \in Seats : InHand(rest[s]) => strength[s] \in 1 .. HandClasses
  BY <1>2 DEF InHand, Contenders
<1>4. /\ r.reason = t.street /\ r.button = t.button /\ r.board = t.board
      /\ r.starting = [s \in Seats |-> t.seats[s].stack + C[s]]
      /\ r.ending = [s \in Seats |-> u.seats[s].stack]
      /\ r.contribution = C /\ r.back = back /\ r.pots = pots
      /\ r.evaluated = IF t.street = "complete" THEN {}
                       ELSE {s \in Seats : InHand(t.seats[s]) /\ Paying(rest, s) > 0}
  <2>1. r.starting = [s \in Seats |-> t.seats[s].stack + C[s]] /\ r.contribution = C
    BY DEF HandRecord, RecordOf, Totals
  <2>2. r.pots = pots
    BY DEF HandRecord, RecordOf, PotsOf, PotOf
  <2>3. r.evaluated = IF t.street = "complete" THEN {}
                      ELSE {s \in Seats : InHand(t.seats[s]) /\ Paying(rest, s) > 0}
    BY DEF HandRecord, RecordOf, Paying
  <2>4. /\ r.reason = t.street /\ r.button = t.button /\ r.board = t.board
        /\ r.ending = [s \in Seats |-> u.seats[s].stack] /\ r.back = back
    BY DEF HandRecord, RecordOf
  <2> QED BY <2>1, <2>2, <2>3, <2>4
<1>5. \A s \in Seats : u.seats[s].stack = rest[s].stack + a(s)
  BY ChipsAfter
<1>6. \A s \in Seats : a(s) \in Nat
  <2> DEFINE button == t.button
             left == t.pot - back.amount
  <2>1. button \in Seats /\ LayersValid(rest, left)
    BY <1>1 DEF Settleable
  <2> HIDE DEF button, left, rest
  <2>2. \A s \in Seats : Awarded(rest, strength, button, s) \in Nat
    BY <1>2, <1>3, <2>1, PotIsAwarded
  <2> QED BY <2>2 DEF button
<1>7. \A s \in Seats : AwardsOfPots(pots, s) = a(s)
  <2> SUFFICES ASSUME NEW s \in Seats PROVE AwardsOfPots(pots, s) = a(s)
    OBVIOUS
  <2> DEFINE button == t.button
  <2>1. \A l \in Levels(rest) : AwardsOf(rest, strength, button, s)[l] \in Int
    <3> SUFFICES ASSUME NEW l \in Levels(rest) PROVE AwardsOf(rest, strength, button, s)[l] \in Int
      OBVIOUS
    <3>1. button \in Seats /\ Layer(rest, l).eligible # {}
      BY <1>1, <1>2
    <3> HIDE DEF button, rest
    <3>2. Award(Layer(rest, l), strength, button, s) \in Nat
      BY <1>2, <1>3, <3>1, AwardOfLayer
    <3> QED BY <3>2 DEF AwardsOf
  <2> HIDE DEF button, rest
  <2>2. AwardsOfPots(PotsOf(rest, strength, button), s)
          = Awarded(rest, strength, button, s)
    <3>1. rest \in [Seats -> SeatRecords]
      BY <1>2
    <3> QED BY <2>1, <3>1, PotsAddUp
  <2> QED BY <2>2 DEF button
<1>8. MapThenSumSet(LAMBDA p : p.layer.amount, pots) = t.pot - back.amount
  <2> DEFINE button == t.button
             left == t.pot - back.amount
  <2>0. PICK s \in Seats : TRUE
    BY <1>1
  <2>1. \A l \in Levels(rest) : AwardsOf(rest, strength, button, s)[l] \in Int
    <3> SUFFICES ASSUME NEW l \in Levels(rest) PROVE AwardsOf(rest, strength, button, s)[l] \in Int
      OBVIOUS
    <3>1. button \in Seats /\ Layer(rest, l).eligible # {}
      BY <1>1, <1>2
    <3> HIDE DEF button, rest
    <3>2. Award(Layer(rest, l), strength, button, s) \in Nat
      BY <1>2, <1>3, <3>1, AwardOfLayer
    <3> QED BY <3>2 DEF AwardsOf
  <2>2. LayersTotal(rest) = left
    BY <1>2
  <2> HIDE DEF button, rest, left
  <2>3. MapThenSumSet(LAMBDA p : p.layer.amount, PotsOf(rest, strength, button)) = LayersTotal(rest)
    BY <1>2, <2>1, PotsAddUp
  <2> QED BY <2>2, <2>3 DEF button, left
<1> HIDE DEF rest, u, r, C, a, pots
<1>9. EndingExplained(r)
  <2> SUFFICES ASSUME NEW s \in Seats
               PROVE  r.ending[s] = r.starting[s] - r.contribution[s]
                                      + (IF r.back.seat = s THEN r.back.amount ELSE 0)
                                      + AwardsOfPots(r.pots, s)
    BY DEF EndingExplained, AwardsOfPots
  <2>1. AwardsOfPots(r.pots, s) = a(s)
    BY <1>4, <1>7
  <2>2. t.seats[s].stack \in Nat /\ C[s] \in Nat /\ rest[s].stack \in Nat /\ a(s) \in Nat
    BY <1>1, <1>2, <1>6 DEF SeatRecords
  <2>3. /\ r.ending[s] = rest[s].stack + a(s) /\ r.starting[s] = t.seats[s].stack + C[s]
        /\ r.contribution[s] = C[s] /\ r.back = back /\ rest[s].stack = t.seats[s].stack + b(s)
    BY <1>2, <1>4, <1>5
  <2>4. b(s) \in Int
    <3>1. back.amount \in Nat
      BY <1>2 DEF ReturnFits
    <3> QED BY <3>1
  <2>5. r.ending[s] = r.starting[s] - r.contribution[s] + b(s) + a(s)
    <3> HIDE DEF b
    <3> QED BY <2>2, <2>3, <2>4
  <2> QED BY <2>1, <2>3, <2>5
<1>10. PlacesRecorded(r)
  BY <1>1, <1>4, PlacesAre DEF PlacesRecorded
<1>11. ChipsRecorded(r)
  <2>1. \A s \in Seats : r.contribution[s] <= r.starting[s]
    <3> SUFFICES ASSUME NEW s \in Seats PROVE C[s] <= t.seats[s].stack + C[s]
      BY <1>4
    <3>1. C[s] \in Nat /\ t.seats[s].stack \in Nat
      BY <1>1 DEF SeatRecords
    <3> QED BY <3>1
  <2>2. ChipSum(r.starting) = ChipSum(r.ending)
    <3> DEFINE f == Stacks(t)
    <3>1. r.starting = [s \in Seats |-> f[s] + C[s]]
      BY <1>4 DEF Stacks
    <3>2. f \in [Seats -> Int] /\ C \in [Seats -> Int]
      BY <1>1
    <3> HIDE DEF f
    <3>3. ChipSum(r.starting) = ChipSum(f) + ChipSum(C)
      BY <3>1, <3>2, ChipsAdd
    <3>4. Levels(t.seats) # {}
      BY <1>2, ChipsOfPot DEF C
    <3>5. ChipSum(Stacks(u)) = ChipSum(Stacks(t)) + t.pot
      BY <3>4, SettlingPays DEF u, StreetInTotal
    <3>6. r.ending = Stacks(u)
      BY <1>4 DEF Stacks
    <3> QED BY <1>2, <3>3, <3>5, <3>6 DEF f
  <2>3. r.back.seat # NoSeat => r.back.amount \in 1 .. r.contribution[r.back.seat]
    <3> SUFFICES ASSUME back.seat # NoSeat PROVE back.amount \in 1 .. C[back.seat]
      BY <1>4
    <3>1. back.seat \in Seats /\ back.amount \in Nat /\ back.amount > 0
      BY <1>2 DEF ReturnFits
    <3>2. back.amount <= t.seats[back.seat].streetContribution
      BY DEF Settleable
    <3>3. /\ t.seats[back.seat].streetContribution <= C[back.seat]
          /\ t.seats[back.seat].streetContribution \in Nat /\ C[back.seat] \in Nat
      BY <1>1, <3>1 DEF StreetInTotal, C, Totals, SeatRecords
    <3> HIDE DEF back
    <3> QED BY <3>1, <3>2, <3>3
  <2>4. ChipSum(r.contribution) = r.back.amount + MapThenSumSet(LAMBDA p : p.layer.amount, r.pots)
    <3>1. MapThenSumSet(LAMBDA p : p.layer.amount, r.pots) = t.pot - back.amount
      BY <1>4, <1>8
    <3>2. ChipSum(r.contribution) = t.pot /\ r.back.amount = back.amount
      BY <1>2, <1>4
    <3>3. back.amount \in Nat
      BY <1>2 DEF ReturnFits
    <3>4. t.pot = back.amount + (t.pot - back.amount)
      BY <1>1, <3>3
    <3> QED BY <3>1, <3>2, <3>4
  <2> QED BY <2>1, <2>2, <2>3, <2>4 DEF ChipsRecorded
<1>12. ShownRecorded(r)
  <2>1. CASE t.street = "complete"
    BY <1>4, <2>1 DEF ShownRecorded
  <2>2. CASE t.street # "complete"
    <3>1. t.board = 5
      BY <2>2 DEF Settleable, EndStreets
    <3>2. {s \in Seats : InHand(t.seats[s]) /\ Paying(rest, s) > 0} = UNION {p.layer.eligible : p \in pots}
      <4>1. UNION {p.layer.eligible : p \in pots} = UNION {Layer(rest, l).eligible : l \in Levels(rest)}
        <5>1. \A x : x \in UNION {p.layer.eligible : p \in pots}
                       <=> \E l \in Levels(rest) : x \in PotOf(rest, strength, t.button, l).layer.eligible
          BY DEF pots, PotsOf
        <5>2. \A l \in Levels(rest) : PotOf(rest, strength, t.button, l).layer = Layer(rest, l)
          BY DEF PotOf
        <5>3. \A x : x \in UNION {p.layer.eligible : p \in pots}
                       <=> \E l \in Levels(rest) : x \in Layer(rest, l).eligible
          BY <5>1, <5>2
        <5> QED BY <5>3
      <4>2. \A s \in Seats : \A l \in Levels(rest) :
               s \in Layer(rest, l).eligible <=> Paying(rest, s) >= l /\ InHand(t.seats[s])
        BY <1>2 DEF Layer, Paying, InHand
      <4>3. \A l \in Levels(rest) : l \in Nat /\ l > 0 /\ Layer(rest, l).eligible \in SUBSET Seats
        BY <1>2, LevelsFinite, LayerBounds
      <4>4. \A s \in Seats : /\ Paying(rest, s) \in Nat
                             /\ Paying(rest, s) > 0 => Paying(rest, s) \in Levels(rest)
        BY <1>2 DEF Paying, SeatRecords, Levels
      <4>5. \A s \in Seats : InHand(t.seats[s]) /\ Paying(rest, s) > 0
                               <=> \E l \in Levels(rest) : s \in Layer(rest, l).eligible
        <5> SUFFICES ASSUME NEW s \in Seats
                     PROVE  InHand(t.seats[s]) /\ Paying(rest, s) > 0
                              <=> \E l \in Levels(rest) : s \in Layer(rest, l).eligible
          OBVIOUS
        <5>1. ASSUME InHand(t.seats[s]), Paying(rest, s) > 0
              PROVE  \E l \in Levels(rest) : s \in Layer(rest, l).eligible
          <6>1. Paying(rest, s) \in Levels(rest) /\ Paying(rest, s) >= Paying(rest, s)
            BY <4>4, <5>1
          <6> QED BY <4>2, <5>1, <6>1
        <5>2. ASSUME NEW l \in Levels(rest), s \in Layer(rest, l).eligible
              PROVE  InHand(t.seats[s]) /\ Paying(rest, s) > 0
          <6>1. Paying(rest, s) >= l /\ InHand(t.seats[s]) /\ l \in Nat /\ l > 0
            BY <4>2, <4>3, <5>2
          <6> QED BY <4>4, <6>1
        <5> QED BY <5>1, <5>2
      <4> QED BY <4>1, <4>3, <4>5
    <3> QED BY <1>4, <2>2, <3>1, <3>2 DEF ShownRecorded
  <2> QED BY <2>1, <2>2
<1>13. PotsRecorded(r)
  <2>1. pots # {}
    BY <1>2 DEF pots, PotsOf
  <2>2. ASSUME NEW p \in pots
        PROVE  /\ p.layer.amount > 0
               /\ p.winners # {} /\ p.winners \subseteq p.layer.eligible
               /\ p.layer.eligible \subseteq p.layer.contributors
               /\ ChipSum(p.award) = p.layer.amount
               /\ \A s \in Seats \ p.winners : p.award[s] = 0
    <3> DEFINE button == t.button
    <3>1. PICK l \in Levels(rest) : p = PotOf(rest, strength, button, l)
      BY DEF pots, PotsOf
    <3>2. button \in Seats /\ Layer(rest, l).eligible # {}
      BY <1>1, <1>2
    <3> HIDE DEF button
    <3> QED BY <1>2, <1>3, <3>1, <3>2, PotIsRecorded
  <2> QED BY <1>4, <2>1, <2>2 DEF PotsRecorded
<1> QED BY <1>9, <1>10, <1>11, <1>12, <1>13 DEF RecordAccepted, r, u

-----------------------------------------------------------------------------
(* Legal play can always be settled.                                       *)

\* What a street opens with: the big blind before the flop.
Opening(t) == IF t.street = "preflop" THEN BigBlind ELSE 0

Acted(seat) == seat.betLevel # NotActed

\* The seats that have not yet had a turn on the street.
Waiting(t) == {s \in Actionable(t) : ~Acted(t.seats[s])}

\* Who can still act, or has put in something on this street, has matched
\* everything before it; so have two seats.
BasesSound(t) ==
  /\ \A s \in Seats : CanAct(t.seats[s]) \/ t.seats[s].streetContribution > 0 => TopBase(t.seats, s)
  /\ SharedBase(t.seats)
  /\ t.street = "preflop" => \A s \in Seats : Base(t.seats[s]) = 0

\* A bet above the opening was made by a seat that is still in the hand.
BetMade(t) ==
  t.currentBet > Opening(t) =>
     \E h \in Contenders(t) : t.seats[h].streetContribution = t.currentBet

LevelsSound(t) ==
  /\ t.currentBet >= Opening(t)
  /\ \A s \in Seats : IF Acted(t.seats[s]) THEN t.seats[s].betLevel >= Opening(t)
                      ELSE t.seats[s].streetContribution <= Opening(t)

\* Before its first turn a seat has put in its blind and nothing else.
BlindsSound(t) ==
  t.street = "preflop" =>
     \A s \in Seats : ~Acted(t.seats[s]) =>
        /\ s = BigBlindSeat(t.button) /\ CanAct(t.seats[s]) => t.seats[s].streetContribution = BigBlind
        /\ s = SmallBlindSeat(t.button) => t.seats[s].streetContribution <= SmallBlind
        /\ s \notin {BigBlindSeat(t.button), SmallBlindSeat(t.button)}
              => t.seats[s].streetContribution = 0

\* Before the flop the first turns go round from the big blind on, and the
\* big blind comes last.
InOrder(t) ==
  LET place(s) == Offset(BigBlindSeat(t.button), s)
  IN  t.street = "preflop" =>
         \A s \in Waiting(t) :
            /\ t.actor \in Waiting(t) /\ place(t.actor) <= place(s)
            /\ \A o \in Actionable(t) \ Waiting(t) : place(o) < place(s)

\* What an action leaves as it was, whoever is next.
StakesSound(t) ==
  /\ BasesSound(t) /\ BetMade(t) /\ LevelsSound(t) /\ BlindsSound(t)
  /\ TwoPaid(t.seats) /\ TopInHand(t.seats)

Stakes(t) == StakesSound(t) /\ InOrder(t) /\ BettingOpen(t)

\* Seats met in one order from an anchor are met in the same order from a
\* seat before them, and those before that seat are met last.
LEMMA RoundTheTable ==
  ASSUME NEW b \in Seats, NEW a \in Seats, NEW s \in Seats, NEW o \in Seats,
         Offset(b, a) < Offset(b, s)
  PROVE  /\ Offset(b, o) < Offset(b, a) => Offset(a, s) < Offset(a, o)
         /\ Offset(b, a) < Offset(b, o) /\ Offset(a, o) <= Offset(a, s) => Offset(b, o) <= Offset(b, s)
<1>1. /\ a \in 0 .. 8 /\ b \in 0 .. 8 /\ s \in 0 .. 8 /\ o \in 0 .. 8
      /\ Offset(b, a) = IF a > b THEN a - b - 1 ELSE a - b + 8
      /\ Offset(b, s) = IF s > b THEN s - b - 1 ELSE s - b + 8
      /\ Offset(b, o) = IF o > b THEN o - b - 1 ELSE o - b + 8
      /\ Offset(a, s) = IF s > a THEN s - a - 1 ELSE s - a + 8
      /\ Offset(a, o) = IF o > a THEN o - a - 1 ELSE o - a + 8
  BY OffsetIs
<1> QED BY <1>1

LEMMA PlacesDiffer ==
  ASSUME NEW b \in Seats, NEW s \in Seats, NEW o \in Seats, s # o
  PROVE  Offset(b, s) # Offset(b, o) /\ Offset(b, s) \in 0 .. 8 /\ Offset(b, o) \in 0 .. 8
<1>1. /\ b \in 0 .. 8 /\ s \in 0 .. 8 /\ o \in 0 .. 8
      /\ Offset(b, s) = IF s > b THEN s - b - 1 ELSE s - b + 8
      /\ Offset(b, o) = IF o > b THEN o - b - 1 ELSE o - b + 8
  BY OffsetIs
<1> QED BY <1>1

\* The seat that acts, after its action.
LEMMA ActorAfter ==
  ASSUME NEW t \in TableRecords, InPlay(t), BettingOpen(t), NEW action,
         ActionAccepted(t, t.actor, action)
  PROVE  LET me == t.seats[t.actor]
             new == BettingTransition(t, action).seats[t.actor]
             paid == Delta(t, action)
         IN  /\ new \in SeatRecords /\ paid \in Nat
             /\ new.status = StatusAfter(action) /\ new.stack = me.stack - paid
             /\ new.streetContribution = me.streetContribution + paid
             /\ new.totalContribution = me.totalContribution + paid
             /\ Base(new) = Base(me)
             /\ action.type = "fold" => paid = 0
             /\ action.type # "fold" => InHand(new)
<1> DEFINE me == t.seats[t.actor]
           u == BettingTransition(t, action)
           paid == Delta(t, action)
           new == Contributing(me, paid, StatusAfter(action), BetAfter(t, action))
<1>1. t.actor \in Seats /\ me \in SeatRecords /\ u \in TableRecords
  BY ActorFacts, ActionTaken
<1>2. /\ paid \in Nat
      /\ action.type \in {"fold", "check", "call", "bet", "raise", "allIn"}
      /\ action.type = "fold" => paid = 0
  BY ActionShape
<1>3. u.seats[t.actor] = new
  BY <1>1 DEF BettingTransition, PutIn, TableRecords
<1>4. u.seats[t.actor] \in SeatRecords
  BY <1>1 DEF TableRecords
<1>5. /\ new.status = StatusAfter(action) /\ new.stack = me.stack - paid
      /\ new.streetContribution = me.streetContribution + paid
      /\ new.totalContribution = me.totalContribution + paid
  BY <1>1 DEF Contributing, SeatRecords
<1>6. me.streetContribution \in Nat /\ me.totalContribution \in Nat
  BY <1>1 DEF SeatRecords
<1>7. action.type # "fold" => StatusAfter(action) \in {"active", "allIn"}
  BY <1>2 DEF StatusAfter
<1> HIDE DEF new, paid, me, u
<1>8. Base(new) = Base(me)
  BY <1>2, <1>5, <1>6 DEF Base
<1>9. action.type # "fold" => InHand(new)
  BY <1>5, <1>7 DEF InHand
<1> QED BY <1>2, <1>3, <1>4, <1>5, <1>8, <1>9 DEF me, u, paid

\* An action only adds to what its seat has put in on the street.
LEMMA ChipsGoIn ==
  ASSUME NEW t \in TableRecords, InPlay(t), BettingOpen(t), NEW action,
         ActionAccepted(t, t.actor, action)
  PROVE  LET u == BettingTransition(t, action)
         IN  /\ \A s \in Seats :
                  /\ Base(u.seats[s]) = Base(t.seats[s])
                  /\ Paying(u.seats, s) \in Nat /\ Paying(t.seats, s) \in Nat
                  /\ Paying(u.seats, s) >= Paying(t.seats, s)
             /\ \A s \in Seats : TopBase(u.seats, s) <=> TopBase(t.seats, s)
             /\ TwoPaid(t.seats) => TwoPaid(u.seats)
             /\ SharedBase(t.seats) => SharedBase(u.seats)
<1> DEFINE u == BettingTransition(t, action)
           a == t.actor
<1>1. a \in Seats /\ u \in TableRecords /\ \A s \in Seats \ {a} : u.seats[s] = t.seats[s]
  BY ActorFacts, ActionTaken
<1>2. /\ Base(u.seats[a]) = Base(t.seats[a]) /\ Delta(t, action) \in Nat
      /\ u.seats[a].totalContribution = t.seats[a].totalContribution + Delta(t, action)
  BY ActorAfter
<1> HIDE DEF u, a
<1>3. \A s \in Seats : u.seats[s].totalContribution \in Nat /\ t.seats[s].totalContribution \in Nat
  BY <1>1 DEF TableRecords, SeatRecords
<1>4. ASSUME NEW s \in Seats
      PROVE  Base(u.seats[s]) = Base(t.seats[s]) /\ Paying(u.seats, s) >= Paying(t.seats, s)
  <2>1. CASE s = a
    BY <1>1, <1>2, <1>3, <2>1 DEF Paying
  <2>2. CASE s # a
    <3>1. u.seats[s] = t.seats[s]
      BY <1>1, <2>2
    <3> QED BY <1>3, <3>1 DEF Paying
  <2> QED BY <2>1, <2>2
<1>5. \A s \in Seats : TopBase(u.seats, s) <=> TopBase(t.seats, s)
  BY <1>4 DEF TopBase
<1>6. SharedBase(t.seats) => SharedBase(u.seats)
  BY <1>5 DEF SharedBase
<1>7. \A s \in Seats : Paying(u.seats, s) \in Nat /\ Paying(t.seats, s) \in Nat
  BY <1>3 DEF Paying
<1>8. TwoPaid(t.seats) => TwoPaid(u.seats)
  <2> SUFFICES ASSUME TwoPaid(t.seats) PROVE TwoPaid(u.seats)
    OBVIOUS
  <2>1. PICK s \in Seats, o \in Seats : s # o /\ Paying(t.seats, s) > 0 /\ Paying(t.seats, o) > 0
    BY DEF TwoPaid
  <2>2. Paying(u.seats, s) > 0 /\ Paying(u.seats, o) > 0
    BY <1>4, <1>7, <2>1
  <2> QED BY <2>1, <2>2 DEF TwoPaid
<1> QED BY <1>4, <1>5, <1>6, <1>7, <1>8 DEF u

\* A seat that has its turn again faces a bet.
LEMMA TurnsAgain ==
  ASSUME NEW t \in TableRecords, InPlay(t), LevelsSound(t)
  PROVE  LET me == t.seats[t.actor]
         IN  /\ t.actor \in Actionable(t) /\ t.actor \in Contenders(t)
             /\ me.streetContribution \in Nat /\ me.streetContribution <= t.currentBet
             /\ t.currentBet \in Nat /\ Opening(t) \in Nat /\ t.currentBet >= Opening(t)
             /\ Acted(me) => /\ me.streetContribution < t.currentBet
                             /\ t.currentBet > Opening(t)
             /\ ~Acted(me) => me.streetContribution <= Opening(t)
<1> DEFINE me == t.seats[t.actor]
<1>1. /\ t.actor \in Seats /\ CanAct(me) /\ KeepsUp(me) /\ SeatSound(t, me)
      /\ me.betLevel = NotActed \/ me.streetContribution < t.currentBet
  BY DEF InPlay, StillOwesAction
<1>2. me \in SeatRecords /\ t.currentBet \in Nat
  BY <1>1 DEF TableRecords
<1>3. me.streetContribution \in Nat /\ me.streetContribution <= t.currentBet
  BY <1>1, <1>2 DEF SeatRecords, SeatSound
<1>4. Opening(t) \in Nat /\ t.currentBet >= Opening(t)
  BY DEF Opening, BigBlind, LevelsSound
<1>5. t.actor \in Actionable(t) /\ t.actor \in Contenders(t)
  BY <1>1 DEF Actionable, Contenders, InHand, CanAct
<1>6. IF Acted(me) THEN me.betLevel >= Opening(t) ELSE me.streetContribution <= Opening(t)
  BY <1>1 DEF LevelsSound
<1>7. Acted(me) => me.betLevel = me.streetContribution /\ me.streetContribution < t.currentBet
  BY <1>1 DEF Acted, KeepsUp
<1> HIDE DEF me
<1>8. Acted(me) => t.currentBet > Opening(t)
  BY <1>2, <1>3, <1>4, <1>6, <1>7
<1> QED BY <1>2, <1>3, <1>4, <1>5, <1>6, <1>7, <1>8 DEF me

\* Whoever made the bet that is to be called, it was not the seat whose turn
\* it is.
LEMMA BetIsAnothers ==
  ASSUME NEW t \in TableRecords, InPlay(t), LevelsSound(t), BetMade(t), t.currentBet > Opening(t)
  PROVE  \E h \in Contenders(t) \ {t.actor} : t.seats[h].streetContribution = t.currentBet
<1>1. PICK h \in Contenders(t) : t.seats[h].streetContribution = t.currentBet
  BY DEF BetMade
<1>2. LET me == t.seats[t.actor]
      IN  /\ me.streetContribution \in Nat /\ t.currentBet \in Nat /\ Opening(t) \in Nat
          /\ Acted(me) => me.streetContribution < t.currentBet
          /\ ~Acted(me) => me.streetContribution <= Opening(t)
  BY TurnsAgain
<1>3. h # t.actor
  BY <1>1, <1>2
<1> QED BY <1>1, <1>3

LEMMA BetStaysMade ==
  ASSUME NEW t \in TableRecords, InPlay(t), BettingOpen(t), LevelsSound(t), BetMade(t), NEW action,
         ActionAccepted(t, t.actor, action)
  PROVE  BetMade(BettingTransition(t, action))
<1> DEFINE u == BettingTransition(t, action)
           a == t.actor
           level == t.seats[a].streetContribution + Delta(t, action)
<1>1. /\ a \in Seats /\ u \in TableRecords /\ u.street = t.street
      /\ \A s \in Seats \ {a} : u.seats[s] = t.seats[s]
      /\ u.currentBet = BetAfter(t, action)
  BY ActorFacts, ActionTaken
<1>2. /\ u.seats[a].streetContribution = level
      /\ action.type = "fold" => Delta(t, action) = 0
      /\ action.type # "fold" => InHand(u.seats[a])
      /\ Delta(t, action) \in Nat
  BY ActorAfter
<1>3. BetAfter(t, action) = IF level > t.currentBet THEN level ELSE t.currentBet
  BY DEF BetAfter
<1>4. /\ t.seats[a].streetContribution \in Nat /\ t.currentBet \in Nat
      /\ t.seats[a].streetContribution <= t.currentBet
  BY TurnsAgain
<1>5. Opening(u) = Opening(t)
  BY <1>1 DEF Opening
<1>6. CASE level > t.currentBet
  <2>1. action.type # "fold"
    BY <1>2, <1>4, <1>6
  <2>2. a \in Contenders(u) /\ u.seats[a].streetContribution = u.currentBet
    BY <1>1, <1>2, <1>3, <1>6, <2>1 DEF Contenders
  <2> QED BY <2>2 DEF BetMade
<1>7. CASE ~(level > t.currentBet)
  <2>1. u.currentBet = t.currentBet
    BY <1>1, <1>3, <1>7
  <2> HIDE DEF u, a, level
  <2> SUFFICES ASSUME u.currentBet > Opening(u)
               PROVE  \E h \in Contenders(u) : u.seats[h].streetContribution = u.currentBet
    BY DEF BetMade, u
  <2>2. PICK h \in Contenders(t) \ {a} : t.seats[h].streetContribution = t.currentBet
    BY <1>5, <2>1, BetIsAnothers DEF a
  <2>3. h \in Contenders(u) /\ u.seats[h].streetContribution = u.currentBet
    BY <1>1, <2>1, <2>2 DEF Contenders
  <2> QED BY <2>3
<1> QED BY <1>6, <1>7

\* The last seat that can act faces a bet of a seat that is in the hand.
LEMMA LoneFaces ==
  ASSUME NEW t \in TableRecords, InPlay(t), BettingOpen(t), Lone(t)
  PROVE  \E h \in Contenders(t) \ {t.actor} :
            t.seats[h].streetContribution > t.seats[t.actor].streetContribution
<1> DEFINE me == t.seats[t.actor]
           others == Contenders(t) \ {t.actor}
           S == {t.seats[s].streetContribution : s \in others}
<1>1. t.actor \in Seats /\ me \in SeatRecords /\ t.currentBet \in Nat
  BY ActorFacts
<1>2. others # {}
  <2>1. IsFiniteSet(Contenders(t)) /\ Cardinality(Contenders(t)) \in Nat
    BY SeatsFinite DEF Contenders
  <2>2. Cardinality(Contenders(t)) >= 2
    BY DEF BettingOpen
  <2>3. Contenders(t) # {} /\ Contenders(t) # {t.actor}
    <3>1. Cardinality({}) = 0 /\ Cardinality({t.actor}) = 1
      BY FS_EmptySet, FS_Singleton
    <3>2. ~(0 >= 2) /\ ~(1 >= 2)
      OBVIOUS
    <3> QED BY <2>2, <3>1, <3>2
  <2> QED BY <2>3
<1>3. \A o \in others : /\ t.seats[o].streetContribution \in Nat
                        /\ t.seats[o].streetContribution <= t.currentBet
  BY DEF Contenders, InPlay, SeatSound, TableRecords, SeatRecords
<1>4. Max(S) \in S
  <2>1. S \in SUBSET Nat /\ S # {} /\ \A k \in S : k <= t.currentBet
    BY <1>2, <1>3
  <2> HIDE DEF S
  <2> QED BY <1>1, <2>1, Highest
<1>5. AmountToCall(t) > 0
  BY DEF BettingOpen, Lone
<1>6. AmountToCall(t) = IF Max(S) > me.streetContribution THEN Max(S) - me.streetContribution ELSE 0
  BY DEF AmountToCall, Lone
<1>7. Max(S) > me.streetContribution
  <2> HIDE DEF S, me
  <2> QED BY <1>5, <1>6
<1>8. PICK h \in others : Max(S) = t.seats[h].streetContribution
  BY <1>4
<1> QED BY <1>7, <1>8

\* Before the flop the seat whose turn it is never is the only one to have
\* put in what it has put in: the big blind comes last.
LEMMA BlindIsCovered ==
  ASSUME NEW t \in TableRecords, InPlay(t), LevelsSound(t), BlindsSound(t), InOrder(t),
         t.street = "preflop", ~Acted(t.seats[t.actor]),
         NEW o \in Actionable(t), o # t.actor
  PROVE  t.seats[t.actor].streetContribution <= t.seats[o].streetContribution
<1> DEFINE a == t.actor
           sb == SmallBlindSeat(t.button)
           bb == BigBlindSeat(t.button)
<1>1. /\ a \in Actionable(t) /\ a \in Seats /\ o \in Seats /\ CanAct(t.seats[a]) /\ CanAct(t.seats[o])
      /\ t.seats[a].streetContribution \in Nat /\ t.seats[o].streetContribution \in Nat
      /\ t.seats[a].streetContribution <= BigBlind
  <2>1. /\ t.actor \in Actionable(t) /\ t.seats[t.actor].streetContribution \in Nat
        /\ ~Acted(t.seats[t.actor]) => t.seats[t.actor].streetContribution <= Opening(t)
    BY TurnsAgain
  <2>2. o \in Seats /\ CanAct(t.seats[o])
    BY DEF Actionable
  <2>3. t.seats[o].streetContribution \in Nat
    BY <2>2 DEF TableRecords, SeatRecords
  <2> QED BY <2>1, <2>2, <2>3 DEF Actionable, Opening
<1>2. CASE Acted(t.seats[o])
  <2>1. t.seats[o].betLevel = t.seats[o].streetContribution /\ t.seats[o].betLevel >= BigBlind
    BY <1>1, <1>2 DEF InPlay, KeepsUp, Acted, LevelsSound, Opening
  <2> QED BY <1>1, <2>1 DEF BigBlind
<1>3. CASE ~Acted(t.seats[o])
  <2>1. o \in Waiting(t)
    BY <1>3 DEF Waiting
  <2>2. Offset(bb, a) <= Offset(bb, o)
    BY <2>1 DEF InOrder
  <2>3. /\ sb \in Seats /\ bb \in Seats /\ sb # t.button
        /\ Offset(bb, bb) = 8 /\ Offset(bb, sb) < 8
        /\ Offset(bb, t.button) < Offset(bb, sb)
        /\ \A p \in Seats \ {t.button, sb, bb} : Offset(bb, p) < Offset(bb, t.button)
    <3>1. t.button \in Seats
      BY DEF TableRecords
    <3> QED BY <3>1, BlindsComeLast
  <2>4. Offset(bb, a) # Offset(bb, o) /\ Offset(bb, a) \in 0 .. 8 /\ Offset(bb, o) \in 0 .. 8
    BY <1>1, <2>3, PlacesDiffer
  <2>5. a # bb
    BY <2>2, <2>3, <2>4
  <2>6. CASE a = sb
    <3>1. o = bb
      <4> SUFFICES ASSUME o # bb PROVE FALSE
        OBVIOUS
      <4>1. o = t.button \/ o \in Seats \ {t.button, sb, bb}
        BY <1>1, <2>6
      <4>2. t.button \in Seats
        BY DEF TableRecords
      <4>3. Offset(bb, t.button) \in 0 .. 8 /\ Offset(bb, sb) \in 0 .. 8
        <5>1. t.button # sb
          BY <2>3
        <5> HIDE DEF sb, bb
        <5> QED BY <2>3, <4>2, <5>1, PlacesDiffer
      <4> QED BY <2>2, <2>3, <2>4, <2>6, <4>1, <4>3
    <3>2. t.seats[o].streetContribution = BigBlind
      BY <1>1, <1>3, <3>1 DEF BlindsSound
    <3> QED BY <1>1, <3>2
  <2>7. CASE a # sb
    <3>1. t.seats[a].streetContribution = 0
      BY <1>1, <2>5, <2>7 DEF BlindsSound
    <3> QED BY <1>1, <3>1
  <2> QED BY <2>6, <2>7
<1> QED BY <1>2, <1>3

\* Another seat in the hand has put in at least what the actor has: it may
\* fold and leaves nothing behind that nobody can win.
LEMMA ActorIsCovered ==
  ASSUME NEW t \in TableRecords, InPlay(t), Stakes(t)
  PROVE  \E h \in Contenders(t) \ {t.actor} : Paying(t.seats, h) >= Paying(t.seats, t.actor)
<1> DEFINE a == t.actor
           me == t.seats[a]
<1>1. BasesSound(t) /\ BetMade(t) /\ LevelsSound(t) /\ BlindsSound(t) /\ InOrder(t) /\ BettingOpen(t)
  BY DEF Stakes, StakesSound
<1>2. /\ a \in Actionable(t) /\ a \in Seats
      /\ me.streetContribution \in Nat /\ me.streetContribution <= t.currentBet
      /\ t.currentBet \in Nat /\ Opening(t) \in Nat /\ t.currentBet >= Opening(t)
      /\ Acted(me) => t.currentBet > Opening(t)
      /\ ~Acted(me) => me.streetContribution <= Opening(t)
  <2>1. a \in Actionable(t)
    BY <1>1, TurnsAgain
  <2> QED BY <1>1, <2>1, TurnsAgain DEF Actionable
<1>3. \A s \in Seats : /\ t.seats[s].streetContribution \in Nat /\ t.seats[s].totalContribution \in Nat
                       /\ Base(t.seats[s]) \in Int
                       /\ Paying(t.seats, s) = Base(t.seats[s]) + t.seats[s].streetContribution
  <2>1. \A s \in Seats : t.seats[s].streetContribution \in Nat /\ t.seats[s].totalContribution \in Nat
    BY DEF TableRecords, SeatRecords
  <2> QED BY <2>1 DEF Base, Paying
<1>4. ASSUME NEW h \in Contenders(t) \ {a},
             t.seats[h].streetContribution >= me.streetContribution,
             CanAct(t.seats[h]) \/ t.seats[h].streetContribution > 0
      PROVE  Paying(t.seats, h) >= Paying(t.seats, a)
  <2>1. h \in Seats /\ TopBase(t.seats, h)
    BY <1>1, <1>4 DEF BasesSound, Contenders
  <2>2. Base(t.seats[a]) <= Base(t.seats[h])
    BY <1>2, <2>1 DEF TopBase
  <2> QED BY <1>2, <1>3, <1>4, <2>1, <2>2
<1>5. CASE Lone(t)
  <2>1. PICK h \in Contenders(t) \ {a} : t.seats[h].streetContribution > me.streetContribution
    BY <1>1, <1>5, LoneFaces
  <2>2. t.seats[h].streetContribution \in Nat
    BY <1>3 DEF Contenders
  <2>3. t.seats[h].streetContribution >= me.streetContribution /\ t.seats[h].streetContribution > 0
    BY <1>2, <2>1, <2>2
  <2> HIDE DEF a, me
  <2> QED BY <1>4, <2>3 DEF a
<1>6. CASE ~Lone(t) /\ t.currentBet > Opening(t)
  <2>1. PICK h \in Contenders(t) \ {a} : t.seats[h].streetContribution = t.currentBet
    BY <1>1, <1>6, BetIsAnothers
  <2>2. t.seats[h].streetContribution >= me.streetContribution /\ t.seats[h].streetContribution > 0
    BY <1>2, <1>6, <2>1
  <2> HIDE DEF a, me
  <2> QED BY <1>4, <2>2 DEF a
<1>7. CASE ~Lone(t) /\ ~(t.currentBet > Opening(t))
  <2>1. PICK o \in Actionable(t) : o # a
    <3>1. Actionable(t) # {a}
      <4>1. Cardinality({a}) = 1
        BY FS_Singleton
      <4> QED BY <1>7, <4>1 DEF Lone
    <3> QED BY <1>2, <3>1
  <2>2. o \in Seats /\ CanAct(t.seats[o]) /\ o \in Contenders(t) \ {a}
    BY <2>1 DEF Actionable, Contenders, CanAct, InHand
  <2>3. ~Acted(me) /\ me.streetContribution <= Opening(t)
    BY <1>2, <1>7
  <2>4. t.seats[o].streetContribution >= me.streetContribution
    <3>1. CASE t.street = "preflop"
      BY <1>1, <1>2, <1>3, <2>1, <2>2, <2>3, <3>1, BlindIsCovered
    <3>2. CASE t.street # "preflop"
      <4>1. me.streetContribution = 0
        BY <1>2, <2>3, <3>2 DEF Opening
      <4> QED BY <1>3, <2>2, <4>1
    <3> QED BY <3>1, <3>2
  <2> HIDE DEF a, me
  <2> QED BY <1>4, <2>2, <2>4 DEF a
<1> QED BY <1>5, <1>6, <1>7

\* Whatever the actor does, the highest contribution stays with a seat that
\* is in the hand.
LEMMA TopStaysInHand ==
  ASSUME NEW t \in TableRecords, InPlay(t), Stakes(t), NEW action,
         ActionAccepted(t, t.actor, action)
  PROVE  TopInHand(BettingTransition(t, action).seats)
<1> DEFINE u == BettingTransition(t, action)
           a == t.actor
<1>1. BettingOpen(t) /\ TopInHand(t.seats)
  BY DEF Stakes, StakesSound
<1>2. /\ a \in Seats /\ u \in TableRecords /\ \A s \in Seats \ {a} : u.seats[s] = t.seats[s]
  BY <1>1, ActorFacts, ActionTaken
<1>3. /\ action.type = "fold" => Delta(t, action) = 0
      /\ action.type # "fold" => InHand(u.seats[a])
      /\ u.seats[a].totalContribution = t.seats[a].totalContribution + Delta(t, action)
  BY <1>1, ActorAfter
<1>4. \A s \in Seats : /\ Paying(u.seats, s) \in Nat /\ Paying(t.seats, s) \in Nat
                       /\ Paying(u.seats, s) >= Paying(t.seats, s)
  BY <1>1, ChipsGoIn
<1>5. PICK c \in Contenders(t) \ {a} : Paying(t.seats, c) >= Paying(t.seats, a)
  BY ActorIsCovered
<1> HIDE DEF u, a
<1>6. \A s \in Seats \ {a} : Paying(u.seats, s) = Paying(t.seats, s)
  BY <1>2 DEF Paying
<1>7. ASSUME NEW s \in Seats
      PROVE  \E h \in Seats : InHand(u.seats[h]) /\ Paying(u.seats, h) >= Paying(u.seats, s)
  <2>1. CASE s = a /\ action.type # "fold"
    BY <1>3, <1>4, <2>1
  <2>2. CASE s = a /\ action.type = "fold"
    <3>1. Paying(u.seats, a) = Paying(t.seats, a)
      BY <1>2, <1>3, <1>4, <2>2 DEF Paying
    <3>2. c \in Seats /\ InHand(u.seats[c]) /\ Paying(u.seats, c) >= Paying(u.seats, a)
      BY <1>2, <1>5, <1>6, <3>1 DEF Contenders
    <3> QED BY <2>2, <3>2
  <2>3. CASE s # a
    <3>1. PICK h \in Seats : InHand(t.seats[h]) /\ Paying(t.seats, h) >= Paying(t.seats, s)
      BY <1>1 DEF TopInHand
    <3>2. CASE h # a
      BY <1>2, <1>6, <2>3, <3>1, <3>2
    <3>3. CASE h = a
      <4>1. c \in Seats /\ c # a /\ InHand(u.seats[c])
        BY <1>2, <1>5 DEF Contenders
      <4>2. Paying(u.seats, c) >= Paying(u.seats, s)
        BY <1>4, <1>5, <1>6, <2>3, <3>1, <3>3, <4>1
      <4> QED BY <4>1, <4>2
    <3> QED BY <3>2, <3>3
  <2> QED BY <2>1, <2>2, <2>3
<1> QED BY <1>7 DEF TopInHand, u

\* Every action keeps the stakes sound, and has its seat's first turn.
LEMMA StakesKept ==
  ASSUME NEW t \in TableRecords, InPlay(t), Stakes(t), NEW action,
         ActionAccepted(t, t.actor, action)
  PROVE  LET u == BettingTransition(t, action)
         IN  /\ StakesSound(u)
             /\ Waiting(u) = Waiting(t) \ {t.actor}
             /\ \A s \in Actionable(u) : s \in Actionable(t)
<1> DEFINE u == BettingTransition(t, action)
           a == t.actor
<1>1. /\ BettingOpen(t) /\ BasesSound(t) /\ BetMade(t) /\ LevelsSound(t) /\ BlindsSound(t)
      /\ TwoPaid(t.seats)
  BY DEF Stakes, StakesSound
<1>2. /\ a \in Seats /\ CanAct(t.seats[a]) /\ u \in TableRecords
      /\ u.street = t.street /\ u.button = t.button
      /\ \A s \in Seats \ {a} : u.seats[s] = t.seats[s]
      /\ u.currentBet >= t.currentBet /\ u.seats[a].betLevel = u.currentBet
  BY <1>1, ActorFacts, ActionTaken DEF CanAct
<1>3. /\ u.currentBet \in Nat /\ t.currentBet \in Nat
      /\ \A s \in Seats : Base(t.seats[s]) \in Int
  BY <1>2 DEF TableRecords, SeatRecords, Base
<1>4. /\ \A s \in Seats : Base(u.seats[s]) = Base(t.seats[s])
      /\ \A s \in Seats : TopBase(u.seats, s) <=> TopBase(t.seats, s)
      /\ TwoPaid(u.seats)
      /\ SharedBase(t.seats) => SharedBase(u.seats)
  BY <1>1, ChipsGoIn
<1>5. BetMade(u)
  BY <1>1, BetStaysMade
<1>6. TopInHand(u.seats)
  BY TopStaysInHand
<1> HIDE DEF u, a
<1>7. BasesSound(u)
  <2>1. \A s \in Seats : CanAct(u.seats[s]) \/ u.seats[s].streetContribution > 0 => TopBase(u.seats, s)
    <3> SUFFICES ASSUME NEW s \in Seats, CanAct(u.seats[s]) \/ u.seats[s].streetContribution > 0
                 PROVE  TopBase(t.seats, s)
      BY <1>4
    <3>1. CASE s = a
      BY <1>1, <1>2, <3>1 DEF BasesSound
    <3>2. CASE s # a
      BY <1>1, <1>2, <3>2 DEF BasesSound
    <3> QED BY <3>1, <3>2
  <2> QED BY <1>1, <1>2, <1>4, <2>1 DEF BasesSound
<1>8. Opening(u) = Opening(t) /\ Opening(t) \in Nat
  BY <1>2 DEF Opening, BigBlind
<1>9. Acted(u.seats[a])
  BY <1>2, <1>3 DEF Acted, NotActed
<1>10. LevelsSound(u)
  <2>1. t.currentBet >= Opening(t) /\ u.currentBet >= Opening(u)
    BY <1>1, <1>2, <1>3, <1>8 DEF LevelsSound
  <2>2. \A s \in Seats : IF Acted(u.seats[s]) THEN u.seats[s].betLevel >= Opening(u)
                         ELSE u.seats[s].streetContribution <= Opening(u)
    <3> SUFFICES ASSUME NEW s \in Seats
                 PROVE  IF Acted(u.seats[s]) THEN u.seats[s].betLevel >= Opening(u)
                        ELSE u.seats[s].streetContribution <= Opening(u)
      OBVIOUS
    <3>1. CASE s = a
      BY <1>2, <1>9, <2>1, <3>1
    <3>2. CASE s # a
      BY <1>1, <1>2, <1>8, <3>2 DEF LevelsSound
    <3> QED BY <3>1, <3>2
  <2> QED BY <2>1, <2>2 DEF LevelsSound
<1>11. BlindsSound(u)
  <2>1. \A s \in Seats : ~Acted(u.seats[s]) => u.seats[s] = t.seats[s]
    BY <1>2, <1>9
  <2> QED BY <1>1, <1>2, <2>1 DEF BlindsSound
<1>12. Waiting(u) = Waiting(t) \ {a}
  <2>1. \A s \in Seats : s \in Waiting(u) <=> s \in Waiting(t) /\ s # a
    <3> SUFFICES ASSUME NEW s \in Seats
                 PROVE  s \in Waiting(u) <=> s \in Waiting(t) /\ s # a
      OBVIOUS
    <3>1. CASE s = a
      BY <1>9, <3>1 DEF Waiting
    <3>2. CASE s # a
      <4>1. u.seats[s] = t.seats[s]
        BY <1>2, <3>2
      <4> QED BY <3>2, <4>1 DEF Waiting, Actionable
    <3> QED BY <3>1, <3>2
  <2>2. \A s \in Waiting(u) : s \in Seats
    BY DEF Waiting, Actionable
  <2>3. \A s \in Waiting(t) : s \in Seats
    BY DEF Waiting, Actionable
  <2> QED BY <2>1, <2>2, <2>3
<1>13. \A s \in Actionable(u) : s \in Actionable(t)
  <2> SUFFICES ASSUME NEW s \in Actionable(u) PROVE s \in Actionable(t)
    OBVIOUS
  <2>1. s \in Seats /\ CanAct(u.seats[s])
    BY DEF Actionable
  <2> QED BY <1>2, <2>1 DEF Actionable
<1>14. StakesSound(u)
  BY <1>4, <1>5, <1>6, <1>7, <1>10, <1>11 DEF StakesSound
<1> QED BY <1>12, <1>13, <1>14 DEF u, a

\* When the betting goes on along the street, goes on on the next one, or ends.
LEMMA ContinuationIs ==
  ASSUME NEW u \in TableRecords, AfterAction(u), TopInHand(u.seats)
  PROVE  LET n == Cardinality(Contenders(u))
             A == Actionable(u)
             c == Continuation(u)
         IN  \/ c = "complete" /\ n = 1
             \/ c = "showdown" /\ n >= 2
             \/ c = "sameStreet" /\ n >= 2 /\ Lone(u) /\ LoneActorMustMatch(u)
             \/ c = "sameStreet" /\ n >= 2 /\ ~Lone(u) /\ Cardinality(A) > 1 /\ Owing(u) # {}
             \/ c = "nextStreet" /\ n >= 2 /\ ~Lone(u) /\ Cardinality(A) > 1 /\ Owing(u) = {}
<1> DEFINE A == Actionable(u)
           C == Contenders(u)
           c == Continuation(u)
<1>1. /\ IsFiniteSet(A) /\ Cardinality(A) \in Nat
      /\ IsFiniteSet(C) /\ Cardinality(C) \in Nat
  BY SeatsFinite DEF Actionable, Contenders
<1>2. (A = {}) <=> (Cardinality(A) = 0)
  BY <1>1, FS_EmptySet
<1>3. Cardinality(C) # 0
  <2>1. u.actor \in Seats
    BY DEF AfterAction
  <2>2. C # {}
    BY <2>1 DEF TopInHand, Contenders
  <2> QED BY <1>1, <2>2, FS_EmptySet
<1>4. Cardinality(C) = 1 \/ Cardinality(C) >= 2
  BY <1>1, <1>3
<1>5. CASE Cardinality(C) = 1
  <2>1. c = "complete"
    BY <1>5 DEF Continuation
  <2> QED BY <1>5, <2>1
<1>6. CASE Cardinality(C) >= 2
  <2>1. Cardinality(C) # 1
    BY <1>6
  <2>2. CASE A = {}
    <3>1. c = "showdown"
      BY <1>2, <2>1, <2>2 DEF Continuation
    <3> QED BY <1>6, <3>1
  <2>3. CASE A # {} /\ Cardinality(A) = 1
    BY <1>6, <2>1, <2>3 DEF Continuation, Lone
  <2>4. CASE A # {} /\ Cardinality(A) > 1
    <3>1. Cardinality(A) # 1
      BY <1>1, <2>4
    <3>2. CASE Owing(u) # {}
      BY <1>6, <2>1, <2>4, <3>1, <3>2 DEF Continuation, Lone
    <3>3. CASE Owing(u) = {}
      BY <1>6, <2>1, <2>4, <3>1, <3>3 DEF Continuation, Lone
    <3> QED BY <3>2, <3>3
  <2>5. A = {} \/ Cardinality(A) = 1 \/ Cardinality(A) > 1
    BY <1>1, <1>2
  <2> QED BY <2>2, <2>3, <2>4, <2>5
<1> QED BY <1>4, <1>5, <1>6

\* A hand that has ended can be settled.
LEMMA EndCanBeSettled ==
  ASSUME NEW u \in TableRecords, AfterAction(u), StakesSound(u), Continuation(u) \in EndStreets
  PROVE  LET v == Continued(u)
         IN  Settleable(v) /\ TwoPaid(v.seats) /\ v.actor = NoSeat
<1> DEFINE v == Continued(u)
           c == Continuation(u)
<1>1. TopInHand(u.seats) /\ SharedBase(u.seats) /\ TwoPaid(u.seats)
  BY DEF StakesSound, BasesSound
<1>2. \/ c = "complete" /\ Cardinality(Contenders(u)) = 1
      \/ c = "showdown" /\ Cardinality(Contenders(u)) >= 2
  BY <1>1, ContinuationIs DEF EndStreets
<1>3. v = TerminalHand(u, c)
  BY DEF Continued, EndStreets
<1>4. /\ v \in TableRecords /\ v.pot = u.pot /\ Totals(v) = Totals(u)
      /\ \A s \in Seats : v.seats[s].status = u.seats[s].status
  BY HandGoesOn
<1>5. u.pot > 0 /\ u.pot = ChipSum(Totals(u)) /\ \A s \in Seats : SeatSound(u, u.seats[s])
  BY DEF AfterAction
<1>6. /\ v.street = c /\ v.actor = NoSeat /\ (c = "showdown" => v.board = 5)
      /\ \A s \in Seats : v.seats[s] = [u.seats[s] EXCEPT !.betLevel = NotActed]
  BY <1>3 DEF TerminalHand, TableRecords
<1> HIDE DEF v, c
<1>7. \A s \in Seats : /\ v.seats[s].streetContribution = u.seats[s].streetContribution
                       /\ v.seats[s].totalContribution = u.seats[s].totalContribution
  BY <1>6 DEF TableRecords, SeatRecords
<1>8. \A s \in Seats : /\ Base(v.seats[s]) = Base(u.seats[s])
                       /\ Paying(v.seats, s) = Paying(u.seats, s)
                       /\ InHand(v.seats[s]) = InHand(u.seats[s])
  BY <1>4, <1>7 DEF Base, Paying, InHand
<1>9. TopInHand(v.seats) /\ TwoPaid(v.seats)
  BY <1>1, <1>8 DEF TopInHand, TwoPaid
<1>10. SharedBase(v.seats)
  <2>1. \A s \in Seats : TopBase(v.seats, s) <=> TopBase(u.seats, s)
    BY <1>8 DEF TopBase
  <2> QED BY <1>1, <2>1 DEF SharedBase
<1>11. StreetInTotal(v.seats)
  BY <1>5, <1>7 DEF StreetInTotal, SeatSound
<1>12. Contenders(v) = Contenders(u)
  BY <1>8 DEF Contenders
<1>13. IF v.street = "showdown" THEN v.board = 5 /\ Cardinality(Contenders(v)) >= 2
       ELSE Cardinality(Contenders(v)) = 1
  BY <1>2, <1>6, <1>12
<1>14. v.street \in EndStreets /\ v.pot = ChipSum(Totals(v)) /\ v.pot > 0
  BY <1>4, <1>5, <1>6 DEF c
<1>15. Settleable(v)
  BY <1>4, <1>9, <1>10, <1>11, <1>13, <1>14, CanBeSettled
<1> QED BY <1>6, <1>9, <1>15 DEF v

\* On a new street nobody has acted, and whoever can act has matched
\* everything there is.
LEMMA NextStreetOpens ==
  ASSUME NEW u \in TableRecords, AfterAction(u), StakesSound(u), Continuation(u) = "nextStreet"
  PROVE  Stakes(Continued(u))
<1> DEFINE v == Continued(u)
           seats == [s \in Seats |-> [u.seats[s] EXCEPT !.streetContribution = 0,
                                                        !.betLevel = NotActed]]
<1>1. TopInHand(u.seats) /\ TwoPaid(u.seats) /\ BasesSound(u)
  BY DEF StakesSound
<1>2. /\ Cardinality(Contenders(u)) >= 2 /\ ~Lone(u)
      /\ Cardinality(Actionable(u)) > 1 /\ Owing(u) = {}
  BY <1>1, ContinuationIs
<1>3. u.street \in {"preflop", "flop", "turn"}
  BY WhoIsNext DEF EndStreets
<1>4. v = AdvancedStreet(u)
  BY DEF Continued, EndStreets
<1>5. /\ v.street = NextStreetOf(u.street) /\ v.currentBet = 0 /\ v.seats = seats
  BY <1>4 DEF AdvancedStreet, TableRecords
<1>6. v.street # "preflop"
  BY <1>3, <1>5 DEF NextStreetOf
<1>7. \A s \in Seats : /\ seats[s].status = u.seats[s].status
                       /\ seats[s].stack = u.seats[s].stack
                       /\ seats[s].streetContribution = 0
                       /\ seats[s].totalContribution = u.seats[s].totalContribution
                       /\ seats[s].betLevel = NotActed
  BY DEF TableRecords, SeatRecords
<1> HIDE DEF v, seats
<1>8. \A s \in Seats : /\ u.seats[s].totalContribution \in Nat
                       /\ u.seats[s].streetContribution \in Nat
                       /\ Paying(u.seats, s) = Base(u.seats[s]) + u.seats[s].streetContribution
                       /\ Base(u.seats[s]) \in Int
                       /\ Base(seats[s]) = Paying(u.seats, s)
                       /\ Paying(seats, s) = Paying(u.seats, s)
                       /\ InHand(seats[s]) = InHand(u.seats[s])
                       /\ CanAct(seats[s]) = CanAct(u.seats[s])
  <2>1. \A s \in Seats : /\ u.seats[s].totalContribution \in Nat
                         /\ u.seats[s].streetContribution \in Nat
    BY DEF TableRecords, SeatRecords
  <2> QED BY <1>7, <2>1 DEF Base, Paying, InHand, CanAct
<1>9. ASSUME NEW s \in Seats, CanAct(u.seats[s]) PROVE TopBase(seats, s)
  <2>1. ~StillOwesAction(u, s) /\ SeatSound(u, u.seats[s])
    BY <1>2 DEF Owing, AfterAction
  <2>2. ~(u.seats[s].streetContribution < u.currentBet) /\ u.currentBet \in Nat
    BY <1>9, <2>1 DEF StillOwesAction, TableRecords
  <2>3. TopBase(u.seats, s)
    BY <1>1, <1>9 DEF BasesSound
  <2> SUFFICES ASSUME NEW o \in Seats PROVE Base(seats[o]) <= Base(seats[s])
    BY DEF TopBase
  <2>4. u.seats[o].streetContribution <= u.currentBet
    BY DEF AfterAction, SeatSound
  <2>5. Base(u.seats[o]) <= Base(u.seats[s])
    BY <2>3 DEF TopBase
  <2>6. Paying(u.seats, o) <= Paying(u.seats, s)
    BY <1>8, <2>2, <2>4, <2>5
  <2> QED BY <1>8, <2>6
<1>10. Actionable(v) = Actionable(u) /\ Contenders(v) = Contenders(u)
  BY <1>5, <1>8 DEF Actionable, Contenders
<1>11. SharedBase(seats)
  <2>1. PICK s \in Actionable(u), o \in Actionable(u) : s # o
    <3>1. IsFiniteSet(Actionable(u)) /\ Actionable(u) # {}
      <4>1. Cardinality({}) = 0 /\ ~(0 > 1)
        BY FS_EmptySet
      <4> QED BY <1>2, <4>1, SeatsFinite DEF Actionable
    <3>2. PICK s : s \in Actionable(u)
      BY <3>1
    <3>3. Actionable(u) # {s}
      BY <1>2, FS_Singleton DEF Lone
    <3> QED BY <3>2, <3>3
  <2>2. s \in Seats /\ o \in Seats /\ CanAct(u.seats[s]) /\ CanAct(u.seats[o])
    BY DEF Actionable
  <2> QED BY <1>9, <2>1, <2>2 DEF SharedBase
<1>12. BasesSound(v)
  <2>1. \A s \in Seats : CanAct(seats[s]) \/ seats[s].streetContribution > 0 => TopBase(seats, s)
    BY <1>7, <1>8, <1>9
  <2> QED BY <1>5, <1>6, <1>11, <2>1 DEF BasesSound
<1>13. Opening(v) = 0
  BY <1>6 DEF Opening
<1>14. BetMade(v)
  BY <1>5, <1>13 DEF BetMade
<1>15. LevelsSound(v)
  BY <1>5, <1>7, <1>13 DEF LevelsSound, Acted
<1>16. BlindsSound(v) /\ InOrder(v)
  BY <1>6 DEF BlindsSound, InOrder
<1>17. TwoPaid(seats) /\ TopInHand(seats)
  BY <1>1, <1>8 DEF TwoPaid, TopInHand
<1>18. BettingOpen(v)
  <2>1. Actionable(u) # {}
    BY <1>2, FS_EmptySet
  <2> QED BY <1>2, <1>10, <2>1 DEF BettingOpen, Lone
<1>19. StakesSound(v)
  BY <1>5, <1>12, <1>14, <1>15, <1>16, <1>17 DEF StakesSound
<1> QED BY <1>16, <1>18, <1>19 DEF Stakes, v

\* The last seat that can act has something to call when it is asked.
LEMMA LoneIsOpen ==
  ASSUME NEW v \in TableRecords, Actionable(v) = {v.actor}, v.actor \in Seats,
         \A s \in Seats : SeatSound(v, v.seats[s]),
         NEW h \in Contenders(v) \ {v.actor},
         v.seats[h].streetContribution > v.seats[v.actor].streetContribution
  PROVE  AmountToCall(v) > 0
<1> DEFINE me == v.seats[v.actor]
           others == Contenders(v) \ {v.actor}
           S == {v.seats[s].streetContribution : s \in others}
<1>1. v.currentBet \in Nat /\ me.streetContribution \in Nat
  BY DEF TableRecords, SeatRecords
<1>2. \A o \in others : /\ v.seats[o].streetContribution \in Nat
                        /\ v.seats[o].streetContribution <= v.currentBet
  BY DEF Contenders, SeatSound, TableRecords, SeatRecords
<1>3. Max(S) \in S /\ \A k \in S : k <= Max(S)
  <2>1. S \in SUBSET Nat /\ S # {} /\ \A k \in S : k <= v.currentBet
    BY <1>2
  <2> HIDE DEF S
  <2> QED BY <1>1, <2>1, Highest
<1>4. Max(S) \in Nat
  BY <1>2, <1>3
<1>5. v.seats[h].streetContribution <= Max(S) /\ v.seats[h].streetContribution \in Nat
  BY <1>2, <1>3
<1>6. AmountToCall(v) = IF Max(S) > me.streetContribution THEN Max(S) - me.streetContribution ELSE 0
  <2>1. Cardinality(Actionable(v)) = 1
    BY FS_Singleton
  <2> QED BY <2>1 DEF AmountToCall
<1> HIDE DEF S, others
<1> QED BY <1>1, <1>4, <1>5, <1>6

\* While the street goes on the first turns keep their order.
LEMMA TurnsKeepOrder ==
  ASSUME NEW t \in TableRecords, t.street \in ActionStreets, InPlay(t), Stakes(t), NEW action,
         ActionAccepted(t, t.actor, action),
         Continuation(BettingTransition(t, action)) = "sameStreet"
  PROVE  InOrder(Progress(t, action))
<1> DEFINE u == BettingTransition(t, action)
           v == Progress(t, action)
           a == t.actor
           n == NextResponder(u)
           b == BigBlindSeat(t.button)
<1>1. BettingOpen(t) /\ InOrder(t)
  BY DEF Stakes
<1>2. /\ u \in TableRecords /\ AfterAction(u)
      /\ u.street = t.street /\ u.button = t.button /\ u.actor = a
  BY <1>1, ActionTaken, ActionLeaves
<1>3. v = [u EXCEPT !.actor = n]
  BY DEF Progress, Continued, EndStreets
<1>4. n \in Owing(u) /\ \A s \in Seats : KeepsUp(u.seats[s])
  BY <1>2, WhoIsNext DEF EndStreets
<1>5. /\ Waiting(u) = Waiting(t) \ {a}
      /\ \A s \in Actionable(u) : s \in Actionable(t)
  BY StakesKept
<1>6. /\ u.seats[a].betLevel = u.currentBet
  BY <1>1, ActionTaken
<1>7. a \in Seats /\ b \in Seats /\ n \in Seats /\ n \in Actionable(u)
  <2>1. t.button \in Seats /\ a \in Seats
    BY DEF TableRecords, InPlay
  <2>2. b \in Seats
    BY <2>1, BlindSeats
  <2> QED BY <1>4, <2>1, <2>2 DEF Owing, StillOwesAction, Actionable
<1>8. ~Lone(u) => n = FirstClockwise(a, Owing(u))
  BY <1>2 DEF NextResponder, Lone
<1> HIDE DEF u, v, n, b, a
<1>9. /\ v.street = t.street /\ v.button = t.button /\ v.actor = n
      /\ Waiting(v) = Waiting(u) /\ Actionable(v) = Actionable(u)
  BY <1>2, <1>3 DEF TableRecords, Waiting, Actionable
<1>10. ~StillOwesAction(u, a)
  <2>1. u.currentBet \in Nat
    BY <1>2 DEF TableRecords
  <2>2. CanAct(u.seats[a]) => u.seats[a].streetContribution = u.currentBet
    BY <1>4, <1>6, <1>7, <2>1 DEF KeepsUp, NotActed
  <2> QED BY <1>6, <2>1, <2>2 DEF StillOwesAction, NotActed
<1>11. n # a
  BY <1>4, <1>10 DEF Owing
<1> SUFFICES ASSUME t.street = "preflop", NEW s \in Waiting(u)
             PROVE  /\ n \in Waiting(u) /\ Offset(b, n) <= Offset(b, s)
                    /\ \A o \in Actionable(u) \ Waiting(u) : Offset(b, o) < Offset(b, s)
  <2>1. InOrder(v) <=> (t.street = "preflop" =>
           \A s \in Waiting(u) :
              /\ n \in Waiting(u) /\ Offset(b, n) <= Offset(b, s)
              /\ \A o \in Actionable(u) \ Waiting(u) : Offset(b, o) < Offset(b, s))
    BY <1>9 DEF InOrder, b
  <2> QED BY <2>1 DEF v
<1>12. s \in Waiting(t) /\ s # a /\ s \in Seats /\ s \in Owing(u) /\ s \in Actionable(u)
  BY <1>5 DEF Waiting, Actionable, Acted, Owing, StillOwesAction
<1>13. \A x \in Waiting(t) : /\ a \in Waiting(t) /\ Offset(b, a) <= Offset(b, x)
                             /\ \A o \in Actionable(t) \ Waiting(t) : Offset(b, o) < Offset(b, x)
  BY <1>1 DEF InOrder, a, b
<1>14. \A x \in Waiting(u) : Offset(b, a) < Offset(b, x)
  <2> SUFFICES ASSUME NEW x \in Waiting(u) PROVE Offset(b, a) < Offset(b, x)
    OBVIOUS
  <2>1. x \in Waiting(t) /\ x # a /\ x \in Seats
    BY <1>5 DEF Waiting, Actionable
  <2>2. Offset(b, a) <= Offset(b, x)
    BY <1>13, <2>1
  <2>3. Offset(b, a) # Offset(b, x) /\ Offset(b, a) \in 0 .. 8 /\ Offset(b, x) \in 0 .. 8
    BY <1>7, <2>1, PlacesDiffer
  <2> QED BY <2>2, <2>3
<1>15. ASSUME NEW o \in Actionable(u) \ Waiting(u) PROVE Offset(b, o) < Offset(b, s)
  <2>1. CASE o = a
    BY <1>14, <2>1
  <2>2. CASE o # a
    <3>1. o \in Actionable(t) \ Waiting(t)
      BY <1>5, <1>15, <2>2
    <3> QED BY <1>12, <1>13, <3>1
  <2> QED BY <2>1, <2>2
<1>16. n \in Waiting(u) /\ Offset(b, n) <= Offset(b, s)
  <2>1. CASE Lone(u)
    <3>1. PICK x : Actionable(u) = {x}
      <4>1. IsFiniteSet(Actionable(u))
        BY SeatsFinite DEF Actionable
      <4> QED BY <2>1, <4>1, FS_Singleton DEF Lone
    <3>2. n = s
      BY <1>7, <1>12, <3>1
    <3>3. Offset(b, s) \in 0 .. 8
      BY <1>7, <1>11, <1>12, <3>2, PlacesDiffer
    <3> QED BY <3>2, <3>3
  <2>2. CASE ~Lone(u)
    <3>1. Owing(u) \in SUBSET Seats /\ Owing(u) # {}
      BY <1>12 DEF Owing
    <3>2. n = FirstClockwise(a, Owing(u))
      BY <1>8, <2>2
    <3>3. Offset(a, n) <= Offset(a, s)
      BY <1>7, <1>12, <3>1, <3>2, FirstIsNearest
    <3>4. Offset(b, a) < Offset(b, s)
      BY <1>14
    <3>5. /\ Offset(b, n) < Offset(b, a) => Offset(a, s) < Offset(a, n)
          /\ Offset(b, a) < Offset(b, n) /\ Offset(a, n) <= Offset(a, s) => Offset(b, n) <= Offset(b, s)
      BY <1>7, <1>12, <3>4, RoundTheTable
    <3>6. n \in Waiting(u)
      <4> SUFFICES ASSUME n \notin Waiting(u) PROVE FALSE
        OBVIOUS
      <4>1. n \in Actionable(t) \ Waiting(t)
        BY <1>5, <1>7, <1>11
      <4>2. a \in Waiting(t)
        BY <1>12, <1>13
      <4>3. Offset(b, n) < Offset(b, a)
        BY <1>13, <4>1, <4>2
      <4>4. Offset(a, s) < Offset(a, n)
        BY <3>5, <4>3
      <4>5. /\ Offset(a, s) \in 0 .. 8 /\ Offset(a, n) \in 0 .. 8
        BY <1>7, <1>11, <1>12, PlacesDiffer
      <4> QED BY <3>3, <4>4, <4>5
    <3>7. Offset(b, a) < Offset(b, n)
      BY <1>14, <3>6
    <3> QED BY <3>3, <3>5, <3>6, <3>7
  <2> QED BY <2>1, <2>2
<1> QED BY <1>15, <1>16

LEMMA SameStreetGoesOn ==
  ASSUME NEW t \in TableRecords, t.street \in ActionStreets, InPlay(t), Stakes(t), NEW action,
         ActionAccepted(t, t.actor, action),
         Continuation(BettingTransition(t, action)) = "sameStreet"
  PROVE  Stakes(Progress(t, action))
<1> DEFINE u == BettingTransition(t, action)
           v == Progress(t, action)
           n == NextResponder(u)
<1>1. BettingOpen(t)
  BY DEF Stakes
<1>2. u \in TableRecords /\ AfterAction(u)
  BY <1>1, ActionTaken, ActionLeaves
<1>3. StakesSound(u) /\ TopInHand(u.seats)
  BY StakesKept DEF StakesSound
<1>4. InOrder(v)
  BY TurnsKeepOrder
<1>5. v = [u EXCEPT !.actor = n]
  BY DEF Progress, Continued, EndStreets
<1>6. n \in Seats /\ n \in Actionable(u)
  <2>1. n \in Owing(u)
    BY <1>2, WhoIsNext DEF EndStreets
  <2> QED BY <2>1 DEF Owing, StillOwesAction, Actionable
<1>7. /\ Cardinality(Contenders(u)) >= 2
      /\ Lone(u) => LoneActorMustMatch(u)
  BY <1>2, <1>3, ContinuationIs
<1> HIDE DEF u, v, n
<1>8. /\ v \in TableRecords /\ v.street = u.street /\ v.button = u.button /\ v.actor = n
      /\ v.seats = u.seats /\ v.currentBet = u.currentBet
  BY <1>2, <1>5, <1>6 DEF TableRecords
<1>9. Actionable(v) = Actionable(u) /\ Contenders(v) = Contenders(u) /\ Opening(v) = Opening(u)
  BY <1>8 DEF Actionable, Contenders, Opening
<1>10. StakesSound(v)
  <2>1. BasesSound(v) /\ BetMade(v) /\ LevelsSound(v) /\ BlindsSound(v)
    BY <1>3, <1>8, <1>9 DEF StakesSound, BasesSound, BetMade, LevelsSound, BlindsSound
  <2> QED BY <1>3, <1>8, <2>1 DEF StakesSound
<1>11. ASSUME Lone(v) PROVE AmountToCall(v) > 0
  <2>1. Lone(u)
    BY <1>9, <1>11 DEF Lone
  <2>2. PICK s \in Actionable(u) : \E h \in Contenders(u) \ {s} :
           u.seats[h].streetContribution > u.seats[s].streetContribution
    BY <1>7, <2>1 DEF LoneActorMustMatch
  <2>3. Actionable(u) = {n}
    <3>1. IsFiniteSet(Actionable(u))
      BY SeatsFinite DEF Actionable
    <3>2. PICK x : Actionable(u) = {x}
      BY <2>1, <3>1, FS_Singleton DEF Lone
    <3> QED BY <1>6, <3>2
  <2>4. PICK h \in Contenders(u) \ {n} :
           u.seats[h].streetContribution > u.seats[n].streetContribution
    BY <2>2, <2>3
  <2>5. \A o \in Seats : SeatSound(v, v.seats[o])
    BY <1>2, <1>8 DEF AfterAction, SeatSound
  <2>6. /\ h \in Contenders(v) \ {v.actor}
        /\ v.seats[h].streetContribution > v.seats[v.actor].streetContribution
        /\ Actionable(v) = {v.actor} /\ v.actor \in Seats
    BY <1>6, <1>8, <1>9, <2>2, <2>3, <2>4
  <2> QED BY <1>8, <2>5, <2>6, LoneIsOpen
<1>12. BettingOpen(v)
  BY <1>6, <1>7, <1>9, <1>11 DEF BettingOpen, Lone
<1> QED BY <1>4, <1>10, <1>12 DEF Stakes, v

\* What a legal action makes of a table: the hand goes on with sound stakes,
\* or it has ended and can be settled.
LEMMA PlayIsSound ==
  ASSUME NEW t \in TableRecords, t.street \in ActionStreets, InPlay(t), Stakes(t), NEW action,
         ActionAccepted(t, t.actor, action)
  PROVE  LET v == Progress(t, action)
         IN  \/ v.street \in ActionStreets /\ Stakes(v)
             \/ /\ v.street \in EndStreets /\ Settleable(v)
                /\ TwoPaid(v.seats) /\ v.actor = NoSeat
<1> DEFINE u == BettingTransition(t, action)
           v == Progress(t, action)
           c == Continuation(u)
<1>1. BettingOpen(t)
  BY DEF Stakes
<1>2. u \in TableRecords /\ AfterAction(u) /\ u.street = t.street
  BY <1>1, ActionTaken, ActionLeaves
<1>3. StakesSound(u)
  BY StakesKept
<1>4. v = Continued(u)
  BY DEF Progress
<1>5. c \in EndStreets \/ c = "sameStreet" \/ c = "nextStreet"
  BY <1>2, WhoIsNext
<1>6. v.street \in ActionStreets \/ v.street \in EndStreets
  BY <1>1, HandProgress DEF InPlay
<1>7. CASE c \in EndStreets
  <2>1. Settleable(v) /\ TwoPaid(v.seats) /\ v.actor = NoSeat
    BY <1>2, <1>3, <1>4, <1>7, EndCanBeSettled
  <2>2. v.street \in EndStreets
    BY <2>1 DEF Settleable
  <2> QED BY <2>1, <2>2
<1>8. CASE c = "sameStreet" \/ c = "nextStreet"
  <2>1. Stakes(v)
    BY <1>2, <1>3, <1>4, <1>8, NextStreetOpens, SameStreetGoesOn
  <2>2. v.street \in ActionStreets
    <3>1. CASE c = "sameStreet"
      <4>1. v = [u EXCEPT !.actor = NextResponder(u)]
        BY <1>4, <3>1 DEF Continued, EndStreets
      <4>2. v.street = u.street
        BY <1>2, <4>1 DEF TableRecords
      <4> QED BY <1>2, <4>2
    <3>2. CASE c = "nextStreet"
      <4>1. v = AdvancedStreet(u)
        BY <1>4, <3>2 DEF Continued, EndStreets
      <4>2. v.street = NextStreetOf(u.street)
        BY <1>2, <4>1 DEF TableRecords, AdvancedStreet
      <4>3. u.street \in {"preflop", "flop", "turn"}
        BY <1>2, <3>2, WhoIsNext DEF EndStreets
      <4> QED BY <4>2, <4>3 DEF NextStreetOf, ActionStreets
    <3> QED BY <1>8, <3>1, <3>2
  <2> QED BY <2>1, <2>2
<1> QED BY <1>5, <1>7, <1>8

\* A seat that has posted its blind and can still act has posted it in full.
LEMMA BlindPaid ==
  ASSUME NEW seat \in SeatRecords, seat.status = "active", seat.stack > 0,
         seat.streetContribution = 0, seat.totalContribution = 0,
         NEW nominal \in {SmallBlind, BigBlind}
  PROVE  LET u == PostBlind(seat, nominal)
         IN  /\ u.streetContribution \in Nat /\ u.streetContribution <= nominal
             /\ CanAct(u) => u.streetContribution = nominal
             /\ u.totalContribution = u.streetContribution /\ u.totalContribution > 0
             /\ InHand(u) /\ u.betLevel = seat.betLevel
<1> DEFINE paid == IF seat.stack < nominal THEN seat.stack ELSE nominal
           u == PostBlind(seat, nominal)
<1>1. /\ seat.stack \in Nat /\ nominal \in Nat /\ nominal > 0
      /\ seat = [status |-> seat.status, stack |-> seat.stack,
                 streetContribution |-> seat.streetContribution,
                 totalContribution |-> seat.totalContribution, betLevel |-> seat.betLevel]
  BY DEF SeatRecords, SmallBlind, BigBlind
<1>2. /\ u.stack = seat.stack - paid /\ u.streetContribution = 0 + paid
      /\ u.totalContribution = 0 + paid /\ u.betLevel = seat.betLevel
      /\ u.status = IF paid = seat.stack THEN "allIn" ELSE "active"
  BY <1>1 DEF PostBlind
<1>3. paid \in Nat /\ paid > 0 /\ paid <= nominal /\ (paid # nominal => paid = seat.stack)
  BY <1>1
<1> HIDE DEF u, paid
<1>4. CanAct(u) => paid # seat.stack
  BY <1>2 DEF CanAct
<1>5. InHand(u)
  BY <1>2 DEF InHand
<1> QED BY <1>2, <1>3, <1>4, <1>5 DEF u

\* A hand starts with sound stakes.
LEMMA HandStartsSound ==
  ASSUME NEW t \in TableRecords, AtRest(t), ReadySeats(t), NEW n \in Nat
  PROVE  Stakes(StartedHand(t, n))
<1> DEFINE v == StartedHand(t, n)
           button == ButtonForHand(t.button, n)
           sb == SmallBlindSeat(button)
           bb == BigBlindSeat(button)
           fresh == [s \in Seats |-> [t.seats[s] EXCEPT !.betLevel = NotActed]]
           seats == PostBlinds(fresh, button)
<1>1. button \in Seats
  <2>1. t.button \in Seats /\ Seats # {} /\ Seats \in SUBSET Seats
    BY SeatsLeft DEF TableRecords
  <2>2. FirstClockwise(t.button, Seats) \in Seats
    BY <2>1, FirstIn
  <2> QED BY <2>1, <2>2 DEF ButtonForHand
<1>2. sb \in Seats /\ bb \in Seats /\ sb # bb
  <2> HIDE DEF button
  <2> QED BY <1>1, BlindSeats
<1>3. \A s \in Seats : /\ t.seats[s] \in SeatRecords /\ t.seats[s].status = "active"
                       /\ t.seats[s].stack > 0 /\ t.seats[s].streetContribution = 0
                       /\ t.seats[s].totalContribution = 0
  BY DEF ReadySeats, AtRest, TableRecords
<1>4. \A s \in Seats : /\ fresh[s] \in SeatRecords /\ fresh[s].status = "active"
                       /\ fresh[s].stack > 0
                       /\ fresh[s].streetContribution = 0
                       /\ fresh[s].totalContribution = 0 /\ fresh[s].betLevel = NotActed
  BY <1>3 DEF SeatRecords
<1>5. DOMAIN fresh = Seats
  OBVIOUS
<1>6. seats = [fresh EXCEPT ![sb] = PostBlind(@, SmallBlind), ![bb] = PostBlind(@, BigBlind)]
  BY DEF PostBlinds
<1>7. /\ v.street = "preflop" /\ v.button = button /\ v.currentBet = BigBlind /\ v.seats = seats
      /\ v.actor = FirstClockwise(bb, {s \in Seats : CanAct(seats[s])})
  BY DEF StartedHand
<1> HIDE DEF v, button, sb, bb, fresh, seats
<1>8. /\ seats[sb] = PostBlind(fresh[sb], SmallBlind) /\ seats[bb] = PostBlind(fresh[bb], BigBlind)
      /\ \A s \in Seats \ {sb, bb} : seats[s] = fresh[s]
  BY <1>2, <1>5, <1>6
<1>9. /\ seats[sb].streetContribution \in Nat /\ seats[sb].streetContribution <= SmallBlind
      /\ seats[sb].totalContribution = seats[sb].streetContribution
      /\ seats[sb].totalContribution > 0
      /\ InHand(seats[sb]) /\ seats[sb].betLevel = NotActed
  <2>1. PICK x : x = fresh[sb]
    OBVIOUS
  <2>2. /\ x \in SeatRecords /\ x.status = "active" /\ x.stack > 0
        /\ x.streetContribution = 0 /\ x.totalContribution = 0 /\ x.betLevel = NotActed
    BY <1>2, <1>4, <2>1
  <2>3. SmallBlind \in {SmallBlind, BigBlind}
    OBVIOUS
  <2>4. LET u == PostBlind(x, SmallBlind)
        IN  /\ u.streetContribution \in Nat /\ u.streetContribution <= SmallBlind
            /\ u.totalContribution = u.streetContribution /\ u.totalContribution > 0
            /\ InHand(u) /\ u.betLevel = x.betLevel
    BY <2>2, <2>3, BlindPaid
  <2>5. seats[sb] = PostBlind(x, SmallBlind)
    BY <1>8, <2>1
  <2> QED BY <2>2, <2>4, <2>5
<1>10. /\ seats[bb].streetContribution \in Nat /\ seats[bb].streetContribution <= BigBlind
       /\ CanAct(seats[bb]) => seats[bb].streetContribution = BigBlind
       /\ seats[bb].totalContribution = seats[bb].streetContribution
       /\ seats[bb].totalContribution > 0
       /\ InHand(seats[bb]) /\ seats[bb].betLevel = NotActed
  <2>1. PICK x : x = fresh[bb]
    OBVIOUS
  <2>2. /\ x \in SeatRecords /\ x.status = "active" /\ x.stack > 0
        /\ x.streetContribution = 0 /\ x.totalContribution = 0 /\ x.betLevel = NotActed
    BY <1>2, <1>4, <2>1
  <2>3. BigBlind \in {SmallBlind, BigBlind}
    OBVIOUS
  <2>4. LET u == PostBlind(x, BigBlind)
        IN  /\ u.streetContribution \in Nat /\ u.streetContribution <= BigBlind
            /\ CanAct(u) => u.streetContribution = BigBlind
            /\ u.totalContribution = u.streetContribution /\ u.totalContribution > 0
            /\ InHand(u) /\ u.betLevel = x.betLevel
    BY <2>2, <2>3, BlindPaid
  <2>5. seats[bb] = PostBlind(x, BigBlind)
    BY <1>8, <2>1
  <2> QED BY <2>2, <2>4, <2>5
<1>11. \A s \in Seats \ {sb, bb} :
          /\ seats[s].streetContribution = 0 /\ seats[s].totalContribution = 0
          /\ CanAct(seats[s]) /\ InHand(seats[s]) /\ seats[s].betLevel = NotActed
  BY <1>4, <1>8 DEF CanAct, InHand
<1>12. \A s \in Seats : /\ seats[s].streetContribution \in Nat
                        /\ seats[s].streetContribution <= BigBlind
                        /\ seats[s].totalContribution = seats[s].streetContribution
                        /\ InHand(seats[s]) /\ seats[s].betLevel = NotActed
  BY <1>9, <1>10, <1>11 DEF SmallBlind, BigBlind
<1>13. \A s \in Seats : Base(seats[s]) = 0 /\ Paying(seats, s) = seats[s].streetContribution
  BY <1>12 DEF Base, Paying
<1>14. \A s \in Seats : TopBase(seats, s)
  BY <1>13 DEF TopBase
<1>15. BasesSound(v)
  <2>1. SharedBase(seats)
    BY <1>2, <1>14 DEF SharedBase
  <2> QED BY <1>7, <1>13, <1>14, <2>1 DEF BasesSound
<1>16. Opening(v) = BigBlind
  BY <1>7 DEF Opening
<1>17. BetMade(v)
  BY <1>7, <1>16 DEF BetMade, BigBlind
<1>18. LevelsSound(v)
  BY <1>7, <1>12, <1>16 DEF LevelsSound, Acted, BigBlind
<1>19. BlindsSound(v)
  BY <1>7, <1>9, <1>10, <1>11 DEF BlindsSound, sb, bb
<1>20. TwoPaid(seats) /\ TopInHand(seats)
  <2>1. TwoPaid(seats)
    BY <1>2, <1>9, <1>10 DEF TwoPaid, Paying
  <2>2. TopInHand(seats)
    BY <1>12, <1>13 DEF TopInHand
  <2> QED BY <2>1, <2>2
<1>21. StakesSound(v)
  BY <1>7, <1>15, <1>17, <1>18, <1>19, <1>20 DEF StakesSound
<1>22. /\ Contenders(v) = Seats /\ Actionable(v) = {s \in Seats : CanAct(seats[s])}
       /\ Waiting(v) = Actionable(v)
  BY <1>7, <1>12 DEF Contenders, Actionable, Waiting, Acted
<1>23. Actionable(v) # {} /\ v.actor \in Actionable(v)
       /\ \A s \in Actionable(v) : Offset(bb, v.actor) <= Offset(bb, s)
  <2>1. PICK s \in Seats : s \notin {sb, bb}
    BY SeatsLeft
  <2>2. Actionable(v) # {} /\ Actionable(v) \in SUBSET Seats
    BY <1>11, <1>22, <2>1
  <2>3. v.actor = FirstClockwise(bb, Actionable(v))
    BY <1>7, <1>22
  <2> QED BY <1>2, <2>2, <2>3, FirstIsNearest
<1>24. InOrder(v)
  BY <1>7, <1>22, <1>23 DEF InOrder, bb
<1>25. BettingOpen(v)
  <2>1. Cardinality(Seats) >= 6
    BY SeatsAssumption
  <2>2. Cardinality(Actionable(v)) # 1
    <3>1. SUFFICES ASSUME Cardinality(Actionable(v)) = 1 PROVE FALSE
      OBVIOUS
    <3>2. IsFiniteSet(Actionable(v))
      BY SeatsFinite DEF Actionable
    <3>3. PICK x : Actionable(v) = {x}
      BY <3>1, <3>2, FS_Singleton
    <3>4. \A s \in Seats : s \in {sb, bb, x}
      BY <1>11, <1>22, <3>3
    <3>5. Seats \in SUBSET {sb, bb, x}
      BY <3>4
    <3>6. IsFiniteSet({sb, bb, x}) /\ Cardinality({sb, bb, x}) <= 3
      <4> HIDE DEF sb, bb
      <4>1. IsFiniteSet({sb}) /\ Cardinality({sb}) = 1
        BY FS_Singleton
      <4>2. IsFiniteSet({sb, bb}) /\ Cardinality({sb, bb}) <= 2
        <5>1. {sb, bb} = {sb} \cup {bb}
          OBVIOUS
        <5>2. /\ IsFiniteSet({sb} \cup {bb})
              /\ Cardinality({sb} \cup {bb}) = IF bb \in {sb} THEN Cardinality({sb})
                                               ELSE Cardinality({sb}) + 1
          BY <4>1, FS_AddElement
        <5> QED BY <4>1, <5>1, <5>2
      <4>3. Cardinality({sb, bb}) \in Nat
        BY <4>2, FS_CardinalityType
      <4>4. {sb, bb, x} = {sb, bb} \cup {x}
        OBVIOUS
      <4>5. /\ IsFiniteSet({sb, bb} \cup {x})
            /\ Cardinality({sb, bb} \cup {x}) = IF x \in {sb, bb} THEN Cardinality({sb, bb})
                                               ELSE Cardinality({sb, bb}) + 1
        BY <4>2, FS_AddElement
      <4> QED BY <4>2, <4>3, <4>4, <4>5
    <3>7. Cardinality(Seats) <= Cardinality({sb, bb, x}) /\ Cardinality({sb, bb, x}) \in Nat
      BY <3>5, <3>6, FS_Subset, FS_CardinalityType
    <3>8. Cardinality(Seats) \in Nat
      BY SeatsFinite, FS_CardinalityType
    <3> QED BY <2>1, <3>6, <3>7, <3>8
  <2>3. Cardinality(Contenders(v)) >= 2
    BY <1>22, <2>1, SeatsAssumption
  <2> QED BY <1>23, <2>2, <2>3 DEF BettingOpen
<1> QED BY <1>21, <1>24, <1>25 DEF Stakes, v

-----------------------------------------------------------------------------
(* What a seat is offered is accepted.                                     *)

\* The range of a bet or a raise.
LEMMA RaiseRange ==
  ASSUME NEW t \in TableRecords, InPlay(t), BettingOpen(t), NEW legal \in LegalActions(t),
         legal.type \in {"bet", "raise"}
  PROVE  /\ legal.min = MinTarget(t) /\ legal.max = AllInTarget(t) - 1
         /\ legal.min \in Nat /\ legal.max \in Nat /\ legal.min <= legal.max
<1> DEFINE me == t.seats[t.actor]
           call == AmountToCall(t)
<1>1. /\ me \in SeatRecords /\ t.currentBet \in Nat /\ t.minInc \in Nat
  BY ActorFacts
<1>2. MinTarget(t) \in Nat /\ AllInTarget(t) \in Nat
  BY <1>1 DEF MinTarget, AllInTarget, SeatRecords
<1>3. legal \in ActionsFacing(t, call)
  BY DEF LegalActions
<1>4. CASE Lone(t)
  <2>1. legal.type \in {"fold", "call", "allIn"}
    BY <1>3, <1>4 DEF ActionsFacing, Lone
  <2> QED BY <2>1
<1>5. CASE ~Lone(t)
  <2>1. legal.type \in {"fold", "check", "call", "allIn"}
        \/ /\ MinTarget(t) <= AllInTarget(t) - 1
           /\ legal = [type |-> BetType(t), min |-> MinTarget(t), max |-> AllInTarget(t) - 1]
    BY <1>3, <1>5 DEF ActionsFacing, Lone
  <2>2. /\ MinTarget(t) <= AllInTarget(t) - 1
        /\ legal.min = MinTarget(t) /\ legal.max = AllInTarget(t) - 1
    BY <2>1
  <2> QED BY <1>2, <2>2
<1> QED BY <1>4, <1>5

LEMMA ClampedIn ==
  ASSUME NEW low \in Nat, NEW high \in Nat, low <= high, NEW n \in Int
  PROVE  (IF n < low THEN low ELSE IF n > high THEN high ELSE n) \in low .. high
OBVIOUS

\* Every target that is offered or typed lies in its range.
LEMMA TargetsInRange ==
  ASSUME NEW t \in TableRecords, InPlay(t), BettingOpen(t), NEW legal \in LegalActions(t),
         legal.type \in {"bet", "raise"}, NEW n \in Targets(t, legal)
  PROVE  n \in legal.min .. legal.max
<1>1. legal.min \in Nat /\ legal.max \in Nat /\ legal.min <= legal.max
  BY RaiseRange
<1>2. AmountToCall(t) \in Nat /\ t.pot \in Nat /\ t.currentBet \in Nat
  BY ActorFacts DEF TableRecords
<1>3. n \in SuggestedTargets(t, legal) \/ n \in legal.min .. legal.max
  BY DEF Targets
<1>4. CASE n \in SuggestedTargets(t, legal)
  <2> DEFINE pot == t.pot + AmountToCall(t)
             Clamp(k) == IF k < legal.min THEN legal.min ELSE IF k > legal.max THEN legal.max ELSE k
             half == t.currentBet + ((pot + 2 - 1) \div 2)
             most == t.currentBet + ((2 * pot + 3 - 1) \div 3)
  <2>1. n \in {Clamp(k) : k \in {legal.min, half, most, t.currentBet + pot}}
    BY <1>4 DEF SuggestedTargets
  <2>2. pot \in Nat /\ half \in Int /\ most \in Int /\ t.currentBet + pot \in Int
    BY <1>2
  <2>3. PICK k \in Int : n = Clamp(k)
    <3> HIDE DEF half, most, pot, Clamp
    <3> QED BY <1>1, <2>1, <2>2
  <2> QED BY <1>1, <2>3, ClampedIn
<1> QED BY <1>3, <1>4

LEMMA OfferedIsAccepted ==
  ASSUME NEW t \in TableRecords, t.street \in ActionStreets, InPlay(t), BettingOpen(t),
         NEW action \in ActionsOf(t)
  PROVE  ActionAccepted(t, t.actor, action)
<1>1. PICK legal \in LegalActions(t) : action \in {[type |-> legal.type, target |-> n] : n \in Targets(t, legal)}
  BY DEF ActionsOf
<1>2. PICK n \in Targets(t, legal) : action = [type |-> legal.type, target |-> n]
  BY <1>1
<1>3. action.type \in {"bet", "raise"} => action.target \in legal.min .. legal.max
  BY <1>2, TargetsInRange
<1> QED BY <1>2, <1>3 DEF ActionAccepted

\* The statistics of an accepted action are accepted with it.
LEMMA FactsAreAccepted ==
  ASSUME NEW t \in TableRecords, t.street \in ActionStreets, InPlay(t), BettingOpen(t),
         NEW action, ActionAccepted(t, t.actor, action)
  PROVE  FactsAccepted(t, action)
<1> DEFINE preflop == t.street = "preflop"
           level == t.seats[t.actor].streetContribution + Delta(t, action)
           raise == preflop /\ action.type \in {"bet", "raise", "allIn"} /\ level > t.currentBet
           facts == ActionFacts(t, action)
<1>1. facts = [voluntary |-> preflop /\ action.type \in {"call", "bet", "raise", "allIn"},
               raise |-> raise, fullRaise |-> raise /\ IsFullRaise(t, action),
               chance |-> preflop /\ CanMakeFullRaise(t)]
  BY DEF ActionFacts
<1>2. /\ facts.voluntary = (preflop /\ action.type \in {"call", "bet", "raise", "allIn"})
      /\ facts.raise = raise /\ facts.fullRaise = (raise /\ IsFullRaise(t, action))
      /\ facts.chance = (preflop /\ CanMakeFullRaise(t))
  <2> HIDE DEF raise, facts
  <2> QED BY <1>1
<1> HIDE DEF facts
<1>3. ASSUME preflop, action.type \in {"bet", "raise"} PROVE facts.fullRaise
  <2>1. PICK legal \in LegalActions(t) :
           legal.type = action.type /\ action.target \in legal.min .. legal.max
    BY <1>3 DEF ActionAccepted
  <2>2. legal.min = MinTarget(t) /\ legal.min \in Nat /\ legal.max \in Nat
    BY <1>3, <2>1, RaiseRange
  <2>3. t.seats[t.actor] \in SeatRecords /\ t.currentBet \in Nat /\ t.minInc \in Nat /\ t.minInc >= 20
    BY ActorFacts
  <2>4. t.currentBet >= BigBlind
    BY <1>3 DEF InPlay
  <2>5. MinTarget(t) = t.currentBet + t.minInc
    BY <2>3, <2>4 DEF MinTarget, BigBlind
  <2>6. Delta(t, action) = action.target - t.seats[t.actor].streetContribution
    BY <1>3 DEF Delta
  <2>7. t.seats[t.actor].streetContribution \in Nat
    BY <2>3 DEF SeatRecords
  <2>8. level = action.target /\ action.target \in Nat /\ action.target >= t.currentBet + t.minInc
    BY <2>1, <2>2, <2>3, <2>5, <2>6, <2>7
  <2>9. BetAfter(t, action) = action.target
    BY <2>3, <2>8 DEF BetAfter
  <2>10. IsFullRaise(t, action)
    BY <2>3, <2>8, <2>9 DEF IsFullRaise
  <2>11. raise
    BY <1>3, <2>3, <2>8
  <2> QED BY <1>2, <2>10, <2>11
<1>4. /\ facts.raise => facts.voluntary
      /\ facts.fullRaise => facts.raise
      /\ t.street # "preflop" => ~(facts.voluntary \/ facts.raise \/ facts.fullRaise \/ facts.chance)
      /\ action.type \in {"fold", "check"} => ~facts.voluntary
      /\ (t.street = "preflop" /\ action.type = "call") => facts.voluntary /\ ~facts.raise
      /\ (t.street = "preflop" /\ action.type = "allIn") => facts.voluntary
  BY <1>2
<1> QED BY <1>3, <1>4 DEF FactsAccepted, FactsFit, facts

-----------------------------------------------------------------------------
(* Legal play settles.                                                     *)

SoundPlay(t, record) ==
  /\ t.street \in ActionStreets => Stakes(t)
  /\ record.reason # "none" => RecordAccepted(record)

PlayInv == SoundPlay(table, lastHand.record)

LEMMA PlayInit == Init => PlayInv
<1> SUFFICES ASSUME Init PROVE PlayInv
  OBVIOUS
<1>1. table.street = "betweenHands" /\ lastHand.record.reason = "none"
  BY DEF Init, NoHand
<1>2. "betweenHands" \notin ActionStreets
  BY DEF ActionStreets
<1> QED BY <1>1, <1>2 DEF PlayInv, SoundPlay

LEMMA StartIsSound ==
  ASSUME TableInv, PlayInv, StartHand
  PROVE  SoundPlay(table', lastHand'.record)
<1> DEFINE u == AutoRebought(table)
<1>1. /\ table \in TableRecords /\ AtRest(table) /\ handCount \in Nat /\ buyIn \in [Seats -> Nat]
      /\ ReadySeats(u) /\ table' = StartedHand(u, handCount) /\ lastHand' = lastHand
  BY DEF TableInv, StartHand
<1>2. ChipSum(Stacks(table)) = ChipSum(buyIn)
  <2>1. ChipSum(Stacks(table)) + table.pot = ChipSum(buyIn) /\ table.pot = 0
    BY <1>1 DEF TableInv, ChipsConserved, Stacks, AtRest
  <2>2. ChipSum(Stacks(table)) \in Nat
    BY <1>1, ChipsAreWhole
  <2> QED BY <2>1, <2>2
<1>3. u \in TableRecords /\ AtRest(u)
  BY <1>1, <1>2, AutoBought
<1> HIDE DEF u
<1>4. Stakes(table')
  BY <1>1, <1>3, HandStartsSound
<1> QED BY <1>1, <1>4 DEF PlayInv, SoundPlay

LEMMA ActIsSound ==
  ASSUME TableInv, PlayInv, NEW action, Act(action)
  PROVE  SoundPlay(table', lastHand'.record)
<1> DEFINE v == Progress(table, action)
<1>1. /\ table \in TableRecords /\ ActionAccepted(table, table.actor, action) /\ BettingOpen(table)
  BY DEF TableInv, Act
<1>2. table.street \in ActionStreets /\ InPlay(table)
  BY <1>1 DEF ActionAccepted, TableInv
<1>3. Stakes(table) /\ (lastHand.record.reason # "none" => RecordAccepted(lastHand.record))
  BY <1>2 DEF PlayInv, SoundPlay
<1>4. \/ v.street \in ActionStreets /\ Stakes(v)
      \/ v.street \in EndStreets /\ TwoPaid(v.seats) /\ v.actor = NoSeat
  BY <1>1, <1>2, <1>3, PlayIsSound
<1>5. \/ v.street \in ActionStreets
      \/ \A s \in Seats : v.seats[s].status # "out"
  BY <1>1, <1>2, HandProgress
<1>6. v.street \in ActionStreets => v.street \notin EndStreets
  BY DEF ActionStreets, EndStreets
<1>7. CASE v.street \in EndStreets
  <2>1. /\ v \in TableRecords /\ Settleable(v) /\ v.pot > 0 /\ StreetInTotal(v.seats)
        /\ \E strength \in [Contenders(v) -> 1 .. HandClasses] :
              /\ table' = Settled(v, strength)
              /\ lastHand' = [record |-> HandRecord(v, strength, Settled(v, strength)),
                              played |-> lastHand.played + 1, strength |-> strength,
                              inHand |-> Contenders(v)]
    BY <1>7, ActSettles
  <2> HIDE DEF v
  <2>2. PICK strength \in [Contenders(v) -> 1 .. HandClasses] :
           /\ table' = Settled(v, strength)
           /\ lastHand' = [record |-> HandRecord(v, strength, Settled(v, strength)),
                           played |-> lastHand.played + 1, strength |-> strength,
                           inHand |-> Contenders(v)]
    BY <2>1
  <2>3. RecordAccepted(HandRecord(v, strength, Settled(v, strength)))
    BY <1>4, <1>5, <1>6, <1>7, <2>1, RecordIsAccepted
  <2>4. lastHand'.record = HandRecord(v, strength, Settled(v, strength))
    BY <2>2
  <2>5. table'.street \notin ActionStreets
    BY <2>2 DEF Settled, Paid, ActionStreets, TableRecords
  <2> QED BY <2>3, <2>4, <2>5 DEF SoundPlay
<1>8. CASE v.street \notin EndStreets
  <2>1. table' = v /\ lastHand' = lastHand
    BY <1>8, ActGoesOn
  <2> QED BY <1>3, <1>4, <1>8, <2>1 DEF SoundPlay
<1> QED BY <1>7, <1>8

LEMMA RebuyIsSound ==
  ASSUME TableInv, PlayInv, Rebuy
  PROVE  SoundPlay(table', lastHand'.record)
<1>1. lastHand' = lastHand /\ table.street = "betweenHands" /\ table \in TableRecords
  BY DEF Rebuy, TableInv
<1>2. table'.street = table.street
  BY <1>1 DEF Rebuy, TableRecords
<1>3. "betweenHands" \notin ActionStreets
  BY DEF ActionStreets
<1> QED BY <1>1, <1>2, <1>3 DEF PlayInv, SoundPlay

LEMMA PlayStep == TableInv /\ PlayInv /\ [Next]_vars => PlayInv'
<1> SUFFICES ASSUME TableInv, PlayInv, [Next]_vars PROVE PlayInv'
  OBVIOUS
<1>1. SoundPlay(table', lastHand'.record) => PlayInv'
  BY DEF PlayInv
<1>2. CASE StartHand
  BY <1>1, <1>2, StartIsSound
<1>3. CASE Play
  <2>1. PICK action : Act(action)
    BY <1>3 DEF Play
  <2> QED BY <1>1, <2>1, ActIsSound
<1>4. CASE Rebuy
  BY <1>1, <1>4, RebuyIsSound
<1>5. CASE vars' = vars
  <2>1. table' = table /\ lastHand' = lastHand
    BY <1>5 DEF vars
  <2> QED BY <1>1, <2>1 DEF PlayInv
<1> QED BY <1>2, <1>3, <1>4, <1>5 DEF Next

LEMMA SoundPlaySettles == TableInv /\ PlayInv => LegalPlaySettles
<1> SUFFICES ASSUME TableInv, PlayInv PROVE LegalPlaySettles
  OBVIOUS
<1>1. table \in TableRecords /\ (lastHand.record.reason # "none" => RecordAccepted(lastHand.record))
  BY DEF TableInv, PlayInv, SoundPlay
<1>2. ASSUME table.street \in ActionStreets
      PROVE  /\ BettingOpen(table) /\ StillOwesAction(table, table.actor)
             /\ \A action \in ActionsOf(table) :
                   /\ FactsAccepted(table, action)
                   /\ Progress(table, action).street \in EndStreets
                         => Settleable(Progress(table, action))
  <2>1. InPlay(table) /\ Stakes(table) /\ BettingOpen(table)
    BY <1>2 DEF TableInv, PlayInv, SoundPlay, Stakes
  <2>2. StillOwesAction(table, table.actor)
    BY <2>1 DEF InPlay
  <2>3. ASSUME NEW action \in ActionsOf(table)
        PROVE  /\ FactsAccepted(table, action)
               /\ Progress(table, action).street \in EndStreets
                     => Settleable(Progress(table, action))
    <3>1. ActionAccepted(table, table.actor, action)
      BY <1>1, <1>2, <2>1, OfferedIsAccepted
    <3>2. FactsAccepted(table, action)
      BY <1>1, <1>2, <2>1, <3>1, FactsAreAccepted
    <3>3. \/ Progress(table, action).street \in ActionStreets
          \/ Settleable(Progress(table, action))
      BY <1>1, <1>2, <2>1, <3>1, PlayIsSound
    <3>4. Progress(table, action).street \in ActionStreets
             => Progress(table, action).street \notin EndStreets
      BY DEF ActionStreets, EndStreets
    <3> QED BY <3>2, <3>3, <3>4
  <2> QED BY <2>1, <2>2, <2>3
<1> QED BY <1>1, <1>2 DEF LegalPlaySettles

\* Whatever legal actions are taken, the seat whose turn it is can act, and the
\* hand they end is settled and recorded without an error (betting-projection.ts,
\* betting-transition.ts, contribution-layers.ts, settlement.ts).
THEOREM LegalPlayIsSettled == Spec => []LegalPlaySettles
<1>1. Init => TableInv /\ PlayInv
  BY TableInit, PlayInit
<1>2. TableInv /\ PlayInv /\ [Next]_vars => (TableInv /\ PlayInv)'
  BY TableStep, PlayStep
<1>3. TableInv /\ PlayInv => LegalPlaySettles
  BY SoundPlaySettles
<1> QED BY <1>1, <1>2, <1>3, PTL DEF Spec
=============================================================================
