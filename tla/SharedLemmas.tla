---------------------------- MODULE SharedLemmas ----------------------------
(***************************************************************************)
(* Lemmas the proofs of several modules rest on.                           *)
(*                                                                         *)
(* A sum of natural numbers as the size of a set: unit k of member p is    *)
(* the pair <<p, k>>.  The properties write their sums of cents and of     *)
(* votes this way.  Then the least element of a set of natural numbers.    *)
(* Sums of integers, as what gains add less what losses take, and that the *)
(* sum of the community modules is one.  Orders on finite sets: there is a *)
(* first member, and the places are 1 up to the number of members.  Runs   *)
(* of days, which streaks count.                                           *)
(***************************************************************************)
EXTENDS Integers, FiniteSets, FunctionTheorems, FiniteSetTheorems, WellFoundedInduction, TLAPS

Units(P, n) == UNION {{p} \X (1 .. n[p]) : p \in P}
SumOver(P, n) == Cardinality(Units(P, n))

(* A member that counts n has n units.                                       *)
LEMMA UnitsOfOne ==
    ASSUME NEW p, NEW n \in Nat
    PROVE  /\ IsFiniteSet({p} \X (1 .. n))
           /\ Cardinality({p} \X (1 .. n)) = n
<1>1. IsFiniteSet(1 .. n) /\ Cardinality(1 .. n) = n
  BY FS_Interval
<1>2. IsFiniteSet({p}) /\ Cardinality({p}) = 1
  BY FS_Singleton
<1>3. /\ IsFiniteSet({p} \X (1 .. n))
      /\ Cardinality({p} \X (1 .. n)) = Cardinality({p}) * Cardinality(1 .. n)
  BY <1>1, <1>2, FS_Product
<1> QED
  BY <1>1, <1>2, <1>3

(* A sum over a finite set is a natural number.                              *)
LEMMA SumFinite ==
    ASSUME NEW P, IsFiniteSet(P), NEW n, \A p \in P : n[p] \in Nat
    PROVE  IsFiniteSet(Units(P, n)) /\ SumOver(P, n) \in Nat
<1> DEFINE C(p) == {p} \X (1 .. n[p])
           CC == {C(p) : p \in P}
           g == [p \in P |-> C(p)]
<1>1. g \in Surjection(P, CC)
  BY DEF Surjection
<1>2. IsFiniteSet(CC)
  BY <1>1, FS_Surjection
<1>3. ASSUME NEW p \in P PROVE IsFiniteSet(C(p))
  BY UnitsOfOne
<1>4. IsFiniteSet(UNION CC)
  BY <1>2, <1>3, FS_UNION
<1> QED
  BY <1>4, FS_CardinalityType DEF Units, SumOver

(* One more member adds what it counts.                                      *)
LEMMA SumAdd ==
    ASSUME NEW P, IsFiniteSet(P), NEW p, p \notin P, NEW n,
           \A q \in P \cup {p} : n[q] \in Nat
    PROVE  SumOver(P \cup {p}, n) = SumOver(P, n) + n[p]
<1> DEFINE Up == {p} \X (1 .. n[p])
<1>1. IsFiniteSet(Units(P, n)) /\ SumOver(P, n) \in Nat
  BY SumFinite
<1>2. IsFiniteSet(Up) /\ Cardinality(Up) = n[p]
  BY UnitsOfOne
<1>3. Units(P \cup {p}, n) = Units(P, n) \cup Up
  BY DEF Units
<1>4. Units(P, n) \cap Up = {}
  BY DEF Units
<1>5. Cardinality(Units(P, n) \cap Up) = 0
  BY <1>4, FS_EmptySet
<1>6. Cardinality(Units(P, n) \cup Up)
        = Cardinality(Units(P, n)) + Cardinality(Up) - Cardinality(Units(P, n) \cap Up)
  BY <1>1, <1>2, FS_Union
<1>7. n[p] \in Nat
  OBVIOUS
<1>8. SumOver(P \cup {p}, n) = Cardinality(Units(P, n) \cup Up)
  BY <1>3 DEF SumOver
<1>9. Cardinality(Units(P, n)) = SumOver(P, n)
  BY DEF SumOver
<1> HIDE DEF Up
<1> QED
  BY <1>1, <1>2, <1>5, <1>6, <1>7, <1>8, <1>9

(* Only what the members count matters.                                      *)
LEMMA SumSame ==
    ASSUME NEW P, NEW n, NEW m, \A p \in P : n[p] = m[p]
    PROVE  SumOver(P, n) = SumOver(P, m)
  BY DEF SumOver, Units

(* Over nothing it is zero.                                                  *)
LEMMA SumEmpty == ASSUME NEW n PROVE SumOver({}, n) = 0
<1>1. Units({}, n) = {}
  BY DEF Units
<1> QED
  BY <1>1, FS_EmptySet DEF SumOver

(* A member that counts d more adds d.                                       *)
LEMMA SumMore ==
    ASSUME NEW P, IsFiniteSet(P), NEW p \in P, NEW n, NEW m, NEW d \in Nat,
           \A q \in P : n[q] \in Nat, m[p] = n[p] + d, \A q \in P \ {p} : m[q] = n[q]
    PROVE  SumOver(P, m) = SumOver(P, n) + d
<1> DEFINE R == P \ {p}
<1>1. IsFiniteSet(R) /\ p \notin R /\ P = R \cup {p}
  BY FS_RemoveElement
<1>2. (\A q \in R \cup {p} : n[q] \in Nat) /\ (\A q \in R \cup {p} : m[q] \in Nat)
  BY <1>1
<1>3. SumOver(R, m) = SumOver(R, n) /\ SumOver(R, n) \in Nat
  BY <1>1, <1>2, SumSame, SumFinite
<1> HIDE DEF R
<1>4. SumOver(R \cup {p}, n) = SumOver(R, n) + n[p]
  BY <1>1, <1>2, SumAdd
<1>5. SumOver(R \cup {p}, m) = SumOver(R, m) + m[p]
  BY <1>1, <1>2, SumAdd
<1>6. n[p] \in Nat /\ m[p] \in Nat
  BY <1>1, <1>2
<1> QED
  BY <1>1, <1>3, <1>4, <1>5, <1>6

(* A set of natural numbers that is not empty has a least element.           *)
LEMMA LeastNatural ==
    ASSUME NEW S, S \subseteq Nat, S # {}
    PROVE  \E n \in S : \A m \in S : n <= m
<1> DEFINE Below == {0 .. n - 1 : n \in S}
<1>1. Below \subseteq FiniteSubsetsOf(Nat) /\ Below # {}
  <2>1. \A n \in S : IsFiniteSet(0 .. n - 1) /\ 0 .. n - 1 \in SUBSET Nat
    BY FS_Interval
  <2> QED
    BY <2>1 DEF FiniteSubsetsOf
<1>2. PICK B \in Below : \A C \in Below : <<C, B>> \notin StrictSubsetOrdering(Nat)
  BY <1>1, FS_StrictSubsetOrderingWellFounded, WFMin
<1>3. PICK n \in S : B = 0 .. n - 1
  OBVIOUS
<1>4. ASSUME NEW m \in S, ~(n <= m) PROVE FALSE
  <2>1. m \in 0 .. n - 1 /\ m \notin 0 .. m - 1 /\ 0 .. m - 1 \subseteq 0 .. n - 1
    BY <1>4
  <2>2. 0 .. m - 1 \in Below /\ 0 .. m - 1 \in SUBSET Nat /\ 0 .. n - 1 \in SUBSET Nat
    BY <1>4
  <2> QED
    BY <1>2, <1>3, <2>1, <2>2 DEF StrictSubsetOrdering
<1> QED
  BY <1>4

-----------------------------------------------------------------------------
(* Sums of integers: what the gains add less what the losses take.           *)

Gain(f) == [x \in DOMAIN f |-> IF f[x] > 0 THEN f[x] ELSE 0]
Loss(f) == [x \in DOMAIN f |-> IF f[x] < 0 THEN 0 - f[x] ELSE 0]
IntSum(P, f) == SumOver(P, Gain(f)) - SumOver(P, Loss(f))

(* An integer is what it gains less what it loses, both naturals.            *)
LEMMA GainLoss ==
    ASSUME NEW f, NEW x \in DOMAIN f, f[x] \in Int
    PROVE  Gain(f)[x] \in Nat /\ Loss(f)[x] \in Nat /\ Gain(f)[x] - Loss(f)[x] = f[x]
  BY DEF Gain, Loss

(* A sum of integers is an integer.                                          *)
LEMMA IntSumType ==
    ASSUME NEW P, IsFiniteSet(P), NEW f, P \subseteq DOMAIN f, \A x \in P : f[x] \in Int
    PROVE  IntSum(P, f) \in Int
<1>1. \A x \in P : Gain(f)[x] \in Nat /\ Loss(f)[x] \in Nat
  BY GainLoss
<1>2. SumOver(P, Gain(f)) \in Nat /\ SumOver(P, Loss(f)) \in Nat
  BY <1>1, SumFinite
<1> QED
  BY <1>2 DEF IntSum

(* A sum of nothing is 0.                                                    *)
LEMMA IntSumEmpty == ASSUME NEW f PROVE IntSum({}, f) = 0
  BY SumEmpty DEF IntSum

(* One more element adds its number to the sum.                              *)
LEMMA IntSumAdd ==
    ASSUME NEW P, IsFiniteSet(P), NEW p, p \notin P, NEW f, P \cup {p} \subseteq DOMAIN f,
           \A x \in P \cup {p} : f[x] \in Int
    PROVE  IntSum(P \cup {p}, f) = IntSum(P, f) + f[p]
<1> DEFINE g == Gain(f)
           l == Loss(f)
<1>1. \A x \in P \cup {p} : g[x] \in Nat /\ l[x] \in Nat
  BY GainLoss
<1>2. g[p] \in Nat /\ l[p] \in Nat /\ g[p] - l[p] = f[p]
  BY GainLoss
<1>3. SumOver(P, g) \in Nat /\ SumOver(P, l) \in Nat
  BY <1>1, SumFinite
<1>4. IntSum(P, f) = SumOver(P, g) - SumOver(P, l)
  BY DEF IntSum
<1>5. IntSum(P \cup {p}, f) = SumOver(P \cup {p}, g) - SumOver(P \cup {p}, l)
  BY DEF IntSum
<1> HIDE DEF g, l
<1>6. SumOver(P \cup {p}, g) = SumOver(P, g) + g[p]
  BY <1>1, SumAdd
<1>7. SumOver(P \cup {p}, l) = SumOver(P, l) + l[p]
  BY <1>1, SumAdd
<1> QED
  BY <1>2, <1>3, <1>4, <1>5, <1>6, <1>7

(* A sum depends on the numbers of its elements only.                        *)
LEMMA IntSumSame ==
    ASSUME NEW P, NEW f, NEW h, P \subseteq DOMAIN f, P \subseteq DOMAIN h,
           \A x \in P : f[x] = h[x]
    PROVE  IntSum(P, f) = IntSum(P, h)
<1>1. \A x \in P : Gain(f)[x] = Gain(h)[x]
  BY DEF Gain
<1>2. \A x \in P : Loss(f)[x] = Loss(h)[x]
  BY DEF Loss
<1>3. SumOver(P, Gain(f)) = SumOver(P, Gain(h)) /\ SumOver(P, Loss(f)) = SumOver(P, Loss(h))
  BY <1>1, <1>2, SumSame
<1> QED
  BY <1>3 DEF IntSum

(* When one number grows by d, which may be negative, so does the sum.       *)
LEMMA IntSumMore ==
    ASSUME NEW P, IsFiniteSet(P), NEW p \in P, NEW d \in Int, NEW f, NEW h,
           P \subseteq DOMAIN f, P \subseteq DOMAIN h, \A x \in P : f[x] \in Int,
           h[p] = f[p] + d, \A x \in P \ {p} : h[x] = f[x]
    PROVE  IntSum(P, h) = IntSum(P, f) + d
<1> DEFINE R == P \ {p}
<1>1. IsFiniteSet(R) /\ p \notin R /\ P = R \cup {p} /\ R \subseteq P
  BY FS_RemoveElement
<1>2. f[p] \in Int /\ h[p] \in Int /\ \A x \in R : f[x] \in Int /\ h[x] \in Int
  BY <1>1
<1>3. IntSum(R, f) = IntSum(R, h) /\ IntSum(R, f) \in Int
  BY <1>1, <1>2, IntSumSame, IntSumType
<1> HIDE DEF R
<1>4. IntSum(P, f) = IntSum(R, f) + f[p]
  BY <1>1, <1>2, IntSumAdd
<1>5. IntSum(P, h) = IntSum(R, h) + h[p]
  <2>1. \A x \in R \cup {p} : h[x] \in Int
    BY <1>1, <1>2
  <2> QED
    BY <1>1, <2>1, IntSumAdd
<1> QED
  BY <1>2, <1>3, <1>4, <1>5

(* MapThenSumSet adds up the members of a set in the order in which CHOOSE   *)
(* yields them, by a function on its subsets: the sum, whatever the order.   *)
Pick(s) == CHOOSE x \in s : TRUE
SumsUp(g, S, f) ==
    g = [s \in SUBSET S |-> IF s = {} THEN 0 ELSE f[Pick(s)] + g[s \ {Pick(s)}]]

(* A nonempty sum is that of its picked element and of the rest.             *)
LEMMA SumStep ==
    ASSUME NEW S, IsFiniteSet(S), NEW f, DOMAIN f = S, \A x \in S : f[x] \in Int,
           NEW s \in SUBSET S, s # {}
    PROVE  /\ Pick(s) \in s /\ s \ {Pick(s)} \in SUBSET S /\ IsFiniteSet(s)
           /\ IntSum(s, f) = f[Pick(s)] + IntSum(s \ {Pick(s)}, f)
<1> DEFINE x == Pick(s)
           r == s \ {x}
<1>1. x \in s
  BY DEF Pick
<1>2. IsFiniteSet(s) /\ IsFiniteSet(r) /\ r \in SUBSET S
  BY FS_Subset
<1>3. x \notin r /\ s = r \cup {x}
  BY <1>1
<1> HIDE DEF x, r
<1>4. \A y \in r \cup {x} : f[y] \in Int
  BY <1>1, <1>3
<1>5. IntSum(r \cup {x}, f) = IntSum(r, f) + f[x]
  BY <1>2, <1>3, <1>4, IntSumAdd
<1>6. IntSum(r, f) \in Int
  BY <1>2, <1>4, IntSumType
<1>7. f[x] \in Int
  BY <1>4
<1>8. IntSum(s, f) = f[x] + IntSum(r, f)
  BY <1>3, <1>5, <1>6, <1>7
<1> QED
  BY <1>1, <1>2, <1>8 DEF x, r

(* The sums of the subsets satisfy the equations by which a recursive sum is defined. *)
LEMMA SumExists ==
    ASSUME NEW S, IsFiniteSet(S), NEW f, DOMAIN f = S, \A x \in S : f[x] \in Int
    PROVE  SumsUp([s \in SUBSET S |-> IntSum(s, f)], S, f)
<1> DEFINE g == [s \in SUBSET S |-> IntSum(s, f)]
<1>1. ASSUME NEW s \in SUBSET S
      PROVE  g[s] = IF s = {} THEN 0 ELSE f[Pick(s)] + g[s \ {Pick(s)}]
  <2>1. CASE s = {}
    BY <2>1, IntSumEmpty
  <2>2. CASE s # {}
    <3>1. s \ {Pick(s)} \in SUBSET S /\ IntSum(s, f) = f[Pick(s)] + IntSum(s \ {Pick(s)}, f)
      BY <2>2, SumStep
    <3> QED
      BY <2>2, <3>1
  <2> QED
    BY <2>1, <2>2
<1> QED
  BY <1>1 DEF SumsUp

(* They are the only solution: a smallest subset that disagrees has a smaller one. *)
LEMMA SumUnique ==
    ASSUME NEW S, IsFiniteSet(S), NEW f, DOMAIN f = S, \A x \in S : f[x] \in Int,
           NEW g, SumsUp(g, S, f)
    PROVE  \A s \in SUBSET S : g[s] = IntSum(s, f)
<1> SUFFICES ASSUME NEW s \in SUBSET S, g[s] # IntSum(s, f) PROVE FALSE
  OBVIOUS
<1> DEFINE Bad == {t \in SUBSET S : g[t] # IntSum(t, f)}
           Sizes == {Cardinality(t) : t \in Bad}
<1>1. \A t \in SUBSET S : IsFiniteSet(t) /\ Cardinality(t) \in Nat
  BY FS_Subset, FS_CardinalityType
<1>2. Sizes \subseteq Nat /\ Sizes # {}
  BY <1>1
<1>3. PICK n \in Sizes : \A m \in Sizes : n <= m
  BY <1>2, LeastNatural
<1>4. PICK t \in Bad : Cardinality(t) = n
  OBVIOUS
<1>5. CASE t = {}
  BY <1>4, <1>5, IntSumEmpty DEF SumsUp
<1>6. CASE t # {}
  <2> DEFINE r == t \ {Pick(t)}
  <2>1. /\ Pick(t) \in t /\ r \in SUBSET S /\ IsFiniteSet(t)
        /\ IntSum(t, f) = f[Pick(t)] + IntSum(r, f)
    BY <1>4, <1>6, SumStep
  <2>2. g[t] = f[Pick(t)] + g[r]
    BY <1>4, <1>6 DEF SumsUp
  <2>3. r \in Bad
    BY <1>4, <2>1, <2>2
  <2>4. Cardinality(r) = n - 1
    BY <1>4, <2>1, FS_RemoveElement
  <2>5. n \in Int
    BY <1>2
  <2>6. n <= Cardinality(r)
    BY <1>3, <2>3
  <2> HIDE DEF r, Bad, Sizes
  <2> QED
    BY <2>4, <2>5, <2>6
<1> QED
  BY <1>5, <1>6

-----------------------------------------------------------------------------
(* Orders, as sets of pairs.                                                 *)

Orders(R, S) ==
    /\ \A x \in S : <<x, x>> \notin R
    /\ \A x, y, z \in S : <<x, y>> \in R /\ <<y, z>> \in R => <<x, z>> \in R
    /\ \A x, y \in S : x # y => <<x, y>> \in R \/ <<y, x>> \in R

Under(R, S, x) == {y \in S : <<y, x>> \in R}

(* What is under an element is a finite part of the set.                     *)
LEMMA UnderFinite ==
    ASSUME NEW S, IsFiniteSet(S), NEW R, NEW x
    PROVE  /\ IsFiniteSet(Under(R, S, x)) /\ Cardinality(Under(R, S, x)) \in Nat
           /\ Cardinality(Under(R, S, x)) <= Cardinality(S)
<1>1. Under(R, S, x) \in SUBSET S
  BY DEF Under
<1> QED
  BY <1>1, FS_Subset, FS_CardinalityType

(* What comes later has more under it.                                       *)
LEMMA UnderGrows ==
    ASSUME NEW S, IsFiniteSet(S), NEW R, Orders(R, S), NEW x \in S, NEW y \in S, <<x, y>> \in R
    PROVE  Cardinality(Under(R, S, x)) < Cardinality(Under(R, S, y))
<1> DEFINE X == Under(R, S, x)
           Y == Under(R, S, y)
<1>1. IsFiniteSet(Y) /\ Cardinality(X) \in Nat /\ Cardinality(Y) \in Nat
  BY UnderFinite
<1>2. X \in SUBSET Y /\ x \in Y /\ x \notin X
  BY DEF Under, Orders
<1>3. Cardinality(X) <= Cardinality(Y) /\ (Cardinality(Y) = Cardinality(X) => Y = X)
  BY <1>1, <1>2, FS_Subset
<1> HIDE DEF X, Y
<1>4. Cardinality(X) # Cardinality(Y)
  BY <1>2, <1>3
<1>5. Cardinality(X) < Cardinality(Y)
  BY <1>1, <1>3, <1>4
<1> QED
  BY <1>5 DEF X, Y

(* A finite set that is not empty has a first member.                        *)
LEMMA FirstExists ==
    ASSUME NEW S, IsFiniteSet(S), S # {}, NEW R, Orders(R, S)
    PROVE  \E x \in S : \A y \in S \ {x} : <<x, y>> \in R
<1> DEFINE Sizes == {Cardinality(Under(R, S, x)) : x \in S}
<1>1. Sizes \subseteq Nat /\ Sizes # {}
  BY UnderFinite
<1>2. PICK n \in Sizes : \A m \in Sizes : n <= m
  BY <1>1, LeastNatural
<1>3. PICK x \in S : n = Cardinality(Under(R, S, x))
  OBVIOUS
<1>4. ASSUME NEW y \in S \ {x}, <<x, y>> \notin R PROVE FALSE
  <2>1. <<y, x>> \in R
    BY <1>4 DEF Orders
  <2>2. Cardinality(Under(R, S, y)) < Cardinality(Under(R, S, x))
    BY <2>1, UnderGrows
  <2>3. Cardinality(Under(R, S, y)) \in Nat /\ n \in Nat
    BY <1>1, UnderFinite
  <2>4. n <= Cardinality(Under(R, S, y))
    BY <1>2
  <2> HIDE DEF Sizes
  <2> QED
    BY <1>3, <2>2, <2>3, <2>4
<1> QED
  BY <1>4

(* The places of the members of a finite set are 1 up to its size.           *)
LEMMA PlacesAreExact ==
    ASSUME NEW S, IsFiniteSet(S), NEW R, Orders(R, S)
    PROVE  {1 + Cardinality(Under(R, S, x)) : x \in S} = 1 .. Cardinality(S)
<1> DEFINE n == Cardinality(S)
           place == [x \in S |-> 1 + Cardinality(Under(R, S, x))]
<1>1. n \in Nat
  BY FS_CardinalityType
<1>2. ASSUME NEW x \in S PROVE Cardinality(Under(R, S, x)) \in 0 .. n - 1
  <2>1. Cardinality(Under(R, S, x)) \in Nat
    BY UnderFinite
  <2>2. Under(R, S, x) \in SUBSET (S \ {x})
    BY DEF Under, Orders
  <2>3. IsFiniteSet(S \ {x}) /\ Cardinality(S \ {x}) = n - 1
    BY FS_RemoveElement
  <2>4. Cardinality(Under(R, S, x)) <= n - 1
    BY <2>2, <2>3, FS_Subset
  <2> HIDE DEF n
  <2> QED
    BY <1>1, <2>1, <2>4
<1>3. \A x, y \in S : place[x] = place[y] => x = y
  <2> SUFFICES ASSUME NEW x \in S, NEW y \in S, place[x] = place[y], <<x, y>> \in R
               PROVE  FALSE
    BY DEF Orders
  <2>1. Cardinality(Under(R, S, x)) < Cardinality(Under(R, S, y))
    BY UnderGrows
  <2>2. Cardinality(Under(R, S, x)) \in Nat /\ Cardinality(Under(R, S, y)) \in Nat
    BY UnderFinite
  <2> QED
    BY <2>1, <2>2
<1>4. place \in [S -> 1 .. n]
  <2>1. ASSUME NEW x \in S PROVE 1 + Cardinality(Under(R, S, x)) \in 1 .. n
    BY <1>1, <1>2
  <2> QED
    BY <2>1
<1>5. DOMAIN place = S
  OBVIOUS
<1>6. {1 + Cardinality(Under(R, S, x)) : x \in S} = {place[x] : x \in S}
  OBVIOUS
<1> HIDE DEF place, n
<1>7. place \in Injection(S, 1 .. n)
  BY <1>3, <1>4, <1>5 DEF Injection, IsInjective
<1>8. IsFiniteSet(1 .. n) /\ Cardinality(1 .. n) = n
  BY <1>1, FS_Interval
<1>9. place \in Surjection(S, 1 .. n)
  BY <1>7, <1>8, FS_Injection DEF n
<1>10. \A k \in 1 .. n : \E x \in S : place[x] = k
  BY <1>9 DEF Surjection
<1>11. {place[x] : x \in S} = 1 .. n
  BY <1>4, <1>10
<1> QED
  BY <1>6, <1>11 DEF n

-----------------------------------------------------------------------------
(* The days of a run that ends with d.                                       *)
RunOf(A, d) == {e \in A : e <= d /\ \A f \in e .. d : f \in A}

(* A day after the last one makes the run longer, or begins a new one.       *)
LEMMA RunGrows ==
    ASSUME NEW l \in Nat, NEW A, A \subseteq 1 .. l, NEW t \in Nat, l < t
    PROVE  /\ l = t - 1 => Cardinality(RunOf(A \cup {t}, t)) = Cardinality(RunOf(A, l)) + 1
           /\ l # t - 1 => Cardinality(RunOf(A \cup {t}, t)) = 1
           /\ Cardinality(RunOf(A, l)) \in Nat
<1>1. IsFiniteSet(RunOf(A, l)) /\ t \notin RunOf(A, l)
  <2>1. RunOf(A, l) \subseteq 1 .. l
    BY DEF RunOf
  <2>2. IsFiniteSet(1 .. l)
    BY FS_Interval
  <2> QED
    BY <2>1, <2>2, FS_Subset
<1>2. CASE l = t - 1
  <2>1. RunOf(A \cup {t}, t) = RunOf(A, l) \cup {t}
    <3>1. ASSUME NEW e \in RunOf(A \cup {t}, t), e # t PROVE e \in RunOf(A, l)
      <4>1. e \in A /\ e \in 1 .. l
        BY <3>1 DEF RunOf
      <4>2. \A f \in e .. l : f \in A \cup {t} /\ f # t
        BY <1>2, <3>1, <4>1 DEF RunOf
      <4> QED
        BY <4>1, <4>2 DEF RunOf
    <3>2. ASSUME NEW e \in RunOf(A, l) PROVE e \in RunOf(A \cup {t}, t)
      <4>1. e \in A /\ e \in 1 .. l /\ \A f \in e .. l : f \in A
        BY DEF RunOf
      <4>2. \A f \in e .. t : f \in e .. l \/ f = t
        BY <1>2, <4>1
      <4> QED
        BY <4>1, <4>2 DEF RunOf
    <3>3. t \in RunOf(A \cup {t}, t)
      <4>1. \A f \in t .. t : f = t
        OBVIOUS
      <4> QED
        BY <4>1 DEF RunOf
    <3> QED
      BY <3>1, <3>2, <3>3
  <2> QED
    BY <1>1, <1>2, <2>1, FS_AddElement, FS_CardinalityType
<1>3. CASE l # t - 1
  <2>1. RunOf(A \cup {t}, t) = {t}
    <3>1. ASSUME NEW e \in RunOf(A \cup {t}, t), e # t PROVE FALSE
      <4>1. e \in 1 .. l /\ \A f \in e .. t : f \in A \cup {t}
        BY <3>1 DEF RunOf
      <4>2. t - 1 \in e .. t /\ t - 1 \notin A \cup {t}
        BY <1>3, <4>1
      <4> QED
        BY <4>1, <4>2
    <3>2. t \in RunOf(A \cup {t}, t)
      <4>1. \A f \in t .. t : f = t
        OBVIOUS
      <4> QED
        BY <4>1 DEF RunOf
    <3> QED
      BY <3>1, <3>2
  <2> QED
    BY <1>1, <1>3, <2>1, FS_Singleton, FS_CardinalityType
<1> QED
  BY <1>2, <1>3, <1>1, FS_CardinalityType
=============================================================================
