-------------------------- MODULE SimulationProofs --------------------------
(***************************************************************************)
(* A simulation's seeds, chips, button and report, for every number of     *)
(* seats, hands and threads, every starting stacks and every order in      *)
(* which the threads play.                                                 *)
(*                                                                         *)
(* The model sums with the library's folds.  What such a fold computes is  *)
(* found by exhibiting a function that solves its recursion: the number of *)
(* chips in piles.  From there sums are reasoned about by induction over   *)
(* the subsets of a finite set, in the form of a least counterexample.     *)
(***************************************************************************)
EXTENDS Simulation, FiniteSetTheorems, WellFoundedInduction, TLAPS

-----------------------------------------------------------------------------
(* Induction *)

\* A non-empty set of naturals has a least element.
LEMMA LeastNatural ==
    ASSUME NEW T, T \subseteq Nat, T # {}
    PROVE  \E x \in T : \A y \in T : x <= y
<1>1. PICK x \in T : \A y \in T : ~ (<<y, x>> \in OpToRel(<, Nat))
    BY NatLessThanWellFounded, WFMin
<1>2. \A y \in T : ~ (y < x)
    BY <1>1 DEF OpToRel
<1> QED
    BY <1>2

\* A set of numbers with 0, and with the successor of each of its members.
LEMMA UpTo ==
    ASSUME NEW n \in Nat, NEW G, 0 \in G, \A k \in 0 .. n - 1 : k \in G => k + 1 \in G
    PROVE  \A k \in 0 .. n : k \in G
<1> DEFINE B == {k \in 0 .. n : k \notin G}
<1> SUFFICES ASSUME B # {} PROVE FALSE
    OBVIOUS
<1>1. PICK k \in B : \A j \in B : k <= j
    <2>1. B \subseteq Nat /\ B # {}
        OBVIOUS
    <2> HIDE DEF B
    <2> QED
        BY <2>1, LeastNatural
<1>2. k \in 0 .. n /\ k \notin G /\ k # 0
    OBVIOUS
<1>3. k - 1 \in 0 .. n - 1 /\ k - 1 \in G /\ (k - 1) + 1 = k
    BY <1>1, <1>2
<1> QED
    BY <1>2, <1>3

\* A collection with the empty set, and with each of its members one larger, has
\* every finite set.
LEMMA BySubsets ==
    ASSUME NEW A, IsFiniteSet(A), NEW G, {} \in G,
           \A T \in SUBSET A : T \in G => \A x \in A \ T : T \union {x} \in G
    PROVE  \A T \in SUBSET A : T \in G
<1> DEFINE B == {T \in SUBSET A : T \notin G}
           C == {Cardinality(T) : T \in B}
<1>1. \A T \in SUBSET A : IsFiniteSet(T) /\ Cardinality(T) \in Nat
    BY FS_Subset, FS_CardinalityType
<1> SUFFICES ASSUME B # {} PROVE FALSE
    OBVIOUS
<1>2. C \subseteq Nat /\ C # {}
    BY <1>1
<1> HIDE DEF C
<1>3. PICK n \in C : \A m \in C : n <= m
    BY <1>2, LeastNatural
<1>4. PICK T \in B : n = Cardinality(T)
    BY DEF C
<1>5. PICK x : x \in T
    OBVIOUS
<1>6. IsFiniteSet(T) /\ Cardinality(T \ {x}) = Cardinality(T) - 1
    BY <1>1, <1>5, FS_RemoveElement
<1>7. T \ {x} \in SUBSET A /\ T \ {x} \notin B
    <2>1. T \ {x} \in SUBSET A
        OBVIOUS
    <2>2. SUFFICES ASSUME T \ {x} \in B PROVE FALSE
        BY <2>1
    <2>3. Cardinality(T \ {x}) \in C
        BY <2>2 DEF C
    <2>4. Cardinality(T) \in Nat /\ Cardinality(T) <= Cardinality(T) - 1
        BY <1>1, <1>3, <1>4, <1>6, <2>3
    <2> QED
        BY <2>4
<1>8. T \ {x} \in G /\ x \in A \ (T \ {x}) /\ (T \ {x}) \union {x} = T
    BY <1>5, <1>7
<1> QED
    BY <1>7, <1>8

-----------------------------------------------------------------------------
(* Sums *)

\* f[a] chips for every a, and minus f[a] where that is what f[a] is.
Piles(f, T) == {p \in T \X Nat : 1 <= p[2] /\ p[2] <= f[p[1]]}
Debts(f, T) == {p \in T \X Nat : 1 <= p[2] /\ p[2] <= - f[p[1]]}
Net(f, T) == Cardinality(Piles(f, T)) - Cardinality(Debts(f, T))

\* One more pile.
LEMMA OnePile ==
    ASSUME NEW P, IsFiniteSet(P), NEW x, NEW n \in Nat, \A p \in P : p[1] # x
    PROVE  /\ IsFiniteSet(P \union ({x} \X (1 .. n)))
           /\ Cardinality(P \union ({x} \X (1 .. n))) = Cardinality(P) + n
<1> DEFINE I == 1 .. n
           X == {x} \X I
<1>1. IsFiniteSet(I) /\ Cardinality(I) = n
    <2>1. 1 \in Int /\ n \in Int
        OBVIOUS
    <2> QED
        BY <2>1, FS_Interval
<1>2. IsFiniteSet({x}) /\ Cardinality({x}) = 1
    BY FS_Singleton
<1>3. P \cap X = {}
    OBVIOUS
<1> HIDE DEF I
<1>4. IsFiniteSet(X) /\ Cardinality(X) = Cardinality({x}) * Cardinality(I)
    BY <1>1, <1>2, FS_Product
<1>5. Cardinality(X) = n
    BY <1>1, <1>2, <1>4
<1> HIDE DEF X
<1>6. Cardinality(P \cap X) = 0
    BY <1>3, FS_EmptySet
<1>7. Cardinality(P) \in Nat
    BY FS_CardinalityType
<1>8. /\ IsFiniteSet(P \union X)
      /\ Cardinality(P \union X) = Cardinality(P) + Cardinality(X) - Cardinality(P \cap X)
    BY <1>4, FS_Union
<1>9. IsFiniteSet(P \union X) /\ Cardinality(P \union X) = Cardinality(P) + n
    BY <1>5, <1>6, <1>7, <1>8
<1> QED
    BY <1>9 DEF X, I

\* One more summand.
LEMMA OneMore ==
    ASSUME NEW A, NEW f \in [A -> Int], NEW T \in SUBSET A, NEW x \in A \ T,
           IsFiniteSet(Piles(f, T)), IsFiniteSet(Debts(f, T))
    PROVE  /\ IsFiniteSet(Piles(f, T \union {x})) /\ IsFiniteSet(Debts(f, T \union {x}))
           /\ Net(f, T \union {x}) = f[x] + Net(f, T)
<1> DEFINE U == T \union {x}
           up == IF f[x] >= 0 THEN f[x] ELSE 0
           down == IF f[x] >= 0 THEN 0 ELSE - f[x]
<1>1. f[x] \in Int /\ up \in Nat /\ down \in Nat /\ up - down = f[x]
    OBVIOUS
<1>2. Piles(f, U) = Piles(f, T) \union ({x} \X (1 .. up)) /\ \A p \in Piles(f, T) : p[1] # x
    BY DEF Piles
<1>3. Debts(f, U) = Debts(f, T) \union ({x} \X (1 .. down)) /\ \A p \in Debts(f, T) : p[1] # x
    BY DEF Debts
<1> HIDE DEF U, up, down
<1>4. IsFiniteSet(Piles(f, U)) /\ Cardinality(Piles(f, U)) = Cardinality(Piles(f, T)) + up
    <2> DEFINE P == Piles(f, T)
    <2>1. IsFiniteSet(P) /\ \A p \in P : p[1] # x
        BY <1>2
    <2> HIDE DEF P
    <2>2. /\ IsFiniteSet(P \union ({x} \X (1 .. up)))
          /\ Cardinality(P \union ({x} \X (1 .. up))) = Cardinality(P) + up
        BY <1>1, <2>1, OnePile
    <2> QED
        BY <1>2, <2>2 DEF P
<1>5. IsFiniteSet(Debts(f, U)) /\ Cardinality(Debts(f, U)) = Cardinality(Debts(f, T)) + down
    <2> DEFINE P == Debts(f, T)
    <2>1. IsFiniteSet(P) /\ \A p \in P : p[1] # x
        BY <1>3
    <2> HIDE DEF P
    <2>2. /\ IsFiniteSet(P \union ({x} \X (1 .. down)))
          /\ Cardinality(P \union ({x} \X (1 .. down))) = Cardinality(P) + down
        BY <1>1, <2>1, OnePile
    <2> QED
        BY <1>3, <2>2 DEF P
<1>6. Cardinality(Piles(f, T)) \in Nat /\ Cardinality(Debts(f, T)) \in Nat
    BY FS_CardinalityType
<1>7. Net(f, U) = f[x] + Net(f, T)
    BY <1>1, <1>4, <1>5, <1>6 DEF Net
<1> QED
    BY <1>4, <1>5, <1>7 DEF U

\* The net of a finite set of summands is a number, in whatever order they are taken.
LEMMA NetSteps ==
    ASSUME NEW A, IsFiniteSet(A), NEW f \in [A -> Int]
    PROVE  /\ Net(f, {}) = 0
           /\ \A T \in SUBSET A : Net(f, T) \in Int
           /\ \A T \in SUBSET A : \A x \in A \ T : Net(f, T \union {x}) = f[x] + Net(f, T)
<1> DEFINE G == {T \in SUBSET A : IsFiniteSet(Piles(f, T)) /\ IsFiniteSet(Debts(f, T))}
<1>1. Piles(f, {}) = {} /\ Debts(f, {}) = {}
    BY DEF Piles, Debts
<1>2. {} \in G /\ Net(f, {}) = 0
    BY <1>1, FS_EmptySet DEF Net
<1>3. ASSUME NEW T \in SUBSET A, T \in G, NEW x \in A \ T PROVE T \union {x} \in G
    BY <1>3, OneMore
<1>4. \A T \in SUBSET A : T \in G
    <2> HIDE DEF G
    <2> QED
        BY <1>2, <1>3, BySubsets
<1>5. \A T \in SUBSET A : Net(f, T) \in Int
    <2>1. ASSUME NEW T \in SUBSET A PROVE Net(f, T) \in Int
        <3>1. IsFiniteSet(Piles(f, T)) /\ IsFiniteSet(Debts(f, T))
            BY <1>4
        <3>2. Cardinality(Piles(f, T)) \in Nat /\ Cardinality(Debts(f, T)) \in Nat
            BY <3>1, FS_CardinalityType
        <3> QED
            BY <3>2 DEF Net
    <2> QED
        BY <2>1
<1>6. ASSUME NEW T \in SUBSET A, NEW x \in A \ T PROVE Net(f, T \union {x}) = f[x] + Net(f, T)
    BY <1>4, OneMore
<1> QED
    BY <1>2, <1>5, <1>6

\* SumFunction's fold computes the net.
LEMMA SumIsNet ==
    ASSUME NEW A, IsFiniteSet(A), NEW f \in [A -> Int]
    PROVE  SumFunction(f) = Net(f, A)
<1> DEFINE Pick(s) == CHOOSE x \in s : TRUE
           Step(g) == [s \in SUBSET A |-> IF s = {} THEN 0 ELSE f[Pick(s)] + g[s \ {Pick(s)}]]
           F == CHOOSE g : g = Step(g)
           h == [s \in SUBSET A |-> Net(f, s)]
<1>1. SumFunction(f) = F[A]
    <2>1. DOMAIN f = A
        OBVIOUS
    <2> QED
        BY <2>1 DEF SumFunction, SumFunctionOnSet, FoldFunctionOnSet, MapThenFoldSet
<1>2. \A s \in SUBSET A : s # {} => Pick(s) \in s
    OBVIOUS
<1> HIDE DEF Pick
<1>3. h = Step(h)
    <2>1. ASSUME NEW s \in SUBSET A, s # {} PROVE Net(f, s) = f[Pick(s)] + Net(f, s \ {Pick(s)})
        <3> DEFINE x == Pick(s)
                   q == s \ {x}
        <3>1. q \in SUBSET A /\ x \in A \ q /\ q \union {x} = s
            BY <1>2, <2>1
        <3> HIDE DEF x, q
        <3>2. Net(f, q \union {x}) = f[x] + Net(f, q)
            BY <3>1, NetSteps
        <3> QED
            BY <3>1, <3>2 DEF x, q
    <2>2. Net(f, {}) = 0
        BY NetSteps
    <2>3. \A s \in SUBSET A : h[s] = Step(h)[s]
        BY <2>1, <2>2
    <2> QED
        BY <2>3
<1>4. F = Step(F)
    <2> HIDE DEF Step, h
    <2> QED
        BY <1>3
<1> HIDE DEF F
<1>5. F[{}] = 0
    BY <1>4
<1>6. \A s \in SUBSET A : s # {} => F[s] = f[Pick(s)] + F[s \ {Pick(s)}]
    BY <1>4
<1> DEFINE B == {s \in SUBSET A : F[s] # Net(f, s)}
           C == {Cardinality(s) : s \in B}
<1>7. \A s \in SUBSET A : IsFiniteSet(s) /\ Cardinality(s) \in Nat
    BY FS_Subset, FS_CardinalityType
<1>8. SUFFICES ASSUME B # {} PROVE FALSE
    BY <1>1
<1>9. C \subseteq Nat /\ C # {}
    BY <1>7, <1>8
<1>10. PICK s \in B : \A q \in B : Cardinality(s) <= Cardinality(q)
    <2>1. PICK n \in C : \A m \in C : n <= m
        <3> HIDE DEF C
        <3> QED
            BY <1>9, LeastNatural
    <2> QED
        BY <2>1
<1> DEFINE x == Pick(s)
           q == s \ {x}
<1>11. s # {}
    BY <1>5, NetSteps
<1>12. x \in s /\ q \in SUBSET A /\ x \in A \ q /\ q \union {x} = s
    BY <1>2, <1>11
<1>13. q \notin B
    <2>1. Cardinality(q) = Cardinality(s) - 1 /\ Cardinality(s) \in Nat
        BY <1>7, <1>12, FS_RemoveElement
    <2>2. Cardinality(q) < Cardinality(s)
        BY <2>1
    <2> HIDE DEF q, x, B
    <2> QED
        BY <1>7, <1>10, <1>12, <2>1
<1>14. F[q] = Net(f, q)
    BY <1>12, <1>13
<1>15. F[s] = f[x] + F[q]
    BY <1>6, <1>11
<1>16. F[s] # Net(f, s)
    OBVIOUS
<1> HIDE DEF q, x
<1>17. Net(f, q \union {x}) = f[x] + Net(f, q)
    BY <1>12, NetSteps
<1> QED
    BY <1>12, <1>14, <1>15, <1>16, <1>17

\* Summing two functions at once.
LEMMA NetAdd ==
    ASSUME NEW A, IsFiniteSet(A), NEW f \in [A -> Int], NEW g \in [A -> Int], NEW h \in [A -> Int],
           \A a \in A : h[a] = f[a] + g[a]
    PROVE  Net(h, A) = Net(f, A) + Net(g, A)
<1> DEFINE G == {T \in SUBSET A : Net(h, T) = Net(f, T) + Net(g, T)}
<1>1. {} \in G
    <2>1. Net(f, {}) = 0 /\ Net(g, {}) = 0 /\ Net(h, {}) = 0
        BY NetSteps
    <2> QED
        BY <2>1
<1>2. ASSUME NEW T \in SUBSET A, T \in G, NEW x \in A \ T PROVE T \union {x} \in G
    <2>1. Net(f, T \union {x}) = f[x] + Net(f, T) /\ Net(f, T) \in Int
        BY NetSteps
    <2>2. Net(g, T \union {x}) = g[x] + Net(g, T) /\ Net(g, T) \in Int
        BY NetSteps
    <2>3. Net(h, T \union {x}) = h[x] + Net(h, T) /\ Net(h, T) \in Int
        BY NetSteps
    <2>4. Net(h, T) = Net(f, T) + Net(g, T) /\ f[x] \in Int /\ g[x] \in Int /\ h[x] = f[x] + g[x]
        BY <1>2
    <2>5. Net(h, T \union {x}) = Net(f, T \union {x}) + Net(g, T \union {x})
        BY <2>1, <2>2, <2>3, <2>4
    <2> QED
        BY <2>5
<1>3. \A T \in SUBSET A : T \in G
    <2> HIDE DEF G
    <2> QED
        BY <1>1, <1>2, BySubsets
<1> QED
    BY <1>3

\* A sum depends on the summands only.
LEMMA NetSame ==
    ASSUME NEW f, NEW g, NEW T, \A a \in T : f[a] = g[a]
    PROVE  Net(f, T) = Net(g, T)
<1>1. Piles(f, T) = Piles(g, T) /\ Debts(f, T) = Debts(g, T)
    BY DEF Piles, Debts
<1> QED
    BY <1>1 DEF Net

\* A sum of zeros is zero.
LEMMA NetOfZeros ==
    ASSUME NEW f, NEW T, \A a \in T : f[a] = 0
    PROVE  Net(f, T) = 0
<1>1. Piles(f, T) = {} /\ Debts(f, T) = {}
    BY DEF Piles, Debts
<1> QED
    BY <1>1, FS_EmptySet DEF Net

\* Losses add up to a loss.
LEMMA NoGain ==
    ASSUME NEW A, IsFiniteSet(A), NEW f \in [A -> Int], \A a \in A : f[a] <= 0
    PROVE  Net(f, A) <= 0
<1> DEFINE G == {T \in SUBSET A : Net(f, T) <= 0}
<1>1. {} \in G
    BY NetSteps
<1>2. ASSUME NEW T \in SUBSET A, T \in G, NEW y \in A \ T PROVE T \union {y} \in G
    <2>1. Net(f, T \union {y}) = f[y] + Net(f, T) /\ Net(f, T) \in Int
        BY NetSteps
    <2> QED
        BY <1>2, <2>1
<1>3. \A T \in SUBSET A : T \in G
    <2> HIDE DEF G
    <2> QED
        BY <1>1, <1>2, BySubsets
<1> QED
    BY <1>3

\* No summand is larger than a sum of naturals.
LEMMA PartOfNet ==
    ASSUME NEW A, IsFiniteSet(A), NEW f \in [A -> Nat], NEW x \in A
    PROVE  Net(f, A) \in Int /\ f[x] <= Net(f, A)
<1> DEFINE G == {T \in SUBSET A : Net(f, T) >= 0}
<1>1. \A T \in SUBSET A : Net(f, T) \in Int
    BY NetSteps
<1>2. {} \in G
    BY NetSteps
<1>3. ASSUME NEW T \in SUBSET A, T \in G, NEW y \in A \ T PROVE T \union {y} \in G
    <2>1. Net(f, T \union {y}) = f[y] + Net(f, T)
        BY NetSteps
    <2> QED
        BY <1>1, <1>3, <2>1
<1>4. \A T \in SUBSET A : T \in G
    <2> HIDE DEF G
    <2> QED
        BY <1>2, <1>3, BySubsets
<1> DEFINE q == A \ {x}
<1>5. q \in SUBSET A /\ x \in A \ q /\ q \union {x} = A
    OBVIOUS
<1>6. Net(f, q) >= 0
    BY <1>4, <1>5
<1> HIDE DEF q
<1>7. Net(f, q \union {x}) = f[x] + Net(f, q)
    BY <1>5, NetSteps
<1> QED
    BY <1>1, <1>5, <1>6, <1>7

\* The entries of the rows in T, added up column by column.
Columns(D, A, B, T) == [b \in B |-> Net([a \in A |-> D[a][b]], T)]

\* Rows without a gain add up to a row without a gain, and rows that sum to
\* nothing to a row that sums to nothing.
LEMMA RowsAdded ==
    ASSUME NEW A, IsFiniteSet(A), NEW B, IsFiniteSet(B), NEW D \in [A -> [B -> Int]],
           \A a \in A : Net(D[a], B) <= 0
    PROVE  /\ Columns(D, A, B, A) \in [B -> Int] /\ Net(Columns(D, A, B, A), B) <= 0
           /\ (\A a \in A : Net(D[a], B) = 0) => Net(Columns(D, A, B, A), B) = 0
<1> DEFINE Even == \A a \in A : Net(D[a], B) = 0
           G == {T \in SUBSET A : Net(Columns(D, A, B, T), B) <= 0
                                  /\ (Even => Net(Columns(D, A, B, T), B) = 0)}
<1>1. ASSUME NEW b \in B PROVE [a \in A |-> D[a][b]] \in [A -> Int]
    OBVIOUS
<1>2. \A T \in SUBSET A : Columns(D, A, B, T) \in [B -> Int]
    <2>1. ASSUME NEW T \in SUBSET A, NEW b \in B PROVE Net([a \in A |-> D[a][b]], T) \in Int
        BY <1>1, NetSteps
    <2> QED
        BY <2>1 DEF Columns
<1>3. {} \in G
    <2>1. \A b \in B : Columns(D, A, B, {})[b] = 0
        <3>1. ASSUME NEW b \in B PROVE Net([a \in A |-> D[a][b]], {}) = 0
            BY <1>1, NetSteps
        <3> QED
            BY <3>1 DEF Columns
    <2>2. Net(Columns(D, A, B, {}), B) = 0
        BY <2>1, NetOfZeros
    <2> QED
        BY <2>2
<1>4. ASSUME NEW T \in SUBSET A, T \in G, NEW x \in A \ T PROVE T \union {x} \in G
    <2> DEFINE f == D[x]
               g == Columns(D, A, B, T)
               h == Columns(D, A, B, T \union {x})
    <2>1. f \in [B -> Int] /\ g \in [B -> Int] /\ h \in [B -> Int]
        <3>1. T \union {x} \in SUBSET A
            OBVIOUS
        <3> QED
            BY <1>2, <3>1
    <2>2. ASSUME NEW b \in B PROVE h[b] = f[b] + g[b]
        <3> DEFINE c == [a \in A |-> D[a][b]]
        <3>1. c \in [A -> Int] /\ c[x] = D[x][b]
            OBVIOUS
        <3>2. g[b] = Net(c, T) /\ h[b] = Net(c, T \union {x})
            BY DEF Columns
        <3> HIDE DEF c, g, h
        <3>3. Net(c, T \union {x}) = c[x] + Net(c, T)
            BY <3>1, NetSteps
        <3> QED
            BY <3>1, <3>2, <3>3
    <2>3. Net(f, B) <= 0 /\ Net(g, B) <= 0 /\ (Even => Net(f, B) = 0 /\ Net(g, B) = 0)
        BY <1>4
    <2> HIDE DEF f, g, h, Even
    <2>4. Net(h, B) = Net(f, B) + Net(g, B) /\ Net(f, B) \in Int /\ Net(g, B) \in Int
        BY <2>1, <2>2, NetAdd, NetSteps
    <2>5. Net(h, B) <= 0 /\ (Even => Net(h, B) = 0)
        BY <2>3, <2>4
    <2> QED
        BY <2>5 DEF h
<1>5. \A T \in SUBSET A : T \in G
    <2> HIDE DEF G
    <2> QED
        BY <1>3, <1>4, BySubsets
<1> QED
    BY <1>2, <1>5

-----------------------------------------------------------------------------
(* The division of the hands among the threads *)

\* Thread t starts after t whole shares and the remainders before it.
Before(hands, threads, t) ==
    t * (hands \div threads) + (IF t <= hands % threads THEN t ELSE hands % threads)

\* Whole shares and a remainder make up the hands.
LEMMA Division ==
    ASSUME NEW h \in Nat, NEW n \in Nat \ {0}
    PROVE  /\ h \div n \in Nat /\ h % n \in 0 .. n - 1
           /\ n * (h \div n) + (h % n) = h
OBVIOUS

\* A thread's share is the distance to the next.
LEMMA BeforeNext ==
    ASSUME NEW h \in Nat, NEW n \in Nat \ {0}, NEW t \in Nat
    PROVE  /\ Share(h, n, t) \in Nat /\ Before(h, n, t) \in Nat
           /\ Before(h, n, t + 1) = Share(h, n, t) + Before(h, n, t)
<1> DEFINE q == h \div n
           r == h % n
<1>1. q \in Nat /\ r \in Nat
    BY Division
<1>2. Share(h, n, t) = q + (IF t < r THEN 1 ELSE 0)
    BY DEF Share
<1>3. Before(h, n, t) = t * q + (IF t <= r THEN t ELSE r)
    BY DEF Before
<1>4. Before(h, n, t + 1) = (t + 1) * q + (IF t + 1 <= r THEN t + 1 ELSE r)
    BY DEF Before
<1> HIDE DEF q, r
<1>5. t * q \in Nat /\ (t + 1) * q = t * q + q
    BY <1>1
<1> QED
    BY <1>1, <1>2, <1>3, <1>4, <1>5

\* Later threads start where the earlier ones have ended, and the last one ends
\* with the last hand.
LEMMA BeforeOrder ==
    ASSUME NEW h \in Nat, NEW n \in Nat \ {0}
    PROVE  /\ Before(h, n, 0) = 0 /\ Before(h, n, n) = h
           /\ \A t, u \in Nat : t < u => Before(h, n, t) + Share(h, n, t) <= Before(h, n, u)
<1> DEFINE q == h \div n
           r == h % n
<1>1. q \in Nat /\ r \in 0 .. n - 1 /\ n * q + r = h
    BY Division
<1>2. \A t \in Nat : Before(h, n, t) = t * q + (IF t <= r THEN t ELSE r)
    BY DEF Before
<1>3. \A t \in Nat : Share(h, n, t) = q + (IF t < r THEN 1 ELSE 0)
    BY DEF Share
<1> HIDE DEF q, r
<1>4. Before(h, n, 0) = 0 /\ Before(h, n, n) = h
    BY <1>1, <1>2
<1>5. ASSUME NEW t \in Nat, NEW u \in Nat, t < u
      PROVE  Before(h, n, t) + Share(h, n, t) <= Before(h, n, u)
    <2>1. PICK k \in Nat : u = t + 1 + k
        <3>1. u - t - 1 \in Nat /\ u = t + 1 + (u - t - 1)
            BY <1>5
        <3> QED
            BY <3>1
    <2>2. u * q = t * q + q + k * q /\ k * q \in Nat /\ t * q \in Nat
        BY <1>1, <2>1
    <2> QED
        BY <1>1, <1>2, <1>3, <2>1, <2>2
<1> QED
    BY <1>4, <1>5

\* thread_config's offset.
LEMMA OffsetIs ==
    ASSUME NEW h \in Nat, NEW n \in Nat \ {0}, NEW t \in 0 .. n
    PROVE  Offset(h, n, t) = Before(h, n, t)
<1> DEFINE f == [i \in 0 .. n - 1 |-> Share(h, n, i)]
           G == {k \in 0 .. n : Net(f, 0 .. k - 1) = Before(h, n, k)}
           A == 0 .. n - 1
<1>1. f \in [A -> Int] /\ IsFiniteSet(A)
    <2>1. \A i \in A : Share(h, n, i) \in Int
        BY BeforeNext
    <2>2. 0 \in Int /\ n - 1 \in Int
        OBVIOUS
    <2>3. IsFiniteSet(A)
        BY <2>2, FS_Interval
    <2> QED
        BY <2>1, <2>3
<1>2. /\ Net(f, {}) = 0
       /\ \A T \in SUBSET A : \A x \in A \ T : Net(f, T \union {x}) = f[x] + Net(f, T)
    <2> HIDE DEF A, f
    <2> QED
        BY <1>1, NetSteps
<1>3. 0 \in G
    <2>1. 0 .. 0 - 1 = {} /\ Before(h, n, 0) = 0
        BY BeforeOrder
    <2> QED
        BY <1>2, <2>1
<1>4. ASSUME NEW k \in 0 .. n - 1, k \in G PROVE k + 1 \in G
    <2>1. 0 .. (k + 1) - 1 = (0 .. k - 1) \union {k}
        OBVIOUS
    <2>2. 0 .. k - 1 \in SUBSET A /\ k \in A \ (0 .. k - 1)
        OBVIOUS
    <2>3. f[k] = Share(h, n, k)
        OBVIOUS
    <2>4. Net(f, (0 .. k - 1) \union {k}) = f[k] + Net(f, 0 .. k - 1)
        <3> DEFINE T == 0 .. k - 1
        <3>1. T \in SUBSET A /\ k \in A \ T
            BY <2>2
        <3> HIDE DEF A, f, T
        <3>2. Net(f, T \union {k}) = f[k] + Net(f, T)
            BY <1>2, <3>1
        <3> QED
            BY <3>2 DEF T
    <2>5. Before(h, n, k + 1) = Share(h, n, k) + Before(h, n, k)
        BY BeforeNext
    <2>6. Net(f, 0 .. k - 1) = Before(h, n, k)
        BY <1>4
    <2>7. k + 1 \in 0 .. n
        OBVIOUS
    <2> HIDE DEF f
    <2>8. Net(f, 0 .. (k + 1) - 1) = Before(h, n, k + 1)
        BY <2>1, <2>3, <2>4, <2>5, <2>6
    <2> QED
        BY <2>7, <2>8
<1>5. t \in G
    <2> HIDE DEF G
    <2> QED
        BY <1>3, <1>4, UpTo
<1> DEFINE B == 0 .. t - 1
           g == [i \in B |-> Share(h, n, i)]
<1>6. g \in [B -> Int] /\ IsFiniteSet(B)
    <2>1. \A i \in B : Share(h, n, i) \in Int
        BY BeforeNext
    <2>2. 0 \in Int /\ t - 1 \in Int
        OBVIOUS
    <2>3. IsFiniteSet(B)
        BY <2>2, FS_Interval
    <2> QED
        BY <2>1, <2>3
<1>7. \A i \in B : g[i] = f[i]
    OBVIOUS
<1>8. Offset(h, n, t) = SumFunction(g)
    BY DEF Offset
<1>9. Net(f, B) = Before(h, n, t)
    BY <1>5
<1> HIDE DEF f, g, B
<1>10. SumFunction(g) = Net(g, B) /\ Net(g, B) = Net(f, B)
    BY <1>6, <1>7, SumIsNet, NetSame
<1> QED
    BY <1>8, <1>9, <1>10

\* SimResult::merge: the threads' hands are the run's.
LEMMA MergedHands ==
    ASSUME NEW h \in Nat, NEW n \in Nat \ {0}, NEW f \in [1 .. n -> Int],
           \A t \in 1 .. n : f[t] = Share(h, n, t - 1)
    PROVE  SumFunction(f) = h
<1> DEFINE A == 1 .. n
           G == {k \in 0 .. n : Net(f, 1 .. k) = Before(h, n, k)}
<1>1. IsFiniteSet(A) /\ f \in [A -> Int]
    <2>1. 1 \in Int /\ n \in Int
        OBVIOUS
    <2> QED
        BY <2>1, FS_Interval
<1>2. /\ Net(f, {}) = 0
      /\ \A T \in SUBSET A : \A x \in A \ T : Net(f, T \union {x}) = f[x] + Net(f, T)
    <2> HIDE DEF A
    <2> QED
        BY <1>1, NetSteps
<1>3. 0 \in G
    <2>1. 1 .. 0 = {} /\ Before(h, n, 0) = 0
        BY BeforeOrder
    <2> QED
        BY <1>2, <2>1
<1>4. ASSUME NEW k \in 0 .. n - 1, k \in G PROVE k + 1 \in G
    <2> DEFINE T == 1 .. k
               x == k + 1
    <2>1. 1 .. x = T \union {x} /\ T \in SUBSET A /\ x \in A \ T
        OBVIOUS
    <2>2. f[x] = Share(h, n, k)
        <3>1. x \in 1 .. n /\ x - 1 = k
            OBVIOUS
        <3> QED
            BY <3>1
    <2>3. Before(h, n, x) = Share(h, n, k) + Before(h, n, k)
        BY BeforeNext
    <2>4. Net(f, T) = Before(h, n, k) /\ x \in 0 .. n
        BY <1>4
    <2> HIDE DEF A, T, x
    <2>5. Net(f, T \union {x}) = f[x] + Net(f, T)
        BY <1>2, <2>1
    <2>6. x \in G
        BY <2>1, <2>2, <2>3, <2>4, <2>5
    <2> QED
        BY <2>6 DEF x
<1>5. n \in G
    <2>1. n \in Nat /\ n \in 0 .. n
        OBVIOUS
    <2> HIDE DEF G
    <2>2. \A k \in 0 .. n : k \in G
        BY <1>3, <1>4, <2>1, UpTo
    <2> QED
        BY <2>1, <2>2
<1>6. Net(f, A) = h
    BY <1>5, BeforeOrder
<1> HIDE DEF A
<1> QED
    BY <1>1, <1>6, SumIsNet

-----------------------------------------------------------------------------
(* The inductive invariant *)

RunnerType ==
    [stacks : [Seats -> Nat], dealer : Seats, hands : Nat, seed : Nat, hand_idx : Nat,
     deltas : [Seats -> Int], playing : BOOLEAN]

StatsType ==
    [hands_dealt : Nat, hands_won : Nat, chip_delta_total : Int, vpip_hands : Nat,
     pfr_hands : Nat, aggressive_actions : Nat, passive_actions : Nat, total_pot : Int]

SimTypes ==
    /\ args \in [hands : Nat, threads : Nat \ {0}, policy : {"Reset", "Persistent"}]
    /\ args.threads <= MaxThreads
    /\ phase \in {"Parallel", "Watched", "Reported"}
    /\ runner \in [Runners -> RunnerType]
    /\ stats \in [Seats -> StatsType]
    /\ hand = [street |-> hand.street, vpip |-> hand.vpip, pfr |-> hand.pfr, acts |-> hand.acts]
    /\ hand.acts \in Nat
    /\ seeds \in [Runners -> Seq(Nat)]
    /\ total.chip_deltas \in [Seats -> Int]

\* The starting stacks, and what was won since if they carry over.
Expected(policy, r, s) == starting_stacks[s] + (IF policy = "Persistent" THEN r.deltas[s] ELSE 0)

\* The stacks of the next hand, and that one seat at most has some.
NextStacks(policy, r) == IF policy = "Reset" THEN starting_stacks ELSE r.stacks
OneAtMost(policy, r) == \E s \in Seats : \A q \in Seats : q # s => NextStacks(policy, r)[q] = 0

\* Chips are lost only by a seat that plays alone.
NoGains(policy, r) == Net(r.deltas, Seats) <= 0 /\ (Net(r.deltas, Seats) < 0 => OneAtMost(policy, r))

\* A runner in the middle of its run.
Sound(policy, r) ==
    /\ r.hand_idx <= r.hands /\ (r.playing => r.hand_idx < r.hands)
    /\ NoGains(policy, r) /\ \A s \in Seats : r.stacks[s] = Expected(policy, r, s)
    /\ starting_stacks[0] > 0 => r.stacks[r.dealer] > 0

\* The seeds so far, one for each hand, that of the hand being played included.
Begun(r) == r.hand_idx + (IF r.playing THEN 1 ELSE 0)
Listed(r, list) == Len(list) = Begun(r) /\ \A i \in 1 .. Begun(r) : list[i] = r.seed + (i - 1)

Threads == 1 .. args.threads
Split ==
    args.threads > 1 =>
        /\ \A t \in Threads :
              /\ runner[t].hands = Share(args.hands, args.threads, t - 1)
              /\ runner[t].seed = BaseSeed + Before(args.hands, args.threads, t - 1)
              /\ Listed(runner[t], seeds[t])
        /\ phase # "Parallel" =>
              (\A t \in Threads : Done(t)) /\ total.hands_played = args.hands

Merged ==
    /\ Net(total.chip_deltas, Seats) <= 0
    /\ Net(total.chip_deltas, Seats) < 0 =>
          phase # "Parallel" /\ args.threads > 1 /\ \E t \in Threads : Net(runner[t].deltas, Seats) < 0

\* The counts of a seat fit into one another.
Nested(x) == x.pfr_hands <= x.vpip_hands /\ x.vpip_hands <= x.hands_dealt /\ x.hands_won <= x.hands_dealt

\* Before and during the run with the sink, the sink has what its runner has.
Fresh == ~ runner[0].playing /\ runner[0].hand_idx = 0 /\ runner[0].deltas = Zero
Watching ==
    /\ phase = "Parallel" => args.threads > 1 /\ Fresh
    /\ phase = "Reported" => ~ runner[0].playing
    /\ phase = "Watched" => runner[0].hands = IF args.threads <= 1 THEN args.hands ELSE SampleHands
    /\ hand.pfr \subseteq hand.vpip
    /\ phase # "Reported" /\ args.policy = "Reset" =>
          \A s \in Seats :
              /\ stats[s].chip_delta_total = runner[0].deltas[s]
              /\ starting_stacks[s] > 0 => stats[s].hands_dealt = runner[0].hand_idx
              /\ Nested(stats[s])

SimInv ==
    /\ SimTypes /\ (\A t \in Runners : Sound(args.policy, runner[t])) /\ Split /\ Merged /\ Watching
    /\ ReportAgrees

-----------------------------------------------------------------------------
(* Runners *)

\* There are finitely many seats, and the first has the button at the start.
LEMMA SeatsFinite == IsFiniteSet(Seats) /\ 0 \in Seats /\ N \in Nat \ {0}
<1>1. N \in Nat \ {0} /\ 0 \in Int /\ N - 1 \in Int
    BY SimulationAssumption
<1> QED
    BY <1>1, FS_Interval DEF Seats

\* The clamp at zero.
LEMMA AtLeastZero == \A x \in Int : Max({x, 0}) = IF x >= 0 THEN x ELSE 0
<1> SUFFICES ASSUME NEW x \in Int PROVE Max({x, 0}) = IF x >= 0 THEN x ELSE 0
    OBVIOUS
<1>1. \E y \in {x, 0} : \A z \in {x, 0} : y >= z
    OBVIOUS
<1>2. Max({x, 0}) \in {x, 0} /\ \A z \in {x, 0} : Max({x, 0}) >= z
    BY <1>1 DEF Max
<1> QED
    BY <1>2

\* next_dealer finds a seat with chips, if there is one.
LEMMA DealerFound ==
    ASSUME NEW stacks \in [Seats -> Nat], NEW current \in Seats
    PROVE  /\ next_dealer(current, stacks) \in Seats
           /\ (\E s \in Seats : stacks[s] > 0) => stacks[next_dealer(current, stacks)] > 0
<1> DEFINE C == {s \in Seats : stacks[s] > 0}
           D == {Distance(current, s) : s \in C}
<1>1. CASE C = {}
    BY <1>1 DEF next_dealer
<1>2. CASE C # {}
    <2>1. \A s \in Seats : Distance(current, s) \in Nat
        BY SeatsFinite DEF Distance, Seats
    <2>2. D \subseteq Nat /\ D # {}
        BY <1>2, <2>1
    <2>3. PICK d \in D : \A e \in D : d <= e
        <3> HIDE DEF D
        <3> QED
            BY <2>2, LeastNatural
    <2>4. \E s \in Seats : /\ stacks[s] > 0
                           /\ \A q \in Seats : stacks[q] > 0 => Distance(current, s) <= Distance(current, q)
        BY <2>3
    <2> QED
        BY <1>2, <2>4 DEF next_dealer
<1> QED
    BY <1>1, <1>2

\* A new runner.
LEMMA NewRunner ==
    ASSUME NEW policy, NEW h \in Nat, NEW seed \in Nat
    PROVE  /\ Runner(h, seed) \in RunnerType /\ Sound(policy, Runner(h, seed))
           /\ Listed(Runner(h, seed), <<>>) /\ Runner(h, seed).hands = h /\ Runner(h, seed).seed = seed
           /\ Runner(h, seed).hand_idx = 0 /\ Runner(h, seed).deltas = Zero /\ ~ Runner(h, seed).playing
<1> DEFINE r == Runner(h, seed)
<1>1. /\ r.stacks = starting_stacks /\ r.dealer = 0 /\ r.hands = h /\ r.seed = seed
      /\ r.hand_idx = 0 /\ r.deltas = Zero /\ r.playing = FALSE
      /\ r = [stacks |-> r.stacks, dealer |-> r.dealer, hands |-> r.hands, seed |-> r.seed,
              hand_idx |-> r.hand_idx, deltas |-> r.deltas, playing |-> r.playing]
    BY DEF Runner
<1>2. Zero \in [Seats -> Int] /\ (\A s \in Seats : Zero[s] = 0) /\ starting_stacks \in [Seats -> Nat]
    BY SimulationAssumption DEF Zero
<1>3. r \in RunnerType
    BY <1>2, SeatsFinite DEF Runner, RunnerType
<1> HIDE DEF r
<1>4. Net(r.deltas, Seats) = 0
    BY <1>1, <1>2, NetOfZeros
<1>5. Sound(policy, r)
    BY <1>1, <1>2, <1>4 DEF Sound, NoGains, Expected
<1>6. Listed(r, <<>>)
    BY <1>1 DEF Listed, Begun
<1> QED
    BY <1>1, <1>3, <1>5, <1>6 DEF r

\* The same runner, with a hand begun.
Started(r) == [r EXCEPT !.playing = TRUE]

\* A runner begins a hand.
LEMMA HandBegun ==
    ASSUME NEW policy, NEW r \in RunnerType, Sound(policy, r), ~ r.playing, r.hand_idx < r.hands
    PROVE  /\ Started(r) \in RunnerType /\ Sound(policy, Started(r))
           /\ Started(r).hands = r.hands /\ Started(r).seed = r.seed
           /\ Started(r).hand_idx = r.hand_idx /\ Started(r).deltas = r.deltas /\ Started(r).playing
<1> DEFINE q == Started(r)
<1>1. /\ q.stacks = r.stacks /\ q.dealer = r.dealer /\ q.hands = r.hands /\ q.seed = r.seed
      /\ q.hand_idx = r.hand_idx /\ q.deltas = r.deltas /\ q.playing = TRUE /\ q \in RunnerType
    BY DEF Started, RunnerType
<1> HIDE DEF q
<1>2. Sound(policy, q)
    BY <1>1 DEF Sound, NoGains, OneAtMost, NextStacks, Expected
<1> QED
    BY <1>1, <1>2 DEF q

\* The seed of the hand is put on the list.
LEMMA SeedListed ==
    ASSUME NEW r \in RunnerType, ~ r.playing, NEW list \in Seq(Nat), Listed(r, list)
    PROVE  /\ Append(list, r.seed + r.hand_idx) \in Seq(Nat)
           /\ Listed(Started(r), Append(list, r.seed + r.hand_idx))
<1> DEFINE q == Started(r)
           x == r.seed + r.hand_idx
           new == Append(list, x)
<1>1. q.seed = r.seed /\ q.hand_idx = r.hand_idx /\ q.playing = TRUE
    BY DEF Started, RunnerType
<1>2. x \in Nat /\ r.hand_idx \in Nat /\ r.seed \in Nat
    BY DEF RunnerType
<1>3. Begun(r) = r.hand_idx /\ Begun(q) = r.hand_idx + 1
    <2> HIDE DEF q
    <2> QED
        BY <1>1, <1>2 DEF Begun
<1>4. Len(list) = r.hand_idx /\ \A i \in 1 .. r.hand_idx : list[i] = r.seed + (i - 1)
    BY <1>3 DEF Listed
<1>5. /\ new \in Seq(Nat) /\ Len(new) = r.hand_idx + 1
      /\ \A i \in 1 .. r.hand_idx : new[i] = list[i]
      /\ new[r.hand_idx + 1] = x
    <2> HIDE DEF x
    <2> QED
        BY <1>2, <1>4
<1> HIDE DEF q, new
<1>6. \A i \in 1 .. r.hand_idx + 1 : new[i] = r.seed + (i - 1)
    <2>1. r.hand_idx + 1 - 1 = r.hand_idx
        BY <1>2
    <2> SUFFICES ASSUME NEW i \in 1 .. r.hand_idx + 1 PROVE new[i] = r.seed + (i - 1)
        OBVIOUS
    <2>2. CASE i = r.hand_idx + 1
        BY <1>2, <1>5, <2>1, <2>2
    <2>3. CASE i # r.hand_idx + 1
        <3>1. i \in 1 .. r.hand_idx
            BY <1>2, <2>3
        <3> QED
            BY <1>4, <1>5, <3>1
    <2> QED
        BY <2>2, <2>3
<1>7. Listed(q, new)
    BY <1>1, <1>3, <1>5, <1>6 DEF Listed
<1> QED
    BY <1>5, <1>7 DEF q, new

\* What the engine may return: chips are lost only by a seat that plays alone, and
\* it has some left.
LEMMA OutcomeType ==
    ASSUME NEW r \in RunnerType, NEW d \in Outcomes(r)
    PROVE  /\ d \in [Seats -> Int] /\ Net(d, Seats) <= 0
           /\ Net(d, Seats) < 0 => /\ OneAtMost(args.policy, r)
                                  /\ \E s \in Seats : HandStacks(r)[s] + d[s] > 0
           /\ \A s \in Seats : d[s] >= - HandStacks(r)[s] /\ (HandStacks(r)[s] = 0 => d[s] = 0)
<1> DEFINE H == HandStacks(r)
<1>1. d \in Results /\ \A s \in Seats : d[s] >= - H[s] /\ (H[s] = 0 => d[s] = 0)
    BY DEF Outcomes
<1>2. d \in [Seats -> Int]
    BY <1>1 DEF Results
<1>3. H = NextStacks(args.policy, r) /\ H \in [Seats -> Nat]
    BY SimulationAssumption DEF HandStacks, NextStacks, RunnerType
<1>4. CASE \E s \in Seats : InPlay(r) = {s}
    <2>1. PICK s \in Seats : InPlay(r) = {s}
        BY <1>4
    <2>2. (\A q \in Seats : q # s => H[q] = 0) /\ H[s] > 0
        BY <1>3, <2>1 DEF InPlay
    <2>3. AloneOutcome(H[s], d[s])
        BY <1>4, <2>1 DEF Outcomes
    <2>4. d[s] <= 0 /\ H[s] + d[s] > 0
        BY <1>2, <1>3, <2>2, <2>3, SimulationAssumption DEF AloneOutcome
    <2>5. \A q \in Seats : d[q] <= 0
        BY <1>1, <2>2, <2>4
    <2>6. Net(d, Seats) <= 0
        BY <1>2, <2>5, SeatsFinite, NoGain
    <2>7. OneAtMost(args.policy, r)
        BY <1>3, <2>2 DEF OneAtMost
    <2> QED
        BY <1>1, <1>2, <2>4, <2>6, <2>7
<1>5. CASE ~ \E s \in Seats : InPlay(r) = {s}
    <2>1. SumFunction(d) = 0
        BY <1>5 DEF Outcomes
    <2>2. SumFunction(d) = Net(d, Seats)
        BY <1>2, SeatsFinite, SumIsNet
    <2> QED
        BY <1>1, <1>2, <2>1, <2>2
<1> QED
    BY <1>4, <1>5

\* apply_result_to_deltas, apply_result_to_stacks and next_dealer: the stacks stay
\* the starting stacks plus what was won, and someone has chips.
LEMMA HandPlayed ==
    ASSUME NEW r \in RunnerType, Sound(args.policy, r), r.playing,
           args.policy \in {"Reset", "Persistent"}, NEW d \in Outcomes(r)
    PROVE  /\ AfterHand(r, d) \in RunnerType /\ Sound(args.policy, AfterHand(r, d))
           /\ AfterHand(r, d).hands = r.hands /\ AfterHand(r, d).seed = r.seed
           /\ AfterHand(r, d).hand_idx = r.hand_idx + 1 /\ ~ AfterHand(r, d).playing
           /\ AfterHand(r, d).deltas = [s \in Seats |-> r.deltas[s] + d[s]]
<1> DEFINE q == AfterHand(r, d)
           won == [s \in Seats |-> r.deltas[s] + d[s]]
           left == IF args.policy = "Reset" THEN r.stacks
                   ELSE [s \in Seats |-> Max({r.stacks[s] + d[s], 0})]
<1>1. /\ r.stacks \in [Seats -> Nat] /\ r.dealer \in Seats /\ r.hands \in Nat /\ r.seed \in Nat
      /\ r.hand_idx \in Nat /\ r.deltas \in [Seats -> Int]
      /\ r = [stacks |-> r.stacks, dealer |-> r.dealer, hands |-> r.hands, seed |-> r.seed,
              hand_idx |-> r.hand_idx, deltas |-> r.deltas, playing |-> r.playing]
    BY DEF RunnerType
<1>2. q = [r EXCEPT !.playing = FALSE, !.hand_idx = @ + 1, !.deltas = won,
                    !.stacks = left, !.dealer = next_dealer(@, left)]
    BY DEF AfterHand
<1>3. /\ d \in [Seats -> Int] /\ Net(d, Seats) <= 0 /\ Net(d, Seats) \in Int
      /\ Net(d, Seats) < 0 => /\ OneAtMost(args.policy, r)
                             /\ \E s \in Seats : HandStacks(r)[s] + d[s] > 0
      /\ \A s \in Seats : d[s] >= - HandStacks(r)[s] /\ (HandStacks(r)[s] = 0 => d[s] = 0)
    BY OutcomeType, SeatsFinite, NetSteps
<1>4. won \in [Seats -> Int] /\ \A s \in Seats : won[s] = r.deltas[s] + d[s]
    BY <1>1, <1>3
<1>5. Net(won, Seats) <= 0 /\ (Net(won, Seats) < 0 => OneAtMost(args.policy, r))
    <2>1. /\ Net(r.deltas, Seats) \in Int /\ Net(r.deltas, Seats) <= 0
          /\ Net(r.deltas, Seats) < 0 => OneAtMost(args.policy, r)
        BY <1>1, SeatsFinite, NetSteps DEF Sound, NoGains
    <2> HIDE DEF won
    <2>2. Net(won, Seats) = Net(r.deltas, Seats) + Net(d, Seats)
        BY <1>1, <1>3, <1>4, SeatsFinite, NetAdd
    <2> QED
        BY <1>3, <2>1, <2>2
<1>6. /\ left \in [Seats -> Nat]
      /\ \A s \in Seats : left[s] = r.stacks[s] + IF args.policy = "Reset" THEN 0 ELSE d[s]
    <2>1. CASE args.policy = "Reset"
        BY <1>1, <2>1
    <2>2. CASE args.policy # "Reset"
        <3>1. \A s \in Seats : d[s] >= - r.stacks[s]
            BY <1>3, <2>2 DEF HandStacks
        <3>2. ASSUME NEW s \in Seats
              PROVE  Max({r.stacks[s] + d[s], 0}) = r.stacks[s] + d[s] /\ r.stacks[s] + d[s] \in Nat
            <4>1. r.stacks[s] + d[s] \in Int /\ r.stacks[s] + d[s] >= 0
                BY <1>1, <1>3, <3>1
            <4> QED
                BY <4>1, AtLeastZero
        <3> QED
            BY <2>2, <3>2
    <2> QED
        BY <2>1, <2>2
<1>7. \A s \in Seats : left[s] = Expected(args.policy, q, s)
    <2>1. q.deltas = won
        <3> HIDE DEF won, left, q
        <3> QED
            BY <1>1, <1>2
    <2>2. \A s \in Seats : r.stacks[s] = Expected(args.policy, r, s)
        BY DEF Sound
    <2>3. \A s \in Seats : starting_stacks[s] \in Int /\ r.deltas[s] \in Int /\ d[s] \in Int
        BY <1>1, <1>3, SimulationAssumption
    <2> HIDE DEF q, won, left
    <2> QED
        BY <1>4, <1>6, <2>1, <2>2, <2>3 DEF Expected
<1>8. starting_stacks[0] > 0 => \E s \in Seats : left[s] > 0
    <2> SUFFICES ASSUME starting_stacks[0] > 0, \A s \in Seats : left[s] = 0 PROVE FALSE
        <3> HIDE DEF left
        <3> QED
            BY <1>6
    <2>1. r.stacks[r.dealer] > 0
        BY DEF Sound
    <2>2. CASE args.policy = "Reset"
        BY <1>1, <2>1, <2>2
    <2>3. CASE args.policy # "Reset" /\ Net(d, Seats) < 0
        <3>1. \A s \in Seats : left[s] = r.stacks[s] + d[s] /\ HandStacks(r)[s] = r.stacks[s]
            BY <1>6, <2>3 DEF HandStacks
        <3> HIDE DEF left
        <3> QED
            BY <1>3, <2>3, <3>1
    <2>4. CASE args.policy # "Reset" /\ ~ (Net(d, Seats) < 0)
        <3>1. Net(left, Seats) = 0
            <4> HIDE DEF left
            <4> QED
                BY NetOfZeros
        <3>2. Net(left, Seats) = Net(r.stacks, Seats) + Net(d, Seats)
            <4>1. \A s \in Seats : left[s] = r.stacks[s] + d[s]
                BY <1>6, <2>4
            <4>2. left \in [Seats -> Int] /\ r.stacks \in [Seats -> Int]
                BY <1>1, <1>6
            <4> DEFINE old == r.stacks
            <4>3. /\ old \in [Seats -> Int] /\ left \in [Seats -> Int] /\ d \in [Seats -> Int]
                  /\ \A s \in Seats : left[s] = old[s] + d[s]
                BY <1>3, <4>1, <4>2
            <4> HIDE DEF left, old
            <4>4. Net(left, Seats) = Net(old, Seats) + Net(d, Seats)
                BY ONLY <4>3, SeatsFinite, NetAdd
            <4> QED
                BY <4>4 DEF old
        <3>3. Net(r.stacks, Seats) \in Int /\ r.stacks[r.dealer] <= Net(r.stacks, Seats)
            BY <1>1, SeatsFinite, PartOfNet
        <3> QED
            BY <1>1, <1>3, <2>1, <2>4, <3>1, <3>2, <3>3
    <2> QED
        BY <2>2, <2>3, <2>4
<1>9. /\ next_dealer(r.dealer, left) \in Seats
      /\ starting_stacks[0] > 0 => left[next_dealer(r.dealer, left)] > 0
    <2> HIDE DEF left
    <2> QED
        BY <1>1, <1>6, <1>8, DealerFound
<1> HIDE DEF won, left, q
<1>10. /\ q.stacks = left /\ q.dealer = next_dealer(r.dealer, left) /\ q.hands = r.hands
       /\ q.seed = r.seed /\ q.hand_idx = r.hand_idx + 1 /\ q.deltas = won /\ q.playing = FALSE
       /\ q \in RunnerType
    <2>1. q = [stacks |-> left, dealer |-> next_dealer(r.dealer, left), hands |-> r.hands,
               seed |-> r.seed, hand_idx |-> r.hand_idx + 1, deltas |-> won, playing |-> FALSE]
        BY <1>1, <1>2
    <2>2. q \in RunnerType
        BY <1>1, <1>4, <1>6, <1>9, <2>1 DEF RunnerType
    <2> QED
        BY <2>1, <2>2
<1>11. q.hand_idx <= q.hands
    BY <1>1, <1>10 DEF Sound
<1>12. OneAtMost(args.policy, r) => OneAtMost(args.policy, q)
    <2> SUFFICES ASSUME NEW s \in Seats, \A p \in Seats : p # s => NextStacks(args.policy, r)[p] = 0,
                        NEW p \in Seats, p # s
                 PROVE  NextStacks(args.policy, q)[p] = 0
        BY DEF OneAtMost
    <2>1. CASE args.policy = "Reset"
        BY <2>1 DEF NextStacks
    <2>2. CASE args.policy # "Reset"
        <3>1. r.stacks[p] = 0 /\ d[p] = 0
            BY <1>3, <2>2 DEF NextStacks, HandStacks
        <3> QED
            BY <1>6, <1>10, <2>2, <3>1 DEF NextStacks
    <2> QED
        BY <2>1, <2>2
<1>13. Sound(args.policy, q)
    BY <1>5, <1>7, <1>9, <1>10, <1>11, <1>12 DEF Sound, NoGains
<1> QED
    BY <1>10, <1>13 DEF q, won

\* The list of seeds is not changed by the end of the hand.
LEMMA StillListed ==
    ASSUME NEW r \in RunnerType, r.playing, NEW q \in RunnerType, ~ q.playing, q.seed = r.seed,
           q.hand_idx = r.hand_idx + 1, NEW list, Listed(r, list)
    PROVE  Listed(q, list)
<1>1. Begun(q) = Begun(r)
    BY DEF Begun, RunnerType
<1> QED
    BY <1>1 DEF Listed

-----------------------------------------------------------------------------
(* Scaling *)

\* A quotient is the number of whole divisors.
LEMMA Quotient ==
    ASSUME NEW n \in Nat \ {0}, NEW q \in Nat, NEW r \in 0 .. n - 1
    PROVE  (n * q + r) \div n = q
<1> DEFINE a == n * q + r
           p == a \div n
           m == a % n
<1>1. a \in Nat
    OBVIOUS
<1>2. p \in Nat /\ m \in 0 .. n - 1 /\ n * p + m = n * q + r
    <2> HIDE DEF a
    <2>1. p \in Nat /\ m \in 0 .. n - 1 /\ n * p + m = a
        BY <1>1, Division
    <2> QED
        BY <2>1 DEF a
<1> HIDE DEF p, m
<1>3. CASE p < q
    <2>1. PICK k \in Nat : q = p + 1 + k
        <3>1. q - p - 1 \in Nat /\ q = p + 1 + (q - p - 1)
            BY <1>2, <1>3
        <3> QED
            BY <3>1
    <2>2. n * q = n * p + n + n * k /\ n * k \in Nat /\ n * p \in Nat
        BY <1>2, <2>1
    <2> QED
        BY <1>2, <2>2
<1>4. CASE q < p
    <2>1. PICK k \in Nat : p = q + 1 + k
        <3>1. p - q - 1 \in Nat /\ p = q + 1 + (p - q - 1)
            BY <1>2, <1>4
        <3> QED
            BY <3>1
    <2>2. n * p = n * q + n + n * k /\ n * k \in Nat /\ n * q \in Nat
        BY <1>2, <2>1
    <2> QED
        BY <1>2, <2>2
<1>5. p = q
    BY <1>2, <1>3, <1>4
<1> QED
    BY <1>5 DEF p, a

\* A larger dividend has no smaller quotient.
LEMMA QuotientGrows ==
    ASSUME NEW n \in Nat \ {0}, NEW a \in Nat, NEW b \in Nat, a <= b
    PROVE  a \div n \in Nat /\ a \div n <= b \div n
<1> DEFINE p == a \div n
           q == b \div n
<1>1. PICK r \in 0 .. n - 1 : p \in Nat /\ n * p + r = a
    BY Division
<1>2. PICK m \in 0 .. n - 1 : q \in Nat /\ n * q + m = b
    BY Division
<1> HIDE DEF p, q
<1>3. SUFFICES ASSUME q < p PROVE FALSE
    BY <1>1, <1>2 DEF p, q
<1>4. PICK k \in Nat : p = q + 1 + k
    <2>1. p - q - 1 \in Nat /\ p = q + 1 + (p - q - 1)
        BY <1>1, <1>2, <1>3
    <2> QED
        BY <2>1
<1>5. n * p = n * q + n + n * k /\ n * k \in Nat /\ n * q \in Nat
    BY <1>1, <1>2, <1>4
<1> QED
    BY <1>1, <1>2, <1>5

\* The sample scaled up: all hands are those of the run, and the order is kept.
LEMMA ScaledUp ==
    ASSUME args.hands \in Nat, args.threads \in Nat \ {0}
    PROVE  /\ SampleHands \in Nat \ {0} /\ Scaled(SampleHands) = args.hands
           /\ \A x, y \in Nat : x <= y => Scaled(x) \in Nat /\ Scaled(x) <= Scaled(y)
<1> DEFINE S == SampleHands
           h == args.hands
           n == 2 * S
<1>1. S \in Nat \ {0}
    <2> DEFINE k == args.hands \div args.threads
    <2>1. k \in Nat
        BY Division
    <2> HIDE DEF k
    <2>2. \E y \in {k, 1} : \A z \in {k, 1} : y >= z
        BY <2>1
    <2>3. Max({k, 1}) \in {k, 1} /\ \A z \in {k, 1} : Max({k, 1}) >= z
        BY <2>2 DEF Max
    <2>4. S = Max({k, 1})
        BY DEF SampleHands, k
    <2> QED
        BY <2>1, <2>3, <2>4
<1>2. \A x : Scaled(x) = (2 * x * h + S) \div n
    BY DEF Scaled
<1> HIDE DEF S, h
<1>3. h \in Nat
    BY DEF h
<1>4. n \in Nat \ {0} /\ S \in 0 .. n - 1
    BY <1>1
<1>5. 2 * S * h + S = n * h + S
    BY <1>1, <1>3
<1> HIDE DEF n
<1>6. Scaled(S) = h
    <2>1. (n * h + S) \div n = h
        BY <1>3, <1>4, Quotient
    <2> QED
        BY <1>2, <1>5, <2>1
<1>7. ASSUME NEW x \in Nat, NEW y \in Nat, x <= y PROVE Scaled(x) \in Nat /\ Scaled(x) <= Scaled(y)
    <2> DEFINE a == 2 * x * h + S
               b == 2 * y * h + S
    <2>1. a \in Nat /\ b \in Nat /\ a <= b
        <3>1. PICK k \in Nat : y = x + k
            <4>1. y - x \in Nat /\ y = x + (y - x)
                BY <1>7
            <4> QED
                BY <4>1
        <3>2. 2 * y * h = 2 * x * h + 2 * k * h /\ 2 * k * h \in Nat /\ 2 * x * h \in Nat
            BY <1>3, <3>1
        <3> QED
            BY <1>1, <3>2
    <2> HIDE DEF a, b
    <2>2. a \div n \in Nat /\ a \div n <= b \div n
        BY <1>4, <2>1, QuotientGrows
    <2>3. Scaled(x) = a \div n /\ Scaled(y) = b \div n
        BY <1>2 DEF a, b
    <2> QED
        BY <2>2, <2>3
<1> QED
    BY <1>1, <1>6, <1>7 DEF S, h

-----------------------------------------------------------------------------
(* The steps *)

\* The command line, and one new runner for each thread.
LEMMA InitInv == Init => SimInv
<1> SUFFICES ASSUME Init PROVE SimInv
    OBVIOUS
<1>1. /\ args \in [hands : HandCounts, threads : 1 .. MaxThreads, policy : {"Reset", "Persistent"}]
      /\ phase = IF args.threads <= 1 THEN "Watched" ELSE "Parallel"
      /\ total = [hands_played |-> 0, chip_deltas |-> Zero] /\ stats = [s \in Seats |-> NoStats]
      /\ hand = NoHand /\ seeds = [t \in Runners |-> <<>>]
    BY DEF Init
<1>2. /\ args \in [hands : Nat, threads : Nat \ {0}, policy : {"Reset", "Persistent"}]
      /\ args.hands \in Nat /\ args.threads \in Nat \ {0} /\ args.threads <= MaxThreads
      /\ BaseSeed \in Nat /\ MaxThreads \in Nat \ {0}
    <2>1. args.hands \in HandCounts /\ args.threads \in 1 .. MaxThreads
        BY <1>1
    <2>2. HandCounts \subseteq Nat /\ MaxThreads \in Nat \ {0} /\ BaseSeed \in Nat
        BY SimulationAssumption
    <2>3. args.hands \in Nat /\ args.threads \in Nat \ {0} /\ args.threads <= MaxThreads
        <3>1. args.hands \in Nat
            BY <2>1, <2>2
        <3>2. \A k \in 1 .. MaxThreads : k \in Nat \ {0} /\ k <= MaxThreads
            BY <2>2
        <3> QED
            BY <2>1, <3>1, <3>2
    <2> QED
        BY <1>1, <2>2, <2>3
<1> DEFINE h == args.hands
           n == args.threads
<1>3. ASSUME NEW t \in 1 .. n
      PROVE  /\ Share(h, n, t - 1) \in Nat /\ BaseSeed + Before(h, n, t - 1) \in Nat
             /\ ThreadRunner(h, n, t - 1) = Runner(Share(h, n, t - 1), BaseSeed + Before(h, n, t - 1))
    <2>1. t - 1 \in Nat /\ t - 1 \in 0 .. n
        BY <1>2
    <2>2. Share(h, n, t - 1) \in Nat /\ Before(h, n, t - 1) \in Nat
        BY <1>2, <2>1, BeforeNext
    <2>3. Offset(h, n, t - 1) = Before(h, n, t - 1)
        BY <1>2, <2>1, OffsetIs
    <2> QED
        BY <1>2, <2>2, <2>3 DEF ThreadRunner
<1>4. /\ runner = [t \in Runners |-> runner[t]]
      /\ n <= 1 => runner[0] = Runner(h, BaseSeed) /\ \A t \in Runners \ {0} : runner[t] = Idle
      /\ n > 1 => /\ \A t \in 1 .. n : runner[t] = Runner(Share(h, n, t - 1), BaseSeed + Before(h, n, t - 1))
                  /\ \A t \in Runners \ (1 .. n) : runner[t] = Idle
    <2>1. runner = [t \in Runners |->
                       IF n <= 1 THEN IF t = 0 THEN Runner(h, BaseSeed) ELSE Idle
                       ELSE IF t \in 1 .. n THEN ThreadRunner(h, n, t - 1) ELSE Idle]
        BY DEF Init
    <2>2. 0 \in Runners /\ 1 .. n \subseteq Runners
        BY <1>2 DEF Runners
    <2>3. n \in Nat /\ (n > 1 <=> ~ (n <= 1))
        BY <1>2
    <2> HIDE DEF h, n
    <2>4. CASE n <= 1
        BY <2>1, <2>2, <2>3, <2>4
    <2>5. CASE ~ (n <= 1)
        BY <1>3, <2>1, <2>2, <2>3, <2>5
    <2> QED
        BY <2>4, <2>5
<1>5. ASSUME NEW t \in Runners
      PROVE  \E k \in Nat, seed \in Nat : runner[t] = Runner(k, seed)
    <2>1. 0 \in Nat /\ Idle = Runner(0, BaseSeed)
        BY DEF Idle
    <2>2. CASE n <= 1
        <3>1. runner[t] = Runner(h, BaseSeed) \/ runner[t] = Idle
            BY <1>4, <2>2
        <3> QED
            BY <1>2, <2>1, <3>1
    <2>3. CASE ~ (n <= 1)
        <3>1. n > 1
            BY <1>2, <2>3
        <3>2. CASE t \in 1 .. n
            BY <1>3, <1>4, <3>1, <3>2
        <3>3. CASE t \notin 1 .. n
            BY <1>2, <1>4, <2>1, <3>1, <3>3
        <3> QED
            BY <3>2, <3>3
    <2> QED
        BY <2>2, <2>3
<1>6. ASSUME NEW t \in Runners
      PROVE  /\ runner[t] \in RunnerType /\ Sound(args.policy, runner[t]) /\ Listed(runner[t], <<>>)
             /\ runner[t].hand_idx = 0 /\ runner[t].deltas = Zero /\ ~ runner[t].playing
    <2>1. PICK k \in Nat, seed \in Nat : runner[t] = Runner(k, seed)
        BY <1>5
    <2> DEFINE r == Runner(k, seed)
    <2>2. /\ r \in RunnerType /\ Sound(args.policy, r) /\ Listed(r, <<>>)
          /\ r.hand_idx = 0 /\ r.deltas = Zero /\ ~ r.playing
        BY NewRunner, ZenonT(40)
    <2> HIDE DEF r
    <2> QED
        BY <2>1, <2>2 DEF r
<1>7. Zero \in [Seats -> Int] /\ \A s \in Seats : Zero[s] = 0
    BY DEF Zero
<1>8. /\ NoStats \in StatsType /\ NoStats.chip_delta_total = 0 /\ NoStats.hands_dealt = 0
      /\ Nested(NoStats)
    BY DEF NoStats, StatsType, Nested
<1>9. SimTypes
    <2>1. runner \in [Runners -> RunnerType]
        BY <1>4, <1>6
    <2>2. stats \in [Seats -> StatsType]
        BY <1>1, <1>8
    <2>3. seeds \in [Runners -> Seq(Nat)]
        BY <1>1
    <2>4. /\ hand = [street |-> hand.street, vpip |-> hand.vpip, pfr |-> hand.pfr, acts |-> hand.acts]
          /\ hand.acts \in Nat
        BY <1>1 DEF NoHand
    <2>5. total.chip_deltas \in [Seats -> Int]
        BY <1>1, <1>7
    <2>6. phase \in {"Parallel", "Watched", "Reported"}
        BY <1>1
    <2> QED
        BY <1>2, <2>1, <2>2, <2>3, <2>4, <2>5, <2>6 DEF SimTypes
<1>10. Split
    <2> SUFFICES ASSUME n > 1 PROVE Split
        BY DEF Split
    <2>1. phase = "Parallel"
        BY <1>1, <1>2
    <2>2. ASSUME NEW t \in 1 .. n
          PROVE  /\ runner[t].hands = Share(h, n, t - 1) /\ runner[t].seed = BaseSeed + Before(h, n, t - 1)
                 /\ Listed(runner[t], seeds[t])
        <3>1. t \in Runners
            BY <1>2 DEF Runners
        <3>2. runner[t] = Runner(Share(h, n, t - 1), BaseSeed + Before(h, n, t - 1))
            BY <1>4
        <3>3. seeds[t] = <<>>
            BY <1>1, <3>1
        <3> QED
            BY <1>3, <1>6, <3>1, <3>2, <3>3, NewRunner
    <2> QED
        BY <2>1, <2>2 DEF Split, Threads
<1>11. Merged
    <2>1. Net(total.chip_deltas, Seats) = 0
        BY <1>1, <1>7, NetOfZeros
    <2> QED
        BY <2>1 DEF Merged
<1>12. Watching
    <2>1. 0 \in Runners
        BY <1>2 DEF Runners
    <2>2. Fresh
        BY <1>6, <2>1 DEF Fresh
    <2>3. hand.pfr \subseteq hand.vpip
        BY <1>1 DEF NoHand
    <2>4. phase = "Watched" => runner[0].hands = h /\ args.threads <= 1
        <3>1. Runner(h, BaseSeed).hands = h
            BY DEF Runner
        <3>2. phase = "Watched" => n <= 1
            BY <1>1
        <3> QED
            BY <1>4, <3>1, <3>2
    <2>5. \A s \in Seats : /\ stats[s].chip_delta_total = runner[0].deltas[s]
                           /\ stats[s].hands_dealt = runner[0].hand_idx /\ Nested(stats[s])
        BY <1>1, <1>6, <1>7, <1>8, <2>1
    <2>6. phase = "Parallel" => args.threads > 1
        BY <1>1, <1>2
    <2>7. phase # "Reported"
        BY <1>1
    <2> QED
        BY <2>2, <2>3, <2>4, <2>5, <2>6, <2>7 DEF Watching
<1>13. ReportAgrees
    BY <1>1 DEF ReportAgrees
<1> QED
    BY <1>6, <1>9, <1>10, <1>11, <1>12, <1>13 DEF SimInv

\* The argument types, in one place.
LEMMA ArgsTypes ==
    ASSUME SimInv
    PROVE  /\ args.hands \in Nat /\ args.threads \in Nat \ {0} /\ args.policy \in {"Reset", "Persistent"}
           /\ Threads \subseteq Runners /\ 0 \in Runners /\ 0 \notin Threads
<1>1. /\ args.hands \in Nat /\ args.threads \in Nat \ {0} /\ args.threads <= MaxThreads
      /\ args.policy \in {"Reset", "Persistent"}
    BY DEF SimInv, SimTypes
<1>2. MaxThreads \in Nat
    BY SimulationAssumption
<1> QED
    BY <1>1, <1>2 DEF Threads, Runners

\* A runner begins a hand.
LEMMA StartKeeps ==
    ASSUME SimInv, NEW t \in Runners, StartHand(t)
    PROVE  SimInv'
<1> DEFINE r == runner[t]
           x == r.seed + r.hand_idx
<1>1. /\ ~ r.playing /\ r.hand_idx < r.hands /\ r \in RunnerType /\ Sound(args.policy, r)
      /\ phase = IF t = 0 THEN "Watched" ELSE "Parallel"
    BY DEF StartHand, SimInv, SimTypes
<1>2. /\ runner' = [runner EXCEPT ![t] = Started(r)]
      /\ seeds' = [seeds EXCEPT ![t] = Append(seeds[t], x)]
      /\ hand' = IF t = 0 THEN NoHand ELSE hand
      /\ UNCHANGED <<args, phase, total, stats>>
    BY DEF StartHand, Started
<1>3. /\ Started(r) \in RunnerType /\ Sound(args.policy, Started(r))
      /\ Started(r).hands = r.hands /\ Started(r).seed = r.seed
      /\ Started(r).hand_idx = r.hand_idx /\ Started(r).deltas = r.deltas
    BY <1>1, HandBegun
<1>4. /\ runner \in [Runners -> RunnerType] /\ seeds \in [Runners -> Seq(Nat)]
      /\ \A q \in Runners : Sound(args.policy, runner[q])
    BY DEF SimInv, SimTypes
<1>5. /\ runner' \in [Runners -> RunnerType] /\ runner'[t] = Started(r)
      /\ \A q \in Runners \ {t} : runner'[q] = runner[q] /\ seeds'[q] = seeds[q]
      /\ seeds'[t] = Append(seeds[t], x)
    <2> HIDE DEF r, x
    <2> QED
        BY <1>2, <1>3, <1>4
<1>6. x \in Nat
    BY <1>1 DEF RunnerType
<1>7. seeds' \in [Runners -> Seq(Nat)]
    <2>1. Append(seeds[t], x) \in Seq(Nat)
        <3> HIDE DEF x
        <3> QED
            BY <1>4, <1>6
    <2> HIDE DEF x
    <2> QED
        BY <1>2, <1>4, <2>1
<1>8. SimTypes'
    <2>1. /\ hand' = [street |-> hand'.street, vpip |-> hand'.vpip, pfr |-> hand'.pfr, acts |-> hand'.acts]
          /\ hand'.acts \in Nat
        BY <1>2 DEF NoHand, SimInv, SimTypes
    <2>2. /\ args' \in [hands : Nat, threads : Nat \ {0}, policy : {"Reset", "Persistent"}]
          /\ args'.threads <= MaxThreads /\ phase' \in {"Parallel", "Watched", "Reported"}
          /\ stats' \in [Seats -> StatsType] /\ total'.chip_deltas \in [Seats -> Int]
        BY <1>2 DEF SimInv, SimTypes
    <2> QED
        BY <1>5, <1>7, <2>1, <2>2 DEF SimTypes
<1>9. \A q \in Runners : Sound(args.policy, runner[q])'
    BY <1>2, <1>3, <1>4, <1>5
<1>10. Split'
    <2> SUFFICES ASSUME args.threads > 1 PROVE Split'
        BY <1>2 DEF Split
    <2>1. ASSUME NEW q \in Threads
          PROVE  /\ runner'[q].hands = Share(args.hands, args.threads, q - 1)
                 /\ runner'[q].seed = BaseSeed + Before(args.hands, args.threads, q - 1)
                 /\ Listed(runner'[q], seeds'[q])
        <3>1. q \in Runners
            BY ArgsTypes
        <3>2. /\ runner[q].hands = Share(args.hands, args.threads, q - 1)
              /\ runner[q].seed = BaseSeed + Before(args.hands, args.threads, q - 1)
              /\ Listed(runner[q], seeds[q])
            BY DEF SimInv, Split
        <3>3. CASE q # t
            BY <1>5, <3>1, <3>2, <3>3
        <3>4. CASE q = t
            <4>1. Listed(Started(r), Append(seeds[t], x))
                BY <1>1, <1>4, <3>2, <3>4, SeedListed
            <4> QED
                BY <1>3, <1>5, <3>2, <3>4, <4>1
        <3> QED
            BY <3>3, <3>4
    <2>2. ASSUME phase # "Parallel" PROVE (\A q \in Threads : Done(q)') /\ total'.hands_played = args.hands
        <3>1. t = 0
            BY <1>1, <2>2
        <3>2. \A q \in Threads : runner'[q] = runner[q]
            BY <1>5, <3>1, ArgsTypes
        <3> QED
            BY <1>2, <2>2, <3>2 DEF SimInv, Split, Done
    <2> QED
        BY <1>2, <2>1, <2>2 DEF Split, Threads
<1>11. Merged'
    <2>1. \A q \in Threads : runner'[q].deltas = runner[q].deltas
        BY <1>3, <1>5, ArgsTypes
    <2> QED
        BY <1>2, <2>1 DEF SimInv, Merged, Threads
<1>12. Watching'
    <2>1. hand'.pfr \subseteq hand'.vpip
        BY <1>2 DEF NoHand, SimInv, Watching
    <2>2. CASE t = 0
        <3>1. phase = "Watched" /\ runner'[0] = Started(r)
            BY <1>1, <1>5, <2>2
        <3>2. /\ runner'[0].deltas = runner[0].deltas /\ runner'[0].hand_idx = runner[0].hand_idx
              /\ runner'[0].hands = runner[0].hands
            BY <1>3, <2>2, <3>1
        <3> QED
            BY <1>2, <2>1, <3>1, <3>2 DEF SimInv, Watching, SampleHands
    <2>3. CASE t # 0
        <3>1. runner'[0] = runner[0]
            BY <1>5, <2>3, ArgsTypes
        <3> QED
            BY <1>2, <2>1, <3>1 DEF SimInv, Watching, SampleHands, Fresh
    <2> QED
        BY <2>2, <2>3
<1>13. ReportAgrees'
    BY <1>1, <1>2 DEF ReportAgrees
<1> QED
    BY <1>8, <1>9, <1>10, <1>11, <1>12, <1>13 DEF SimInv

\* HandEnded, as the sink counts it.
LEMMA SinkCounts ==
    ASSUME SimInv, NEW d \in Outcomes(runner[0]), runner[0].playing
    PROVE  /\ SinkHandEnded(d) \in [Seats -> StatsType]
           /\ args.policy = "Reset" =>
                \A s \in Seats :
                    /\ SinkHandEnded(d)[s].chip_delta_total = stats[s].chip_delta_total + d[s]
                    /\ starting_stacks[s] > 0 => SinkHandEnded(d)[s].hands_dealt = stats[s].hands_dealt + 1
                    /\ Nested(stats[s]) => Nested(SinkHandEnded(d)[s])
<1> DEFINE gains == [s \in Seats |-> Max({d[s], 0})]
           pot == SumFunction(gains)
           New(s) == [stats[s] EXCEPT !.hands_dealt = @ + 1, !.chip_delta_total = @ + d[s],
                                      !.hands_won = @ + One(d[s] > 0),
                                      !.vpip_hands = @ + One(s \in hand.vpip),
                                      !.pfr_hands = @ + One(s \in hand.pfr),
                                      !.total_pot = @ + pot]
<1>1. runner[0] \in RunnerType /\ stats \in [Seats -> StatsType] /\ hand.pfr \subseteq hand.vpip
    BY ArgsTypes DEF SimInv, SimTypes, Watching
<1>2. /\ d \in [Seats -> Int]
      /\ \A s \in Seats : HandStacks(runner[0])[s] = 0 => d[s] = 0
    BY <1>1, OutcomeType
<1>3. pot \in Int
    <2>1. gains \in [Seats -> Int]
        BY <1>2, AtLeastZero
    <2> HIDE DEF gains
    <2>2. pot = Net(gains, Seats) /\ Net(gains, Seats) \in Int
        BY <2>1, SeatsFinite, SumIsNet, NetSteps
    <2> QED
        BY <2>2
<1>4. SinkHandEnded(d) = [s \in Seats |-> IF HandStacks(runner[0])[s] = 0 THEN stats[s] ELSE New(s)]
    BY DEF SinkHandEnded
<1> HIDE DEF pot
<1>5. \A P : One(P) \in {0, 1}
    BY DEF One
<1>6. ASSUME NEW s \in Seats
      PROVE  /\ New(s) \in StatsType /\ New(s).chip_delta_total = stats[s].chip_delta_total + d[s]
             /\ New(s).hands_dealt = stats[s].hands_dealt + 1
             /\ Nested(stats[s]) => Nested(New(s))
    <2> DEFINE w == One(d[s] > 0)
               v == One(s \in hand.vpip)
               p == One(s \in hand.pfr)
               x == stats[s]
    <2>1. w \in {0, 1} /\ v \in {0, 1} /\ p \in {0, 1} /\ p <= v
        BY <1>1 DEF One
    <2>2. x \in StatsType /\ d[s] \in Int
        BY <1>1, <1>2
    <2> HIDE DEF w, v, p
    <2>3. New(s) = [x EXCEPT !.hands_dealt = @ + 1, !.chip_delta_total = @ + d[s], !.hands_won = @ + w,
                             !.vpip_hands = @ + v, !.pfr_hands = @ + p, !.total_pot = @ + pot]
        BY DEF w, v, p
    <2> HIDE DEF x, New
    <2>4. /\ New(s) \in StatsType /\ New(s).chip_delta_total = x.chip_delta_total + d[s]
          /\ New(s).hands_dealt = x.hands_dealt + 1 /\ New(s).hands_won = x.hands_won + w
          /\ New(s).vpip_hands = x.vpip_hands + v /\ New(s).pfr_hands = x.pfr_hands + p
        <3>1. /\ x = [hands_dealt |-> x.hands_dealt, hands_won |-> x.hands_won,
                      chip_delta_total |-> x.chip_delta_total, vpip_hands |-> x.vpip_hands,
                      pfr_hands |-> x.pfr_hands, aggressive_actions |-> x.aggressive_actions,
                      passive_actions |-> x.passive_actions, total_pot |-> x.total_pot]
              /\ x.hands_dealt \in Nat /\ x.hands_won \in Nat /\ x.chip_delta_total \in Int
              /\ x.vpip_hands \in Nat /\ x.pfr_hands \in Nat /\ x.aggressive_actions \in Nat
              /\ x.passive_actions \in Nat /\ x.total_pot \in Int
            BY <2>2 DEF StatsType
        <3>2. New(s) = [hands_dealt |-> x.hands_dealt + 1, hands_won |-> x.hands_won + w,
                        chip_delta_total |-> x.chip_delta_total + d[s], vpip_hands |-> x.vpip_hands + v,
                        pfr_hands |-> x.pfr_hands + p, aggressive_actions |-> x.aggressive_actions,
                        passive_actions |-> x.passive_actions, total_pot |-> x.total_pot + pot]
            BY <2>3, <3>1
        <3>3. /\ x.hands_dealt + 1 \in Nat /\ x.hands_won + w \in Nat /\ x.chip_delta_total + d[s] \in Int
              /\ x.vpip_hands + v \in Nat /\ x.pfr_hands + p \in Nat /\ x.total_pot + pot \in Int
            BY <1>3, <2>1, <2>2, <3>1
        <3>4. New(s) \in StatsType
            BY <3>1, <3>2, <3>3 DEF StatsType
        <3> QED
            BY <3>2, <3>4
    <2>5. /\ x.hands_dealt \in Nat /\ x.hands_won \in Nat /\ x.vpip_hands \in Nat /\ x.pfr_hands \in Nat
        BY <2>2 DEF StatsType
    <2>6. Nested(x) => Nested(New(s))
        BY <2>1, <2>4, <2>5 DEF Nested
    <2> QED
        BY <2>4, <2>6 DEF x
<1> HIDE DEF New
<1>7. SinkHandEnded(d) \in [Seats -> StatsType]
    BY <1>1, <1>4, <1>6
<1>8. ASSUME args.policy = "Reset", NEW s \in Seats
      PROVE  /\ SinkHandEnded(d)[s].chip_delta_total = stats[s].chip_delta_total + d[s]
             /\ starting_stacks[s] > 0 => SinkHandEnded(d)[s].hands_dealt = stats[s].hands_dealt + 1
             /\ Nested(stats[s]) => Nested(SinkHandEnded(d)[s])
    <2>1. HandStacks(runner[0])[s] = starting_stacks[s] /\ starting_stacks[s] \in Nat
        BY <1>8, SimulationAssumption DEF HandStacks
    <2>2. stats[s].chip_delta_total \in Int
        BY <1>1 DEF StatsType
    <2>3. CASE starting_stacks[s] = 0
        <3>1. SinkHandEnded(d)[s] = stats[s] /\ d[s] = 0
            BY <1>2, <1>4, <2>1, <2>3
        <3> QED
            BY <2>2, <2>3, <3>1
    <2>4. CASE starting_stacks[s] # 0
        <3>1. SinkHandEnded(d)[s] = New(s)
            BY <1>4, <2>1, <2>4
        <3> QED
            BY <1>6, <3>1
    <2> QED
        BY <2>3, <2>4
<1> QED
    BY <1>7, <1>8

\* A hand ends.
LEMMA EndKeeps ==
    ASSUME SimInv, NEW t \in Runners, EndHand(t)
    PROVE  SimInv'
<1> DEFINE r == runner[t]
<1>1. PICK d \in Outcomes(r) : /\ runner' = [runner EXCEPT ![t] = AfterHand(r, d)]
                               /\ stats' = IF t = 0 THEN SinkHandEnded(d) ELSE stats
    BY DEF EndHand
<1> DEFINE q == AfterHand(r, d)
<1>2. /\ r.playing /\ r \in RunnerType /\ Sound(args.policy, r)
      /\ UNCHANGED <<args, phase, total, hand, seeds>>
    BY DEF EndHand, SimInv, SimTypes
<1>3. /\ q \in RunnerType /\ Sound(args.policy, q) /\ q.hands = r.hands /\ q.seed = r.seed
      /\ q.hand_idx = r.hand_idx + 1 /\ ~ q.playing
      /\ q.deltas = [s \in Seats |-> r.deltas[s] + d[s]]
    BY <1>2, HandPlayed, ArgsTypes
<1>4. /\ runner \in [Runners -> RunnerType] /\ \A k \in Runners : Sound(args.policy, runner[k])
    BY DEF SimInv, SimTypes
<1> HIDE DEF q
<1>5. /\ runner' \in [Runners -> RunnerType] /\ runner'[t] = q
      /\ \A k \in Runners \ {t} : runner'[k] = runner[k]
    <2> HIDE DEF r
    <2> QED
        BY <1>1, <1>3, <1>4 DEF q
<1>6. stats' \in [Seats -> StatsType]
    <2>1. stats \in [Seats -> StatsType]
        BY DEF SimInv, SimTypes
    <2>2. t = 0 => SinkHandEnded(d) \in [Seats -> StatsType]
        BY <1>2, SinkCounts
    <2> QED
        BY <1>1, <2>1, <2>2
<1>7. SimTypes'
    BY <1>2, <1>5, <1>6 DEF SimInv, SimTypes
<1>8. \A k \in Runners : Sound(args.policy, runner[k])'
    BY <1>2, <1>3, <1>4, <1>5
<1>9. Split'
    <2> SUFFICES ASSUME args.threads > 1 PROVE Split'
        BY <1>2 DEF Split
    <2>1. ASSUME NEW k \in Threads
          PROVE  /\ runner'[k].hands = Share(args.hands, args.threads, k - 1)
                 /\ runner'[k].seed = BaseSeed + Before(args.hands, args.threads, k - 1)
                 /\ Listed(runner'[k], seeds'[k])
        <3>1. k \in Runners
            BY ArgsTypes
        <3>2. /\ runner[k].hands = Share(args.hands, args.threads, k - 1)
              /\ runner[k].seed = BaseSeed + Before(args.hands, args.threads, k - 1)
              /\ Listed(runner[k], seeds[k])
            BY DEF SimInv, Split
        <3>3. CASE k # t
            BY <1>2, <1>5, <3>1, <3>2, <3>3
        <3>4. CASE k = t
            <4>1. Listed(q, seeds[t])
                BY <1>2, <1>3, <3>2, <3>4, StillListed
            <4> QED
                BY <1>2, <1>3, <1>5, <3>2, <3>4, <4>1
        <3> QED
            BY <3>3, <3>4
    <2>2. ASSUME phase # "Parallel" PROVE (\A k \in Threads : Done(k)') /\ total'.hands_played = args.hands
        <3>1. (\A k \in Threads : Done(k)) /\ total.hands_played = args.hands
            BY <2>2 DEF SimInv, Split
        <3>2. t \notin Threads
            BY <1>2, <3>1 DEF Done
        <3>3. \A k \in Threads : runner'[k] = runner[k]
            BY <1>5, <3>2, ArgsTypes
        <3> QED
            BY <1>2, <3>1, <3>3 DEF Done
    <2> QED
        BY <1>2, <2>1, <2>2 DEF Split, Threads
<1>10. Merged'
    <2> SUFFICES ASSUME Net(total.chip_deltas, Seats) < 0 PROVE Merged'
        BY <1>2 DEF SimInv, Merged
    <2>1. phase # "Parallel" /\ args.threads > 1
        BY DEF SimInv, Merged
    <2>2. t \notin Threads
        BY <1>2, <2>1 DEF SimInv, Split, Done
    <2>3. \A k \in Threads : runner'[k] = runner[k]
        BY <1>5, <2>2, ArgsTypes
    <2> QED
        BY <1>2, <2>3 DEF SimInv, Merged, Threads
<1>11. CASE t # 0
    <2>1. runner'[0] = runner[0] /\ stats' = stats
        BY <1>1, <1>5, <1>11, ArgsTypes
    <2>2. Watching'
        BY <1>2, <2>1 DEF SimInv, Watching, SampleHands, Fresh
    <2>3. ReportAgrees'
        BY <1>2, <2>1 DEF SimInv, ReportAgrees
    <2> QED
        BY <1>7, <1>8, <1>9, <1>10, <2>2, <2>3 DEF SimInv
<1>12. CASE t = 0
    <2>1. phase = "Watched"
        BY <1>2, <1>12 DEF SimInv, SimTypes, Watching, Fresh
    <2>2. Watching'
        <3>1. runner'[0] = q /\ q.hands = runner[0].hands
            BY <1>3, <1>5, <1>12
        <3>2. ASSUME args.policy = "Reset", NEW s \in Seats
              PROVE  /\ stats'[s].chip_delta_total = q.deltas[s]
                     /\ starting_stacks[s] > 0 => stats'[s].hands_dealt = q.hand_idx
                     /\ Nested(stats'[s])
            <4>1. /\ stats[s].chip_delta_total = r.deltas[s]
                  /\ starting_stacks[s] > 0 => stats[s].hands_dealt = r.hand_idx
                  /\ Nested(stats[s])
                BY <1>12, <2>1, <3>2 DEF SimInv, Watching
            <4>2. /\ SinkHandEnded(d)[s].chip_delta_total = stats[s].chip_delta_total + d[s]
                  /\ starting_stacks[s] > 0 => SinkHandEnded(d)[s].hands_dealt = stats[s].hands_dealt + 1
                  /\ Nested(stats[s]) => Nested(SinkHandEnded(d)[s])
                BY <1>2, <1>12, <3>2, SinkCounts
            <4>3. q.deltas[s] = r.deltas[s] + d[s]
                BY <1>3
            <4> QED
                BY <1>1, <1>3, <1>12, <4>1, <4>2, <4>3
        <3>3. /\ hand.pfr \subseteq hand.vpip
              /\ runner[0].hands = IF args.threads <= 1 THEN args.hands ELSE SampleHands
            BY <2>1 DEF SimInv, Watching
        <3> QED
            BY <1>2, <2>1, <3>1, <3>2, <3>3 DEF Watching, SampleHands
    <2>3. ReportAgrees'
        BY <1>2, <2>1 DEF ReportAgrees
    <2> QED
        BY <1>7, <1>8, <1>9, <1>10, <2>2, <2>3 DEF SimInv
<1> QED
    BY <1>11, <1>12

\* A runner plays with the sink only in the run that is watched.
LEMMA OnlyWatched ==
    ASSUME SimInv, runner[0].playing
    PROVE  phase = "Watched"
BY DEF SimInv, SimTypes, Watching, Fresh

\* A step of the sink, with the counts that the report is about as they were.
LEMMA SinkStepKeeps ==
    ASSUME SimInv, phase = "Watched", UNCHANGED <<args, phase, runner, total, seeds>>,
           stats' \in [Seats -> StatsType],
           \A s \in Seats : /\ stats'[s].chip_delta_total = stats[s].chip_delta_total
                            /\ stats'[s].hands_dealt = stats[s].hands_dealt
                            /\ stats'[s].hands_won = stats[s].hands_won
                            /\ stats'[s].vpip_hands = stats[s].vpip_hands
                            /\ stats'[s].pfr_hands = stats[s].pfr_hands,
           hand' = [street |-> hand'.street, vpip |-> hand'.vpip, pfr |-> hand'.pfr, acts |-> hand'.acts],
           hand'.acts \in Nat, hand'.pfr \subseteq hand'.vpip
    PROVE  SimInv'
<1>1. SimTypes'
    BY DEF SimInv, SimTypes
<1>2. \A t \in Runners : Sound(args.policy, runner[t])'
    BY DEF SimInv
<1>3. Split'
    BY DEF SimInv, Split, Threads, Done
<1>4. Merged'
    BY DEF SimInv, Merged, Threads
<1>5. Watching'
    BY DEF SimInv, Watching, SampleHands, Nested
<1>6. ReportAgrees'
    BY DEF ReportAgrees
<1> QED
    BY <1>1, <1>2, <1>3, <1>4, <1>5, <1>6 DEF SimInv

\* ActionTaken.
LEMMA ActKeeps ==
    ASSUME SimInv, NEW s \in Seats, Act(s)
    PROVE  SimInv'
<1>1. PICK action \in {"Raise", "Call"} : SinkAction(s, action)
    BY DEF Act
<1>2. phase = "Watched" /\ UNCHANGED <<args, phase, runner, total, seeds>>
    BY OnlyWatched DEF Act
<1> DEFINE a == IF action = "Raise" THEN 1 ELSE 0
           c == IF action = "Call" THEN 1 ELSE 0
           x == stats[s]
           y == [[x EXCEPT !.aggressive_actions = x.aggressive_actions + a]
                   EXCEPT !.passive_actions = x.passive_actions + c]
<1>3. stats' = [stats EXCEPT ![s] = y]
    <2>1. stats' = [stats EXCEPT ![s].aggressive_actions = @ + a, ![s].passive_actions = @ + c]
        BY <1>1 DEF SinkAction
    <2>2. stats \in [Seats -> StatsType]
        BY DEF SimInv, SimTypes
    <2> QED
        BY <2>1, <2>2 DEF StatsType
<1>4. stats \in [Seats -> StatsType] /\ x \in StatsType /\ a \in Nat /\ c \in Nat
    BY DEF SimInv, SimTypes
<1> HIDE DEF a, c, x
<1>5. /\ y \in StatsType /\ y.chip_delta_total = x.chip_delta_total /\ y.hands_dealt = x.hands_dealt
      /\ y.hands_won = x.hands_won /\ y.vpip_hands = x.vpip_hands /\ y.pfr_hands = x.pfr_hands
    <2>1. /\ x = [hands_dealt |-> x.hands_dealt, hands_won |-> x.hands_won,
                  chip_delta_total |-> x.chip_delta_total, vpip_hands |-> x.vpip_hands,
                  pfr_hands |-> x.pfr_hands, aggressive_actions |-> x.aggressive_actions,
                  passive_actions |-> x.passive_actions, total_pot |-> x.total_pot]
          /\ x.hands_dealt \in Nat /\ x.hands_won \in Nat /\ x.chip_delta_total \in Int
          /\ x.vpip_hands \in Nat /\ x.pfr_hands \in Nat /\ x.aggressive_actions \in Nat
          /\ x.passive_actions \in Nat /\ x.total_pot \in Int
        BY <1>4 DEF StatsType
    <2> DEFINE z == [x EXCEPT !.aggressive_actions = x.aggressive_actions + a]
    <2>2. z = [hands_dealt |-> x.hands_dealt, hands_won |-> x.hands_won,
               chip_delta_total |-> x.chip_delta_total, vpip_hands |-> x.vpip_hands,
               pfr_hands |-> x.pfr_hands, aggressive_actions |-> x.aggressive_actions + a,
               passive_actions |-> x.passive_actions, total_pot |-> x.total_pot]
        BY <2>1
    <2>3. y = [z EXCEPT !.passive_actions = x.passive_actions + c]
        OBVIOUS
    <2> HIDE DEF z, y
    <2>4. y = [hands_dealt |-> x.hands_dealt, hands_won |-> x.hands_won,
               chip_delta_total |-> x.chip_delta_total, vpip_hands |-> x.vpip_hands,
               pfr_hands |-> x.pfr_hands, aggressive_actions |-> x.aggressive_actions + a,
               passive_actions |-> x.passive_actions + c, total_pot |-> x.total_pot]
        BY <2>2, <2>3
    <2>5. x.aggressive_actions + a \in Nat /\ x.passive_actions + c \in Nat
        BY <1>4, <2>1
    <2>6. y \in StatsType
        BY <2>1, <2>4, <2>5 DEF StatsType
    <2> QED
        BY <2>4, <2>6
<1> HIDE DEF y
<1>6. /\ stats' \in [Seats -> StatsType]
      /\ \A q \in Seats : /\ stats'[q].chip_delta_total = stats[q].chip_delta_total
                          /\ stats'[q].hands_dealt = stats[q].hands_dealt
                          /\ stats'[q].hands_won = stats[q].hands_won
                          /\ stats'[q].vpip_hands = stats[q].vpip_hands
                          /\ stats'[q].pfr_hands = stats[q].pfr_hands
    <2>1. stats' \in [Seats -> StatsType] /\ stats'[s] = y /\ \A q \in Seats \ {s} : stats'[q] = stats[q]
        BY <1>3, <1>4, <1>5
    <2> QED
        BY <1>5, <2>1 DEF x
<1>7. /\ hand' = [street |-> hand'.street, vpip |-> hand'.vpip, pfr |-> hand'.pfr, acts |-> hand'.acts]
      /\ hand'.acts \in Nat /\ hand'.pfr \subseteq hand'.vpip
    <2>1. /\ hand = [street |-> hand.street, vpip |-> hand.vpip, pfr |-> hand.pfr, acts |-> hand.acts]
          /\ hand.acts \in Nat /\ hand.pfr \subseteq hand.vpip
        BY DEF SimInv, SimTypes, Watching
    <2> DEFINE vp == IF hand.street = "Preflop" THEN hand.vpip \union {s} ELSE hand.vpip
               pf == IF hand.street = "Preflop" /\ action = "Raise" THEN hand.pfr \union {s} ELSE hand.pfr
    <2>2. hand' = [hand EXCEPT !.acts = @ + 1, !.vpip = vp, !.pfr = pf]
        BY <1>1 DEF SinkAction
    <2>3. pf \subseteq vp
        BY <2>1
    <2> HIDE DEF vp, pf
    <2>4. hand' = [street |-> hand.street, vpip |-> vp, pfr |-> pf, acts |-> hand.acts + 1]
        BY <2>1, <2>2
    <2> QED
        BY <2>1, <2>3, <2>4
<1> QED
    BY <1>2, <1>6, <1>7, SinkStepKeeps

\* BoardDealt.
LEMMA BoardKeeps ==
    ASSUME SimInv, DealBoard
    PROVE  SimInv'
<1>1. /\ phase = "Watched" /\ UNCHANGED <<args, phase, runner, total, stats, seeds>>
      /\ hand' = [hand EXCEPT !.street = "Flop"]
    BY OnlyWatched DEF DealBoard
<1>2. /\ hand = [street |-> hand.street, vpip |-> hand.vpip, pfr |-> hand.pfr, acts |-> hand.acts]
      /\ hand.acts \in Nat /\ hand.pfr \subseteq hand.vpip /\ stats \in [Seats -> StatsType]
    BY DEF SimInv, SimTypes, Watching
<1>3. hand' = [street |-> "Flop", vpip |-> hand.vpip, pfr |-> hand.pfr, acts |-> hand.acts]
    BY <1>1, <1>2
<1>4. /\ hand' = [street |-> hand'.street, vpip |-> hand'.vpip, pfr |-> hand'.pfr, acts |-> hand'.acts]
      /\ hand'.acts \in Nat /\ hand'.pfr \subseteq hand'.vpip
    BY <1>2, <1>3
<1>5. stats' = stats
    BY <1>1
<1> QED
    BY <1>1, <1>2, <1>4, <1>5, SinkStepKeeps

\* The threads are joined and merged, and the sample's runner is made.
LEMMA MergeKeeps ==
    ASSUME SimInv, Merge
    PROVE  SimInv'
<1> DEFINE T == 1 .. args.threads
           played == [t \in T |-> runner[t].hands]
           D == [t \in T |-> runner[t].deltas]
           won == [s \in Seats |-> SumFunction([t \in T |-> runner[t].deltas[s]])]
           r == Runner(SampleHands, BaseSeed)
<1>1. /\ phase = "Parallel" /\ phase' = "Watched" /\ \A t \in T : Done(t)
      /\ total' = [hands_played |-> SumFunction(played), chip_deltas |-> won]
      /\ runner' = [runner EXCEPT ![0] = r] /\ UNCHANGED <<args, stats, hand, seeds>>
    BY DEF Merge
<1>2. /\ args.hands \in Nat /\ args.threads \in Nat \ {0} /\ T \subseteq Runners /\ 0 \in Runners
      /\ 0 \notin T /\ IsFiniteSet(T)
    <2>1. /\ args.hands \in Nat /\ args.threads \in Nat \ {0}
          /\ T \subseteq Runners /\ 0 \in Runners /\ 0 \notin T
        BY ArgsTypes DEF Threads
    <2>2. 1 \in Int /\ args.threads \in Int
        BY <2>1
    <2> QED
        BY <2>1, <2>2, FS_Interval
<1>3. /\ runner \in [Runners -> RunnerType] /\ (\A t \in Runners : Sound(args.policy, runner[t]))
      /\ args.threads > 1 /\ Fresh
    BY <1>1 DEF SimInv, SimTypes, Watching
<1>4. SumFunction(played) = args.hands
    <2>1. \A t \in T : runner[t].hands = Share(args.hands, args.threads, t - 1) /\ runner[t].hands \in Int
        <3>1. \A t \in T : runner[t].hands = Share(args.hands, args.threads, t - 1)
            BY <1>3 DEF SimInv, Split, Threads
        <3>2. \A t \in T : runner[t] \in RunnerType
            BY <1>2, <1>3
        <3>3. \A q \in RunnerType : q.hands \in Int
            BY DEF RunnerType
        <3> QED
            BY <3>1, <3>2, <3>3
    <2>2. played \in [T -> Int] /\ \A t \in T : played[t] = Share(args.hands, args.threads, t - 1)
        BY <2>1
    <2> DEFINE h == args.hands
               n == args.threads
    <2>3. /\ h \in Nat /\ n \in Nat \ {0} /\ played \in [1 .. n -> Int]
          /\ \A t \in 1 .. n : played[t] = Share(h, n, t - 1)
        BY <1>2, <2>2
    <2> HIDE DEF played, h, n
    <2>4. SumFunction(played) = h
        BY ONLY <2>3, MergedHands
    <2> QED
        BY <2>4 DEF h
<1>5. /\ won \in [Seats -> Int] /\ Net(won, Seats) <= 0 /\ Net(won, Seats) \in Int
      /\ Net(won, Seats) < 0 => \E t \in T : Net(runner[t].deltas, Seats) < 0
    <2>1. D \in [T -> [Seats -> Int]] /\ \A t \in T : Net(D[t], Seats) <= 0
        BY <1>2, <1>3 DEF RunnerType, Sound, NoGains
    <2>5. \A t \in T : Net(D[t], Seats) = Net(runner[t].deltas, Seats)
        OBVIOUS
    <2>6. \A t \in T : Net(D[t], Seats) \in Int
        <3> HIDE DEF D, T
        <3> QED
            BY <2>1, SeatsFinite, NetSteps
    <2>2. ASSUME NEW s \in Seats
          PROVE  SumFunction([t \in T |-> runner[t].deltas[s]]) = Net([t \in T |-> D[t][s]], T)
        <3> DEFINE f == [t \in T |-> D[t][s]]
        <3>1. f = [t \in T |-> runner[t].deltas[s]]
            OBVIOUS
        <3>2. f \in [T -> Int]
            <4> HIDE DEF D
            <4> QED
                BY <2>1
        <3> HIDE DEF f
        <3>3. SumFunction(f) = Net(f, T)
            <4> HIDE DEF T
            <4> QED
                BY <1>2, <3>2, SumIsNet
        <3> QED
            BY <3>1, <3>3 DEF f
    <2>3. won = Columns(D, T, Seats, T)
        BY <2>2 DEF Columns
    <2> HIDE DEF D, T, won
    <2>4. /\ Columns(D, T, Seats, T) \in [Seats -> Int] /\ Net(Columns(D, T, Seats, T), Seats) <= 0
          /\ (\A t \in T : Net(D[t], Seats) = 0) => Net(Columns(D, T, Seats, T), Seats) = 0
        BY <1>2, <2>1, SeatsFinite, RowsAdded
    <2>7. won \in [Seats -> Int] /\ Net(won, Seats) \in Int
        BY <2>3, <2>4, SeatsFinite, NetSteps
    <2>8. (\A t \in T : ~ (Net(D[t], Seats) < 0)) => Net(won, Seats) = 0
        BY <2>1, <2>3, <2>4, <2>6
    <2> QED
        BY <2>3, <2>4, <2>5, <2>7, <2>8
<1>6. /\ r \in RunnerType /\ Sound(args.policy, r) /\ r.hands = SampleHands
      /\ r.hand_idx = 0 /\ r.deltas = Zero /\ ~ r.playing
    <2>1. SampleHands \in Nat /\ BaseSeed \in Nat
        BY <1>2, ScaledUp, SimulationAssumption
    <2> QED
        BY <2>1, NewRunner
<1> HIDE DEF r, won, played
<1>7. /\ runner' \in [Runners -> RunnerType] /\ runner'[0] = r
      /\ \A t \in Runners \ {0} : runner'[t] = runner[t]
    BY <1>1, <1>2, <1>3, <1>6
<1>8. total'.hands_played = args.hands /\ total'.chip_deltas = won
    BY <1>1, <1>4
<1>9. SimTypes'
    BY <1>1, <1>5, <1>7, <1>8 DEF SimInv, SimTypes
<1>10. \A t \in Runners : Sound(args.policy, runner[t])'
    BY <1>1, <1>3, <1>6, <1>7
<1>11. Split'
    <2>1. \A t \in T : runner'[t] = runner[t] /\ seeds'[t] = seeds[t]
        BY <1>1, <1>2, <1>7
    <2>2. \A t \in T : /\ runner[t].hands = Share(args.hands, args.threads, t - 1)
                       /\ runner[t].seed = BaseSeed + Before(args.hands, args.threads, t - 1)
                       /\ Listed(runner[t], seeds[t])
        BY <1>3 DEF SimInv, Split, Threads
    <2>3. \A t \in T : Done(t)'
        BY <1>1, <2>1 DEF Done
    <2>4. args' = args
        BY <1>1
    <2> QED
        BY <1>8, <2>1, <2>2, <2>3, <2>4 DEF Split, Threads
<1>12. Merged'
    <2>1. \A t \in T : runner'[t] = runner[t]
        BY <1>2, <1>7
    <2> QED
        BY <1>1, <1>3, <1>5, <1>8, <2>1 DEF Merged, Threads
<1>13. Watching'
    <2>1. ASSUME args.policy = "Reset", NEW s \in Seats
          PROVE  /\ stats'[s].chip_delta_total = runner'[0].deltas[s]
                 /\ starting_stacks[s] > 0 => stats'[s].hands_dealt = runner'[0].hand_idx
                 /\ Nested(stats'[s])
        <3>1. /\ stats[s].chip_delta_total = runner[0].deltas[s]
              /\ starting_stacks[s] > 0 => stats[s].hands_dealt = runner[0].hand_idx
              /\ Nested(stats[s])
            BY <1>1, <2>1 DEF SimInv, Watching
        <3>2. /\ runner[0].deltas = runner'[0].deltas /\ runner[0].hand_idx = runner'[0].hand_idx
              /\ stats' = stats
            BY <1>1, <1>3, <1>6, <1>7 DEF Fresh
        <3> QED
            BY <3>1, <3>2
    <2>2. hand'.pfr \subseteq hand'.vpip
        BY <1>1 DEF SimInv, Watching
    <2>3. runner'[0].hands = SampleHands' /\ ~ (args'.threads <= 1)
        BY <1>1, <1>2, <1>3, <1>6, <1>7 DEF SampleHands
    <2>4. args' = args
        BY <1>1
    <2> QED
        BY <1>1, <2>1, <2>2, <2>3, <2>4 DEF Watching
<1>14. ReportAgrees'
    BY <1>1 DEF ReportAgrees
<1> QED
    BY <1>9, <1>10, <1>11, <1>12, <1>13, <1>14 DEF SimInv

\* The sample scaled up to the run.
LEMMA ScaledKeeps ==
    ASSUME SimInv, NEW s \in Seats
    PROVE  /\ ScaledStats(s) \in StatsType
           /\ ScaledStats(s).chip_delta_total = total.chip_deltas[s]
           /\ ScaledStats(s).hands_dealt = Scaled(stats[s].hands_dealt)
           /\ Nested(stats[s]) => Nested(ScaledStats(s))
<1> DEFINE x == stats[s]
           c == total.chip_deltas[s]
           y == ScaledStats(s)
<1>1. x \in StatsType /\ c \in Int
    BY DEF SimInv, SimTypes
<1>2. y = [x EXCEPT !.chip_delta_total = c, !.hands_dealt = Scaled(@), !.hands_won = Scaled(@),
                    !.vpip_hands = Scaled(@), !.pfr_hands = Scaled(@), !.total_pot = Scaled(@)]
    BY DEF ScaledStats
<1> HIDE DEF x, c, y
<1>3. /\ x = [hands_dealt |-> x.hands_dealt, hands_won |-> x.hands_won,
              chip_delta_total |-> x.chip_delta_total, vpip_hands |-> x.vpip_hands,
              pfr_hands |-> x.pfr_hands, aggressive_actions |-> x.aggressive_actions,
              passive_actions |-> x.passive_actions, total_pot |-> x.total_pot]
      /\ x.hands_dealt \in Nat /\ x.hands_won \in Nat /\ x.chip_delta_total \in Int
      /\ x.vpip_hands \in Nat /\ x.pfr_hands \in Nat /\ x.aggressive_actions \in Nat
      /\ x.passive_actions \in Nat /\ x.total_pot \in Int
    BY <1>1 DEF StatsType
<1>4. /\ SampleHands \in Nat \ {0} /\ args.hands \in Nat
      /\ \A a, b \in Nat : a <= b => Scaled(a) \in Nat /\ Scaled(a) <= Scaled(b)
    BY ArgsTypes, ScaledUp
<1>5. /\ Scaled(x.hands_dealt) \in Nat /\ Scaled(x.hands_won) \in Nat
      /\ Scaled(x.vpip_hands) \in Nat /\ Scaled(x.pfr_hands) \in Nat
    <2>1. \A a \in Nat : a <= a
        OBVIOUS
    <2> QED
        BY <1>3, <1>4, <2>1
<1>6. Scaled(x.total_pot) \in Int
    <2> DEFINE S == SampleHands
               h == args.hands
               p == x.total_pot
               n == 2 * S
               m == 2 * p * h + S
    <2>1. S \in Nat \ {0} /\ h \in Int /\ p \in Int /\ Scaled(x.total_pot) = m \div n
        BY <1>3, <1>4 DEF Scaled
    <2> HIDE DEF S, h, p
    <2>2. 2 * p * h \in Int
        BY <2>1
    <2>3. m \in Int /\ n \in Nat \ {0}
        BY <2>1, <2>2
    <2> HIDE DEF m, n
    <2>4. m \div n \in Int
        BY <2>3
    <2> QED
        BY <2>1, <2>4
<1>7. y = [hands_dealt |-> Scaled(x.hands_dealt), hands_won |-> Scaled(x.hands_won),
           chip_delta_total |-> c, vpip_hands |-> Scaled(x.vpip_hands),
           pfr_hands |-> Scaled(x.pfr_hands), aggressive_actions |-> x.aggressive_actions,
           passive_actions |-> x.passive_actions, total_pot |-> Scaled(x.total_pot)]
    BY <1>2, <1>3
<1>8. y \in StatsType
    BY <1>1, <1>3, <1>5, <1>6, <1>7 DEF StatsType
<1>9. /\ y.chip_delta_total = c /\ y.hands_dealt = Scaled(x.hands_dealt)
      /\ y.hands_won = Scaled(x.hands_won) /\ y.vpip_hands = Scaled(x.vpip_hands)
      /\ y.pfr_hands = Scaled(x.pfr_hands)
    BY <1>7
<1>10. Nested(x) => Nested(y)
    BY <1>3, <1>4, <1>9 DEF Nested
<1> QED
    BY <1>8, <1>9, <1>10 DEF x, y, c

\* The report.
LEMMA ReportKeeps ==
    ASSUME SimInv, Report
    PROVE  SimInv'
<1>1. /\ phase = "Watched" /\ phase' = "Reported" /\ Done(0) /\ UNCHANGED <<args, runner, total, hand, seeds>>
      /\ stats' = IF args.threads <= 1 THEN stats ELSE [s \in Seats |-> ScaledStats(s)]
    BY DEF Report
<1>2. /\ args.hands \in Nat /\ args.threads \in Nat \ {0} /\ stats \in [Seats -> StatsType]
    BY ArgsTypes DEF SimInv, SimTypes
<1>3. stats' \in [Seats -> StatsType]
    BY <1>1, <1>2, ScaledKeeps
<1>4. SimTypes'
    BY <1>1, <1>3 DEF SimInv, SimTypes
<1>5. \A t \in Runners : Sound(args.policy, runner[t])'
    BY <1>1 DEF SimInv
<1>6. Split'
    BY <1>1 DEF SimInv, Split, Threads, Done
<1>7. Merged'
    BY <1>1 DEF SimInv, Merged, Threads
<1>8. Watching'
    BY <1>1 DEF SimInv, Watching, Done
<1>9. ReportAgrees'
    <2> SUFFICES ASSUME args.policy = "Reset", NEW s \in Seats
                 PROVE  /\ stats'[s].chip_delta_total =
                              IF args.threads > 1 THEN total.chip_deltas[s] ELSE runner[0].deltas[s]
                        /\ starting_stacks[s] > 0 => stats'[s].hands_dealt = args.hands
                        /\ Nested(stats'[s])
        BY <1>1 DEF ReportAgrees, Nested
    <2>1. /\ stats[s].chip_delta_total = runner[0].deltas[s]
          /\ starting_stacks[s] > 0 => stats[s].hands_dealt = runner[0].hand_idx
          /\ Nested(stats[s])
          /\ runner[0].hands = IF args.threads <= 1 THEN args.hands ELSE SampleHands
        BY <1>1 DEF SimInv, Watching
    <2>2. runner[0].hand_idx = runner[0].hands
        BY <1>1 DEF Done
    <2>3. CASE args.threads <= 1
        <3>1. ~ (args.threads > 1) /\ stats' = stats
            BY <1>1, <1>2, <2>3
        <3> QED
            BY <2>1, <2>2, <2>3, <3>1
    <2>4. CASE ~ (args.threads <= 1)
        <3>1. args.threads > 1 /\ stats'[s] = ScaledStats(s)
            BY <1>1, <1>2, <2>4
        <3>2. Scaled(SampleHands) = args.hands
            BY <1>2, ScaledUp
        <3>3. /\ ScaledStats(s).chip_delta_total = total.chip_deltas[s]
              /\ ScaledStats(s).hands_dealt = Scaled(stats[s].hands_dealt)
              /\ Nested(ScaledStats(s))
            BY <2>1, ScaledKeeps
        <3>4. starting_stacks[s] > 0 => stats[s].hands_dealt = SampleHands
            BY <2>1, <2>2, <2>4
        <3> QED
            BY <3>1, <3>2, <3>3, <3>4
    <2> QED
        BY <2>3, <2>4
<1> QED
    BY <1>4, <1>5, <1>6, <1>7, <1>8, <1>9 DEF SimInv

\* No step breaks the invariant.
LEMMA SimStep == SimInv /\ [Next]_vars => SimInv'
<1> SUFFICES ASSUME SimInv, [Next]_vars PROVE SimInv'
    OBVIOUS
<1>1. ASSUME NEW t \in Runners, StartHand(t) PROVE SimInv'
    BY <1>1, StartKeeps
<1>2. ASSUME NEW t \in Runners, EndHand(t) PROVE SimInv'
    BY <1>2, EndKeeps
<1>3. ASSUME NEW s \in Seats, Act(s) PROVE SimInv'
    BY <1>3, ActKeeps
<1>4. CASE DealBoard
    BY <1>4, BoardKeeps
<1>5. CASE Merge
    BY <1>5, MergeKeeps
<1>6. CASE Report
    BY <1>6, ReportKeeps
<1>7. CASE UNCHANGED vars
    BY <1>7 DEF vars, SimInv, SimTypes, Split, Threads, Done, Merged, Watching, SampleHands, Fresh,
                ReportAgrees
<1> QED
    BY <1>1, <1>2, <1>3, <1>4, <1>5, <1>6, <1>7 DEF Next

-----------------------------------------------------------------------------
(* The theorems *)

\* The invariant, of every run of the command.
THEOREM SimInvariance == Spec => []SimInv
BY InitInv, SimStep, PTL DEF Spec

\* No chip is made, in a runner or in the merged result; one that is lost was lost
\* by a seat that is left alone; and stacks that carry over are the starting stacks
\* plus what was won.
THEOREM ChipsAreTracked == Spec => []ChipsTracked
<1>1. SimInv => ChipsTracked
    <2> SUFFICES ASSUME SimInv PROVE ChipsTracked
        OBVIOUS
    <2>1. ASSUME NEW t \in Runners
          PROVE  /\ SumFunction(runner[t].deltas) <= 0
                 /\ SumFunction(runner[t].deltas) = Net(runner[t].deltas, Seats)
                 /\ Net(runner[t].deltas, Seats) < 0 => Alone(runner[t])
        <3> DEFINE f == runner[t].deltas
                   r == runner[t]
        <3>1. r \in RunnerType /\ NoGains(args.policy, r)
            BY DEF SimInv, SimTypes, Sound
        <3>2. f \in [Seats -> Int]
            BY <3>1 DEF RunnerType
        <3>3. OneAtMost(args.policy, r) => Alone(r)
            <4>1. HandStacks(r) = NextStacks(args.policy, r)
                BY DEF HandStacks, NextStacks
            <4> HIDE DEF r
            <4> QED
                BY <4>1 DEF OneAtMost, Alone, InPlay
        <3>4. NoGains(args.policy, r) => Net(f, Seats) <= 0 /\ (Net(f, Seats) < 0 => OneAtMost(args.policy, r))
            BY DEF NoGains
        <3> HIDE DEF f, r
        <3>5. SumFunction(f) = Net(f, Seats)
            BY <3>2, SeatsFinite, SumIsNet
        <3> QED
            BY <3>1, <3>3, <3>4, <3>5 DEF f, r
    <2>2. /\ SumFunction(total.chip_deltas) <= 0
          /\ SumFunction(total.chip_deltas) < 0 => \E t \in 1 .. args.threads : Alone(runner[t])
        <3> DEFINE f == total.chip_deltas
        <3>1. f \in [Seats -> Int] /\ Net(f, Seats) <= 0
            BY DEF SimInv, SimTypes, Merged
        <3>2. Net(f, Seats) < 0 => \E t \in Threads : Net(runner[t].deltas, Seats) < 0
            BY DEF SimInv, Merged
        <3> HIDE DEF f
        <3>3. SumFunction(f) = Net(f, Seats)
            BY <3>1, SeatsFinite, SumIsNet
        <3>4. Threads \subseteq Runners
            BY ArgsTypes
        <3> QED
            BY <2>1, <3>1, <3>2, <3>3, <3>4 DEF f, Threads
    <2>3. \A t \in Runners : \A s \in Seats : runner[t].stacks[s] = Expected(args.policy, runner[t], s)
        BY DEF SimInv, Sound
    <2> QED
        BY <2>1, <2>2, <2>3 DEF ChipsTracked, Expected
<1> QED
    BY <1>1, SimInvariance, PTL

\* The button is on a seat with chips whenever a hand is dealt, if it is at the
\* start: run() puts it on seat 0 without looking.
THEOREM DealersHaveChips ==
    ASSUME starting_stacks[0] > 0
    PROVE  Spec => []DealerHasChips
<1>1. SimInv => DealerHasChips
    <2> SUFFICES ASSUME SimInv, NEW t \in Runners PROVE HandStacks(runner[t])[runner[t].dealer] > 0
        BY DEF DealerHasChips
    <2>1. /\ runner[t].stacks[runner[t].dealer] > 0 /\ runner[t].dealer \in Seats
          /\ \A s \in Seats : runner[t].stacks[s] = Expected(args.policy, runner[t], s)
        BY DEF SimInv, SimTypes, Sound, RunnerType
    <2>2. CASE args.policy = "Reset"
        <3>1. \A s \in Seats : starting_stacks[s] \in Nat
            BY SimulationAssumption
        <3> QED
            BY <2>1, <2>2, <3>1 DEF HandStacks, Expected
    <2>3. CASE args.policy # "Reset"
        BY <2>1, <2>3 DEF HandStacks
    <2> QED
        BY <2>2, <2>3
<1> QED
    BY <1>1, SimInvariance, PTL

\* The report covers all the hands and chips of the run, sampled or not.
THEOREM ReportsAgree == Spec => []ReportAgrees
<1>1. SimInv => ReportAgrees
    BY DEF SimInv
<1> QED
    BY <1>1, SimInvariance, PTL

\* The seeds of a thread lie between its offset and the next thread's, and once
\* it is done they are all of these.
LEMMA SeedRange ==
    ASSUME SimInv, args.threads > 1, NEW t \in Threads
    PROVE  /\ \A x \in SeedsOf(t) : /\ x \in Nat /\ BaseSeed + Before(args.hands, args.threads, t - 1) <= x
                                    /\ x < BaseSeed + Before(args.hands, args.threads, t)
           /\ Done(t) => \A x \in Nat :
                 BaseSeed + Before(args.hands, args.threads, t - 1) <= x
                 /\ x < BaseSeed + Before(args.hands, args.threads, t) => x \in SeedsOf(t)
<1> DEFINE r == runner[t]
           a == BaseSeed + Before(args.hands, args.threads, t - 1)
           b == BaseSeed + Before(args.hands, args.threads, t)
           n == Begun(r)
<1>1. /\ args.hands \in Nat /\ args.threads \in Nat \ {0} /\ t \in Runners /\ t \in Nat /\ t - 1 \in Nat
      /\ BaseSeed \in Nat
    BY ArgsTypes, SimulationAssumption DEF Threads
<1>2. r \in RunnerType /\ Sound(args.policy, r)
    BY <1>1 DEF SimInv, SimTypes
<1>3. r.hands = Share(args.hands, args.threads, t - 1) /\ r.seed = a /\ Listed(r, seeds[t])
    BY DEF SimInv, Split
<1>4. a \in Nat /\ b = a + r.hands
    <2>1. (t - 1) + 1 = t
        BY <1>1
    <2>2. /\ Before(args.hands, args.threads, t - 1) \in Nat /\ Share(args.hands, args.threads, t - 1) \in Nat
          /\ Before(args.hands, args.threads, (t - 1) + 1)
               = Share(args.hands, args.threads, t - 1) + Before(args.hands, args.threads, t - 1)
        BY <1>1, BeforeNext
    <2> QED
        BY <1>1, <1>3, <2>1, <2>2
<1>5. n \in Nat /\ r.hands \in Nat /\ n <= r.hands /\ (Done(t) => n = r.hands)
    BY <1>2 DEF RunnerType, Sound, Begun, Done
<1>6. seeds[t] \in Seq(Nat) /\ Len(seeds[t]) = n /\ \A i \in 1 .. n : seeds[t][i] = a + (i - 1)
    BY <1>1, <1>3 DEF Listed, SimInv, SimTypes
<1>7. DOMAIN seeds[t] = 1 .. n
    BY <1>6
<1> HIDE DEF r, a, b, n
<1>8. ASSUME NEW x \in SeedsOf(t) PROVE x \in Nat /\ a <= x /\ x < b
    <2>1. PICK i \in 1 .. n : x = seeds[t][i]
        BY <1>7 DEF SeedsOf
    <2>2. x = a + (i - 1) /\ i \in Nat /\ 1 <= i /\ i <= n
        BY <1>5, <1>6, <2>1
    <2> QED
        BY <1>4, <1>5, <2>2
<1>9. ASSUME Done(t), NEW x \in Nat, a <= x, x < b PROVE x \in SeedsOf(t)
    <2> DEFINE i == x - a + 1
    <2>1. i \in 1 .. n /\ a + (i - 1) = x
        BY <1>4, <1>5, <1>9
    <2> HIDE DEF i
    <2>2. seeds[t][i] = x
        BY <1>6, <2>1
    <2> QED
        BY <1>7, <2>1, <2>2 DEF SeedsOf
<1> QED
    BY <1>8, <1>9 DEF a, b

\* Every hand of the run belongs to some thread.
LEMMA SomeThread ==
    ASSUME NEW h \in Nat, NEW n \in Nat \ {0}, NEW k \in 0 .. h - 1
    PROVE  \E t \in 1 .. n : Before(h, n, t - 1) <= k /\ k < Before(h, n, t)
<1> DEFINE T == {t \in 0 .. n : k < Before(h, n, t)}
<1>1. Before(h, n, 0) = 0 /\ Before(h, n, n) = h
    BY BeforeOrder
<1>2. n \in T /\ 0 \notin T /\ T \subseteq Nat
    BY <1>1
<1>3. PICK t \in T : \A u \in T : t <= u
    <2> HIDE DEF T
    <2>1. T # {}
        BY <1>2
    <2> QED
        BY <1>2, <2>1, LeastNatural
<1>4. t \in 1 .. n /\ k < Before(h, n, t)
    BY <1>2
<1>5. t - 1 \in 0 .. n /\ t - 1 \notin T
    BY <1>3, <1>4
<1>6. Before(h, n, t - 1) \in Nat
    BY <1>5, BeforeNext
<1>7. Before(h, n, t - 1) <= k
    BY <1>5, <1>6
<1> QED
    BY <1>4, <1>7

\* The threads play different decks, and together those of an undivided run,
\* whatever the number of hands and threads.
THEOREM SeedsArePartitioned == Spec => []SeedsPartition
<1>1. SimInv => SeedsPartition
    <2> SUFFICES ASSUME SimInv, args.threads > 1
                 PROVE  /\ \A t, u \in Threads : t # u => SeedsOf(t) \intersect SeedsOf(u) = {}
                        /\ phase # "Parallel" =>
                              /\ UNION {SeedsOf(t) : t \in Threads} = BaseSeed .. BaseSeed + args.hands - 1
                              /\ total.hands_played = args.hands
        BY DEF SeedsPartition, Threads
    <2> DEFINE h == args.hands
               n == args.threads
               At(t) == Before(h, n, t)
    <2>1. /\ h \in Nat /\ n \in Nat \ {0} /\ BaseSeed \in Nat
          /\ \A t \in Threads : t \in 1 .. n /\ t - 1 \in Nat /\ t \in Nat
        BY ArgsTypes, SimulationAssumption DEF Threads
    <2>2. \A t \in Nat : At(t) \in Nat /\ Share(h, n, t) \in Nat /\ At(t + 1) = Share(h, n, t) + At(t)
        BY <2>1, BeforeNext
    <2>3. At(0) = 0 /\ At(n) = h /\ \A t, u \in Nat : t < u => At(t) + Share(h, n, t) <= At(u)
        BY <2>1, BeforeOrder
    <2>4. \A t \in Threads :
            /\ \A x \in SeedsOf(t) : x \in Nat /\ BaseSeed + At(t - 1) <= x /\ x < BaseSeed + At(t)
            /\ Done(t) => \A x \in Nat : BaseSeed + At(t - 1) <= x /\ x < BaseSeed + At(t) => x \in SeedsOf(t)
        BY SeedRange
    <2>5. \A k \in 0 .. h - 1 : \E t \in 1 .. n : At(t - 1) <= k /\ k < At(t)
        BY <2>1, SomeThread
    <2> HIDE DEF At, h, n
    <2>6. \A t, u \in Nat : t <= u => At(t) <= At(u)
        <3> SUFFICES ASSUME NEW t \in Nat, NEW u \in Nat, t <= u PROVE At(t) <= At(u)
            OBVIOUS
        <3>1. CASE t = u
            BY <2>2, <3>1
        <3>2. CASE t # u
            BY <2>2, <2>3, <3>2
        <3> QED
            BY <3>1, <3>2
    <2>7. ASSUME NEW t \in Threads, NEW u \in Threads, t < u PROVE SeedsOf(t) \intersect SeedsOf(u) = {}
        <3> SUFFICES ASSUME NEW x \in SeedsOf(t), x \in SeedsOf(u) PROVE FALSE
            OBVIOUS
        <3>1. x \in Nat /\ x < BaseSeed + At(t) /\ BaseSeed + At(u - 1) <= x
            BY <2>4
        <3>2. t \in Nat /\ u - 1 \in Nat /\ t <= u - 1
            BY <2>1, <2>7
        <3>3. At(t) <= At(u - 1) /\ At(t) \in Nat /\ At(u - 1) \in Nat
            BY <2>2, <2>6, <3>2
        <3> QED
            BY <2>1, <3>1, <3>3
    <2>8. ASSUME NEW t \in Threads, NEW u \in Threads, t # u PROVE SeedsOf(t) \intersect SeedsOf(u) = {}
        <3>1. t < u \/ u < t
            BY <2>1, <2>8
        <3> QED
            BY <2>7, <3>1
    <2>9. ASSUME phase # "Parallel"
          PROVE  /\ UNION {SeedsOf(t) : t \in Threads} = BaseSeed .. BaseSeed + h - 1
                 /\ total.hands_played = h
        <3>1. (\A t \in Threads : Done(t)) /\ total.hands_played = h
            BY <2>9 DEF SimInv, Split, h
        <3>2. ASSUME NEW t \in Threads, NEW x \in SeedsOf(t) PROVE x \in BaseSeed .. BaseSeed + h - 1
            <4>1. x \in Nat /\ BaseSeed + At(t - 1) <= x /\ x < BaseSeed + At(t)
                BY <2>4
            <4>2. t - 1 \in Nat /\ t \in Nat /\ n \in Nat /\ t <= n
                BY <2>1
            <4>3. At(t - 1) \in Nat /\ At(t) \in Nat /\ At(t) <= h
                BY <2>2, <2>3, <2>6, <4>2
            <4> QED
                BY <2>1, <4>1, <4>3
        <3>3. ASSUME NEW x \in BaseSeed .. BaseSeed + h - 1 PROVE \E t \in Threads : x \in SeedsOf(t)
            <4> DEFINE k == x - BaseSeed
            <4>1. k \in 0 .. h - 1 /\ x = BaseSeed + k /\ x \in Nat
                BY <2>1
            <4> HIDE DEF k
            <4>2. PICK t \in 1 .. n : At(t - 1) <= k /\ k < At(t)
                BY <2>5, <4>1
            <4>3. t \in Threads
                BY DEF Threads, n
            <4>4. At(t - 1) \in Nat /\ At(t) \in Nat /\ k \in Nat
                BY <2>1, <2>2, <4>1, <4>3
            <4>5. BaseSeed + At(t - 1) <= x /\ x < BaseSeed + At(t)
                BY <2>1, <4>1, <4>2, <4>4
            <4>6. x \in SeedsOf(t)
                BY <2>4, <3>1, <4>1, <4>3, <4>5
            <4> QED
                BY <4>3, <4>6
        <3>4. \A x : x \in UNION {SeedsOf(t) : t \in Threads} <=> x \in BaseSeed .. BaseSeed + h - 1
            BY <3>2, <3>3
        <3> QED
            BY <3>1, <3>4
    <2> QED
        BY <2>8, <2>9 DEF h
<1> QED
    BY <1>1, SimInvariance, PTL
=============================================================================
