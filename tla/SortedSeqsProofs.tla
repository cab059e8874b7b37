--------------------------- MODULE SortedSeqsProofs ---------------------------
(***************************************************************************)
(* What SortedSeqs makes has each element once and in order, and what is   *)
(* defined step by step over the numbers up to n exists and has what each  *)
(* step keeps.  The theorems of the library that need an operator for what *)
(* they are about cannot be used; here a set or a function stands for it.  *)
(***************************************************************************)
EXTENDS SortedSeqs, Sequences, FiniteSetTheorems, SequenceTheorems, WellFoundedInduction, TLAPS

-----------------------------------------------------------------------------
(* Induction. *)

\* Numbers that are some have a smallest.
LEMMA Smallest ==
  ASSUME NEW T, T \subseteq Nat, T # {}
  PROVE  \E x \in T : \A y \in T : x <= y
<1>. DEFINE R == OpToRel(<, Nat)
<1>1. IsWellFoundedOn(R, Nat)
  BY NatLessThanWellFounded
<1>2. PICK x \in T : \A y \in T : ~(<<y, x>> \in R)
  <2>. HIDE DEF R
  <2>. QED  BY <1>1, WFMin, Zenon
<1>3. \A y \in T : <<y, x>> \in R <=> y < x
  <2>. TAKE y \in T
  <2>1. <<y, x>> \in Nat \X Nat /\ <<y, x>>[1] = y /\ <<y, x>>[2] = x
    OBVIOUS
  <2>2. R = {ss \in Nat \X Nat : ss[1] < ss[2]}
    BY DEF OpToRel
  <2>. HIDE DEF R
  <2>. QED  BY <2>1, <2>2
<1>. HIDE DEF R
<1>4. \A y \in T : ~(y < x)
  BY <1>2, <1>3, Zenon
<1>. QED  BY <1>4

\* What holds at 0 and goes on holding.
LEMMA UpTo ==
  ASSUME NEW n \in Nat, NEW Good, 0 \in Good, \A i \in 1..n : i - 1 \in Good => i \in Good
  PROVE  \A i \in 0..n : i \in Good
<1>. DEFINE Bad == {i \in 0..n : i \notin Good}
<1>1. ASSUME Bad # {}
      PROVE  FALSE
  <2>1. Bad \subseteq Nat
    OBVIOUS
  <2>2. PICK m \in Bad : \A k \in Bad : m <= k
    <3>. HIDE DEF Bad
    <3>. QED  BY <1>1, <2>1, Smallest
  <2>3. m \in 1..n /\ m \notin Good
    OBVIOUS
  <2>4. m - 1 \in 0..n /\ ~(m <= m - 1)
    BY <2>3
  <2>5. m - 1 \in Good
    BY <2>2, <2>4
  <2>. QED  BY <2>3, <2>5
<1>. QED  BY <1>1

\* What f is at 0, and how each step makes it from what it was before.
StepsOf(f, base, step, n) == f[0] = base /\ \A i \in 1..n : f[i] = step[i][f[i - 1]]

\* A function that is defined step by step is there.
LEMMA StepByStep ==
  ASSUME NEW S, NEW base \in S, NEW n \in Nat, NEW step \in [1..n -> [S -> S]]
  PROVE  \E f \in [0..n -> S] : StepsOf(f, base, step, n)
<1>. DEFINE Runs(m) == {f \in [0..m -> S] : f[0] = base /\ \A i \in 1..m : f[i] = step[i][f[i - 1]]}
            Good == {m \in 0..n : Runs(m) # {}}
<1>1. 0 \in Good
  <2>1. [i \in 0..0 |-> base] \in [0..0 -> S] /\ [i \in 0..0 |-> base][0] = base
    OBVIOUS
  <2>2. 1..0 = {} /\ 0 \in 0..n
    OBVIOUS
  <2>3. [i \in 0..0 |-> base] \in Runs(0)
    BY <2>1, <2>2
  <2>. QED  BY <2>2, <2>3
<1>2. ASSUME NEW m \in 1..n, m - 1 \in Good
      PROVE  m \in Good
  <2>1. PICK f \in [0..m - 1 -> S] : f[0] = base /\ \A i \in 1..m - 1 : f[i] = step[i][f[i - 1]]
    BY <1>2
  <2>. DEFINE g == [i \in 0..m |-> IF i = m THEN step[m][f[m - 1]] ELSE f[i]]
  <2>2. g \in [0..m -> S]
    BY <2>1
  <2>3. g[0] = base
    BY <2>1
  <2>4. \A i \in 1..m : g[i] = step[i][g[i - 1]]
    BY <2>1
  <2>. HIDE DEF g
  <2>5. Runs(m) # {}
    BY <2>2, <2>3, <2>4
  <2>. QED  BY <2>5
<1>3. n \in Good
  <2>. HIDE DEF Good
  <2>1. \A i \in 1..n : i - 1 \in Good => i \in Good
    BY <1>2
  <2>2. \A i \in 0..n : i \in Good
    BY <1>1, <2>1, UpTo
  <2>. QED  BY <2>2
<1>. QED  BY <1>3 DEF StepsOf

-----------------------------------------------------------------------------
(* Sequences in an order. *)

\* b says what comes before each element of S, and s has them in that order.
StrictOrder(b, S) ==
  /\ IsFiniteSet(S) /\ b \in [S -> SUBSET S] /\ \A x \in S : x \notin b[x]
  /\ \A x, y \in S : y \in b[x] => b[y] \subseteq b[x]
  /\ \A x, y \in S : x = y \/ x \in b[y] \/ y \in b[x]

StandsInOrder(s, b, S) ==
  /\ s \in Seq(S) /\ Len(s) = Cardinality(S) /\ Cardinality(S) \in Nat
  /\ \A x \in S : \E k \in 1..Len(s) : s[k] = x
  /\ \A i, j \in 1..Len(s) : i < j => s[i] \in b[s[j]]
  /\ \A k \in 1..Len(s) : Cardinality(b[s[k]]) = k - 1

\* A finite set in an order: each of its elements once, those before it before it.
LEMMA InOrderIs ==
  ASSUME NEW S, NEW b, StrictOrder(b, S)
  PROVE  StandsInOrder(InOrder(b), b, S)
<1>. DEFINE n == Cardinality(S)
            rank == [x \in S |-> Cardinality(b[x])]
            s == InOrder(b)
<1>a. /\ IsFiniteSet(S) /\ b \in [S -> SUBSET S]
      /\ \A x \in S : x \notin b[x]
      /\ \A x, y \in S : y \in b[x] => b[y] \subseteq b[x]
      /\ \A x, y \in S : x = y \/ x \in b[y] \/ y \in b[x]
  BY DEF StrictOrder
<1>0. /\ s = [k \in 1..n |-> s[k]]
      /\ \A k \in 1..n : s[k] = CHOOSE x \in S : Cardinality(b[x]) = k - 1
  BY <1>a, DOMAIN b = S DEF InOrder
<1>1. n \in Nat
  BY <1>a, FS_CardinalityType
<1>2. ASSUME NEW x \in S
      PROVE  rank[x] \in Nat /\ rank[x] < n /\ IsFiniteSet(b[x]) /\ rank[x] = Cardinality(b[x])
  <2>1. b[x] \in SUBSET (S \ {x})
    BY <1>a
  <2>2. IsFiniteSet(S \ {x}) /\ Cardinality(S \ {x}) = n - 1
    BY <1>a, FS_RemoveElement
  <2>3. IsFiniteSet(b[x]) /\ Cardinality(b[x]) <= n - 1
    BY <2>1, <2>2, FS_Subset
  <2>4. Cardinality(b[x]) \in Nat
    BY <2>3, FS_CardinalityType
  <2>5. rank[x] = Cardinality(b[x])
    OBVIOUS
  <2>. HIDE DEF rank, n
  <2>. QED  BY <1>1, <2>3, <2>4, <2>5
<1>. HIDE DEF rank, s
<1>3. ASSUME NEW x \in S, NEW y \in S, y \in b[x]
      PROVE  rank[y] < rank[x]
  <2>1. b[y] \in SUBSET b[x] /\ b[y] # b[x]
    BY <1>a, <1>3
  <2>2. Cardinality(b[y]) <= Cardinality(b[x]) /\ Cardinality(b[y]) # Cardinality(b[x])
    BY <1>2, <2>1, FS_Subset
  <2>. QED  BY <1>2, <2>2
<1>4. \A x, y \in S : rank[x] = rank[y] => x = y
  <2>1. ASSUME NEW x \in S, NEW y \in S, rank[x] = rank[y], x # y
        PROVE  FALSE
    <3>1. x \in b[y] \/ y \in b[x]
      BY <1>a, <2>1
    <3>2. rank[x] < rank[y] \/ rank[y] < rank[x]
      BY <1>3, <3>1
    <3>. QED  BY <1>2, <2>1, <3>2
  <2>. QED  BY <2>1
<1>5. \A k \in 1..n : \E x \in S : rank[x] = k - 1
  <2>. DEFINE f == [x \in S |-> rank[x] + 1]
  <2>1. f \in Injection(S, 1..n)
    <3>1. \A x \in S : f[x] = rank[x] + 1 /\ f[x] \in 1..n
      BY <1>1, <1>2
    <3>2. f \in [S -> 1..n]
      BY <3>1
    <3>3. \A x, y \in S : f[x] = f[y] => x = y
      BY <1>2, <1>4, <3>1
    <3>. QED  BY <3>2, <3>3 DEF Injection, IsInjective
  <2>2. IsFiniteSet(1..n) /\ Cardinality(1..n) = n
    BY <1>1, FS_Interval
  <2>3. f \in Surjection(S, 1..n)
    BY <1>a, <2>1, <2>2, FS_Injection
  <2>4. \A k \in 1..n : \E x \in S : f[x] = k
    BY <2>3 DEF Surjection
  <2>5. \A x \in S : f[x] = rank[x] + 1
    OBVIOUS
  <2>. HIDE DEF f
  <2>. QED  BY <1>1, <1>2, <2>4, <2>5
<1>. HIDE DEF n
<1>6. \A k \in 1..n : s[k] \in S /\ rank[s[k]] = k - 1
  <2>1. ASSUME NEW k \in 1..n
        PROVE  s[k] \in S /\ Cardinality(b[s[k]]) = k - 1
    <3>1. \E x \in S : Cardinality(b[x]) = k - 1
      BY <1>2, <1>5
    <3>. QED  BY <1>0, <3>1
  <2>. QED  BY <1>2, <2>1
<1>7. s \in Seq(S) /\ Len(s) = n
  BY <1>0, <1>1, <1>6
<1>8. \A x \in S : \E k \in 1..n : s[k] = x
  <2>1. ASSUME NEW x \in S
        PROVE  \E k \in 1..n : s[k] = x
    <3>. DEFINE k == rank[x] + 1
    <3>1. k \in 1..n /\ k - 1 = rank[x]
      BY <1>1, <1>2
    <3>. HIDE DEF k
    <3>2. s[k] \in S /\ rank[s[k]] = rank[x]
      BY <1>6, <3>1
    <3>. QED  BY <1>4, <3>1, <3>2
  <2>. QED  BY <2>1
<1>9. ASSUME NEW i \in 1..n, NEW j \in 1..n, i < j
      PROVE  s[i] \in b[s[j]]
  <2>1. s[i] \in S /\ s[j] \in S /\ rank[s[i]] = i - 1 /\ rank[s[j]] = j - 1
    BY <1>6
  <2>2. rank[s[i]] < rank[s[j]] /\ ~(rank[s[j]] < rank[s[i]])
    BY <1>1, <1>9, <2>1
  <2>3. s[i] # s[j] /\ s[j] \notin b[s[i]]
    BY <1>3, <2>1, <2>2
  <2>. QED  BY <1>a, <2>1, <2>3
<1>10. \A k \in 1..n : Cardinality(b[s[k]]) = k - 1
  BY <1>2, <1>6
<1>. QED  BY <1>1, <1>7, <1>8, <1>9, <1>10 DEF StandsInOrder, s, n

\* Numbers in their order.
LEMMA AscendingIs ==
  ASSUME NEW S, S \subseteq Int, IsFiniteSet(S)
  PROVE  /\ Ascending(S) \in Seq(S) /\ Len(Ascending(S)) = Cardinality(S) /\ Cardinality(S) \in Nat
         /\ \A x \in S : \E k \in 1..Len(Ascending(S)) : Ascending(S)[k] = x
         /\ \A i, j \in 1..Len(Ascending(S)) : i < j => Ascending(S)[i] < Ascending(S)[j]
<1>. DEFINE b == [i \in S |-> {j \in S : j < i}]
            s == InOrder(b)
<1>1. b \in [S -> SUBSET S] /\ \A x, y \in S : y \in b[x] <=> y < x
  OBVIOUS
<1>2. Ascending(S) = s
  BY DEF Ascending
<1>. HIDE DEF b
<1>3. \A x \in S : x \notin b[x]
  BY <1>1
<1>4. \A x, y \in S : y \in b[x] => b[y] \subseteq b[x]
  <2>1. ASSUME NEW x \in S, NEW y \in S, y \in b[x], NEW z \in b[y]
        PROVE  z \in b[x]
    <3>1. z \in S /\ x \in Int /\ y \in Int /\ z \in Int
      BY <1>1
    <3>. QED  BY <1>1, <2>1, <3>1
  <2>. QED  BY <2>1
<1>5. \A x, y \in S : x = y \/ x \in b[y] \/ y \in b[x]
  BY <1>1
<1>6. /\ s \in Seq(S) /\ Len(s) = Cardinality(S) /\ Cardinality(S) \in Nat
      /\ \A x \in S : \E k \in 1..Len(s) : s[k] = x
      /\ \A i, j \in 1..Len(s) : i < j => s[i] \in b[s[j]]
  <2>1. StrictOrder(b, S)
    BY <1>1, <1>3, <1>4, <1>5 DEF StrictOrder
  <2>2. StandsInOrder(s, b, S)
    BY <2>1, InOrderIs
  <2>. HIDE DEF s
  <2>. QED  BY <2>2 DEF StandsInOrder
<1>. HIDE DEF s
<1>7. \A i \in 1..Len(s) : s[i] \in S
  BY <1>6
<1>. QED  BY <1>1, <1>2, <1>6, <1>7

\* Numbers in the reverse of their order.
LEMMA DescendingIs ==
  ASSUME NEW S, S \subseteq Int, IsFiniteSet(S)
  PROVE  /\ Descending(S) \in Seq(S) /\ Len(Descending(S)) = Cardinality(S) /\ Cardinality(S) \in Nat
         /\ \A x \in S : \E k \in 1..Len(Descending(S)) : Descending(S)[k] = x
         /\ \A i, j \in 1..Len(Descending(S)) : i < j => Descending(S)[i] > Descending(S)[j]
<1>. DEFINE b == [i \in S |-> {j \in S : j > i}]
            s == InOrder(b)
<1>1. b \in [S -> SUBSET S] /\ \A x, y \in S : y \in b[x] <=> y > x
  OBVIOUS
<1>2. Descending(S) = s
  BY DEF Descending
<1>. HIDE DEF b
<1>3. \A x \in S : x \notin b[x]
  BY <1>1
<1>4. \A x, y \in S : y \in b[x] => b[y] \subseteq b[x]
  <2>1. ASSUME NEW x \in S, NEW y \in S, y \in b[x], NEW z \in b[y]
        PROVE  z \in b[x]
    <3>1. z \in S /\ x \in Int /\ y \in Int /\ z \in Int
      BY <1>1
    <3>. QED  BY <1>1, <2>1, <3>1
  <2>. QED  BY <2>1
<1>5. \A x, y \in S : x = y \/ x \in b[y] \/ y \in b[x]
  BY <1>1
<1>6. /\ s \in Seq(S) /\ Len(s) = Cardinality(S) /\ Cardinality(S) \in Nat
      /\ \A x \in S : \E k \in 1..Len(s) : s[k] = x
      /\ \A i, j \in 1..Len(s) : i < j => s[i] \in b[s[j]]
  <2>1. StrictOrder(b, S)
    BY <1>1, <1>3, <1>4, <1>5 DEF StrictOrder
  <2>2. StandsInOrder(s, b, S)
    BY <2>1, InOrderIs
  <2>. HIDE DEF s
  <2>. QED  BY <2>2 DEF StandsInOrder
<1>. HIDE DEF s
<1>7. \A i \in 1..Len(s) : s[i] \in S
  BY <1>6
<1>. QED  BY <1>1, <1>2, <1>6, <1>7

\* t has the elements of list that are in S, in the order of the list.
Selects(t, list, S) ==
  /\ \A i \in 1..Len(list) : list[i] \in S => \E k \in 1..Len(t) : t[k] = list[i]
  /\ \A i, j \in 1..Len(t) : i < j =>
       \E k, l \in 1..Len(list) : k < l /\ t[i] = list[k] /\ t[j] = list[l]

\* The elements of a list that are in a set, in the order of the list.
LEMMA ThoseAre ==
  ASSUME NEW D, NEW list \in Seq(D), NEW S
  PROVE  Those(list, S) \in Seq(D \cap S) /\ Selects(Those(list, S), list, S)
<1>. DEFINE I == {i \in DOMAIN list : list[i] \in S}
            at == Ascending(I)
            t == Those(list, S)
<1>1. I \in SUBSET (1..Len(list)) /\ Len(list) \in Nat
  OBVIOUS
<1>2. IsFiniteSet(1..Len(list))
  BY <1>1, FS_Interval
<1>3. IsFiniteSet(I)
  BY <1>1, <1>2, FS_Subset
<1>4. I \subseteq Int
  BY <1>1
<1>5. /\ at \in Seq(I)
      /\ \A x \in I : \E k \in 1..Len(at) : at[k] = x
      /\ \A i, j \in 1..Len(at) : i < j => at[i] < at[j]
  BY <1>3, <1>4, AscendingIs
<1>6. t = [k \in DOMAIN at |-> list[at[k]]]
  BY Zenon DEF Those
<1>7. \A i \in I : i \in 1..Len(list) /\ list[i] \in D \cap S
  BY <1>1
<1>8. \A i \in 1..Len(list) : list[i] \in S => i \in I
  OBVIOUS
<1>. HIDE DEF I, at, t
<1>9. /\ DOMAIN at = 1..Len(at) /\ Len(at) \in Nat /\ \A k \in 1..Len(at) : at[k] \in I
  BY <1>5
<1>10. t \in Seq(D \cap S) /\ Len(t) = Len(at) /\ \A k \in 1..Len(at) : t[k] = list[at[k]]
  BY <1>6, <1>7, <1>9
<1>11. \A i \in 1..Len(list) : list[i] \in S => \E k \in 1..Len(t) : t[k] = list[i]
  BY <1>5, <1>8, <1>9, <1>10
<1>12. \A i, j \in 1..Len(t) : i < j => at[i] \in 1..Len(list) /\ at[j] \in 1..Len(list) /\ at[i] < at[j]
  BY <1>5, <1>7, <1>9, <1>10
<1>13. \A i, j \in 1..Len(t) : i < j =>
                 \E k, l \in 1..Len(list) : k < l /\ t[i] = list[k] /\ t[j] = list[l]
  BY <1>10, <1>12
<1>. QED  BY <1>10, <1>11, <1>13 DEF Selects, t

\* s has the elements of list, that at k from where "at" says.
Arranged(s, list, at) ==
  /\ at \in [1..Len(list) -> 1..Len(list)] /\ Len(s) = Len(list)
  /\ \A k \in 1..Len(list) : s[k] = list[at[k]]
  /\ \A i \in 1..Len(list) : \E k \in 1..Len(list) : at[k] = i
  /\ \A k, l \in 1..Len(list) : at[k] = at[l] => k = l

\* What is at k has k - 1 before it: those of smaller ranks, and of the same before it.
Ranked(n, rank, at) ==
  \A k \in 1..n :
    Cardinality({j \in 1..n : rank[j] < rank[at[k]] \/ (rank[j] = rank[at[k]] /\ j < at[k])}) = k - 1

\* A list in the order of ranks has the elements of the list, each where its rank says.
LEMMA SortedByIs ==
  ASSUME NEW D, NEW list \in Seq(D), NEW rank \in [DOMAIN list -> Int]
  PROVE  /\ SortedBy(list, rank) \in Seq(D)
         /\ \E at : Arranged(SortedBy(list, rank), list, at) /\ Ranked(Len(list), rank, at)
<1>. DEFINE N == 1..Len(list)
            b == [i \in N |-> {j \in N : rank[j] < rank[i] \/ (rank[j] = rank[i] /\ j < i)}]
            at == InOrder(b)
            s == SortedBy(list, rank)
<1>1. DOMAIN list = N /\ Len(list) \in Nat /\ N \subseteq Int
  OBVIOUS
<1>2. IsFiniteSet(N) /\ Cardinality(N) = Len(list)
  <2>1. /\ IsFiniteSet(1..Len(list))
        /\ Cardinality(1..Len(list)) = IF 1 > Len(list) THEN 0 ELSE Len(list) - 1 + 1
    BY <1>1, FS_Interval
  <2>. QED  BY <1>1, <2>1
<1>3. s = [k \in DOMAIN at |-> list[at[k]]]
  BY <1>1 DEF SortedBy
<1>4. /\ b \in [N -> SUBSET N]
      /\ \A i \in N : b[i] = {j \in N : rank[j] < rank[i] \/ (rank[j] = rank[i] /\ j < i)}
      /\ \A i, j \in N : j \in b[i] <=> rank[j] < rank[i] \/ (rank[j] = rank[i] /\ j < i)
  OBVIOUS
<1>5. \A i \in N : rank[i] \in Int /\ i \in Int
  BY <1>1
<1>. HIDE DEF b, N
<1>6. \A x \in N : x \notin b[x]
  BY <1>4, <1>5
<1>7. \A x, y \in N : y \in b[x] => b[y] \subseteq b[x]
  <2>1. ASSUME NEW x \in N, NEW y \in N, y \in b[x], NEW z \in b[y]
        PROVE  z \in b[x]
    <3>1. z \in N
      BY <1>4
    <3>. QED  BY <1>4, <1>5, <2>1, <3>1
  <2>. QED  BY <2>1
<1>8. \A x, y \in N : x = y \/ x \in b[y] \/ y \in b[x]
  BY <1>4, <1>5
<1>9. /\ at \in Seq(N) /\ Len(at) = Len(list)
      /\ \A x \in N : \E k \in 1..Len(at) : at[k] = x
      /\ \A i, j \in 1..Len(at) : i < j => at[i] \in b[at[j]]
      /\ \A k \in 1..Len(at) : Cardinality(b[at[k]]) = k - 1
  <2>1. /\ at \in Seq(N) /\ Len(at) = Cardinality(N)
        /\ \A x \in N : \E k \in 1..Len(at) : at[k] = x
        /\ \A i, j \in 1..Len(at) : i < j => at[i] \in b[at[j]]
        /\ \A k \in 1..Len(at) : Cardinality(b[at[k]]) = k - 1
    <3>1. StrictOrder(b, N)
      BY <1>2, <1>4, <1>6, <1>7, <1>8 DEF StrictOrder
    <3>2. StandsInOrder(at, b, N)
      BY <3>1, InOrderIs
    <3>. HIDE DEF at
    <3>. QED  BY <3>2 DEF StandsInOrder
  <2>. QED  BY <1>2, <2>1
<1>. HIDE DEF at, s
<1>10. at \in [N -> N] /\ DOMAIN at = N /\ N = 1..Len(list)
  <2>1. at \in Seq(N) /\ Len(at) = Len(list)
    BY <1>9
  <2>2. N = 1..Len(list)
    BY DEF N
  <2>. QED  BY <2>1, <2>2
<1>11. s \in Seq(D) /\ Len(s) = Len(list) /\ \A k \in N : s[k] = list[at[k]]
  BY <1>1, <1>3, <1>10
<1>12. \A i, j \in N : at[i] = at[j] => i = j
  <2>1. \A i, j \in N : i < j => at[i] \in N /\ at[j] \in N /\ at[i] \in b[at[j]]
    BY <1>9, <1>10
  <2>2. \A i, j \in N : i < j => at[i] # at[j]
    BY <1>6, <2>1
  <2>3. \A i, j \in N : i = j \/ i < j \/ j < i
    BY <1>5
  <2>. QED  BY <2>2, <2>3
<1>13. Ranked(Len(list), rank, at)
  <2>1. \A k \in N : Cardinality({j \in N :
                          rank[j] < rank[at[k]] \/ (rank[j] = rank[at[k]] /\ j < at[k])}) = k - 1
    BY <1>4, <1>9, <1>10
  <2>. QED  BY <1>10, <2>1 DEF Ranked
<1>14. Arranged(s, list, at)
  <2>1. \A i \in N : \E k \in N : at[k] = i
    BY <1>9, <1>10
  <2>. QED  BY <1>10, <1>11, <1>12, <2>1 DEF Arranged
<1>15. s \in Seq(D) /\ \E f : Arranged(s, list, f) /\ Ranked(Len(list), rank, f)
  BY <1>11, <1>13, <1>14
<1>. QED  BY <1>15 DEF s

-----------------------------------------------------------------------------
(* Sequences made of others, and places in them. *)

\* A sequence after another: the elements of both, at their places.
Follows(u, s, t) ==
  /\ \A i \in 1..Len(s) : i \in 1..Len(u) /\ u[i] = s[i]
  /\ \A k \in 1..Len(t) : Len(s) + k \in 1..Len(u) /\ u[Len(s) + k] = t[k]
  /\ \A i \in 1..Len(u) : i \in 1..Len(s) \/ \E k \in 1..Len(t) : i = Len(s) + k

\* Two sequences, one after the other.
LEMMA ConcatIs ==
  ASSUME NEW D, NEW s \in Seq(D), NEW t \in Seq(D), NEW u, u = s \o t
  PROVE  u \in Seq(D) /\ Len(u) = Len(s) + Len(t) /\ Follows(u, s, t)
<1>1. /\ u \in Seq(D) /\ Len(u) = Len(s) + Len(t)
      /\ \A i \in 1..Len(s) + Len(t) : u[i] = IF i <= Len(s) THEN s[i] ELSE t[i - Len(s)]
  BY ConcatProperties
<1>2. Len(s) \in Nat /\ Len(t) \in Nat
  OBVIOUS
<1>3. \A i \in 1..Len(s) : i \in 1..Len(u) /\ u[i] = s[i]
  BY <1>1, <1>2
<1>4. \A k \in 1..Len(t) : Len(s) + k \in 1..Len(u) /\ u[Len(s) + k] = t[k]
  <2>1. ASSUME NEW k \in 1..Len(t)
        PROVE  Len(s) + k \in 1..Len(u) /\ u[Len(s) + k] = t[k]
    <3>1. k \in Int /\ 1 <= k /\ k <= Len(t)
      BY <1>2
    <3>2. Len(s) + k \in 1..Len(s) + Len(t) /\ ~(Len(s) + k <= Len(s)) /\ Len(s) + k - Len(s) = k
      BY <1>2, <3>1
    <3>. QED  BY <1>1, <3>2
  <2>. QED  BY <2>1
<1>5. \A i \in 1..Len(u) : i \in 1..Len(s) \/ \E k \in 1..Len(t) : i = Len(s) + k
  <2>1. ASSUME NEW i \in 1..Len(u), i \notin 1..Len(s)
        PROVE  \E k \in 1..Len(t) : i = Len(s) + k
    <3>1. i - Len(s) \in 1..Len(t) /\ i = Len(s) + (i - Len(s))
      BY <1>1, <1>2, <2>1
    <3>. QED  BY <3>1
  <2>. QED  BY <2>1
<1>. QED  BY <1>1, <1>3, <1>4, <1>5 DEF Follows

\* J has the sequences of L up to each place, one after another.
Joins(J, L, n) == J[0] = <<>> /\ \A b \in 1..n : J[b] = J[b - 1] \o L[b]

\* What a sequence and some sequences have in common: the same elements; and which are
\* told apart by a key.
Gathers(s, L, n) ==
  /\ \A b \in 1..n : \A k \in 1..Len(L[b]) : \E i \in 1..Len(s) : s[i] = L[b][k]
  /\ \A i \in 1..Len(s) : \E b \in 1..n : \E k \in 1..Len(L[b]) : s[i] = L[b][k]

AllApart(L, n, key) ==
  \A b, c \in 1..n : \A k \in 1..Len(L[b]), l \in 1..Len(L[c]) :
    b # c \/ k # l => key[L[b][k]] # key[L[c][l]]

ApartIn(s, key) == \A i, j \in 1..Len(s) : i # j => key[s[i]] # key[s[j]]

\* What is joined has the elements of all parts, and each once if all parts have it once.
LEMMA JoinIs ==
  ASSUME NEW D, NEW n \in Nat, NEW L, \A b \in 1..n : L[b] \in Seq(D),
         NEW J, Joins(J, L, n), NEW key
  PROVE  J[n] \in Seq(D) /\ Gathers(J[n], L, n) /\ (AllApart(L, n, key) => ApartIn(J[n], key))
<1>. DEFINE Apart == \A b, c \in 1..n : \A k \in 1..Len(L[b]), l \in 1..Len(L[c]) :
                       b # c \/ k # l => key[L[b][k]] # key[L[c][l]]
            Typed(m) == J[m] \in Seq(D)
            Has(m) == \A b \in 1..m : \A k \in 1..Len(L[b]) : \E i \in 1..Len(J[m]) : J[m][i] = L[b][k]
            Of(m) == \A i \in 1..Len(J[m]) : \E b \in 1..m : \E k \in 1..Len(L[b]) : J[m][i] = L[b][k]
            Once(m) == Apart => \A i, j \in 1..Len(J[m]) : i # j => key[J[m][i]] # key[J[m][j]]
            Good == {m \in 0..n : Typed(m) /\ Has(m) /\ Of(m) /\ Once(m)}
<1>1. 0 \in Good
  <2>1. Len(J[0]) = 0 /\ Typed(0)
    BY EmptySeq DEF Joins
  <2>2. Has(0) /\ Of(0) /\ Once(0)
    BY <2>1
  <2>. HIDE DEF Typed, Has, Of, Once
  <2>. QED  BY <2>1, <2>2
<1>2. ASSUME NEW m \in 1..n, m - 1 \in Good
      PROVE  m \in Good
  <2>. DEFINE u == J[m]
  <2>1. PICK s \in Seq(D), t \in Seq(D) : s = J[m - 1] /\ t = L[m] /\ u = s \o t
    BY <1>2 DEF Joins
  <2>2. /\ u \in Seq(D)
        /\ \A i \in 1..Len(s) : i \in 1..Len(u) /\ u[i] = s[i]
        /\ \A k \in 1..Len(t) : Len(s) + k \in 1..Len(u) /\ u[Len(s) + k] = t[k]
        /\ \A i \in 1..Len(u) : i \in 1..Len(s) \/ \E k \in 1..Len(t) : i = Len(s) + k
    <3>. HIDE DEF u
    <3>1. u = s \o t
      BY <2>1
    <3>2. u \in Seq(D) /\ Follows(u, s, t)
      BY <3>1, ConcatIs
    <3>. QED  BY <3>2 DEF Follows
  <2>. HIDE DEF u
  <2>3. /\ \A b \in 1..m - 1 : \A k \in 1..Len(L[b]) : \E i \in 1..Len(s) : s[i] = L[b][k]
        /\ \A i \in 1..Len(s) : \E b \in 1..m - 1 : \E k \in 1..Len(L[b]) : s[i] = L[b][k]
        /\ Apart => \A i, j \in 1..Len(s) : i # j => key[s[i]] # key[s[j]]
    BY <1>2, <2>1
  <2>4. /\ \A b \in 1..m : b \in 1..m - 1 \/ b = m
        /\ \A b \in 1..m - 1 : b \in 1..m /\ b # m /\ b \in 1..n
        /\ m \in 1..m
    BY <1>2
  <2>5. ASSUME NEW b \in 1..m, NEW k \in 1..Len(L[b])
        PROVE  \E i \in 1..Len(u) : u[i] = L[b][k]
    <3>1. CASE b \in 1..m - 1
      <4>1. PICK i \in 1..Len(s) : s[i] = L[b][k]
        BY <2>3, <3>1
      <4>. QED  BY <2>2, <4>1
    <3>2. CASE b = m
      BY <2>1, <2>2, <3>2
    <3>. QED  BY <2>4, <3>1, <3>2
  <2>6. ASSUME NEW i \in 1..Len(u)
        PROVE  \E b \in 1..m : \E k \in 1..Len(L[b]) : u[i] = L[b][k]
    <3>1. CASE i \in 1..Len(s)
      <4>1. PICK b \in 1..m - 1 : \E k \in 1..Len(L[b]) : s[i] = L[b][k]
        BY <2>3, <3>1
      <4>. QED  BY <2>2, <2>4, <3>1, <4>1
    <3>2. CASE \E k \in 1..Len(t) : i = Len(s) + k
      <4>1. PICK k \in 1..Len(t) : u[i] = t[k]
        BY <2>2, <3>2
      <4>. QED  BY <2>1, <2>4, <4>1
    <3>. QED  BY <2>2, <3>1, <3>2
  <2>7. ASSUME Apart, NEW i \in 1..Len(u), NEW j \in 1..Len(u), i # j
        PROVE  key[u[i]] # key[u[j]]
    <3>1. \A x \in 1..Len(s), k \in 1..Len(t) : key[s[x]] # key[t[k]]
      <4>1. ASSUME NEW x \in 1..Len(s), NEW k \in 1..Len(t)
            PROVE  key[s[x]] # key[t[k]]
        <5>1. PICK b \in 1..m - 1 : \E l \in 1..Len(L[b]) : s[x] = L[b][l]
          BY <2>3
        <5>2. b \in 1..n /\ m \in 1..n /\ b # m
          BY <2>4
        <5>3. PICK l \in 1..Len(L[b]) : s[x] = L[b][l]
          BY <5>1
        <5>4. key[L[b][l]] # key[L[m][k]]
          BY <2>1, <2>7, <5>2
        <5>. QED  BY <2>1, <5>3, <5>4
      <4>. QED  BY <4>1
    <3>2. \A k, l \in 1..Len(t) : k # l => key[t[k]] # key[t[l]]
      BY <2>1, <2>7
    <3>3. \A x, y \in 1..Len(s) : x # y => key[s[x]] # key[s[y]]
      BY <2>3, <2>7
    <3>4. CASE i \in 1..Len(s) /\ j \in 1..Len(s)
      <4>1. u[i] = s[i] /\ u[j] = s[j]
        BY <2>2, <3>4
      <4>. QED  BY <2>7, <3>3, <3>4, <4>1
    <3>5. CASE i \in 1..Len(s) /\ \E k \in 1..Len(t) : j = Len(s) + k
      <4>1. PICK k \in 1..Len(t) : j = Len(s) + k
        BY <3>5
      <4>2. u[i] = s[i] /\ u[j] = t[k]
        BY <2>2, <3>5, <4>1
      <4>. QED  BY <3>1, <3>5, <4>2
    <3>6. CASE j \in 1..Len(s) /\ \E k \in 1..Len(t) : i = Len(s) + k
      <4>1. PICK k \in 1..Len(t) : i = Len(s) + k
        BY <3>6
      <4>2. u[j] = s[j] /\ u[i] = t[k]
        BY <2>2, <3>6, <4>1
      <4>. QED  BY <3>1, <3>6, <4>2
    <3>7. CASE (\E k \in 1..Len(t) : i = Len(s) + k) /\ \E k \in 1..Len(t) : j = Len(s) + k
      <4>1. PICK k \in 1..Len(t), l \in 1..Len(t) : i = Len(s) + k /\ j = Len(s) + l
        BY <3>7
      <4>2. k # l /\ u[i] = t[k] /\ u[j] = t[l]
        BY <2>2, <2>7, <4>1
      <4>. QED  BY <3>2, <4>2
    <3>. QED  BY <2>2, <3>4, <3>5, <3>6, <3>7
  <2>8. Typed(m) /\ Has(m) /\ Of(m) /\ Once(m)
    BY <2>2, <2>5, <2>6, <2>7 DEF u
  <2>. HIDE DEF Typed, Has, Of, Once
  <2>. QED  BY <1>2, <2>8
<1>. HIDE DEF Good
<1>3. n \in Good
  <2>1. \A i \in 1..n : i - 1 \in Good => i \in Good
    BY <1>2
  <2>2. \A i \in 0..n : i \in Good
    BY <1>1, <2>1, UpTo
  <2>. QED  BY <2>2
<1>4. Typed(n) /\ Has(n) /\ Of(n) /\ Once(n)
  <2>. HIDE DEF Typed, Has, Of, Once
  <2>. QED  BY <1>3 DEF Good
<1>. QED  BY <1>4 DEF Gathers, AllApart, ApartIn

\* A set that another is the image of, one to one, has as many elements.
LEMMA SameSize ==
  ASSUME NEW S, IsFiniteSet(S), NEW T, NEW f \in [S -> T],
         \A x, y \in S : f[x] = f[y] => x = y, \A z \in T : \E x \in S : f[x] = z
  PROVE  IsFiniteSet(T) /\ Cardinality(T) = Cardinality(S)
<1>1. f \in Surjection(S, T) /\ f \in Injection(S, T)
  BY DEF Surjection, Injection, IsInjective
<1>. QED  BY <1>1, FS_Surjection

\* How many of a set come before an element.
PlaceIn(S, r, x) == Cardinality({y \in S : r[y] < r[x]})

\* It is a number.
LEMMA PlaceIs ==
  ASSUME NEW S, IsFiniteSet(S), NEW r, NEW x
  PROVE  PlaceIn(S, r, x) \in Nat
<1>1. IsFiniteSet({y \in S : r[y] < r[x]})
  BY FS_Subset
<1>. QED  BY <1>1, FS_CardinalityType DEF PlaceIn

\* If a part has the first n of a set, an element is among its first n if it is among
\* those of the set, and at the same place.
Ranks(r, All) == r \in [All -> Int] /\ \A x, y \in All : r[x] = r[y] => x = y

HasFirst(T, All, r, n) == T \in SUBSET All /\ \A x \in All : PlaceIn(All, r, x) < n => x \in T

\* The elements of a part that are among its first ones.
LEMMA FirstOfPart ==
  ASSUME NEW All, IsFiniteSet(All), NEW r, Ranks(r, All), NEW n \in Nat,
         NEW T, HasFirst(T, All, r, n),
         NEW t \in T
  PROVE  /\ PlaceIn(All, r, t) < n => PlaceIn(T, r, t) = PlaceIn(All, r, t)
         /\ PlaceIn(T, r, t) < n => PlaceIn(T, r, t) = PlaceIn(All, r, t)
<1>0. /\ r \in [All -> Int] /\ \A x, y \in All : r[x] = r[y] => x = y
      /\ T \in SUBSET All /\ \A x \in All : PlaceIn(All, r, x) < n => x \in T
  BY DEF Ranks, HasFirst
<1>. DEFINE b == [x \in All |-> {y \in All : r[y] < r[x]}]
            E == InOrder(b)
<1>1. /\ b \in [All -> SUBSET All]
      /\ \A x, y \in All : y \in b[x] <=> r[y] < r[x]
      /\ \A x \in All : PlaceIn(All, r, x) = Cardinality(b[x])
  BY DEF PlaceIn
<1>2. \A x \in All : r[x] \in Int
  BY <1>0
<1>. HIDE DEF b
<1>3. \A x \in All : x \notin b[x]
  BY <1>1, <1>2
<1>4. \A x, y \in All : y \in b[x] => b[y] \subseteq b[x]
  <2>1. ASSUME NEW x \in All, NEW y \in All, y \in b[x], NEW z \in b[y]
        PROVE  z \in b[x]
    <3>1. z \in All
      BY <1>1
    <3>. QED  BY <1>1, <1>2, <2>1, <3>1
  <2>. QED  BY <2>1
<1>5. \A x, y \in All : x = y \/ x \in b[y] \/ y \in b[x]
  BY <1>0, <1>1, <1>2
<1>6. \A x \in All : IsFiniteSet(b[x]) /\ Cardinality(b[x]) \in Nat
  <2>1. \A x \in All : b[x] \in SUBSET All
    BY <1>1
  <2>. QED  BY <2>1, FS_Subset, FS_CardinalityType
<1>7. \A x, y \in All : y \in b[x] => Cardinality(b[y]) <= Cardinality(b[x])
  <2>1. \A x, y \in All : y \in b[x] => IsFiniteSet(b[x]) /\ b[y] \in SUBSET b[x]
    BY <1>4, <1>6
  <2>. QED  BY <2>1, FS_Subset
<1>8. t \in All /\ IsFiniteSet(T) /\ T \subseteq All
  BY <1>0, FS_Subset
<1>9. ASSUME PlaceIn(All, r, t) < n
      PROVE  PlaceIn(T, r, t) = PlaceIn(All, r, t)
  <2>1. \A y \in b[t] : y \in T
    <3>1. ASSUME NEW y \in b[t]
          PROVE  y \in T
      <4>1. y \in All
        BY <1>1, <1>8
      <4>2. Cardinality(b[y]) < n
        <5>1. Cardinality(b[t]) < n
          BY <1>1, <1>8, <1>9
        <5>2. Cardinality(b[y]) <= Cardinality(b[t]) /\ Cardinality(b[y]) \in Nat /\ Cardinality(b[t]) \in Nat
          BY <1>6, <1>7, <1>8, <4>1
        <5>. QED  BY <5>1, <5>2
      <4>. QED  BY <1>0, <1>1, <4>1, <4>2
    <3>. QED  BY <3>1
  <2>2. {y \in T : r[y] < r[t]} = b[t]
    BY <1>1, <1>8, <2>1
  <2>. QED  BY <1>1, <1>8, <2>2 DEF PlaceIn
<1>10. ASSUME ~(PlaceIn(All, r, t) < n)
       PROVE  ~(PlaceIn(T, r, t) < n)
  <2>. DEFINE before == {y \in T : r[y] < r[t]}
              f == [i \in 1..n |-> E[i]]
  <2>1. /\ E \in Seq(All) /\ Len(E) = Cardinality(All) /\ Cardinality(All) \in Nat
        /\ \A x \in All : \E k \in 1..Len(E) : E[k] = x
        /\ \A i, j \in 1..Len(E) : i < j => E[i] \in b[E[j]]
        /\ \A k \in 1..Len(E) : Cardinality(b[E[k]]) = k - 1
    <3>1. StrictOrder(b, All)
      BY <1>1, <1>3, <1>4, <1>5 DEF StrictOrder
    <3>. QED  BY <3>1, InOrderIs DEF StandsInOrder
  <2>. HIDE DEF E
  <2>2. PICK k \in 1..Len(E) : E[k] = t
    BY <1>8, <2>1
  <2>3. Len(E) \in Nat /\ k \in Nat /\ n < k
    <3>1. ~(Cardinality(b[E[k]]) < n)
      BY <1>1, <1>8, <1>10, <2>2
    <3>2. Cardinality(b[E[k]]) = k - 1
      BY <2>1
    <3>. QED  BY <2>1, <3>1, <3>2
  <2>4. \A i \in 1..n : i \in 1..Len(E) /\ i < k
    BY <2>3
  <2>5. \A i \in 1..n : E[i] \in All /\ E[i] \in b[t] /\ E[i] \in T
    <3>1. ASSUME NEW i \in 1..n
          PROVE  E[i] \in All /\ E[i] \in b[t] /\ E[i] \in T
      <4>0. i \in 1..Len(E) /\ k \in 1..Len(E) /\ i < k
        BY <2>2, <2>4
      <4>1. E[i] \in All /\ E[i] \in b[t]
        <5>1. E[i] \in b[E[k]]
          BY <2>1, <4>0
        <5>2. E[i] \in All
          BY <2>1, <4>0, ElementOfSeq
        <5>. QED  BY <2>2, <5>1, <5>2
      <4>2. Cardinality(b[E[i]]) = i - 1 /\ i - 1 < n
        <5>1. Cardinality(b[E[i]]) = i - 1
          BY <2>1, <4>0
        <5>. QED  BY <5>1
      <4>. QED  BY <1>0, <1>1, <4>1, <4>2
    <3>. QED  BY <3>1
  <2>6. \A i, j \in 1..n : E[i] = E[j] => i = j
    <3>1. \A i, j \in 1..n : i < j => E[i] # E[j]
      <4>1. \A i, j \in 1..n : i < j => E[i] \in b[E[j]]
        BY <2>1, <2>4
      <4>. QED  BY <1>3, <2>5, <4>1
    <3>2. \A i, j \in 1..n : i = j \/ i < j \/ j < i
      OBVIOUS
    <3>. QED  BY <3>1, <3>2
  <2>7. f \in Injection(1..n, before)
    <3>1. \A i \in 1..n : E[i] \in before
      BY <1>1, <1>8, <2>5
    <3>. HIDE DEF before
    <3>2. f \in [1..n -> before]
      BY <3>1
    <3>. QED  BY <2>6, <3>2 DEF Injection, IsInjective
  <2>8. IsFiniteSet(before)
    BY <1>8, FS_Subset
  <2>. HIDE DEF before, f
  <2>9. Cardinality(1..n) <= Cardinality(before) /\ Cardinality(before) \in Nat
    BY <2>7, <2>8, FS_Injection, FS_CardinalityType
  <2>10. Cardinality(1..n) = n
    <3>1. Cardinality(1..n) = IF 1 > n THEN 0 ELSE n - 1 + 1
      BY FS_Interval
    <3>. QED  BY <3>1
  <2>. QED  BY <2>9, <2>10 DEF PlaceIn, before
<1>. QED  BY <1>9, <1>10

\* s is list by rank; where no two ranks are the same, each element is at its place.
SortsBy(s, list, rank) ==
  \E at : /\ Arranged(s, list, at)
          /\ (\A i, j \in 1..Len(list) : rank[i] = rank[j] => i = j)
               => \A k \in 1..Len(list) : PlaceIn(1..Len(list), rank, at[k]) = k - 1

\* Every list is arranged; by ranks that differ, an element is where it belongs.
LEMMA SortedIs ==
  ASSUME NEW D, NEW list \in Seq(D), NEW rank \in [1..Len(list) -> Int],
         NEW s, s = SortedBy(list, rank)
  PROVE  s \in Seq(D) /\ SortsBy(s, list, rank)
<1>1. DOMAIN list = 1..Len(list) /\ Len(list) \in Nat
  OBVIOUS
<1>2. s \in Seq(D) /\ \E at : Arranged(s, list, at) /\ Ranked(Len(list), rank, at)
  BY <1>1, SortedByIs
<1>3. PICK at : Arranged(s, list, at) /\ Ranked(Len(list), rank, at)
  BY <1>2
<1>4. at \in [1..Len(list) -> 1..Len(list)]
  BY <1>3 DEF Arranged
<1>5. ASSUME \A i, j \in 1..Len(list) : rank[i] = rank[j] => i = j, NEW k \in 1..Len(list)
      PROVE  PlaceIn(1..Len(list), rank, at[k]) = k - 1
  <2>1. at[k] \in 1..Len(list)
    BY <1>4
  <2>2. \A j \in 1..Len(list) : ~(rank[j] = rank[at[k]] /\ j < at[k])
    BY <1>1, <1>5, <2>1
  <2>3. {j \in 1..Len(list) : rank[j] < rank[at[k]]} =
          {j \in 1..Len(list) : rank[j] < rank[at[k]] \/ (rank[j] = rank[at[k]] /\ j < at[k])}
    BY <2>2
  <2>4. Cardinality({j \in 1..Len(list) :
                       rank[j] < rank[at[k]] \/ (rank[j] = rank[at[k]] /\ j < at[k])}) = k - 1
    BY <1>3 DEF Ranked
  <2>. QED  BY <2>3, <2>4 DEF PlaceIn
<1>. QED  BY <1>2, <1>3, <1>5 DEF SortsBy

\* Elements that stand for the members of a set keep their places.
StandFor(I, rank, T, r, who) ==
  /\ who \in [I -> T] /\ \A i \in I : rank[i] = r[who[i]]
  /\ \A i, j \in I : who[i] = who[j] => i = j
  /\ \A x \in T : \E i \in I : who[i] = x

\* An element comes after as many as the member it stands for.
LEMMA PlacesKept ==
  ASSUME NEW I, IsFiniteSet(I), NEW rank, NEW T, NEW r,
         NEW who, StandFor(I, rank, T, r, who), NEW i \in I
  PROVE  PlaceIn(I, rank, i) = PlaceIn(T, r, who[i])
<1>0. /\ who \in [I -> T] /\ \A j \in I : rank[j] = r[who[j]]
      /\ \A j, k \in I : who[j] = who[k] => j = k
      /\ \A x \in T : \E j \in I : who[j] = x
  BY DEF StandFor
<1>. DEFINE S == {j \in I : rank[j] < rank[i]}
            R == {y \in T : r[y] < r[who[i]]}
            f == [j \in S |-> who[j]]
<1>1. IsFiniteSet(S)
  BY FS_Subset
<1>2. f \in [S -> R]
  BY <1>0
<1>3. \A j, k \in S : f[j] = f[k] => j = k
  BY <1>0
<1>4. \A z \in R : \E j \in S : f[j] = z
  <2>1. ASSUME NEW z \in R
        PROVE  \E j \in S : f[j] = z
    <3>1. PICK j \in I : who[j] = z
      BY <1>0
    <3>2. j \in S
      BY <1>0, <3>1
    <3>. QED  BY <3>1, <3>2
  <2>. QED  BY <2>1
<1>. HIDE DEF S, R, f
<1>5. Cardinality(R) = Cardinality(S)
  BY <1>1, <1>2, <1>3, <1>4, SameSize
<1>. QED  BY <1>5 DEF PlaceIn, S, R

\* u is s with x after it.
Extends(u, s, x) ==
  /\ Len(u) = Len(s) + 1 /\ Len(s) \in Nat /\ Len(u) \in 1..Len(u) /\ u[Len(u)] = x
  /\ \A i \in 1..Len(s) : i \in 1..Len(u) /\ u[i] = s[i]
  /\ \A i \in 1..Len(u) : i \in 1..Len(s) \/ i = Len(u)
  /\ Len(u) \notin 1..Len(s)

\* A sequence with one more element.
LEMMA AppendIs ==
  ASSUME NEW D, NEW s \in Seq(D), NEW x \in D, NEW u, u = Append(s, x)
  PROVE  u \in Seq(D) /\ Extends(u, s, x)
<1>1. /\ u \in Seq(D) /\ Len(u) = Len(s) + 1 /\ Len(s) \in Nat
      /\ \A i \in 1..Len(s) : u[i] = s[i]
      /\ u[Len(s) + 1] = x
  BY AppendProperties
<1>. QED  BY <1>1 DEF Extends

\* t is s without what was at i: that at k was where "at" says.
Shortened(t, s, i, at) ==
  /\ at \in [1..Len(t) -> 1..Len(s)]
  /\ \A k \in 1..Len(t) : t[k] = s[at[k]] /\ at[k] # i
  /\ \A j \in 1..Len(s) : j # i => \E k \in 1..Len(t) : at[k] = j
  /\ \A k, l \in 1..Len(t) : at[k] = at[l] => k = l

\* t is s without its element i.
LeavesOut(t, s, i) == t = SubSeq(s, 1, i - 1) \o SubSeq(s, i + 1, Len(s))

\* A sequence without one of its elements.
LEMMA RemoveIs ==
  ASSUME NEW D, NEW s \in Seq(D), NEW i \in 1..Len(s), NEW t, LeavesOut(t, s, i)
  PROVE  t \in Seq(D) /\ \E at : Shortened(t, s, i, at)
<1>. DEFINE a == SubSeq(s, 1, i - 1)
            c == SubSeq(s, i + 1, Len(s))
            at == [k \in 1..Len(t) |-> IF k < i THEN k ELSE k + 1]
<1>1. Len(s) \in Nat /\ i \in Int /\ 1 <= i /\ i <= Len(s) /\ \A k \in 1..Len(s) : s[k] \in D
  OBVIOUS
<1>2. a \in Seq(D) /\ Len(a) = i - 1 /\ \A k \in 1..i - 1 : a[k] = s[k]
  <2>1. /\ \A k \in 1..i - 1 : s[k] \in D
        /\ 1 \in Int /\ i - 1 \in Int
    BY <1>1
  <2>2. /\ a \in Seq(D)
        /\ Len(a) = IF 1 <= i - 1 THEN i - 1 - 1 + 1 ELSE 0
        /\ \A k \in 1..i - 1 - 1 + 1 : a[k] = s[1 + k - 1]
    BY <2>1, SubSeqProperties
  <2>. HIDE DEF a
  <2>. QED  BY <1>1, <2>2
<1>3. c \in Seq(D) /\ Len(c) = Len(s) - i /\ \A k \in 1..Len(s) - i : c[k] = s[i + k]
  <2>1. /\ \A k \in i + 1..Len(s) : s[k] \in D
        /\ i + 1 \in Int /\ Len(s) \in Int
    BY <1>1
  <2>2. /\ c \in Seq(D)
        /\ Len(c) = IF i + 1 <= Len(s) THEN Len(s) - (i + 1) + 1 ELSE 0
        /\ \A k \in 1..Len(s) - (i + 1) + 1 : c[k] = s[i + 1 + k - 1]
    BY <2>1, SubSeqProperties
  <2>. HIDE DEF c
  <2>. QED  BY <1>1, <2>2
<1>. HIDE DEF a, c
<1>4. /\ t \in Seq(D) /\ Len(t) = Len(a) + Len(c)
      /\ \A k \in 1..Len(a) + Len(c) : t[k] = IF k <= Len(a) THEN a[k] ELSE c[k - Len(a)]
  <2>1. t = a \o c
    BY DEF a, c, LeavesOut
  <2>. QED  BY <1>2, <1>3, <2>1, ConcatProperties
<1>5. Len(t) = Len(s) - 1
  BY <1>1, <1>2, <1>3, <1>4
<1>6. ASSUME NEW k \in 1..Len(t)
      PROVE  at[k] \in 1..Len(s) /\ t[k] = s[at[k]] /\ at[k] # i
  <2>1. k \in Int /\ 1 <= k /\ k <= Len(s) - 1 /\ k \in 1..Len(a) + Len(c)
    BY <1>1, <1>4, <1>5
  <2>2. CASE k < i
    <3>1. k \in 1..i - 1 /\ k <= Len(a)
      BY <1>1, <1>2, <2>1, <2>2
    <3>2. t[k] = s[k]
      BY <1>2, <1>4, <2>1, <3>1
    <3>. QED  BY <1>1, <2>1, <2>2, <3>2
  <2>3. CASE ~(k < i)
    <3>1. k - Len(a) \in 1..Len(s) - i /\ ~(k <= Len(a)) /\ i + (k - Len(a)) = k + 1
      BY <1>1, <1>2, <2>1, <2>3
    <3>2. t[k] = s[k + 1]
      BY <1>3, <1>4, <2>1, <3>1
    <3>. QED  BY <1>1, <2>1, <2>3, <3>2
  <2>. QED  BY <2>2, <2>3
<1>7. ASSUME NEW j \in 1..Len(s), j # i
      PROVE  \E k \in 1..Len(t) : at[k] = j
  <2>1. CASE j < i
    <3>1. j \in 1..Len(t)
      BY <1>1, <1>5, <2>1
    <3>. QED  BY <2>1, <3>1
  <2>2. CASE ~(j < i)
    <3>1. j - 1 \in 1..Len(t) /\ ~(j - 1 < i) /\ j - 1 + 1 = j
      BY <1>1, <1>5, <1>7, <2>2
    <3>. QED  BY <3>1
  <2>. QED  BY <2>1, <2>2
<1>8. \A k, l \in 1..Len(t) : at[k] = at[l] => k = l
  BY <1>1, <1>5
<1>9. at \in [1..Len(t) -> 1..Len(s)]
  BY <1>6
<1>. HIDE DEF at
<1>10. Shortened(t, s, i, at)
  BY <1>6, <1>7, <1>8, <1>9 DEF Shortened
<1>. QED  BY <1>4, <1>10

\* The first elements of a sequence.
LEMMA Firsts ==
  ASSUME NEW S, NEW s \in Seq(S), NEW n \in Nat, n <= Len(s), NEW t, t = SubSeq(s, 1, n)
  PROVE  t \in Seq(S) /\ Len(t) = n /\ \A i \in 1..n : t[i] = s[i]
<1>1. \A i \in 1..n : s[i] \in S
  BY ElementOfSeq
<1>2. /\ t \in Seq(S) /\ Len(t) = IF 1 <= n THEN n - 1 + 1 ELSE 0
      /\ \A i \in 1..n - 1 + 1 : t[i] = s[1 + i - 1]
  BY <1>1, SubSeqProperties
<1>. QED  BY <1>2
=============================================================================
