--------------------------- MODULE Queues_proofs ---------------------------
(***************************************************************************)
(* Facts about sets of numbers and about queues that other proofs cite.    *)
(***************************************************************************)
EXTENDS Queues, FiniteSetTheorems, WellFoundedInduction, TLAPS

-----------------------------------------------------------------------------
(* Intervals and subsequences. *)

\* A set of naturals that is not empty has a smallest element ...
LEMMA Smallest ==
    ASSUME NEW T, T \subseteq Nat, T # {} PROVE \E x \in T : \A y \in T : x <= y
<1>1. PICK x \in T : \A y \in T : ~(<<y, x>> \in OpToRel(<, Nat))
  BY NatLessThanWellFounded, WFMin
<1>2. \A y \in T : ~(y < x)
  BY <1>1 DEF OpToRel
<1>3. \A y \in T : x <= y
  BY <1>2
<1> QED  BY <1>3

\* ... and, with a bound, a largest one.
LEMMA Largest ==
    ASSUME NEW n \in Nat, NEW S, S \subseteq 1 .. n, S # {}
    PROVE  \E x \in S : \A y \in S : y <= x
<1> DEFINE T == {n - y : y \in S}
<1>1. T \subseteq Nat /\ T # {}
  <2>1. \A y \in S : y \in 1 .. n
    OBVIOUS
  <2>2. \A y \in S : n - y \in Nat
    BY <2>1
  <2> QED  BY <2>2
<1>2. PICK m \in T : \A k \in T : m <= k
  <2> HIDE DEF T
  <2> QED  BY <1>1, Smallest
<1>3. PICK x \in S : m = n - x
  BY <1>2
<1>4. \A y \in S : y <= x
  <2>1. SUFFICES ASSUME NEW y \in S PROVE y <= x
    OBVIOUS
  <2>2. n - x <= n - y
    BY <1>2, <1>3
  <2> QED  BY <2>2
<1> QED  BY <1>4

\* A set of positions with everything before each of its members is an initial interval.
LEMMA DownClosed ==
    ASSUME NEW n \in Nat, NEW S, S \subseteq 1 .. n, \A i \in S : \A j \in 1 .. i : j \in S
    PROVE  \E k \in 0 .. n : S = 1 .. k /\ Cardinality(S) = k
<1>1. CASE S = 1 .. n
  <2>1. Cardinality(1 .. n) = n
    BY FS_Interval
  <2> QED  BY <1>1, <2>1
<1>2. CASE S # 1 .. n
  <2> DEFINE U == (1 .. n) \ S
  <2>1. U \subseteq Nat /\ U # {}
    <3>1. \E i \in 1 .. n : i \notin S
      BY <1>2
    <3> QED  BY <3>1
  <2>2. PICK m \in U : \A y \in U : m <= y
    <3> HIDE DEF U
    <3> QED  BY <2>1, Smallest
  <2>3. S = 1 .. (m - 1)
    <3>1. ASSUME NEW i \in S PROVE i \in 1 .. (m - 1)
      <4>1. i \in 1 .. n /\ (m <= i => m \in S)
        BY <2>2, <3>1
      <4> QED  BY <2>2, <4>1
    <3>2. ASSUME NEW i \in 1 .. (m - 1) PROVE i \in S
      <4>1. i \in 1 .. n
        BY <2>2, <3>2
      <4> QED  BY <2>2, <3>2, <4>1
    <3> QED  BY <3>1, <3>2
  <2>4. Cardinality(1 .. (m - 1)) = m - 1
    BY <2>2, FS_Interval
  <2> QED  BY <2>2, <2>3, <2>4
<1> QED  BY <1>1, <1>2

(***************************************************************************)
(* What is left of a queue without some of its items: a queue of the same  *)
(* kind, with the other items and nothing twice.                           *)
(***************************************************************************)
LEMMA WithoutItems ==
    ASSUME NEW A, NEW q \in Seq(A), NEW ds
    PROVE  /\ Without(q, ds) \in Seq(A)
           /\ {Without(q, ds)[n] : n \in 1 .. Len(Without(q, ds))}
                 = {q[i] : i \in 1 .. Len(q)} \ ds
           /\ (\A i, j \in 1 .. Len(q) : q[i] = q[j] => i = j) =>
                 \A m, n \in 1 .. Len(Without(q, ds)) :
                    Without(q, ds)[m] = Without(q, ds)[n] => m = n
           /\ q # <<>> /\ Head(q) \notin ds =>
                 Without(q, ds) # <<>> /\ Head(Without(q, ds)) = Head(q)
<1> DEFINE stays   == {i \in 1 .. Len(q) : q[i] \notin ds}
           Upto(i) == {j \in stays : j <= i}
           Rank(i) == Cardinality(Upto(i))
           c       == Cardinality(stays)
           Item(n) == CHOOSE i \in stays : Rank(i) = n
           w       == [n \in 1 .. c |-> q[Item(n)]]
<1>1. Without(q, ds) = w
  BY DEF Without
<1>2. IsFiniteSet(stays) /\ c \in Nat
  <2>1. IsFiniteSet(1 .. Len(q))
    BY FS_Interval
  <2>2. stays \in SUBSET (1 .. Len(q))
    OBVIOUS
  <2> QED  BY <2>1, <2>2, FS_Subset, FS_CardinalityType
<1>3. \A i \in stays : IsFiniteSet(Upto(i)) /\ Rank(i) \in 1 .. c
  <2>1. SUFFICES ASSUME NEW i \in stays PROVE IsFiniteSet(Upto(i)) /\ Rank(i) \in 1 .. c
    OBVIOUS
  <2>2. Upto(i) \in SUBSET stays /\ i \in Upto(i)
    OBVIOUS
  <2>3. IsFiniteSet(Upto(i)) /\ Rank(i) <= c
    BY <1>2, <2>2, FS_Subset
  <2>4. Rank(i) \in Nat /\ Rank(i) # 0
    BY <2>2, <2>3, FS_CardinalityType, FS_EmptySet
  <2> HIDE DEF Rank, c
  <2> QED  BY <1>2, <2>3, <2>4
<1>4. ASSUME NEW i \in stays, NEW j \in stays, i < j PROVE Rank(i) # Rank(j)
  <2>1. Upto(i) \in SUBSET Upto(j) /\ j \in Upto(j) /\ j \notin Upto(i)
    BY <1>4
  <2> HIDE DEF Upto
  <2> QED  BY <1>3, <2>1, FS_Subset
<1>5. ASSUME NEW i \in stays, NEW j \in stays, Rank(i) = Rank(j) PROVE i = j
  <2>1. i < j \/ j < i \/ i = j
    OBVIOUS
  <2> HIDE DEF Rank, stays
  <2> QED  BY <1>4, <1>5, <2>1
<1>6. \A n \in 1 .. c : \E i \in stays : Rank(i) = n
  <2> DEFINE f == [i \in stays |-> Rank(i)]
  <2>1. f \in Injection(stays, 1 .. c)
    <3> HIDE DEF Rank, stays, c
    <3> QED  BY <1>3, <1>5 DEF Injection, IsInjective
  <2>2. IsFiniteSet(1 .. c) /\ Cardinality(1 .. c) = c
    BY <1>2, FS_Interval
  <2>3. f \in Surjection(stays, 1 .. c)
    BY <2>1, <2>2, FS_Injection
  <2> HIDE DEF Rank, stays, c
  <2> QED  BY <2>3 DEF Surjection
<1>7. \A n \in 1 .. c : Item(n) \in stays /\ Rank(Item(n)) = n
  <2> HIDE DEF Rank, stays, c
  <2> QED  BY <1>6
<1>12. 1 \in stays => Rank(1) = 1
  <2>1. SUFFICES ASSUME 1 \in stays PROVE Rank(1) = 1
    OBVIOUS
  <2>2. Upto(1) = {1}
    BY <2>1
  <2> QED  BY <2>2, FS_Singleton
<1> HIDE DEF Item, Rank, c
<1>8. \A i \in stays : \E n \in 1 .. c : Item(n) = i
  <2>1. SUFFICES ASSUME NEW i \in stays PROVE Item(Rank(i)) = i /\ Rank(i) \in 1 .. c
    OBVIOUS
  <2> HIDE DEF stays
  <2> QED  BY <1>3, <1>5, <1>7
<1>9. w \in Seq(A) /\ Len(w) = c
  <2>1. \A n \in 1 .. c : q[Item(n)] \in A
    BY <1>7
  <2> QED  BY <1>2, <2>1
<1>10. {w[n] : n \in 1 .. c} = {q[i] : i \in 1 .. Len(q)} \ ds
  <2>1. \A n \in 1 .. c : w[n] = q[Item(n)]
    OBVIOUS
  <2>2. \A n \in 1 .. c : Item(n) \in 1 .. Len(q) /\ q[Item(n)] \notin ds
    BY <1>7
  <2>3. \A i \in 1 .. Len(q) : q[i] \notin ds => \E n \in 1 .. c : w[n] = q[i]
    BY <1>8, <2>1
  <2> HIDE DEF w
  <2> QED  BY <2>1, <2>2, <2>3
<1>11. ASSUME \A i, j \in 1 .. Len(q) : q[i] = q[j] => i = j,
              NEW m \in 1 .. c, NEW n \in 1 .. c, w[m] = w[n]
       PROVE  m = n
  <2>1. Item(m) = Item(n)
    BY <1>7, <1>11
  <2> QED  BY <1>7, <2>1
<1>13. q # <<>> /\ Head(q) \notin ds => w # <<>> /\ Head(w) = Head(q)
  <2>1. SUFFICES ASSUME q # <<>>, Head(q) \notin ds PROVE w # <<>> /\ Head(w) = Head(q)
    OBVIOUS
  <2>2. 1 \in 1 .. Len(q) /\ Head(q) = q[1]
    BY <2>1
  <2>3. 1 \in stays
    BY <2>1, <2>2
  <2>4. 1 \in 1 .. c /\ Item(1) = 1
    BY <1>3, <1>5, <1>7, <1>12, <2>3
  <2>5. w[1] = q[1]
    BY <2>4
  <2> HIDE DEF w
  <2> QED  BY <1>9, <2>2, <2>4, <2>5
<1> HIDE DEF w
<1> QED  BY <1>1, <1>9, <1>10, <1>11, <1>13

-----------------------------------------------------------------------------
(* What is in a queue, and what comes to it and goes. *)

ItemsOf(q)  == {q[i] : i \in 1 .. Len(q)}
Distinct(q) == \A i, j \in 1 .. Len(q) : q[i] = q[j] => i = j

\* The rows that stay, in the same words.
LEMMA WithoutRows ==
    ASSUME NEW A, NEW q \in Seq(A), NEW ds
    PROVE  /\ Without(q, ds) \in Seq(A)
           /\ ItemsOf(Without(q, ds)) = ItemsOf(q) \ ds
           /\ Distinct(q) => Distinct(Without(q, ds))
           /\ q # <<>> /\ Head(q) \notin ds =>
                 Without(q, ds) # <<>> /\ Head(Without(q, ds)) = Head(q)
<1> DEFINE w == Without(q, ds)
<1>1. /\ w \in Seq(A)
      /\ {w[n] : n \in 1 .. Len(w)} = {q[i] : i \in 1 .. Len(q)} \ ds
      /\ (\A i, j \in 1 .. Len(q) : q[i] = q[j] => i = j) =>
            \A m, n \in 1 .. Len(w) : w[m] = w[n] => m = n
      /\ q # <<>> /\ Head(q) \notin ds => w # <<>> /\ Head(w) = Head(q)
  BY WithoutItems, Zenon
<1> HIDE DEF w
<1>2. ItemsOf(w) = ItemsOf(q) \ ds
  BY <1>1 DEF ItemsOf
<1>3. Distinct(q) => Distinct(w)
  BY <1>1 DEF Distinct
<1> QED  BY <1>1, <1>2, <1>3 DEF w

\* A row that is inserted comes last.
LEMMA AppendItems ==
    ASSUME NEW A, NEW q \in Seq(A), NEW x \in A
    PROVE  /\ Append(q, x) \in Seq(A) /\ Append(q, x) # <<>>
           /\ ItemsOf(Append(q, x)) = ItemsOf(q) \cup {x}
           /\ q # <<>> => Head(Append(q, x)) = Head(q)
           /\ Distinct(q) /\ x \notin ItemsOf(q) => Distinct(Append(q, x))
<1> DEFINE p == Append(q, x)
<1>1. /\ p \in Seq(A) /\ Len(p) = Len(q) + 1 /\ Len(q) \in Nat
      /\ p[Len(q) + 1] = x /\ \A i \in 1 .. Len(q) : p[i] = q[i]
  OBVIOUS
<1> HIDE DEF p
<1>2. \A i \in 1 .. Len(p) : i \in 1 .. Len(q) \/ i = Len(q) + 1
  BY <1>1
<1>3. ItemsOf(p) = ItemsOf(q) \cup {x}
  <2>1. \A i \in 1 .. Len(p) : p[i] \in ItemsOf(q) \cup {x}
    BY <1>1, <1>2 DEF ItemsOf
  <2>2. \A i \in 1 .. Len(q) : i \in 1 .. Len(p) /\ p[i] = q[i]
    BY <1>1
  <2>3. Len(q) + 1 \in 1 .. Len(p)
    BY <1>1
  <2> QED  BY <1>1, <2>1, <2>2, <2>3 DEF ItemsOf
<1>4. p # <<>>
  BY <1>1
<1>5. q # <<>> => Head(p) = Head(q)
  <2>1. SUFFICES ASSUME q # <<>> PROVE Head(p) = Head(q)
    OBVIOUS
  <2>2. 1 \in 1 .. Len(q) /\ Head(q) = q[1] /\ Head(p) = p[1]
    BY <1>1, <1>4, <2>1
  <2> QED  BY <1>1, <2>2
<1>6. ASSUME Distinct(q), x \notin ItemsOf(q),
             NEW i \in 1 .. Len(p), NEW j \in 1 .. Len(p), p[i] = p[j]
      PROVE  i = j
  BY <1>1, <1>2, <1>6 DEF Distinct, ItemsOf
<1>7. Distinct(q) /\ x \notin ItemsOf(q) => Distinct(p)
  BY <1>6 DEF Distinct
<1> QED  BY <1>1, <1>3, <1>4, <1>5, <1>7 DEF p

\* What is behind the first row of a queue.
LEMMA TailItems ==
    ASSUME NEW A, NEW q \in Seq(A), q # <<>>
    PROVE  /\ Head(q) \in A /\ Tail(q) \in Seq(A)
           /\ Head(q) \in ItemsOf(q)
           /\ ItemsOf(q) = {Head(q)} \cup ItemsOf(Tail(q))
           /\ Distinct(q) => Distinct(Tail(q)) /\ Head(q) \notin ItemsOf(Tail(q))
<1> DEFINE t == Tail(q)
<1>1. /\ t \in Seq(A) /\ Len(t) = Len(q) - 1 /\ Len(q) \in Nat /\ Len(q) >= 1
      /\ Head(q) = q[1] /\ \A i \in 1 .. Len(t) : t[i] = q[i + 1]
  OBVIOUS
<1> HIDE DEF t
<1>2. Head(q) \in A
  BY <1>1
<1>3. \A i \in 1 .. Len(q) : i = 1 \/ (i - 1 \in 1 .. Len(t) /\ t[i - 1] = q[i])
  BY <1>1
<1>4. \A i \in 1 .. Len(t) : i + 1 \in 1 .. Len(q) /\ i + 1 # 1
  BY <1>1
<1>5. 1 \in 1 .. Len(q)
  BY <1>1
<1>6. ItemsOf(q) = {Head(q)} \cup ItemsOf(t) /\ Head(q) \in ItemsOf(q)
  BY <1>1, <1>3, <1>4, <1>5 DEF ItemsOf
<1>7. ASSUME Distinct(q) PROVE Distinct(t) /\ Head(q) \notin ItemsOf(t)
  <2>1. \A i, j \in 1 .. Len(t) : t[i] = t[j] => i + 1 = j + 1
    BY <1>1, <1>4, <1>7 DEF Distinct
  <2>2. \A i \in 1 .. Len(t) : t[i] # q[1]
    BY <1>1, <1>4, <1>5, <1>7 DEF Distinct
  <2> QED  BY <1>1, <2>1, <2>2 DEF Distinct, ItemsOf
<1> QED  BY <1>1, <1>2, <1>6, <1>7 DEF t
=============================================================================
