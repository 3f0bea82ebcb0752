----------------------------- MODULE ListLemmas -----------------------------
(***************************************************************************)
(* What the operators do that the modules of this project use on lists:    *)
(* the least number of a set, a set as a list, a prefix, an element moved  *)
(* to the front of a list, an identifier that is not taken, lists made     *)
(* entry by entry or step by step, lists one after the other.              *)
(***************************************************************************)
EXTENDS Integers, FiniteSets, Sequences, Lists, TLAPS,
        FiniteSetTheorems, FunctionTheorems, SequenceTheorems, WellFoundedInduction

LessThan == {pair \in Nat \X Nat : pair[1] < pair[2]}

LEMMA LessThanWellFounded == IsWellFoundedOn(LessThan, Nat)
BY NatLessThanWellFounded, Zenon DEF OpToRel, LessThan

\* A set of numbers that is not empty has a least one.
LEMMA MinIsLeast ==
    ASSUME NEW T, T \subseteq Nat, T # {}
    PROVE  Min(T) \in T /\ \A x \in T : Min(T) <= x
<1>1. PICK x \in T : \A y \in T : <<y, x>> \notin LessThan
  BY LessThanWellFounded, WFMin
<1>2. \A y \in T : ~ (y < x)
  BY <1>1 DEF LessThan
<1>3. \A y \in T : x <= y
  BY <1>2
<1> QED  BY <1>3 DEF Min

\* The elements of a finite set in some order, each of them once.
LEMMA SetInOrder ==
    ASSUME NEW S, IsFiniteSet(S)
    PROVE  SetToSeq(S) \in Seq(S) /\ ToSet(SetToSeq(S)) = S /\ IsInjective(SetToSeq(S))
<1>1. Cardinality(S) \in Nat /\ ExistsBijection(1..Cardinality(S), S)
  BY FS_CardinalityType
<1>2. PICK f \in [1..Cardinality(S) -> S] : IsInjective(f)
  BY <1>1 DEF ExistsBijection, Bijection, Injection
<1>3. SetToSeq(S) \in [1..Cardinality(S) -> S] /\ IsInjective(SetToSeq(S))
  BY <1>2 DEF SetToSeq
<1>4. PICK s : s = SetToSeq(S)
  OBVIOUS
<1>5. s \in Injection(1..Cardinality(S), S)
  BY <1>3, <1>4 DEF Injection
<1>6. Cardinality(1..Cardinality(S)) = Cardinality(S)
  BY <1>1, FS_Interval
<1>7. s \in Surjection(1..Cardinality(S), S)
  BY <1>5, <1>6, FS_Injection
<1>8. ToSet(s) = S
  BY <1>7 DEF ToSet, Surjection
<1> QED  BY <1>1, <1>3, <1>4, <1>8

LEMMA PrefixTyped ==
    ASSUME NEW S, NEW s \in Seq(S), NEW n \in Nat, n <= Len(s)
    PROVE  SubSeq(s, 1, n) \in Seq(S)
OBVIOUS

\* A list without its k-th element.
LEMMA RemovedAt ==
    ASSUME NEW S, NEW s \in Seq(S), NEW k \in 1..Len(s)
    PROVE  /\ RemoveAt(s, k) \in Seq(S)
           /\ Len(RemoveAt(s, k)) = Len(s) - 1
           /\ \A i \in 1..(k - 1) : RemoveAt(s, k)[i] = s[i]
           /\ \A i \in (k + 1)..Len(s) : RemoveAt(s, k)[i - 1] = s[i]
<1> k \in Nat /\ Len(s) \in Nat /\ k <= Len(s) /\ 1 <= k
  OBVIOUS
<1>a. SubSeq(s, 1, k - 1) \in Seq(S) /\ SubSeq(s, k + 1, Len(s)) \in Seq(S)
  OBVIOUS
<1>b. /\ Len(SubSeq(s, 1, k - 1)) = k - 1
      /\ \A i \in 1..(k - 1) : SubSeq(s, 1, k - 1)[i] = s[i]
  BY SubSeqProperties
<1>c. /\ Len(SubSeq(s, k + 1, Len(s))) = Len(s) - k
      /\ \A i \in 1..(Len(s) - k) : SubSeq(s, k + 1, Len(s))[i] = s[k + i]
  BY SubSeqProperties
<1>u. PICK u \in Seq(S) : u = SubSeq(s, 1, k - 1)
  BY <1>a
<1>v. PICK v \in Seq(S) : v = SubSeq(s, k + 1, Len(s))
  BY <1>a
<1>1. Len(u) = k - 1 /\ \A i \in 1..(k - 1) : u[i] = s[i]
  BY <1>b, <1>u
<1>2. Len(v) = Len(s) - k /\ \A i \in 1..(Len(s) - k) : v[i] = s[k + i]
  BY <1>c, <1>v
<1>3. RemoveAt(s, k) = u \o v
  BY <1>u, <1>v DEF RemoveAt
<1>w. PICK w \in Seq(S) : w = u \o v
  BY <1>u, <1>v, ConcatProperties
<1>x. /\ Len(w) = Len(u) + Len(v)
      /\ \A i \in 1..(Len(u) + Len(v)) : w[i] = IF i <= Len(u) THEN u[i] ELSE v[i - Len(u)]
  <2>1. u \in Seq(S) /\ v \in Seq(S)
    OBVIOUS
  <2>2. /\ Len(u \o v) = Len(u) + Len(v)
        /\ \A i \in 1..(Len(u) + Len(v)) : (u \o v)[i] = IF i <= Len(u) THEN u[i] ELSE v[i - Len(u)]
    BY <2>1, ConcatProperties
  <2> QED  BY <1>w, <2>2, Zenon
<1>4. Len(w) = Len(s) - 1
  BY <1>x, <1>1, <1>2
<1>5. ASSUME NEW i \in 1..(k - 1) PROVE w[i] = s[i]
  <2>1. i \in 1..(Len(u) + Len(v)) /\ i <= Len(u)
    BY <1>1, <1>2
  <2> QED  BY <1>x, <1>1, <2>1
<1>6. ASSUME NEW i \in (k + 1)..Len(s) PROVE w[i - 1] = s[i]
  <2>1. i - k \in 1..Len(v) /\ i - 1 \in 1..(Len(u) + Len(v)) /\ ~ (i - 1 <= Len(u)) /\ i - 1 - Len(u) = i - k
    BY <1>1, <1>2
  <2>2. w[i - 1] = v[i - k]
    BY <1>x, <2>1
  <2>3. v[i - k] = s[k + (i - k)] /\ k + (i - k) = i
    BY <1>2, <2>1
  <2> QED  BY <2>2, <2>3
<1> QED  BY <1>3, <1>w, <1>4, <1>5, <1>6

\* The place of the first element that is x.
LEMMA FirstPlace ==
    ASSUME NEW S, NEW s \in Seq(S), NEW x, \E i \in 1..Len(s) : s[i] = x
    PROVE  \E k \in 1..Len(s) : s[k] = x /\ RemoveFirst(s, x) = RemoveAt(s, k)
<1> DEFINE I == {i \in 1..Len(s) : s[i] = x}
<1>1. I \subseteq Nat /\ I # {} /\ I \subseteq 1..Len(s)
  OBVIOUS
<1>2. Min(I) \in I
  BY <1>1, MinIsLeast
<1>3. PICK k \in I : k = Min(I)
  BY <1>2
<1>4. SelectInSeq(s, LAMBDA v : v = x) = k
  BY <1>1, <1>3 DEF SelectInSeq
<1>5. RemoveFirst(s, x) = RemoveAt(s, k)
  BY <1>4 DEF RemoveFirst
<1> QED  BY <1>5

LEMMA Elements ==
    ASSUME NEW S, NEW s \in Seq(S)
    PROVE  /\ \A i \in 1..Len(s) : s[i] \in ToSet(s)
           /\ \A y \in ToSet(s) : \E i \in 1..Len(s) : s[i] = y
           /\ IsInjective(s) => \A i, j \in 1..Len(s) : s[i] = s[j] => i = j
BY DEF ToSet, IsInjective

\* x is put in front of a list, and taken out of its k-th place if it has one: nothing else
\* comes, goes or changes places.
LEMMA ShiftedList ==
    ASSUME NEW S, NEW s \in Seq(S), NEW t \in Seq(S), NEW x \in S, IsInjective(s),
           NEW k \in 1..(Len(s) + 1),
           Len(t) = IF k <= Len(s) THEN Len(s) ELSE Len(s) + 1,
           t[1] = x,
           \A i \in 1..(k - 1) : t[i + 1] = s[i],
           \A i \in (k + 1)..Len(s) : t[i] = s[i],
           k <= Len(s) => s[k] = x,
           k = Len(s) + 1 => \A i \in 1..Len(s) : s[i] # x
    PROVE  /\ IsInjective(t)
           /\ ToSet(t) = ToSet(s) \cup {x}
           /\ \A i, j \in 1..Len(s) : s[i] # x /\ s[j] # x /\ i < j =>
                \E a, b \in 1..Len(t) : t[a] = s[i] /\ t[b] = s[j] /\ a < b
<1> DEFINE From(i) == IF i < k THEN i + 1 ELSE i
<1>1. ASSUME NEW i \in 1..Len(s), s[i] # x
      PROVE  From(i) \in 2..Len(t) /\ t[From(i)] = s[i]
  <2>1. i # k
    BY <1>1
  <2>2. CASE i < k
    BY <2>2
  <2>3. CASE i > k
    BY <2>3
  <2> QED  BY <2>1, <2>2, <2>3
<1>2. ASSUME NEW a \in 2..Len(t)
      PROVE  \E i \in 1..Len(s) : (a <= k => i = a - 1) /\ (a > k => i = a) /\ i # k /\ t[a] = s[i]
  <2>1. CASE a <= k
    <3>1. a - 1 \in 1..(k - 1) /\ (a - 1) + 1 = a /\ a - 1 \in 1..Len(s)
      BY <2>1
    <3> QED  BY <2>1, <3>1
  <2>2. CASE a > k
    BY <2>2
  <2> QED  BY <2>1, <2>2
<1>3. ASSUME NEW i \in 1..Len(s), i # k PROVE s[i] # x
  <2>1. CASE k <= Len(s)
    BY <2>1, <1>3, Elements
  <2>2. CASE k = Len(s) + 1
    BY <2>2
  <2> QED  BY <2>1, <2>2
<1>a. ASSUME NEW a \in 2..Len(t) PROVE t[a] # x
  <2>1. PICK i \in 1..Len(s) : i # k /\ t[a] = s[i]
    BY <1>2
  <2> QED  BY <1>3, <2>1
<1>4. IsInjective(t)
  <2> SUFFICES ASSUME NEW a \in 1..Len(t), NEW b \in 1..Len(t), t[a] = t[b], a # b
               PROVE  FALSE
    BY DEF IsInjective
  <2>1. a \in 2..Len(t) /\ b \in 2..Len(t)
    BY <1>a
  <2>2. PICK i \in 1..Len(s) : (a <= k => i = a - 1) /\ (a > k => i = a) /\ i # k /\ t[a] = s[i]
    BY <1>2, <2>1
  <2>3. PICK j \in 1..Len(s) : (b <= k => j = b - 1) /\ (b > k => j = b) /\ j # k /\ t[b] = s[j]
    BY <1>2, <2>1
  <2>4. s[i] = s[j]
    BY <2>2, <2>3, Zenon
  <2>5. i = j
    BY <2>4, Elements, Zenon
  <2> QED  BY <2>1, <2>2, <2>3, <2>5
<1>5. ToSet(t) = ToSet(s) \cup {x}
  <2>1. ASSUME NEW y \in ToSet(t) PROVE y \in ToSet(s) \cup {x}
    <3>1. PICK a \in 1..Len(t) : t[a] = y
      BY Elements
    <3>2. CASE a = 1
      BY <3>1, <3>2
    <3>3. CASE a \in 2..Len(t)
      <4>1. PICK i \in 1..Len(s) : t[a] = s[i]
        BY <1>2, <3>3
      <4> QED  BY <3>1, <4>1, Elements
    <3> QED  BY <3>2, <3>3
  <2>2. ASSUME NEW y \in ToSet(s) PROVE y \in ToSet(t)
    <3>1. PICK i \in 1..Len(s) : s[i] = y
      BY Elements
    <3>2. CASE y = x
      BY <3>2, Elements
    <3>3. CASE y # x
      <4>1. From(i) \in 1..Len(t) /\ t[From(i)] = y
        BY <1>1, <3>1, <3>3
      <4> QED  BY <4>1, Elements
    <3> QED  BY <3>2, <3>3
  <2>3. x \in ToSet(t)
    BY Elements
  <2> QED  BY <2>1, <2>2, <2>3
<1>6. ASSUME NEW i \in 1..Len(s), NEW j \in 1..Len(s), s[i] # x, s[j] # x, i < j
      PROVE  \E a, b \in 1..Len(t) : t[a] = s[i] /\ t[b] = s[j] /\ a < b
  <2>1. From(i) \in 2..Len(t) /\ t[From(i)] = s[i] /\ From(j) \in 2..Len(t) /\ t[From(j)] = s[j]
    BY <1>1, <1>6
  <2>2. From(i) < From(j)
    BY <1>6
  <2> QED  BY <2>1, <2>2
<1> QED  BY <1>4, <1>5, <1>6

LEMMA FrontOfList ==
    ASSUME NEW S, NEW r \in Seq(S), NEW x \in S
    PROVE  /\ <<x>> \o r \in Seq(S)
           /\ Len(<<x>> \o r) = Len(r) + 1
           /\ (<<x>> \o r)[1] = x
           /\ \A i \in 1..Len(r) : (<<x>> \o r)[i + 1] = r[i]
OBVIOUS

\* The same of a list that may name an element more than once.
LEMMA FrontTyped ==
    ASSUME NEW S, NEW s \in Seq(S), NEW x \in S
    PROVE  <<x>> \o RemoveFirst(s, x) \in Seq(S)
<1>1. RemoveFirst(s, x) \in Seq(S)
  <2>1. CASE \E i \in 1..Len(s) : s[i] = x
    <3>1. PICK k \in 1..Len(s) : RemoveFirst(s, x) = RemoveAt(s, k)
      BY <2>1, FirstPlace
    <3> QED  BY <3>1, RemovedAt
  <2>2. CASE ~ \E i \in 1..Len(s) : s[i] = x
    BY <2>2 DEF RemoveFirst
  <2> QED  BY <2>1, <2>2
<1> QED  BY <1>1, FrontOfList

\* t is s with x at its front: each element is there once, the other ones in the order they had.
IsFronted(s, x, t) ==
    /\ t = <<x>> \o RemoveFirst(s, x) /\ Len(t) > 0 /\ t[1] = x
    /\ IsInjective(t)
    /\ ToSet(t) = ToSet(s) \cup {x}
    /\ \A i, j \in 1..Len(s) : s[i] # x /\ s[j] # x /\ i < j =>
         \E a, b \in 1..Len(t) : t[a] = s[i] /\ t[b] = s[j] /\ a < b

LEMMA MovedToFront ==
    ASSUME NEW S, NEW s \in Seq(S), NEW x \in S, IsInjective(s)
    PROVE  \E t \in Seq(S) : IsFronted(s, x, t)
<1>1. CASE \E i \in 1..Len(s) : s[i] = x
  <2>1. PICK k \in 1..Len(s) : s[k] = x /\ RemoveFirst(s, x) = RemoveAt(s, k)
    BY <1>1, FirstPlace
  <2>2. RemoveAt(s, k) \in Seq(S) /\ Len(RemoveAt(s, k)) = Len(s) - 1
    BY RemovedAt
  <2>3. PICK r \in Seq(S) : r = RemoveAt(s, k)
    BY <2>2
  <2>4. /\ Len(r) = Len(s) - 1
        /\ \A i \in 1..(k - 1) : r[i] = s[i]
        /\ \A i \in (k + 1)..Len(s) : r[i - 1] = s[i]
    BY <2>3, RemovedAt
  <2>5. /\ <<x>> \o r \in Seq(S)
        /\ Len(<<x>> \o r) = Len(r) + 1
        /\ (<<x>> \o r)[1] = x
        /\ \A i \in 1..Len(r) : (<<x>> \o r)[i + 1] = r[i]
    BY FrontOfList
  <2>6. PICK t \in Seq(S) : t = <<x>> \o r
    BY <2>5
  <2>7. Len(t) = Len(s) /\ t[1] = x /\ \A i \in 1..Len(r) : t[i + 1] = r[i]
    BY <2>4, <2>5, <2>6
  <2>8. ASSUME NEW i \in 1..(k - 1) PROVE t[i + 1] = s[i]
    <3>1. i \in 1..Len(r)
      BY <2>4
    <3> QED  BY <3>1, <2>4, <2>7
  <2>9. ASSUME NEW i \in (k + 1)..Len(s) PROVE t[i] = s[i]
    <3>1. i - 1 \in 1..Len(r) /\ (i - 1) + 1 = i
      BY <2>4
    <3> QED  BY <3>1, <2>4, <2>7
  <2>10. k \in 1..(Len(s) + 1) /\ k <= Len(s) /\ k # Len(s) + 1
    OBVIOUS
  <2>p. PICK p \in 1..(Len(s) + 1) : p = k
    BY <2>10
  <2>h. /\ Len(t) = IF p <= Len(s) THEN Len(s) ELSE Len(s) + 1
        /\ t[1] = x
        /\ \A i \in 1..(p - 1) : t[i + 1] = s[i]
        /\ \A i \in (p + 1)..Len(s) : t[i] = s[i]
        /\ p <= Len(s) => s[p] = x
        /\ p = Len(s) + 1 => \A i \in 1..Len(s) : s[i] # x
    BY <2>1, <2>7, <2>8, <2>9, <2>10, <2>p
  <2>11. /\ IsInjective(t)
         /\ ToSet(t) = ToSet(s) \cup {x}
         /\ \A i, j \in 1..Len(s) : s[i] # x /\ s[j] # x /\ i < j =>
              \E a, b \in 1..Len(t) : t[a] = s[i] /\ t[b] = s[j] /\ a < b
    BY <2>h, ShiftedList
  <2>12. t = <<x>> \o RemoveFirst(s, x) /\ Len(t) > 0 /\ t[1] = x
    BY <2>1, <2>3, <2>6, <2>7
  <2> QED  BY <2>11, <2>12 DEF IsFronted
<1>2. CASE ~ \E i \in 1..Len(s) : s[i] = x
  <2>1. RemoveFirst(s, x) = s
    BY <1>2 DEF RemoveFirst
  <2>2. /\ <<x>> \o s \in Seq(S)
        /\ Len(<<x>> \o s) = Len(s) + 1
        /\ (<<x>> \o s)[1] = x
        /\ \A i \in 1..Len(s) : (<<x>> \o s)[i + 1] = s[i]
    BY FrontOfList
  <2>3. PICK t \in Seq(S) : t = <<x>> \o s
    BY <2>2
  <2>4. Len(t) = Len(s) + 1 /\ t[1] = x /\ \A i \in 1..Len(s) : t[i + 1] = s[i]
    BY <2>2, <2>3
  <2>5. PICK k \in 1..(Len(s) + 1) : k = Len(s) + 1
    OBVIOUS
  <2>6. /\ ~ (k <= Len(s))
        /\ \A i \in 1..(k - 1) : t[i + 1] = s[i]
        /\ \A i \in (k + 1)..Len(s) : t[i] = s[i]
    BY <2>4, <2>5
  <2>h. /\ Len(t) = IF k <= Len(s) THEN Len(s) ELSE Len(s) + 1
        /\ t[1] = x
        /\ \A i \in 1..(k - 1) : t[i + 1] = s[i]
        /\ \A i \in (k + 1)..Len(s) : t[i] = s[i]
        /\ k <= Len(s) => s[k] = x
        /\ k = Len(s) + 1 => \A i \in 1..Len(s) : s[i] # x
        /\ k \in 1..(Len(s) + 1)
    BY <1>2, <2>4, <2>5, <2>6
  <2>7. /\ IsInjective(t)
        /\ ToSet(t) = ToSet(s) \cup {x}
        /\ \A i, j \in 1..Len(s) : s[i] # x /\ s[j] # x /\ i < j =>
             \E a, b \in 1..Len(t) : t[a] = s[i] /\ t[b] = s[j] /\ a < b
    BY <2>h, ShiftedList
  <2>8. t = <<x>> \o RemoveFirst(s, x) /\ Len(t) > 0 /\ t[1] = x
    BY <2>1, <2>3, <2>4
  <2> QED  BY <2>7, <2>8 DEF IsFronted
<1> QED  BY <1>1, <1>2

\* An identifier of a finite set of them is not taken by any of fewer ones.
LEMMA OneIsFree ==
    ASSUME NEW T, IsFiniteSet(T), NEW key
    PROVE  \E n \in 0..Cardinality(T) : <<key, n>> \notin T
<1> DEFINE N == Cardinality(T)
<1>1. N \in Nat
  BY FS_CardinalityType
<1>2. IsFiniteSet(0..N) /\ Cardinality(0..N) = N + 1
  BY <1>1, FS_Interval
<1> SUFFICES ASSUME \A n \in 0..N : <<key, n>> \in T PROVE FALSE
  OBVIOUS
<1> DEFINE f == [n \in 0..N |-> <<key, n>>]
<1>3. f \in [0..N -> T]
  OBVIOUS
<1>4. N < N + 1
  BY <1>1
<1>5. PICK m \in 0..N, n \in 0..N : m # n /\ f[m] = f[n]
  <2> HIDE DEF f
  <2> QED  BY <1>2, <1>3, <1>4, FS_PigeonHole
<1> QED  BY <1>5

\* A list may be defined by what each entry is made of, given the entries before it.
Earlier(f, i) == [j \in 1..(i - 1) |-> f[j]]

IsBuilt(f, step, n) == \A i \in 1..n : f[i] = step[i][Earlier(f, i)]

\* A set of numbers that is not empty has one below which there is none.
LEMMA FirstBad ==
    ASSUME NEW Bad, Bad \subseteq Nat, Bad # {}
    PROVE  \E m \in Bad : \A n \in Nat : n < m => n \notin Bad
<1>1. PICK m \in Bad : \A n \in Bad : <<n, m>> \notin LessThan
  BY LessThanWellFounded, WFMin
<1>2. ASSUME NEW n \in Nat, n < m, n \in Bad PROVE FALSE
  BY <1>1, <1>2 DEF LessThan
<1> QED  BY <1>2

\* There is a list whose entries are made from those before them.
LEMMA ListBuilt ==
    ASSUME NEW S, NEW N \in Nat, NEW step,
           \A i \in 1..N : step[i] \in [[1..(i - 1) -> S] -> S]
    PROVE  \E f \in [1..N -> S] : IsBuilt(f, step, N)
<1> DEFINE Bad == {n \in 0..N : ~\E f \in [1..n -> S] : IsBuilt(f, step, n)}
<1> SUFFICES ASSUME Bad # {} PROVE FALSE
  OBVIOUS
<1>1. PICK m \in Bad : \A n \in Nat : n < m => n \notin Bad
  <2> Bad \subseteq Nat
    OBVIOUS
  <2> HIDE DEF Bad
  <2> QED  BY FirstBad
<1>3. m # 0
  <2>1. [i \in 1..0 |-> 0] \in [1..0 -> S] /\ IsBuilt([i \in 1..0 |-> 0], step, 0)
    BY DEF IsBuilt
  <2> QED  BY <2>1
<1>4. m - 1 \in 0..N /\ m - 1 \in Nat /\ m - 1 < m /\ m \in 1..N /\ m \in Nat
  BY <1>3
<1>5. PICK f \in [1..(m - 1) -> S] : IsBuilt(f, step, m - 1)
  BY <1>1, <1>4
<1> DEFINE g == [i \in 1..m |-> IF i < m THEN f[i] ELSE step[m][f]]
<1>6. step[m][f] \in S
  BY <1>4
<1>7. g \in [1..m -> S]
  BY <1>4, <1>6
<1>8. ASSUME NEW i \in 1..m PROVE g[i] = step[i][Earlier(g, i)]
  <2>1. Earlier(g, i) = Earlier(f, i)
    BY <1>4 DEF Earlier
  <2>2. CASE i < m
    <3>1. i \in 1..(m - 1) /\ g[i] = f[i]
      BY <2>2, <1>4
    <3> QED  BY <2>1, <3>1, <1>5 DEF IsBuilt
  <2>3. CASE i = m
    <3>1. Earlier(f, i) = f
      BY <2>3, <1>4 DEF Earlier
    <3>2. g[i] = step[m][f]
      BY <2>3, <1>4
    <3> QED  BY <3>1, <3>2, <2>1, <2>3
  <2> QED  BY <2>2, <2>3, <1>4
<1>9. IsBuilt(g, step, m)
  BY <1>8 DEF IsBuilt
<1> QED  BY <1>7, <1>9

\* What holds of an entry whenever it holds of those before it holds of all.
LEMMA EntryByEntry ==
    ASSUME NEW N \in Nat, NEW Good,
           \A i \in 1..N : (\A j \in 1..(i - 1) : j \in Good) => i \in Good
    PROVE  \A i \in 1..N : i \in Good
<1> DEFINE Bad == {n \in 1..N : n \notin Good}
<1> SUFFICES ASSUME Bad # {} PROVE FALSE
  OBVIOUS
<1>1. PICK m \in Bad : \A n \in Nat : n < m => n \notin Bad
  <2> Bad \subseteq Nat
    OBVIOUS
  <2> HIDE DEF Bad
  <2> QED  BY FirstBad
<1>2. ASSUME NEW j \in 1..(m - 1) PROVE j \in Good
  <2>1. m \in 1..N
    OBVIOUS
  <2>2. j \in Nat /\ j < m /\ j \in 1..N
    BY <2>1
  <2> QED  BY <1>1, <2>2
<1> QED  BY <1>2

\* There is a list of the results of one step after the other.
IsFold(f, base, step, n) == f[0] = base /\ \A i \in 1..n : f[i] = step[i][f[i - 1]]

LEMMA FoldBuilt ==
    ASSUME NEW S, NEW N \in Nat, NEW base \in S, NEW step,
           \A i \in 1..N : step[i] \in [S -> S]
    PROVE  \E f \in [0..N -> S] : IsFold(f, base, step, N)
<1> DEFINE next == [i \in 1..N |-> [p \in [1..(i - 1) -> S] |->
                      step[i][IF i = 1 THEN base ELSE p[i - 1]]]]
<1>1. \A i \in 1..N : next[i] \in [[1..(i - 1) -> S] -> S]
  <2> SUFFICES ASSUME NEW i \in 1..N, NEW p \in [1..(i - 1) -> S]
               PROVE  step[i][IF i = 1 THEN base ELSE p[i - 1]] \in S
    OBVIOUS
  <2>1. (IF i = 1 THEN base ELSE p[i - 1]) \in S
    OBVIOUS
  <2> QED  BY <2>1
<1>2. PICK g \in [1..N -> S] : IsBuilt(g, next, N)
  <2> HIDE DEF next
  <2> QED  BY <1>1, ListBuilt
<1> DEFINE f == [n \in 0..N |-> IF n = 0 THEN base ELSE g[n]]
<1>3. f \in [0..N -> S] /\ f[0] = base
  OBVIOUS
<1>4. ASSUME NEW i \in 1..N PROVE f[i] = step[i][f[i - 1]]
  <2> DEFINE p == Earlier(g, i)
  <2>1. p \in [1..(i - 1) -> S]
    <3>1. \A j \in 1..(i - 1) : j \in 1..N
      OBVIOUS
    <3>2. \A j \in 1..(i - 1) : g[j] \in S
      BY <1>2, <3>1
    <3> HIDE DEF next, f
    <3> QED  BY <3>2 DEF Earlier
  <2>2. g[i] = next[i][p]
    BY <1>2 DEF IsBuilt
  <2>3. next[i][p] = step[i][IF i = 1 THEN base ELSE p[i - 1]]
    <3> HIDE DEF p, f
    <3> QED  BY <2>1
  <2>4. (IF i = 1 THEN base ELSE p[i - 1]) = f[i - 1]
    BY DEF Earlier
  <2>5. f[i] = g[i]
    OBVIOUS
  <2> HIDE DEF p, f, next
  <2> QED  BY <2>2, <2>3, <2>4, <2>5
<1>5. IsFold(f, base, step, N)
  <2> HIDE DEF f, next
  <2> QED  BY <1>3, <1>4 DEF IsFold
<1> QED  BY <1>3, <1>5

\* What holds at the start and after every step holds of all of them.
LEMMA StepByStep ==
    ASSUME NEW N \in Nat, NEW Good, 0 \in Good, \A i \in 1..N : i - 1 \in Good => i \in Good
    PROVE  \A i \in 0..N : i \in Good
<1>1. \A i \in 1..N : (\A j \in 1..(i - 1) : j \in Good) => i \in Good
  <2> SUFFICES ASSUME NEW i \in 1..N, \A j \in 1..(i - 1) : j \in Good PROVE i \in Good
    OBVIOUS
  <2>1. i - 1 \in Good
    <3>1. i - 1 = 0 \/ i - 1 \in 1..(i - 1)
      OBVIOUS
    <3> QED  BY <3>1
  <2> QED  BY <2>1
<1>2. \A i \in 1..N : i \in Good
  BY <1>1, EntryByEntry
<1> QED  BY <1>2

\* The entries of two lists, one after the other.
LEMMA Concatenated ==
    ASSUME NEW S, NEW s \in Seq(S), NEW t \in Seq(S)
    PROVE  s \o t \in Seq(S) /\ ToSet(s \o t) = ToSet(s) \union ToSet(t)
<1>1. /\ Len(s) \in Nat /\ Len(t) \in Nat
      /\ DOMAIN s = 1..Len(s) /\ DOMAIN t = 1..Len(t) /\ DOMAIN (s \o t) = 1..(Len(s) + Len(t))
  OBVIOUS
<1>2. \A i \in 1..(Len(s) + Len(t)) : (s \o t)[i] = IF i <= Len(s) THEN s[i] ELSE t[i - Len(s)]
  OBVIOUS
<1>3. ASSUME NEW i \in DOMAIN (s \o t) PROVE (s \o t)[i] \in ToSet(s) \union ToSet(t)
  <2>1. i \in DOMAIN s \/ (i > Len(s) /\ i - Len(s) \in DOMAIN t)
    BY <1>1
  <2> QED  BY <1>1, <1>2, <2>1 DEF ToSet
<1>4. ASSUME NEW i \in DOMAIN s PROVE s[i] \in ToSet(s \o t)
  <2>1. i \in DOMAIN (s \o t) /\ (s \o t)[i] = s[i]
    BY <1>1, <1>2
  <2> QED  BY <2>1 DEF ToSet
<1>5. ASSUME NEW i \in DOMAIN t PROVE t[i] \in ToSet(s \o t)
  <2>1. Len(s) + i \in DOMAIN (s \o t) /\ (s \o t)[Len(s) + i] = t[i]
    BY <1>1, <1>2
  <2> QED  BY <2>1 DEF ToSet
<1>6. ToSet(s \o t) \subseteq ToSet(s) \union ToSet(t)
  BY <1>3, Zenon DEF ToSet
<1>7. ToSet(s) \subseteq ToSet(s \o t) /\ ToSet(t) \subseteq ToSet(s \o t)
  <2> DEFINE all == ToSet(s \o t)
  <2>1. \A i \in DOMAIN s : s[i] \in all
    BY <1>4
  <2>2. \A i \in DOMAIN t : t[i] \in all
    BY <1>5
  <2> HIDE DEF all
  <2>3. ToSet(s) \subseteq all /\ ToSet(t) \subseteq all
    BY <2>1, <2>2 DEF ToSet
  <2> QED  BY <2>3 DEF all
<1>8. s \o t \in Seq(S)
  OBVIOUS
<1> QED  BY <1>6, <1>7, <1>8

LEMMA ConcatenatedAt ==
    ASSUME NEW S, NEW s \in Seq(S), NEW t \in Seq(S)
    PROVE  /\ Len(s) \in Nat /\ Len(t) \in Nat /\ Len(s \o t) = Len(s) + Len(t)
           /\ \A k \in 1..Len(s) : (s \o t)[k] = s[k]
           /\ \A k \in 1..Len(t) : (s \o t)[Len(s) + k] = t[k]
OBVIOUS

\* The lists of a list put one after the other, one at a time.
LEMMA FlattenedStepwise ==
    ASSUME NEW S, NEW seqs \in Seq(Seq(S)), seqs # <<>>
    PROVE  \E f \in [1..Len(seqs) -> Seq(S)] :
             /\ FlattenSeq(seqs) = f[Len(seqs)] /\ f[1] = seqs[1]
             /\ \A i \in 2..Len(seqs) : f[i] = f[i - 1] \o seqs[i]
<1> DEFINE N == Len(seqs)
<1> DEFINE Is(f) == f = [i \in 1..N |-> IF i = 1 THEN seqs[i] ELSE f[i - 1] \o seqs[i]]
<1> DEFINE F == CHOOSE f : Is(f)
<1> N \in Nat \ {0} /\ DOMAIN seqs = 1..N /\ \A i \in 1..N : seqs[i] \in Seq(S)
  OBVIOUS
<1>1. FlattenSeq(seqs) = F[N]
  <2>1. ~(seqs = <<>>)
    OBVIOUS
  <2> HIDE DEF F
  <2> QED  BY <2>1, Zenon DEF FlattenSeq, F
<1>2. \E f : Is(f)
  <2> DEFINE step == [i \in 1..N |-> [p \in [1..(i - 1) -> Seq(S)] |->
                        IF i = 1 THEN seqs[i] ELSE p[i - 1] \o seqs[i]]]
  <2>1. \A i \in 1..N : step[i] \in [[1..(i - 1) -> Seq(S)] -> Seq(S)]
    <3> SUFFICES ASSUME NEW i \in 1..N, NEW p \in [1..(i - 1) -> Seq(S)]
                 PROVE  (IF i = 1 THEN seqs[i] ELSE p[i - 1] \o seqs[i]) \in Seq(S)
      OBVIOUS
    <3> QED  OBVIOUS
  <2>2. PICK f \in [1..N -> Seq(S)] : IsBuilt(f, step, N)
    <3> HIDE DEF step
    <3> QED  BY <2>1, ListBuilt
  <2>3. ASSUME NEW i \in 1..N
        PROVE  f[i] = IF i = 1 THEN seqs[i] ELSE f[i - 1] \o seqs[i]
    <3> DEFINE p == Earlier(f, i)
    <3>1. p \in [1..(i - 1) -> Seq(S)]
      <4>1. \A j \in 1..(i - 1) : j \in 1..N
        OBVIOUS
      <4>2. \A j \in 1..(i - 1) : f[j] \in Seq(S)
        BY <2>2, <4>1
      <4> HIDE DEF step
      <4> QED  BY <4>2 DEF Earlier
    <3>2. f[i] = step[i][p]
      BY <2>2 DEF IsBuilt
    <3>3. step[i][p] = IF i = 1 THEN seqs[i] ELSE p[i - 1] \o seqs[i]
      <4> HIDE DEF p
      <4> QED  BY <3>1
    <3>4. i # 1 => p[i - 1] = f[i - 1]
      BY DEF Earlier
    <3> QED  BY <3>2, <3>3, <3>4
  <2> HIDE DEF step
  <2>4. f = [i \in 1..N |-> IF i = 1 THEN seqs[i] ELSE f[i - 1] \o seqs[i]]
    BY <2>3
  <2> QED  BY <2>4
<1>3. Is(F)
  BY <1>2, Zenon
<1> HIDE DEF F
<1>4. F = [i \in 1..N |-> IF i = 1 THEN seqs[i] ELSE F[i - 1] \o seqs[i]]
  BY <1>3
<1> DEFINE Good == {i \in 1..N : F[i] \in Seq(S)}
<1>5. ASSUME NEW i \in 1..N, \A j \in 1..(i - 1) : j \in Good PROVE i \in Good
  <2>1. CASE i = 1
    <3>1. F[i] = seqs[i]
      BY <1>4, <2>1
    <3> QED  BY <3>1
  <2>2. CASE i # 1
    <3>1. i - 1 \in 1..(i - 1)
      BY <2>2
    <3>2. F[i - 1] \in Seq(S)
      BY <3>1, <1>5
    <3>3. F[i] = F[i - 1] \o seqs[i]
      BY <1>4, <2>2
    <3>4. seqs[i] \in Seq(S)
      OBVIOUS
    <3>5. \A s, t \in Seq(S) : s \o t \in Seq(S)
      OBVIOUS
    <3>6. F[i] \in Seq(S)
      <4> HIDE DEF Good
      <4> QED  BY <3>2, <3>3, <3>4, <3>5
    <3> QED  BY <3>6
  <2> QED  BY <2>1, <2>2
<1>6. \A i \in 1..N : i \in Good
  <2> HIDE DEF Good
  <2> QED  BY <1>5, EntryByEntry
<1>7. F \in [1..N -> Seq(S)]
  <2>1. \A i \in 1..N : F[i] \in Seq(S)
    BY <1>6
  <2>2. DOMAIN F = 1..N
    BY <1>4
  <2>3. F = [i \in 1..N |-> F[i]]
    BY <1>4
  <2> QED  BY <2>1, <2>3
<1>8. F[1] = seqs[1] /\ \A i \in 2..N : F[i] = F[i - 1] \o seqs[i]
  <2>1. 1 \in 1..N /\ \A i \in 2..N : i \in 1..N /\ i # 1
    OBVIOUS
  <2> QED  BY <1>4, <2>1
<1> QED  BY <1>1, <1>7, <1>8

\* The list of all entries of a list of lists, in which each of them stands together.
LEMMA Flattened ==
    ASSUME NEW S, NEW seqs \in Seq(Seq(S))
    PROVE  /\ FlattenSeq(seqs) \in Seq(S)
           /\ ToSet(FlattenSeq(seqs)) = UNION {ToSet(seqs[i]) : i \in DOMAIN seqs}
           /\ \A n \in DOMAIN seqs : \E start \in Nat :
                /\ start + Len(seqs[n]) <= Len(FlattenSeq(seqs))
                /\ \A k \in 1..Len(seqs[n]) : FlattenSeq(seqs)[start + k] = seqs[n][k]
<1> DEFINE N == Len(seqs)
<1>1. CASE N = 0
  <2>1. seqs = <<>>
    BY <1>1
  <2>2. FlattenSeq(seqs) = <<>>
    BY <2>1, <1>1 DEF FlattenSeq
  <2>3. DOMAIN seqs = {} /\ ToSet(<<>>) = {}
    BY <2>1 DEF ToSet
  <2> QED  BY <2>2, <2>3
<1>2. CASE N # 0
  <2> N \in Nat /\ DOMAIN seqs = 1..N /\ \A i \in 1..N : seqs[i] \in Seq(S)
    OBVIOUS
  <2>1. PICK F \in [1..N -> Seq(S)] :
             /\ FlattenSeq(seqs) = F[N] /\ F[1] = seqs[1]
             /\ \A i \in 2..N : F[i] = F[i - 1] \o seqs[i]
    <3>1. seqs # <<>>
      BY <1>2
    <3> QED  BY <3>1, FlattenedStepwise
  <2> DEFINE In(n, i) == \E start \in Nat :
                /\ start + Len(seqs[n]) <= Len(F[i])
                /\ \A k \in 1..Len(seqs[n]) : F[i][start + k] = seqs[n][k]
  <2> DEFINE Good == {i \in 1..N : /\ ToSet(F[i]) = UNION {ToSet(seqs[k]) : k \in 1..i}
                                   /\ \A n \in 1..i : In(n, i)}
  <2>4. ASSUME NEW i \in 1..N, \A j \in 1..(i - 1) : j \in Good PROVE i \in Good
    <3>1. CASE i = 1
      <4>1. F[i] = seqs[i]
        BY <2>1, <3>1
      <4>2. 1..i = {i}
        BY <3>1
      <4>3. In(i, i)
        <5>1. 0 + Len(seqs[i]) <= Len(F[i]) /\ \A k \in 1..Len(seqs[i]) : F[i][0 + k] = seqs[i][k]
          BY <4>1
        <5> QED  BY <5>1
      <4> HIDE DEF In
      <4> QED  BY <4>1, <4>2, <4>3
    <3>2. CASE i # 1
      <4>0. i - 1 \in 1..(i - 1) /\ i - 1 \in 1..N /\ i \in 2..N
        BY <3>2
      <4>1. F[i] = F[i - 1] \o seqs[i]
        BY <2>1, <4>0
      <4>2. i - 1 \in Good
        <5> HIDE DEF Good
        <5> QED  BY <4>0, <2>4
      <4>3. F[i - 1] \in Seq(S) /\ ToSet(F[i - 1]) = UNION {ToSet(seqs[k]) : k \in 1..(i - 1)}
            /\ \A n \in 1..(i - 1) : In(n, i - 1)
        <5> HIDE DEF In
        <5> QED  BY <4>0, <4>2
      <4>4. F[i] \in Seq(S) /\ ToSet(F[i]) = ToSet(F[i - 1]) \union ToSet(seqs[i])
        BY <4>1, <4>3, Concatenated
      <4>5. 1..i = 1..(i - 1) \union {i}
        OBVIOUS
      <4>6. UNION {ToSet(seqs[k]) : k \in 1..i} = (UNION {ToSet(seqs[k]) : k \in 1..(i - 1)}) \union ToSet(seqs[i])
        BY <4>5
      <4>7. /\ Len(F[i - 1]) \in Nat /\ Len(seqs[i]) \in Nat /\ Len(F[i]) = Len(F[i - 1]) + Len(seqs[i])
            /\ \A k \in 1..Len(F[i - 1]) : F[i][k] = F[i - 1][k]
            /\ \A k \in 1..Len(seqs[i]) : F[i][Len(F[i - 1]) + k] = seqs[i][k]
        <5>1. \A s, t \in Seq(S) :
                /\ Len(s) \in Nat /\ Len(t) \in Nat /\ Len(s \o t) = Len(s) + Len(t)
                /\ \A k \in 1..Len(s) : (s \o t)[k] = s[k]
                /\ \A k \in 1..Len(t) : (s \o t)[Len(s) + k] = t[k]
          BY ConcatenatedAt
        <5>2. F[i - 1] \in Seq(S) /\ seqs[i] \in Seq(S)
          BY <4>3
        <5> HIDE DEF Good, In
        <5> QED  BY <4>1, <5>1, <5>2
      <4>8. In(i, i)
        <5> HIDE DEF Good
        <5>1. PICK start \in Nat : start = Len(F[i - 1])
          BY <4>7
        <5>2. start + Len(seqs[i]) <= Len(F[i]) /\ \A k \in 1..Len(seqs[i]) : F[i][start + k] = seqs[i][k]
          BY <4>7, <5>1
        <5> QED  BY <5>2
      <4>9. ASSUME NEW n \in 1..(i - 1) PROVE In(n, i)
        <5>1. PICK start \in Nat : /\ start + Len(seqs[n]) <= Len(F[i - 1])
                                   /\ \A k \in 1..Len(seqs[n]) : F[i - 1][start + k] = seqs[n][k]
          BY <4>3
        <5>2. Len(seqs[n]) \in Nat
          BY <4>0
        <5>3. \A k \in 1..Len(seqs[n]) : start + k \in 1..Len(F[i - 1])
          BY <5>1, <5>2, <4>7
        <5> HIDE DEF Good
        <5>4. start + Len(seqs[n]) <= Len(F[i])
          BY <5>1, <5>2, <4>7
        <5>5. \A k \in 1..Len(seqs[n]) : F[i][start + k] = seqs[n][k]
          BY <5>1, <5>3, <4>7
        <5> QED  BY <5>4, <5>5
      <4> HIDE DEF In
      <4> QED  BY <4>3, <4>4, <4>5, <4>6, <4>8, <4>9
    <3> QED  BY <3>1, <3>2
  <2>5. N \in Good
    <3> HIDE DEF Good
    <3>1. \A i \in 1..N : (\A j \in 1..(i - 1) : j \in Good) => i \in Good
      BY <2>4
    <3>2. \A i \in 1..N : i \in Good
      BY <3>1, EntryByEntry
    <3>3. N \in 1..N
      BY <1>2
    <3> QED  BY <3>2, <3>3
  <2> QED  BY <2>1, <2>5
<1> QED  BY <1>1, <1>2

\* A list, its places and what stands in them.
LEMMA ListItems ==
    ASSUME NEW s, IsList(s)
    PROVE  /\ s \in Seq(ToSet(s)) /\ Len(s) \in Nat /\ DOMAIN s = 1..Len(s)
           /\ \A i \in DOMAIN s : s[i] \in ToSet(s)
BY DEF IsList, ToSet

\* A list of lists, one after the other.
LEMMA FlatList ==
    ASSUME NEW lists, IsList(lists), \A i \in DOMAIN lists : IsList(lists[i])
    PROVE  /\ IsList(FlattenSeq(lists))
           /\ ToSet(FlattenSeq(lists)) = UNION {ToSet(lists[i]) : i \in DOMAIN lists}
           /\ \A n \in DOMAIN lists : \E start \in Nat :
                /\ start + Len(lists[n]) <= Len(FlattenSeq(lists))
                /\ \A k \in 1..Len(lists[n]) : FlattenSeq(lists)[start + k] = lists[n][k]
<1> DEFINE all == UNION {ToSet(lists[i]) : i \in DOMAIN lists}
<1>1. \A i \in DOMAIN lists : lists[i] \in Seq(all)
  <2> SUFFICES ASSUME NEW i \in DOMAIN lists PROVE lists[i] \in Seq(all)
    OBVIOUS
  <2>1. ToSet(lists[i]) \subseteq all /\ lists[i] \in Seq(ToSet(lists[i]))
    BY DEF IsList
  <2> HIDE DEF all
  <2> QED  BY <2>1
<1>2. lists \in Seq(Seq(all))
  <2> HIDE DEF all
  <2>1. Len(lists) \in Nat /\ DOMAIN lists = 1..Len(lists) /\ lists \in Seq(ToSet(lists))
    BY ListItems
  <2>2. lists \in [1..Len(lists) -> Seq(all)]
    BY <2>1, <1>1
  <2> QED  BY <2>1, <2>2
<1>3. FlattenSeq(lists) \in Seq(all) /\ ToSet(FlattenSeq(lists)) = all
  <2> HIDE DEF all
  <2>1. /\ FlattenSeq(lists) \in Seq(all)
        /\ ToSet(FlattenSeq(lists)) = UNION {ToSet(lists[i]) : i \in DOMAIN lists}
    BY <1>2, Flattened
  <2> QED  BY <2>1 DEF all
<1>4. \A n \in DOMAIN lists : \E start \in Nat :
                /\ start + Len(lists[n]) <= Len(FlattenSeq(lists))
                /\ \A k \in 1..Len(lists[n]) : FlattenSeq(lists)[start + k] = lists[n][k]
  <2> HIDE DEF all
  <2> QED  BY <1>2, Flattened
<1> QED  BY <1>3, <1>4 DEF IsList

\* A function on 1..n is a list.
LEMMA ListMade ==
    ASSUME NEW s, NEW n \in Nat, s = [i \in 1..n |-> s[i]]
    PROVE  IsList(s) /\ Len(s) = n
<1>1. s \in [1..n -> ToSet(s)]
  BY DEF ToSet
<1> QED  BY <1>1 DEF IsList

\* A greatest element is the maximum.
LEMMA MaxIs ==
    ASSUME NEW T, T \subseteq Nat, NEW m \in T, \A x \in T : x <= m
    PROVE  Max(T) = m
<1>1. \A x \in T : x >= m => x = m
  OBVIOUS
<1>2. m \in T /\ \A x \in T : m >= x
  OBVIOUS
<1>3. Max(T) \in T /\ \A x \in T : Max(T) >= x
  <2>1. \E y \in T : \A x \in T : y >= x
    BY <1>2
  <2> QED  BY <2>1, Zenon DEF Max
<1> QED  BY <1>1, <1>3
=============================================================================
