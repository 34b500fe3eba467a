----------------------------- MODULE WireProofs -----------------------------
(***************************************************************************)
(* Theorems about the wire form, for texts of any length, any number of    *)
(* members and trees of any shape within the limits of the instance.       *)
(* First the canonical order: compareUtf8() is a total order, what is      *)
(* sorted by it is accepted by assertSortedUnique(), members have one      *)
(* spelling whatever order they come in.  Then the codec, by induction     *)
(* over the nesting of trees: what buildValue() accepts is what            *)
(* encodeValue() writes for the value that was read, so a message on the   *)
(* way to the harness or back, or stored in an artifact, has one spelling. *)
(* Last the answers, by induction over the objects of the harness: what    *)
(* its encoder writes is within the budget of the host's decoder, unless   *)
(* it holds an enum, an exception or a complex number.                     *)
(***************************************************************************)
EXTENDS Wire, FiniteSetTheorems, FunctionTheorems, WellFoundedInduction, SequenceTheorems,
        TLAPS

Texts == Seq(Nat)

\* A set of numbers that is not empty has a least one.
LEMMA Least == \A S \in SUBSET Nat : S # {} => \E m \in S : \A n \in S : m <= n
<1> SUFFICES ASSUME NEW S \in SUBSET Nat, S # {} PROVE \E m \in S : \A n \in S : m <= n
  OBVIOUS
<1>1. PICK m \in S : \A n \in S : <<n, m>> \notin OpToRel(<, Nat)
  <2> DEFINE R == OpToRel(<, Nat)
  <2>1. IsWellFoundedOn(R, Nat)
    BY NatLessThanWellFounded
  <2> HIDE DEF R
  <2>2. \E x \in S : \A n \in S : <<n, x>> \notin R
    BY <2>1, WFMin
  <2> QED
    BY <2>2 DEF R
<1>2. \A n \in S : ~(n < m)
  <2> TAKE n \in S
  <2>1. <<n, m>> \in Nat \X Nat
    OBVIOUS
  <2> QED
    BY <1>1, <2>1 DEF OpToRel
<1> QED
  BY <1>2

-----------------------------------------------------------------------------
(* The order of two texts.                                                 *)

\* A text is its bytes.
LEMMA SameText ==
    ASSUME NEW s \in Texts, NEW t \in Texts, Len(s) = Len(t),
           \A i \in 1 .. Len(s) : s[i] = t[i]
    PROVE  s = t
<1>1. /\ s = [i \in 1 .. Len(s) |-> s[i]]
      /\ t = [i \in 1 .. Len(s) |-> t[i]]
  BY DEF Texts
<1>2. [i \in 1 .. Len(s) |-> s[i]] = [i \in 1 .. Len(s) |-> t[i]]
  OBVIOUS
<1> QED
  BY <1>1, <1>2, Zenon

\* The two agree before k, and there s ends or has the smaller byte.
DifferAt(s, t, k) ==
    /\ k \in 1 .. Len(t) /\ k - 1 <= Len(s)
    /\ \A i \in 1 .. (k - 1) : s[i] = t[i]
    /\ k = Len(s) + 1 \/ (k <= Len(s) /\ s[k] < t[k])

\* What compareUtf8() looks at: the first byte that differs, if there is one.
LEMMA CompareCases ==
    ASSUME NEW s \in Texts, NEW t \in Texts
    PROVE  \/ /\ compareUtf8(s, t) = Len(s) - Len(t)
              /\ \A i \in 1 .. Len(s) : i <= Len(t) => s[i] = t[i]
           \/ \E k \in 1 .. Len(s) :
                 /\ k <= Len(t) /\ s[k] # t[k]
                 /\ \A i \in 1 .. (k - 1) : s[i] = t[i]
                 /\ compareUtf8(s, t) = s[k] - t[k]
<1> DEFINE shared == {i \in DOMAIN s \cap DOMAIN t : s[i] # t[i]}
           first == CHOOSE i \in shared : \A j \in shared : i <= j
<1>1. DOMAIN s = 1 .. Len(s) /\ DOMAIN t = 1 .. Len(t) /\ Len(s) \in Nat /\ Len(t) \in Nat
  BY DEF Texts
<1>2. compareUtf8(s, t) = IF shared = {} THEN Len(s) - Len(t) ELSE s[first] - t[first]
  BY DEF compareUtf8
<1>3. CASE shared = {}
  BY <1>1, <1>2, <1>3
<1>4. CASE shared # {}
  <2>1. shared \in SUBSET Nat
    BY <1>1
  <2>2. first \in shared /\ \A j \in shared : first <= j
    BY <1>4, <2>1, Least
  <2> HIDE DEF first
  <2>3. \A i \in 1 .. (first - 1) : s[i] = t[i]
    BY <1>1, <2>2
  <2> QED
    BY <1>1, <1>2, <1>4, <2>2, <2>3
<1> QED
  BY <1>3, <1>4

\* The first place in which two texts differ decides.
LEMMA BeforeParts ==
    ASSUME NEW s \in Texts, NEW t \in Texts
    PROVE  /\ Before(s, t) => \E k \in Nat : DifferAt(s, t, k)
           /\ (\E k \in Nat : DifferAt(s, t, k)) => Before(s, t)
<1>1. /\ Len(s) \in Nat /\ Len(t) \in Nat
      /\ \A i \in 1 .. Len(s) : s[i] \in Nat
      /\ \A i \in 1 .. Len(t) : t[i] \in Nat
  BY DEF Texts
<1>2. CASE /\ compareUtf8(s, t) = Len(s) - Len(t)
           /\ \A i \in 1 .. Len(s) : i <= Len(t) => s[i] = t[i]
  <2>1. ASSUME Before(s, t) PROVE DifferAt(s, t, Len(s) + 1)
    BY <1>1, <1>2, <2>1 DEF Before, DifferAt
  <2>2. ASSUME NEW k \in Nat, DifferAt(s, t, k) PROVE Before(s, t)
    BY <1>1, <1>2, <2>2 DEF Before, DifferAt
  <2> QED
    BY <1>1, <2>1, <2>2
<1>3. ASSUME NEW k \in 1 .. Len(s), k <= Len(t), s[k] # t[k],
             \A i \in 1 .. (k - 1) : s[i] = t[i], compareUtf8(s, t) = s[k] - t[k]
      PROVE  /\ Before(s, t) => DifferAt(s, t, k)
             /\ \A m \in Nat : DifferAt(s, t, m) => Before(s, t)
  <2>1. s[k] \in Nat /\ t[k] \in Nat
    BY <1>1, <1>3
  <2>2. Before(s, t) => DifferAt(s, t, k)
    BY <1>1, <1>3, <2>1 DEF Before, DifferAt
  <2>3. ASSUME NEW m \in Nat, DifferAt(s, t, m) PROVE Before(s, t)
    <3>1. m = k
      BY <1>1, <1>3, <2>3 DEF DifferAt
    <3> QED
      BY <1>1, <1>3, <2>1, <2>3, <3>1 DEF DifferAt, Before
  <2> QED
    BY <2>2, <2>3
<1> QED
  BY <1>2, <1>3, CompareCases

\* No text comes before itself.
LEMMA Irreflexive == ASSUME NEW s \in Texts PROVE ~Before(s, s)
<1>1. Len(s) \in Nat /\ \A i \in 1 .. Len(s) : s[i] \in Nat
  BY DEF Texts
<1>2. ~\E k \in Nat : DifferAt(s, s, k)
  BY <1>1 DEF DifferAt
<1> QED
  BY <1>2, BeforeParts

\* The order is transitive.
LEMMA Transitive ==
    ASSUME NEW s \in Texts, NEW t \in Texts, NEW u \in Texts, Before(s, t), Before(t, u)
    PROVE  Before(s, u)
<1>1. /\ Len(s) \in Nat /\ Len(t) \in Nat /\ Len(u) \in Nat
      /\ \A i \in 1 .. Len(s) : s[i] \in Nat
      /\ \A i \in 1 .. Len(t) : t[i] \in Nat
      /\ \A i \in 1 .. Len(u) : u[i] \in Nat
  BY DEF Texts
<1>2. PICK k \in Nat : DifferAt(s, t, k)
  BY BeforeParts
<1>3. PICK m \in Nat : DifferAt(t, u, m)
  BY BeforeParts
<1>4. CASE k < m
  <2>1. DifferAt(s, u, k)
    BY <1>1, <1>2, <1>3, <1>4 DEF DifferAt
  <2> QED
    BY <2>1, BeforeParts
<1>5. CASE m < k
  <2>1. DifferAt(s, u, m)
    BY <1>1, <1>2, <1>3, <1>5 DEF DifferAt
  <2> QED
    BY <2>1, BeforeParts
<1>6. CASE k = m
  <2>1. DifferAt(s, u, k)
    BY <1>1, <1>2, <1>3, <1>6 DEF DifferAt
  <2> QED
    BY <2>1, BeforeParts
<1> QED
  BY <1>4, <1>5, <1>6

\* Of two texts that differ one comes before the other.
LEMMA Total ==
    ASSUME NEW s \in Texts, NEW t \in Texts
    PROVE  s = t \/ Before(s, t) \/ Before(t, s)
<1>1. /\ Len(s) \in Nat /\ Len(t) \in Nat
      /\ \A i \in 1 .. Len(s) : s[i] \in Nat
      /\ \A i \in 1 .. Len(t) : t[i] \in Nat
  BY DEF Texts
<1>2. CASE \A i \in 1 .. Len(s) : i <= Len(t) => s[i] = t[i]
  <2>1. CASE Len(s) = Len(t)
    BY <1>1, <1>2, <2>1, SameText
  <2>2. CASE Len(s) < Len(t)
    <3>1. DifferAt(s, t, Len(s) + 1)
      BY <1>1, <1>2, <2>2 DEF DifferAt
    <3> QED
      BY <1>1, <3>1, BeforeParts
  <2>3. CASE Len(t) < Len(s)
    <3>1. DifferAt(t, s, Len(t) + 1)
      BY <1>1, <1>2, <2>3 DEF DifferAt
    <3> QED
      BY <1>1, <3>1, BeforeParts
  <2> QED
    BY <1>1, <2>1, <2>2, <2>3
<1>3. ASSUME NEW k \in 1 .. Len(s), k <= Len(t), s[k] # t[k],
             \A i \in 1 .. (k - 1) : s[i] = t[i]
      PROVE  Before(s, t) \/ Before(t, s)
  <2>1. DifferAt(s, t, k) \/ DifferAt(t, s, k)
    BY <1>1, <1>3 DEF DifferAt
  <2> QED
    BY <1>1, <2>1, BeforeParts
<1> QED
  BY <1>2, <1>3, CompareCases
\* compareUtf8() "yields a correct total order over UTF-8 byte sequences"
\* (utf8.ts:87): 0 says that two texts are the same, the sign which comes
\* first, and there are no circles.
THEOREM CompareIsATotalOrder ==
    \A s, t, u \in Texts :
        /\ compareUtf8(s, t) = 0 <=> s = t
        /\ compareUtf8(s, t) < 0 <=> compareUtf8(t, s) > 0
        /\ compareUtf8(s, t) < 0 /\ compareUtf8(t, u) < 0 => compareUtf8(s, u) < 0
<1>1. ASSUME NEW s \in Texts, NEW t \in Texts
      PROVE  compareUtf8(s, t) \in Int /\ (compareUtf8(s, t) = 0 => s = t)
  <2>1. /\ Len(s) \in Nat /\ Len(t) \in Nat
        /\ \A i \in 1 .. Len(s) : s[i] \in Nat
        /\ \A i \in 1 .. Len(t) : t[i] \in Nat
    BY DEF Texts
  <2>2. CASE /\ compareUtf8(s, t) = Len(s) - Len(t)
             /\ \A i \in 1 .. Len(s) : i <= Len(t) => s[i] = t[i]
    <3>1. CASE Len(s) = Len(t)
      BY <2>1, <2>2, <3>1, SameText
    <3>2. CASE Len(s) # Len(t)
      BY <2>1, <2>2, <3>2
    <3> QED
      BY <3>1, <3>2
  <2>3. ASSUME NEW k \in 1 .. Len(s), k <= Len(t), s[k] # t[k], compareUtf8(s, t) = s[k] - t[k]
        PROVE  compareUtf8(s, t) \in Int /\ compareUtf8(s, t) # 0
    <3>1. s[k] \in Nat /\ t[k] \in Nat
      BY <2>1, <2>3
    <3> QED
      BY <2>3, <3>1
  <2> QED
    BY <2>2, <2>3, CompareCases
<1>2. ASSUME NEW s \in Texts PROVE compareUtf8(s, s) = 0
  <2>1. Len(s) \in Nat
    BY DEF Texts
  <2> QED
    BY <2>1, CompareCases
<1>3. ASSUME NEW s \in Texts, NEW t \in Texts, compareUtf8(s, t) < 0
      PROVE  compareUtf8(t, s) > 0
  <2>1. compareUtf8(t, s) # 0
    BY <1>1, <1>2, <1>3
  <2>2. ~Before(t, s)
    BY <1>3, Transitive, Irreflexive DEF Before
  <2> QED
    BY <1>1, <2>1, <2>2 DEF Before
<1>4. ASSUME NEW s \in Texts, NEW t \in Texts, compareUtf8(s, t) > 0
      PROVE  compareUtf8(t, s) < 0
  <2>1. s # t /\ ~Before(s, t)
    BY <1>1, <1>2, <1>4 DEF Before
  <2> QED
    BY <2>1, Total DEF Before
<1> QED
  BY <1>1, <1>2, <1>3, <1>4, Transitive DEF Before

-----------------------------------------------------------------------------
(* Sorted texts.                                                           *)

\* A sequence of texts, as its members.
LEMMA TextsAreTexts ==
    ASSUME NEW a \in Seq(Texts)
    PROVE  Len(a) \in Nat /\ DOMAIN a = 1 .. Len(a) /\ \A i \in 1 .. Len(a) : a[i] \in Texts
  OBVIOUS

\* Neighbours in order put all in order.
LEMMA SortedThroughout ==
    ASSUME NEW a \in Seq(Texts), assertSortedUnique(a)
    PROVE  \A j \in 1 .. Len(a) : \A i \in 1 .. (j - 1) : Before(a[i], a[j])
<1> DEFINE wrong == {j \in 1 .. Len(a) : \E i \in 1 .. (j - 1) : ~Before(a[i], a[j])}
<1> SUFFICES ASSUME wrong # {} PROVE FALSE
  OBVIOUS
<1>0. Len(a) \in Nat /\ \A i \in 1 .. Len(a) : a[i] \in Texts
  BY TextsAreTexts
<1>1. wrong \in SUBSET Nat
  BY <1>0
<1>2. PICK j \in wrong : \A k \in wrong : j <= k
  BY <1>1, Least
<1>3. PICK i \in 1 .. (j - 1) : ~Before(a[i], a[j])
  OBVIOUS
<1>4. j \in 2 .. Len(a) /\ j - 1 \in 1 .. Len(a) /\ i \in 1 .. Len(a) /\ j \in 1 .. Len(a)
  BY <1>0, <1>3
<1>5. Before(a[j - 1], a[j])
  BY <1>4 DEF assertSortedUnique
<1>6. i # j - 1
  BY <1>3, <1>5
<1>7. Before(a[i], a[j - 1])
  BY <1>0, <1>2, <1>4, <1>6
<1>8. Before(a[i], a[j])
  BY <1>0, <1>4, <1>5, <1>7, Transitive
<1> QED
  BY <1>3, <1>8

\* Two sequences have the same members.
SameMembers(a, b) ==
    /\ \A i \in DOMAIN a : \E j \in DOMAIN b : a[i] = b[j]
    /\ \A j \in DOMAIN b : \E i \in DOMAIN a : b[j] = a[i]

\* What assertSortedUnique() accepts is determined by its members: a set or a
\* dict's keys have one spelling, so that equal answers are equal bytes.
THEOREM MembersHaveOneSpelling ==
    \A a, b \in Seq(Texts) :
        assertSortedUnique(a) /\ assertSortedUnique(b) /\ SameMembers(a, b) => a = b
<1> SUFFICES ASSUME NEW a \in Seq(Texts), NEW b \in Seq(Texts),
                    assertSortedUnique(a), assertSortedUnique(b), SameMembers(a, b)
             PROVE  a = b
  OBVIOUS
<1>0. /\ Len(a) \in Nat /\ DOMAIN a = 1 .. Len(a) /\ \A i \in 1 .. Len(a) : a[i] \in Texts
      /\ Len(b) \in Nat /\ DOMAIN b = 1 .. Len(b) /\ \A i \in 1 .. Len(b) : b[i] \in Texts
  BY TextsAreTexts
<1> DEFINE wrong == {i \in Nat : \/ i \in 1 .. Len(a) /\ (i \in 1 .. Len(b) => a[i] # b[i])
                                 \/ i \in 1 .. Len(b) /\ (i \in 1 .. Len(a) => a[i] # b[i])}
<1>1. /\ \A j \in 1 .. Len(a) : \A i \in 1 .. (j - 1) : Before(a[i], a[j])
      /\ \A j \in 1 .. Len(b) : \A i \in 1 .. (j - 1) : Before(b[i], b[j])
  BY SortedThroughout
<1>11. \A i, j \in 1 .. Len(a) : a[i] = a[j] => i = j
  BY <1>0, <1>1, Irreflexive
<1>12. \A i, j \in 1 .. Len(b) : b[i] = b[j] => i = j
  BY <1>0, <1>1, Irreflexive
<1>2. ASSUME wrong # {} PROVE FALSE
  <2>1. PICK i \in wrong : \A k \in wrong : i <= k
    <3>1. wrong \in SUBSET Nat
      OBVIOUS
    <3> QED
      BY <1>2, <3>1, Least
  <2>2. \A k \in 1 .. (i - 1) : k \in 1 .. Len(a) /\ k \in 1 .. Len(b) /\ a[k] = b[k]
    BY <1>0, <2>1
  <2>3. CASE i \in 1 .. Len(a)
    <3>1. PICK j \in 1 .. Len(b) : a[i] = b[j]
      BY <1>0, <2>3 DEF SameMembers
    <3>2. ~(j < i)
      BY <1>0, <1>11, <2>2, <2>3, <3>1
    <3>3. j # i
      BY <2>1, <2>3, <3>1
    <3>4. i < j /\ i \in 1 .. Len(b)
      BY <1>0, <2>3, <3>1, <3>2, <3>3
    <3>5. PICK k \in 1 .. Len(a) : b[i] = a[k]
      BY <1>0, <3>4 DEF SameMembers
    <3>6. ~(k < i)
      BY <1>0, <1>12, <2>2, <3>4, <3>5
    <3>7. k # i
      BY <2>1, <2>3, <3>4, <3>5
    <3>8. Before(a[i], a[k])
      BY <1>0, <1>1, <2>3, <3>5, <3>6, <3>7
    <3>9. Before(b[i], b[j])
      BY <1>0, <1>1, <3>1, <3>4
    <3> QED
      BY <1>0, <3>1, <3>4, <3>5, <3>8, <3>9, Transitive, Irreflexive
  <2>4. CASE i \notin 1 .. Len(a)
    <3>1. i \in 1 .. Len(b)
      BY <2>1, <2>4
    <3>2. PICK k \in 1 .. Len(a) : b[i] = a[k]
      BY <1>0, <3>1 DEF SameMembers
    <3>3. k < i
      BY <1>0, <2>4, <3>1, <3>2
    <3> QED
      BY <1>0, <1>12, <2>2, <3>1, <3>2, <3>3
  <2> QED
    BY <2>3, <2>4
<1>3. \A i \in 1 .. Len(a) : i \in 1 .. Len(b) /\ a[i] = b[i]
  BY <1>0, <1>2
<1>4. \A i \in 1 .. Len(b) : i \in 1 .. Len(a)
  BY <1>0, <1>2
<1>5. Len(a) <= Len(b)
  <2>1. Len(a) # 0 => Len(a) \in 1 .. Len(b)
    BY <1>0, <1>3
  <2> QED
    BY <1>0, <2>1
<1>6. Len(b) <= Len(a)
  <2>1. Len(b) # 0 => Len(b) \in 1 .. Len(a)
    BY <1>0, <1>4
  <2> QED
    BY <1>0, <2>1
<1> QED
  BY <1>0, <1>3, <1>5, <1>6
-----------------------------------------------------------------------------
(* Sorting.                                                                *)

\* The number of texts that come before one of them, among texts that do not
\* repeat: finite, below their number, and in the order of the texts.
LEMMA SmallerCounts ==
    ASSUME NEW a \in Seq(Texts), NEW i \in 1 .. Len(a)
    PROVE  /\ IsFiniteSet(Smaller(a, i)) /\ Cardinality(Smaller(a, i)) \in 0 .. (Len(a) - 1)
           /\ \A j \in 1 .. Len(a) :
                 Before(a[j], a[i]) => Cardinality(Smaller(a, j)) < Cardinality(Smaller(a, i))
<1>0. Len(a) \in Nat /\ DOMAIN a = 1 .. Len(a) /\ \A j \in 1 .. Len(a) : a[j] \in Texts
  BY TextsAreTexts
<1>1. IsFiniteSet(1 .. Len(a)) /\ Cardinality(1 .. Len(a)) = Len(a)
  <2>1. /\ IsFiniteSet(1 .. Len(a))
        /\ Cardinality(1 .. Len(a)) = IF 1 > Len(a) THEN 0 ELSE Len(a) - 1 + 1
    <3>1. 1 \in Int /\ Len(a) \in Int
      BY <1>0
    <3> QED
      BY <3>1, FS_Interval, Zenon
  <2> QED
    BY <1>0, <2>1
<1>2. ASSUME NEW j \in 1 .. Len(a)
      PROVE  /\ Smaller(a, j) \in SUBSET (1 .. Len(a)) /\ j \notin Smaller(a, j)
             /\ IsFiniteSet(Smaller(a, j)) /\ Cardinality(Smaller(a, j)) \in Nat
  <2>1. Smaller(a, j) \in SUBSET (1 .. Len(a)) /\ j \notin Smaller(a, j)
    BY <1>0, Irreflexive DEF Smaller
  <2> QED
    BY <1>1, <2>1, FS_Subset, FS_CardinalityType
<1>3. Cardinality(Smaller(a, i)) \in 0 .. (Len(a) - 1)
  <2>1. /\ Cardinality(Smaller(a, i)) <= Len(a)
        /\ Len(a) = Cardinality(Smaller(a, i)) => 1 .. Len(a) = Smaller(a, i)
    BY <1>1, <1>2, FS_Subset
  <2> QED
    BY <1>0, <1>2, <2>1
<1>4. ASSUME NEW j \in 1 .. Len(a), Before(a[j], a[i])
      PROVE  Cardinality(Smaller(a, j)) < Cardinality(Smaller(a, i))
  <2>1. j \in Smaller(a, i)
    BY <1>0, <1>4 DEF Smaller
  <2>2. \A k \in Smaller(a, j) : k \in Smaller(a, i)
    BY <1>0, <1>4, Transitive DEF Smaller
  <2>3. Smaller(a, j) \in SUBSET Smaller(a, i)
    BY <2>2
  <2>4. /\ Cardinality(Smaller(a, j)) <= Cardinality(Smaller(a, i))
        /\ Cardinality(Smaller(a, i)) = Cardinality(Smaller(a, j)) => Smaller(a, i) = Smaller(a, j)
    BY <1>2, <2>3, FS_Subset
  <2>5. Smaller(a, i) # Smaller(a, j)
    BY <1>2, <2>1
  <2>6. Cardinality(Smaller(a, i)) \in Nat /\ Cardinality(Smaller(a, j)) \in Nat
    BY <1>2
  <2> QED
    BY <2>4, <2>5, <2>6
<1> QED
  BY <1>2, <1>3, <1>4

\* Every place is taken by exactly one text.
PlaceOf(a, i) == Cardinality(Smaller(a, i)) + 1

\* The places of texts that do not repeat are all places, each once.
LEMMA PlacesAreTaken ==
    ASSUME NEW a \in Seq(Texts), ~Repeats(a)
    PROVE  /\ \A i \in 1 .. Len(a) : PlaceOf(a, i) \in 1 .. Len(a)
           /\ \A k \in 1 .. Len(a) : \E i \in 1 .. Len(a) : PlaceOf(a, i) = k
           /\ \A i, j \in 1 .. Len(a) : i # j =>
                 \/ Before(a[i], a[j]) /\ PlaceOf(a, i) < PlaceOf(a, j)
                 \/ Before(a[j], a[i]) /\ PlaceOf(a, j) < PlaceOf(a, i)
<1>0. Len(a) \in Nat /\ DOMAIN a = 1 .. Len(a) /\ \A j \in 1 .. Len(a) : a[j] \in Texts
  BY TextsAreTexts
<1>1. IsFiniteSet(1 .. Len(a))
  BY <1>0, FS_Interval
<1>2. \A i \in 1 .. Len(a) : PlaceOf(a, i) \in 1 .. Len(a)
  <2> TAKE i \in 1 .. Len(a)
  <2>1. Cardinality(Smaller(a, i)) \in 0 .. (Len(a) - 1)
    BY SmallerCounts
  <2> QED
    BY <1>0, <2>1 DEF PlaceOf
<1>3. ASSUME NEW i \in 1 .. Len(a), NEW j \in 1 .. Len(a), Before(a[i], a[j])
      PROVE  PlaceOf(a, i) < PlaceOf(a, j)
  <2>1. Cardinality(Smaller(a, i)) < Cardinality(Smaller(a, j))
    BY <1>3, SmallerCounts
  <2>2. Cardinality(Smaller(a, i)) \in 0 .. (Len(a) - 1) /\ Cardinality(Smaller(a, j)) \in 0 .. (Len(a) - 1)
    BY SmallerCounts
  <2> QED
    BY <1>0, <2>1, <2>2 DEF PlaceOf
<1>4. ASSUME NEW i \in 1 .. Len(a), NEW j \in 1 .. Len(a), i # j
      PROVE  Before(a[i], a[j]) \/ Before(a[j], a[i])
  BY <1>0, <1>4, Total DEF Repeats
<1>5. \A i, j \in 1 .. Len(a) : i # j =>
         \/ Before(a[i], a[j]) /\ PlaceOf(a, i) < PlaceOf(a, j)
         \/ Before(a[j], a[i]) /\ PlaceOf(a, j) < PlaceOf(a, i)
  BY <1>3, <1>4
<1>6. \A k \in 1 .. Len(a) : \E i \in 1 .. Len(a) : PlaceOf(a, i) = k
  <2> DEFINE place == [i \in 1 .. Len(a) |-> PlaceOf(a, i)]
  <2>1. place \in [1 .. Len(a) -> 1 .. Len(a)]
    BY <1>2
  <2>2. \A i, j \in 1 .. Len(a) : place[i] = place[j] => i = j
    BY <1>2, <1>5
  <2> HIDE DEF place
  <2>3. place \in Injection(1 .. Len(a), 1 .. Len(a))
    BY <2>1, <2>2, Fun_IsInj
  <2>4. place \in Surjection(1 .. Len(a), 1 .. Len(a))
    BY <1>1, <2>3, FS_Injection
  <2>5. \A k \in 1 .. Len(a) : \E i \in 1 .. Len(a) : place[i] = k
    BY <2>4, Fun_SurjectionProperties
  <2> QED
    BY <2>5 DEF place
<1> QED
  BY <1>2, <1>5, <1>6

\* Where the k-th of the sorted items was before.
Source(a, k) == CHOOSE i \in 1 .. Len(a) : Cardinality(Smaller(a, i)) = k - 1

\* At every place there is one text.
LEMMA SourceIsUnique ==
    ASSUME NEW a \in Seq(Texts), ~Repeats(a)
    PROVE  /\ \A k \in 1 .. Len(a) : Source(a, k) \in 1 .. Len(a) /\ PlaceOf(a, Source(a, k)) = k
           /\ \A i \in 1 .. Len(a) : Source(a, PlaceOf(a, i)) = i
<1>0. Len(a) \in Nat /\ \A i \in 1 .. Len(a) : Cardinality(Smaller(a, i)) \in 0 .. (Len(a) - 1)
  BY TextsAreTexts, SmallerCounts
<1>1. ASSUME NEW k \in 1 .. Len(a)
      PROVE  Source(a, k) \in 1 .. Len(a) /\ PlaceOf(a, Source(a, k)) = k
  <2>1. PICK i \in 1 .. Len(a) : PlaceOf(a, i) = k
    BY PlacesAreTaken
  <2>2. Cardinality(Smaller(a, i)) = k - 1
    BY <1>0, <2>1 DEF PlaceOf
  <2>3. Source(a, k) \in 1 .. Len(a) /\ Cardinality(Smaller(a, Source(a, k))) = k - 1
    BY <2>2 DEF Source
  <2> QED
    BY <1>0, <2>3 DEF PlaceOf
<1>2. ASSUME NEW i \in 1 .. Len(a) PROVE Source(a, PlaceOf(a, i)) = i
  <2> DEFINE j == Source(a, PlaceOf(a, i))
  <2>1. PlaceOf(a, i) \in 1 .. Len(a)
    BY PlacesAreTaken
  <2>2. j \in 1 .. Len(a) /\ PlaceOf(a, j) = PlaceOf(a, i)
    BY <1>1, <2>1
  <2> HIDE DEF j
  <2>3. PlaceOf(a, j) \in 1 .. Len(a)
    BY <2>1, <2>2
  <2>4. \A k, m \in 1 .. Len(a) : k # m =>
           PlaceOf(a, k) < PlaceOf(a, m) \/ PlaceOf(a, m) < PlaceOf(a, k)
    BY PlacesAreTaken
  <2>5. j = i
    BY <1>0, <2>1, <2>2, <2>4
  <2> QED
    BY <2>5 DEF j
<1> QED
  BY <1>1, <1>2

\* Sorting moves each item with its text to the place of the text.
LEMMA SortedBySource ==
    ASSUME NEW a \in Seq(Texts), NEW items, DOMAIN items = 1 .. Len(a)
    PROVE  SortedBy(items, a) = [k \in 1 .. Len(a) |-> items[Source(a, k)]]
  BY DEF SortedBy, Source

\* What the encoders sort, the decoders accept: the texts of the sorted items
\* are in order and unique, and every item is there once.
THEOREM SortedIsAccepted ==
    ASSUME NEW a \in Seq(Texts), ~Repeats(a), NEW items, DOMAIN items = 1 .. Len(a)
    PROVE  \E p \in Bijection(1 .. Len(a), 1 .. Len(a)) :
              /\ SortedBy(items, a) = [k \in 1 .. Len(a) |-> items[p[k]]]
              /\ assertSortedUnique([k \in 1 .. Len(a) |-> a[p[k]]])
<1> DEFINE p == [k \in 1 .. Len(a) |-> Source(a, k)]
           n == Len(a)
<1>0. n \in Nat /\ DOMAIN a = 1 .. n /\ \A j \in 1 .. n : a[j] \in Texts
  BY TextsAreTexts
<1>1. p \in Bijection(1 .. n, 1 .. n)
  <2>1. \A k \in 1 .. n : Source(a, k) \in 1 .. n /\ PlaceOf(a, Source(a, k)) = k
    BY SourceIsUnique
  <2>2. \A i \in 1 .. n : PlaceOf(a, i) \in 1 .. n /\ Source(a, PlaceOf(a, i)) = i
    BY SourceIsUnique, PlacesAreTaken
  <2>3. p \in [1 .. n -> 1 .. n]
    BY <2>1
  <2>4. \A j, k \in 1 .. n : p[j] = p[k] => j = k
    BY <2>1
  <2>5. \A i \in 1 .. n : \E k \in 1 .. n : p[k] = i
    BY <2>2
  <2> HIDE DEF p
  <2> QED
    BY <2>3, <2>4, <2>5, Fun_IsBij
<1>2. SortedBy(items, a) = [k \in 1 .. n |-> items[p[k]]]
  BY SortedBySource
<1>3. assertSortedUnique([k \in 1 .. n |-> a[p[k]]])
  <2> DEFINE b == [k \in 1 .. n |-> a[p[k]]]
  <2>1. Len(b) = n
    BY <1>0
  <2>2. ASSUME NEW k \in 2 .. n PROVE Before(b[k - 1], b[k])
    <3>1. k \in 1 .. n /\ k - 1 \in 1 .. n
      BY <1>0
    <3>2. /\ Source(a, k) \in 1 .. n /\ PlaceOf(a, Source(a, k)) = k
          /\ Source(a, k - 1) \in 1 .. n /\ PlaceOf(a, Source(a, k - 1)) = k - 1
      BY <3>1, SourceIsUnique
    <3>3. \A i, j \in 1 .. n : i # j =>
             \/ Before(a[i], a[j]) /\ PlaceOf(a, i) < PlaceOf(a, j)
             \/ Before(a[j], a[i]) /\ PlaceOf(a, j) < PlaceOf(a, i)
      BY PlacesAreTaken
    <3>4. Before(a[Source(a, k - 1)], a[Source(a, k)])
      BY <1>0, <3>1, <3>2, <3>3
    <3> QED
      BY <3>1, <3>4
  <2> HIDE DEF b
  <2>3. assertSortedUnique(b)
    BY <2>1, <2>2 DEF assertSortedUnique
  <2> QED
    BY <2>3 DEF b
<1> QED
  BY <1>1, <1>2, <1>3
\* The sorted texts are texts with the same members, in order.
LEMMA SortedTexts ==
    ASSUME NEW a \in Seq(Texts), ~Repeats(a)
    PROVE  /\ SortedBy(a, a) \in Seq(Texts) /\ assertSortedUnique(SortedBy(a, a))
           /\ SameMembers(SortedBy(a, a), a)
<1>0. Len(a) \in Nat /\ DOMAIN a = 1 .. Len(a) /\ \A j \in 1 .. Len(a) : a[j] \in Texts
  BY TextsAreTexts
<1>1. PICK p \in Bijection(1 .. Len(a), 1 .. Len(a)) :
         /\ SortedBy(a, a) = [k \in 1 .. Len(a) |-> a[p[k]]]
         /\ assertSortedUnique([k \in 1 .. Len(a) |-> a[p[k]]])
  BY <1>0, SortedIsAccepted
<1>2. /\ p \in [1 .. Len(a) -> 1 .. Len(a)]
      /\ \A i \in 1 .. Len(a) : \E k \in 1 .. Len(a) : p[k] = i
  <2> DEFINE places == 1 .. Len(a)
  <2>1. p \in Bijection(places, places)
    BY <1>1
  <2> HIDE DEF places
  <2>2. p \in [places -> places] /\ \A i \in places : \E k \in places : p[k] = i
    BY <2>1, Fun_BijectionProperties
  <2> QED
    BY <2>2 DEF places
<1> DEFINE b == [k \in 1 .. Len(a) |-> a[p[k]]]
<1>3. b \in Seq(Texts) /\ DOMAIN b = 1 .. Len(a)
  <2>1. \A k \in 1 .. Len(a) : a[p[k]] \in Texts
    BY <1>0, <1>2
  <2> HIDE DEF Texts
  <2>2. b \in [1 .. Len(a) -> Texts]
    BY <2>1
  <2> QED
    BY <1>0, <2>2
<1>4. \A k \in 1 .. Len(a) : b[k] = a[p[k]]
  OBVIOUS
<1> HIDE DEF b
<1>5. SameMembers(b, a)
  <2>1. ASSUME NEW k \in DOMAIN b PROVE \E i \in DOMAIN a : b[k] = a[i]
    BY <1>0, <1>2, <1>3, <1>4
  <2>2. ASSUME NEW i \in DOMAIN a PROVE \E k \in DOMAIN b : a[i] = b[k]
    <3>1. PICK k \in 1 .. Len(a) : p[k] = i
      BY <1>0, <1>2
    <3> QED
      BY <1>3, <1>4, <3>1
  <2> QED
    BY <2>1, <2>2 DEF SameMembers
<1> QED
  BY <1>1, <1>3, <1>5 DEF b

\* Members are written the same whatever order they come in, so the order in
\* which Python iterates over a set or a dict cannot be told from the answer.
THEOREM OrderOfIterationIsForgotten ==
    \A a, b \in Seq(Texts) :
        ~Repeats(a) /\ ~Repeats(b) /\ SameMembers(a, b) => SortedBy(a, a) = SortedBy(b, b)
<1> SUFFICES ASSUME NEW a \in Seq(Texts), NEW b \in Seq(Texts),
                    ~Repeats(a), ~Repeats(b), SameMembers(a, b)
             PROVE  SortedBy(a, a) = SortedBy(b, b)
  OBVIOUS
<1>1. /\ SortedBy(a, a) \in Seq(Texts) /\ assertSortedUnique(SortedBy(a, a))
      /\ SameMembers(SortedBy(a, a), a)
  BY SortedTexts
<1>2. /\ SortedBy(b, b) \in Seq(Texts) /\ assertSortedUnique(SortedBy(b, b))
      /\ SameMembers(SortedBy(b, b), b)
  BY SortedTexts
<1>3. SameMembers(SortedBy(a, a), SortedBy(b, b))
  <2> DEFINE c == SortedBy(a, a)
             d == SortedBy(b, b)
  <2>1. SameMembers(c, a) /\ SameMembers(d, b)
    BY <1>1, <1>2
  <2> HIDE DEF c, d
  <2>2. ASSUME NEW i \in DOMAIN c PROVE \E j \in DOMAIN d : c[i] = d[j]
    <3>1. PICK k \in DOMAIN a : c[i] = a[k]
      BY <2>1 DEF SameMembers
    <3>2. PICK m \in DOMAIN b : a[k] = b[m]
      BY DEF SameMembers
    <3>3. PICK j \in DOMAIN d : b[m] = d[j]
      BY <2>1 DEF SameMembers
    <3> QED
      BY <3>1, <3>2, <3>3
  <2>3. ASSUME NEW j \in DOMAIN d PROVE \E i \in DOMAIN c : d[j] = c[i]
    <3>1. PICK m \in DOMAIN b : d[j] = b[m]
      BY <2>1 DEF SameMembers
    <3>2. PICK k \in DOMAIN a : b[m] = a[k]
      BY DEF SameMembers
    <3>3. PICK i \in DOMAIN c : a[k] = c[i]
      BY <2>1 DEF SameMembers
    <3> QED
      BY <3>1, <3>2, <3>3
  <2>4. SameMembers(c, d)
    BY <2>2, <2>3 DEF SameMembers
  <2> QED
    BY <2>4 DEF c, d
<1> QED
  BY <1>1, <1>2, <1>3, MembersHaveOneSpelling

\* What was accepted is written back as it was: encoding after decoding changes
\* neither the order nor the number of a set's members or a dict's entries.
THEOREM AcceptedIsWrittenBack ==
    ASSUME NEW a \in Seq(Texts), assertSortedUnique(a),
           NEW S, NEW items \in [1 .. Len(a) -> S]
    PROVE  ~Repeats(a) /\ SortedBy(items, a) = items
<1> DEFINE n == Len(a)
<1>0. n \in Nat /\ DOMAIN a = 1 .. n /\ \A j \in 1 .. n : a[j] \in Texts
  BY TextsAreTexts
<1>1. \A j \in 1 .. n : \A i \in 1 .. (j - 1) : Before(a[i], a[j])
  BY SortedThroughout
<1>2. \A i, j \in 1 .. n : i < j => Before(a[i], a[j]) /\ ~Before(a[j], a[i])
  <2> TAKE i, j \in 1 .. n
  <2> HAVE i < j
  <2>1. Before(a[i], a[j])
    BY <1>0, <1>1
  <2> QED
    BY <1>0, <2>1, Transitive, Irreflexive
<1>3. ~Repeats(a)
  <2>1. \A i, j \in 1 .. n : i < j => a[i] # a[j]
    BY <1>0, <1>2
  <2> QED
    BY <1>0, <2>1 DEF Repeats
<1>4. ASSUME NEW i \in 1 .. n PROVE Source(a, i) = i
  <2>1. Smaller(a, i) = 1 .. (i - 1)
    <3>1. \A j \in 1 .. n : Before(a[j], a[i]) <=> j < i
      BY <1>0, <1>2, Irreflexive
    <3>2. Smaller(a, i) = {j \in 1 .. n : j < i}
      BY <1>0, <3>1 DEF Smaller
    <3> QED
      BY <1>0, <3>2
  <2>2. Cardinality(Smaller(a, i)) = i - 1
    BY <1>0, <2>1, FS_Interval
  <2>3. PlaceOf(a, i) = i
    BY <1>0, <2>2 DEF PlaceOf
  <2> QED
    BY <1>3, <2>3, SourceIsUnique
<1>5. SortedBy(items, a) = [k \in 1 .. n |-> items[Source(a, k)]]
  BY SortedBySource
<1>6. [k \in 1 .. n |-> items[Source(a, k)]] = [k \in 1 .. n |-> items[k]]
  BY <1>4
<1> QED
  BY <1>3, <1>5, <1>6

-----------------------------------------------------------------------------
(* Induction over the nesting of trees.                                    *)

\* What holds of 0 and of a number's successor up to m holds up to m.
LEMMA UpTo ==
    ASSUME NEW m \in Nat, NEW S, 0 \in S,
           \A n \in 0..m : n \in S /\ n + 1 \in 0..m => n + 1 \in S
    PROVE  0..m \subseteq S
<1> DEFINE Out == {n \in 0..m : n \notin S}
<1> SUFFICES ASSUME Out # {} PROVE FALSE
  OBVIOUS
<1>1. PICK k \in Out : \A n \in Out : k <= n
  <2>1. Out \in SUBSET Nat
    OBVIOUS
  <2> QED
    BY <2>1, Least
<1>2. k # 0 /\ k \in 1..m
  OBVIOUS
<1>3. k - 1 \in 0..m /\ k - 1 \notin Out
  BY <1>1, <1>2
<1> QED
  BY <1>2, <1>3

\* Longer sequences of more items.
LEMMA SeqGrows ==
    ASSUME NEW S, NEW T, S \subseteq T PROVE Seq(S) \subseteq Seq(T)
<1> SUFFICES ASSUME NEW s \in Seq(S) PROVE s \in Seq(T)
  OBVIOUS
<1>1. s \in [1..Len(s) -> T] /\ Len(s) \in Nat
  OBVIOUS
<1> QED
  BY <1>1

\* A tree with n levels below a root.
OfLevel(below) == [tag : STRING, atom : Words, kids : Seq(below)]
NestedBy(n, f) == IF n = 0 THEN {} ELSE OfLevel(f[n - 1])

\* More trees below a root make more trees.
LEMMA LevelGrows ==
    ASSUME NEW S, NEW T, S \subseteq T PROVE OfLevel(S) \subseteq OfLevel(T)
<1>1. Seq(S) \subseteq Seq(T)
  BY SeqGrows
<1> SUFFICES ASSUME NEW w \in OfLevel(S) PROVE w \in OfLevel(T)
  OBVIOUS
<1> QED
  BY <1>1 DEF OfLevel

\* The recursive function Nested exists.
LEMMA NestedIsDefined == Nested = [n \in 0..MaxNesting |-> NestedBy(n, Nested)]
<1> DEFINE IsIt(m, f) == f = [n \in 0..m |-> NestedBy(n, f)]
           S == {m \in 0..MaxNesting : \E f : IsIt(m, f)}
<1>1. 0 \in S
  <2>1. IsIt(0, [n \in 0..0 |-> {}])
    BY DEF NestedBy
  <2>2. 0 \in 0..MaxNesting
    BY CodecLimits
  <2> QED
    BY <2>1, <2>2
<1>2. \A m \in 0..MaxNesting : m \in S /\ m + 1 \in 0..MaxNesting => m + 1 \in S
  <2> SUFFICES ASSUME NEW m \in 0..MaxNesting, m \in S, m + 1 \in 0..MaxNesting
               PROVE  \E f : IsIt(m + 1, f)
    OBVIOUS
  <2> PICK f : IsIt(m, f)
    OBVIOUS
  <2> DEFINE g == [n \in 0..(m + 1) |-> NestedBy(n, f)]
  <2>1. \A n \in 0..m : g[n] = f[n]
    OBVIOUS
  <2>2. \A n \in 0..(m + 1) : NestedBy(n, f) = NestedBy(n, g)
    <3> SUFFICES ASSUME NEW n \in 0..(m + 1), n # 0 PROVE f[n - 1] = g[n - 1]
      BY DEF NestedBy
    <3>1. n - 1 \in 0..m
      OBVIOUS
    <3> QED
      BY <3>1, <2>1
  <2>3. IsIt(m + 1, g)
    BY <2>2
  <2> QED
    BY <2>3
<1>3. MaxNesting \in S
  <2> HIDE DEF S
  <2> QED
    BY <1>1, <1>2, UpTo, CodecLimits
<1>4. \E f : IsIt(MaxNesting, f)
  BY <1>3
<1> QED
  BY <1>4 DEF Nested, NestedBy, OfLevel

\* Its levels, one from the one before.
LEMMA NestedLevels ==
    /\ Nested[0] = {}
    /\ \A n \in 1..MaxNesting : n - 1 \in 0..MaxNesting /\ Nested[n] = OfLevel(Nested[n - 1])
<1> HIDE DEF Nested
<1>1. \A n \in 0..MaxNesting : Nested[n] = NestedBy(n, Nested)
  BY NestedIsDefined
<1> QED
  BY <1>1, CodecLimits DEF NestedBy

\* A tree that nests at most n levels nests at most m, from n up.
LEMMA NestedGrows ==
    \A m \in 0..MaxNesting : \A n \in 0..m : Nested[n] \subseteq Nested[m]
<1> HIDE DEF Nested
<1> DEFINE S == {m \in 0..MaxNesting : \A n \in 0..m : Nested[n] \subseteq Nested[m]}
<1>1. 0 \in S
  BY CodecLimits
<1>2. \A m \in 0..MaxNesting : m \in S /\ m + 1 \in 0..MaxNesting => m + 1 \in S
  <2> SUFFICES ASSUME NEW m \in 0..MaxNesting, m \in S, m + 1 \in 0..MaxNesting,
                      NEW n \in 0..m
               PROVE  Nested[n] \subseteq Nested[m + 1]
    OBVIOUS
  <2>1. Nested[m] \subseteq Nested[m + 1]
    <3>1. CASE m = 0
      BY <3>1, NestedLevels
    <3>2. CASE m # 0
      <4>1. Nested[m - 1] \subseteq Nested[m]
        BY <3>2
      <4>2. OfLevel(Nested[m - 1]) \subseteq OfLevel(Nested[m])
        BY <4>1, LevelGrows
      <4>3. m \in 1..MaxNesting /\ m + 1 \in 1..MaxNesting /\ (m + 1) - 1 = m
        BY <3>2
      <4>4. Nested[m] = OfLevel(Nested[m - 1]) /\ Nested[m + 1] = OfLevel(Nested[m])
        BY <4>3, NestedLevels
      <4> QED
        BY <4>2, <4>4
    <3> QED
      BY <3>1, <3>2
  <2> QED
    BY <2>1
<1>3. 0..MaxNesting \subseteq S
  <2> HIDE DEF S
  <2> QED
    BY <1>1, <1>2, UpTo, CodecLimits
<1> QED
  BY <1>3

\* A tree and its children.
LEMMA TreeShape ==
    ASSUME NEW n \in 1..MaxNesting, NEW w \in Nested[n]
    PROVE  /\ w.tag \in STRING /\ w.atom \in Words
           /\ w.kids \in Seq(Nested[n - 1])
           /\ DOMAIN w.kids = 1..Len(w.kids) /\ Len(w.kids) \in Nat
           /\ \A i \in DOMAIN w.kids : w.kids[i] \in Nested[n - 1]
           /\ w = V(w.tag, w.atom, w.kids)
<1> HIDE DEF Nested
<1>1. w \in OfLevel(Nested[n - 1])
  BY NestedLevels
<1> QED
  BY <1>1 DEF OfLevel, V

\* All of them are trees, and so are their children.
LEMMA NestedAreTrees ==
    /\ \A n \in 0..MaxNesting : Nested[n] \subseteq Trees
    /\ \A w \in Trees : \A i \in DOMAIN w.kids : w.kids[i] \in Trees
    /\ MaxNesting = 0 => Trees = {}
<1> HIDE DEF Nested
<1>1. MaxNesting \in 0..MaxNesting
  BY CodecLimits
<1>2. \A n \in 0..MaxNesting : Nested[n] \subseteq Trees
  BY <1>1, NestedGrows DEF Trees
<1>3. MaxNesting = 0 => Trees = {}
  BY NestedLevels DEF Trees
<1>4. ASSUME NEW w \in Trees, NEW i \in DOMAIN w.kids PROVE w.kids[i] \in Trees
  <2>1. MaxNesting \in 1..MaxNesting /\ MaxNesting - 1 \in 0..MaxNesting
    BY <1>3, CodecLimits
  <2>2. w.kids[i] \in Nested[MaxNesting - 1]
    BY <2>1, TreeShape DEF Trees
  <2> QED
    BY <2>1, <2>2, <1>2
<1> QED
  BY <1>2, <1>3, <1>4

-----------------------------------------------------------------------------
(* The recursive functions of trees are what their definitions say.        *)
LEMMA KidsAgree ==
    ASSUME NEW n \in 0..MaxNesting, n + 1 \in 0..MaxNesting, NEW f, NEW g,
           \A k \in Nested[n] : f[k] = g[k], NEW w \in Nested[n + 1]
    PROVE  OfKids(f, w) = OfKids(g, w)
<1> HIDE DEF Nested
<1>1. n + 1 \in 1..MaxNesting /\ (n + 1) - 1 = n
  OBVIOUS
<1>2. \A i \in DOMAIN w.kids : w.kids[i] \in Nested[n]
  BY <1>1, TreeShape
<1> QED
  BY <1>2 DEF OfKids

\* The text of a tree is made of the texts of its children.
LEMMA TextIsDefined == \A w \in Trees : Text[w] = TextBy(w, OfKids(Text, w))
<1> DEFINE IsIt(n, f) == f = [w \in Nested[n] |-> TextBy(w, OfKids(f, w))]
           S == {n \in 0..MaxNesting : \E f : IsIt(n, f)}
<1> HIDE DEF Nested
<1>1. 0 \in S
  <2>1. IsIt(0, [w \in {} |-> 0])
    BY NestedLevels
  <2>2. 0 \in 0..MaxNesting
    BY CodecLimits
  <2> HIDE DEF IsIt
  <2> QED
    BY <2>1, <2>2
<1>2. \A n \in 0..MaxNesting : n \in S /\ n + 1 \in 0..MaxNesting => n + 1 \in S
  <2> SUFFICES ASSUME NEW n \in 0..MaxNesting, n + 1 \in 0..MaxNesting,
                      NEW f, IsIt(n, f)
               PROVE  \E g : IsIt(n + 1, g)
    OBVIOUS
  <2> DEFINE g == [w \in Nested[n + 1] |-> TextBy(w, OfKids(f, w))]
  <2>1. \A k \in Nested[n] : f[k] = g[k]
    BY NestedGrows
  <2>2. \A w \in Nested[n + 1] : OfKids(f, w) = OfKids(g, w)
    <3> HIDE DEF g, IsIt
    <3> QED
      BY <2>1, KidsAgree
  <2>3. IsIt(n + 1, g)
    BY <2>2
  <2> QED
    BY <2>3
<1>3. MaxNesting \in S
  <2> HIDE DEF S
  <2> QED
    BY <1>1, <1>2, UpTo, CodecLimits
<1>4. \E f : IsIt(MaxNesting, f)
  BY <1>3
<1>5. Text = [w \in Trees |-> TextBy(w, OfKids(Text, w))]
  BY <1>4 DEF Text, Trees
<1> QED
  BY <1>5

\* So is the number of its nodes,
LEMMA NodesOfIsDefined == \A w \in Trees : NodesOf[w] = NodesBy(w, OfKids(NodesOf, w))
<1> DEFINE IsIt(n, f) == f = [w \in Nested[n] |-> NodesBy(w, OfKids(f, w))]
           S == {n \in 0..MaxNesting : \E f : IsIt(n, f)}
<1> HIDE DEF Nested
<1>1. 0 \in S
  <2>1. IsIt(0, [w \in {} |-> 0])
    BY NestedLevels
  <2>2. 0 \in 0..MaxNesting
    BY CodecLimits
  <2> HIDE DEF IsIt
  <2> QED
    BY <2>1, <2>2
<1>2. \A n \in 0..MaxNesting : n \in S /\ n + 1 \in 0..MaxNesting => n + 1 \in S
  <2> SUFFICES ASSUME NEW n \in 0..MaxNesting, n + 1 \in 0..MaxNesting,
                      NEW f, IsIt(n, f)
               PROVE  \E g : IsIt(n + 1, g)
    OBVIOUS
  <2> DEFINE g == [w \in Nested[n + 1] |-> NodesBy(w, OfKids(f, w))]
  <2>1. \A k \in Nested[n] : f[k] = g[k]
    BY NestedGrows
  <2>2. \A w \in Nested[n + 1] : OfKids(f, w) = OfKids(g, w)
    <3> HIDE DEF g, IsIt
    <3> QED
      BY <2>1, KidsAgree
  <2>3. IsIt(n + 1, g)
    BY <2>2
  <2> QED
    BY <2>3
<1>3. MaxNesting \in S
  <2> HIDE DEF S
  <2> QED
    BY <1>1, <1>2, UpTo, CodecLimits
<1>4. \E f : IsIt(MaxNesting, f)
  BY <1>3
<1>5. NodesOf = [w \in Trees |-> NodesBy(w, OfKids(NodesOf, w))]
  BY <1>4 DEF NodesOf, Trees
<1> QED
  BY <1>5

\* what it is encoded to,
LEMMA EncodeIsDefined ==
    \A w \in Trees : Encode[w] = [depth \in Nat |-> EncodeBy(w, OfKids(Encode, w), depth)]
<1> DEFINE IsIt(n, f) == f = [w \in Nested[n] |-> [depth \in Nat |-> EncodeBy(w, OfKids(f, w), depth)]]
           S == {n \in 0..MaxNesting : \E f : IsIt(n, f)}
<1> HIDE DEF Nested
<1>1. 0 \in S
  <2>1. IsIt(0, [w \in {} |-> 0])
    BY NestedLevels
  <2>2. 0 \in 0..MaxNesting
    BY CodecLimits
  <2> HIDE DEF IsIt
  <2> QED
    BY <2>1, <2>2
<1>2. \A n \in 0..MaxNesting : n \in S /\ n + 1 \in 0..MaxNesting => n + 1 \in S
  <2> SUFFICES ASSUME NEW n \in 0..MaxNesting, n + 1 \in 0..MaxNesting,
                      NEW f, IsIt(n, f)
               PROVE  \E g : IsIt(n + 1, g)
    OBVIOUS
  <2> DEFINE g == [w \in Nested[n + 1] |-> [depth \in Nat |-> EncodeBy(w, OfKids(f, w), depth)]]
  <2>1. \A k \in Nested[n] : f[k] = g[k]
    BY NestedGrows
  <2>2. \A w \in Nested[n + 1] : OfKids(f, w) = OfKids(g, w)
    <3> HIDE DEF g, IsIt
    <3> QED
      BY <2>1, KidsAgree
  <2>3. IsIt(n + 1, g)
    BY <2>2
  <2> QED
    BY <2>3
<1>3. MaxNesting \in S
  <2> HIDE DEF S
  <2> QED
    BY <1>1, <1>2, UpTo, CodecLimits
<1>4. \E f : IsIt(MaxNesting, f)
  BY <1>3
<1>5. Encode = [w \in Trees |-> [depth \in Nat |-> EncodeBy(w, OfKids(Encode, w), depth)]]
  BY <1>4 DEF Encode, Trees
<1> QED
  BY <1>5

\* and what it is decoded to.
LEMMA BuildIsDefined ==
    \A w \in Trees : Build[w] = [depth \in Nat |-> BuildBy(w, OfKids(Build, w), depth)]
<1> DEFINE IsIt(n, f) == f = [w \in Nested[n] |-> [depth \in Nat |-> BuildBy(w, OfKids(f, w), depth)]]
           S == {n \in 0..MaxNesting : \E f : IsIt(n, f)}
<1> HIDE DEF Nested
<1>1. 0 \in S
  <2>1. IsIt(0, [w \in {} |-> 0])
    BY NestedLevels
  <2>2. 0 \in 0..MaxNesting
    BY CodecLimits
  <2> HIDE DEF IsIt
  <2> QED
    BY <2>1, <2>2
<1>2. \A n \in 0..MaxNesting : n \in S /\ n + 1 \in 0..MaxNesting => n + 1 \in S
  <2> SUFFICES ASSUME NEW n \in 0..MaxNesting, n + 1 \in 0..MaxNesting,
                      NEW f, IsIt(n, f)
               PROVE  \E g : IsIt(n + 1, g)
    OBVIOUS
  <2> DEFINE g == [w \in Nested[n + 1] |-> [depth \in Nat |-> BuildBy(w, OfKids(f, w), depth)]]
  <2>1. \A k \in Nested[n] : f[k] = g[k]
    BY NestedGrows
  <2>2. \A w \in Nested[n + 1] : OfKids(f, w) = OfKids(g, w)
    <3> HIDE DEF g, IsIt
    <3> QED
      BY <2>1, KidsAgree
  <2>3. IsIt(n + 1, g)
    BY <2>2
  <2> QED
    BY <2>3
<1>3. MaxNesting \in S
  <2> HIDE DEF S
  <2> QED
    BY <1>1, <1>2, UpTo, CodecLimits
<1>4. \E f : IsIt(MaxNesting, f)
  BY <1>3
<1>5. Build = [w \in Trees |-> [depth \in Nat |-> BuildBy(w, OfKids(Build, w), depth)]]
  BY <1>4 DEF Build, Trees
<1> QED
  BY <1>5

-----------------------------------------------------------------------------
(* Texts of trees.                                                         *)
LEMMA RankIsNat == \A text : RankOf(text) \in Nat
<1> SUFFICES ASSUME NEW text PROVE RankOf(text) \in Nat
  OBVIOUS
<1> DEFINE places == {i \in DOMAIN AtomOrder : AtomOrder[i] = text}
<1>1. places \subseteq Nat
  BY AtomsOrdered
<1> DEFINE c == CHOOSE i \in places : TRUE
<1>2. RankOf(text) = IF places = {} THEN 0 ELSE c
  BY Zenon DEF RankOf
<1>3. CASE places = {}
  BY <1>2, <1>3
<1>4. CASE places # {}
  <2>1. c \in places
    BY Zenon, <1>4
  <2> HIDE DEF c, places
  <2> QED
    BY <1>1, <1>2, <1>4, <2>1
<1> QED
  BY <1>3, <1>4

\* The prefixes of parts[1] \o parts[2] \o ...
PrefixBy(parts, f, i) == IF i = 1 THEN parts[i] ELSE f[i - 1] \o parts[i]

\* The recursive function inside FlattenSeq exists.
LEMMA PrefixesExist ==
    ASSUME NEW parts, NEW len \in Nat
    PROVE  \E f : f = [i \in 1..len |-> PrefixBy(parts, f, i)]
<1> DEFINE IsIt(m, f) == f = [i \in 1..m |-> PrefixBy(parts, f, i)]
           S == {m \in 0..len : \E f : IsIt(m, f)}
<1>1. 0 \in S
  <2>1. IsIt(0, [i \in {} |-> 0])
    OBVIOUS
  <2> HIDE DEF IsIt
  <2> QED
    BY <2>1
<1>2. \A m \in 0..len : m \in S /\ m + 1 \in 0..len => m + 1 \in S
  <2> SUFFICES ASSUME NEW m \in 0..len, m + 1 \in 0..len, NEW f, IsIt(m, f)
               PROVE  \E g : IsIt(m + 1, g)
    OBVIOUS
  <2> DEFINE g == [i \in 1..(m + 1) |-> PrefixBy(parts, f, i)]
  <2>1. \A i \in 1..m : i \in 1..(m + 1) /\ g[i] = f[i]
    OBVIOUS
  <2>2. \A i \in 1..(m + 1) : PrefixBy(parts, f, i) = PrefixBy(parts, g, i)
    <3> SUFFICES ASSUME NEW i \in 1..(m + 1), i # 1 PROVE f[i - 1] = g[i - 1]
      BY DEF PrefixBy
    <3>1. i - 1 \in 1..m
      OBVIOUS
    <3> HIDE DEF g
    <3> QED
      BY <3>1, <2>1
  <2>3. IsIt(m + 1, g)
    BY <2>2
  <2> QED
    BY <2>3
<1>3. len \in S
  <2> HIDE DEF S
  <2> QED
    BY <1>1, <1>2, UpTo
<1> QED
  BY <1>3

\* Its values are texts.
LEMMA PrefixesAreTexts ==
    ASSUME NEW len \in Nat, NEW parts \in [1..len -> Texts], NEW f,
           \A i \in 1..len : f[i] = PrefixBy(parts, f, i), NEW k \in 1..len
    PROVE  f[k] \in Texts
<1> DEFINE R == {m \in 0..len : m # 0 => f[m] \in Texts}
<1>1. 0 \in R
  OBVIOUS
<1>2. \A m \in 0..len : m \in R /\ m + 1 \in 0..len => m + 1 \in R
  <2> SUFFICES ASSUME NEW m \in 0..len, m # 0 => f[m] \in Texts, m + 1 \in 0..len
               PROVE  f[m + 1] \in Texts
    OBVIOUS
  <2>1. m + 1 \in 1..len /\ (m + 1) - 1 = m
    OBVIOUS
  <2>2. f[m + 1] = PrefixBy(parts, f, m + 1) /\ parts[m + 1] \in Texts
    BY <2>1
  <2>3. CASE m = 0
    BY <2>2, <2>3 DEF PrefixBy
  <2>4. CASE m # 0
    <3>1. m + 1 # 1 /\ f[(m + 1) - 1] = f[m]
      BY <2>1, <2>4
    <3>2. PrefixBy(parts, f, m + 1) = f[m] \o parts[m + 1]
      BY <3>1 DEF PrefixBy
    <3>3. f[m] \in Texts /\ parts[m + 1] \in Texts
      BY <2>2, <2>4
    <3>4. \A s, t \in Texts : s \o t \in Texts
      BY DEF Texts
    <3> QED
      BY <2>2, <3>2, <3>3, <3>4
  <2> QED
    BY <2>3, <2>4
<1>3. 0..len \subseteq R
  <2> HIDE DEF R
  <2> QED
    BY <1>1, <1>2, UpTo
<1>4. k # 0 /\ k \in 0..len
  OBVIOUS
<1> QED
  BY <1>3, <1>4

\* Texts one after the other are a text.
LEMMA FlattenedIsText == \A parts \in Seq(Texts) : FlattenSeq(parts) \in Texts
<1> SUFFICES ASSUME NEW parts \in Seq(Texts) PROVE FlattenSeq(parts) \in Texts
  OBVIOUS
<1>1. CASE Len(parts) = 0
  <2>1. parts = << >>
    BY <1>1
  <2> QED
    BY <1>1, <2>1 DEF FlattenSeq, Texts
<1>2. CASE Len(parts) # 0
  <2> DEFINE flatten == CHOOSE f : f = [i \in 1..Len(parts) |-> PrefixBy(parts, f, i)]
  <2>1. /\ Len(parts) \in Nat /\ Len(parts) \in 1..Len(parts)
        /\ parts \in [1..Len(parts) -> Texts]
    BY <1>2
  <2>2. flatten = [i \in 1..Len(parts) |-> PrefixBy(parts, flatten, i)]
    BY <2>1, PrefixesExist
  <2>3. FlattenSeq(parts) = flatten[Len(parts)]
    BY <1>2 DEF FlattenSeq, PrefixBy
  <2> HIDE DEF flatten
  <2>4. \A i \in 1..Len(parts) : flatten[i] = PrefixBy(parts, flatten, i)
    BY <2>2
  <2>5. flatten[Len(parts)] \in Texts
    BY <2>1, <2>4, PrefixesAreTexts
  <2> QED
    BY <2>3, <2>5
<1> QED
  BY <1>1, <1>2

\* The canonical text of a tree is a text.
LEMMA TextsOfTrees == \A w \in Trees : Text[w] \in Texts
<1> HIDE DEF Nested
<1> DEFINE S == {n \in 0..MaxNesting : \A w \in Nested[n] : Text[w] \in Texts}
<1>1. 0 \in S
  BY NestedLevels, CodecLimits
<1>2. \A n \in 0..MaxNesting : n \in S /\ n + 1 \in 0..MaxNesting => n + 1 \in S
  <2> SUFFICES ASSUME NEW n \in 0..MaxNesting, n + 1 \in 0..MaxNesting,
                      \A k \in Nested[n] : Text[k] \in Texts, NEW w \in Nested[n + 1]
               PROVE  Text[w] \in Texts
    OBVIOUS
  <2>1. n + 1 \in 1..MaxNesting /\ (n + 1) - 1 = n
    OBVIOUS
  <2>2. /\ w.tag \in STRING /\ w.atom \in Words
        /\ DOMAIN w.kids = 1..Len(w.kids) /\ Len(w.kids) \in Nat
        /\ \A i \in DOMAIN w.kids : w.kids[i] \in Nested[n]
    BY <2>1, TreeShape
  <2>3. OfKids(Text, w) \in Seq(Texts)
    BY <2>2 DEF OfKids
  <2>4. FlattenSeq(OfKids(Text, w)) \in Texts
    BY <2>3, FlattenedIsText
  <2>5. <<RankOf(w.tag), RankOf(w.atom), Len(w.kids)>> \in Texts
    BY <2>2, RankIsNat DEF Texts
  <2>6. w \in Trees
    BY NestedAreTrees
  <2>7. Text[w] = <<RankOf(w.tag), RankOf(w.atom), Len(w.kids)>> \o FlattenSeq(OfKids(Text, w))
    BY <2>6, TextIsDefined DEF TextBy
  <2> QED
    BY <2>4, <2>5, <2>7 DEF Texts
<1>3. MaxNesting \in S
  <2> HIDE DEF S
  <2> QED
    BY <1>1, <1>2, UpTo, CodecLimits
<1> QED
  BY <1>3 DEF Trees

-----------------------------------------------------------------------------
(* What is accepted is written back.                                       *)

\* A built value is one whose children were all built.
LEMMA PackedAreBuilt ==
    ASSUME NEW len \in Nat, NEW kids, DOMAIN kids = 1..len, NEW tag, NEW atom,
           ~IsFault(Pack(tag, atom, kids))
    PROVE  /\ \A i \in 1..len : ~IsFault(kids[i])
           /\ Pack(tag, atom, kids) = V(tag, atom, kids)
<1> DEFINE F == {i \in 1..len : IsFault(kids[i])}
<1>1. CASE F = {}
  BY <1>1 DEF Pack
<1>2. CASE F # {}
  <2>1. F \in SUBSET Nat
    OBVIOUS
  <2>2. PICK m \in F : \A n \in F : m <= n
    BY <1>2, <2>1, Least
  <2>3. m \in DOMAIN kids /\ IsFault(kids[m]) /\ \A j \in 1..(m - 1) : ~IsFault(kids[j])
    BY <2>2
  <2>4. IsFault(FirstFault(kids))
    BY <2>3 DEF FirstFault
  <2>5. Pack(tag, atom, kids) = FirstFault(kids)
    BY <2>3 DEF Pack
  <2> QED
    BY <2>4, <2>5
<1> QED
  BY <1>1, <1>2

\* What is built of w at depth d is a value of its tag and its nodes, which
\* is encoded to w at any depth up to d.
Faithful(n, w, b, d) ==
    /\ b \in Nested[n]
    /\ b.tag = w.tag
    /\ w.tag # "int" => b.atom = w.atom
    /\ NodesOf[b] = NodesOf[w]
    /\ \A e \in 0..d : Encode[b][e] = w
AllFaithful(n) ==
    \A w \in Nested[n] : \A d \in Nat :
        ~IsFault(Build[w][d]) => Faithful(n, w, Build[w][d], d)

\* The fields of a node.
LEMMA VFields == \A tag, atom, kids :
    /\ V(tag, atom, kids).tag = tag
    /\ V(tag, atom, kids).atom = atom
    /\ V(tag, atom, kids).kids = kids
BY DEF V

\* A node over children that are faithful is a tree of as many nodes.
LEMMA ParentIsFaithful ==
    ASSUME NEW n \in 0..MaxNesting, n + 1 \in 0..MaxNesting, NEW w \in Nested[n + 1],
           w.tag # "int", NEW built, built = [i \in DOMAIN w.kids |-> built[i]],
           NEW d \in Nat,
           \A i \in DOMAIN w.kids : ~IsFault(built[i]) /\ Faithful(n, w.kids[i], built[i], d)
    PROVE  /\ V(w.tag, w.atom, built) \in Nested[n + 1]
           /\ V(w.tag, w.atom, built) \in Trees
           /\ NodesOf[V(w.tag, w.atom, built)] = NodesOf[w]
           /\ \A e \in 0..d :
                 /\ At(OfKids(Encode, V(w.tag, w.atom, built)), e) = w.kids
                 /\ Pack(w.tag, w.atom, w.kids) = w
<1> DEFINE b == V(w.tag, w.atom, built)
<1> HIDE DEF Nested
<1>0. n + 1 \in 1..MaxNesting /\ (n + 1) - 1 = n
  OBVIOUS
<1>1. /\ w.tag \in STRING /\ w.atom \in Words /\ w.kids \in Seq(Nested[n])
      /\ DOMAIN w.kids = 1..Len(w.kids) /\ Len(w.kids) \in Nat
      /\ w = V(w.tag, w.atom, w.kids)
  BY <1>0, TreeShape
<1>2. b.tag = w.tag /\ b.atom = w.atom /\ b.kids = built
  BY VFields
<1>3. built \in Seq(Nested[n])
  <2>1. \A i \in 1..Len(w.kids) : built[i] \in Nested[n]
    BY <1>1 DEF Faithful
  <2>2. built = [i \in 1..Len(w.kids) |-> built[i]]
    BY <1>1
  <2>3. built \in [1..Len(w.kids) -> Nested[n]]
    BY <2>1, <2>2
  <2>4. \A k \in Nat : [1..k -> Nested[n]] \subseteq Seq(Nested[n])
    OBVIOUS
  <2> QED
    BY <1>1, <2>3, <2>4
<1>4. b \in Nested[n + 1]
  <2>1. b \in OfLevel(Nested[n])
    BY <1>1, <1>3 DEF OfLevel, V
  <2> QED
    BY <2>1, <1>0, NestedLevels
<1>5. b \in Trees /\ w \in Trees
  BY <1>4, NestedAreTrees
<1>6. NodesOf[b] = NodesOf[w]
  <2>1. OfKids(NodesOf, b) = OfKids(NodesOf, w)
    <3>1. \A i \in DOMAIN w.kids : NodesOf[built[i]] = NodesOf[w.kids[i]]
      BY DEF Faithful
    <3> HIDE DEF b
    <3> QED
      BY <3>1, <1>2 DEF OfKids
  <2> HIDE DEF b
  <2>2. NodesBy(b, OfKids(NodesOf, w)) = NodesBy(w, OfKids(NodesOf, w))
    BY <1>2 DEF NodesBy
  <2> QED
    BY <2>1, <2>2, <1>5, NodesOfIsDefined
<1>7. ASSUME NEW e \in 0..d PROVE At(OfKids(Encode, b), e) = w.kids
  <2>1. \A i \in DOMAIN w.kids : Encode[built[i]][e] = w.kids[i]
    BY DEF Faithful
  <2>2. At(OfKids(Encode, b), e) = [i \in DOMAIN w.kids |-> Encode[built[i]][e]]
    <3> HIDE DEF b
    <3> QED
      BY <1>2 DEF At, OfKids
  <2>3. w.kids = [i \in DOMAIN w.kids |-> w.kids[i]]
    <3>1. w.kids \in Seq(Nested[n])
      BY <1>1
    <3> HIDE <1>1
    <3> QED
      BY <3>1
  <2> QED
    BY <2>1, <2>2, <2>3
<1>8. Pack(w.tag, w.atom, w.kids) = w
  <2>1. \A i \in DOMAIN w.kids : ~IsFault(w.kids[i])
    BY DEF Faithful, IsFault
  <2> QED
    BY <2>1, <1>1 DEF Pack
<1> QED
  BY <1>4, <1>5, <1>6, <1>7, <1>8

\* The children of what was built: no one was refused.
LEMMA ChildrenAreFaithful ==
    ASSUME NEW n \in 0..MaxNesting, n + 1 \in 0..MaxNesting, AllFaithful(n),
           NEW w \in Nested[n + 1], NEW d \in Nat, NEW built,
           built = BuildAll(w, OfKids(Build, w), d),
           NEW i \in DOMAIN w.kids, ~IsFault(built[i])
    PROVE  /\ ~Misplaced(w, i)
           /\ built[i] = Build[w.kids[i]][d]
           /\ Faithful(n, w.kids[i], built[i], d)
<1> HIDE DEF Nested
<1>1. built[i] = IF Misplaced(w, i) THEN Bad ELSE Build[w.kids[i]][d]
  BY DEF BuildAll, OfKids
<1>2. IsFault(Bad)
  BY DEF IsFault, Bad, Leaf, V
<1>3. ~Misplaced(w, i) /\ built[i] = Build[w.kids[i]][d]
  BY <1>1, <1>2
<1>4. w.kids[i] \in Nested[n]
  <2>1. n + 1 \in 1..MaxNesting /\ (n + 1) - 1 = n
    OBVIOUS
  <2> QED
    BY <2>1, TreeShape
<1> QED
  BY <1>3, <1>4 DEF AllFaithful

\* What was packed of all its children is packed again as it was.
PackedAgain(n, w, b, d) ==
    /\ b \in Nested[n] /\ b \in Trees
    /\ b.tag = w.tag /\ b.atom = w.atom
    /\ NodesOf[b] = NodesOf[w]
    /\ \A e \in 0..d : /\ At(OfKids(Encode, b), e) = w.kids
                       /\ Pack(b.tag, b.atom, At(OfKids(Encode, b), e)) = w

\* All children of a node that was built are faithful.
LEMMA LevelIsFaithful ==
    ASSUME NEW n \in 0..MaxNesting, n + 1 \in 0..MaxNesting, AllFaithful(n),
           NEW w \in Nested[n + 1], w.tag # "int", NEW d \in Nat, NEW built,
           built = BuildAll(w, OfKids(Build, w), d),
           ~IsFault(Pack(w.tag, w.atom, built))
    PROVE  /\ Pack(w.tag, w.atom, built) = V(w.tag, w.atom, built)
           /\ \A i \in DOMAIN w.kids : /\ ~Misplaced(w, i)
                                       /\ built[i] = Build[w.kids[i]][d]
                                       /\ ~IsFault(built[i])
                                       /\ Faithful(n, w.kids[i], built[i], d)
           /\ PackedAgain(n + 1, w, V(w.tag, w.atom, built), d)
<1> HIDE DEF Nested
<1>1. DOMAIN w.kids = 1..Len(w.kids) /\ Len(w.kids) \in Nat
  <2>1. n + 1 \in 1..MaxNesting
    OBVIOUS
  <2> QED
    BY <2>1, TreeShape
<1>2. DOMAIN built = 1..Len(w.kids) /\ built = [i \in DOMAIN w.kids |-> built[i]]
  BY <1>1 DEF BuildAll
<1>3. /\ \A i \in 1..Len(w.kids) : ~IsFault(built[i])
      /\ Pack(w.tag, w.atom, built) = V(w.tag, w.atom, built)
  BY <1>1, <1>2, PackedAreBuilt
<1>4. ASSUME NEW i \in DOMAIN w.kids
      PROVE  /\ ~Misplaced(w, i)
             /\ built[i] = Build[w.kids[i]][d]
             /\ ~IsFault(built[i])
             /\ Faithful(n, w.kids[i], built[i], d)
  <2>1. ~IsFault(built[i])
    BY <1>1, <1>3
  <2> QED
    BY <2>1, ChildrenAreFaithful
<1> DEFINE b == V(w.tag, w.atom, built)
<1>5. b.tag = w.tag /\ b.atom = w.atom
  BY VFields
<1>6. /\ b \in Nested[n + 1] /\ b \in Trees
      /\ NodesOf[b] = NodesOf[w]
      /\ \A e \in 0..d : /\ At(OfKids(Encode, b), e) = w.kids
                         /\ Pack(w.tag, w.atom, w.kids) = w
  <2>1. \A i \in DOMAIN w.kids : ~IsFault(built[i]) /\ Faithful(n, w.kids[i], built[i], d)
    BY <1>4
  <2>2. built = [i \in DOMAIN w.kids |-> built[i]]
    BY <1>2
  <2> QED
    BY <2>1, <2>2, ParentIsFaithful
<1>7. PackedAgain(n + 1, w, b, d)
  <2> HIDE DEF b
  <2> QED
    BY <1>5, <1>6 DEF PackedAgain
<1> QED
  BY <1>3, <1>4, <1>7

\* Both conversions at one tree and depth.
LEMMA EncodeAt == \A b \in Trees : \A e \in Nat :
    /\ Encode[b][e] = EncodeBy(b, OfKids(Encode, b), e)
    /\ Build[b][e] = BuildBy(b, OfKids(Build, b), e)
BY EncodeIsDefined, BuildIsDefined

\* The two faults.
LEMMA FaultsAreFaults == IsFault(Bad) /\ IsFault(TooDeep)
BY DEF IsFault, Bad, TooDeep, Leaf, V

\* What enters a level when it is read, and when it is written again.
LEMMA WithinIsFaithful ==
    ASSUME NEW n \in 0..MaxNesting, n + 1 \in 0..MaxNesting, AllFaithful(n),
           NEW w \in Nested[n + 1], w.tag # "int", NEW d \in Nat, NEW built,
           built = BuildAll(w, OfKids(Build, w), d + 1), NEW b,
           b = BuildWithin(w, OfKids(Build, w), d), ~IsFault(b)
    PROVE  /\ d + 1 <= MaxDepth
           /\ b = V(w.tag, w.atom, built)
           /\ \A i \in DOMAIN w.kids : /\ ~Misplaced(w, i)
                                       /\ built[i] = Build[w.kids[i]][d + 1]
                                       /\ ~IsFault(built[i])
                                       /\ Faithful(n, w.kids[i], built[i], d + 1)
           /\ PackedAgain(n + 1, w, b, d + 1)
<1> HIDE DEF Nested
<1>1. d + 1 <= MaxDepth /\ b = Pack(w.tag, w.atom, built)
  BY FaultsAreFaults, CodecLimits DEF BuildWithin
<1>2. d + 1 \in Nat /\ ~IsFault(Pack(w.tag, w.atom, built))
  BY <1>1
<1> QED
  BY <1>1, <1>2, LevelIsFaithful

\* What entered a level is written back, at any depth up to its own.
LEMMA WithinIsWritten ==
    ASSUME NEW n, NEW w, NEW b, NEW d \in Nat, d + 1 <= MaxDepth,
           PackedAgain(n, w, b, d + 1), NEW e \in 0..d
    PROVE  /\ EncodeWithin(b, OfKids(Encode, b), e) = w
           /\ EncodeUnmetered(b, OfKids(Encode, b), e) = w
<1>1. e \in 0..(d + 1) /\ e + 1 \in 0..(d + 1) /\ ~(e + 1 > MaxDepth)
  BY CodecLimits
<1>2. /\ Pack(b.tag, b.atom, At(OfKids(Encode, b), e)) = w
      /\ Pack(b.tag, b.atom, At(OfKids(Encode, b), e + 1)) = w
  BY <1>1 DEF PackedAgain
<1> QED
  BY <1>1, <1>2 DEF EncodeWithin, EncodeUnmetered

\* Sequences, the trace of a class, an enum and an exception.
LEMMA SequencesAreFaithful ==
    ASSUME NEW n \in 0..MaxNesting, n + 1 \in 0..MaxNesting, AllFaithful(n),
           NEW w \in Nested[n + 1],
           w.tag \in {"list", "tuple", "ClassTrace", "enum", "exception"},
           NEW d \in Nat, NEW b, b = Build[w][d], ~IsFault(b)
    PROVE  Faithful(n + 1, w, b, d)
<1> HIDE DEF Nested
<1>1. b = BuildBy(w, OfKids(Build, w), d)
  BY NestedAreTrees, EncodeAt
<1>2. b = BuildWithin(w, OfKids(Build, w), d)
  <2>1. w.tag = "ClassTrace" => b = BuildClassTrace(w, OfKids(Build, w), d)
    BY <1>1 DEF BuildBy, TextTags, PartTags
  <2>2. w.tag \in {"list", "tuple"} => b = BuildWithin(w, OfKids(Build, w), d)
    BY <1>1 DEF BuildBy, TextTags, PartTags
  <2>3. w.tag = "enum" => b = BuildEnum(w, OfKids(Build, w), d)
    BY <1>1 DEF BuildBy, TextTags, PartTags
  <2>4. w.tag = "exception" => b = BuildException(w, OfKids(Build, w), d)
    BY <1>1 DEF BuildBy, TextTags, PartTags
  <2> QED
    BY <2>1, <2>2, <2>3, <2>4, FaultsAreFaults
    DEF BuildClassTrace, BuildEnum, BuildException, Checked
<1>3. d + 1 <= MaxDepth /\ PackedAgain(n + 1, w, b, d + 1)
  BY <1>2, WithinIsFaithful
<1>4. b \in Trees /\ b.tag = w.tag
  BY <1>3 DEF PackedAgain
<1>5. ASSUME NEW e \in 0..d PROVE Encode[b][e] = w
  <2>1. Encode[b][e] = EncodeBy(b, OfKids(Encode, b), e)
    BY <1>4, EncodeAt
  <2>2. \/ Encode[b][e] = EncodeWithin(b, OfKids(Encode, b), e)
        \/ Encode[b][e] = EncodeUnmetered(b, OfKids(Encode, b), e)
    BY <1>4, <2>1 DEF EncodeBy, TextTags
  <2> QED
    BY <1>3, <2>2, WithinIsWritten
<1> QED
  BY <1>3, <1>5 DEF Faithful, PackedAgain

\* The parts of dicts, records and traces stay on their level.
LEMMA PartsAreFaithful ==
    ASSUME NEW n \in 0..MaxNesting, n + 1 \in 0..MaxNesting, AllFaithful(n),
           NEW w \in Nested[n + 1], w.tag \in PartTags,
           NEW d \in Nat, NEW b, b = Build[w][d], ~IsFault(b)
    PROVE  Faithful(n + 1, w, b, d) /\ PartOk(w)
<1> HIDE DEF Nested
<1>1. b = BuildPart(w, OfKids(Build, w), d)
  BY NestedAreTrees, EncodeAt DEF BuildBy, TextTags, PartTags
<1>2. PartOk(w) /\ b = Pack(w.tag, w.atom, BuildAll(w, OfKids(Build, w), d))
  BY <1>1, FaultsAreFaults DEF BuildPart
<1>3. PackedAgain(n + 1, w, b, d)
  <2>1. w.tag # "int" /\ ~IsFault(Pack(w.tag, w.atom, BuildAll(w, OfKids(Build, w), d)))
    BY <1>2 DEF PartTags
  <2> QED
    BY <1>2, <2>1, LevelIsFaithful
<1>4. b \in Trees /\ b.tag = w.tag
  BY <1>3 DEF PackedAgain
<1>5. ASSUME NEW e \in 0..d PROVE Encode[b][e] = w
  <2>1. Encode[b][e] = EncodeBy(b, OfKids(Encode, b), e)
    BY <1>4, EncodeAt
  <2>2. Encode[b][e] = EncodeUnmetered(b, OfKids(Encode, b), e)
    BY <1>4, <2>1 DEF EncodeBy, TextTags, PartTags
  <2> QED
    BY <1>3, <2>2 DEF EncodeUnmetered, PackedAgain
<1> QED
  BY <1>2, <1>3, <1>5 DEF Faithful, PackedAgain

\* A linked list: the index of its cycle is in range for both.
LEMMA ListNodesAreFaithful ==
    ASSUME NEW n \in 0..MaxNesting, n + 1 \in 0..MaxNesting, AllFaithful(n),
           NEW w \in Nested[n + 1], w.tag = "ListNode",
           NEW d \in Nat, NEW b, b = Build[w][d], ~IsFault(b)
    PROVE  Faithful(n + 1, w, b, d)
<1> HIDE DEF Nested
<1>1. b = BuildListNode(w, OfKids(Build, w), d)
  BY NestedAreTrees, EncodeAt DEF BuildBy, TextTags, PartTags
<1>2. b = BuildWithin(w, OfKids(Build, w), d) /\ InCycleRange(w)
  BY <1>1, FaultsAreFaults DEF BuildListNode, Checked
<1> DEFINE built == BuildAll(w, OfKids(Build, w), d + 1)
<1>3. /\ d + 1 <= MaxDepth /\ PackedAgain(n + 1, w, b, d + 1)
      /\ b = V(w.tag, w.atom, built)
  BY <1>2, WithinIsFaithful
<1>4. b \in Trees /\ b.tag = w.tag /\ b.atom = w.atom
  BY <1>3 DEF PackedAgain
<1>5. InCycleRange(b)
  <2>1. DOMAIN b.kids = DOMAIN w.kids
    BY <1>3, VFields DEF BuildAll
  <2> QED
    BY <1>2, <1>4, <2>1 DEF InCycleRange
<1>6. ASSUME NEW e \in 0..d PROVE Encode[b][e] = w
  <2>1. Encode[b][e] = EncodeBy(b, OfKids(Encode, b), e)
    BY <1>4, EncodeAt
  <2>2. Encode[b][e] = EncodeListNode(b, OfKids(Encode, b), e)
    BY <1>4, <2>1 DEF EncodeBy, TextTags
  <2> QED
    BY <1>3, <1>5, <2>2, WithinIsWritten DEF EncodeListNode, Checked
<1> QED
  BY <1>3, <1>6 DEF Faithful, PackedAgain

\* The fields of a leaf.
LEMMA LeafFields == \A tag, atom :
    Leaf(tag, atom).tag = tag /\ Leaf(tag, atom).atom = atom /\ Leaf(tag, atom).kids = << >>
BY DEF Leaf, V

\* A leaf is a tree over anything.
LEMMA LeafIsNested ==
    ASSUME NEW tag \in STRING, NEW atom \in Words, NEW S PROVE Leaf(tag, atom) \in OfLevel(S)
<1>1. << >> \in Seq(S)
  OBVIOUS
<1> QED
  BY <1>1 DEF Leaf, V, OfLevel

\* A sequence of length one.
LEMMA OfOne == \A S : \A s \in Seq(S) : Len(s) = 1 => s = <<s[1]>>
OBVIOUS

\* Leaves: an integer has one spelling, the others are as they are written.
LEMMA IntegersAreFaithful ==
    ASSUME NEW n \in 0..MaxNesting, n + 1 \in 0..MaxNesting,
           NEW w \in Nested[n + 1], w.tag = "int",
           NEW d \in Nat, NEW b, b = Build[w][d], ~IsFault(b)
    PROVE  Faithful(n + 1, w, b, d)
<1> HIDE DEF Nested
<1>1. w \in Trees /\ b = intOf(w)
  BY NestedAreTrees, EncodeAt DEF BuildBy, TextTags, PartTags
<1>2. /\ w.atom = "" /\ Len(w.kids) = 1 /\ w.kids[1] = IntSpelling(w.kids[1].atom)
      /\ b = Leaf("int", w.kids[1].atom)
  BY <1>1, FaultsAreFaults DEF intOf
<1>3. n + 1 \in 1..MaxNesting /\ (n + 1) - 1 = n
  OBVIOUS
<1>4. /\ w.tag \in STRING /\ w.kids \in Seq(Nested[n]) /\ 1 \in DOMAIN w.kids
      /\ w.kids[1] \in Nested[n] /\ w = V(w.tag, w.atom, w.kids)
  <2>1. /\ w.tag \in STRING /\ w.kids \in Seq(Nested[n]) /\ DOMAIN w.kids = 1..Len(w.kids)
        /\ \A i \in DOMAIN w.kids : w.kids[i] \in Nested[n]
        /\ w = V(w.tag, w.atom, w.kids)
    BY <1>3, TreeShape
  <2>2. Len(w.kids) = 1
    BY <1>2
  <2>3. 1 \in DOMAIN w.kids
    BY <2>1, <2>2
  <2> QED
    BY <2>1, <2>3
<1>5. w.kids[1].atom \in Words
  <2>1. n # 0
    BY <1>4, NestedLevels
  <2>2. n \in 1..MaxNesting
    BY <2>1
  <2> QED
    BY <1>4, <2>2, TreeShape
<1>6. b.tag = "int" /\ b.atom = w.kids[1].atom /\ b.kids = << >>
  <2>1. b = Leaf("int", w.kids[1].atom)
    BY <1>2
  <2> QED
    BY <2>1, LeafFields
<1>7. b \in Nested[n + 1] /\ b \in Trees
  <2>1. b \in OfLevel(Nested[n])
    BY <1>2, <1>4, <1>5, LeafIsNested
  <2> QED
    BY <2>1, <1>3, NestedLevels, NestedAreTrees
<1>8. NodesOf[b] = NodesOf[w]
  BY <1>1, <1>6, <1>7, NodesOfIsDefined DEF NodesBy
<1>9. ASSUME NEW e \in 0..d PROVE Encode[b][e] = w
  <2>1. Encode[b][e] = EncodeInt(b)
    BY <1>6, <1>7, EncodeAt DEF EncodeBy, TextTags, PartTags
  <2>2. w.kids = <<w.kids[1]>>
    BY <1>2, <1>4, OfOne
  <2> QED
    BY <1>2, <1>4, <1>6, <2>1, <2>2 DEF EncodeInt
<1> QED
  BY <1>6, <1>7, <1>8, <1>9 DEF Faithful

\* A leaf has no conversions below it.
LEMMA NothingAt == \A f, v, e : v.kids = << >> => At(OfKids(f, v), e) = << >>
BY DEF At, OfKids

\* Texts and null.
LEMMA LeavesAreFaithful ==
    ASSUME NEW n \in 0..MaxNesting, n + 1 \in 0..MaxNesting,
           NEW w \in Nested[n + 1], w.tag \in TextTags \cup {"null"},
           NEW d \in Nat, NEW b, b = Build[w][d], ~IsFault(b)
    PROVE  Faithful(n + 1, w, b, d)
<1> HIDE DEF Nested
<1>1. w \in Trees /\ b = BuildBy(w, OfKids(Build, w), d)
  BY NestedAreTrees, EncodeAt
<1>2. CASE w.tag \in TextTags
  <2>1. b = BuildText(w)
    BY <1>1, <1>2 DEF BuildBy, TextTags, PartTags
  <2>2. b = w /\ w.atom \notin Malformed /\ w = Leaf(w.tag, w.atom)
    <3>1. b = w /\ w.atom \notin Malformed /\ w.kids = << >>
      BY <2>1, FaultsAreFaults DEF BuildText
    <3>2. w = V(w.tag, w.atom, w.kids)
      <4>1. n + 1 \in 1..MaxNesting
        OBVIOUS
      <4> QED
        BY <4>1, TreeShape
    <3> QED
      BY <3>1, <3>2 DEF Leaf
  <2>3. \A e \in Nat : Encode[w][e] = w
    <3> TAKE e \in Nat
    <3>1. Encode[w][e] = EncodeText(w)
      BY <1>1, <1>2, EncodeAt DEF EncodeBy, TextTags, PartTags
    <3> QED
      BY <2>2, <3>1 DEF EncodeText
  <2> QED
    BY <2>2, <2>3 DEF Faithful
<1>3. CASE w.tag = "null"
  <2>1. b = BuildNull(w)
    BY <1>1, <1>3 DEF BuildBy, TextTags, PartTags
  <2>2. b = w /\ w = Null
    BY <2>1, FaultsAreFaults DEF BuildNull
  <2>3. w.tag = "null" /\ w.atom = "" /\ w.kids = << >> /\ Null = V("null", "", << >>)
    BY <2>2 DEF Null, Leaf, V
  <2>4. \A e \in Nat : Encode[w][e] = w
    <3> TAKE e \in Nat
    <3>1. Encode[w][e] = EncodeUnmetered(w, OfKids(Encode, w), e)
      BY <1>1, <1>3, EncodeAt DEF EncodeBy, TextTags, PartTags
    <3>2. Encode[w][e] = Pack("null", "", << >>)
      BY <2>3, <3>1, NothingAt DEF EncodeUnmetered
    <3>3. Pack("null", "", << >>) = V("null", "", << >>)
      BY DEF Pack
    <3> QED
      BY <2>2, <2>3, <3>2, <3>3
  <2> QED
    BY <2>2, <2>4 DEF Faithful
<1> QED
  BY <1>2, <1>3

\* A complex number: two numeric leaves.
LEMMA ComplexAreFaithful ==
    ASSUME NEW n \in 0..MaxNesting, n + 1 \in 0..MaxNesting, AllFaithful(n),
           NEW w \in Nested[n + 1], w.tag = "complex",
           NEW d \in Nat, NEW b, b = Build[w][d], ~IsFault(b)
    PROVE  Faithful(n + 1, w, b, d)
<1> HIDE DEF Nested
<1> DEFINE parts == BuildAll(w, OfKids(Build, w), d)
           leaves == [i \in DOMAIN parts |-> leafOf(parts[i])]
<1>1. b = BuildComplex(w, OfKids(Build, w), d)
  BY NestedAreTrees, EncodeAt DEF BuildBy, TextTags, PartTags
<1>2. b = Pack(w.tag, w.atom, leaves)
  BY <1>1, FaultsAreFaults DEF BuildComplex
<1>3. DOMAIN w.kids = 1..Len(w.kids) /\ Len(w.kids) \in Nat
  <2>1. n + 1 \in 1..MaxNesting
    OBVIOUS
  <2> QED
    BY <2>1, TreeShape
<1>4. DOMAIN parts = 1..Len(w.kids) /\ parts = [i \in DOMAIN parts |-> parts[i]]
  BY <1>3 DEF BuildAll
<1> HIDE DEF parts
<1>5. \A i \in 1..Len(w.kids) : ~IsFault(leaves[i])
  <2>1. DOMAIN leaves = 1..Len(w.kids)
    BY <1>4
  <2> HIDE DEF leaves
  <2> QED
    BY <1>2, <1>3, <2>1, PackedAreBuilt
<1>6. \A i \in DOMAIN parts : leafOf(parts[i]) = parts[i] /\ parts[i].tag \in NumericTags
  <2> SUFFICES ASSUME NEW i \in DOMAIN parts
               PROVE  leafOf(parts[i]) = parts[i] /\ parts[i].tag \in NumericTags
    OBVIOUS
  <2>1. ~IsFault(leafOf(parts[i]))
    BY <1>4, <1>5
  <2> QED
    BY <2>1, FaultsAreFaults DEF leafOf, Checked
<1>7. leaves = parts
  BY <1>4, <1>6
<1>8. b = V(w.tag, w.atom, parts) /\ PackedAgain(n + 1, w, b, d)
  <2>1. b = Pack(w.tag, w.atom, parts)
    BY <1>2, <1>7
  <2> HIDE DEF leaves
  <2>2. parts = BuildAll(w, OfKids(Build, w), d)
    BY DEF parts
  <2> QED
    BY <2>1, <2>2, LevelIsFaithful
<1>9. b \in Trees /\ b.tag = "complex" /\ b.kids = parts
  BY <1>8, VFields DEF PackedAgain
<1>10. ASSUME NEW e \in 0..d PROVE Encode[b][e] = w
  <2>1. Encode[b][e] = EncodeComplex(b, OfKids(Encode, b), e)
    BY <1>9, EncodeAt DEF EncodeBy, TextTags, PartTags
  <2>2. Encode[b][e] = Pack(b.tag, b.atom, At(OfKids(Encode, b), e))
    BY <1>6, <1>9, <2>1 DEF EncodeComplex
  <2> QED
    BY <1>8, <2>2 DEF PackedAgain
<1> QED
  BY <1>8, <1>10 DEF Faithful, PackedAgain

\* A record: no field is repeated, for both.
LEMMA RecordsAreFaithful ==
    ASSUME NEW n \in 0..MaxNesting, n + 1 \in 0..MaxNesting, AllFaithful(n),
           NEW w \in Nested[n + 1], w.tag = "record",
           NEW d \in Nat, NEW b, b = Build[w][d], ~IsFault(b)
    PROVE  Faithful(n + 1, w, b, d)
<1> HIDE DEF Nested
<1> DEFINE Before_(i) == \E j \in 1..(i - 1) : w.kids[j].atom = w.kids[i].atom
           built == BuildAll(w, OfKids(Build, w), d + 1)
           fields == [i \in DOMAIN w.kids |-> IF Before_(i) THEN Bad ELSE built[i]]
<1>1. b = BuildRecord(w, OfKids(Build, w), d)
  BY NestedAreTrees, EncodeAt DEF BuildBy, TextTags, PartTags
<1>2. d + 1 <= MaxDepth /\ b = Pack(w.tag, w.atom, fields)
  <2>1. BuildRecord(w, OfKids(Build, w), d) =
          IF w.atom = "" THEN Bad ELSE IF d + 1 > MaxDepth THEN TooDeep
          ELSE Pack(w.tag, w.atom, fields)
    BY Zenon DEF BuildRecord
  <2>2. b # Bad /\ b # TooDeep
    BY FaultsAreFaults
  <2> HIDE DEF fields
  <2>3. ~(d + 1 > MaxDepth) /\ b = Pack(w.tag, w.atom, fields)
    BY <1>1, <2>1, <2>2
  <2> QED
    BY <2>3, CodecLimits
<1>3. DOMAIN w.kids = 1..Len(w.kids) /\ Len(w.kids) \in Nat
  <2>1. n + 1 \in 1..MaxNesting
    OBVIOUS
  <2> QED
    BY <2>1, TreeShape
<1>4. \A i \in 1..Len(w.kids) : ~IsFault(fields[i])
  <2>1. DOMAIN fields = 1..Len(w.kids)
    BY <1>3
  <2> HIDE DEF fields
  <2> QED
    BY <1>2, <1>3, <2>1, PackedAreBuilt
<1>5. \A i \in DOMAIN w.kids : ~Before_(i) /\ fields[i] = built[i]
  <2> HIDE DEF Before_, built
  <2> QED
    BY <1>3, <1>4, FaultsAreFaults
<1>6. fields = built
  <2>1. built = [i \in DOMAIN w.kids |-> built[i]]
    BY DEF BuildAll
  <2> HIDE DEF built, Before_
  <2> QED
    BY <1>5, <2>1
<1> HIDE DEF fields
<1>7. /\ b = V(w.tag, w.atom, built)
      /\ PackedAgain(n + 1, w, b, d + 1)
      /\ \A i \in DOMAIN w.kids : ~Misplaced(w, i) /\ Faithful(n, w.kids[i], built[i], d + 1)
  <2>1. b = Pack(w.tag, w.atom, built) /\ d + 1 \in Nat
    BY <1>2, <1>6
  <2>2. built = BuildAll(w, OfKids(Build, w), d + 1)
    OBVIOUS
  <2> HIDE DEF built
  <2> QED
    BY <2>1, <2>2, LevelIsFaithful
<1>8. b \in Trees /\ b.tag = "record" /\ b.kids = built /\ DOMAIN built = DOMAIN w.kids
  <2>1. DOMAIN built = DOMAIN w.kids
    BY DEF BuildAll
  <2> HIDE DEF built
  <2> QED
    BY <1>7, <2>1, VFields DEF PackedAgain
<1>9. \A i \in DOMAIN w.kids : built[i].atom = w.kids[i].atom
  <2> HIDE DEF built
  <2> SUFFICES ASSUME NEW i \in DOMAIN w.kids PROVE built[i].atom = w.kids[i].atom
    OBVIOUS
  <2>1. w.kids[i].tag = "field"
    BY <1>7 DEF Misplaced, Place
  <2> QED
    BY <1>7, <2>1 DEF Faithful
<1>10. ~SomeAtomTwice(b)
  <2> HIDE DEF built
  <2> SUFFICES ASSUME NEW i \in DOMAIN w.kids, NEW j \in DOMAIN w.kids, i # j,
                      w.kids[i].atom = w.kids[j].atom
               PROVE  FALSE
    BY <1>8, <1>9 DEF SomeAtomTwice
  <2>1. i \in 1..(j - 1) \/ j \in 1..(i - 1)
    BY <1>3
  <2> QED
    BY <1>5, <2>1
<1>11. ASSUME NEW e \in 0..d PROVE Encode[b][e] = w
  <2> HIDE DEF built
  <2>1. Encode[b][e] = EncodeRecord(b, OfKids(Encode, b), e)
    BY <1>8, EncodeAt DEF EncodeBy, TextTags, PartTags
  <2>2. Encode[b][e] = EncodeWithin(b, OfKids(Encode, b), e)
    BY <1>10, <2>1 DEF EncodeRecord
  <2> QED
    BY <1>2, <1>7, <2>2, WithinIsWritten
<1> QED
  BY <1>7, <1>11 DEF Faithful, PackedAgain

\* The members of a set, the entries of a dict: accepted in this order, they
\* are written in it.
LEMMA AcceptedIsOrdered ==
    ASSUME NEW n \in 1..MaxNesting, NEW w \in Nested[n],
           NEW texts \in Seq(Texts), Len(texts) = Len(w.kids), assertSortedUnique(texts)
    PROVE  Ordered(w, texts) = w
<1> HIDE DEF Nested
<1>1. /\ w.kids \in Seq(Nested[n - 1]) /\ w = V(w.tag, w.atom, w.kids)
  BY TreeShape
<1>2. w.kids \in [1..Len(texts) -> Nested[n - 1]]
  BY <1>1
<1>3. ~Repeats(texts) /\ SortedBy(w.kids, texts) = w.kids
  BY <1>2, AcceptedIsWrittenBack
<1>4. [w EXCEPT !.kids = w.kids] = w
  BY <1>1 DEF V
<1> QED
  BY <1>3, <1>4 DEF Ordered

\* Sets, whose members are in order.
LEMMA SetsAreFaithful ==
    ASSUME NEW n \in 0..MaxNesting, n + 1 \in 0..MaxNesting, AllFaithful(n),
           NEW w \in Nested[n + 1], w.tag \in {"set", "frozenset"},
           NEW d \in Nat, NEW b, b = Build[w][d], ~IsFault(b)
    PROVE  Faithful(n + 1, w, b, d)
<1> HIDE DEF Nested
<1> DEFINE built == BuildAll(w, OfKids(Build, w), d + 1)
<1>1. b = BuildSet(w, OfKids(Build, w), d)
  BY NestedAreTrees, EncodeAt DEF BuildBy, TextTags, PartTags
<1>2. /\ b = BuildWithin(w, OfKids(Build, w), d)
      /\ assertSortedUnique([i \in DOMAIN b.kids |-> canonicalStringOf(b.kids[i])])
  BY <1>1, FaultsAreFaults DEF BuildSet, Checked
<1>3. /\ d + 1 <= MaxDepth /\ PackedAgain(n + 1, w, b, d + 1)
      /\ b = V(w.tag, w.atom, built)
      /\ \A i \in DOMAIN w.kids : Faithful(n, w.kids[i], built[i], d + 1)
  BY <1>2, WithinIsFaithful
<1>4. b \in Trees /\ b.tag = w.tag /\ b.kids = built /\ DOMAIN built = DOMAIN w.kids
  <2>1. DOMAIN built = DOMAIN w.kids
    BY DEF BuildAll
  <2> HIDE DEF built
  <2> QED
    BY <1>3, <2>1, VFields DEF PackedAgain
<1> HIDE DEF built
<1>5. n + 1 \in 1..MaxNesting /\ (n + 1) - 1 = n
  OBVIOUS
<1>6. /\ w.kids \in Seq(Nested[n]) /\ DOMAIN w.kids = 1..Len(w.kids) /\ Len(w.kids) \in Nat
      /\ \A i \in DOMAIN w.kids : w.kids[i] \in Nested[n]
  BY <1>5, TreeShape
<1>7. TextsOf(w.kids) \in Seq(Texts) /\ Len(TextsOf(w.kids)) = Len(w.kids)
  <2>1. \A i \in DOMAIN w.kids : Text[w.kids[i]] \in Texts
    BY <1>6, NestedAreTrees, TextsOfTrees
  <2> QED
    BY <1>6, <2>1 DEF TextsOf
<1>8. [i \in DOMAIN b.kids |-> canonicalStringOf(b.kids[i])] = TextsOf(w.kids)
  <2>1. \A i \in DOMAIN w.kids : canonicalStringOf(built[i]) = Text[w.kids[i]]
    <3>1. 0 \in 0..(d + 1)
      OBVIOUS
    <3> QED
      BY <1>3, <3>1 DEF Faithful, canonicalStringOf
  <2> QED
    BY <1>4, <2>1 DEF TextsOf
<1>9. Ordered(w, TextsOf(w.kids)) = w
  BY <1>2, <1>5, <1>7, <1>8, AcceptedIsOrdered
<1>10. ASSUME NEW e \in 0..d PROVE Encode[b][e] = w
  <2>1. Encode[b][e] = EncodeSet(b, OfKids(Encode, b), e)
    BY <1>4, EncodeAt DEF EncodeBy, TextTags, PartTags
  <2>2. EncodeWithin(b, OfKids(Encode, b), e) = w
    BY <1>3, WithinIsWritten
  <2>3. ~IsFault(w)
    BY <1>4 DEF IsFault
  <2> QED
    BY <1>9, <2>1, <2>2, <2>3 DEF EncodeSet
<1> QED
  BY <1>3, <1>10 DEF Faithful, PackedAgain

\* The key of an entry is written as it was read.
LEMMA KeysAreFaithful ==
    ASSUME NEW n \in 0..MaxNesting, NEW w \in Nested[n], w.tag = "entry", NEW d \in Nat,
           ~IsFault(Build[w][d]), NEW b, b = Build[w][d], Faithful(n, w, b, d)
    PROVE  /\ w.kids[1] \in Trees
           /\ Encode[b.kids[1]][0] = w.kids[1]
<1> HIDE DEF Nested
<1>1. w \in Trees /\ b \in Nested[n] /\ b \in Trees /\ b.tag = "entry" /\ n \in 1..MaxNesting
  <2>1. n # 0
    BY NestedLevels
  <2> QED
    BY <2>1, NestedAreTrees DEF Faithful
<1>2. /\ DOMAIN w.kids = 1..Len(w.kids) /\ Len(w.kids) \in Nat
      /\ DOMAIN b.kids = 1..Len(b.kids) /\ Len(b.kids) \in Nat
  BY <1>1, TreeShape
<1>3. 1 \in DOMAIN w.kids
  <2>1. b = BuildPart(w, OfKids(Build, w), d)
    BY <1>1, EncodeAt DEF BuildBy, TextTags, PartTags
  <2>2. PartOk(w)
    BY <2>1, FaultsAreFaults DEF BuildPart
  <2>3. Len(w.kids) = 2
    BY <2>2 DEF PartOk
  <2> QED
    BY <1>2, <2>3
<1> DEFINE again == At(OfKids(Encode, b), 0)
<1>4. w = Pack(b.tag, b.atom, again)
  <2>1. Encode[b][0] = EncodeUnmetered(b, OfKids(Encode, b), 0)
    BY <1>1, EncodeAt DEF EncodeBy, TextTags, PartTags
  <2>2. Encode[b][0] = w
    BY DEF Faithful
  <2> QED
    BY <2>1, <2>2 DEF EncodeUnmetered
<1>5. DOMAIN again = 1..Len(b.kids) /\ \A i \in DOMAIN again : again[i] = Encode[b.kids[i]][0]
  BY <1>2 DEF At, OfKids
<1>6. w = V(b.tag, b.atom, again)
  <2>1. ~IsFault(w)
    BY DEF IsFault
  <2> HIDE DEF again
  <2> QED
    BY <1>2, <1>4, <1>5, <2>1, PackedAreBuilt
<1>7. w.kids = again
  <2> HIDE DEF again
  <2> QED
    BY <1>6, VFields
<1>8. w.kids[1] \in Trees
  BY <1>1, <1>3, NestedAreTrees
<1> QED
  <2> HIDE DEF again
  <2> QED
    BY <1>3, <1>5, <1>7, <1>8

\* Dicts, whose keys are in order.
LEMMA DictsAreFaithful ==
    ASSUME NEW n \in 0..MaxNesting, n + 1 \in 0..MaxNesting, AllFaithful(n),
           NEW w \in Nested[n + 1], w.tag = "dict",
           NEW d \in Nat, NEW b, b = Build[w][d], ~IsFault(b)
    PROVE  Faithful(n + 1, w, b, d)
<1> HIDE DEF Nested
<1> DEFINE built == BuildAll(w, OfKids(Build, w), d + 1)
<1>1. b = BuildDict(w, OfKids(Build, w), d)
  BY NestedAreTrees, EncodeAt DEF BuildBy, TextTags, PartTags
<1>2. /\ b = BuildWithin(w, OfKids(Build, w), d)
      /\ assertSortedUnique([i \in DOMAIN b.kids |-> canonicalStringOf(b.kids[i].kids[1])])
  BY <1>1, FaultsAreFaults DEF BuildDict, Checked
<1>3. /\ d + 1 <= MaxDepth /\ PackedAgain(n + 1, w, b, d + 1)
      /\ b = V(w.tag, w.atom, built)
      /\ \A i \in DOMAIN w.kids : /\ ~Misplaced(w, i)
                                  /\ built[i] = Build[w.kids[i]][d + 1]
                                  /\ ~IsFault(built[i])
                                  /\ Faithful(n, w.kids[i], built[i], d + 1)
  BY <1>2, WithinIsFaithful
<1>4. b \in Trees /\ b.tag = w.tag /\ b.kids = built /\ DOMAIN built = DOMAIN w.kids
  <2>1. DOMAIN built = DOMAIN w.kids
    BY DEF BuildAll
  <2> HIDE DEF built
  <2> QED
    BY <1>3, <2>1, VFields DEF PackedAgain
<1> HIDE DEF built
<1>5. n + 1 \in 1..MaxNesting /\ (n + 1) - 1 = n
  OBVIOUS
<1>6. /\ w.kids \in Seq(Nested[n]) /\ DOMAIN w.kids = 1..Len(w.kids) /\ Len(w.kids) \in Nat
      /\ \A i \in DOMAIN w.kids : w.kids[i] \in Nested[n]
  BY <1>5, TreeShape
<1>7. ASSUME NEW i \in DOMAIN w.kids
      PROVE  /\ w.kids[i].kids[1] \in Trees
             /\ Encode[built[i].kids[1]][0] = w.kids[i].kids[1]
  <2>1. w.kids[i].tag = "entry"
    BY <1>3 DEF Misplaced, Place
  <2>2. w.kids[i] \in Nested[n] /\ d + 1 \in Nat
    BY <1>6
  <2>3. built[i] = Build[w.kids[i]][d + 1] /\ ~IsFault(built[i])
        /\ Faithful(n, w.kids[i], built[i], d + 1)
    BY <1>3
  <2> QED
    BY <2>1, <2>2, <2>3, KeysAreFaithful
<1>8. KeysOf(w.kids) \in Seq(Texts) /\ Len(KeysOf(w.kids)) = Len(w.kids)
  <2>1. \A i \in DOMAIN w.kids : Text[w.kids[i].kids[1]] \in Texts
    BY <1>7, TextsOfTrees
  <2> QED
    BY <1>6, <2>1 DEF KeysOf
<1>9. [i \in DOMAIN b.kids |-> canonicalStringOf(b.kids[i].kids[1])] = KeysOf(w.kids)
  <2>1. \A i \in DOMAIN w.kids : canonicalStringOf(built[i].kids[1]) = Text[w.kids[i].kids[1]]
    BY <1>7 DEF canonicalStringOf
  <2> QED
    BY <1>4, <2>1 DEF KeysOf
<1>10. Ordered(w, KeysOf(w.kids)) = w
  BY <1>2, <1>5, <1>8, <1>9, AcceptedIsOrdered
<1>11. ASSUME NEW e \in 0..d PROVE Encode[b][e] = w
  <2>1. Encode[b][e] = EncodeDict(b, OfKids(Encode, b), e)
    BY <1>4, EncodeAt DEF EncodeBy, TextTags, PartTags
  <2>2. EncodeWithin(b, OfKids(Encode, b), e) = w
    BY <1>3, WithinIsWritten
  <2>3. ~IsFault(w)
    BY <1>4 DEF IsFault
  <2> QED
    BY <1>10, <2>1, <2>2, <2>3 DEF EncodeDict
<1> QED
  BY <1>3, <1>11 DEF Faithful, PackedAgain

\* A tree: absent slots are where they were, and the last one is none.
LEMMA GapIsFaithful ==
    ASSUME NEW n \in 0..MaxNesting, Gap \in Nested[n], NEW d \in Nat
    PROVE  Faithful(n, Gap, Gap, d) /\ ~IsFault(Gap)
<1> HIDE DEF Nested
<1>1. Gap.tag = "gap" /\ Gap.atom = "" /\ Gap.kids = << >> /\ Gap = V("gap", "", << >>)
  BY DEF Gap, Leaf, V
<1>2. Gap \in Trees
  BY NestedAreTrees
<1> HIDE DEF Gap
<1>3. ASSUME NEW e \in Nat PROVE Encode[Gap][e] = Gap
  <2>1. Encode[Gap][e] = EncodeUnmetered(Gap, OfKids(Encode, Gap), e)
    BY <1>1, <1>2, EncodeAt DEF EncodeBy, TextTags, PartTags
  <2>2. Encode[Gap][e] = Pack("gap", "", << >>)
    BY <1>1, <2>1, NothingAt DEF EncodeUnmetered
  <2>3. Pack("gap", "", << >>) = V("gap", "", << >>)
    BY DEF Pack
  <2> QED
    BY <1>1, <2>2, <2>3
<1>4. ~IsFault(Gap)
  BY <1>1 DEF IsFault
<1>5. \A e \in 0..d : Encode[Gap][e] = Gap
  <2>1. 0..d \subseteq Nat
    OBVIOUS
  <2> QED
    BY <1>3, <2>1
<1> QED
  BY <1>4, <1>5 DEF Faithful

\* A sequence up to its end is the sequence.
LEMMA WholeSequence ==
    ASSUME NEW len \in Nat, NEW s, s = [i \in 1..len |-> s[i]], NEW k, k = len
    PROVE  SubSeq(s, 1, k) = s /\ Len(s) = len
<1> DEFINE S == {s[i] : i \in 1..len}
<1>1. s \in [1..len -> S]
  OBVIOUS
<1>2. s \in Seq(S) /\ Len(s) = len
  BY <1>1
<1> HIDE DEF S
<1>3. /\ SubSeq(s, 1, len) \in Seq(S)
      /\ Len(SubSeq(s, 1, len)) = len
      /\ \A i \in 1..len : SubSeq(s, 1, len)[i] = s[i]
  BY <1>2
<1> QED
  BY <1>2, <1>3

\* Slots that do not end in a gap lose nothing.
LEMMA NothingStripped ==
    ASSUME NEW len \in Nat, NEW slots, slots = [i \in 1..len |-> slots[i]],
           ~EndsInGap(slots)
    PROVE  LastReal(slots) = len
<1>1. Len(slots) = len
  BY WholeSequence
<1>2. len # 0 => slots[len] # Gap
  <2>1. len # 0 => slots # << >>
    BY <1>1
  <2> QED
    BY <1>1, <2>1 DEF EndsInGap
<1> DEFINE P(k) == /\ k # 0 => slots[k] # Gap
                   /\ \A i \in (k + 1)..len : slots[i] = Gap
<1>3. P(len)
  BY <1>2
<1>4. ASSUME NEW k \in 0..len, P(k) PROVE k = len
  <2> SUFFICES ASSUME k # len PROVE FALSE
    OBVIOUS
  <2>1. len \in (k + 1)..len /\ len # 0
    OBVIOUS
  <2> QED
    BY <1>2, <1>4, <2>1
<1>5. LastReal(slots) = CHOOSE k \in 0..len : P(k)
  BY <1>1 DEF LastReal
<1> HIDE DEF P
<1>6. len \in 0..len
  OBVIOUS
<1> QED
  BY <1>3, <1>4, <1>5, <1>6

\* Trees, whose slots are reachable.
LEMMA TreesAreFaithful ==
    ASSUME NEW n \in 0..MaxNesting, n + 1 \in 0..MaxNesting, AllFaithful(n),
           NEW w \in Nested[n + 1], w.tag = "TreeNode",
           NEW d \in Nat, NEW b, b = Build[w][d], ~IsFault(b)
    PROVE  Faithful(n + 1, w, b, d)
<1> HIDE DEF Nested
<1> DEFINE built == BuildAll(w, OfKids(Build, w), d + 1)
           slots == [i \in DOMAIN w.kids |-> IF w.kids[i] = Gap THEN Gap ELSE built[i]]
<1>1. b = BuildTreeNode(w, OfKids(Build, w), d)
  BY NestedAreTrees, EncodeAt DEF BuildBy, TextTags, PartTags
<1>2. /\ ~EndsInGap(w.kids) /\ ~Unreachable(w.kids)
      /\ ~(d + 1 > MaxDepth) /\ b = Pack(w.tag, w.atom, slots)
  <2>1. BuildTreeNode(w, OfKids(Build, w), d) =
          IF EndsInGap(w.kids) \/ Unreachable(w.kids) THEN Bad
          ELSE IF d + 1 > MaxDepth THEN TooDeep ELSE Pack(w.tag, w.atom, slots)
    BY Zenon DEF BuildTreeNode
  <2>2. b # Bad /\ b # TooDeep
    BY FaultsAreFaults
  <2> HIDE DEF slots
  <2> QED
    BY <1>1, <2>1, <2>2
<1>3. n + 1 \in 1..MaxNesting /\ (n + 1) - 1 = n /\ d + 1 <= MaxDepth /\ d + 1 \in Nat
  BY <1>2, CodecLimits
<1>4. /\ w.kids \in Seq(Nested[n]) /\ DOMAIN w.kids = 1..Len(w.kids) /\ Len(w.kids) \in Nat
      /\ \A i \in DOMAIN w.kids : w.kids[i] \in Nested[n]
  BY <1>3, TreeShape
<1>5. DOMAIN slots = 1..Len(w.kids) /\ slots = [i \in DOMAIN w.kids |-> slots[i]]
  BY <1>4
<1>6. /\ \A i \in 1..Len(w.kids) : ~IsFault(slots[i])
      /\ b = V(w.tag, w.atom, slots)
  <2> HIDE DEF slots
  <2> QED
    BY <1>2, <1>4, <1>5, PackedAreBuilt
<1>7. ASSUME NEW i \in DOMAIN w.kids
      PROVE  /\ Faithful(n, w.kids[i], slots[i], d + 1)
             /\ slots[i] = Gap <=> w.kids[i] = Gap
  <2>1. w.kids[i] \in Nested[n] /\ ~IsFault(slots[i])
    BY <1>4, <1>6
  <2>2. CASE w.kids[i] = Gap
    <3>1. slots[i] = Gap
      BY <2>2
    <3>2. Faithful(n, Gap, Gap, d + 1)
      BY <1>3, <2>1, <2>2, GapIsFaithful
    <3> QED
      BY <2>2, <3>1, <3>2
  <2>3. CASE w.kids[i] # Gap
    <3>1. slots[i] = built[i]
      BY <2>3
    <3> HIDE DEF slots
    <3>2. ~IsFault(built[i]) /\ built = BuildAll(w, OfKids(Build, w), d + 1)
      BY <2>1, <3>1
    <3> HIDE DEF built
    <3>3. built[i] = Build[w.kids[i]][d + 1] /\ Faithful(n, w.kids[i], built[i], d + 1)
      BY <1>3, <3>2, ChildrenAreFaithful
    <3>4. built[i] # Gap
      <4>1. Gap.tag = "gap" /\ IsFault(Bad)
        BY FaultsAreFaults DEF Gap, Leaf, V
      <4>2. built[i].tag = w.kids[i].tag
        BY <3>3 DEF Faithful
      <4> SUFFICES ASSUME w.kids[i].tag = "gap" PROVE FALSE
        BY <4>1, <4>2
      <4>3. w.kids[i] \in Trees
        BY <2>1, NestedAreTrees
      <4>4. Build[w.kids[i]][d + 1] = Bad
        BY <1>3, <4>3, EncodeAt DEF BuildBy, TextTags, PartTags
      <4> QED
        BY <3>2, <3>3, <4>1, <4>4
    <3> QED
      BY <2>3, <3>1, <3>3, <3>4
  <2> QED
    BY <2>2, <2>3
<1> HIDE DEF slots
<1>8. b.tag = "TreeNode" /\ b.atom = w.atom /\ b.kids = slots
  BY <1>6, VFields
<1>9. PackedAgain(n + 1, w, b, d + 1)
  <2>1. \A i \in DOMAIN w.kids : ~IsFault(slots[i]) /\ Faithful(n, w.kids[i], slots[i], d + 1)
    BY <1>4, <1>6, <1>7
  <2>2. w.tag # "int" /\ slots = [i \in DOMAIN w.kids |-> slots[i]]
    BY <1>5
  <2>3. /\ b \in Nested[n + 1] /\ b \in Trees
        /\ NodesOf[b] = NodesOf[w]
        /\ \A e \in 0..(d + 1) : /\ At(OfKids(Encode, b), e) = w.kids
                                 /\ Pack(w.tag, w.atom, w.kids) = w
    <3>1. w.tag # "int" /\ slots = [i \in DOMAIN w.kids |-> slots[i]] /\ d + 1 \in Nat
      BY <1>3, <2>2
    <3> DEFINE v == V(w.tag, w.atom, slots)
    <3>2. /\ v \in Nested[n + 1] /\ v \in Trees
          /\ NodesOf[v] = NodesOf[w]
          /\ \A e \in 0..(d + 1) : /\ At(OfKids(Encode, v), e) = w.kids
                                   /\ Pack(w.tag, w.atom, w.kids) = w
      BY <2>1, <3>1, ParentIsFaithful
    <3>3. b = v
      BY <1>6
    <3> HIDE DEF v
    <3> QED
      BY <3>2, <3>3
  <2>4. b.tag = w.tag
    BY <1>8
  <2> QED
    BY <1>8, <2>3, <2>4 DEF PackedAgain
<1>10. LastReal(b.kids) = Len(w.kids) /\ StripGaps(b.kids) = b.kids /\ Len(slots) = Len(w.kids)
  <2>1. slots = [i \in 1..Len(w.kids) |-> slots[i]]
    BY <1>4, <1>5
  <2>2. Len(slots) = Len(w.kids)
    BY <1>4, <2>1, WholeSequence
  <2>3. ~EndsInGap(slots)
    <3>1. CASE Len(w.kids) = 0
      <4>1. slots = << >>
        BY <2>1, <3>1
      <4> QED
        BY <4>1 DEF EndsInGap
    <3>2. CASE Len(w.kids) # 0
      <4>1. Len(w.kids) \in DOMAIN w.kids /\ w.kids # << >>
        BY <1>4, <3>2
      <4>2. w.kids[Len(w.kids)] # Gap
        BY <1>2, <4>1 DEF EndsInGap
      <4>3. slots[Len(w.kids)] # Gap
        BY <1>7, <4>1, <4>2
      <4> QED
        BY <2>2, <4>3 DEF EndsInGap
    <3> QED
      BY <3>1, <3>2
  <2>4. LastReal(slots) = Len(w.kids)
    BY <1>4, <2>1, <2>3, NothingStripped
  <2>5. SubSeq(slots, 1, LastReal(slots)) = slots
    BY <1>4, <2>1, <2>4, WholeSequence
  <2> QED
    BY <1>8, <2>2, <2>4, <2>5 DEF StripGaps
<1>11. ~Unreachable(b.kids)
  <2>1. \A i \in DOMAIN w.kids : slots[i] = Gap <=> w.kids[i] = Gap
    BY <1>7
  <2>2. DOMAIN slots = DOMAIN w.kids
    BY <1>4, <1>5
  <2> QED
    BY <1>2, <1>8, <2>1, <2>2 DEF Unreachable
<1>12. ASSUME NEW e \in 0..d PROVE Encode[b][e] = w
  <2>1. b \in Trees /\ e \in Nat
    BY <1>9 DEF PackedAgain
  <2>2. Encode[b][e] = EncodeTreeNode(b, OfKids(Encode, b), e)
    BY <1>8, <2>1, EncodeAt DEF EncodeBy, TextTags, PartTags
  <2>3. SubSeq(OfKids(Encode, b), 1, LastReal(b.kids)) = OfKids(Encode, b)
    <3>1. OfKids(Encode, b) = [i \in 1..Len(w.kids) |-> OfKids(Encode, b)[i]]
      BY <1>5, <1>8 DEF OfKids
    <3> QED
      BY <1>4, <1>10, <3>1, WholeSequence
  <2>4. Encode[b][e] = EncodeWithin(b, OfKids(Encode, b), e)
    BY <1>10, <1>11, <2>2, <2>3 DEF EncodeTreeNode
  <2> QED
    BY <1>3, <1>9, <2>4, WithinIsWritten
<1> QED
  BY <1>8, <1>9, <1>12 DEF Faithful, PackedAgain

\* Whatever the level a tree nests to, if it is accepted it is read into
\* a value that is written back as that tree.
LEMMA AllAreFaithful == \A n \in 0..MaxNesting : AllFaithful(n)
<1> HIDE DEF Nested
<1> DEFINE S == {n \in 0..MaxNesting : AllFaithful(n)}
<1>1. 0 \in S
  BY CodecLimits, NestedLevels DEF AllFaithful
<1>2. ASSUME NEW n \in 0..MaxNesting, n \in S, n + 1 \in 0..MaxNesting
      PROVE  n + 1 \in S
  <2>1. AllFaithful(n)
    BY <1>2
  <2>2. ASSUME NEW w \in Nested[n + 1], NEW d \in Nat, ~IsFault(Build[w][d])
        PROVE  Faithful(n + 1, w, Build[w][d], d)
    <3>1. CASE w.tag = "int"
      BY <1>2, <2>2, <3>1, IntegersAreFaithful
    <3>2. CASE w.tag \in TextTags \cup {"null"}
      BY <1>2, <2>2, <3>2, LeavesAreFaithful
    <3>3. CASE w.tag = "complex"
      BY <1>2, <2>1, <2>2, <3>3, ComplexAreFaithful
    <3>4. CASE w.tag \in {"list", "tuple", "ClassTrace", "enum", "exception"}
      BY <1>2, <2>1, <2>2, <3>4, SequencesAreFaithful
    <3>5. CASE w.tag \in {"set", "frozenset"}
      BY <1>2, <2>1, <2>2, <3>5, SetsAreFaithful
    <3>6. CASE w.tag = "dict"
      BY <1>2, <2>1, <2>2, <3>6, DictsAreFaithful
    <3>7. CASE w.tag = "record"
      BY <1>2, <2>1, <2>2, <3>7, RecordsAreFaithful
    <3>8. CASE w.tag = "ListNode"
      BY <1>2, <2>1, <2>2, <3>8, ListNodesAreFaithful
    <3>9. CASE w.tag = "TreeNode"
      BY <1>2, <2>1, <2>2, <3>9, TreesAreFaithful
    <3>10. CASE w.tag \in PartTags
      BY <1>2, <2>1, <2>2, <3>10, PartsAreFaithful
    <3>11. w.tag \in TextTags \cup PartTags \cup
                     {"int", "null", "complex", "list", "tuple", "ClassTrace", "enum",
                      "exception", "set", "frozenset", "dict", "record", "ListNode",
                      "TreeNode"}
      <4> SUFFICES ASSUME w.tag \notin TextTags, w.tag \notin PartTags,
                          w.tag \notin {"int", "null", "complex", "list", "tuple",
                            "ClassTrace", "enum", "exception", "set", "frozenset",
                            "dict", "record", "ListNode", "TreeNode"}
                   PROVE  FALSE
        OBVIOUS
      <4>1. BuildBy(w, OfKids(Build, w), d) = Bad
        BY DEF BuildBy
      <4>2. w \in Trees
        BY <1>2, NestedAreTrees
      <4> QED
        BY <2>2, <4>1, <4>2, EncodeAt, FaultsAreFaults
    <3> QED
      BY <3>1, <3>2, <3>3, <3>4, <3>5, <3>6, <3>7, <3>8, <3>9, <3>10, <3>11
  <2> QED
    BY <1>2, <2>2 DEF AllFaithful
<1>3. 0..MaxNesting \subseteq S
  <2> HIDE DEF S
  <2> QED
    BY <1>1, <1>2, CodecLimits, UpTo
<1> QED
  BY <1>3

\* decode.ts undone by encode.ts: a message that buildValue() accepts is
\* the one encodeValue() writes for the value it was read into, whatever the
\* depth of the value and the number of its nodes.
THEOREM WhatIsAcceptedIsWrittenBack == \A w :
    ~IsFault(buildValue(w)) => encodeValue(buildValue(w)) = w
<1> HIDE DEF Nested
<1> SUFFICES ASSUME NEW w, ~IsFault(buildValue(w))
             PROVE  encodeValue(buildValue(w)) = w
  OBVIOUS
<1> DEFINE b == Build[w][0]
<1>1. /\ w \in Trees /\ buildValue(w) = b
      /\ ~IsFault(b) /\ ~(NodesOf[w] > MaxNodes)
  <2>1. w \in Trees
    BY FaultsAreFaults DEF buildValue
  <2>2. buildValue(w) # Bad /\ buildValue(w) # TooDeep
    BY FaultsAreFaults
  <2> QED
    BY <2>1, <2>2 DEF buildValue
<1> HIDE DEF b
<1>2. Faithful(MaxNesting, w, b, 0)
  <2>1. MaxNesting \in 0..MaxNesting /\ Trees = Nested[MaxNesting] /\ 0 \in Nat
    BY CodecLimits DEF Trees
  <2>2. AllFaithful(MaxNesting)
    BY <2>1, AllAreFaithful
  <2> QED
    BY <1>1, <2>1, <2>2 DEF AllFaithful, b
<1>3. Encode[b][0] = w /\ NodesOf[b] = NodesOf[w] /\ b.tag = w.tag
  BY <1>2 DEF Faithful
<1>4. ~IsFault(w)
  BY <1>1, <1>3 DEF IsFault
<1> QED
  BY <1>1, <1>3, <1>4 DEF encodeValue

\* No two messages are accepted for the same value.
COROLLARY ValuesHaveOneMessage == \A u, w :
    /\ ~IsFault(buildValue(u)) /\ ~IsFault(buildValue(w))
    /\ buildValue(u) = buildValue(w)
    => u = w
<1> SUFFICES ASSUME NEW u, NEW w, ~IsFault(buildValue(u)), ~IsFault(buildValue(w)),
                    buildValue(u) = buildValue(w)
             PROVE  u = w
  OBVIOUS
<1> QED
  BY WhatIsAcceptedIsWrittenBack

-----------------------------------------------------------------------------
(* The trip of a case.                                                     *)

\* In every state of a trip the message on the wire, if the host accepts it,
\* is the one the host would write for the value it was read into: a request
\* that the encoder wrote, an answer of the harness and the line of an
\* artifact alike.
THEOREM MessagesHaveOneSpelling == Spec => []CanonicalFormIsUnique
<1>1. CanonicalFormIsUnique
  BY WhatIsAcceptedIsWrittenBack DEF CanonicalFormIsUnique
<1> QED
  BY <1>1, PTL

-----------------------------------------------------------------------------
(* What the harness writes, the host's budget admits.                      *)
PartsBy(v, parts) == {v} \cup UNION Range(parts)
\* A tree is a part of itself, and so are the parts of its children.
LEMMA PartsIsDefined == \A w \in Trees : Parts[w] = PartsBy(w, OfKids(Parts, w))
<1> DEFINE IsIt(n, f) == f = [w \in Nested[n] |-> PartsBy(w, OfKids(f, w))]
           S == {n \in 0..MaxNesting : \E f : IsIt(n, f)}
<1> HIDE DEF Nested
<1>1. 0 \in S
  <2>1. IsIt(0, [w \in {} |-> 0])
    BY NestedLevels
  <2>2. 0 \in 0..MaxNesting
    BY CodecLimits
  <2> HIDE DEF IsIt
  <2> QED
    BY <2>1, <2>2
<1>2. \A n \in 0..MaxNesting : n \in S /\ n + 1 \in 0..MaxNesting => n + 1 \in S
  <2> SUFFICES ASSUME NEW n \in 0..MaxNesting, n + 1 \in 0..MaxNesting,
                      NEW f, IsIt(n, f)
               PROVE  \E g : IsIt(n + 1, g)
    OBVIOUS
  <2> DEFINE g == [w \in Nested[n + 1] |-> PartsBy(w, OfKids(f, w))]
  <2>1. \A k \in Nested[n] : f[k] = g[k]
    BY NestedGrows
  <2>2. \A w \in Nested[n + 1] : OfKids(f, w) = OfKids(g, w)
    <3> HIDE DEF g, IsIt
    <3> QED
      BY <2>1, KidsAgree
  <2>3. IsIt(n + 1, g)
    BY <2>2
  <2> QED
    BY <2>3
<1>3. MaxNesting \in S
  <2> HIDE DEF S
  <2> QED
    BY <1>1, <1>2, UpTo, CodecLimits
<1>4. \E f : IsIt(MaxNesting, f)
  BY <1>3
<1>5. Parts = [w \in Trees |-> PartsBy(w, OfKids(Parts, w))]
  BY <1>4 DEF Parts, Trees, PartsBy
<1> QED
  BY <1>5

PyNodesBy(w, counts) == IF w.tag = "complex" THEN 1 ELSE NodesBy(w, counts)
\* The nodes that the harness counts.
LEMMA PyNodesIsDefined == \A w \in Trees : PyNodes[w] = PyNodesBy(w, OfKids(PyNodes, w))
<1> DEFINE IsIt(n, f) == f = [w \in Nested[n] |-> PyNodesBy(w, OfKids(f, w))]
           S == {n \in 0..MaxNesting : \E f : IsIt(n, f)}
<1> HIDE DEF Nested
<1>1. 0 \in S
  <2>1. IsIt(0, [w \in {} |-> 0])
    BY NestedLevels
  <2>2. 0 \in 0..MaxNesting
    BY CodecLimits
  <2> HIDE DEF IsIt
  <2> QED
    BY <2>1, <2>2
<1>2. \A n \in 0..MaxNesting : n \in S /\ n + 1 \in 0..MaxNesting => n + 1 \in S
  <2> SUFFICES ASSUME NEW n \in 0..MaxNesting, n + 1 \in 0..MaxNesting,
                      NEW f, IsIt(n, f)
               PROVE  \E g : IsIt(n + 1, g)
    OBVIOUS
  <2> DEFINE g == [w \in Nested[n + 1] |-> PyNodesBy(w, OfKids(f, w))]
  <2>1. \A k \in Nested[n] : f[k] = g[k]
    BY NestedGrows
  <2>2. \A w \in Nested[n + 1] : OfKids(f, w) = OfKids(g, w)
    <3> HIDE DEF g, IsIt
    <3> QED
      BY <2>1, KidsAgree
  <2>3. IsIt(n + 1, g)
    BY <2>2
  <2> QED
    BY <2>3
<1>3. MaxNesting \in S
  <2> HIDE DEF S
  <2> QED
    BY <1>1, <1>2, UpTo, CodecLimits
<1>4. \E f : IsIt(MaxNesting, f)
  BY <1>3
<1>5. PyNodes = [w \in Trees |-> PyNodesBy(w, OfKids(PyNodes, w))]
  BY <1>4 DEF PyNodes, Trees, PyNodesBy
<1> QED
  BY <1>5

-----------------------------------------------------------------------------
(* Objects and their items.                                                *)
ObjectsOver(items) ==
    [tag : STRING \ {"chain", "tree", "dict"}, atom : Words, kids : Seq(items)]
    \cup Chains(items) \cup BinaryTrees(items) \cup Dicts(items)
ObjectsBy(n, f) == IF n < 2 THEN {} ELSE ObjectsOver(f[n - 1])

\* More items make more objects.
LEMMA ObjectsOverGrow ==
    ASSUME NEW S, NEW T, S \subseteq T PROVE ObjectsOver(S) \subseteq ObjectsOver(T)
<1>1. Seq(S) \subseteq Seq(T)
  BY SeqGrows
<1>2. [tag : STRING \ {"chain", "tree", "dict"}, atom : Words, kids : Seq(S)]
        \subseteq [tag : STRING \ {"chain", "tree", "dict"}, atom : Words, kids : Seq(T)]
  BY <1>1
<1>3. Chains(S) \subseteq Chains(T)
  <2>1. [val : S, next : Nat] \subseteq [val : T, next : Nat]
    OBVIOUS
  <2>2. Seq([val : S, next : Nat]) \subseteq Seq([val : T, next : Nat])
    BY <2>1, SeqGrows
  <2>3. [tag : {"chain"}, atom : {""}, kids : Seq([val : S, next : Nat])]
          \subseteq [tag : {"chain"}, atom : {""}, kids : Seq([val : T, next : Nat])]
    BY <2>2
  <2> QED
    BY <2>3, Zenon DEF Chains
<1>4. BinaryTrees(S) \subseteq BinaryTrees(T)
  <2>1. [val : S, left : Nat, right : Nat] \subseteq [val : T, left : Nat, right : Nat]
    OBVIOUS
  <2>2. Seq([val : S, left : Nat, right : Nat]) \subseteq Seq([val : T, left : Nat, right : Nat])
    BY <2>1, SeqGrows
  <2>3. [tag : {"tree"}, atom : {""}, kids : Seq([val : S, left : Nat, right : Nat])]
          \subseteq [tag : {"tree"}, atom : {""}, kids : Seq([val : T, left : Nat, right : Nat])]
    BY <2>2
  <2> QED
    BY <2>3, Zenon DEF BinaryTrees
<1>5. Dicts(S) \subseteq Dicts(T)
  <2>1. [tag : {"dict"}, atom : Words, kids : Seq(S)] \subseteq [tag : {"dict"}, atom : Words, kids : Seq(T)]
    BY <1>1
  <2> QED
    BY <2>1, Zenon DEF Dicts
<1> QED
  BY <1>2, <1>3, <1>4, <1>5, Zenon DEF ObjectsOver

\* The recursive function ObjectsUpTo exists.
LEMMA ObjectsUpToIsDefined == ObjectsUpTo = [n \in 0..MaxNesting |-> ObjectsBy(n, ObjectsUpTo)]
<1> DEFINE IsIt(m, f) == f = [n \in 0..m |-> ObjectsBy(n, f)]
           S == {m \in 0..MaxNesting : \E f : IsIt(m, f)}
<1>1. 0 \in S
  <2>1. IsIt(0, [n \in 0..0 |-> {}])
    BY DEF ObjectsBy
  <2>2. 0 \in 0..MaxNesting
    BY CodecLimits
  <2> QED
    BY <2>1, <2>2
<1>2. \A m \in 0..MaxNesting : m \in S /\ m + 1 \in 0..MaxNesting => m + 1 \in S
  <2> SUFFICES ASSUME NEW m \in 0..MaxNesting, m \in S, m + 1 \in 0..MaxNesting
               PROVE  \E f : IsIt(m + 1, f)
    OBVIOUS
  <2> PICK f : IsIt(m, f)
    OBVIOUS
  <2> DEFINE g == [n \in 0..(m + 1) |-> ObjectsBy(n, f)]
  <2>1. \A n \in 0..m : g[n] = f[n]
    OBVIOUS
  <2>2. \A n \in 0..(m + 1) : ObjectsBy(n, f) = ObjectsBy(n, g)
    <3> SUFFICES ASSUME NEW n \in 0..(m + 1), ~(n < 2) PROVE f[n - 1] = g[n - 1]
      BY DEF ObjectsBy
    <3>1. n - 1 \in 0..m
      OBVIOUS
    <3> QED
      BY <3>1, <2>1
  <2>3. IsIt(m + 1, g)
    BY <2>2
  <2> QED
    BY <2>3
<1>3. MaxNesting \in S
  <2> HIDE DEF S
  <2> QED
    BY <1>1, <1>2, UpTo, CodecLimits
<1>4. \E f : IsIt(MaxNesting, f)
  BY <1>3
<1> QED
  BY <1>4 DEF ObjectsUpTo, ObjectsBy, ObjectsOver

\* Its levels, one from the one before.
LEMMA ObjectLevels ==
    \A n \in 0..MaxNesting :
        /\ n < 2 => ObjectsUpTo[n] = {}
        /\ n >= 2 => n - 1 \in 0..MaxNesting /\ ObjectsUpTo[n] = ObjectsOver(ObjectsUpTo[n - 1])
<1> HIDE DEF ObjectsUpTo
<1>1. \A n \in 0..MaxNesting : ObjectsUpTo[n] = ObjectsBy(n, ObjectsUpTo)
  BY ObjectsUpToIsDefined
<1> QED
  BY <1>1, CodecLimits DEF ObjectsBy

\* An object of at most n levels is one of at most m, from n up.
LEMMA ObjectsGrow ==
    \A m \in 0..MaxNesting : \A n \in 0..m : ObjectsUpTo[n] \subseteq ObjectsUpTo[m]
<1> HIDE DEF ObjectsUpTo
<1> DEFINE S == {m \in 0..MaxNesting : \A n \in 0..m : ObjectsUpTo[n] \subseteq ObjectsUpTo[m]}
<1>1. 0 \in S
  BY CodecLimits
<1>2. \A m \in 0..MaxNesting : m \in S /\ m + 1 \in 0..MaxNesting => m + 1 \in S
  <2> SUFFICES ASSUME NEW m \in 0..MaxNesting, m \in S, m + 1 \in 0..MaxNesting,
                      NEW n \in 0..m
               PROVE  ObjectsUpTo[n] \subseteq ObjectsUpTo[m + 1]
    OBVIOUS
  <2>1. ObjectsUpTo[m] \subseteq ObjectsUpTo[m + 1]
    <3>1. CASE m < 2
      BY <3>1, ObjectLevels
    <3>2. CASE m >= 2
      <4>1. ObjectsUpTo[m - 1] \subseteq ObjectsUpTo[m]
        BY <3>2
      <4>2. ObjectsOver(ObjectsUpTo[m - 1]) \subseteq ObjectsOver(ObjectsUpTo[m])
        BY <4>1, ObjectsOverGrow
      <4>3. m + 1 >= 2 /\ (m + 1) - 1 = m
        BY <3>2
      <4>4. /\ ObjectsUpTo[m] = ObjectsOver(ObjectsUpTo[m - 1])
            /\ ObjectsUpTo[m + 1] = ObjectsOver(ObjectsUpTo[m])
        BY <3>2, <4>3, ObjectLevels
      <4> QED
        BY <4>2, <4>4
    <3> QED
      BY <3>1, <3>2
  <2> QED
    BY <2>1
<1>3. 0..MaxNesting \subseteq S
  <2> HIDE DEF S
  <2> QED
    BY <1>1, <1>2, UpTo, CodecLimits
<1> QED
  BY <1>3

\* Any string can be the text of a leaf.
LEMMA StringsAreWords == STRING \subseteq Words
BY Zenon DEF Words

\* The words that the encoders write are strings.
LEMMA OwnWordsAreStrings == OwnWords \subseteq STRING
<1>1. \A i \in DOMAIN AtomOrder : AtomOrder[i] \in STRING
  BY AtomsOrdered
<1> QED
  BY <1>1, AtomsSuffice

\* A sequence over a set.
LEMMA SeqShape ==
    ASSUME NEW S, NEW s \in Seq(S)
    PROVE  DOMAIN s = 1..Len(s) /\ Len(s) \in Nat /\ \A i \in DOMAIN s : s[i] \in S
OBVIOUS

\* What an object over some items looks like.
LEMMA ObjectShape ==
    ASSUME NEW S, NEW n \in ObjectsOver(S)
    PROVE  /\ n.tag \notin {"chain", "tree"} => n.tag \in STRING
           /\ n.atom \in Words
           /\ DOMAIN n.kids = 1..Len(n.kids) /\ Len(n.kids) \in Nat
           /\ \A i \in DOMAIN n.kids : Item(n, i) \in S
           /\ n.tag = "chain" <=> n \in Chains(S)
           /\ n.tag = "tree" <=> n \in BinaryTrees(S)
           /\ n.tag = "dict" <=> n \in Dicts(S)
<1>0. /\ \A o \in Chains(S) : /\ o.tag = "chain" /\ o.atom = ""
                              /\ o.kids \in Seq([val : S, next : Nat])
      /\ \A o \in BinaryTrees(S) : /\ o.tag = "tree" /\ o.atom = ""
                                   /\ o.kids \in Seq([val : S, left : Nat, right : Nat])
      /\ \A o \in Dicts(S) : o.tag = "dict" /\ o.atom \in Words /\ o.kids \in Seq(S)
  BY DEF Chains, BinaryTrees, Dicts
<1>1. CASE n \in [tag : STRING \ {"chain", "tree", "dict"}, atom : Words, kids : Seq(S)]
  <2>1. /\ n.tag \in STRING /\ n.tag \notin {"chain", "tree", "dict"}
        /\ n.atom \in Words /\ n.kids \in Seq(S)
    BY <1>1
  <2>2. \A i \in DOMAIN n.kids : Item(n, i) = n.kids[i]
    BY <2>1 DEF Item
  <2>3. DOMAIN n.kids = 1..Len(n.kids) /\ Len(n.kids) \in Nat /\ \A i \in DOMAIN n.kids : n.kids[i] \in S
    BY <2>1, SeqShape
  <2> QED
    BY <1>0, <2>1, <2>2, <2>3
<1>2. CASE n \in Dicts(S)
  <2>1. n.tag = "dict" /\ n.atom \in Words /\ n.kids \in Seq(S)
    BY <1>0, <1>2
  <2>2. \A i \in DOMAIN n.kids : Item(n, i) = n.kids[i]
    BY <2>1 DEF Item
  <2>3. DOMAIN n.kids = 1..Len(n.kids) /\ Len(n.kids) \in Nat /\ \A i \in DOMAIN n.kids : n.kids[i] \in S
    BY <2>1, SeqShape
  <2>4. n.tag \in STRING
    BY <2>1, OwnWordsAreStrings DEF OwnWords
  <2> QED
    BY <1>0, <1>2, <2>1, <2>2, <2>3, <2>4
<1>3. "" \in Words
  <2>1. "" \in STRING
    BY OwnWordsAreStrings DEF OwnWords
  <2> QED
    BY <2>1, StringsAreWords
<1>4. CASE n \in Chains(S)
  <2> DEFINE C == [val : S, next : Nat]
  <2>1. n.tag = "chain" /\ n.atom = "" /\ n.kids \in Seq(C)
    BY <1>0, <1>4
  <2>2. \A i \in DOMAIN n.kids : Item(n, i) = n.kids[i].val
    BY <2>1 DEF Item
  <2>3. DOMAIN n.kids = 1..Len(n.kids) /\ Len(n.kids) \in Nat /\ \A i \in DOMAIN n.kids : n.kids[i] \in C
    <3> HIDE DEF C
    <3> QED
      BY <2>1, SeqShape
  <2>4. \A c \in C : c.val \in S
    OBVIOUS
  <2> HIDE DEF C
  <2> QED
    BY <1>0, <1>3, <1>4, <2>1, <2>2, <2>3, <2>4
<1>5. CASE n \in BinaryTrees(S)
  <2> DEFINE C == [val : S, left : Nat, right : Nat]
  <2>1. n.tag = "tree" /\ n.atom = "" /\ n.kids \in Seq(C)
    BY <1>0, <1>5
  <2>2. \A i \in DOMAIN n.kids : Item(n, i) = n.kids[i].val
    BY <2>1 DEF Item
  <2>3. DOMAIN n.kids = 1..Len(n.kids) /\ Len(n.kids) \in Nat /\ \A i \in DOMAIN n.kids : n.kids[i] \in C
    <3> HIDE DEF C
    <3> QED
      BY <2>1, SeqShape
  <2>4. \A c \in C : c.val \in S
    OBVIOUS
  <2> HIDE DEF C
  <2> QED
    BY <1>0, <1>3, <1>5, <2>1, <2>2, <2>3, <2>4
<1> QED
  BY <1>1, <1>2, <1>4, <1>5, Zenon DEF ObjectsOver

\* A conversion of objects depends on those of the items alone.
LEMMA ItemsAgree ==
    ASSUME NEW S, NEW f, NEW g, \A k \in S : f[k] = g[k], NEW n \in ObjectsOver(S)
    PROVE  OfItems(f, n) = OfItems(g, n)
<1>1. \A i \in DOMAIN n.kids : Item(n, i) \in S
  BY ObjectShape
<1> QED
  BY <1>1 DEF OfItems

\* The recursive function PyEncode exists.
LEMMA PyEncodeIsDefined ==
    \A n \in Objects : PyEncode[n] = [depth \in Nat |-> PyEncodeBy(n, OfItems(PyEncode, n), depth)]
<1> DEFINE By(n, f) == [depth \in Nat |-> PyEncodeBy(n, OfItems(f, n), depth)]
           IsIt(m, f) == f = [n \in ObjectsUpTo[m] |-> By(n, f)]
           S == {m \in 0..MaxNesting : \E f : IsIt(m, f)}
<1> HIDE DEF ObjectsUpTo
<1>1. 0 \in S
  <2>1. IsIt(0, [n \in {} |-> 0])
    BY ObjectLevels, CodecLimits
  <2>2. 0 \in 0..MaxNesting
    BY CodecLimits
  <2> HIDE DEF IsIt
  <2> QED
    BY <2>1, <2>2
<1>2. \A m \in 0..MaxNesting : m \in S /\ m + 1 \in 0..MaxNesting => m + 1 \in S
  <2> SUFFICES ASSUME NEW m \in 0..MaxNesting, m + 1 \in 0..MaxNesting,
                      NEW f, IsIt(m, f)
               PROVE  \E g : IsIt(m + 1, g)
    OBVIOUS
  <2> DEFINE g == [n \in ObjectsUpTo[m + 1] |-> By(n, f)]
  <2>1. \A k \in ObjectsUpTo[m] : f[k] = g[k]
    <3>1. ObjectsUpTo[m] \subseteq ObjectsUpTo[m + 1]
      BY ObjectsGrow
    <3> HIDE DEF By
    <3> QED
      BY <3>1
  <2>2. \A n \in ObjectsUpTo[m + 1] : OfItems(f, n) = OfItems(g, n)
    <3> SUFFICES ASSUME NEW n \in ObjectsUpTo[m + 1] PROVE OfItems(f, n) = OfItems(g, n)
      OBVIOUS
    <3>1. n \in ObjectsOver(ObjectsUpTo[m])
      <4>1. (m + 1) - 1 = m
        OBVIOUS
      <4>2. m + 1 >= 2
        BY ObjectLevels
      <4> QED
        BY <4>1, <4>2, ObjectLevels
    <3> HIDE DEF g, IsIt
    <3> QED
      BY <2>1, <3>1, ItemsAgree
  <2>3. \A n \in ObjectsUpTo[m + 1] : By(n, f) = By(n, g)
    <3> HIDE DEF g, IsIt
    <3> QED
      BY <2>2
  <2>4. IsIt(m + 1, g)
    <3> HIDE DEF By
    <3> QED
      BY <2>3
  <2> QED
    BY <2>4
<1>3. MaxNesting \in S
  <2> HIDE DEF S
  <2> QED
    BY <1>1, <1>2, UpTo, CodecLimits
<1>4. \E f : IsIt(MaxNesting, f)
  BY <1>3
<1>5. PyEncode = [n \in Objects |-> By(n, PyEncode)]
  BY <1>4, Zenon DEF PyEncode, Objects
<1> QED
  BY <1>5

\* The wire of an object, from those of its items.
LEMMA PyEncodeAt ==
    \A n \in Objects : \A d \in Nat : PyEncode[n][d] = PyEncodeBy(n, OfItems(PyEncode, n), d)
BY PyEncodeIsDefined

-----------------------------------------------------------------------------
(* Linked lists: the cells met.                                            *)
NextMet(cells, f, k) ==
    IF k = 0 THEN 1 ELSE IF f[k - 1] = 0 THEN 0 ELSE cells[f[k - 1]].next
\* The recursive function inside Followed exists.
LEMMA FollowedIsDefined ==
    ASSUME NEW cells, NEW len \in Nat, Len(cells) = len
    PROVE  Followed(cells) = [k \in 0..len |-> NextMet(cells, Followed(cells), k)]
<1> DEFINE IsIt(m, f) == f = [k \in 0..m |-> NextMet(cells, f, k)]
           S == {m \in 0..len : \E f : IsIt(m, f)}
<1>1. 0 \in S
  <2>1. IsIt(0, [k \in 0..0 |-> 1])
    BY DEF NextMet
  <2> QED
    BY <2>1
<1>2. \A m \in 0..len : m \in S /\ m + 1 \in 0..len => m + 1 \in S
  <2> SUFFICES ASSUME NEW m \in 0..len, m + 1 \in 0..len, NEW f, IsIt(m, f)
               PROVE  \E g : IsIt(m + 1, g)
    OBVIOUS
  <2> DEFINE g == [k \in 0..(m + 1) |-> NextMet(cells, f, k)]
  <2>1. \A k \in 0..m : g[k] = f[k]
    OBVIOUS
  <2>2. \A k \in 0..(m + 1) : NextMet(cells, f, k) = NextMet(cells, g, k)
    <3> SUFFICES ASSUME NEW k \in 0..(m + 1), k # 0 PROVE f[k - 1] = g[k - 1]
      BY DEF NextMet
    <3>1. k - 1 \in 0..m
      OBVIOUS
    <3> QED
      BY <3>1, <2>1
  <2>3. IsIt(m + 1, g)
    <3> HIDE DEF g
    <3>1. g = [k \in 0..(m + 1) |-> NextMet(cells, f, k)]
      BY DEF g
    <3> QED
      BY <2>2, <3>1
  <2> QED
    BY <2>3
<1>3. len \in S
  <2> HIDE DEF S
  <2>1. 0..len \subseteq S
    BY <1>1, <1>2, UpTo
  <2> QED
    BY <2>1
<1>4. \E f : IsIt(len, f)
  BY <1>3
<1> QED
  BY <1>4, Zenon DEF Followed, NextMet

\* They are cells of the list until the end is met, if it is.
LEMMA FollowedAreCells ==
    ASSUME NEW cells, NEW len \in Nat, len >= 1, Len(cells) = len,
           \A i \in 1..len : cells[i].next \in 0..len
    PROVE  /\ DOMAIN Followed(cells) = 0..len
           /\ \A k \in 0..len : Followed(cells)[k] \in 0..len
<1> DEFINE at == Followed(cells)
           S == {k \in 0..len : at[k] \in 0..len}
<1>1. at = [k \in 0..len |-> NextMet(cells, at, k)]
  BY FollowedIsDefined
<1> HIDE DEF at
<1>2. \A k \in 0..len : at[k] = NextMet(cells, at, k)
  BY <1>1
<1>3. 0 \in S
  BY <1>2 DEF NextMet
<1>4. \A k \in 0..len : k \in S /\ k + 1 \in 0..len => k + 1 \in S
  <2> SUFFICES ASSUME NEW k \in 0..len, at[k] \in 0..len, k + 1 \in 0..len
               PROVE  at[k + 1] \in 0..len
    OBVIOUS
  <2>1. (k + 1) - 1 = k /\ k + 1 # 0
    OBVIOUS
  <2>2. at[k + 1] = IF at[k] = 0 THEN 0 ELSE cells[at[k]].next
    BY <1>2, <2>1 DEF NextMet
  <2> QED
    BY <2>2
<1>5. 0..len \subseteq S
  <2> HIDE DEF S
  <2> QED
    BY <1>3, <1>4, UpTo
<1> QED
  BY <1>1, <1>5 DEF at

\* Among more places than there are cells, two hold the same cell or one the end.
LEMMA WalkStops ==
    ASSUME NEW len \in Nat, NEW at \in [0..len -> 0..len]
    PROVE  \E k \in 0..len : at[k] = 0 \/ \E j \in 0..(k - 1) : at[j] = at[k]
<1> SUFFICES ASSUME \A k \in 0..len : at[k] # 0
             PROVE  \E k \in 0..len : \E j \in 0..(k - 1) : at[j] = at[k]
  OBVIOUS
<1>1. at \in [0..len -> 1..len]
  OBVIOUS
<1>2. /\ IsFiniteSet(0..len) /\ Cardinality(0..len) = len + 1
      /\ IsFiniteSet(1..len) /\ Cardinality(1..len) = len
  <2>1. 0 \in Int /\ 1 \in Int /\ len \in Int
    OBVIOUS
  <2> QED
    BY <2>1, FS_Interval
<1>3. \E x, y \in 0..len : x # y /\ at[x] = at[y]
  <2> DEFINE A == 0..len
             B == 1..len
  <2>1. IsFiniteSet(A) /\ IsFiniteSet(B) /\ Cardinality(B) < Cardinality(A) /\ at \in [A -> B]
    BY <1>1, <1>2
  <2> HIDE DEF A, B
  <2>2. \E x, y \in A : x # y /\ at[x] = at[y]
    BY <2>1, FS_PigeonHole
  <2> QED
    BY <2>2 DEF A
<1> QED
  BY <1>3

\* What a list is written as: cells of it, and a word.
LEMMA ListIsWritten ==
    ASSUME NEW S, NEW n \in Chains(S)
    PROVE  /\ \E stop \in Nat : DOMAIN list_to_canonical(n).order = 1..stop
           /\ \A k \in DOMAIN list_to_canonical(n).order :
                 list_to_canonical(n).order[k] \in 1..Len(n.kids)
           /\ list_to_canonical(n).cycle \in Words
<1> DEFINE C == [val : S, next : Nat]
           len == Len(n.kids)
           at == Followed(n.kids)
           Met(k) == {j \in 0..(k - 1) : at[j] = at[k]}
           IsStop(k) == /\ at[k] = 0 \/ Met(k) # {}
                        /\ \A j \in 0..(k - 1) : at[j] # 0 /\ Met(j) = {}
           stop == CHOOSE k \in DOMAIN at : IsStop(k)
           order == [k \in 1..stop |-> at[k - 1]]
           cycle == IF at[stop] = 0 THEN "none" ELSE ToString(CHOOSE j \in Met(stop) : TRUE)
<1>1. list_to_canonical(n).order = order /\ list_to_canonical(n).cycle = cycle
  <2>1. list_to_canonical(n) = [order |-> order, cycle |-> cycle]
    BY Zenon DEF list_to_canonical
  <2> HIDE DEF order, cycle
  <2> QED
    BY <2>1
<1>2. /\ n.kids \in Seq(C) /\ len \in 1..MaxNodes
      /\ \A i \in DOMAIN n.kids : n.kids[i].next <= len
  BY DEF Chains
<1>3. DOMAIN at = 0..len /\ at \in [0..len -> 0..len]
  <2>1. len \in Nat /\ len >= 1
    BY <1>2, CodecLimits
  <2>2. \A i \in 1..len : n.kids[i].next \in 0..len
    <3>1. \A i \in 1..len : i \in DOMAIN n.kids /\ n.kids[i] \in C
      <4> HIDE DEF C
      <4> QED
        BY <1>2, SeqShape
    <3>2. \A c \in C : c.next \in Nat
      OBVIOUS
    <3> HIDE DEF C, len
    <3> QED
      BY <1>2, <2>1, <3>1, <3>2
  <2>3. DOMAIN at = 0..len /\ \A k \in 0..len : at[k] \in 0..len
    BY <2>1, <2>2, FollowedAreCells
  <2>4. at = [k \in 0..len |-> at[k]]
    <3>1. at = [k \in 0..len |-> NextMet(n.kids, at, k)]
      BY <2>1, FollowedIsDefined
    <3> HIDE DEF at
    <3> QED
      BY <3>1
  <2> HIDE DEF at
  <2> QED
    BY <2>3, <2>4
<1> HIDE DEF at, len
<1>4. stop \in 0..len /\ IsStop(stop)
  <2> DEFINE Stops == {k \in 0..len : at[k] = 0 \/ Met(k) # {}}
  <2>1. len \in Nat
    BY <1>2, CodecLimits
  <2>2. Stops # {}
    <3>1. PICK k \in 0..len : at[k] = 0 \/ \E j \in 0..(k - 1) : at[j] = at[k]
      BY <1>3, <2>1, WalkStops
    <3>2. k \in Stops
      BY <3>1
    <3> QED
      BY <3>2
  <2>3. PICK k \in Stops : \A j \in Stops : k <= j
    <3>1. Stops \in SUBSET Nat
      OBVIOUS
    <3> HIDE DEF Stops
    <3> QED
      BY <2>2, <3>1, Least
  <2>4. \A j \in 0..(k - 1) : j \in 0..len /\ j \notin Stops
    <3>1. k \in 0..len
      OBVIOUS
    <3> HIDE DEF Stops
    <3> QED
      BY <2>1, <2>3, <3>1
  <2>5. k \in 0..len /\ IsStop(k)
    BY <2>4
  <2>6. k \in DOMAIN at
    BY <1>3, <2>5
  <2>7. stop \in DOMAIN at /\ IsStop(stop)
    <3> HIDE DEF IsStop
    <3> QED
      BY <2>5, <2>6
  <2> HIDE DEF stop, IsStop
  <2> QED
    BY <1>3, <2>7
<1>5. \A k \in 1..stop : at[k - 1] \in 1..len
  <2> SUFFICES ASSUME NEW k \in 1..stop PROVE at[k - 1] \in 1..len
    OBVIOUS
  <2> HIDE DEF stop
  <2>1. k - 1 \in 0..(stop - 1) /\ k - 1 \in 0..len
    BY <1>2, <1>4, CodecLimits
  <2>2. at[k - 1] # 0
    BY <1>4, <2>1
  <2>3. at[k - 1] \in 0..len
    BY <1>3, <2>1
  <2> QED
    BY <2>2, <2>3
<1>6. cycle \in Words
  <2> HIDE DEF stop
  <2>1. CASE at[stop] = 0
    <3>1. "none" \in Words
      BY OwnWordsAreStrings, StringsAreWords DEF OwnWords
    <3> QED
      BY <2>1, <3>1
  <2>2. CASE at[stop] # 0
    <3> DEFINE j == CHOOSE i \in Met(stop) : TRUE
    <3>1. j \in Met(stop)
      BY <1>4, <2>2
    <3>2. j \in 0..MaxNodes
      <4>1. j \in 0..(stop - 1)
        BY <3>1
      <4> HIDE DEF j
      <4> QED
        BY <4>1, <1>2, <1>4, CodecLimits
    <3>3. cycle = ToString(j)
      BY <2>2
    <3> HIDE DEF j, cycle
    <3>4. ToString(j) \in {ToString(i) : i \in 0..MaxNodes}
      BY <3>2, Zenon
    <3> QED
      BY <3>3, <3>4, Zenon DEF Words
  <2> QED
    BY <2>1, <2>2
<1>7. stop \in Nat /\ DOMAIN order = 1..stop
  BY <1>2, <1>4, CodecLimits
<1> HIDE DEF stop, cycle
<1>8. \A k \in DOMAIN order : order[k] \in 1..len
  BY <1>5, <1>7
<1> HIDE DEF order
<1> QED
  BY <1>1, <1>6, <1>7, <1>8 DEF len

-----------------------------------------------------------------------------
(* Binary trees: the level order.                                          *)
VisitAt(cells, f, k) ==
    IF k = 0 THEN [queue |-> <<1>>, slots |-> <<>>] ELSE Visit(f[k - 1], cells)
\* The recursive function inside Visited exists.
LEMMA VisitedIsDefined ==
    ASSUME NEW cells, NEW len \in Nat, 2 * Len(cells) + 1 = len
    PROVE  Visited(cells) = [k \in 0..len |-> VisitAt(cells, Visited(cells), k)]
<1> DEFINE IsIt(m, f) == f = [k \in 0..m |-> VisitAt(cells, f, k)]
           S == {m \in 0..len : \E f : IsIt(m, f)}
<1>1. 0 \in S
  <2>1. IsIt(0, [k \in 0..0 |-> [queue |-> <<1>>, slots |-> <<>>]])
    BY DEF VisitAt
  <2> HIDE DEF IsIt
  <2> QED
    BY <2>1
<1>2. \A m \in 0..len : m \in S /\ m + 1 \in 0..len => m + 1 \in S
  <2> SUFFICES ASSUME NEW m \in 0..len, m + 1 \in 0..len, NEW f, IsIt(m, f)
               PROVE  \E g : IsIt(m + 1, g)
    OBVIOUS
  <2> DEFINE g == [k \in 0..(m + 1) |-> VisitAt(cells, f, k)]
  <2>1. \A k \in 0..m : g[k] = f[k]
    OBVIOUS
  <2>2. \A k \in 0..(m + 1) : VisitAt(cells, f, k) = VisitAt(cells, g, k)
    <3> SUFFICES ASSUME NEW k \in 0..(m + 1), k # 0 PROVE f[k - 1] = g[k - 1]
      BY DEF VisitAt
    <3>1. k - 1 \in 0..m
      OBVIOUS
    <3> QED
      BY <3>1, <2>1
  <2>3. IsIt(m + 1, g)
    <3> HIDE DEF g
    <3>1. g = [k \in 0..(m + 1) |-> VisitAt(cells, f, k)]
      BY DEF g
    <3> QED
      BY <2>2, <3>1
  <2> QED
    BY <2>3
<1>3. len \in S
  <2> HIDE DEF S
  <2>1. 0..len \subseteq S
    BY <1>1, <1>2, UpTo
  <2> QED
    BY <2>1
<1>4. \E f : IsIt(len, f)
  BY <1>3
<1> QED
  BY <1>4, Zenon DEF Visited, VisitAt

Visits(len) == [queue : Seq(0..len), slots : Seq(0..len)]
\* A visit leads from cells of the tree to cells of the tree.
LEMMA VisitLeadsToCells ==
    ASSUME NEW cells, NEW len \in Nat, NEW state \in Visits(len),
           \A i \in 1..len : cells[i].left \in 0..len /\ cells[i].right \in 0..len
    PROVE  Visit(state, cells) \in Visits(len)
<1> DEFINE node == Head(state.queue)
           rest == Tail(state.queue)
           after == [slots |-> Append(state.slots, node),
                     queue |-> IF node = 0 THEN rest
                               ELSE rest \o <<cells[node].left, cells[node].right>>]
<1>1. Visit(state, cells) = IF state.queue = <<>> THEN state ELSE after
  BY Zenon DEF Visit, Children
<1>2. state.queue \in Seq(0..len) /\ state.slots \in Seq(0..len)
  BY DEF Visits
<1>3. SUFFICES ASSUME state.queue # <<>> PROVE after \in Visits(len)
  BY <1>1
<1>4. node \in 0..len /\ rest \in Seq(0..len)
  <2> DEFINE P == 0..len
  <2>1. state.queue \in Seq(P)
    BY <1>2
  <2> HIDE DEF P
  <2>2. Head(state.queue) \in P /\ Tail(state.queue) \in Seq(P)
    BY <1>3, <2>1, HeadTailProperties
  <2> QED
    BY <2>2 DEF P
<1> HIDE DEF node, rest
<1>5. Append(state.slots, node) \in Seq(0..len)
  BY <1>2, <1>4
<1>6. (IF node = 0 THEN rest ELSE rest \o <<cells[node].left, cells[node].right>>) \in Seq(0..len)
  <2>1. CASE node = 0
    BY <1>4, <2>1
  <2>2. CASE node # 0
    <3>1. cells[node].left \in 0..len /\ cells[node].right \in 0..len
      BY <1>4, <2>2
    <3>2. <<cells[node].left, cells[node].right>> \in Seq(0..len)
      BY <3>1
    <3>3. rest \o <<cells[node].left, cells[node].right>> \in Seq(0..len)
      BY <1>4, <3>2
    <3> QED
      BY <2>2, <3>3
  <2> QED
    BY <2>1, <2>2
<1> QED
  BY <1>5, <1>6 DEF Visits

\* The level order lists cells of the tree, and absent ones.
LEMMA LevelOrderIsOfCells ==
    ASSUME NEW cells, NEW len \in Nat, len >= 1, Len(cells) = len,
           \A i \in 1..len : cells[i].left \in 0..len /\ cells[i].right \in 0..len
    PROVE  LevelOrder(cells) \in Seq(0..len)
<1> DEFINE all == 2 * Len(cells) + 1
           after == Visited(cells)
           S == {k \in 0..all : after[k] \in Visits(len)}
<1>1. all \in Nat /\ all = 2 * Len(cells) + 1
  OBVIOUS
<1> HIDE DEF all
<1>2. after = [k \in 0..all |-> VisitAt(cells, after, k)]
  BY <1>1, VisitedIsDefined
<1> HIDE DEF after
<1>3. \A k \in 0..all : after[k] = VisitAt(cells, after, k)
  BY <1>2
<1>4. 0 \in S
  <2>1. [queue |-> <<1>>, slots |-> <<>>] \in Visits(len)
    BY DEF Visits
  <2>2. after[0] = [queue |-> <<1>>, slots |-> <<>>]
    <3>1. after[0] = VisitAt(cells, after, 0)
      BY <1>1, <1>3
    <3>2. VisitAt(cells, after, 0) = [queue |-> <<1>>, slots |-> <<>>]
      BY Zenon DEF VisitAt
    <3> QED
      BY <3>1, <3>2
  <2> QED
    BY <1>1, <2>1, <2>2
<1>5. \A k \in 0..all : k \in S /\ k + 1 \in 0..all => k + 1 \in S
  <2> SUFFICES ASSUME NEW k \in 0..all, after[k] \in Visits(len), k + 1 \in 0..all
               PROVE  after[k + 1] \in Visits(len)
    OBVIOUS
  <2>1. (k + 1) - 1 = k /\ k + 1 # 0
    BY <1>1
  <2>2. after[k + 1] = Visit(after[k], cells)
    BY <1>3, <2>1 DEF VisitAt
  <2>3. Visit(after[k], cells) \in Visits(len)
    BY VisitLeadsToCells
  <2> QED
    BY <2>2, <2>3
<1>6. after[all] \in Visits(len)
  <2> HIDE DEF S
  <2>1. 0..all \subseteq S
    BY <1>1, <1>4, <1>5, UpTo
  <2>2. all \in S
    BY <1>1, <2>1
  <2> QED
    BY <2>2 DEF S
<1>7. after[all].slots \in Seq(0..len)
  BY <1>6 DEF Visits
<1> QED
  BY <1>1, <1>7, Zenon DEF LevelOrder, after

\* What a tree is written as: cells of it that hold a value, and gaps.
LEMMA TreeIsWritten ==
    ASSUME NEW S, NEW n \in BinaryTrees(S)
    PROVE  /\ \E len \in Nat : DOMAIN tree_to_canonical(n) = 1..len
           /\ \A i \in DOMAIN tree_to_canonical(n) :
                 ~Absentee(n, tree_to_canonical(n)[i]) =>
                     tree_to_canonical(n)[i] \in 1..Len(n.kids)
<1> DEFINE C == [val : S, left : Nat, right : Nat]
           len == Len(n.kids)
           slots == LevelOrder(n.kids)
           Real(i) == ~Absentee(n, slots[i])
           IsLast(k) == /\ k # 0 => Real(k)
                        /\ \A i \in (k + 1)..Len(slots) : ~Real(i)
           last == CHOOSE k \in 0..Len(slots) : IsLast(k)
<1>1. tree_to_canonical(n) = SubSeq(slots, 1, last)
  BY Zenon DEF tree_to_canonical, StripNone
<1>2. slots \in Seq(0..len)
  <2>1. /\ n.kids \in Seq(C) /\ n.kids # <<>>
        /\ \A i \in DOMAIN n.kids : n.kids[i].left <= len /\ n.kids[i].right <= len
    BY DEF BinaryTrees
  <2>2. len \in Nat /\ len >= 1
    BY <2>1
  <2>3. \A i \in 1..len : i \in DOMAIN n.kids /\ n.kids[i] \in C
    <3> HIDE DEF C
    <3> QED
      BY <2>1, SeqShape
  <2>4. \A c \in C : c.left \in Nat /\ c.right \in Nat
    OBVIOUS
  <2>5. \A i \in 1..len : n.kids[i].left \in 0..len /\ n.kids[i].right \in 0..len
    <3> HIDE DEF C, len
    <3> QED
      BY <2>1, <2>2, <2>3, <2>4
  <2> QED
    BY <2>2, <2>5, LevelOrderIsOfCells
<1>3. \A i \in 1..Len(slots) : Real(i) => slots[i] \in 1..len
  <2> SUFFICES ASSUME NEW i \in 1..Len(slots), Real(i) PROVE slots[i] \in 1..len
    OBVIOUS
  <2>1. slots[i] \in 0..len
    <3> DEFINE P == 0..len
    <3>1. DOMAIN slots = 1..Len(slots) /\ \A j \in DOMAIN slots : slots[j] \in P
      <4> HIDE DEF slots, len, P
      <4>1. slots \in Seq(P)
        BY <1>2 DEF P
      <4> QED
        BY <4>1, SeqShape
    <3> HIDE DEF slots, len
    <3> QED
      BY <3>1
  <2>2. slots[i] # 0
    BY DEF Absentee
  <2> QED
    BY <2>1, <2>2
<1> HIDE DEF slots, len, Real
<1>4. Len(slots) \in Nat
  BY <1>2
<1>5. last \in 0..Len(slots)
  <2> DEFINE M == {m \in 0..Len(slots) : \E k \in 0..m :
                       (k # 0 => Real(k)) /\ \A i \in (k + 1)..m : ~Real(i)}
  <2>1. 0 \in M
    BY <1>4
  <2>2. \A m \in 0..Len(slots) : m \in M /\ m + 1 \in 0..Len(slots) => m + 1 \in M
    <3> SUFFICES ASSUME NEW m \in 0..Len(slots), m \in M, m + 1 \in 0..Len(slots)
                 PROVE  m + 1 \in M
      OBVIOUS
    <3>1. CASE Real(m + 1)
      <4>1. \A i \in ((m + 1) + 1)..(m + 1) : ~Real(i)
        BY <1>4
      <4> QED
        BY <1>4, <3>1, <4>1
    <3>2. CASE ~Real(m + 1)
      <4>1. PICK k \in 0..m : (k # 0 => Real(k)) /\ \A i \in (k + 1)..m : ~Real(i)
        OBVIOUS
      <4>2. \A i \in (k + 1)..(m + 1) : ~Real(i)
        <5> SUFFICES ASSUME NEW i \in (k + 1)..(m + 1) PROVE ~Real(i)
          OBVIOUS
        <5>1. i = m + 1 \/ i \in (k + 1)..m
          BY <1>4
        <5> QED
          BY <3>2, <4>1, <5>1
      <4>3. k \in 0..(m + 1)
        BY <1>4
      <4> QED
        BY <4>1, <4>2, <4>3
    <3> QED
      BY <3>1, <3>2
  <2>3. Len(slots) \in M
    <3> HIDE DEF M
    <3>1. 0..Len(slots) \subseteq M
      BY <1>4, <2>1, <2>2, UpTo
    <3> QED
      BY <1>4, <3>1
  <2>4. \E k \in 0..Len(slots) : IsLast(k)
    BY <2>3
  <2> HIDE DEF IsLast
  <2> QED
    BY <2>4
<1> HIDE DEF last
<1>6. DOMAIN SubSeq(slots, 1, last) = 1..last
  BY <1>2, <1>4, <1>5
<1>7. \A i \in 1..last : SubSeq(slots, 1, last)[i] = slots[i] /\ i \in 1..Len(slots)
  BY <1>2, <1>4, <1>5
<1>8. last \in Nat
  BY <1>4, <1>5
<1> QED
  BY <1>1, <1>3, <1>6, <1>7, <1>8 DEF len, Real

-----------------------------------------------------------------------------
(* Trees in which the two encoders count alike.                            *)
Plain(w) == \A t \in Parts[w] : t.tag \notin {"enum", "exception", "complex"}
\* A plain tree has plain children.
LEMMA PlainThroughout ==
    ASSUME NEW w \in Trees, Plain(w)
    PROVE  /\ w.tag \notin {"enum", "exception", "complex"}
           /\ \A i \in DOMAIN w.kids : Plain(w.kids[i])
<1>1. Parts[w] = {w} \cup UNION Range(OfKids(Parts, w))
  BY PartsIsDefined DEF PartsBy
<1>2. w \in Parts[w]
  BY <1>1
<1>3. \A i \in DOMAIN w.kids : Parts[w.kids[i]] \subseteq Parts[w]
  <2> TAKE i \in DOMAIN w.kids
  <2>1. Parts[w.kids[i]] \in Range(OfKids(Parts, w))
    BY DEF Range, OfKids
  <2> QED
    BY <1>1, <2>1
<1> QED
  BY <1>2, <1>3, Zenon DEF Plain

\* The two counts of the nodes of a plain tree are the same.
LEMMA NodesAgree == \A w \in Trees : Plain(w) => NodesOf[w] = PyNodes[w]
<1> DEFINE S == {n \in 0..MaxNesting : \A w \in Nested[n] : Plain(w) => NodesOf[w] = PyNodes[w]}
<1> HIDE DEF Nested
<1>1. 0 \in S
  BY NestedLevels, CodecLimits
<1>2. \A n \in 0..MaxNesting : n \in S /\ n + 1 \in 0..MaxNesting => n + 1 \in S
  <2> SUFFICES ASSUME NEW n \in 0..MaxNesting, n + 1 \in 0..MaxNesting,
                      \A k \in Nested[n] : Plain(k) => NodesOf[k] = PyNodes[k],
                      NEW w \in Nested[n + 1], Plain(w)
               PROVE  NodesOf[w] = PyNodes[w]
    OBVIOUS
  <2>1. w \in Trees
    BY NestedAreTrees
  <2>2. w.tag # "complex" /\ \A i \in DOMAIN w.kids : Plain(w.kids[i])
    BY <2>1, PlainThroughout
  <2>3. \A i \in DOMAIN w.kids : w.kids[i] \in Nested[n]
    <3>1. n + 1 \in 1..MaxNesting /\ (n + 1) - 1 = n
      OBVIOUS
    <3> QED
      BY <3>1, TreeShape
  <2>4. OfKids(NodesOf, w) = OfKids(PyNodes, w)
    BY <2>2, <2>3 DEF OfKids
  <2>5. NodesOf[w] = NodesBy(w, OfKids(NodesOf, w))
    BY <2>1, NodesOfIsDefined
  <2>6. PyNodes[w] = NodesBy(w, OfKids(PyNodes, w))
    BY <2>1, <2>2, PyNodesIsDefined DEF PyNodesBy
  <2> QED
    BY <2>4, <2>5, <2>6
<1>3. MaxNesting \in S
  <2> HIDE DEF S
  <2> QED
    BY <1>1, <1>2, UpTo, CodecLimits
<1> QED
  BY <1>3 DEF Trees

\* What is packed is as deep as what it holds.
LEMMA PackedIsShallow ==
    ASSUME NEW len \in Nat, NEW kids, DOMAIN kids = 1..len, NEW tag, NEW atom, tag # "deep",
           \A i \in 1..len : kids[i] # TooDeep
    PROVE  Pack(tag, atom, kids) # TooDeep
<1>1. CASE \E i \in DOMAIN kids : IsFault(kids[i])
  <2> DEFINE Faults == {i \in 1..len : IsFault(kids[i])}
             IsFirst(i) == IsFault(kids[i]) /\ \A j \in 1..(i - 1) : ~IsFault(kids[j])
             first == CHOOSE i \in DOMAIN kids : IsFirst(i)
  <2>1. PICK i \in Faults : \A j \in Faults : i <= j
    <3>1. Faults \in SUBSET Nat /\ Faults # {}
      BY <1>1
    <3> HIDE DEF Faults
    <3> QED
      BY <3>1, Least
  <2>2. i \in DOMAIN kids /\ IsFirst(i)
    <3>1. i \in 1..len /\ IsFault(kids[i])
      OBVIOUS
    <3>2. \A j \in 1..(i - 1) : j \in 1..len /\ j \notin Faults
      <4> HIDE DEF Faults
      <4> QED
        BY <2>1, <3>1
    <3> QED
      BY <3>1, <3>2
  <2>3. first \in DOMAIN kids
    <3> HIDE DEF IsFirst
    <3> QED
      BY <2>2
  <2>4. Pack(tag, atom, kids) = kids[first]
    BY <1>1, Zenon DEF Pack, FirstFault
  <2> HIDE DEF first
  <2> QED
    BY <2>3, <2>4
<1>2. CASE ~\E i \in DOMAIN kids : IsFault(kids[i])
  <2>1. Pack(tag, atom, kids) = V(tag, atom, kids)
    BY <1>2, Zenon DEF Pack
  <2>2. V(tag, atom, kids).tag = tag /\ TooDeep.tag = "deep"
    BY VFields, LeafFields DEF TooDeep
  <2> QED
    BY <2>1, <2>2
<1> QED
  BY <1>1, <1>2

\* What a tree is made of.
LEMMA KidsOfTrees ==
    \A w \in Trees : /\ w.tag \in STRING /\ w.atom \in Words
                     /\ DOMAIN w.kids = 1..Len(w.kids) /\ Len(w.kids) \in Nat
                     /\ \A i \in DOMAIN w.kids : w.kids[i] \in Trees
<1> SUFFICES ASSUME NEW w \in Trees
             PROVE  /\ w.tag \in STRING /\ w.atom \in Words
                    /\ DOMAIN w.kids = 1..Len(w.kids) /\ Len(w.kids) \in Nat
                    /\ \A i \in DOMAIN w.kids : w.kids[i] \in Trees
  OBVIOUS
<1> HIDE DEF Nested
<1>1. MaxNesting \in 1..MaxNesting
  BY NestedAreTrees, CodecLimits
<1>2. w \in Nested[MaxNesting]
  BY DEF Trees
<1> QED
  BY <1>1, <1>2, TreeShape, NestedAreTrees

\* A check can only fail with the validation error.
LEMMA BadIsShallow == Bad # TooDeep /\ \A b, ok : b # TooDeep => Checked(b, ok) # TooDeep
<1>1. Bad.tag = "bad" /\ TooDeep.tag = "deep"
  BY LeafFields DEF Bad, TooDeep
<1> QED
  BY <1>1 DEF Checked

\* The tags that a target's answer can have, and those that enter a level.
LeafTags == TextTags \cup {"int", "null"}
MeteredTags == {"list", "tuple", "record", "set", "frozenset", "dict", "ListNode", "TreeNode"}
\* What holds shallow trees is itself within the budget.
LEMMA BuiltIsShallow ==
    ASSUME NEW w \in Trees, NEW d \in Nat, NEW e \in Nat,
           \/ w.tag \in MeteredTags /\ e = d + 1 /\ d + 1 <= MaxDepth
           \/ w.tag \in {"entry", "field"} /\ e = d,
           \A i \in DOMAIN w.kids : Build[w.kids[i]][e] # TooDeep
    PROVE  Build[w][d] # TooDeep
<1> DEFINE kids == OfKids(Build, w)
           len == Len(w.kids)
           built == BuildAll(w, kids, e)
           fields == [i \in DOMAIN w.kids |->
                         IF \E j \in 1..(i - 1) : w.kids[j].atom = w.kids[i].atom
                         THEN Bad ELSE built[i]]
           slots == [i \in DOMAIN w.kids |-> IF w.kids[i] = Gap THEN Gap ELSE built[i]]
<1>1. DOMAIN w.kids = 1..len /\ len \in Nat
  BY KidsOfTrees
<1>2. DOMAIN built = 1..len /\ \A i \in 1..len : built[i] # TooDeep
  BY <1>1, BadIsShallow DEF BuildAll, OfKids
<1>3. DOMAIN fields = 1..len /\ \A i \in 1..len : fields[i] # TooDeep
  <2> HIDE DEF built
  <2> QED
    BY <1>1, <1>2, BadIsShallow
<1>4. DOMAIN slots = 1..len /\ \A i \in 1..len : slots[i] # TooDeep
  <2>1. Gap.tag = "gap" /\ TooDeep.tag = "deep"
    BY LeafFields DEF Gap, TooDeep
  <2> HIDE DEF built
  <2> QED
    BY <1>1, <1>2, <2>1
<1>5. w.tag # "deep"
  BY DEF MeteredTags
<1>6. /\ Pack(w.tag, w.atom, built) # TooDeep
      /\ Pack(w.tag, w.atom, fields) # TooDeep
      /\ Pack(w.tag, w.atom, slots) # TooDeep
  <2> HIDE DEF built, fields, slots, len
  <2>1. Pack(w.tag, w.atom, built) # TooDeep
    BY <1>1, <1>2, <1>5, PackedIsShallow
  <2>2. Pack(w.tag, w.atom, fields) # TooDeep
    BY <1>1, <1>3, <1>5, PackedIsShallow
  <2>3. Pack(w.tag, w.atom, slots) # TooDeep
    BY <1>1, <1>4, <1>5, PackedIsShallow
  <2> QED
    BY <2>1, <2>2, <2>3
<1>7. Build[w][d] = BuildBy(w, kids, d)
  BY EncodeAt
<1>8. CASE w.tag \in {"entry", "field"} /\ e = d
  <2>1. Build[w][d] = BuildPart(w, kids, d)
    BY <1>7, <1>8, Zenon DEF BuildBy, TextTags, PartTags
  <2>2. BuildPart(w, kids, d) = IF PartOk(w) THEN Pack(w.tag, w.atom, built) ELSE Bad
    BY <1>8, Zenon DEF BuildPart
  <2> HIDE DEF built
  <2> QED
    BY <1>6, <2>1, <2>2, BadIsShallow
<1>9. CASE w.tag \in MeteredTags /\ e = d + 1 /\ d + 1 <= MaxDepth
  <2> DEFINE within == BuildWithin(w, kids, d)
  <2>1. within # TooDeep
    <3>1. within = Pack(w.tag, w.atom, built)
      <4>1. within = IF d + 1 > MaxDepth THEN TooDeep
                     ELSE Pack(w.tag, w.atom, BuildAll(w, kids, d + 1))
        BY Zenon DEF BuildWithin
      <4>2. ~(d + 1 > MaxDepth)
        BY <1>9, CodecLimits
      <4> HIDE DEF within, kids
      <4> QED
        BY <1>9, <4>1, <4>2
    <3> HIDE DEF built, within
    <3> QED
      BY <1>6, <3>1
  <2> HIDE DEF built, fields, slots, kids
  <2>2. CASE w.tag \in {"list", "tuple"}
    <3>1. Build[w][d] = within
      BY <1>7, <2>2 DEF BuildBy, TextTags, PartTags
    <3> QED
      BY <2>1, <3>1
  <2>3. CASE w.tag = "record"
    <3>1. Build[w][d] = BuildRecord(w, kids, d)
      BY <1>7, <2>3 DEF BuildBy, TextTags, PartTags
    <3>2. BuildRecord(w, kids, d) = IF w.atom = "" THEN Bad ELSE IF d + 1 > MaxDepth THEN TooDeep
                                    ELSE Pack(w.tag, w.atom, fields)
      BY <1>9 DEF BuildRecord, fields, built
    <3>3. ~(d + 1 > MaxDepth)
      BY <1>9, CodecLimits
    <3> QED
      BY <1>6, <3>1, <3>2, <3>3, BadIsShallow
  <2>4. CASE w.tag \in {"set", "frozenset"}
    <3>1. Build[w][d] = BuildSet(w, kids, d)
      BY <1>7, <2>4 DEF BuildBy, TextTags, PartTags
    <3>2. \E ok : BuildSet(w, kids, d) = Checked(within, ok)
      BY Zenon DEF BuildSet
    <3> HIDE DEF within
    <3> QED
      BY <2>1, <3>1, <3>2, BadIsShallow
  <2>5. CASE w.tag = "dict"
    <3>1. Build[w][d] = BuildDict(w, kids, d)
      BY <1>7, <2>5 DEF BuildBy, TextTags, PartTags
    <3>2. \E ok : BuildDict(w, kids, d) = Checked(within, ok)
      BY Zenon DEF BuildDict
    <3> HIDE DEF within
    <3> QED
      BY <2>1, <3>1, <3>2, BadIsShallow
  <2>6. CASE w.tag = "ListNode"
    <3>1. Build[w][d] = BuildListNode(w, kids, d)
      BY <1>7, <2>6 DEF BuildBy, TextTags, PartTags
    <3>2. \E ok : BuildListNode(w, kids, d) = Checked(within, ok)
      BY Zenon DEF BuildListNode
    <3> HIDE DEF within
    <3> QED
      BY <2>1, <3>1, <3>2, BadIsShallow
  <2>7. CASE w.tag = "TreeNode"
    <3>1. Build[w][d] = BuildTreeNode(w, kids, d)
      BY <1>7, <2>7 DEF BuildBy, TextTags, PartTags
    <3>2. BuildTreeNode(w, kids, d) =
            IF EndsInGap(w.kids) \/ Unreachable(w.kids) THEN Bad
            ELSE IF d + 1 > MaxDepth THEN TooDeep ELSE Pack(w.tag, w.atom, slots)
      BY <1>9 DEF BuildTreeNode, slots, built
    <3>3. ~(d + 1 > MaxDepth)
      BY <1>9, CodecLimits
    <3> QED
      BY <1>6, <3>1, <3>2, <3>3, BadIsShallow
  <2> QED
    BY <1>9, <2>2, <2>3, <2>4, <2>5, <2>6, <2>7 DEF MeteredTags
<1> QED
  BY <1>8, <1>9

\* No leaf enters a level.
LEMMA LeafIsShallow ==
    ASSUME NEW w \in Trees, NEW d \in Nat, w.tag \in LeafTags \cup {"gap"}
    PROVE  Build[w][d] # TooDeep
<1> DEFINE kids == OfKids(Build, w)
<1>1. Build[w][d] = BuildBy(w, kids, d)
  BY EncodeAt
<1> HIDE DEF kids
<1>2. TooDeep.tag = "deep"
  BY LeafFields DEF TooDeep
<1>3. CASE w.tag = "int"
  <2>1. Build[w][d] = intOf(w)
    BY <1>1, <1>3 DEF BuildBy, TextTags, PartTags
  <2>2. intOf(w) = Bad \/ intOf(w) = Leaf("int", w.kids[1].atom)
    BY Zenon DEF intOf
  <2>3. Leaf("int", w.kids[1].atom).tag = "int"
    BY LeafFields
  <2> QED
    BY <1>2, <2>1, <2>2, <2>3, BadIsShallow
<1>4. CASE w.tag \in TextTags
  <2>1. Build[w][d] = BuildText(w)
    BY <1>1, <1>4 DEF BuildBy, TextTags, PartTags
  <2>2. BuildText(w) = Bad \/ BuildText(w) = w
    BY Zenon DEF BuildText
  <2>3. w.tag # "deep"
    BY <1>4 DEF TextTags
  <2> QED
    BY <1>2, <2>1, <2>2, <2>3, BadIsShallow
<1>5. CASE w.tag = "null"
  <2>1. Build[w][d] = BuildNull(w)
    BY <1>1, <1>5 DEF BuildBy, TextTags, PartTags
  <2>2. BuildNull(w) = Bad \/ BuildNull(w) = Null
    BY Zenon DEF BuildNull
  <2>3. Null.tag = "null"
    BY LeafFields DEF Null
  <2> QED
    BY <1>2, <2>1, <2>2, <2>3, BadIsShallow
<1>6. CASE w.tag = "gap"
  <2>1. Build[w][d] = Bad
    BY <1>1, <1>6 DEF BuildBy, TextTags, PartTags
  <2> QED
    BY <2>1, BadIsShallow
<1> QED
  BY <1>3, <1>4, <1>5, <1>6 DEF LeafTags

-----------------------------------------------------------------------------
(* The harness writes trees within the limits.                             *)
Answer(m, w, d) == w \in Nested[m] /\ (Plain(w) => Build[w][d] # TooDeep)
AllAnswered(m) ==
    \A n \in ObjectsUpTo[m] : \A d \in Nat :
        ~IsFault(PyEncode[n][d]) => Answer(m, PyEncode[n][d], d)
\* A gap, or what is written for an object.
Written(m, e, k) ==
    k = Gap \/ \E n \in ObjectsUpTo[m] : k = PyEncode[n][e] /\ ~IsFault(k)

\* An object has two levels at least.
LEMMA AboveTheFirst ==
    ASSUME NEW m \in 0..MaxNesting, m + 1 \in 0..MaxNesting, NEW n \in ObjectsUpTo[m + 1]
    PROVE  /\ m >= 1 /\ m \in 1..MaxNesting /\ m + 1 \in 1..MaxNesting /\ (m + 1) - 1 = m
           /\ n \in ObjectsOver(ObjectsUpTo[m]) /\ n \in Objects
<1> HIDE DEF ObjectsUpTo
<1>1. (m + 1) - 1 = m /\ m + 1 >= 2
  BY ObjectLevels
<1>2. n \in ObjectsOver(ObjectsUpTo[m])
  BY <1>1, ObjectLevels
<1>3. ObjectsUpTo[m + 1] \subseteq ObjectsUpTo[MaxNesting]
  BY ObjectsGrow, CodecLimits
<1> QED
  BY <1>1, <1>2, <1>3 DEF Objects

\* Trees of a level that is not the first.
LEMMA LevelsAbove ==
    ASSUME NEW m \in 1..MaxNesting
    PROVE  Nested[m] = [tag : STRING, atom : Words, kids : Seq(Nested[m - 1])]
<1> HIDE DEF Nested
<1> QED
  BY NestedLevels DEF OfLevel

\* An absent slot exhausts nothing.
LEMMA GapIsWritten ==
    ASSUME NEW m \in 1..MaxNesting, NEW e \in Nat
    PROVE  Answer(m, Gap, e)
<1> HIDE DEF Nested
<1>1. Gap \in Nested[m]
  <2>1. "gap" \in STRING /\ "" \in STRING
    BY OwnWordsAreStrings DEF OwnWords
  <2>2. Gap \in OfLevel(Nested[m - 1])
    BY <2>1, StringsAreWords, LeafIsNested DEF Gap
  <2> QED
    BY <2>2, NestedLevels
<1>2. Gap.tag = "gap"
  BY LeafFields DEF Gap
<1>3. Gap \in Trees
  BY <1>1, NestedAreTrees
<1> QED
  BY <1>1, <1>2, <1>3, LeafIsShallow DEF Answer

\* A tree over what was written is as good as its children.
LEMMA ParentIsAnswered ==
    ASSUME NEW m \in 1..MaxNesting, m + 1 \in 0..MaxNesting, AllAnswered(m),
           NEW tag \in STRING, NEW atom \in Words, NEW len \in Nat, NEW ks,
           ks = [i \in 1..len |-> ks[i]], NEW d \in Nat, NEW e \in Nat,
           \A i \in 1..len : Written(m, e, ks[i]),
           \/ tag \in MeteredTags /\ e = d + 1 /\ d + 1 <= MaxDepth
           \/ tag \in {"entry", "field"} /\ e = d
           \/ tag \in {"complex", "enum", "exception"}
    PROVE  Answer(m + 1, V(tag, atom, ks), d)
<1> HIDE DEF Nested, ObjectsUpTo
<1> DEFINE w == V(tag, atom, ks)
<1>1. \A i \in 1..len : Answer(m, ks[i], e)
  <2> TAKE i \in 1..len
  <2>1. CASE ks[i] = Gap
    BY <2>1, GapIsWritten
  <2>2. CASE \E n \in ObjectsUpTo[m] : ks[i] = PyEncode[n][e] /\ ~IsFault(ks[i])
    BY <2>2, Zenon DEF AllAnswered
  <2> QED
    BY <2>1, <2>2 DEF Written
<1>2. w.tag = tag /\ w.atom = atom /\ w.kids = ks
  BY VFields
<1>3. w \in Nested[m + 1]
  <2>1. \A i \in 1..len : ks[i] \in Nested[m]
    BY <1>1 DEF Answer
  <2>2. ks \in Seq(Nested[m])
    BY <2>1
  <2>3. m + 1 \in 1..MaxNesting /\ (m + 1) - 1 = m
    OBVIOUS
  <2>4. Nested[m + 1] = [tag : STRING, atom : Words, kids : Seq(Nested[m])]
    BY <2>3, LevelsAbove
  <2> QED
    BY <2>2, <2>4 DEF V
<1>4. w \in Trees
  BY <1>3, NestedAreTrees
<1>5. Plain(w) => Build[w][d] # TooDeep
  <2> SUFFICES ASSUME Plain(w) PROVE Build[w][d] # TooDeep
    OBVIOUS
  <2> HIDE DEF w
  <2>1. tag \notin {"complex", "enum", "exception"} /\ \A i \in DOMAIN w.kids : Plain(w.kids[i])
    BY <1>2, <1>4, PlainThroughout
  <2>2. DOMAIN w.kids = 1..len
    BY <1>2
  <2>3. \A i \in DOMAIN w.kids : Build[w.kids[i]][e] # TooDeep
    BY <1>1, <1>2, <2>1, <2>2 DEF Answer
  <2>4. \/ w.tag \in MeteredTags /\ e = d + 1 /\ d + 1 <= MaxDepth
        \/ w.tag \in {"entry", "field"} /\ e = d
    BY <1>2, <2>1
  <2> QED
    BY <1>4, <2>3, <2>4, BuiltIsShallow
<1> QED
  BY <1>3, <1>5 DEF Answer

\* A sequence of one element.
LEMMA SequenceOfOne == \A S : \A x \in S : <<x>> \in Seq(S)
OBVIOUS

\* Leaves: texts, integers and None.
LEMMA LeavesAreAnswered ==
    ASSUME NEW m \in 0..MaxNesting, m + 1 \in 0..MaxNesting, NEW n \in ObjectsUpTo[m + 1],
           n.tag \in LeafTags, NEW d \in Nat, NEW w, w = PyEncode[n][d], ~IsFault(w)
    PROVE  Answer(m + 1, w, d)
<1> HIDE DEF Nested, ObjectsUpTo
<1>1. /\ m \in 1..MaxNesting /\ m + 1 \in 1..MaxNesting /\ (m + 1) - 1 = m
      /\ n \in ObjectsOver(ObjectsUpTo[m]) /\ n \in Objects
  BY AboveTheFirst
<1>2. n.tag \in STRING /\ n.atom \in Words
  <2>1. n.tag \notin {"chain", "tree"}
    BY DEF LeafTags, TextTags
  <2> QED
    BY <1>1, <2>1, ObjectShape
<1>3. w = PyEncodeBy(n, OfItems(PyEncode, n), d)
  BY <1>1, PyEncodeAt
<1>4. "" \in Words /\ "number" \in STRING /\ "string" \in STRING
  BY OwnWordsAreStrings, StringsAreWords DEF OwnWords
<1>5. Nested[m + 1] = OfLevel(Nested[m])
  BY <1>1, NestedLevels
<1>6. w \in Nested[m + 1] /\ w.tag \in LeafTags
  <2>1. CASE n.tag = "int"
    <3> DEFINE spelling == IntSpelling(n.atom)
               one == <<spelling>>
    <3>1. w = V("int", "", one)
      <4>1. w = EncodeInt(n)
        BY <1>3, <2>1 DEF PyEncodeBy, TextTags
      <4>2. EncodeInt(n) = V("int", "", one)
        BY Zenon DEF EncodeInt
      <4> QED
        BY <4>1, <4>2
    <3>2. spelling \in Nested[m]
      <4>1. spelling = Leaf("number", n.atom) \/ spelling = Leaf("string", n.atom)
        BY Zenon DEF IntSpelling
      <4>2. /\ Leaf("number", n.atom) \in OfLevel(Nested[m - 1])
            /\ Leaf("string", n.atom) \in OfLevel(Nested[m - 1])
        BY <1>2, <1>4, LeafIsNested
      <4>3. Nested[m] = OfLevel(Nested[m - 1])
        BY <1>1, NestedLevels
      <4> HIDE DEF spelling
      <4> QED
        BY <4>1, <4>2, <4>3
    <3>3. one \in Seq(Nested[m])
      <4> HIDE DEF spelling
      <4> QED
        BY <3>2, SequenceOfOne
    <3> HIDE DEF one
    <3>4. w \in OfLevel(Nested[m])
      <4>1. V("int", "", one) = [tag |-> "int", atom |-> "", kids |-> one]
        BY DEF V
      <4>2. "int" \in STRING
        BY <1>2, <2>1
      <4>3. [tag |-> "int", atom |-> "", kids |-> one] \in OfLevel(Nested[m])
        BY <1>4, <3>3, <4>2 DEF OfLevel
      <4> QED
        BY <3>1, <4>1, <4>3
    <3>5. w.tag = "int"
      <4>1. V("int", "", one).tag = "int"
        BY DEF V
      <4> QED
        BY <3>1, <4>1
    <3> QED
      BY <1>5, <3>4, <3>5 DEF LeafTags
  <2>2. CASE n.tag \in TextTags
    <3>1. w = EncodeText(n)
      BY <1>3, <2>2 DEF PyEncodeBy, TextTags
    <3>2. w = Leaf(n.tag, n.atom)
      BY <3>1, FaultsAreFaults DEF EncodeText
    <3>3. w \in OfLevel(Nested[m])
      BY <1>2, <3>2, LeafIsNested
    <3>4. w.tag = n.tag
      BY <3>2, LeafFields
    <3> QED
      BY <1>5, <2>2, <3>3, <3>4 DEF LeafTags
  <2>3. CASE n.tag = "null"
    <3>1. w = Null
      BY <1>3, <2>3 DEF PyEncodeBy, TextTags
    <3>2. w \in OfLevel(Nested[m])
      BY <1>2, <1>4, <2>3, <3>1, LeafIsNested DEF Null
    <3>3. w.tag = "null"
      BY <3>1, LeafFields DEF Null
    <3> QED
      BY <1>5, <3>2, <3>3 DEF LeafTags
  <2> QED
    BY <2>1, <2>2, <2>3 DEF LeafTags
<1>7. w \in Trees
  BY <1>1, <1>6, NestedAreTrees
<1> QED
  BY <1>6, <1>7, LeafIsShallow DEF Answer

\* The wires of the items.
ItemWires(n, e) == At(OfItems(PyEncode, n), e)
\* There is one for every item.
LEMMA ItemsAreWritten ==
    ASSUME NEW m \in 0..MaxNesting, m + 1 \in 0..MaxNesting, NEW n \in ObjectsUpTo[m + 1],
           NEW e \in Nat
    PROVE  /\ Len(n.kids) \in Nat /\ DOMAIN n.kids = 1..Len(n.kids)
           /\ ItemWires(n, e) = [i \in 1..Len(n.kids) |-> ItemWires(n, e)[i]]
           /\ \A i \in 1..Len(n.kids) : /\ Item(n, i) \in ObjectsUpTo[m]
                                        /\ ItemWires(n, e)[i] = PyEncode[Item(n, i)][e]
                                        /\ ~IsFault(ItemWires(n, e)[i]) => Written(m, e, ItemWires(n, e)[i])
<1> HIDE DEF Nested, ObjectsUpTo
<1>1. n \in ObjectsOver(ObjectsUpTo[m])
  BY AboveTheFirst
<1>2. /\ Len(n.kids) \in Nat /\ DOMAIN n.kids = 1..Len(n.kids)
      /\ \A i \in DOMAIN n.kids : Item(n, i) \in ObjectsUpTo[m]
  BY <1>1, ObjectShape
<1>3. ItemWires(n, e) = [i \in 1..Len(n.kids) |-> PyEncode[Item(n, i)][e]]
  BY <1>2 DEF ItemWires, At, OfItems
<1>4. /\ DOMAIN ItemWires(n, e) = 1..Len(n.kids)
      /\ \A i \in 1..Len(n.kids) : ItemWires(n, e)[i] = PyEncode[Item(n, i)][e]
  BY <1>3
<1>5. ItemWires(n, e) = [i \in 1..Len(n.kids) |-> ItemWires(n, e)[i]]
  BY <1>3, <1>4
<1> QED
  BY <1>2, <1>4, <1>5 DEF Written

\* What entered a level had one left.
LEMMA DeeperIsBuilt ==
    ASSUME NEW d \in Nat, NEW b, ~IsFault(Deeper(d, b))
    PROVE  Deeper(d, b) = b /\ d + 1 <= MaxDepth
<1>1. ~(d + 1 > MaxDepth)
  BY FaultsAreFaults DEF Deeper
<1> QED
  BY <1>1, CodecLimits DEF Deeper

\* Lists, tuples, records, and what enters no level.
LEMMA SequencesAreAnswered ==
    ASSUME NEW m \in 0..MaxNesting, m + 1 \in 0..MaxNesting, AllAnswered(m),
           NEW n \in ObjectsUpTo[m + 1],
           n.tag \in {"list", "tuple", "record", "complex", "enum", "exception", "entry", "field"},
           NEW d \in Nat, NEW w, w = PyEncode[n][d], ~IsFault(w)
    PROVE  Answer(m + 1, w, d)
<1> HIDE DEF Nested, ObjectsUpTo
<1>1. /\ m \in 1..MaxNesting
      /\ n \in ObjectsOver(ObjectsUpTo[m]) /\ n \in Objects
  BY AboveTheFirst
<1>2. n.tag \in STRING /\ n.atom \in Words
  BY <1>1, ObjectShape
<1>3. w = PyEncodeBy(n, OfItems(PyEncode, n), d)
  BY <1>1, PyEncodeAt
<1> DEFINE e == IF n.tag \in {"list", "tuple", "record"} THEN d + 1 ELSE d
           ks == ItemWires(n, e)
           len == Len(n.kids)
<1>4. e \in Nat
  OBVIOUS
<1>5. /\ w = Pack(n.tag, n.atom, ks)
      /\ n.tag \in {"list", "tuple", "record"} => d + 1 <= MaxDepth
  <2>1. CASE n.tag \in {"list", "tuple", "record"}
    <3>1. w = Deeper(d, Pack(n.tag, n.atom, ItemWires(n, d + 1)))
      BY <1>3, <2>1 DEF PyEncodeBy, TextTags, ItemWires
    <3>2. w = Pack(n.tag, n.atom, ItemWires(n, d + 1)) /\ d + 1 <= MaxDepth
      BY <3>1, DeeperIsBuilt
    <3> QED
      BY <2>1, <3>2
  <2>2. CASE n.tag \in {"complex", "enum", "exception", "entry", "field"}
    <3>1. w = Pack(n.tag, n.atom, ItemWires(n, d))
      BY <1>3, <2>2 DEF PyEncodeBy, TextTags, ItemWires
    <3> QED
      BY <2>2, <3>1
  <2> QED
    BY <2>1, <2>2
<1>6. \/ n.tag \in MeteredTags /\ e = d + 1 /\ d + 1 <= MaxDepth
      \/ n.tag \in {"entry", "field"} /\ e = d
      \/ n.tag \in {"complex", "enum", "exception"}
  BY <1>5 DEF MeteredTags
<1> HIDE DEF e
<1>7. /\ len \in Nat /\ ks = [i \in 1..len |-> ks[i]]
      /\ \A i \in 1..len : ~IsFault(ks[i]) => Written(m, e, ks[i])
  BY <1>4, ItemsAreWritten
<1> HIDE DEF ks, len
<1>8. DOMAIN ks = 1..len
  BY <1>7
<1>9. w = V(n.tag, n.atom, ks) /\ \A i \in 1..len : ~IsFault(ks[i])
  BY <1>5, <1>7, <1>8, PackedAreBuilt
<1>10. \A i \in 1..len : Written(m, e, ks[i])
  BY <1>7, <1>9
<1>11. Answer(m + 1, V(n.tag, n.atom, ks), d)
  BY <1>1, <1>2, <1>4, <1>6, <1>7, <1>10, ParentIsAnswered
<1> QED
  BY <1>9, <1>11

\* Sorting moves what was written, and changes nothing of it.
Moved(ks, items, len, w, tag, atom) ==
    /\ w = V(tag, atom, ks) /\ ks = [k \in 1..len |-> ks[k]]
    /\ \A k \in 1..len : \E i \in 1..len : ks[k] = items[i]
LEMMA OrderedAreMoved ==
    ASSUME NEW texts \in Seq(Texts), NEW len \in Nat, Len(texts) = len, NEW tag, NEW atom,
           NEW items, items = [i \in 1..len |-> items[i]],
           NEW w, w = Ordered(V(tag, atom, items), texts), ~IsFault(w)
    PROVE  Moved(SortedBy(items, texts), items, len, w, tag, atom)
<1> DEFINE ks == SortedBy(items, texts)
           built == V(tag, atom, items)
<1>1. ~Repeats(texts) /\ w = [built EXCEPT !.kids = SortedBy(@, texts)]
  <2>1. w = IF Repeats(texts) THEN Bad ELSE [built EXCEPT !.kids = SortedBy(@, texts)]
    BY Zenon DEF Ordered
  <2> HIDE DEF built
  <2> QED
    BY <2>1, FaultsAreFaults
<1>2. w = V(tag, atom, ks)
  <2>1. built = [tag |-> tag, atom |-> atom, kids |-> items]
    BY DEF V
  <2>2. [built EXCEPT !.kids = SortedBy(@, texts)] = [tag |-> tag, atom |-> atom, kids |-> ks]
    <3> HIDE DEF built
    <3>1. built.kids = items
      BY ONLY <2>1
    <3> QED
      BY <2>1, <3>1
  <2> HIDE DEF built, ks
  <2> QED
    BY <1>1, <2>2 DEF V
<1>3. DOMAIN items = 1..Len(texts)
  BY ONLY items = [i \in 1..len |-> items[i]], Len(texts) = len
<1>4. ks = [k \in 1..Len(texts) |-> items[Source(texts, k)]]
  BY <1>3, SortedBySource
<1>5. \A k \in 1..len : Source(texts, k) \in 1..len
  BY <1>1, SourceIsUnique
<1> HIDE DEF ks
<1>6. ks = [k \in 1..len |-> ks[k]] /\ \A k \in 1..len : ks[k] = items[Source(texts, k)]
  BY <1>4
<1>7. \A k \in 1..len : \E i \in 1..len : ks[k] = items[i]
  BY <1>5, <1>6
<1>8. Moved(ks, items, len, w, tag, atom)
  BY <1>2, <1>6, <1>7 DEF Moved
<1> QED
  BY <1>8 DEF ks

\* A written entry has a key.
LEMMA EntryIsWritten ==
    ASSUME NEW n \in Objects, n.tag = "entry", Len(n.kids) = 2, NEW e \in Nat,
           NEW w, w = PyEncode[n][e], ~IsFault(w)
    PROVE  1 \in DOMAIN w.kids
<1> HIDE DEF ObjectsUpTo
<1>1. n \in ObjectsOver(ObjectsUpTo[MaxNesting - 1])
  BY ObjectLevels, CodecLimits DEF Objects
<1>2. DOMAIN n.kids = 1..2
  BY <1>1, ObjectShape
<1>3. w = Pack(n.tag, n.atom, ItemWires(n, e))
  <2>1. w = PyEncodeBy(n, OfItems(PyEncode, n), e)
    BY PyEncodeAt
  <2> QED
    BY <2>1 DEF PyEncodeBy, TextTags, ItemWires
<1>4. DOMAIN ItemWires(n, e) = 1..2
  BY <1>2 DEF ItemWires, At, OfItems
<1>5. w = V(n.tag, n.atom, ItemWires(n, e))
  BY <1>3, <1>4, PackedAreBuilt
<1>6. w.kids = ItemWires(n, e)
  BY <1>5, VFields
<1> QED
  BY <1>4, <1>6

\* Sets and dicts.
LEMMA MembersAreAnswered ==
    ASSUME NEW m \in 0..MaxNesting, m + 1 \in 0..MaxNesting, AllAnswered(m),
           NEW n \in ObjectsUpTo[m + 1], n.tag \in {"set", "frozenset", "dict"},
           NEW d \in Nat, NEW w, w = PyEncode[n][d], ~IsFault(w)
    PROVE  Answer(m + 1, w, d)
<1> HIDE DEF Nested, ObjectsUpTo
<1>1. /\ m \in 1..MaxNesting
      /\ n \in ObjectsOver(ObjectsUpTo[m]) /\ n \in Objects
  BY AboveTheFirst
<1>2. n.tag \in STRING /\ "" \in Words
  <2>1. "" \in Words
    BY OwnWordsAreStrings, StringsAreWords DEF OwnWords
  <2> QED
    BY <1>1, <2>1, ObjectShape
<1>3. w = PyEncodeBy(n, OfItems(PyEncode, n), d)
  BY <1>1, PyEncodeAt
<1> DEFINE ks == ItemWires(n, d + 1)
           len == Len(n.kids)
           texts == IF n.tag = "dict" THEN KeysOf(ks) ELSE TextsOf(ks)
           built == Pack(n.tag, "", ks)
<1>4. d + 1 \in Nat
  OBVIOUS
<1>5. /\ len \in Nat /\ ks = [i \in 1..len |-> ks[i]]
      /\ \A i \in 1..len : ~IsFault(ks[i]) => Written(m, d + 1, ks[i])
      /\ \A i \in 1..len : Item(n, i) \in ObjectsUpTo[m] /\ ks[i] = PyEncode[Item(n, i)][d + 1]
  BY <1>4, ItemsAreWritten
<1>6. DOMAIN ks = 1..len
  <2> HIDE DEF ks
  <2> QED
    BY <1>5
<1>7. /\ ~IsFault(built)
      /\ d + 1 <= MaxDepth
      /\ w = Ordered(built, IF n.tag = "dict" THEN KeysOf(built.kids) ELSE TextsOf(built.kids))
  <2>1. CASE n.tag = "dict"
    <3>1. w = Deeper(d, py_encode_dict(n, ks))
      BY <1>3, <2>1 DEF PyEncodeBy, TextTags, ItemWires
    <3>2. w = py_encode_dict(n, ks) /\ d + 1 <= MaxDepth
      BY <3>1, DeeperIsBuilt
    <3>3. py_encode_dict(n, ks) = IF IsFault(built) THEN Bad ELSE Ordered(built, KeysOf(built.kids))
      BY <2>1 DEF py_encode_dict
    <3> HIDE DEF built
    <3> QED
      BY <2>1, <3>2, <3>3, FaultsAreFaults
  <2>2. CASE n.tag \in {"set", "frozenset"}
    <3>1. w = Deeper(d, py_encode_set(n, ks))
      BY <1>3, <2>2 DEF PyEncodeBy, TextTags, ItemWires
    <3>2. w = py_encode_set(n, ks) /\ d + 1 <= MaxDepth
      BY <3>1, DeeperIsBuilt
    <3>3. py_encode_set(n, ks) = IF IsFault(built) THEN Bad ELSE Ordered(built, TextsOf(built.kids))
      BY <2>2, Zenon DEF py_encode_set
    <3> HIDE DEF built
    <3> QED
      BY <2>2, <3>2, <3>3, FaultsAreFaults
  <2> QED
    BY <2>1, <2>2
<1>8. built = V(n.tag, "", ks) /\ \A i \in 1..len : ~IsFault(ks[i])
  <2> HIDE DEF ks, len
  <2> QED
    BY <1>5, <1>6, <1>7, PackedAreBuilt
<1>9. w = Ordered(V(n.tag, "", ks), texts)
  <2> HIDE DEF ks, built
  <2>1. built.kids = ks
    <3>1. V(n.tag, "", ks).kids = ks
      BY DEF V
    <3> QED
      BY <1>8, <3>1
  <2> QED
    BY <1>7, <1>8, <2>1
<1>10. \A i \in 1..len : Written(m, d + 1, ks[i]) /\ Answer(m, ks[i], d + 1)
  <2> HIDE DEF ks, len
  <2> TAKE i \in 1..len
  <2>1. ks[i] = PyEncode[Item(n, i)][d + 1] /\ Item(n, i) \in ObjectsUpTo[m] /\ ~IsFault(ks[i])
    BY <1>5, <1>8
  <2>2. Answer(m, ks[i], d + 1)
    BY <1>4, <2>1, Zenon DEF AllAnswered
  <2> QED
    BY <1>5, <1>8, <2>2
<1>11. \A i \in 1..len : ks[i] \in Trees
  <2> HIDE DEF ks, len
  <2> QED
    BY <1>10, NestedAreTrees DEF Answer
<1>12. texts \in Seq(Texts) /\ Len(texts) = len
  <2>1. CASE n.tag # "dict"
    <3>1. texts = TextsOf(ks)
      BY <2>1
    <3> HIDE DEF ks, len, texts
    <3>2. \A i \in 1..len : Text[ks[i]] \in Texts
      BY <1>11, TextsOfTrees
    <3> QED
      BY <1>5, <1>6, <3>1, <3>2 DEF TextsOf
  <2>2. CASE n.tag = "dict"
    <3>1. texts = KeysOf(ks)
      BY <2>2
    <3>2. n \in Dicts(ObjectsUpTo[m])
      BY <1>1, <2>2, ObjectShape
    <3>3. \A i \in DOMAIN n.kids : n.kids[i].tag = "entry" /\ Len(n.kids[i].kids) = 2
      BY <3>2 DEF Dicts
    <3>4. DOMAIN n.kids = 1..len
      BY <1>1, ObjectShape
    <3>5. \A i \in 1..len : Item(n, i) = n.kids[i]
      BY <2>2 DEF Item
    <3> HIDE DEF ks, len, texts
    <3>6. \A i \in 1..len : ks[i].kids[1] \in Trees
      <4> TAKE i \in 1..len
      <4>1. ObjectsUpTo[m] \subseteq Objects
        BY ObjectsGrow, CodecLimits DEF Objects
      <4>2. /\ n.kids[i] \in Objects /\ n.kids[i].tag = "entry" /\ Len(n.kids[i].kids) = 2
            /\ ks[i] = PyEncode[n.kids[i]][d + 1] /\ ~IsFault(ks[i])
        BY <1>5, <1>8, <3>3, <3>4, <3>5, <4>1
      <4>3. 1 \in DOMAIN ks[i].kids
        BY <1>4, <4>2, EntryIsWritten
      <4> QED
        BY <1>11, <4>3, KidsOfTrees
    <3>7. \A i \in 1..len : Text[ks[i].kids[1]] \in Texts
      BY <3>6, TextsOfTrees
    <3> QED
      BY <1>5, <1>6, <3>1, <3>7 DEF KeysOf
  <2> QED
    BY <2>1, <2>2
<1> HIDE DEF ks, len, texts, built
<1> DEFINE moved == SortedBy(ks, texts)
<1>13. /\ w = V(n.tag, "", moved) /\ moved = [k \in 1..len |-> moved[k]]
       /\ \A k \in 1..len : \E i \in 1..len : moved[k] = ks[i]
  <2>1. Moved(moved, ks, len, w, n.tag, "")
    BY <1>5, <1>9, <1>12, OrderedAreMoved
  <2> HIDE DEF moved
  <2> QED
    BY <2>1 DEF Moved
<1> HIDE DEF moved
<1>14. \A k \in 1..len : Written(m, d + 1, moved[k])
  BY <1>10, <1>13
<1>15. n.tag \in MeteredTags
  BY DEF MeteredTags
<1>16. Answer(m + 1, V(n.tag, "", moved), d)
  BY <1>1, <1>2, <1>4, <1>5, <1>7, <1>13, <1>14, <1>15, ParentIsAnswered
<1> QED
  BY <1>13, <1>16

\* Linked lists.
LEMMA ListsAreAnswered ==
    ASSUME NEW m \in 0..MaxNesting, m + 1 \in 0..MaxNesting, AllAnswered(m),
           NEW n \in ObjectsUpTo[m + 1], n.tag = "chain",
           NEW d \in Nat, NEW w, w = PyEncode[n][d], ~IsFault(w)
    PROVE  Answer(m + 1, w, d)
<1> HIDE DEF Nested, ObjectsUpTo
<1>1. /\ m \in 1..MaxNesting
      /\ n \in ObjectsOver(ObjectsUpTo[m]) /\ n \in Objects
  BY AboveTheFirst
<1>2. n \in Chains(ObjectsUpTo[m])
  BY <1>1, ObjectShape
<1>3. w = PyEncodeBy(n, OfItems(PyEncode, n), d)
  BY <1>1, PyEncodeAt
<1> DEFINE items == ItemWires(n, d + 1)
           list == list_to_canonical(n)
           ks == [k \in DOMAIN list.order |-> items[list.order[k]]]
<1>4. w = Pack("ListNode", list.cycle, ks) /\ d + 1 <= MaxDepth
  <2>1. w = Deeper(d, py_encode_list(n, items))
    BY <1>3 DEF PyEncodeBy, TextTags, ItemWires
  <2>2. w = py_encode_list(n, items) /\ d + 1 <= MaxDepth
    BY <2>1, DeeperIsBuilt
  <2>3. py_encode_list(n, items) = Pack("ListNode", list.cycle, ks)
    BY Zenon DEF py_encode_list
  <2> QED
    BY <2>2, <2>3
<1>5. PICK len \in Nat : DOMAIN list.order = 1..len
  BY <1>2, ListIsWritten
<1>6. (\A k \in 1..len : list.order[k] \in 1..Len(n.kids)) /\ list.cycle \in Words
  BY <1>2, <1>5, ListIsWritten
<1> HIDE DEF list
<1>7. d + 1 \in Nat
  OBVIOUS
<1>8. \A i \in 1..Len(n.kids) : ~IsFault(items[i]) => Written(m, d + 1, items[i])
  BY <1>7, ItemsAreWritten
<1> HIDE DEF items
<1>9. ks = [k \in 1..len |-> ks[k]] /\ \A k \in 1..len : ks[k] = items[list.order[k]]
  BY <1>5
<1> HIDE DEF ks
<1>10. DOMAIN ks = 1..len
  BY <1>9
<1>11. w = V("ListNode", list.cycle, ks) /\ \A i \in 1..len : ~IsFault(ks[i])
  <2> DEFINE tag == "ListNode"
  <2>1. w = Pack(tag, list.cycle, ks)
    BY <1>4
  <2> HIDE DEF tag
  <2>2. w = V(tag, list.cycle, ks) /\ \A i \in 1..len : ~IsFault(ks[i])
    BY <1>10, <2>1, PackedAreBuilt
  <2> QED
    BY <2>2 DEF tag
<1>12. \A k \in 1..len : Written(m, d + 1, ks[k])
  BY <1>6, <1>8, <1>9, <1>11
<1> DEFINE tag == "ListNode"
<1>13. tag \in STRING /\ tag \in MeteredTags
  BY OwnWordsAreStrings DEF OwnWords, MeteredTags
<1>14. w = V(tag, list.cycle, ks)
  BY <1>11
<1> HIDE DEF tag
<1>15. Answer(m + 1, V(tag, list.cycle, ks), d)
  BY <1>1, <1>4, <1>6, <1>7, <1>9, <1>12, <1>13, ParentIsAnswered
<1> QED
  BY <1>14, <1>15

\* Binary trees.
LEMMA TreesAreAnswered ==
    ASSUME NEW m \in 0..MaxNesting, m + 1 \in 0..MaxNesting, AllAnswered(m),
           NEW n \in ObjectsUpTo[m + 1], n.tag = "tree",
           NEW d \in Nat, NEW w, w = PyEncode[n][d], ~IsFault(w)
    PROVE  Answer(m + 1, w, d)
<1> HIDE DEF Nested, ObjectsUpTo
<1>1. /\ m \in 1..MaxNesting
      /\ n \in ObjectsOver(ObjectsUpTo[m]) /\ n \in Objects
  BY AboveTheFirst
<1>2. n \in BinaryTrees(ObjectsUpTo[m])
  BY <1>1, ObjectShape
<1>3. w = PyEncodeBy(n, OfItems(PyEncode, n), d)
  BY <1>1, PyEncodeAt
<1> DEFINE items == ItemWires(n, d + 1)
           slots == tree_to_canonical(n)
           ks == [i \in DOMAIN slots |-> IF Absentee(n, slots[i]) THEN Gap ELSE items[slots[i]]]
<1>4. w = Pack("TreeNode", "", ks) /\ d + 1 <= MaxDepth
  <2>1. w = Deeper(d, py_encode_tree(n, items))
    BY <1>3 DEF PyEncodeBy, TextTags, ItemWires
  <2>2. w = py_encode_tree(n, items) /\ d + 1 <= MaxDepth
    BY <2>1, DeeperIsBuilt
  <2>3. py_encode_tree(n, items) = Pack("TreeNode", "", ks)
    BY Zenon DEF py_encode_tree
  <2> QED
    BY <2>2, <2>3
<1>5. PICK len \in Nat : DOMAIN slots = 1..len
  BY <1>2, TreeIsWritten
<1>6. \A i \in 1..len : ~Absentee(n, slots[i]) => slots[i] \in 1..Len(n.kids)
  BY <1>2, <1>5, TreeIsWritten
<1> HIDE DEF slots
<1>7. d + 1 \in Nat
  OBVIOUS
<1>8. \A i \in 1..Len(n.kids) : ~IsFault(items[i]) => Written(m, d + 1, items[i])
  BY <1>7, ItemsAreWritten
<1> HIDE DEF items
<1>9. /\ ks = [i \in 1..len |-> ks[i]]
      /\ \A i \in 1..len : ks[i] = IF Absentee(n, slots[i]) THEN Gap ELSE items[slots[i]]
  BY <1>5
<1> HIDE DEF ks
<1>10. DOMAIN ks = 1..len
  BY <1>9
<1> DEFINE tag == "TreeNode"
           atom == ""
<1>11. w = Pack(tag, atom, ks)
  BY <1>4
<1>12. tag \in STRING /\ atom \in Words /\ tag \in MeteredTags
  BY OwnWordsAreStrings, StringsAreWords DEF OwnWords, MeteredTags
<1> HIDE DEF tag, atom
<1>13. w = V(tag, atom, ks) /\ \A i \in 1..len : ~IsFault(ks[i])
  BY <1>10, <1>11, PackedAreBuilt
<1>14. \A i \in 1..len : Written(m, d + 1, ks[i])
  <2> TAKE i \in 1..len
  <2>1. CASE Absentee(n, slots[i])
    BY <1>9, <2>1 DEF Written
  <2>2. CASE ~Absentee(n, slots[i])
    BY <1>6, <1>8, <1>9, <1>13, <2>2
  <2> QED
    BY <2>1, <2>2
<1>15. Answer(m + 1, V(tag, atom, ks), d)
  BY <1>1, <1>4, <1>7, <1>9, <1>12, <1>14, ParentIsAnswered
<1> QED
  BY <1>13, <1>15

\* What the harness writes for an object nests within the limit, and unless
\* the encoders count it differently the host reads it within its budget.
LEMMA AllAreAnswered == \A m \in 0..MaxNesting : AllAnswered(m)
<1> HIDE DEF Nested, ObjectsUpTo
<1> DEFINE S == {m \in 0..MaxNesting : AllAnswered(m)}
<1>1. 0 \in S
  <2>1. 0 \in 0..MaxNesting /\ ObjectsUpTo[0] = {}
    BY ObjectLevels, CodecLimits
  <2> QED
    BY <2>1 DEF AllAnswered
<1>2. \A m \in 0..MaxNesting : m \in S /\ m + 1 \in 0..MaxNesting => m + 1 \in S
  <2> SUFFICES ASSUME NEW m \in 0..MaxNesting, m + 1 \in 0..MaxNesting, AllAnswered(m),
                      NEW n \in ObjectsUpTo[m + 1], NEW d \in Nat, ~IsFault(PyEncode[n][d])
               PROVE  Answer(m + 1, PyEncode[n][d], d)
    BY DEF AllAnswered
  <2> DEFINE w == PyEncode[n][d]
  <2>1. CASE n.tag \in LeafTags
    BY <2>1, LeavesAreAnswered
  <2>2. CASE n.tag \in {"list", "tuple", "record", "complex", "enum", "exception", "entry", "field"}
    BY <2>2, SequencesAreAnswered
  <2>3. CASE n.tag \in {"set", "frozenset", "dict"}
    BY <2>3, MembersAreAnswered
  <2>4. CASE n.tag = "chain"
    BY <2>4, ListsAreAnswered
  <2>5. CASE n.tag = "tree"
    BY <2>5, TreesAreAnswered
  <2>6. CASE ~(n.tag \in LeafTags \/ n.tag \in {"list", "tuple", "record", "complex", "enum",
                 "exception", "entry", "field", "set", "frozenset", "dict", "chain", "tree"})
    <3>1. n \in Objects
      BY AboveTheFirst
    <3>2. w = PyEncodeBy(n, OfItems(PyEncode, n), d)
      BY <3>1, PyEncodeAt
    <3>3. w = Bad
      BY <2>6, <3>2 DEF PyEncodeBy, TextTags, LeafTags
    <3> QED
      BY <3>3, FaultsAreFaults
  <2> QED
    BY <2>1, <2>2, <2>3, <2>4, <2>5, <2>6
<1>3. 0..MaxNesting \subseteq S
  <2> HIDE DEF S
  <2> QED
    BY <1>1, <1>2, UpTo, CodecLimits
<1> QED
  BY <1>3

\* The host turns an answer down, or reads it, when the harness has written it
\* for a plain object: its budget is never exceeded.
LEMMA AnswersFit ==
    ASSUME NEW n, ~IsFault(py_encode(n)), Plain(py_encode(n))
    PROVE  buildValue(py_encode(n)) # TooDeep
<1> HIDE DEF Nested, ObjectsUpTo
<1> DEFINE w == PyEncode[n][0]
<1>1. n \in Objects /\ py_encode(n) = w /\ ~IsFault(w) /\ ~(PyNodes[w] > MaxNodes)
  <2>1. py_encode(n) = IF n \notin Objects THEN Bad
                       ELSE IF IsFault(w) THEN Bad ELSE IF PyNodes[w] > MaxNodes THEN Bad ELSE w
    BY Zenon DEF py_encode
  <2> HIDE DEF w
  <2> QED
    BY <2>1, FaultsAreFaults
<1>2. Answer(MaxNesting, w, 0)
  BY <1>1, AllAreAnswered, CodecLimits DEF AllAnswered, Objects
<1>3. w \in Trees /\ Build[w][0] # TooDeep
  <2>1. Plain(w)
    BY <1>1
  <2> QED
    BY <1>2, <2>1 DEF Answer, Trees
<1>4. NodesOf[w] = PyNodes[w]
  BY <1>1, <1>3, NodesAgree
<1>5. buildValue(w) = Bad \/ buildValue(w) = Build[w][0]
  <2> HIDE DEF w
  <2> QED
    BY <1>1, <1>4, Zenon DEF buildValue
<1> QED
  BY <1>1, <1>3, <1>5, BadIsShallow

\* An answer is what the harness's encoder has written, and the command fails
\* on one only where the decoder's budget is exceeded.
IsAnswer == line.kind \in {"output", "exception"}
AnswerPart ==
    /\ stage \in {"load", "read", "send"} => ~IsAnswer
    /\ IsAnswer => ~IsFault(line.payload) /\ \E n : line.payload = py_encode(n)
    /\ stage = "done" /\ answer = "threw" /\ IsAnswer => buildValue(line.payload) = TooDeep

\* It is inductive.
LEMMA AnswerPartHolds == Spec => []AnswerPart
<1>1. Init => AnswerPart
  BY DEF Init, AnswerPart, IsAnswer, NoLine
<1>2. AnswerPart /\ [Next]_vars => AnswerPart'
  <2> SUFFICES ASSUME AnswerPart, [Next]_vars PROVE AnswerPart'
    OBVIOUS
  <2>1. ASSUME UNCHANGED line, stage = "load" \/ stage = "read" \/ stage = "send"
        PROVE  AnswerPart'
    BY <2>1 DEF AnswerPart, IsAnswer
  <2>2. CASE LoadProblem
    BY <2>1, <2>2 DEF LoadProblem
  <2>3. CASE ReadCase
    BY <2>1, <2>3 DEF ReadCase
  <2>4. CASE TakeValue
    BY <2>1, <2>4 DEF TakeValue
  <2>5. ASSUME line'.kind = "request" PROVE AnswerPart'
    BY <2>5 DEF AnswerPart, IsAnswer
  <2>6. CASE decodeRequestLine
    <3>1. line'.kind = "request"
      BY <2>6 DEF decodeRequestLine
    <3> QED
      BY <2>5, <3>1
  <2>7. CASE encodeRequestLine
    <3>1. stage = "send" /\ (UNCHANGED line \/ line'.kind = "request")
      BY <2>7 DEF encodeRequestLine
    <3> QED
      BY <2>1, <2>5, <3>1
  <2>8. ASSUME UNCHANGED line, stage' \in {"invoke", "reply", "receive", "judge"} \/ answer' # "threw",
               stage' \notin {"load", "read", "send"}
        PROVE  AnswerPart'
    BY <2>8 DEF AnswerPart, IsAnswer
  <2>9. CASE Invoke
    <3>1. /\ UNCHANGED line
          /\ stage' = "reply" \/ (stage' = "done" /\ answer' = "nonzero_exit")
      BY <2>9, Zenon DEF Invoke, Ends
    <3> QED
      BY <2>8, <3>1
  <2>10. CASE encodeResponseLine
    <3> DEFINE wire == py_encode(outcome.value)
    <3>1. \/ UNCHANGED line /\ stage' = "done" /\ answer' = "nonzero_exit"
          \/ ~IsFault(wire) /\ line'.payload = wire /\ stage' = "receive"
      <4> HIDE DEF wire
      <4>1. IF IsFault(wire) THEN Ends("nonzero_exit") /\ UNCHANGED line
            ELSE /\ line' = [kind |-> IF outcome.kind = "raises" THEN "exception" ELSE "output",
                             payload |-> wire, limit |-> line.limit,
                             lines |-> IF outcome.kind = "prints" THEN 2 ELSE 1]
                 /\ stage' = "receive"
        BY <2>10, Zenon DEF encodeResponseLine, wire
      <4> QED
        BY <4>1 DEF Ends
    <3>2. CASE UNCHANGED line /\ stage' = "done" /\ answer' = "nonzero_exit"
      BY <2>8, <3>2
    <3>3. CASE ~IsFault(wire) /\ line'.payload = wire /\ stage' = "receive"
      <4>1. \E n : line'.payload = py_encode(n)
        BY <3>3
      <4> HIDE DEF wire
      <4> QED
        BY <3>3, <4>1 DEF AnswerPart, IsAnswer
    <3> QED
      BY <3>1, <3>2, <3>3
  <2>11. CASE decodeResponseLine
    <3> DEFINE built == decodeLine(line)
    <3>1. /\ UNCHANGED line
          /\ \/ built = TooDeep /\ stage' = "done"
             \/ stage' = "judge"
             \/ stage' = "done" /\ answer' \in {"protocol_error", "exception"}
      <4> HIDE DEF built
      <4>1. /\ UNCHANGED line
            /\ \E refused, raised :
                 IF built = TooDeep THEN stage' = "done"
                 ELSE IF refused THEN Ends("protocol_error")
                 ELSE IF raised THEN Ends("exception") ELSE stage' = "judge"
        BY <2>11, Zenon DEF decodeResponseLine, Ends, built
      <4> QED
        BY <4>1 DEF Ends
    <3>2. CASE built = TooDeep /\ stage' = "done"
      <4>1. buildValue(line.payload) = TooDeep
        BY <3>2, BadIsShallow DEF decodeLine
      <4> HIDE DEF built
      <4> QED
        BY <3>1, <3>2, <4>1 DEF AnswerPart, IsAnswer
    <3>3. CASE \/ stage' = "judge"
               \/ stage' = "done" /\ answer' \in {"protocol_error", "exception"}
      BY <2>8, <3>1, <3>3
    <3> QED
      BY <3>1, <3>2, <3>3
  <2>12. CASE Judge
    <3>1. UNCHANGED line /\ stage' = "done" /\ answer' \in {"passed", "wrong_answer"}
      <4>1. UNCHANGED line /\ \E equal : Ends(IF equal THEN "passed" ELSE "wrong_answer")
        BY <2>12, Zenon DEF Judge
      <4> QED
        BY <4>1 DEF Ends
    <3> QED
      BY <2>8, <3>1
  <2>13. CASE UNCHANGED vars
    BY <2>13 DEF vars, AnswerPart, IsAnswer
  <2> QED
    BY <2>2, <2>3, <2>4, <2>6, <2>7, <2>9, <2>10, <2>11, <2>12, <2>13 DEF Next
<1> QED
  BY <1>1, <1>2, PTL DEF Spec

\* The command never fails on an answer: the budgets of the two sides agree,
\* except about an enum, an exception and a complex number.
THEOREM AnswersAreAlwaysClassified == Spec => []AnswersAreClassified
<1>1. AnswerPart => AnswersAreClassified
  <2> SUFFICES ASSUME AnswerPart, stage = "done", answer = "threw", IsAnswer,
                      Plain(line.payload)
               PROVE  FALSE
    BY Zenon DEF AnswersAreClassified, IsAnswer, Plain
  <2>1. buildValue(line.payload) = TooDeep /\ ~IsFault(line.payload)
    BY DEF AnswerPart
  <2>2. PICK n : line.payload = py_encode(n)
    BY DEF AnswerPart
  <2> QED
    BY <2>1, <2>2, AnswersFit
<1> QED
  BY <1>1, AnswerPartHolds, PTL
=============================================================================
