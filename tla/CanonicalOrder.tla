--------------------------- MODULE CanonicalOrder ---------------------------
(* The order of canonical texts (judging/codec/utf8.ts, encode.ts,         *)
(* decode.ts): a text is the sequence of its bytes.  Members of a set and  *)
(* keys of a dict are written in this order, and read only in it.          *)
EXTENDS Integers, Sequences, FiniteSets

\* The first byte in which the two differ decides, then the length.
compareUtf8(s, t) ==
    LET shared == {i \in DOMAIN s \cap DOMAIN t : s[i] # t[i]}
        first == CHOOSE i \in shared : \A j \in shared : i <= j
    IN IF shared = {} THEN Len(s) - Len(t) ELSE s[first] - t[first]
Before(s, t) == compareUtf8(s, t) < 0

Repeats(texts) == \E i, j \in DOMAIN texts : i # j /\ texts[i] = texts[j]
assertSortedUnique(texts) ==
    \A i \in 2..Len(texts) : Before(texts[i - 1], texts[i])

\* encoded.sort(compareUtf8), for texts that do not repeat: an item's place is
\* the number of those whose text comes before its own.
Smaller(texts, i) == {j \in DOMAIN texts : Before(texts[j], texts[i])}
SortedBy(items, texts) ==
    [k \in DOMAIN items |->
        items[CHOOSE i \in DOMAIN items : Cardinality(Smaller(texts, i)) = k - 1]]
=============================================================================
