------------------------------- MODULE KeyList -------------------------------
(* The operations of std::list that LRUSessionsCache.cpp uses, on the list *)
(* of keys it keeps, most recently referred to first.                      *)
EXTENDS Naturals, Sequences

Elements(s) == {s[i] : i \in DOMAIN s}

\* Where the iterator fSessionPos[x] points.
Position(s, x) == CHOOSE i \in DOMAIN s : s[i] = x

\* std::list::erase, pop_back, push_front, back
Erase(s, i) == [j \in 1 .. Len(s) - 1 |-> IF j < i THEN s[j] ELSE s[j + 1]]
PopBack(s) == Erase(s, Len(s))
PushFront(x, s) == [j \in 1 .. Len(s) + 1 |-> IF j = 1 THEN x ELSE s[j - 1]]
Back(s) == s[Len(s)]

=============================================================================
