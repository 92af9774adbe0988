---------------------------- MODULE Subsequences ----------------------------
(* Parts of a sequence, by the indices of the elements that stay.          *)
EXTENDS Naturals, Sequences

\* The elements of s at the indices in chosen, in their order.
Subsequence(s, chosen) ==
  LET upTo[i \in 0..Len(s)] ==
        IF i = 0 THEN <<>>
        ELSE IF i \in chosen THEN Append(upTo[i - 1], s[i]) ELSE upTo[i - 1]
  IN  upTo[Len(s)]

\* How q comes out of s: place[k] is the index of q's k-th element.
IsPlacement(place, q, s, chosen) ==
  /\ place \in [DOMAIN q -> chosen \cap DOMAIN s]
  /\ \A k \in DOMAIN q : q[k] = s[place[k]]
  /\ \A k, l \in DOMAIN q : k < l => place[k] < place[l]
  /\ \A i \in chosen \cap DOMAIN s : \E k \in DOMAIN q : place[k] = i
=============================================================================
