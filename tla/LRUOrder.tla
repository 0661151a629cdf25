------------------------------- MODULE LRUOrder -------------------------------
(***************************************************************************)
(* What a least-recently-used cache promises of its contents: a list of at *)
(* most Capacity entries, the most recently added or found one first, that *)
(* loses its last entry when a new one does not fit.  Module LRUCache      *)
(* implements it with the linked list of the naming server.                *)
(***************************************************************************)
EXTENDS Naturals, Sequences

CONSTANTS Entries, Capacity

VARIABLE order

Init == order = <<>>

Kept == IF Len(order) < Capacity THEN order ELSE SubSeq(order, 1, Capacity - 1)

Insert == \E e \in Entries : order' = <<e>> \o Kept

\* The entry at position i is found again and becomes the first.
Touch ==
    \E i \in 1 .. Len(order) :
        order' = <<order[i]>> \o SubSeq(order, 1, i - 1)
                              \o SubSeq(order, i + 1, Len(order))

Next == Insert \/ Touch

Spec == Init /\ [][Next]_order
=============================================================================
