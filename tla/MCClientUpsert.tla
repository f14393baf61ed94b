--------------------------- MODULE MCClientUpsert ---------------------------
(* Bookings of two Google accounts, with an e-mail each, and nothing else.   *)
EXTENDS ClientUpsert, TLC

CONSTANTS c1, c2, e1, e2, g1, g2, w1, w2

Bookings ==
    {[op |-> "book", cid |-> NoCid, email |-> e1, sub |-> g1],
     [op |-> "book", cid |-> NoCid, email |-> e2, sub |-> g2]}

Symmetry == Permutations(Cids) \cup Permutations(Workers)

=============================================================================
