----------------------------- MODULE MCSessions -----------------------------
(* Instances of Sessions: one user, a few rows and the requests in play.     *)
EXTENDS Sessions, TLC

CONSTANTS s1, s2, s3, w1, w2

Plain(op) == [op |-> op, sid |-> NoSid]

With(op) == {[op |-> op, sid |-> s] : s \in Sids}

EveryRequest ==
    {Plain("login"), Plain("close")}
    \cup With("refresh") \cup With("logout") \cup With("profile")

\* Devices that sign in, keep refreshing and get closed.
CloseRequests == {Plain("login"), Plain("close")} \cup With("refresh")

Symmetry == Permutations(Sids) \cup Permutations(Workers)

=============================================================================
