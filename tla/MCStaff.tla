------------------------------ MODULE MCStaff ------------------------------
(***************************************************************************)
(* The pages on small instances: two days, two appointments, a week of two *)
(* days with two blocks on one of them, two professionals, two customers.  *)
(***************************************************************************)
EXTENDS Staff, TLC

CONSTANTS
    p1, p2, s1, t1, ana, eva, r1, r2

\* The catalog the modal reads: a week with days closed for each professional, or none.
Openings == {
    [weekly |-> TRUE, closed |-> (None :> {1} @@ p1 :> {} @@ p2 :> {2})],
    [weekly |-> FALSE, closed |-> (None :> {} @@ p1 :> {} @@ p2 :> {})]}

\* Two customers, by the letters a search finds them by.
NameOf == ana :> "a" @@ eva :> "e"

Found == "" :> {} @@ "a" :> {ana, eva} @@ "e" :> {eva}

\* The business has two blocks on the first day of the week.
TwoBlocks == {{<<0, 9>>, <<0, 15>>, <<1, 15>>}}

Symmetry == Permutations(Requests)

=============================================================================
