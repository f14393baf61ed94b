------------------------------- MODULE MCSite -------------------------------
(***************************************************************************)
(* One visit with a service and a professional in three businesses, two    *)
(* tabs of which one takes a booking to Google, and a tab of the panel with*)
(* two sessions and two calls.                                             *)
(***************************************************************************)
EXTENDS Site, TLC

CONSTANTS
    p1, s1, t1, t2, k1, k2, c1, c2

\* Three businesses: open every day with the first day closed for p1; open on even
\* days but for the next one; no schedules at all, and an exception of the business.
WeekdayOf == [d \in {1, 2, 4} |-> d % 2]

Away(d, p) == [day |-> d, professional |-> p]

Businesses == {
    [weekdays |-> {0, 1}, exceptions |-> {Away(1, p1)}],
    [weekdays |-> {0}, exceptions |-> {Away(2, None)}],
    [weekdays |-> {}, exceptions |-> {Away(2, None)}]}

Symmetry == Permutations(Ids) \cup Permutations(Calls)

=============================================================================
