------------------------------ MODULE MCServer ------------------------------
(***************************************************************************)
(* The parts of the API on small instances: three rows of customers and two*)
(* Google accounts, two appointments to remind of in a window of two hours,*)
(* two days of eight ticks, three lists of two items, three uploads, two   *)
(* codes and three passwords, three records.                               *)
(***************************************************************************)
EXTENDS Server, TLC

CONSTANTS
    c1, c2, c3, e1, e2, g1, g2, p1, r1, r2

\* Customers: two Google accounts, one of which books with either e-mail; the
\* staff registers customers by the second e-mail or account, gives one of them to
\* any customer and deletes.
Ask(op) == [op |-> op, cid |-> NoCid, email |-> NoEmail, sub |-> NoSub]

Book(s, e) == [Ask("book") EXCEPT !.sub = s, !.email = e]

On(op, c) == [Ask(op) EXCEPT !.cid = c]

\* A request that gives one of the keys.
OneKey(r) == {[r EXCEPT !.email = e2], [r EXCEPT !.sub = g2]}

Everyone ==
    {Book(g1, e1), Book(g1, e2), Book(g2, e2)}
    \cup OneKey(Ask("create"))
    \cup UNION {OneKey(On("update", c)) \cup {On("delete", c)} : c \in Cids}

\* Slots: two days of eight ticks, one professional, every agenda of at most two
\* of these appointments, three shapes of schedule and every pair of exceptions.
Row(id, s, e, status, pro) ==
    [id |-> id, starts |-> s, ends |-> e, status |-> status, pro |-> pro]

MCRows ==
    {Row(1, 1, 3, "confirmed", p1), Row(2, 2, 5, "attended", p1),
     Row(3, 4, 6, "pending", NoPro), Row(4, 4, 6, "cancelled", p1),
     Row(5, 6, 9, "pending", p1), Row(6, 10, 11, "confirmed", p1),
     Row(7, 3, 4, "no_show", NoPro)}

MCRowSets == {S \in SUBSET MCRows : Cardinality(S) <= 2}

Weekly(day, s, e) == [weekday |-> day, starts |-> s, ends |-> e]

Exception(date, pro, closed, s, e) ==
    [date |-> date, pro |-> pro, closed |-> closed, starts |-> s, ends |-> e]

MCExceptions ==
    {Exception(0, NoPro, TRUE, 0, 0), Exception(0, p1, FALSE, 3, 7),
     Exception(0, NoPro, FALSE, 2, 6), Exception(1, p1, TRUE, 0, 0)}

MCHourSets ==
    [business : {{Weekly(0, 0, 4), Weekly(0, 5, 8), Weekly(1, 0, 8)}},
     pros : {[p \in {p1} |-> S] : S \in {{}, {Weekly(0, 1, 7)}}},
     exceptions : {S \in SUBSET MCExceptions : Cardinality(S) <= 2}]

MCQueries ==
    [date : {0, 1}, pro : {NoPro, p1},
     service : {[duration |-> 0, prep |-> 0, buffer |-> 0],
                [duration |-> 3, prep |-> 1, buffer |-> 1],
                [duration |-> 1, prep |-> 0, buffer |-> 2]}]

Symmetry == Permutations(Requests)

=============================================================================
