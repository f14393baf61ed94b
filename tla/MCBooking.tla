----------------------------- MODULE MCBooking -----------------------------
(* Instances of Booking: one day of eight ticks, one professional whose only *)
(* service lasts two ticks, and a choice of the requests in play.            *)
EXTENDS Booking, TLC

CONSTANTS w1, w2, a1, a2, p1, s1, t1

MCCatalog == (s1 :> [duration |-> 2, prep |-> 0, buffer |-> 0])

MCOffers == (p1 :> {s1})

MCHours ==
    [business |-> {[weekday |-> 0, starts |-> 0, ends |-> 8]},
     pros |-> (p1 :> {}),
     exceptions |-> {}]

Ask(op) == [NoRequest EXCEPT !.op = op]

Create(pro, svc, t, status) ==
    [Ask("create") EXCEPT !.pro = pro, !.svc = svc, !.starts = t, !.status = status]

Portal(pro, svc, t, token) ==
    [Ask("confirmPortal") EXCEPT !.pro = pro, !.svc = svc, !.starts = t, !.token = token]

On(op, i) == [Ask(op) EXCEPT !.id = i]

SetStatus(i, status) == [On("changeStatus", i) EXCEPT !.status = status]

Move(i, t) == [On("reschedule", i) EXCEPT !.starts = t]

\* Every operation of the service.
EveryRequest ==
    {Create(p1, s1, 0, "confirmed"), Create(p1, s1, 1, "no_show"),
     Portal(p1, s1, 1, t1), Portal(NoPro, NoService, 0, t1)}
    \cup UNION {{SetStatus(i, "attended"), SetStatus(i, "cancelled"), SetStatus(i, "no_show"),
                 On("accept", i), On("reject", i), On("cancel", i),
                 On("cancelByToken", i), Move(i, 0), Move(i, 2)} : i \in Ids}

\* What can put a seat in danger: bookings, moves, status changes.
SeatRequests ==
    {Create(p1, s1, 0, "confirmed")}
    \cup UNION {{SetStatus(i, "attended"), SetStatus(i, "no_show"),
                 On("cancelByToken", i), Move(i, 2)} : i \in Ids}

\* Bookings of one hour and cancellations only.
BookAndCancel ==
    {Create(p1, s1, 0, "confirmed"), Create(p1, s1, 1, "pending")}
    \cup {On("cancel", i) : i \in Ids}

\* Two appointments of the same professional that can swap places.
SwapRequests ==
    {Create(p1, s1, 0, "confirmed"), Create(p1, s1, 2, "confirmed")}
    \cup {Move(i, t) : i \in Ids, t \in {0, 2}}

PortalOnly == {Portal(p1, s1, 0, t1), Portal(p1, s1, 2, t1)}

\* Ids and workers are interchangeable in every request set above.
Symmetry == {p @@ q : p \in Permutations(Ids), q \in Permutations(Workers)}

=============================================================================
