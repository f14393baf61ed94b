------------------------------ MODULE Sessions ------------------------------
(***************************************************************************)
(* The refresh sessions of one staff user                                  *)
(* (backend/src/auth/auth.service.ts, refresh-sessions.service.ts).        *)
(*                                                                         *)
(* Every refresh token is one row of refresh_sessions, named here by its   *)
(* sid.  A refresh rotates: it inserts a new row and then revokes the old  *)
(* one, in two statements without a transaction.  A token presented after  *)
(* it was revoked is taken for stolen and closes every session, like       *)
(* logout-all, a new password or an edited profile do.                     *)
(*                                                                         *)
(* A worker is one HTTP request in flight:                                 *)
(*                                                                         *)
(*   login     insert -> done                                              *)
(*   refresh   find -> insert -> rotate -> done                            *)
(*             find -> lookup -> (cut ->) done                             *)
(*   logout    revoke -> done                                              *)
(*   close     cut -> done             (logout-all, change or reset of     *)
(*                                      the password once it is verified)  *)
(*   profile   cut -> insert -> done                                       *)
(*                                                                         *)
(* Each statement runs in its own implicit transaction and is one step.    *)
(* A device is named by the sid its login got (root), all the rows rotated *)
(* from it belong to it.  Its access token needs no row: it is a JWT that  *)
(* nothing but its own expiry ends.  Tokens are not altered by anyone, so  *)
(* the stored hash always agrees with the token of that sid, and the user  *)
(* stays active (no operation deactivates one).                            *)
(***************************************************************************)
EXTENDS Integers, FiniteSets

CONSTANTS
    Sids, NoSid,
    Workers,
    Requests        \* the requests in play, a subset of Request

VARIABLES
    sessions,   \* the refresh_sessions table
    held,       \* sids whose refresh token some client received
    access,     \* devices (roots) with an access token that has not expired
    work,       \* the request each worker serves
    closed,     \* history: the devices the last cut had to close
    contested   \* history: the devices two requests were renewing at once

vars == <<sessions, held, access, work, closed, contested>>

Ops == {"login", "refresh", "logout", "close", "profile"}

\* refresh and logout present a sid; profile comes from a device.
Request == [op : Ops, sid : Sids \cup {NoSid}]

ASSUME SessionsAssumption ==
    /\ IsFiniteSet(Workers)
    /\ NoSid \notin Sids
    /\ Requests \subseteq Request

\* Live is revoked_at IS NULL and expires_at in the future.
Row == [state : {"none", "live", "expired", "revoked"},
        next : Sids \cup {NoSid}, root : Sids \cup {NoSid}]

Absent == [state |-> "none", next |-> NoSid, root |-> NoSid]

Pcs == {"idle", "find", "lookup", "insert", "rotate", "revoke", "cut", "done"}

Work == [pc : Pcs, op : Ops, sid : Sids \cup {NoSid}, fresh : Sids \cup {NoSid}]

Idle == [pc |-> "idle", op |-> "close", sid |-> NoSid, fresh |-> NoSid]

Exists(s) == sessions[s].state # "none"

Live(s) == sessions[s].state = "live"

LiveRoots == {sessions[s].root : s \in {x \in Sids : Live(x)}}

\* A request that has passed its check and will give device r a session.
Renewing(w, r) ==
    \/ work[w].op = "refresh" /\ work[w].pc \in {"insert", "rotate"} /\ sessions[work[w].sid].root = r
    \/ work[w].op = "profile" /\ work[w].pc \in {"cut", "insert"} /\ work[w].sid = r

Go(w, pc) == work' = [work EXCEPT ![w].pc = pc]

-----------------------------------------------------------------------------
(* Arrival and answer of a request *)

FirstStep(op) ==
    CASE op = "login" -> "insert"
      [] op = "refresh" -> "find"
      [] op = "logout" -> "revoke"
      [] op \in {"close", "profile"} -> "cut"

\* A client can only present tokens it received, and a profile is edited with
\* a valid access token.
Receive(w, r) ==
    /\ work[w].pc = "idle"
    /\ r.op \in {"refresh", "logout"} => r.sid \in held
    /\ r.op = "profile" => r.sid \in access
    /\ r.op \in {"login", "close"} => r.sid = NoSid
    /\ work' = [work EXCEPT ![w] = [pc |-> FirstStep(r.op), op |-> r.op, sid |-> r.sid,
                                   fresh |-> NoSid]]
    /\ UNCHANGED <<sessions, held, access, closed, contested>>

\* Broken: the answer of a refused refresh carries its tokens too.
DeliverUnchecked(w) ==
    /\ work[w].pc = "done"
    /\ work' = [work EXCEPT ![w] = Idle]
    /\ held' = held \cup {work[w].fresh}
    /\ access' = access \cup {work[w].sid}
    /\ UNCHANGED <<sessions, closed, contested>>

\* The answer reaches the client; new tokens with it, if there are any.
Deliver(w) ==
    /\ work[w].pc = "done"
    /\ work' = [work EXCEPT ![w] = Idle]
    /\ IF work[w].fresh # NoSid
       THEN /\ held' = held \cup {work[w].fresh}
            /\ access' = access \cup {sessions[work[w].fresh].root}
       ELSE UNCHANGED <<held, access>>
    /\ UNCHANGED <<sessions, closed, contested>>

\* A query fails, the process dies, or the answer is lost: each statement that
\* ran stays.
Fail(w) ==
    /\ work[w].pc # "idle"
    /\ work' = [work EXCEPT ![w] = Idle]
    /\ UNCHANGED <<sessions, held, access, closed, contested>>

-----------------------------------------------------------------------------
(* Statements *)

\* History: another request has passed its check for the same device.
Contest(w, r) ==
    contested' = IF \E v \in Workers \ {w} : Renewing(v, r) THEN contested \cup {r} ELSE contested

\* Broken: SQL_FIND_ACTIVE_REFRESH_SESSION without revoked_at IS NULL.
FindAny(w) ==
    /\ work[w].pc = "find"
    /\ Go(w, IF sessions[work[w].sid].state \in {"live", "revoked"} THEN "insert" ELSE "lookup")
    /\ Contest(w, sessions[work[w].sid].root)
    /\ UNCHANGED <<sessions, held, access, closed>>

\* SQL_FIND_ACTIVE_REFRESH_SESSION.
FindActive(w) ==
    /\ work[w].pc = "find"
    /\ Go(w, IF Live(work[w].sid) THEN "insert" ELSE "lookup")
    /\ IF Live(work[w].sid) THEN Contest(w, sessions[work[w].sid].root) ELSE UNCHANGED contested
    /\ UNCHANGED <<sessions, held, access, closed>>

\* SQL_FIND_REFRESH_SESSION_BY_ID: a revoked token is a reuse.
DetectReuse(w) ==
    /\ work[w].pc = "lookup"
    /\ Go(w, IF sessions[work[w].sid].state = "revoked" THEN "cut" ELSE "done")
    /\ UNCHANGED <<sessions, held, access, closed, contested>>

\* createSession.  A login starts a device, the others carry theirs on.
CreateSession(w) ==
    /\ work[w].pc = "insert"
    /\ \E s \in Sids :
        LET root == CASE work[w].op = "login" -> s
                      [] work[w].op = "profile" -> work[w].sid
                      [] OTHER -> sessions[work[w].sid].root
        IN  /\ ~Exists(s)
            /\ sessions' = [sessions EXCEPT ![s] =
                                [state |-> "live", next |-> NoSid, root |-> root]]
            /\ work' = [work EXCEPT ![w].fresh = s,
                                    ![w].pc = IF work[w].op = "refresh" THEN "rotate" ELSE "done"]
    /\ UNCHANGED <<held, access, closed, contested>>

\* Broken: the old session is not revoked when it is replaced.
RotateKeepsOld(w) ==
    /\ work[w].pc = "rotate"
    /\ sessions' = [sessions EXCEPT ![work[w].sid].next = work[w].fresh]
    /\ Go(w, "done")
    /\ UNCHANGED <<held, access, closed, contested>>

\* Broken: SQL_REVOKE_REFRESH_SESSION without revoked_at IS NULL.
RotateAlways(w) ==
    /\ work[w].pc = "rotate"
    /\ sessions' = [sessions EXCEPT ![work[w].sid].state = "revoked",
                                    ![work[w].sid].next = work[w].fresh]
    /\ Go(w, "done")
    /\ UNCHANGED <<held, access, closed, contested>>

\* SQL_REVOKE_REFRESH_SESSION: only a row not yet revoked.
RevokeRow(s, next) ==
    sessions' = IF sessions[s].state \in {"live", "expired"}
                THEN [sessions EXCEPT ![s].state = "revoked", ![s].next = next]
                ELSE sessions

\* revokeSession at the end of a rotation.
Rotate(w) ==
    /\ work[w].pc = "rotate"
    /\ RevokeRow(work[w].sid, work[w].fresh)
    /\ Go(w, "done")
    /\ UNCHANGED <<held, access, closed, contested>>

\* revokeSession of a logout.
Revoke(w) ==
    /\ work[w].pc = "revoke"
    /\ RevokeRow(work[w].sid, NoSid)
    /\ Go(w, "done")
    /\ UNCHANGED <<held, access, closed, contested>>

Existing == {sessions[s].root : s \in {x \in Sids : Exists(x)}}

\* The devices a cut is meant to close: all, but the one that edits its profile
\* gets a new session at once.
ToClose(w) == IF work[w].op = "profile" THEN Existing \ {work[w].sid} ELSE Existing

\* Broken: a reuse closes only the sessions of the device it came from.
RevokeDevice(w) ==
    /\ work[w].pc = "cut"
    /\ sessions' = [s \in Sids |->
                        IF /\ sessions[s].state \in {"live", "expired"}
                           /\ work[w].op = "refresh" => sessions[s].root = sessions[work[w].sid].root
                        THEN [sessions[s] EXCEPT !.state = "revoked"]
                        ELSE sessions[s]]
    /\ closed' = ToClose(w)
    /\ Go(w, IF work[w].op = "profile" THEN "insert" ELSE "done")
    /\ IF work[w].op = "profile" THEN Contest(w, work[w].sid) ELSE UNCHANGED contested
    /\ UNCHANGED <<held, access>>

\* revokeAllForUser.
RevokeAll(w) ==
    /\ work[w].pc = "cut"
    /\ sessions' = [s \in Sids |->
                        IF sessions[s].state \in {"live", "expired"}
                        THEN [sessions[s] EXCEPT !.state = "revoked"]
                        ELSE sessions[s]]
    /\ closed' = ToClose(w)
    /\ Go(w, IF work[w].op = "profile" THEN "insert" ELSE "done")
    /\ IF work[w].op = "profile" THEN Contest(w, work[w].sid) ELSE UNCHANGED contested
    /\ UNCHANGED <<held, access>>

ExpireSession(s) ==
    /\ Live(s)
    /\ sessions' = [sessions EXCEPT ![s].state = "expired"]
    /\ UNCHANGED <<held, access, work, closed, contested>>

ExpireAccess(r) ==
    /\ r \in access
    /\ access' = access \ {r}
    /\ UNCHANGED <<sessions, held, work, closed, contested>>

-----------------------------------------------------------------------------
(* The specification *)

Init ==
    /\ sessions = [s \in Sids |-> Absent]
    /\ held = {}
    /\ access = {}
    /\ work = [w \in Workers |-> Idle]
    /\ closed = {}
    /\ contested = {}

Step(w) ==
    \/ FindActive(w) \/ DetectReuse(w) \/ CreateSession(w) \/ Rotate(w)
    \/ Revoke(w) \/ RevokeAll(w)

Next ==
    \/ \E w \in Workers : \E r \in Requests : Receive(w, r)
    \/ \E w \in Workers : Step(w) \/ Deliver(w) \/ Fail(w)
    \/ \E s \in Sids : ExpireSession(s) \/ ExpireAccess(s)

Spec == Init /\ [][Next]_vars

-----------------------------------------------------------------------------
(* Properties *)

TypeOK ==
    /\ sessions \in [Sids -> Row]
    /\ held \subseteq Sids
    /\ access \subseteq Sids
    /\ work \in [Workers -> Work]
    /\ closed \subseteq Sids
    /\ contested \subseteq Sids

\* A request that gives device r a session, or brings it the token of one.
Underway(w, r) ==
    \/ Renewing(w, r)
    \/ work[w].pc = "done" /\ work[w].fresh # NoSid /\ sessions[work[w].fresh].root = r

\* A device that signed in once and has nothing left to act with.
Gone(r) ==
    /\ Exists(r)
    /\ r \notin LiveRoots
    /\ r \notin access
    /\ \A w \in Workers : ~Underway(w, r)

\* A device without live session, access token or request past its checks never
\* gets a session again: no interleaving of rotations, reuses and cuts revives
\* a chain of refresh tokens once all of it is revoked or expired.
NoDeviceComesBack ==
    [][\A r \in Sids : Gone(r) => Gone(r)']_vars

\* The first statement that revokes a row has the last word: a rotation that
\* loses against a logout, a cut or another rotation does not rewrite the row.
RevocationIsFinal ==
    [][\A s \in Sids : sessions[s].state = "revoked" => sessions'[s] = sessions[s]]_vars

\* However requests interleave, fewer devices than there are requests in flight
\* survive a cut: only a refresh that was past its check when the cut ran can
\* bring its device back.
SurvivorsBounded ==
    LiveRoots \cap closed # {} => Cardinality(LiveRoots \cap closed) < Cardinality(Workers)

\* Unless two requests renewed the device at the same time, its refreshes never
\* fork: whatever crashes, lost answers and requests of other devices there are,
\* of the tokens its client received at most one is live.
OneHeldPerDevice ==
    \A s, t \in held :
        /\ Live(s) /\ Live(t)
        /\ sessions[s].root = sessions[t].root
        /\ sessions[s].root \notin contested
        => s = t

\* "Cerrar sesion en todos los dispositivos": no device that had a session when
\* all were closed has one afterwards.
ClosedDevicesStayClosed == LiveRoots \cap closed = {}

=============================================================================
