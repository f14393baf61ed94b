--------------------------- MODULE PasswordReset ---------------------------
(***************************************************************************)
(* The password of a user of the panel: signing in with it, changing it,   *)
(* and getting a new one with a code sent by e-mail (auth.service.ts,      *)
(* recover-form.tsx). Each request is several statements, none of them in  *)
(* a transaction:                                                          *)
(*                                                                         *)
(*   forgot   insert the code -> send the e-mail                           *)
(*   reset    find the newest live code -> new password -> mark the code   *)
(*            used -> revoke every session                                 *)
(*   change   verify the password -> new password -> revoke every session  *)
(*   sign in  verify the password -> insert the session                    *)
(*   refresh  find the session open -> insert the next -> revoke the old   *)
(*   profile  revoke every session -> insert one                           *)
(*                                                                         *)
(* Passwords are numbered in the order they were set. Sessions.tla has the *)
(* rest of the life of a session: its expiry, the logouts and the tokens   *)
(* presented twice, which only revoke.                                     *)
(***************************************************************************)
EXTENDS Naturals, FiniteSets, FiniteSetsExt

CONSTANTS
    Requests,       \* requests in flight
    Nobody,         \* the form waits for no request
    MaxCodes,       \* bound: codes asked for
    MaxPasswords,   \* bound: passwords set
    MaxSessions     \* bound: sessions opened

VARIABLES
    password,       \* the password the user has
    codes,          \* password_reset_codes: rows, and those used and expired
    inbox,          \* codes whose e-mail was sent
    open,           \* refresh_sessions that are not revoked: [id, of], of the password
                    \* it was verified with
    access,         \* the passwords of the sign-ins that access tokens go back to
    req,            \* request -> where it is; about: the code it brings or the
                    \* session it renews; of: the password it goes back to
    form,           \* step of recover-form.tsx, and the request it waits for
    opened,         \* how many sessions were opened
    late,           \* history: requests past their check when sessions were revoked
    excused         \* history: sessions that such a request or a failure left open

vars == <<password, codes, inbox, open, access, req, form, opened, late, excused>>

\* The user has a password to begin with.
PasswordResetAssumption ==
    MaxCodes \in Nat /\ MaxPasswords \in Nat \ {0} /\ MaxSessions \in Nat

NoReq == [op |-> "none", pc |-> "idle", about |-> 0, of |-> 0]

OpenIds == {s.id : s \in open}

\* SQL_FIND_VALID_PASSWORD_RESET: unused, unexpired, the newest.
Live == codes.rows \ (codes.used \cup codes.expired)
NewestLive(code) == Live # {} /\ code = Max(Live)

\* A password was set and the sessions are not revoked yet.
Closing(r) == req[r].pc \in {"mark", "revoke"}

\* The form hears of the request it waits for, and shows the step.
Heard(r, step) ==
    IF form.waits = r THEN [step |-> step, waits |-> Nobody] ELSE form

\* The requests that will insert a session.
Checked == {r \in Requests : req[r].pc \in {"cut", "open"}}

Begin(r, op, pc, about, of) ==
    /\ req[r].pc = "idle"
    /\ req' = [req EXCEPT ![r] = [op |-> op, pc |-> pc, about |-> about, of |-> of]]

\* forgotPassword, from the form: the code is inserted.
Forgot(r) ==
    /\ form.step = "forgot" /\ form.waits = Nobody /\ Cardinality(codes.rows) < MaxCodes
    /\ Begin(r, "forgot", "mail", Cardinality(codes.rows) + 1, 0)
    /\ codes' = [codes EXCEPT !.rows = @ \cup {Cardinality(@) + 1}]
    /\ form' = [form EXCEPT !.waits = r]
    /\ UNCHANGED <<password, inbox, open, access, opened, late, excused>>

\* mail.send, awaited: an error of it (Fail) is the answer, with the code in the
\* table. Without a mail service it sends nothing and says so to nobody.
Mail(r) ==
    /\ req[r].pc = "mail"
    /\ inbox' \in {inbox, inbox \cup {req[r].about}}
    /\ req' = [req EXCEPT ![r] = NoReq]
    /\ form' = Heard(r, "reset")
    /\ UNCHANGED <<password, codes, open, access, opened, late, excused>>

\* The link under either form.
OtherStep ==
    /\ form.waits = Nobody
    /\ form' = [form EXCEPT !.step = IF @ = "forgot" THEN "reset" ELSE "forgot"]
    /\ UNCHANGED <<password, codes, inbox, open, access, req, opened, late, excused>>

\* resetPassword with a code that was mailed: only the newest live one is right;
\* the others are a 400, which changes nothing.
Reset(r, code) ==
    /\ form.step = "reset" /\ form.waits = Nobody
    /\ code \in inbox /\ NewestLive(code)
    /\ Begin(r, "reset", "set", code, 0)
    /\ form' = [form EXCEPT !.waits = r]
    /\ UNCHANGED <<password, codes, inbox, open, access, opened, late, excused>>

\* changePassword from the panel: the current password is verified.
Change(r) ==
    /\ Begin(r, "change", "set", 0, password)
    /\ UNCHANGED <<password, codes, inbox, open, access, form, opened, late, excused>>

\* SQL_UPDATE_PASSWORD: it does not look at the password again.
SetPassword(r) ==
    /\ req[r].pc = "set" /\ password < MaxPasswords
    /\ password' = password + 1
    /\ req' = [req EXCEPT ![r].pc = IF req[r].op = "reset" THEN "mark" ELSE "revoke"]
    /\ UNCHANGED <<codes, inbox, open, access, form, opened, late, excused>>

\* Broken: the sessions are left to expire.
MarkAndEnd(r) ==
    /\ req[r].pc = "mark"
    /\ codes' = [codes EXCEPT !.used = @ \cup {req[r].about}]
    /\ req' = [req EXCEPT ![r] = NoReq]
    /\ form' = Heard(r, "forgot")
    /\ UNCHANGED <<password, inbox, open, access, opened, late, excused>>

\* SQL_MARK_PASSWORD_RESET_USED.
Mark(r) ==
    /\ req[r].pc = "mark"
    /\ codes' = [codes EXCEPT !.used = @ \cup {req[r].about}]
    /\ req' = [req EXCEPT ![r].pc = "revoke"]
    /\ UNCHANGED <<password, inbox, open, access, form, opened, late, excused>>

\* revokeAllForUser: every session there is.
Revoke(r) ==
    /\ req[r].pc = "revoke"
    /\ open' = {}
    /\ req' = [req EXCEPT ![r] = NoReq]
    /\ form' = Heard(r, "forgot")
    /\ late' = late \cup Checked
    /\ UNCHANGED <<password, codes, inbox, access, opened, excused>>

\* login: findUserByCredentials.
SignIn(r) ==
    /\ Begin(r, "login", "open", 0, password)
    /\ UNCHANGED <<password, codes, inbox, open, access, form, opened, late, excused>>

\* refresh: assertValidForRefresh finds the session open.
Refresh(r) ==
    /\ \E s \in open : Begin(r, "refresh", "open", s.id, s.of)
    /\ UNCHANGED <<password, codes, inbox, open, access, form, opened, late, excused>>

\* updateProfile, with an access token, which no revocation ends: it may go back
\* to a password that is gone.
Profile(r) ==
    /\ \E of \in access :
        /\ Begin(r, "profile", "cut", 0, of)
        /\ late' = IF of # password THEN late \cup {r} ELSE late
    /\ UNCHANGED <<password, codes, inbox, open, access, form, opened, excused>>

\* revokeAllForUser of updateProfile.
Cut(r) ==
    /\ req[r].pc = "cut"
    /\ open' = {}
    /\ req' = [req EXCEPT ![r].pc = "open"]
    /\ UNCHANGED <<password, codes, inbox, access, form, opened, late, excused>>

\* createSession in issueTokens: whatever the password is by now, and whether or
\* not the session to renew is still open.
OpenSession(r) ==
    /\ req[r].pc = "open" /\ opened < MaxSessions
    /\ opened' = opened + 1
    /\ open' = open \cup {[id |-> opened + 1, of |-> req[r].of]}
    /\ access' = access \cup {req[r].of}
    /\ excused' = IF r \in late \/ (req[r].op = "refresh" /\ req[r].about \in excused)
                  THEN excused \cup {opened + 1} ELSE excused
    /\ late' = late \ {r}
    /\ IF req[r].op = "refresh"
       THEN req' = [req EXCEPT ![r].pc = "rotate"]
       ELSE req' = [req EXCEPT ![r] = NoReq]
    /\ UNCHANGED <<password, codes, inbox, form>>

\* revokeSession of the session that was renewed.
Rotate(r) ==
    /\ req[r].pc = "rotate"
    /\ open' = {s \in open : s.id # req[r].about}
    /\ req' = [req EXCEPT ![r] = NoReq]
    /\ UNCHANGED <<password, codes, inbox, access, form, opened, late, excused>>

\* The request fails at its next statement; the ones before it stay.
Fail(r) ==
    /\ req[r].pc # "idle"
    /\ req' = [req EXCEPT ![r] = NoReq]
    /\ excused' = IF Closing(r) THEN excused \cup OpenIds ELSE excused
    /\ late' = (IF Closing(r) THEN late \cup Checked ELSE late) \ {r}
    /\ form' = Heard(r, form.step)
    /\ UNCHANGED <<password, codes, inbox, open, access, opened>>

\* RESET_TTL_MS: codes expire in the order they were made.
Expire ==
    /\ codes.rows \ codes.expired # {}
    /\ codes' = [codes EXCEPT !.expired = @ \cup {Min(codes.rows \ codes.expired)}]
    /\ UNCHANGED <<password, inbox, open, access, req, form, opened, late, excused>>

\* The form is loaded again while it waits, and hears nothing of what it sent.
ReloadForm ==
    /\ form' = [step |-> "forgot", waits |-> Nobody]
    /\ UNCHANGED <<password, codes, inbox, open, access, req, opened, late, excused>>

Init ==
    /\ password = 1
    /\ codes = [rows |-> {}, used |-> {}, expired |-> {}]
    /\ inbox = {} /\ open = {} /\ access = {} /\ opened = 0
    /\ req = [r \in Requests |-> NoReq]
    /\ form = [step |-> "forgot", waits |-> Nobody]
    /\ late = {} /\ excused = {}

Next ==
    \/ \E r \in Requests :
        \/ Forgot(r) \/ Mail(r) \/ Change(r) \/ SetPassword(r) \/ Mark(r) \/ Revoke(r)
        \/ SignIn(r) \/ Refresh(r) \/ Profile(r) \/ Cut(r) \/ OpenSession(r) \/ Rotate(r)
        \/ Fail(r)
    \/ \E r \in Requests, code \in 1..MaxCodes : Reset(r, code)
    \/ OtherStep \/ Expire \/ ReloadForm

Spec == Init /\ [][Next]_vars

-----------------------------------------------------------------------------
(* Properties *)

\* Type correctness; the form waits for a request of its own.
TypeOK ==
    /\ password \in 1..MaxPasswords
    /\ codes.used \cup codes.expired \subseteq codes.rows /\ codes.rows \subseteq 1..MaxCodes
    /\ inbox \subseteq codes.rows
    /\ OpenIds \cup excused \subseteq 1..opened
    /\ access \subseteq 1..MaxPasswords /\ late \subseteq Requests
    /\ form.step \in {"forgot", "reset"}
    /\ form.waits # Nobody => req[form.waits].op \in {"forgot", "reset"}

\* No session outlives the password it was opened with, though the password is
\* set in one statement and the sessions are revoked in a later one, but for
\* these: one about to be revoked; one inserted by a sign-in, a refresh or a
\* profile edit that was past its check when the sessions were revoked, or by a
\* profile edit with an access token from before; one left by a request that
\* failed between the two statements; and one that renews such a session
\* (auth.service.ts:246-248, 265-266, 330, 439).
OldSessionsAreExcused ==
    \A s \in open : s.of # password => s.id \in excused \/ \E r \in Requests : Closing(r)

=============================================================================
