------------------------------- MODULE Panel -------------------------------
(***************************************************************************)
(* The staff panel in the browser: the two cookies with the tokens that    *)
(* the tabs of a browser share (frontend/src/lib/auth), the claims each    *)
(* tab decoded when it was mounted (providers/auth-provider.tsx), and      *)
(* apiFetch (lib/api/client.ts), which answers a 401 with a refresh of its *)
(* own and one retry.  Every call of every page does so by itself.         *)
(*                                                                         *)
(*   sent -> ok | err | 401 -> refreshing -> rotating -> refreshed -> sent *)
(*                                        -> refused                       *)
(*                                                                         *)
(* One user.  A token is named by the sid of the refresh session it was    *)
(* issued with; an access token needs no row, only not to have expired,    *)
(* and its cookie expires with it.  The 7 days of a refresh token are not  *)
(* over.  Sessions has the statements of the server one by one; here a     *)
(* request is one step, a refresh two: it checks, then it rotates.         *)
(***************************************************************************)
EXTENDS Naturals, FiniteSets

CONSTANTS
    Tabs,
    Calls,          \* bound: calls in flight
    Sids,           \* bound: refresh sessions
    None,
    MaxSignIns,     \* bound: sessions that are not rotated from another
    MaxUnheard,     \* bound: calls nobody waits for any more
    Ops             \* bound: the calls in play, of AllOps

\* A token is none of the absent ones, and the calls in play are calls there are.
PanelAssumption ==
    /\ None \notin Sids
    /\ Ops \subseteq {"login", "read", "profile", "password", "logoutAll", "logout"}

VARIABLES
    cookie,         \* the two token cookies of the browser
    tab,            \* each tab: the login, or the panel while it has claims
    call,           \* the calls in flight
    sessions,       \* refresh_sessions
    fresh,          \* access tokens that have not expired
    marks,          \* history: what went wrong or was closed so far, of Marks
    signedOut       \* history: sign-ins ended by a logout nothing interfered with

vars == <<cookie, tab, call, sessions, fresh, marks, signedOut>>

history == <<marks, signedOut>>

\* raced: two calls renewed or ended one session at once; lost: the answer of a
\* call that does was not heard, or was an error; closed: the user closed them all.
Marks == {"raced", "lost", "closed"}

\* read stands for every authenticated call that leaves the sessions alone.
AllOps == {"login", "read", "profile", "password", "logoutAll", "logout"}

Authenticated == {"read", "profile", "password", "logoutAll"}

NoTokens == [access |-> None, refresh |-> None]

\* setAuthCookies and clearAuthCookies write both.
Tokens(s) == [access |-> s, refresh |-> s]

NoCall == [pc |-> "idle", op |-> "read", tab |-> None, sid |-> None, new |-> None,
           again |-> FALSE, heard |-> TRUE]

Idle(c) == call' = [call EXCEPT ![c] = NoCall]

Absent == [state |-> "none", root |-> None]

Root(s) == sessions[s].root

Live(s) == sessions[s].state = "live"

Underway(c) == call[c].pc # "idle"

\* A call between reading the refresh cookie and storing what it got for it.
Renewing(c, s) == call[c].pc \in {"refreshing", "rotating", "refreshed"} /\ call[c].sid = s

Ending(c, s) == Underway(c) /\ call[c].op = "logout" /\ call[c].sid = s

\* History: another call renews or ends the same session.
Contest(c, s) ==
    marks' = marks \cup
        IF \E d \in Calls \ {c} : Renewing(d, s) \/ Ending(d, s) THEN {"raced"} ELSE {}

\* A call that nobody waits for any more: unless the server is still to act on
\* it, nothing is left of it.
Left(c) ==
    IF \/ call[c].pc \in {"refreshing", "rotating"}
       \/ call[c].pc = "sent" /\ call[c].op # "read"
    THEN [call[c] EXCEPT !.heard = FALSE] ELSE NoCall

Unheard(cs) ==
    IF \E c \in cs : \/ call[c].pc \in {"refreshing", "rotating", "refreshed"}
                     \/ Underway(c) /\ call[c].op = "logout"
    THEN {"lost"} ELSE {}

-----------------------------------------------------------------------------
(* Tabs *)

\* AuthProvider reads the session once, AppGuard sends whoever has none to
\* the login: an access token that expired is enough for that.
Mounted == IF cookie.access # None THEN "panel" ELSE "login"

Abandoned(cs) ==
    Cardinality({c \in Calls : ~call[c].heard \/ (c \in cs /\ Left(c) # NoCall)}) <= MaxUnheard

CallsOf(t) == {c \in Calls : call[c].tab = t}

\* /app is opened or reloaded: nobody waits for the calls of the old page.
Open(t) ==
    /\ Abandoned(CallsOf(t))
    /\ tab' = [tab EXCEPT ![t] = Mounted]
    /\ call' = [c \in Calls |-> IF c \in CallsOf(t) THEN Left(c) ELSE call[c]]
    /\ marks' = marks \cup Unheard(CallsOf(t))
    /\ UNCHANGED <<cookie, sessions, fresh, signedOut>>

Start(t, c, op, s) ==
    /\ ~Underway(c)
    /\ op \in Ops
    /\ call' = [call EXCEPT ![c] = [NoCall EXCEPT !.pc = "sent", !.op = op, !.tab = t, !.sid = s]]

\* A form is disabled while it is sent; pages read as they like.
Submitted(t, op) == \E c \in Calls : call[c].tab = t /\ Underway(c) /\ call[c].op = op
                                     /\ call[c].heard

\* LoginForm.
SendLogin(t, c) ==
    /\ tab[t] = "login"
    /\ ~Submitted(t, "login")
    /\ Start(t, c, "login", None)
    /\ UNCHANGED <<cookie, tab, sessions, fresh, history>>

\* request: the access cookie of this moment, if there is one.
Send(t, c, op) ==
    /\ tab[t] = "panel"
    /\ op \in Authenticated
    /\ op # "read" => ~Submitted(t, op)
    /\ Start(t, c, op, cookie.access)
    /\ UNCHANGED <<cookie, tab, sessions, fresh, history>>

\* Broken: the panel forgets its tokens without telling the server.
SendLogoutLocal(t, c) ==
    /\ tab[t] = "panel" /\ "logout" \in Ops /\ ~Underway(c)
    /\ cookie' = NoTokens
    /\ tab' = [tab EXCEPT ![t] = "login"]
    /\ signedOut' = signedOut \cup
          IF cookie.refresh # None
             /\ \A d \in Calls : ~Renewing(d, cookie.refresh)
             /\ marks \cap {"raced", "lost"} = {}
          THEN {Root(cookie.refresh)} ELSE {}
    /\ UNCHANGED <<call, sessions, fresh, marks>>

\* logout: the refresh cookie of this moment.
SendLogout(t, c) ==
    LET s == cookie.refresh
    IN  /\ tab[t] = "panel"
        /\ IF s = None
           THEN /\ "logout" \in Ops
                /\ tab' = [tab EXCEPT ![t] = "login"]
                /\ UNCHANGED <<call, marks>>
           ELSE /\ Start(t, c, "logout", s)
                /\ Contest(c, s)
                /\ UNCHANGED tab
        /\ UNCHANGED <<cookie, sessions, fresh, signedOut>>

-----------------------------------------------------------------------------
(* The server *)

\* revokeAllForUser.
Closed(rows) == [s \in Sids |-> IF rows[s].state = "live"
                                THEN [rows[s] EXCEPT !.state = "revoked"] ELSE rows[s]]

Answer(c, pc) == call' = [call EXCEPT ![c].pc = pc]

\* The request is served: the access token that came with it is of no more use.
Served(c, pc) == call' = [call EXCEPT ![c].pc = pc, ![c].sid = None]

AnswerWith(c, pc, s) == call' = [call EXCEPT ![c].pc = pc, ![c].new = s]

\* login and updateProfile: a session of its own.
Issue(c, s, rows) ==
    /\ sessions[s].state = "none"
    /\ Cardinality({r \in Sids : Root(r) = r}) < MaxSignIns
    /\ sessions' = [rows EXCEPT ![s] = [state |-> "live", root |-> s]]
    /\ fresh' = fresh \cup {s}
    /\ AnswerWith(c, "ok", s)

\* A handler refuses: wrong password, invalid input, no permission.
Refuse(c) ==
    /\ call[c].pc = "sent"
    /\ call[c].op \in Authenticated => call[c].sid \in fresh
    /\ call[c].op \notin {"read", "logout"}
    /\ Served(c, "err")
    /\ UNCHANGED <<cookie, tab, sessions, fresh, history>>

\* The access token is missing or has expired.
Reject(c) ==
    /\ call[c].pc = "sent" /\ call[c].op \in Authenticated
    /\ call[c].sid \notin fresh
    /\ Served(c, "401")
    /\ UNCHANGED <<cookie, tab, sessions, fresh, history>>

ServeLogin(c) ==
    /\ call[c].pc = "sent" /\ call[c].op = "login"
    /\ \E s \in Sids : Issue(c, s, sessions)
    /\ UNCHANGED <<cookie, tab, history>>

ServeRead(c) ==
    /\ call[c].pc = "sent" /\ call[c].op = "read" /\ call[c].sid \in fresh
    /\ Served(c, "ok")
    /\ UNCHANGED <<cookie, tab, sessions, fresh, history>>

ServeProfile(c) ==
    /\ call[c].pc = "sent" /\ call[c].op = "profile" /\ call[c].sid \in fresh
    /\ \E s \in Sids : Issue(c, s, Closed(sessions))
    /\ marks' = marks \cup {"closed"}
    /\ UNCHANGED <<cookie, tab, signedOut>>

\* changePassword and logoutAll.
ServeClose(c) ==
    /\ call[c].pc = "sent" /\ call[c].op \in {"password", "logoutAll"} /\ call[c].sid \in fresh
    /\ sessions' = Closed(sessions)
    /\ marks' = marks \cup {"closed"}
    /\ Served(c, "ok")
    /\ UNCHANGED <<cookie, tab, fresh, signedOut>>

ServeLogout(c) ==
    /\ call[c].pc = "sent" /\ call[c].op = "logout"
    /\ sessions' = [sessions EXCEPT ![call[c].sid].state = "revoked"]
    /\ Answer(c, "ok")
    /\ UNCHANGED <<cookie, tab, fresh, history>>

\* assertValidForRefresh: a token presented after it was revoked closes every
\* session.
CheckRefresh(c) ==
    /\ call[c].pc = "refreshing"
    /\ IF Live(call[c].sid)
       THEN Answer(c, "rotating") /\ UNCHANGED sessions
       ELSE Answer(c, "refused") /\ sessions' = Closed(sessions)
    /\ UNCHANGED <<cookie, tab, fresh, history>>

\* A query of the refresh fails: to the client that is a refusal as well.
RefreshFails(c) ==
    /\ call[c].pc \in {"refreshing", "rotating"}
    /\ Answer(c, "refused")
    /\ marks' = marks \cup {"lost"}
    /\ UNCHANGED <<cookie, tab, sessions, fresh, signedOut>>

\* issueTokens with rotateFromSessionId.
Rotate(c) ==
    /\ call[c].pc = "rotating"
    /\ \E s \in Sids :
          /\ sessions[s].state = "none"
          /\ sessions' = [sessions EXCEPT ![s] = [state |-> "live", root |-> Root(call[c].sid)],
                                          ![call[c].sid].state = "revoked"]
          /\ fresh' = fresh \cup {s}
          /\ AnswerWith(c, "refreshed", s)
    /\ UNCHANGED <<cookie, tab, history>>

\* The access token runs out and its cookie with it; one that nothing carries
\* any more is not followed.
ExpireAccess(s) ==
    /\ s \in fresh
    /\ \/ cookie.access = s
       \/ \E c \in Calls : Underway(c) /\ s \in {call[c].sid, call[c].new}
    /\ fresh' = fresh \ {s}
    /\ cookie' = IF cookie.access = s THEN [cookie EXCEPT !.access = None] ELSE cookie
    /\ UNCHANGED <<tab, call, sessions, history>>

-----------------------------------------------------------------------------
(* apiFetch *)

\* 401: refresh with the cookie of this moment.  The retry is not refreshed
\* again; the claims of the tab stay what they are.
Unauthorized(c) ==
    /\ call[c].pc = "401" /\ call[c].heard
    /\ IF call[c].again \/ cookie.refresh = None
       THEN Idle(c) /\ UNCHANGED marks
       ELSE /\ call' = [call EXCEPT ![c].pc = "refreshing", ![c].sid = cookie.refresh]
            /\ Contest(c, cookie.refresh)
    /\ UNCHANGED <<cookie, tab, sessions, fresh, signedOut>>

\* Broken: only the access cookie is replaced.
RefreshedAccess(c) ==
    /\ call[c].pc = "refreshed" /\ call[c].heard
    /\ cookie' = [cookie EXCEPT !.access = call[c].new]
    /\ call' = [call EXCEPT ![c].pc = "sent", ![c].sid = call[c].new, ![c].new = None,
                            ![c].again = TRUE]
    /\ UNCHANGED <<tab, sessions, fresh, history>>

\* persistAuthTokens, and the request once more with the new token.
Refreshed(c) ==
    /\ call[c].pc = "refreshed" /\ call[c].heard
    /\ cookie' = Tokens(call[c].new)
    /\ call' = [call EXCEPT ![c].pc = "sent", ![c].sid = call[c].new, ![c].new = None,
                            ![c].again = TRUE]
    /\ UNCHANGED <<tab, sessions, fresh, history>>

\* The refresh is refused: both cookies go, whoever wrote them.
Refused(c) ==
    /\ call[c].pc = "refused" /\ call[c].heard
    /\ cookie' = NoTokens
    /\ Idle(c)
    /\ UNCHANGED <<tab, sessions, fresh, history>>

-----------------------------------------------------------------------------
(* Answers *)

\* A read, a password, or a refusal: nothing about the session changes.
Ends(c) ==
    /\ call[c].heard
    /\ \/ call[c].pc = "err"
       \/ call[c].pc = "ok" /\ call[c].op \in {"read", "password"}
    /\ Idle(c)
    /\ UNCHANGED <<cookie, tab, sessions, fresh, history>>

\* login and applyTokens.
SignedIn(c) ==
    /\ call[c].pc = "ok" /\ call[c].op \in {"login", "profile"} /\ call[c].heard
    /\ cookie' = Tokens(call[c].new)
    /\ tab' = [tab EXCEPT ![call[c].tab] =
                  IF call[c].op = "login" THEN "panel" ELSE @]
    /\ Idle(c)
    /\ UNCHANGED <<sessions, fresh, history>>

\* ConfiguracionPage: every session was closed, now this one is left.
AllClosed(c) ==
    /\ call[c].pc = "ok" /\ call[c].op = "logoutAll" /\ call[c].heard
    /\ IF cookie.refresh = None
       THEN /\ Idle(c)
            /\ tab' = [tab EXCEPT ![call[c].tab] = "login"]
            /\ UNCHANGED marks
       ELSE /\ call' = [call EXCEPT ![c] = [@ EXCEPT !.pc = "sent", !.op = "logout",
                                                     !.sid = cookie.refresh]]
            /\ Contest(c, cookie.refresh)
            /\ UNCHANGED tab
    /\ UNCHANGED <<cookie, sessions, fresh, signedOut>>

\* Nothing else was renewing the session that a logout ends.
Undisturbed(c) ==
    /\ marks \cap {"raced", "lost"} = {}
    /\ \A d \in Calls \ {c} : ~Renewing(d, call[c].sid)

\* The end of logout: its answer, or the lack of one, empties the cookies.
SignedOut(c) ==
    /\ call[c].op = "logout" /\ call[c].heard
    /\ call[c].pc = "ok"
    /\ cookie' = NoTokens
    /\ tab' = [tab EXCEPT ![call[c].tab] = "login"]
    /\ Idle(c)
    /\ signedOut' = signedOut \cup IF Undisturbed(c) THEN {Root(call[c].sid)} ELSE {}
    /\ UNCHANGED <<sessions, fresh, marks>>

\* The connection breaks: the call throws, what it sent may still be served.
ConnectionLost(c) ==
    /\ call[c].pc \in {"sent", "refreshing", "rotating", "refreshed"} /\ call[c].heard
    /\ Abandoned({c})
    /\ call' = [call EXCEPT ![c] = Left(c)]
    /\ marks' = marks \cup Unheard({c})
    /\ IF call[c].op = "logout"
       THEN /\ cookie' = NoTokens
            /\ tab' = [tab EXCEPT ![call[c].tab] = "login"]
       ELSE UNCHANGED <<cookie, tab>>
    /\ UNCHANGED <<sessions, fresh, signedOut>>

\* A request that never arrives, or an answer nobody waits for.
Dropped(c) ==
    /\ Underway(c) /\ ~call[c].heard
    /\ Idle(c)
    /\ UNCHANGED <<cookie, tab, sessions, fresh, history>>

-----------------------------------------------------------------------------
(* The specification *)

Init ==
    /\ cookie = NoTokens
    /\ tab = [t \in Tabs |-> "login"]
    /\ call = [c \in Calls |-> NoCall]
    /\ sessions = [s \in Sids |-> Absent]
    /\ fresh = {} /\ marks = {} /\ signedOut = {}

Page(t, c) ==
    \/ SendLogin(t, c) \/ SendLogout(t, c)
    \/ \E op \in Ops : Send(t, c, op)

Server(c) ==
    \/ Refuse(c) \/ Reject(c)
    \/ ServeLogin(c) \/ ServeRead(c) \/ ServeProfile(c) \/ ServeClose(c) \/ ServeLogout(c)
    \/ CheckRefresh(c) \/ RefreshFails(c) \/ Rotate(c)

Client(c) ==
    \/ Unauthorized(c) \/ Refreshed(c) \/ Refused(c)
    \/ Ends(c) \/ SignedIn(c) \/ AllClosed(c) \/ SignedOut(c)
    \/ ConnectionLost(c) \/ Dropped(c)

Next ==
    \/ \E t \in Tabs : Open(t) \/ \E c \in Calls : Page(t, c)
    \/ \E c \in Calls : Server(c) \/ Client(c)
    \/ \E s \in Sids : ExpireAccess(s)

Spec == Init /\ [][Next]_vars

-----------------------------------------------------------------------------
(* Properties *)

\* Type correctness; a logout presents a token.
TypeOK ==
    /\ cookie \in [access : Sids \cup {None}, refresh : Sids \cup {None}]
    /\ tab \in [Tabs -> {"login", "panel"}]
    /\ call \in [Calls -> [pc : {"idle", "sent", "ok", "err", "401", "refreshing", "rotating",
                                 "refreshed", "refused"},
                           op : AllOps, tab : Tabs \cup {None}, sid : Sids \cup {None},
                           new : Sids \cup {None}, again : BOOLEAN, heard : BOOLEAN]]
    /\ \A c \in Calls : Underway(c) /\ call[c].op = "logout" => call[c].sid # None
    /\ sessions \in [Sids -> [state : {"none", "live", "revoked"}, root : Sids \cup {None}]]
    /\ fresh \subseteq Sids
    /\ marks \subseteq Marks

\* A refresh is refused, and every session of the user closed for it, only
\* after two calls renewed or ended one session at once, an answer was lost, or
\* the user closed every session (client.ts:25-28, refresh-sessions.service.ts:75-83).
RefusedForCause ==
    \A c \in Calls : call[c].pc = "refused" => marks # {}

\* After a logout that no refresh crossed, nothing of that sign-in lives: not in
\* the table, not in the cookies (auth-provider.tsx:47-61).
LogoutEndsTheSignIn ==
    \A s \in Sids :
        Root(s) \in signedOut => ~Live(s) /\ cookie.refresh # s

=============================================================================
