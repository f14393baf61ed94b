--------------------------- MODULE SessionsProofs ---------------------------
(***************************************************************************)
(* Theorems about Sessions for every number of requests in flight and of   *)
(* sessions:                                                               *)
(*   SessionsTypeCorrect   the table and the requests keep their types     *)
(*   RevocationFinal       a revoked row is never written again            *)
(*   DevicesStayGone       a device with nothing left never comes back     *)
(*   FewSurvivors          fewer devices than requests survive a cut       *)
(*   OneUsableToken        the tokens of an uncontested device never fork  *)
(***************************************************************************)
EXTENDS Sessions, FiniteSetTheorems, TLAPS

-----------------------------------------------------------------------------
(* The inductive invariant *)

\* Every sid in use is a row of the table, and so is the root of every row.
RowsKnown ==
    /\ \A s \in Sids : Exists(s) => sessions[s].root \in Sids /\ Exists(sessions[s].root)
    /\ \A s \in held : Exists(s)
    /\ \A r \in access : Exists(r)

\* What a request in flight refers to: the token or device it came with, and
\* the session it made, which belongs to the device it refreshes.
RequestKnown(w) ==
    /\ work[w].pc # "idle" /\ work[w].op \in {"refresh", "logout", "profile"} =>
            work[w].sid \in Sids /\ Exists(work[w].sid)
    /\ work[w].pc \in {"find", "lookup", "rotate"} => work[w].op = "refresh"
    /\ work[w].pc = "revoke" => work[w].op = "logout"
    /\ work[w].pc = "insert" => work[w].op \in {"login", "refresh", "profile"}
    /\ work[w].pc \notin {"rotate", "done"} => work[w].fresh = NoSid
    /\ work[w].pc = "rotate" =>
            work[w].fresh \in Sids /\ sessions[work[w].fresh].root = sessions[work[w].sid].root
    /\ work[w].fresh # NoSid => work[w].fresh \in Sids /\ Exists(work[w].fresh)

Known == TypeOK /\ RowsKnown /\ \A w \in Workers : RequestKnown(w)

\* The rows only grow and keep their root.
RowsKept ==
    \A s \in Sids : Exists(s) => Exists(s)' /\ sessions'[s].root = sessions[s].root

LEMMA KnownInit == Init => Known
  <1> SUFFICES ASSUME Init PROVE Known
    OBVIOUS
  <1> USE DEF Init, Absent, Idle
  <1>1. TypeOK
    BY DEF TypeOK, Row, Work, Ops, Pcs
  <1>2. RowsKnown
    BY DEF RowsKnown, Exists
  <1>3. \A w \in Workers : RequestKnown(w)
    BY DEF RequestKnown
  <1> QED
    BY <1>1, <1>2, <1>3 DEF Known

LEMMA Steps ==
    ASSUME [Next]_vars
    PROVE  \/ \E w \in Workers : \E r \in Requests : Receive(w, r)
           \/ \E w \in Workers : Deliver(w)
           \/ \E w \in Workers : Fail(w)
           \/ \E w \in Workers : FindActive(w)
           \/ \E w \in Workers : DetectReuse(w)
           \/ \E w \in Workers : CreateSession(w)
           \/ \E w \in Workers : Rotate(w)
           \/ \E w \in Workers : Revoke(w)
           \/ \E w \in Workers : RevokeAll(w)
           \/ \E s \in Sids : ExpireSession(s)
           \/ \E s \in Sids : ExpireAccess(s)
           \/ UNCHANGED vars
  BY DEF Next, Step

\* A step that leaves the rows and the tokens alone and moves one request.
LEMMA OneRequestMoves ==
    ASSUME Known, NEW w \in Workers, NEW x \in Work,
           UNCHANGED <<sessions, held, access>>,
           closed' \subseteq Sids, contested' \subseteq Sids,
           work' = [work EXCEPT ![w] = x],
           RequestKnown(w)'
    PROVE  Known'
  <1>1. TypeOK'
    BY DEF Known, TypeOK
  <1>2. RowsKnown'
    BY DEF Known, RowsKnown, Exists
  <1>3. ASSUME NEW v \in Workers, v # w PROVE RequestKnown(v)'
    BY <1>3 DEF Known, TypeOK, RequestKnown, Exists
  <1> QED
    BY <1>1, <1>2, <1>3 DEF Known

\* A request that does not move is not disturbed by one that does.
LEMMA RequestKeptOverRows ==
    ASSUME NEW v \in Workers, RequestKnown(v), RowsKept, work'[v] = work[v]
    PROVE  RequestKnown(v)'
  <1>3. \A t \in Sids : Exists(t) => sessions'[t].state # "none" /\ sessions'[t].root = sessions[t].root
    BY DEF RowsKept, Exists
  <1>4. work[v].pc # "idle" /\ work[v].op \in {"refresh", "logout", "profile"} =>
            work[v].sid \in Sids /\ sessions'[work[v].sid].state # "none"
    BY <1>3 DEF RequestKnown
  <1>5. work[v].pc = "rotate" =>
            work[v].fresh \in Sids /\ sessions'[work[v].fresh].root = sessions'[work[v].sid].root
    <2>1. work[v].pc = "rotate" => work[v].op = "refresh" /\ work[v].fresh # NoSid
      BY SessionsAssumption DEF RequestKnown
    <2>2. work[v].pc = "rotate" => work[v].sid \in Sids /\ Exists(work[v].sid) /\ Exists(work[v].fresh)
      BY <2>1 DEF RequestKnown
    <2> QED
      BY <1>3, <2>2 DEF RequestKnown
  <1>6. work[v].fresh # NoSid => work[v].fresh \in Sids /\ sessions'[work[v].fresh].state # "none"
    BY <1>3 DEF RequestKnown
  <1> QED
    BY <1>4, <1>5, <1>6 DEF RequestKnown, Exists

\* A step that rewrites rows without removing one or changing its root.
LEMMA RowsRewritten ==
    ASSUME Known, NEW w \in Workers, NEW x \in Work,
           sessions' \in [Sids -> Row],
           RowsKept, \A s \in Sids : Exists(s)' => Exists(s),
           UNCHANGED <<held, access>>,
           closed' \subseteq Sids, contested' \subseteq Sids,
           work' = [work EXCEPT ![w] = x],
           RequestKnown(w)'
    PROVE  Known'
  <1>1. TypeOK'
    BY DEF Known, TypeOK
  <1>2. RowsKnown'
    BY DEF Known, TypeOK, RowsKnown, RowsKept, Exists
  <1>3. ASSUME NEW v \in Workers, v # w PROVE RequestKnown(v)'
    <2>1. work'[v] = work[v]
      BY <1>3 DEF Known, TypeOK
    <2> QED
      BY <2>1, RequestKeptOverRows DEF Known
  <1> QED
    BY <1>1, <1>2, <1>3 DEF Known

LEMMA ContestTyped ==
    ASSUME Known, NEW w \in Workers, NEW r \in Sids, Contest(w, r)
    PROVE  contested' \subseteq Sids
  BY DEF Known, TypeOK, Contest

LEMMA KnownReceive ==
    ASSUME Known, NEW w \in Workers, NEW r \in Requests, Receive(w, r)
    PROVE  Known'
  <1> DEFINE x == [pc |-> FirstStep(r.op), op |-> r.op, sid |-> r.sid, fresh |-> NoSid]
  <1>1. r \in Request /\ r.op \in Ops /\ r.sid \in Sids \cup {NoSid}
    BY SessionsAssumption DEF Request
  <1>2. /\ r.op = "login" => FirstStep(r.op) = "insert"
        /\ r.op = "refresh" => FirstStep(r.op) = "find"
        /\ r.op = "logout" => FirstStep(r.op) = "revoke"
        /\ r.op \in {"close", "profile"} => FirstStep(r.op) = "cut"
    BY <1>1 DEF FirstStep, Ops
  <1>3. x \in Work
    BY <1>1, <1>2 DEF Work, Pcs, Ops
  <1>4. work' = [work EXCEPT ![w] = x] /\ UNCHANGED <<sessions, held, access, closed, contested>>
    BY DEF Receive
  <1>5. r.op \in {"refresh", "logout", "profile"} => r.sid \in Sids /\ Exists(r.sid)
    BY DEF Receive, Known, TypeOK, RowsKnown
  <1>6. work'[w] = x
    BY <1>4 DEF Known, TypeOK
  <1>7. RequestKnown(w)'
    BY <1>1, <1>2, <1>4, <1>5, <1>6 DEF RequestKnown, Exists, Ops
  <1> QED
    BY <1>3, <1>4, <1>7, OneRequestMoves DEF Known, TypeOK

LEMMA IdleKnown ==
    ASSUME Known, NEW w \in Workers, work' = [work EXCEPT ![w] = Idle]
    PROVE  Idle \in Work /\ RequestKnown(w)'
  <1>1. work'[w] = Idle
    BY DEF Known, TypeOK
  <1> QED
    BY <1>1 DEF Idle, Work, Ops, Pcs, RequestKnown

LEMMA KnownDeliver ==
    ASSUME Known, NEW w \in Workers, Deliver(w)
    PROVE  Known'
  <1>1. work' = [work EXCEPT ![w] = Idle] /\ UNCHANGED <<sessions, closed, contested>>
    BY DEF Deliver
  <1>2. work[w].fresh # NoSid =>
            work[w].fresh \in Sids /\ Exists(work[w].fresh) /\ sessions[work[w].fresh].root \in Sids
            /\ Exists(sessions[work[w].fresh].root)
    BY DEF Known, RequestKnown, RowsKnown
  <1>3. TypeOK'
    BY <1>1, <1>2, IdleKnown DEF Deliver, Known, TypeOK
  <1>4. RowsKnown'
    BY <1>1, <1>2 DEF Deliver, Known, RowsKnown, Exists
  <1>5. ASSUME NEW v \in Workers, v # w PROVE RequestKnown(v)'
    BY <1>1, <1>5 DEF Known, TypeOK, RequestKnown, Exists
  <1> QED
    BY <1>1, <1>3, <1>4, <1>5, IdleKnown DEF Known

LEMMA KnownFail ==
    ASSUME Known, NEW w \in Workers, Fail(w)
    PROVE  Known'
  <1>1. work' = [work EXCEPT ![w] = Idle] /\ UNCHANGED <<sessions, held, access, closed, contested>>
    BY DEF Fail
  <1> QED
    BY <1>1, IdleKnown, OneRequestMoves DEF Known, TypeOK

LEMMA KnownFindActive ==
    ASSUME Known, NEW w \in Workers, FindActive(w)
    PROVE  Known'
  <1> DEFINE x == [work[w] EXCEPT !.pc = IF Live(work[w].sid) THEN "insert" ELSE "lookup"]
  <1>1. work' = [work EXCEPT ![w] = x] /\ UNCHANGED <<sessions, held, access, closed>>
    BY DEF FindActive, Go
  <1>2. work[w] \in Work /\ work[w].pc = "find"
    BY DEF FindActive, Known, TypeOK
  <1>3. x \in Work /\ work'[w] = x
    BY <1>1, <1>2 DEF Work, Pcs, Known, TypeOK
  <1>4. work[w].op = "refresh" /\ work[w].sid \in Sids /\ sessions[work[w].sid].root \in Sids
    BY <1>2 DEF Known, RequestKnown, RowsKnown
  <1>5. contested' \subseteq Sids
    BY <1>4, ContestTyped DEF FindActive, Known, TypeOK
  <1>6. RequestKnown(w)'
    BY <1>1, <1>2, <1>3 DEF Known, RequestKnown, Exists, Work
  <1> QED
    BY <1>1, <1>3, <1>5, <1>6, OneRequestMoves DEF Known, TypeOK

LEMMA KnownDetectReuse ==
    ASSUME Known, NEW w \in Workers, DetectReuse(w)
    PROVE  Known'
  <1> DEFINE x == [work[w] EXCEPT !.pc = IF sessions[work[w].sid].state = "revoked" THEN "cut" ELSE "done"]
  <1>1. work' = [work EXCEPT ![w] = x] /\ UNCHANGED <<sessions, held, access, closed, contested>>
    BY DEF DetectReuse, Go
  <1>2. work[w] \in Work /\ work[w].pc = "lookup"
    BY DEF DetectReuse, Known, TypeOK
  <1>3. x \in Work /\ work'[w] = x
    BY <1>1, <1>2 DEF Work, Pcs, Known, TypeOK
  <1>4. RequestKnown(w)'
    BY <1>1, <1>2, <1>3 DEF Known, RequestKnown, Exists, Work
  <1> QED
    BY <1>1, <1>3, <1>4, OneRequestMoves DEF Known, TypeOK

\* RevokeRow keeps the table a table.
LEMMA RevokeRowKeeps ==
    ASSUME Known, NEW s \in Sids, NEW next \in Sids \cup {NoSid}, RevokeRow(s, next)
    PROVE  /\ sessions' \in [Sids -> Row] /\ RowsKept
           /\ \A t \in Sids : (Exists(t)' => Exists(t)) /\ (Live(t)' => Live(t))
           /\ \A t \in Sids : sessions[t].state = "revoked" => sessions'[t] = sessions[t]
  <1>1. CASE sessions[s].state \in {"live", "expired"}
    <2> DEFINE row == [[sessions[s] EXCEPT !.state = "revoked"] EXCEPT !.next = next]
    <2>1. sessions' = [sessions EXCEPT ![s] = row]
      BY <1>1 DEF RevokeRow
    <2>2. sessions \in [Sids -> Row] /\ sessions[s] \in Row
      BY DEF Known, TypeOK
    <2>3. row \in Row /\ row.state = "revoked" /\ row.root = sessions[s].root
      BY <2>2 DEF Row
    <2> HIDE DEF row
    <2> QED
      BY <1>1, <2>1, <2>2, <2>3 DEF RowsKept, Exists, Live
  <1>2. CASE sessions[s].state \notin {"live", "expired"}
    BY <1>2 DEF RevokeRow, Known, TypeOK, RowsKept, Exists, Live
  <1> QED
    BY <1>1, <1>2

LEMMA KnownRotate ==
    ASSUME Known, NEW w \in Workers, Rotate(w)
    PROVE  Known'
  <1> DEFINE x == [work[w] EXCEPT !.pc = "done"]
  <1>1. work' = [work EXCEPT ![w] = x] /\ UNCHANGED <<held, access, closed, contested>>
    BY DEF Rotate, Go
  <1>2. work[w] \in Work /\ work[w].pc = "rotate"
    BY DEF Rotate, Known, TypeOK
  <1>3. x \in Work /\ work'[w] = x
    BY <1>1, <1>2 DEF Work, Pcs, Known, TypeOK
  <1>4. work[w].sid \in Sids /\ Exists(work[w].sid) /\ work[w].fresh \in Sids /\ Exists(work[w].fresh)
    BY <1>2, SessionsAssumption DEF Known, RequestKnown
  <1>5. sessions' \in [Sids -> Row] /\ RowsKept /\ \A t \in Sids : Exists(t)' => Exists(t)
    BY <1>4, RevokeRowKeeps DEF Rotate
  <1>6. sessions'[work[w].sid].state # "none" /\ sessions'[work[w].fresh].state # "none"
    BY <1>4, <1>5 DEF RowsKept, Exists
  <1>7. RequestKnown(w)'
    BY <1>3, <1>4, <1>6, <1>2 DEF RequestKnown, Exists, Work
  <1> QED
    BY <1>1, <1>3, <1>5, <1>7, RowsRewritten DEF Known, TypeOK

LEMMA KnownRevoke ==
    ASSUME Known, NEW w \in Workers, Revoke(w)
    PROVE  Known'
  <1> DEFINE x == [work[w] EXCEPT !.pc = "done"]
  <1>1. work' = [work EXCEPT ![w] = x] /\ UNCHANGED <<held, access, closed, contested>>
    BY DEF Revoke, Go
  <1>2. work[w] \in Work /\ work[w].pc = "revoke"
    BY DEF Revoke, Known, TypeOK
  <1>3. x \in Work /\ work'[w] = x
    BY <1>1, <1>2 DEF Work, Pcs, Known, TypeOK
  <1>4. work[w].sid \in Sids /\ Exists(work[w].sid) /\ work[w].fresh = NoSid
    BY <1>2 DEF Known, RequestKnown
  <1>5. sessions' \in [Sids -> Row] /\ RowsKept /\ \A t \in Sids : Exists(t)' => Exists(t)
    BY <1>4, RevokeRowKeeps DEF Revoke
  <1>6. sessions'[work[w].sid].state # "none"
    BY <1>4, <1>5 DEF RowsKept, Exists
  <1>7. RequestKnown(w)'
    BY <1>3, <1>4, <1>6, <1>2 DEF RequestKnown, Exists, Work
  <1> QED
    BY <1>1, <1>3, <1>5, <1>7, RowsRewritten DEF Known, TypeOK

\* The table after a cut.
LEMMA CutKeeps ==
    ASSUME Known, NEW w \in Workers, RevokeAll(w)
    PROVE  /\ sessions' \in [Sids -> Row] /\ RowsKept
           /\ \A t \in Sids : Exists(t)' => Exists(t)
           /\ \A t \in Sids : ~Live(t)'
  <1>1. \A t \in Sids : sessions'[t] = IF sessions[t].state \in {"live", "expired"}
                                       THEN [sessions[t] EXCEPT !.state = "revoked"]
                                       ELSE sessions[t]
    BY DEF RevokeAll
  <1>2. \A t \in Sids : sessions[t] \in Row
    BY DEF Known, TypeOK
  <1>3. \A t \in Sids : sessions'[t] \in Row
    BY <1>1, <1>2 DEF Row
  <1>4. sessions' = [t \in Sids |-> sessions'[t]]
    BY DEF RevokeAll
  <1> QED
    BY <1>1, <1>2, <1>3, <1>4 DEF Row, RowsKept, Exists, Live

LEMMA KnownRevokeAll ==
    ASSUME Known, NEW w \in Workers, RevokeAll(w)
    PROVE  Known'
  <1> DEFINE x == [work[w] EXCEPT !.pc = IF work[w].op = "profile" THEN "insert" ELSE "done"]
  <1>1. work' = [work EXCEPT ![w] = x] /\ UNCHANGED <<held, access>>
    BY DEF RevokeAll, Go
  <1>2. work[w] \in Work /\ work[w].pc = "cut"
    BY DEF RevokeAll, Known, TypeOK
  <1>3. x \in Work /\ work'[w] = x
    BY <1>1, <1>2 DEF Work, Pcs, Known, TypeOK
  <1>4. closed' \subseteq Sids
    BY DEF RevokeAll, ToClose, Existing, Known, RowsKnown
  <1>5. contested' \subseteq Sids
    BY <1>2, ContestTyped DEF RevokeAll, Known, TypeOK, RequestKnown
  <1>6. RequestKnown(w)'
    BY <1>2, <1>3, CutKeeps DEF Known, RequestKnown, RowsKept, Work, Ops
  <1> QED
    BY <1>1, <1>3, <1>4, <1>5, <1>6, CutKeeps, RowsRewritten

-----------------------------------------------------------------------------
(* A new session *)

\* The device a request inserts a session for, if it carries one on.
RootOf(w) == IF work[w].op = "profile" THEN work[w].sid ELSE sessions[work[w].sid].root

\* What createSession does, with the row it picked.
Created(w, s, root) ==
    /\ work[w].pc = "insert"
    /\ s \in Sids /\ root \in Sids /\ ~Exists(s)
    /\ IF work[w].op = "login" THEN root = s ELSE root = RootOf(w) /\ Exists(root)
    /\ sessions' = [sessions EXCEPT ![s] = [state |-> "live", next |-> NoSid, root |-> root]]
    /\ work' = [work EXCEPT ![w] = [pc |-> IF work[w].op = "refresh" THEN "rotate" ELSE "done",
                                   op |-> work[w].op, sid |-> work[w].sid, fresh |-> s]]
    /\ UNCHANGED <<held, access, closed, contested>>

LEMMA CreateSessionIs ==
    ASSUME Known, NEW w \in Workers, CreateSession(w)
    PROVE  \E s, root \in Sids : Created(w, s, root)
  <1> DEFINE rootOf(s) == CASE work[w].op = "login" -> s
                            [] work[w].op = "profile" -> work[w].sid
                            [] OTHER -> sessions[work[w].sid].root
  <1>1. PICK s \in Sids :
            /\ ~Exists(s)
            /\ sessions' = [sessions EXCEPT ![s] =
                                [state |-> "live", next |-> NoSid, root |-> rootOf(s)]]
            /\ work' = [work EXCEPT ![w].fresh = s,
                                    ![w].pc = IF work[w].op = "refresh" THEN "rotate" ELSE "done"]
    BY DEF CreateSession
  <1>2. work[w] \in Work /\ work[w].pc = "insert"
    BY DEF CreateSession, Known, TypeOK
  <1>3. work[w].op \in {"login", "refresh", "profile"}
    BY <1>2 DEF Known, RequestKnown
  <1>4. work[w].op # "login" => work[w].sid \in Sids /\ Exists(work[w].sid)
    BY <1>2, <1>3 DEF Known, RequestKnown
  <1>5. IF work[w].op = "login" THEN rootOf(s) = s
        ELSE rootOf(s) = RootOf(w) /\ rootOf(s) \in Sids /\ Exists(rootOf(s))
    BY <1>3, <1>4 DEF RootOf, Known, RowsKnown
  <1>6. work' = [work EXCEPT ![w] = [pc |-> IF work[w].op = "refresh" THEN "rotate" ELSE "done",
                                    op |-> work[w].op, sid |-> work[w].sid, fresh |-> s]]
    BY <1>1, <1>2 DEF Known, TypeOK, Work
  <1>7. Created(w, s, rootOf(s))
    BY <1>1, <1>2, <1>5, <1>6 DEF Created, CreateSession
  <1>8. rootOf(s) \in Sids
    BY <1>5
  <1> HIDE DEF rootOf
  <1> QED
    BY <1>7, <1>8

LEMMA CreatedKeeps ==
    ASSUME Known, NEW w \in Workers, NEW s \in Sids, NEW root \in Sids, Created(w, s, root)
    PROVE  /\ sessions' \in [Sids -> Row]
           /\ RowsKept
           /\ Exists(s)' /\ sessions'[s].root = root /\ Exists(root)'
           /\ \A t \in Sids \ {s} : sessions'[t] = sessions[t]
  <1>1. sessions'[s] = [state |-> "live", next |-> NoSid, root |-> root]
    BY DEF Created, Known, TypeOK
  <1>2. \A t \in Sids \ {s} : sessions'[t] = sessions[t]
    BY DEF Created, Known, TypeOK
  <1>3. sessions'[s] \in Row
    BY <1>1 DEF Row
  <1>4. sessions' \in [Sids -> Row]
    BY <1>3 DEF Created, Known, TypeOK
  <1> QED
    BY <1>1, <1>2, <1>4 DEF RowsKept, Exists, Created

LEMMA KnownCreateSession ==
    ASSUME Known, NEW w \in Workers, CreateSession(w)
    PROVE  Known'
  <1>1. PICK s \in Sids, root \in Sids : Created(w, s, root)
    BY CreateSessionIs
  <1>2. /\ sessions' \in [Sids -> Row]
        /\ RowsKept
        /\ Exists(s)' /\ sessions'[s].root = root /\ Exists(root)'
        /\ \A t \in Sids \ {s} : sessions'[t] = sessions[t]
    BY <1>1, CreatedKeeps
  <1> DEFINE x == [pc |-> IF work[w].op = "refresh" THEN "rotate" ELSE "done",
                   op |-> work[w].op, sid |-> work[w].sid, fresh |-> s]
  <1>3. work' = [work EXCEPT ![w] = x] /\ UNCHANGED <<held, access, closed, contested>>
    BY <1>1 DEF Created
  <1>4. work[w] \in Work /\ work[w].pc = "insert"
    BY <1>1 DEF Created, Known, TypeOK
  <1>5. x \in Work /\ work'[w] = x
    BY <1>3, <1>4 DEF Work, Pcs, Known, TypeOK
  <1>6. TypeOK'
    BY <1>2, <1>3, <1>5 DEF Known, TypeOK
  <1>7. RowsKnown'
    BY <1>2, <1>3 DEF Known, TypeOK, RowsKnown, RowsKept, Exists
  <1>8. RequestKnown(w)'
    <2>1. work[w].op \in {"refresh", "logout", "profile"} =>
              /\ work[w].sid \in Sids /\ Exists(work[w].sid)
              /\ sessions'[work[w].sid].state # "none"
              /\ sessions'[work[w].sid].root = sessions[work[w].sid].root
      BY <1>2, <1>4 DEF Known, RequestKnown, RowsKept, Exists
    <2>2. work[w].op = "refresh" => root = sessions'[work[w].sid].root
      BY <1>1, <1>2, <2>1 DEF Created, RootOf
    <2> QED
      BY <1>2, <1>4, <1>5, <2>1, <2>2 DEF RequestKnown, Exists, Known
  <1>9. ASSUME NEW v \in Workers, v # w PROVE RequestKnown(v)'
    <2>1. work'[v] = work[v]
      BY <1>3, <1>9 DEF Known, TypeOK
    <2> QED
      BY <1>2, <2>1, RequestKeptOverRows DEF Known
  <1> QED
    BY <1>6, <1>7, <1>8, <1>9 DEF Known

-----------------------------------------------------------------------------
(* Type correctness *)

\* A row that expires.
LEMMA ExpiredRow ==
    ASSUME Known, NEW s \in Sids, ExpireSession(s)
    PROVE  /\ sessions' \in [Sids -> Row] /\ RowsKept
           /\ \A t \in Sids : (Exists(t)' => Exists(t)) /\ (Live(t)' => Live(t))
           /\ \A t \in Sids \ {s} : sessions'[t] = sessions[t]
  <1> DEFINE row == [sessions[s] EXCEPT !.state = "expired"]
  <1>1. sessions \in [Sids -> Row] /\ sessions[s] \in Row
    BY DEF Known, TypeOK
  <1>2. sessions' = [sessions EXCEPT ![s] = row] /\ Exists(s)
    BY DEF ExpireSession, Live, Exists
  <1>3. row \in Row /\ row.state = "expired" /\ row.root = sessions[s].root
    BY <1>1 DEF Row
  <1> HIDE DEF row
  <1> QED
    BY <1>1, <1>2, <1>3 DEF RowsKept, Exists, Live

LEMMA KnownExpire ==
    ASSUME Known, NEW s \in Sids, ExpireSession(s) \/ ExpireAccess(s)
    PROVE  Known'
  <1>1. CASE ExpireSession(s)
    <2>1. UNCHANGED <<held, access, work, closed, contested>>
      BY <1>1 DEF ExpireSession
    <2>2. sessions' \in [Sids -> Row] /\ RowsKept /\ \A t \in Sids : Exists(t)' => Exists(t)
      BY <1>1, ExpiredRow
    <2>3. TypeOK'
      BY <2>1, <2>2 DEF Known, TypeOK
    <2>4. RowsKnown'
      BY <2>1, <2>2 DEF Known, TypeOK, RowsKnown, RowsKept, Exists
    <2>5. ASSUME NEW v \in Workers PROVE RequestKnown(v)'
      BY <2>1, <2>2, RequestKeptOverRows DEF Known
    <2> QED
      BY <2>3, <2>4, <2>5 DEF Known
  <1>2. CASE ExpireAccess(s)
    BY <1>2 DEF ExpireAccess, Known, TypeOK, RowsKnown, RequestKnown, Exists
  <1> QED
    BY <1>1, <1>2

LEMMA KnownNext == Known /\ [Next]_vars => Known'
  <1> SUFFICES ASSUME Known, [Next]_vars PROVE Known'
    OBVIOUS
  <1>1. CASE UNCHANGED vars
    BY <1>1 DEF vars, Known, TypeOK, RowsKnown, RequestKnown, Exists
  <1> QED
    BY <1>1, Steps, KnownReceive, KnownDeliver, KnownFail, KnownFindActive, KnownDetectReuse,
       KnownCreateSession, KnownRotate, KnownRevoke, KnownRevokeAll, KnownExpire

LEMMA AlwaysKnown == Spec => []Known
  <1> QED
    BY KnownInit, KnownNext, PTL DEF Spec

\* The refresh_sessions table, the tokens clients hold and the requests in flight
\* keep their types however requests interleave, fail and expire: no statement
\* ever reads a row that is not in the table.
THEOREM SessionsTypeCorrect == Spec => []TypeOK
  <1>1. Known => TypeOK
    BY DEF Known
  <1> QED
    BY <1>1, AlwaysKnown, PTL

-----------------------------------------------------------------------------
(* The row a rotation or a logout revokes *)

LEMMA RowOfRotate ==
    ASSUME Known, NEW w \in Workers, Rotate(w)
    PROVE  work[w].sid \in Sids /\ work[w].fresh \in Sids /\ RevokeRow(work[w].sid, work[w].fresh)
  BY DEF Rotate, Known, RequestKnown

LEMMA RowOfRevoke ==
    ASSUME Known, NEW w \in Workers, Revoke(w)
    PROVE  work[w].sid \in Sids /\ RevokeRow(work[w].sid, NoSid)
  BY DEF Revoke, Known, RequestKnown

-----------------------------------------------------------------------------
(* A revoked row is final *)

\* Whoever revokes a row first decides: the rotation that loses a race against a
\* logout, a cut or another rotation leaves its revoked_at and successor alone.
THEOREM RevocationFinal == Spec => RevocationIsFinal
  <1>1. ASSUME Known, [Next]_vars, NEW s \in Sids, sessions[s].state = "revoked"
        PROVE  sessions'[s] = sessions[s]
    <2>1. CASE \E w \in Workers : \E r \in Requests : Receive(w, r)
      BY <2>1 DEF Receive
    <2>2. CASE \E w \in Workers : Deliver(w) \/ Fail(w) \/ FindActive(w) \/ DetectReuse(w)
      BY <2>2 DEF Deliver, Fail, FindActive, DetectReuse
    <2>3. ASSUME NEW w \in Workers, CreateSession(w) PROVE sessions'[s] = sessions[s]
      <3>1. PICK t \in Sids, root \in Sids : Created(w, t, root)
        BY <1>1, <2>3, CreateSessionIs
      <3>2. t # s
        BY <1>1, <3>1 DEF Created, Exists
      <3> QED
        BY <1>1, <3>1, <3>2, CreatedKeeps
    <2>4. ASSUME NEW w \in Workers, Rotate(w) PROVE sessions'[s] = sessions[s]
      BY <1>1, <2>4, RowOfRotate, RevokeRowKeeps
    <2>5. ASSUME NEW w \in Workers, Revoke(w) PROVE sessions'[s] = sessions[s]
      BY <1>1, <2>5, RowOfRevoke, RevokeRowKeeps
    <2>6. ASSUME NEW w \in Workers, RevokeAll(w) PROVE sessions'[s] = sessions[s]
      BY <1>1, <2>6 DEF RevokeAll
    <2>7. ASSUME NEW t \in Sids, ExpireSession(t) PROVE sessions'[s] = sessions[s]
      <3>1. t # s
        BY <1>1, <2>7 DEF ExpireSession, Live
      <3> QED
        BY <1>1, <2>7, <3>1, ExpiredRow
    <2>8. CASE UNCHANGED vars \/ \E t \in Sids : ExpireAccess(t)
      BY <2>8 DEF vars, ExpireAccess
    <2> QED
      BY <1>1, <2>1, <2>2, <2>3, <2>4, <2>5, <2>6, <2>7, <2>8, Steps
  <1>2. Known /\ [Next]_vars =>
            [\A s \in Sids : sessions[s].state = "revoked" => sessions'[s] = sessions[s]]_vars
    BY <1>1
  <1> QED
    BY <1>2, AlwaysKnown, PTL DEF Spec, RevocationIsFinal

-----------------------------------------------------------------------------
(* A device that is gone stays gone *)

LEMMA UnderwayKept ==
    ASSUME NEW v \in Workers, NEW r \in Sids, RequestKnown(v), RowsKept,
           work'[v] = work[v], ~Underway(v, r)
    PROVE  ~Underway(v, r)'
  <1>1. \A t \in Sids : Exists(t) => sessions'[t].root = sessions[t].root
    BY DEF RowsKept
  <1>2. work[v].op = "refresh" /\ work[v].pc \in {"insert", "rotate"} => work[v].sid \in Sids /\ Exists(work[v].sid)
    BY DEF RequestKnown
  <1>3. work[v].fresh # NoSid => work[v].fresh \in Sids /\ Exists(work[v].fresh)
    BY DEF RequestKnown
  <1> QED
    BY <1>1, <1>2, <1>3 DEF Underway, Renewing

\* A step moves at most one request; the other ones keep what they are doing.
LEMMA GoneStays ==
    ASSUME Known, NEW r \in Sids, Gone(r), RowsKept,
           NEW w \in Workers, \A v \in Workers \ {w} : work'[v] = work[v],
           ~Underway(w, r)',
           r \notin access',
           \A s \in Sids : Live(s)' => sessions'[s].root # r
    PROVE  Gone(r)'
  <1>1. \A v \in Workers \ {w} : ~Underway(v, r)'
    BY UnderwayKept DEF Gone, Known
  <1>2. Exists(r)'
    BY DEF Gone, RowsKept
  <1>3. r \notin LiveRoots'
    BY DEF LiveRoots
  <1> QED
    BY <1>1, <1>2, <1>3 DEF Gone

LEMMA GoneNotLive ==
    ASSUME NEW r \in Sids, Gone(r)
    PROVE  \A s \in Sids : Live(s) => sessions[s].root # r
  BY DEF Gone, LiveRoots

LEMMA RowsSame == ASSUME UNCHANGED sessions PROVE RowsKept
  BY DEF RowsKept, Exists

LEMMA GoneReceive ==
    ASSUME Known, NEW r \in Sids, Gone(r), NEW w \in Workers, NEW q \in Requests, Receive(w, q)
    PROVE  Gone(r)'
  <1>1. work'[w] = [pc |-> FirstStep(q.op), op |-> q.op, sid |-> q.sid, fresh |-> NoSid]
    BY DEF Receive, Known, TypeOK
  <1>2. q.op = "profile" => q.sid # r
    BY DEF Receive, Gone
  <1>3. q.op = "refresh" => FirstStep(q.op) = "find"
    BY DEF FirstStep
  <1>4. ~Underway(w, r)'
    BY <1>1, <1>2, <1>3 DEF Underway, Renewing
  <1> QED
    BY <1>4, GoneStays, GoneNotLive, RowsSame DEF Receive, Known, TypeOK, Gone, Live

LEMMA GoneDeliver ==
    ASSUME Known, NEW r \in Sids, Gone(r), NEW w \in Workers, Deliver(w) \/ Fail(w)
    PROVE  Gone(r)'
  <1>1. work' = [work EXCEPT ![w] = Idle] /\ UNCHANGED sessions
    BY DEF Deliver, Fail
  <1>2. work'[w] = Idle
    BY <1>1 DEF Known, TypeOK
  <1>3. ~Underway(w, r)'
    BY <1>2 DEF Underway, Renewing, Idle
  <1>4. r \notin access'
    <2>1. r \notin access /\ ~Underway(w, r)
      BY DEF Gone
    <2>2. CASE Fail(w)
      BY <2>1, <2>2 DEF Fail
    <2>3. CASE Deliver(w)
      BY <2>1, <2>3 DEF Deliver, Underway
    <2> QED
      BY <2>2, <2>3
  <1>5. \A v \in Workers \ {w} : work'[v] = work[v]
    BY <1>1 DEF Known, TypeOK
  <1> QED
    BY <1>1, <1>3, <1>4, <1>5, GoneStays, GoneNotLive, RowsSame DEF Live

LEMMA GoneFindActive ==
    ASSUME Known, NEW r \in Sids, Gone(r), NEW w \in Workers, FindActive(w) \/ DetectReuse(w)
    PROVE  Gone(r)'
  <1>1. PICK pc : /\ work' = [work EXCEPT ![w] = [work[w] EXCEPT !.pc = pc]]
                  /\ pc \in {"insert", "lookup", "cut", "done"}
                  /\ pc = "insert" => Live(work[w].sid)
    BY DEF FindActive, DetectReuse, Go
  <1>2. work[w] \in Work /\ RequestKnown(w) /\ work[w].pc \in {"find", "lookup"}
        /\ UNCHANGED <<sessions, access>>
    BY DEF FindActive, DetectReuse, Known, TypeOK
  <1>3. /\ work'[w].pc = pc /\ work'[w].op = work[w].op /\ work'[w].sid = work[w].sid
        /\ work'[w].fresh = work[w].fresh
    BY <1>1, <1>2 DEF Known, TypeOK, Work
  <1>4. work[w].op = "refresh" /\ work[w].fresh = NoSid /\ work[w].sid \in Sids
    BY <1>2 DEF RequestKnown
  <1>5. Live(work[w].sid) => sessions[work[w].sid].root # r
    BY <1>4, GoneNotLive
  <1>6. ~Underway(w, r)'
    BY <1>1, <1>2, <1>3, <1>4, <1>5 DEF Underway, Renewing
  <1>7. \A v \in Workers \ {w} : work'[v] = work[v]
    BY <1>1 DEF Known, TypeOK
  <1> QED
    BY <1>2, <1>6, <1>7, GoneStays, GoneNotLive, RowsSame DEF Live, Gone

LEMMA GoneCreateSession ==
    ASSUME Known, NEW r \in Sids, Gone(r), NEW w \in Workers, CreateSession(w)
    PROVE  Gone(r)'
  <1>1. PICK s \in Sids, root \in Sids : Created(w, s, root)
    BY CreateSessionIs
  <1>2. /\ RowsKept
        /\ sessions'[s].root = root
        /\ \A t \in Sids \ {s} : sessions'[t] = sessions[t]
    BY <1>1, CreatedKeeps
  <1>3. root # r
    <2>1. CASE work[w].op = "login"
      BY <1>1, <2>1 DEF Created, Gone
    <2>2. CASE work[w].op # "login"
      <3>1. root = RootOf(w) /\ work[w].op \in {"refresh", "profile"} /\ work[w].pc = "insert"
        BY <1>1, <2>2 DEF Created, Known, RequestKnown
      <3>2. ~Renewing(w, r)
        BY DEF Gone, Underway
      <3> QED
        BY <3>1, <3>2 DEF Renewing, RootOf
    <2> QED
      BY <2>1, <2>2
  <1>4. work' = [work EXCEPT ![w] = [pc |-> IF work[w].op = "refresh" THEN "rotate" ELSE "done",
                                    op |-> work[w].op, sid |-> work[w].sid, fresh |-> s]]
        /\ access' = access
    BY <1>1 DEF Created
  <1>5. work'[w] = [pc |-> IF work[w].op = "refresh" THEN "rotate" ELSE "done",
                    op |-> work[w].op, sid |-> work[w].sid, fresh |-> s]
    BY <1>4 DEF Known, TypeOK
  <1>6. work[w].op = "refresh" => sessions'[work[w].sid].root # r
    <2>1. work[w].op = "refresh" => work[w].sid \in Sids /\ Exists(work[w].sid) /\ root = sessions[work[w].sid].root
      BY <1>1 DEF Created, RootOf, Known, RequestKnown
    <2> QED
      BY <1>2, <1>3, <2>1 DEF RowsKept
  <1>7. ~Underway(w, r)'
    BY <1>2, <1>3, <1>5, <1>6 DEF Underway, Renewing
  <1>8. \A t \in Sids : Live(t)' => sessions'[t].root # r
    BY <1>2, <1>3, GoneNotLive DEF Live
  <1> QED
    BY <1>2, <1>4, <1>7, <1>8, GoneStays DEF Known, TypeOK, Gone

LEMMA GoneRotate ==
    ASSUME Known, NEW r \in Sids, Gone(r), NEW w \in Workers, Rotate(w) \/ Revoke(w)
    PROVE  Gone(r)'
  <1>1. work' = [work EXCEPT ![w] = [work[w] EXCEPT !.pc = "done"]] /\ access' = access
    BY DEF Rotate, Revoke, Go
  <1>2. work[w] \in Work /\ RequestKnown(w)
    BY DEF Known, TypeOK
  <1>3. work'[w].pc = "done" /\ work'[w].fresh = work[w].fresh
    BY <1>1, <1>2 DEF Known, TypeOK, Work
  <1>4. RowsKept /\ \A t \in Sids : Live(t)' => Live(t)
    BY RowOfRotate, RowOfRevoke, RevokeRowKeeps
  <1>5. \A t \in Sids : Live(t)' => sessions'[t].root # r
    BY <1>4, GoneNotLive DEF RowsKept, Live, Exists
  <1>6. work[w].fresh # NoSid => sessions'[work[w].fresh].root # r
    <2>1. CASE Rotate(w)
      <3>1. work[w].pc = "rotate" /\ work[w].op = "refresh" /\ ~Renewing(w, r)
        BY <1>2, <2>1 DEF Rotate, RequestKnown, Gone, Underway
      <3>2. sessions[work[w].fresh].root # r /\ work[w].fresh \in Sids
        BY <1>2, <3>1 DEF Renewing, RequestKnown
      <3> QED
        BY <1>2, <1>4, <3>2 DEF RequestKnown, RowsKept
    <2>2. CASE Revoke(w)
      BY <1>2, <2>2 DEF Revoke, RequestKnown
    <2> QED
      BY <2>1, <2>2
  <1>7. ~Underway(w, r)'
    BY <1>3, <1>6 DEF Underway, Renewing
  <1> QED
    BY <1>1, <1>4, <1>5, <1>7, GoneStays DEF Known, TypeOK, Gone

LEMMA GoneRevokeAll ==
    ASSUME Known, NEW r \in Sids, Gone(r), NEW w \in Workers, RevokeAll(w)
    PROVE  Gone(r)'
  <1> DEFINE pc == IF work[w].op = "profile" THEN "insert" ELSE "done"
  <1>1. /\ work' = [work EXCEPT ![w] = [work[w] EXCEPT !.pc = pc]] /\ access' = access
        /\ work[w].pc = "cut"
    BY DEF RevokeAll, Go
  <1>2. work[w] \in Work /\ RequestKnown(w)
    BY DEF Known, TypeOK
  <1>3. /\ work'[w].pc = pc /\ work'[w].op = work[w].op /\ work'[w].sid = work[w].sid
        /\ work'[w].fresh = work[w].fresh
    BY <1>1, <1>2 DEF Known, TypeOK, Work
  <1>4. work[w].fresh = NoSid /\ (work[w].op = "profile" => work[w].sid # r)
    BY <1>1, <1>2 DEF RequestKnown, Gone, Underway, Renewing
  <1>5. ~Underway(w, r)'
    BY <1>3, <1>4 DEF Underway, Renewing
  <1> QED
    BY <1>1, <1>5, CutKeeps, GoneStays DEF Known, TypeOK, Gone

LEMMA GoneExpire ==
    ASSUME Known, NEW r \in Sids, Gone(r), NEW s \in Sids, ExpireSession(s) \/ ExpireAccess(s)
    PROVE  Gone(r)'
  <1>1. work' = work /\ access' \subseteq access
    BY DEF ExpireSession, ExpireAccess
  <1>2. RowsKept /\ \A t \in Sids : Live(t)' => Live(t)
    <2>1. CASE ExpireSession(s)
      BY <2>1, ExpiredRow
    <2>2. CASE ExpireAccess(s)
      BY <2>2, RowsSame DEF ExpireAccess, Live
    <2> QED
      BY <2>1, <2>2
  <1>3. \A t \in Sids : Live(t)' => sessions'[t].root # r
    BY <1>2, GoneNotLive DEF RowsKept, Live, Exists
  <1>4. \A v \in Workers : ~Underway(v, r)'
    BY <1>1, <1>2, UnderwayKept DEF Gone, Known
  <1> QED
    BY <1>1, <1>2, <1>3, <1>4 DEF Gone, LiveRoots, RowsKept

\* A device whose rows are all revoked or expired, without access token and
\* without a request past its checks, is signed out for good: only a login, which
\* starts another device, can follow.
THEOREM DevicesStayGone == Spec => NoDeviceComesBack
  <1>1. ASSUME Known, [Next]_vars, NEW r \in Sids, Gone(r)
        PROVE  Gone(r)'
    <2>1. CASE UNCHANGED vars
      BY <1>1, <2>1 DEF vars, Gone, Underway, Renewing, LiveRoots, Live, Exists
    <2> QED
      BY <1>1, <2>1, Steps, GoneReceive, GoneDeliver, GoneFindActive, GoneCreateSession,
         GoneRotate, GoneRevokeAll, GoneExpire
  <1>2. Known /\ [Next]_vars => [\A r \in Sids : Gone(r) => Gone(r)']_vars
    BY <1>1
  <1> QED
    BY <1>2, AlwaysKnown, PTL DEF Spec, NoDeviceComesBack

-----------------------------------------------------------------------------
(* Few devices survive a cut *)

\* A request past its check that will insert a session for its device.
Inserting(w) == work[w].pc = "insert" /\ work[w].op \in {"refresh", "profile"}

\* A device that the last cut closed and that is live or may become so again.
Survives(r) == r \in closed /\ (r \in LiveRoots \/ \E w \in Workers : Inserting(w) /\ RootOf(w) = r)

Survivors == {r \in closed : Survives(r)}

\* Every closed device has a row, so no login takes its name; the survivors are
\* fewer than the requests.
FewInv ==
    /\ \A r \in closed : r \in Sids /\ Exists(r)
    /\ IsFiniteSet(Survivors)
    /\ Survivors # {} => Cardinality(Survivors) < Cardinality(Workers)

\* A step that makes no survivor.
LEMMA FewStays ==
    ASSUME FewInv, closed' = closed, RowsKept,
           \A r \in Sids : r \in closed /\ Survives(r)' => Survives(r)
    PROVE  FewInv'
  <1>1. \A r \in closed' : r \in Sids /\ Exists(r)'
    BY DEF FewInv, RowsKept
  <1>2. Survivors' \subseteq Survivors
    BY DEF FewInv, Survivors, Survives
  <1>3. IsFiniteSet(Survivors') /\ Cardinality(Survivors') <= Cardinality(Survivors)
    BY <1>2, FS_Subset DEF FewInv
  <1>4. Survivors' # {} => Cardinality(Survivors') < Cardinality(Workers)
    BY <1>2, <1>3, FS_CardinalityType, SessionsAssumption DEF FewInv
  <1> QED
    BY <1>1, <1>3, <1>4 DEF FewInv

\* A request that does not move keeps the device it inserts for.
LEMMA RootKept ==
    ASSUME Known, RowsKept, NEW v \in Workers, work'[v] = work[v], Inserting(v)'
    PROVE  Inserting(v) /\ RootOf(v)' = RootOf(v)
  <1>1. Inserting(v)
    BY DEF Inserting
  <1>2. work[v].sid \in Sids /\ Exists(work[v].sid)
    BY <1>1 DEF Inserting, Known, RequestKnown
  <1>3. sessions'[work[v].sid].root = sessions[work[v].sid].root
    BY <1>2 DEF RowsKept
  <1> QED
    BY <1>1, <1>3 DEF RootOf

\* The common case: at most w moves, without a new device to insert for, and no
\* row comes to life.
LEMMA FewStep ==
    ASSUME Known, FewInv, closed' = closed, RowsKept,
           NEW w \in Workers, \A v \in Workers \ {w} : work'[v] = work[v],
           ~Inserting(w)',
           \A s \in Sids : Live(s)' => Live(s)
    PROVE  FewInv'
  <1>1. \A v \in Workers : Inserting(v)' => Inserting(v) /\ RootOf(v)' = RootOf(v)
    BY RootKept
  <1>2. LiveRoots' \subseteq LiveRoots
    BY DEF LiveRoots, Live, RowsKept, Exists
  <1> QED
    BY <1>1, <1>2, FewStays DEF Survives

LEMMA FewQuiet ==
    ASSUME Known, FewInv, NEW w \in Workers,
           \/ \E q \in Requests : Receive(w, q)
           \/ Deliver(w) \/ Fail(w) \/ DetectReuse(w) \/ Rotate(w) \/ Revoke(w)
    PROVE  FewInv'
  <1>1. RowsKept /\ \A s \in Sids : Live(s)' => Live(s)
    <2>1. CASE Rotate(w)
      BY <2>1, RowOfRotate, RevokeRowKeeps
    <2>2. CASE Revoke(w)
      BY <2>2, RowOfRevoke, RevokeRowKeeps
    <2>3. CASE sessions' = sessions
      BY <2>3, RowsSame DEF Live
    <2> QED
      BY <2>1, <2>2, <2>3 DEF Receive, Deliver, Fail, DetectReuse
  <1>2. closed' = closed /\ \A v \in Workers \ {w} : work'[v] = work[v]
    BY DEF Receive, Deliver, Fail, DetectReuse, Rotate, Revoke, Go, Known, TypeOK
  <1>3. ~Inserting(w)'
    <2>1. CASE \E q \in Requests : Receive(w, q)
      <3>1. PICK q \in Requests : Receive(w, q)
        BY <2>1
      <3>2. work'[w] = [pc |-> FirstStep(q.op), op |-> q.op, sid |-> q.sid, fresh |-> NoSid]
        BY <3>1 DEF Receive, Known, TypeOK
      <3>3. q.op \in {"refresh", "profile"} => FirstStep(q.op) \in {"find", "cut"}
        BY DEF FirstStep
      <3> QED
        BY <3>2, <3>3 DEF Inserting
    <2>2. CASE Deliver(w) \/ Fail(w)
      <3>1. work'[w] = Idle
        BY <2>2 DEF Deliver, Fail, Known, TypeOK
      <3> QED
        BY <3>1 DEF Inserting, Idle
    <2>3. CASE DetectReuse(w) \/ Rotate(w) \/ Revoke(w)
      <3>1. PICK pc \in {"cut", "done"} : work' = [work EXCEPT ![w] = [work[w] EXCEPT !.pc = pc]]
        BY <2>3 DEF DetectReuse, Rotate, Revoke, Go
      <3>2. work[w] \in Work /\ work'[w].pc = pc
        BY <3>1 DEF Known, TypeOK, Work
      <3> QED
        BY <3>2 DEF Inserting
    <2> QED
      BY <2>1, <2>2, <2>3
  <1> QED
    BY <1>1, <1>2, <1>3, FewStep

\* Only a device that is live passes the check of a refresh.
LEMMA FewFindActive ==
    ASSUME Known, FewInv, NEW w \in Workers, FindActive(w)
    PROVE  FewInv'
  <1>1. work' = [work EXCEPT ![w] = [work[w] EXCEPT !.pc = IF Live(work[w].sid) THEN "insert" ELSE "lookup"]]
        /\ UNCHANGED <<sessions, closed>>
    BY DEF FindActive, Go
  <1>2. work[w] \in Work /\ RequestKnown(w) /\ work[w].pc = "find"
    BY DEF FindActive, Known, TypeOK
  <1>3. /\ work'[w].pc = IF Live(work[w].sid) THEN "insert" ELSE "lookup"
        /\ work'[w].op = work[w].op /\ work'[w].sid = work[w].sid
    BY <1>1, <1>2 DEF Known, TypeOK, Work
  <1>4. work[w].op = "refresh" /\ work[w].sid \in Sids
    BY <1>2 DEF RequestKnown
  <1>5. Inserting(w)' => RootOf(w)' \in LiveRoots
    BY <1>1, <1>3, <1>4 DEF Inserting, RootOf, LiveRoots
  <1>6. \A v \in Workers \ {w} : Inserting(v)' => Inserting(v) /\ RootOf(v)' = RootOf(v)
    BY <1>1 DEF Inserting, RootOf, Known, TypeOK
  <1>7. LiveRoots' = LiveRoots
    BY <1>1 DEF LiveRoots, Live
  <1> QED
    BY <1>1, <1>5, <1>6, <1>7, FewStays, RowsSame DEF Survives

\* An inserted session belongs to a device it was counted for, or to a new one.
LEMMA FewCreateSession ==
    ASSUME Known, FewInv, NEW w \in Workers, CreateSession(w)
    PROVE  FewInv'
  <1>1. PICK s \in Sids, root \in Sids : Created(w, s, root)
    BY CreateSessionIs
  <1>2. /\ RowsKept
        /\ sessions'[s].root = root
        /\ \A t \in Sids \ {s} : sessions'[t] = sessions[t]
    BY <1>1, CreatedKeeps
  <1>3. root \in closed => Inserting(w) /\ RootOf(w) = root
    BY <1>1 DEF Created, FewInv, Known, RequestKnown, Inserting
  <1>4. /\ work' = [work EXCEPT ![w] = [pc |-> IF work[w].op = "refresh" THEN "rotate" ELSE "done",
                                       op |-> work[w].op, sid |-> work[w].sid, fresh |-> s]]
        /\ closed' = closed
    BY <1>1 DEF Created
  <1>5. ~Inserting(w)'
    BY <1>4 DEF Inserting, Known, TypeOK
  <1>6. \A v \in Workers : Inserting(v)' => Inserting(v) /\ RootOf(v)' = RootOf(v)
    BY <1>2, <1>4, <1>5, RootKept DEF Known, TypeOK
  <1>7. LiveRoots' \subseteq LiveRoots \cup {root}
    BY <1>2 DEF LiveRoots, Live
  <1> QED
    BY <1>2, <1>3, <1>4, <1>6, <1>7, FewStays DEF Survives

\* After a cut nothing is live; what may still come back is one device for each
\* of the other requests.
LEMMA FewRevokeAll ==
    ASSUME Known, FewInv, NEW w \in Workers, RevokeAll(w)
    PROVE  FewInv'
  <1> DEFINE pc == IF work[w].op = "profile" THEN "insert" ELSE "done"
             Others == Workers \ {w}
             Roots == {RootOf(v) : v \in Others}
  <1>1. work' = [work EXCEPT ![w] = [work[w] EXCEPT !.pc = pc]] /\ closed' = ToClose(w)
    BY DEF RevokeAll, Go
  <1>2. work[w] \in Work
    BY DEF Known, TypeOK
  <1>3. work'[w].pc = pc /\ work'[w].op = work[w].op /\ work'[w].sid = work[w].sid
    BY <1>1, <1>2 DEF Known, TypeOK, Work
  <1>4. Inserting(w)' => RootOf(w)' \notin closed'
    BY <1>1, <1>3 DEF Inserting, RootOf, ToClose
  <1>5. \A v \in Others : Inserting(v)' => RootOf(v)' = RootOf(v)
    <2> TAKE v \in Others
    <2>1. work'[v] = work[v]
      BY <1>1 DEF Known, TypeOK
    <2> QED
      BY <2>1, CutKeeps, RootKept
  <1>6. LiveRoots' = {}
    BY CutKeeps DEF LiveRoots
  <1>7. Survivors' \subseteq Roots
    BY <1>4, <1>5, <1>6 DEF Survivors, Survives
  <1>8. IsFiniteSet(Others) /\ Cardinality(Others) = Cardinality(Workers) - 1
    BY SessionsAssumption, FS_RemoveElement
  <1>9. IsFiniteSet(Roots) /\ Cardinality(Roots) <= Cardinality(Others)
    <2> DEFINE rootOf == [v \in Others |-> RootOf(v)]
    <2>1. rootOf \in Surjection(Others, Roots)
      BY DEF Surjection
    <2> HIDE DEF Others, Roots, rootOf
    <2> QED
      BY <1>8, <2>1, FS_Surjection
  <1>10. IsFiniteSet(Survivors') /\ Cardinality(Survivors') <= Cardinality(Roots)
    BY <1>7, <1>9, FS_Subset
  <1>11. Cardinality(Survivors') < Cardinality(Workers)
    <2> HIDE DEF Others, Roots
    <2> QED
      BY <1>8, <1>9, <1>10, SessionsAssumption, FS_CardinalityType
  <1>12. \A r \in closed' : r \in Sids /\ Exists(r)'
    BY <1>1, CutKeeps DEF ToClose, Existing, Known, RowsKnown, RowsKept
  <1> QED
    BY <1>10, <1>11, <1>12 DEF FewInv

LEMMA FewExpire ==
    ASSUME Known, FewInv, NEW s \in Sids, ExpireSession(s) \/ ExpireAccess(s)
    PROVE  FewInv'
  <1>1. work' = work /\ closed' = closed
    BY DEF ExpireSession, ExpireAccess
  <1>2. RowsKept /\ \A t \in Sids : Live(t)' => Live(t)
    <2>1. CASE ExpireSession(s)
      BY <2>1, ExpiredRow
    <2>2. CASE ExpireAccess(s)
      BY <2>2, RowsSame DEF ExpireAccess, Live
    <2> QED
      BY <2>1, <2>2
  <1>3. LiveRoots' \subseteq LiveRoots
    BY <1>2 DEF LiveRoots, Live, RowsKept, Exists
  <1>4. \A v \in Workers : Inserting(v)' => Inserting(v) /\ RootOf(v)' = RootOf(v)
    BY <1>1, <1>2, RootKept
  <1> QED
    BY <1>1, <1>2, <1>3, <1>4, FewStays DEF Survives

LEMMA FewNext == Known /\ FewInv /\ [Next]_vars => FewInv'
  <1> SUFFICES ASSUME Known, FewInv, [Next]_vars PROVE FewInv'
    OBVIOUS
  <1>1. CASE UNCHANGED vars
    <2>1. UNCHANGED <<sessions, work, closed>>
      BY <1>1 DEF vars
    <2>2. \A r \in Sids : Survives(r)' => Survives(r)
      BY <2>1 DEF Survives, LiveRoots, Live, Inserting, RootOf
    <2> QED
      BY <2>1, <2>2, FewStays, RowsSame
  <1> QED
    BY <1>1, Steps, FewQuiet, FewFindActive, FewCreateSession, FewRevokeAll, FewExpire

\* "Cerrar sesion en todos los dispositivos" reaches all devices but fewer than
\* there are requests in flight: one is missed only for a refresh that had passed
\* its check when the cut ran.
THEOREM FewSurvivors == Spec => []SurvivorsBounded
  <1>1. Init => FewInv
    <2> SUFFICES ASSUME Init PROVE FewInv
      OBVIOUS
    <2>1. Survivors = {}
      BY DEF Init, Survivors
    <2> QED
      BY <2>1, FS_EmptySet DEF Init, FewInv
  <1>2. FewInv => SurvivorsBounded
    <2> SUFFICES ASSUME FewInv, LiveRoots \cap closed # {}
                 PROVE  Cardinality(LiveRoots \cap closed) < Cardinality(Workers)
      BY DEF SurvivorsBounded
    <2>1. LiveRoots \cap closed \subseteq Survivors
      BY DEF Survivors, Survives
    <2>2. /\ IsFiniteSet(LiveRoots \cap closed)
          /\ Cardinality(LiveRoots \cap closed) <= Cardinality(Survivors)
      BY <2>1, FS_Subset DEF FewInv
    <2>3. Cardinality(Survivors) < Cardinality(Workers)
      BY <2>1 DEF FewInv
    <2> QED
      BY <2>2, <2>3, FS_CardinalityType, SessionsAssumption DEF FewInv
  <1> QED
    BY <1>1, <1>2, FewNext, AlwaysKnown, PTL DEF Spec

-----------------------------------------------------------------------------
(* One live token per device *)

\* The tokens of device r that its client received and that still work.
Usable(r) == {s \in held : Live(s) /\ sessions[s].root = r}

\* A request that may still bring device r a live token: it has passed its
\* check, or its answer carries the token.
Renews(w, r) ==
    \/ /\ work[w].op = "refresh" /\ work[w].pc \in {"insert", "rotate"}
       /\ sessions[work[w].sid].root = r
    \/ work[w].op = "profile" /\ work[w].pc = "insert" /\ work[w].sid = r

Carries(w, r) ==
    /\ work[w].pc = "done" /\ work[w].fresh # NoSid
    /\ Live(work[w].fresh) /\ sessions[work[w].fresh].root = r

Claims(w, r) == Renews(w, r) \/ Carries(w, r)

\* A refresh that has not rotated yet leaves its own token usable.
Replaces(w, s) ==
    work[w].op = "refresh" /\ work[w].pc \in {"insert", "rotate"} /\ work[w].sid = s

\* What holds of a device nobody contested: one usable token, one request that
\* may bring another, and then no usable token but the one it replaces.
Single(r) ==
    /\ \A s, t \in Usable(r) : s = t
    /\ \A v, w \in Workers : Claims(v, r) /\ Claims(w, r) => v = w
    /\ \A w \in Workers : Claims(w, r) => \A s \in Usable(r) : Replaces(w, s)

\* A refresh presents a token its client received.
Presented(w) == work[w].pc # "idle" /\ work[w].op = "refresh" => work[w].sid \in held

SingleInv ==
    /\ \A w \in Workers : Presented(w)
    /\ \A r \in Sids \ contested : Single(r)

\* No row of the table comes back to life.
NoneRevived == \A t \in Sids : Exists(t) /\ Live(t)' => Live(t)

LEMMA SingleInit == Init => SingleInv
  <1> SUFFICES ASSUME Init PROVE SingleInv
    OBVIOUS
  <1>1. \A w \in Workers : work[w].pc = "idle"
    BY DEF Init, Idle
  <1>2. \A r \in Sids : Usable(r) = {}
    BY DEF Init, Usable
  <1> QED
    BY <1>1, <1>2 DEF SingleInv, Single, Presented, Claims, Renews, Carries

\* Without new tokens no device has more usable ones.
LEMMA UsableKept ==
    ASSUME Known, RowsKept, NoneRevived, held' = held, NEW r \in Sids
    PROVE  Usable(r)' \subseteq Usable(r)
  <1> SUFFICES ASSUME NEW s \in held, Live(s)', sessions'[s].root = r
               PROVE  Live(s) /\ sessions[s].root = r
    BY DEF Usable
  <1>1. s \in Sids /\ Exists(s)
    BY DEF Known, TypeOK, RowsKnown
  <1> QED
    BY <1>1 DEF RowsKept, NoneRevived

\* A request that does not move claims nothing new.
LEMMA ClaimsKept ==
    ASSUME Known, RowsKept, NoneRevived, NEW v \in Workers, work'[v] = work[v], NEW r \in Sids
    PROVE  Claims(v, r)' => Claims(v, r)
  <1>1. RequestKnown(v)
    BY DEF Known
  <1>2. CASE Renews(v, r)'
    <2>1. work[v].op = "refresh" /\ work[v].pc \in {"insert", "rotate"}
            => sessions'[work[v].sid].root = sessions[work[v].sid].root
      BY <1>1 DEF RequestKnown, RowsKept
    <2> QED
      BY <1>2, <2>1 DEF Renews, Claims
  <1>3. CASE Carries(v, r)'
    <2>1. work[v].fresh # NoSid => work[v].fresh \in Sids /\ Exists(work[v].fresh)
      BY <1>1 DEF RequestKnown
    <2>2. work[v].pc = "done" /\ work[v].fresh # NoSid
      BY <1>3 DEF Carries
    <2>3. Live(work[v].fresh)' /\ sessions'[work[v].fresh].root = r
      BY <1>3 DEF Carries, Live
    <2>4. Live(work[v].fresh) /\ sessions[work[v].fresh].root = r
      BY <2>1, <2>2, <2>3 DEF RowsKept, NoneRevived, Live
    <2> QED
      BY <2>2, <2>4 DEF Carries, Claims
  <1> QED
    BY <1>2, <1>3 DEF Claims

\* A step of w that adds neither a usable token nor a claim.
LEMMA SingleQuiet ==
    ASSUME Known, NEW r \in Sids, Single(r), RowsKept, NoneRevived,
           Usable(r)' \subseteq Usable(r),
           NEW w \in Workers, \A v \in Workers \ {w} : work'[v] = work[v],
           Claims(w, r)' => Claims(w, r) /\ \A s \in Usable(r) : Replaces(w, s) => Replaces(w, s)'
    PROVE  Single(r)'
  <1>1. \A v \in Workers : Claims(v, r)' => Claims(v, r)
    BY ClaimsKept
  <1>2. ASSUME NEW v \in Workers, Claims(v, r)', NEW s \in Usable(r)'
        PROVE  Replaces(v, s)'
    <2>1. Replaces(v, s)
      BY <1>1, <1>2 DEF Single
    <2> QED
      BY <1>2, <2>1 DEF Replaces
  <1> QED
    BY <1>1, <1>2 DEF Single

\* A step after which only w may claim the device.
LEMMA SingleClaim ==
    ASSUME NEW r \in Sids, NEW w \in Workers,
           \A s, t \in Usable(r)' : s = t,
           \A v \in Workers \ {w} : ~Claims(v, r)',
           Claims(w, r)' => \A s \in Usable(r)' : Replaces(w, s)'
    PROVE  Single(r)'
  BY DEF Single

\* The rows of a step that leaves them alone.
LEMMA SameRows == ASSUME UNCHANGED sessions PROVE RowsKept /\ NoneRevived
  BY DEF RowsKept, NoneRevived, Exists, Live

LEMMA SingleReceive ==
    ASSUME Known, SingleInv, NEW w \in Workers, NEW q \in Requests, Receive(w, q)
    PROVE  SingleInv'
  <1>1. /\ work'[w] = [pc |-> FirstStep(q.op), op |-> q.op, sid |-> q.sid, fresh |-> NoSid]
        /\ \A v \in Workers \ {w} : work'[v] = work[v]
        /\ UNCHANGED <<sessions, held, contested>>
        /\ q.op = "refresh" => q.sid \in held
    BY DEF Receive, Known, TypeOK
  <1>2. \A r \in Sids : ~Claims(w, r)'
    BY <1>1 DEF FirstStep, Claims, Renews, Carries
  <1>3. \A r \in Sids \ contested : Single(r)'
    BY <1>1, <1>2, SingleQuiet, SameRows, UsableKept DEF SingleInv
  <1>4. \A v \in Workers : Presented(v)'
    BY <1>1 DEF SingleInv, Presented
  <1> QED
    BY <1>1, <1>3, <1>4 DEF SingleInv

LEMMA SingleFail ==
    ASSUME Known, SingleInv, NEW w \in Workers, Fail(w)
    PROVE  SingleInv'
  <1>1. /\ work'[w] = Idle
        /\ \A v \in Workers \ {w} : work'[v] = work[v]
        /\ UNCHANGED <<sessions, held, contested>>
    BY DEF Fail, Known, TypeOK
  <1>2. \A r \in Sids : ~Claims(w, r)'
    BY <1>1 DEF Idle, Claims, Renews, Carries
  <1>3. \A r \in Sids \ contested : Single(r)'
    BY <1>1, <1>2, SingleQuiet, SameRows, UsableKept DEF SingleInv
  <1>4. \A v \in Workers : Presented(v)'
    BY <1>1 DEF SingleInv, Presented, Idle
  <1> QED
    BY <1>1, <1>3, <1>4 DEF SingleInv

\* The answer turns a claim into a usable token.
LEMMA SingleDeliver ==
    ASSUME Known, SingleInv, NEW w \in Workers, Deliver(w)
    PROVE  SingleInv'
  <1>1. /\ work[w].pc = "done" /\ work'[w] = Idle
        /\ \A v \in Workers \ {w} : work'[v] = work[v]
        /\ UNCHANGED <<sessions, contested>>
        /\ held' = IF work[w].fresh # NoSid THEN held \cup {work[w].fresh} ELSE held
    BY DEF Deliver, Known, TypeOK
  <1>2. \A r \in Sids : ~Claims(w, r)'
    BY <1>1 DEF Idle, Claims, Renews, Carries
  <1>3. ASSUME NEW r \in Sids \ contested PROVE Single(r)'
    <2>1. Single(r) /\ RowsKept /\ NoneRevived
      BY <1>1, <1>3, SameRows DEF SingleInv
    <2>2. CASE Carries(w, r)
      <3>1. Usable(r) = {}
        BY <2>1, <2>2 DEF Single, Claims, Carries, Replaces
      <3>2. \A s \in Usable(r)' : s = work[w].fresh
        BY <1>1, <3>1 DEF Usable, Live
      <3>3. \A v \in Workers \ {w} : ~Claims(v, r)'
        BY <1>1, <2>1, <2>2, ClaimsKept DEF Single, Claims
      <3> QED
        BY <1>2, <3>2, <3>3, SingleClaim
    <2>3. CASE ~Carries(w, r)
      <3>1. Usable(r)' \subseteq Usable(r)
        BY <1>1, <2>3 DEF Usable, Carries, Live
      <3> QED
        BY <1>1, <1>2, <2>1, <3>1, SingleQuiet
    <2> QED
      BY <2>2, <2>3
  <1>4. \A v \in Workers : Presented(v)'
    BY <1>1 DEF SingleInv, Presented, Idle
  <1> QED
    BY <1>1, <1>3, <1>4 DEF SingleInv

\* A refresh passes its check: nobody else is renewing the device, and the token
\* presented is the only usable one.
LEMMA SingleFindActive ==
    ASSUME Known, SingleInv, NEW w \in Workers, FindActive(w)
    PROVE  SingleInv'
  <1> DEFINE sid == work[w].sid
  <1>1. /\ work[w].pc = "find"
        /\ work'[w].pc = IF Live(sid) THEN "insert" ELSE "lookup"
        /\ work'[w].op = work[w].op /\ work'[w].sid = sid
        /\ \A v \in Workers \ {w} : work'[v] = work[v]
        /\ UNCHANGED <<sessions, held>>
    BY DEF FindActive, Go, Known, TypeOK, Work
  <1>2. work[w].op = "refresh" /\ sid \in Sids /\ Exists(sid) /\ sid \in held
    BY <1>1 DEF Known, RequestKnown, SingleInv, Presented
  <1>3. contested \subseteq contested'
    BY DEF FindActive, Contest
  <1>4. ASSUME NEW r \in Sids \ contested' PROVE Single(r)'
    <2>1. Single(r) /\ RowsKept /\ NoneRevived /\ Usable(r)' \subseteq Usable(r)
      BY <1>1, <1>3, <1>4, SameRows, UsableKept DEF SingleInv
    <2>2. CASE Live(sid) /\ sessions[sid].root = r
      <3>1. sid \in Usable(r)
        BY <1>2, <2>2 DEF Usable
      <3>2. \A s \in Usable(r)' : s = sid
        BY <2>1, <3>1 DEF Single
      <3>3. \A s \in Usable(r)' : Replaces(w, s)'
        BY <1>1, <1>2, <2>2, <3>2 DEF Replaces
      <3>4. ASSUME NEW v \in Workers, v # w PROVE ~Claims(v, r)
        <4>1. ~Renewing(v, r)
          BY <1>4, <2>2, <3>4 DEF FindActive, Contest
        <4>2. ~Renews(v, r)
          BY <4>1 DEF Renews, Renewing
        <4>3. ~Carries(v, r)
          BY <2>1, <3>1, <3>4 DEF Single, Claims, Carries, Replaces
        <4> QED
          BY <4>2, <4>3 DEF Claims
      <3>5. \A v \in Workers \ {w} : ~Claims(v, r)'
        BY <1>1, <2>1, <3>4, ClaimsKept
      <3> QED
        BY <3>2, <3>3, <3>5, SingleClaim
    <2>3. CASE ~(Live(sid) /\ sessions[sid].root = r)
      <3>1. ~Claims(w, r)'
        BY <1>1, <1>2, <2>3 DEF Claims, Renews, Carries
      <3> QED
        BY <1>1, <2>1, <3>1, SingleQuiet
    <2> QED
      BY <2>2, <2>3
  <1>5. \A v \in Workers : Presented(v)'
    BY <1>1, <1>2 DEF SingleInv, Presented
  <1> QED
    BY <1>4, <1>5 DEF SingleInv

LEMMA SingleDetectReuse ==
    ASSUME Known, SingleInv, NEW w \in Workers, DetectReuse(w)
    PROVE  SingleInv'
  <1>1. /\ work[w].pc = "lookup" /\ work'[w].pc \in {"cut", "done"}
        /\ work'[w].fresh = work[w].fresh
        /\ work'[w].op = work[w].op /\ work'[w].sid = work[w].sid
        /\ \A v \in Workers \ {w} : work'[v] = work[v]
        /\ UNCHANGED <<sessions, held, contested>>
    BY DEF DetectReuse, Go, Known, TypeOK, Work
  <1>2. work[w].fresh = NoSid
    BY <1>1 DEF Known, RequestKnown
  <1>3. \A r \in Sids : ~Claims(w, r)'
    BY <1>1, <1>2 DEF Claims, Renews, Carries
  <1>4. \A r \in Sids \ contested : Single(r)'
    BY <1>1, <1>3, SingleQuiet, SameRows, UsableKept DEF SingleInv
  <1>5. \A v \in Workers : Presented(v)'
    BY <1>1 DEF SingleInv, Presented
  <1> QED
    BY <1>1, <1>4, <1>5 DEF SingleInv
LEMMA SingleCreateSession ==
    ASSUME Known, SingleInv, NEW w \in Workers, CreateSession(w)
    PROVE  SingleInv'
  <1>1. PICK n \in Sids, root \in Sids : Created(w, n, root)
    BY CreateSessionIs
  <1>2. /\ RowsKept
        /\ sessions'[n].root = root
        /\ \A t \in Sids \ {n} : sessions'[t] = sessions[t]
    BY <1>1, CreatedKeeps
  <1>3. /\ work[w].pc = "insert"
        /\ work'[w] = [pc |-> IF work[w].op = "refresh" THEN "rotate" ELSE "done",
                       op |-> work[w].op, sid |-> work[w].sid, fresh |-> n]
        /\ \A v \in Workers \ {w} : work'[v] = work[v]
        /\ UNCHANGED <<held, contested>>
        /\ ~Exists(n)
        /\ IF work[w].op = "login" THEN root = n ELSE root = RootOf(w)
    BY <1>1 DEF Created, Known, TypeOK
  <1>4. /\ work[w].op \in {"login", "refresh", "profile"}
        /\ work[w].op # "login" => work[w].sid \in Sids /\ Exists(work[w].sid)
    BY <1>3 DEF Known, RequestKnown
  <1>5. NoneRevived
    BY <1>2, <1>3 DEF NoneRevived, Live
  <1>6. ASSUME NEW r \in Sids \ contested PROVE Single(r)'
    <2>1. Single(r) /\ Usable(r)' \subseteq Usable(r)
      BY <1>2, <1>3, <1>5, <1>6, UsableKept DEF SingleInv
    <2>2. CASE work[w].op = "refresh"
      <3>1. Claims(w, r)' => Claims(w, r)
        <4>1. sessions'[work[w].sid].root = sessions[work[w].sid].root
          BY <1>2, <1>4, <2>2 DEF RowsKept
        <4> QED
          BY <1>3, <2>2, <4>1 DEF Claims, Renews, Carries
      <3>2. \A s \in Usable(r) : Replaces(w, s) => Replaces(w, s)'
        BY <1>3 DEF Replaces
      <3> QED
        BY <1>2, <1>3, <1>5, <2>1, <3>1, <3>2, SingleQuiet
    <2>3. CASE work[w].op # "refresh" /\ r # root
      <3>1. ~Claims(w, r)'
        BY <1>2, <1>3, <2>3 DEF Claims, Renews, Carries
      <3> QED
        BY <1>2, <1>3, <1>5, <2>1, <3>1, SingleQuiet
    <2>4. CASE work[w].op = "profile" /\ r = root
      <3>1. Claims(w, r)
        BY <1>3, <2>4 DEF Claims, Renews, RootOf
      <3>2. Usable(r)' = {}
        BY <2>1, <2>4, <3>1 DEF Single, Replaces
      <3>3. \A v \in Workers \ {w} : ~Claims(v, r)'
        BY <1>2, <1>3, <1>5, <2>1, <3>1, ClaimsKept DEF Single
      <3> QED
        BY <3>2, <3>3, SingleClaim
    <2>5. CASE work[w].op = "login" /\ r = root
      <3>1. r = n /\ \A t \in Sids : Exists(t) => sessions[t].root # n
        BY <1>3, <2>5 DEF Known, RowsKnown
      <3>2. Usable(r)' = {}
        <4>1. Usable(r) = {}
          BY <3>1 DEF Usable, Known, TypeOK, RowsKnown
        <4> QED
          BY <2>1, <4>1
      <3>3. ASSUME NEW v \in Workers, v # w PROVE ~Claims(v, r)
        <4>1. RequestKnown(v)
          BY DEF Known
        <4>2. ~Renews(v, r)
          BY <1>3, <3>1, <4>1 DEF Renews, RequestKnown
        <4>3. ~Carries(v, r)
          BY <3>1, <4>1 DEF Carries, RequestKnown
        <4> QED
          BY <4>2, <4>3 DEF Claims
      <3>4. \A v \in Workers \ {w} : ~Claims(v, r)'
        BY <1>2, <1>3, <1>5, <3>3, ClaimsKept
      <3> QED
        BY <3>2, <3>4, SingleClaim
    <2> QED
      BY <1>4, <2>2, <2>3, <2>4, <2>5
  <1>7. \A v \in Workers : Presented(v)'
    BY <1>3 DEF SingleInv, Presented
  <1> QED
    BY <1>3, <1>6, <1>7 DEF SingleInv

\* The end of a rotation: the replaced token stops working and the new one is
\* still to be delivered.
LEMMA SingleRotate ==
    ASSUME Known, SingleInv, NEW w \in Workers, Rotate(w)
    PROVE  SingleInv'
  <1> DEFINE sid == work[w].sid
  <1>1. /\ work[w].pc = "rotate" /\ work'[w].pc = "done"
        /\ work'[w].op = work[w].op /\ work'[w].sid = work[w].sid
        /\ work'[w].fresh = work[w].fresh
        /\ \A v \in Workers \ {w} : work'[v] = work[v]
        /\ UNCHANGED <<held, contested>>
    BY DEF Rotate, Go, Known, TypeOK, Work
  <1>2. /\ work[w].op = "refresh" /\ sid \in Sids /\ Exists(sid)
        /\ work[w].fresh \in Sids /\ sessions[work[w].fresh].root = sessions[sid].root
    BY <1>1 DEF Known, RequestKnown
  <1>3. /\ RowsKept
        /\ \A t \in Sids : (Live(t)' => Live(t))
    BY <1>2, RowOfRotate, RevokeRowKeeps
  <1>4. NoneRevived /\ sessions'[sid].state # "live"
    <2>1. sessions'[sid].state # "live"
      BY <1>2 DEF Rotate, RevokeRow, Known, TypeOK, Row
    <2> QED
      BY <1>3, <2>1 DEF NoneRevived, Live
  <1>5. ASSUME NEW r \in Sids \ contested PROVE Single(r)'
    <2>1. Single(r) /\ Usable(r)' \subseteq Usable(r)
      BY <1>1, <1>3, <1>4, <1>5, UsableKept DEF SingleInv
    <2>2. CASE sessions[sid].root = r
      <3>1. Claims(w, r)
        BY <1>1, <1>2, <2>2 DEF Claims, Renews
      <3>2. Usable(r)' = {}
        <4> SUFFICES ASSUME NEW s \in Usable(r)' PROVE FALSE
          OBVIOUS
        <4>1. s = sid
          BY <2>1, <3>1 DEF Single, Replaces
        <4> QED
          BY <1>4, <4>1 DEF Usable, Live
      <3>3. \A v \in Workers \ {w} : ~Claims(v, r)'
        BY <1>1, <1>3, <1>4, <2>1, <3>1, ClaimsKept DEF Single
      <3> QED
        BY <3>2, <3>3, SingleClaim
    <2>3. CASE sessions[sid].root # r
      <3>1. sessions'[work[w].fresh].root # r
        <4>1. Exists(work[w].fresh)
          BY <1>1, <1>2, SessionsAssumption DEF Known, RequestKnown
        <4> QED
          BY <1>2, <1>3, <2>3, <4>1 DEF RowsKept
      <3>2. ~Claims(w, r)'
        BY <1>1, <3>1 DEF Claims, Renews, Carries
      <3> QED
        BY <1>1, <1>3, <1>4, <2>1, <3>2, SingleQuiet
    <2> QED
      BY <2>2, <2>3
  <1>6. \A v \in Workers : Presented(v)'
    BY <1>1 DEF SingleInv, Presented
  <1> QED
    BY <1>1, <1>5, <1>6 DEF SingleInv

LEMMA SingleRevoke ==
    ASSUME Known, SingleInv, NEW w \in Workers, Revoke(w)
    PROVE  SingleInv'
  <1>1. /\ work[w].pc = "revoke" /\ work'[w].pc = "done"
        /\ work'[w].fresh = work[w].fresh
        /\ work'[w].op = work[w].op /\ work'[w].sid = work[w].sid
        /\ \A v \in Workers \ {w} : work'[v] = work[v]
        /\ UNCHANGED <<held, contested>>
    BY DEF Revoke, Go, Known, TypeOK, Work
  <1>2. RowsKept /\ NoneRevived
    BY RowOfRevoke, RevokeRowKeeps DEF NoneRevived
  <1>3. \A r \in Sids : ~Claims(w, r)'
    BY <1>1 DEF Claims, Renews, Carries, Known, RequestKnown
  <1>4. \A r \in Sids \ contested : Single(r)'
    BY <1>1, <1>2, <1>3, SingleQuiet, UsableKept DEF SingleInv
  <1>5. \A v \in Workers : Presented(v)'
    BY <1>1 DEF SingleInv, Presented
  <1> QED
    BY <1>1, <1>4, <1>5 DEF SingleInv

\* A cut leaves nothing usable; the profile it belongs to claims its device.
LEMMA SingleRevokeAll ==
    ASSUME Known, SingleInv, NEW w \in Workers, RevokeAll(w)
    PROVE  SingleInv'
  <1>1. /\ work[w].pc = "cut"
        /\ work'[w].pc = IF work[w].op = "profile" THEN "insert" ELSE "done"
        /\ work'[w].fresh = work[w].fresh
        /\ work'[w].op = work[w].op /\ work'[w].sid = work[w].sid
        /\ \A v \in Workers \ {w} : work'[v] = work[v]
        /\ UNCHANGED held
    BY DEF RevokeAll, Go, Known, TypeOK, Work
  <1>2. RowsKept /\ NoneRevived /\ \A t \in Sids : ~Live(t)'
    BY CutKeeps DEF NoneRevived
  <1>3. contested \subseteq contested'
    BY DEF RevokeAll, Contest
  <1>4. ASSUME NEW r \in Sids \ contested' PROVE Single(r)'
    <2>1. Usable(r)' = {}
      BY <1>1, <1>2 DEF Usable, Known, TypeOK
    <2>2. Single(r)
      BY <1>3, <1>4 DEF SingleInv
    <2>3. CASE work[w].op = "profile" /\ work[w].sid = r
      <3>1. ASSUME NEW v \in Workers, v # w PROVE ~Claims(v, r)'
        <4>1. ~Renewing(v, r)
          BY <1>4, <2>3, <3>1 DEF RevokeAll, Contest
        <4>2. ~Carries(v, r)'
          BY <1>1, <1>2, <3>1 DEF Carries, Live, Known, RequestKnown
        <4>3. ~Renews(v, r)
          BY <4>1 DEF Renews, Renewing
        <4>4. ~Renews(v, r)'
          BY <1>1, <1>2, <3>1, <4>3 DEF Renews, RowsKept, Known, RequestKnown
        <4> QED
          BY <4>2, <4>4 DEF Claims
      <3> QED
        BY <2>1, <3>1, SingleClaim
    <2>4. CASE ~(work[w].op = "profile" /\ work[w].sid = r)
      <3>1. work[w].fresh = NoSid
        BY <1>1 DEF Known, RequestKnown
      <3>2. ~Claims(w, r)'
        BY <1>1, <2>4, <3>1 DEF Claims, Renews, Carries
      <3> QED
        BY <1>1, <1>2, <2>1, <2>2, <3>2, SingleQuiet
    <2> QED
      BY <2>3, <2>4
  <1>5. \A v \in Workers : Presented(v)'
    BY <1>1 DEF SingleInv, Presented
  <1> QED
    BY <1>4, <1>5 DEF SingleInv

LEMMA SingleExpire ==
    ASSUME Known, SingleInv, NEW s \in Sids, ExpireSession(s) \/ ExpireAccess(s)
    PROVE  SingleInv'
  <1>1. RowsKept /\ NoneRevived /\ UNCHANGED <<held, work, contested>>
    BY ExpiredRow, SameRows DEF ExpireSession, ExpireAccess, NoneRevived
  <1>2. ASSUME NEW r \in Sids \ contested PROVE Single(r)'
    <2>1. Usable(r)' \subseteq Usable(r) /\ \A v \in Workers : Claims(v, r)' => Claims(v, r)
      BY <1>1, UsableKept, ClaimsKept
    <2> QED
      BY <1>1, <1>2, <2>1 DEF SingleInv, Single, Replaces
  <1> QED
    BY <1>1, <1>2 DEF SingleInv, Presented

LEMMA SingleNext == Known /\ SingleInv /\ [Next]_vars => SingleInv'
  <1> SUFFICES ASSUME Known, SingleInv, [Next]_vars PROVE SingleInv'
    OBVIOUS
  <1>1. CASE UNCHANGED vars
    BY <1>1 DEF vars, SingleInv, Presented, Single, Usable, Claims, Renews, Carries, Replaces, Live
  <1> QED
    BY <1>1, Steps, SingleReceive, SingleDeliver, SingleFail, SingleFindActive,
       SingleDetectReuse, SingleCreateSession, SingleRotate, SingleRevoke, SingleRevokeAll,
       SingleExpire

\* The refreshes of a device never fork as long as no two requests renew it at the
\* same time: of the refresh tokens its client received at most one is live, however
\* many answers were lost, rows were left behind by a crash between the insertion
\* and the revocation of refresh, or requests of other devices ran in between.
THEOREM OneUsableToken == Spec => []OneHeldPerDevice
  <1>1. Known /\ SingleInv => OneHeldPerDevice
    <2> SUFFICES ASSUME Known, SingleInv, NEW s \in held, NEW t \in held,
                        Live(s), Live(t), sessions[s].root = sessions[t].root,
                        sessions[s].root \notin contested
                 PROVE  s = t
      BY DEF OneHeldPerDevice
    <2>1. sessions[s].root \in Sids
      BY DEF Known, TypeOK, RowsKnown
    <2>2. s \in Usable(sessions[s].root) /\ t \in Usable(sessions[s].root)
      BY DEF Usable
    <2> QED
      BY <2>1, <2>2 DEF SingleInv, Single
  <1> QED
    BY <1>1, SingleInit, SingleNext, AlwaysKnown, PTL DEF Spec

=============================================================================
