---------------------------- MODULE ServerProofs ----------------------------
(***************************************************************************)
(* Four parts of the API, for any number of their requests, rows and files,*)
(* as components and in the server that runs one of them; and the types of *)
(* every part.                                                             *)
(*                                                                         *)
(* No property here is inductive. A list is what one save asked for because*)
(* a save that nobody overlapped deletes every row its list has, and what  *)
(* it inserted and still has to insert is what it was asked (WeeksInv). The*)
(* logo is the last one linked because a request that has unlinked the old *)
(* one is alone before it links its own, unless two overlapped (LogoInv). A*)
(* session of an old password is excused by whoever set the new one, which *)
(* every other step leaves alone (ExcusedInv). The trail tells a change    *)
(* because what was overwritten is in it, or about to be, or failed to be  *)
(* (TrailInv). The types need what each request was given before: codes    *)
(* that were issued, files that have a row, lists of records there are.    *)
(***************************************************************************)
EXTENDS ClientUpsertProofs, RemindersProofs, SlotQueryProofs, FiniteSetTheorems,
        WellFoundedInduction, TLAPS

-----------------------------------------------------------------------------
(* The lists a save replaces (Weeks) *)

ListRow == [owner : Owners, item : Items, save : 1..MaxSaves]

SaveTx ==
    [pc : {"idle", "delete", "lock", "insert"}, owner : Owners, todo : SUBSET Items,
     save : 0..MaxSaves, seen : SUBSET ListRow, gone : SUBSET ListRow, new : SUBSET ListRow]

ListTypes ==
    /\ rows \in SUBSET ListRow
    /\ tx \in [Savers -> SaveTx]
    /\ saves \in 0..MaxSaves
    /\ asked \in [1..MaxSaves -> SUBSET Items]

\* Every row is of a save or start there was.
ListRowsOK == \A r \in rows : r.save \in 1..saves

\* A transaction touches only rows of its list.
TxOK(t) ==
    /\ t.pc # "idle" => t.save \in 1..saves
    /\ t.pc # "insert" => t.gone = {} /\ t.new = {}
    /\ \A r \in t.seen \cup t.gone \cup t.new : r.owner = t.owner
    /\ \A r \in t.new : r.save = t.save

TxsOK == \A s \in Savers : TxOK(tx[s])

\* Two savers of a list have mixed it.
AloneOK ==
    \A s, u \in Lists!Running : s # u /\ tx[s].owner = tx[u].owner => tx[s].owner \in mixed

ItemsOf(set) == {r.item : r \in set}

\* What a save leaves if nobody overlaps it.
PlanOK(t) ==
    /\ t.pc = "lock" => t.seen = Lists!Of(t.owner)
    /\ t.pc = "insert" => t.gone = Lists!Of(t.owner)
    /\ ItemsOf(t.new) \cup t.todo = asked[t.save]

PlansOK == \A s \in Lists!Running : tx[s].owner \notin mixed => PlanOK(tx[s])

WeeksInv == ListTypes /\ ListRowsOK /\ TxsOK /\ AloneOK /\ PlansOK /\ Lists!OneSavePerList

-----------------------------------------------------------------------------
\* A step of the server is a step of this part or none, if the part is in play.
LEMMA ListsMoves ==
    ASSUME [ServerNext]_ServerVars, part' = "weeks"
    PROVE  part = "weeks" /\ [Lists!Next]_(Lists!vars)
  <1>1. CASE UNCHANGED ServerVars
    BY <1>1 DEF ServerVars, Lists!vars
  <1>2. CASE ServerNext
    BY <1>2
       DEF ServerNext, ClientsStep, JobStep, QueryStep, ListsStep, FilesStep, ResetStep,
           RecordsStep
  <1> QED
    BY <1>1, <1>2

\* A transaction takes a step that commits nothing and stays on its list.
LEMMA SaveMoves ==
    ASSUME WeeksInv, NEW s \in Savers, NEW next \in SaveTx, tx' = [tx EXCEPT ![s] = next],
           TxOK(next), next.pc # "idle" => s \in Lists!Running /\ next.owner = tx[s].owner,
           next.pc # "idle" /\ next.owner \notin mixed => PlanOK(next),
           UNCHANGED <<rows, saves, asked, mixed>>
    PROVE  WeeksInv'
  <1>1. /\ tx' \in [Savers -> SaveTx] /\ tx'[s] = next
        /\ \A u \in Savers : u # s => tx'[u] = tx[u]
    BY DEF WeeksInv, ListTypes
  <1>2. ListTypes' /\ ListRowsOK'
    BY <1>1 DEF WeeksInv, ListTypes, ListRowsOK
  <1>3. TxsOK'
    BY <1>1 DEF WeeksInv, TxsOK, TxOK
  <1>4. /\ Lists!Running' \subseteq Lists!Running
        /\ \A u \in Lists!Running' : tx'[u].owner = tx[u].owner
    BY <1>1 DEF Lists!Running
  <1>5. AloneOK'
    BY <1>4 DEF WeeksInv, AloneOK
  <1>6. PlansOK'
    BY <1>1, <1>4 DEF WeeksInv, PlansOK, PlanOK, Lists!Of, Lists!Running
  <1>7. Lists!OneSavePerList'
    BY DEF WeeksInv, Lists!OneSavePerList, Lists!Of
  <1> QED
    BY <1>2, <1>3, <1>5, <1>6, <1>7 DEF WeeksInv

-----------------------------------------------------------------------------
(* The steps of a save. *)

LEMMA SaveStep ==
    ASSUME Lists!WeeksAssumption, WeeksInv, NEW s \in Savers, NEW owner \in Owners,
           NEW items \in SUBSET Items, Lists!Save(s, owner, items)
    PROVE  WeeksInv'
  <1> DEFINE next == [pc |-> "delete", owner |-> owner, todo |-> items,
                      save |-> saves + 1, seen |-> {}, gone |-> {}, new |-> {}]
  <1>1. saves \in Nat /\ saves' = saves + 1 /\ saves + 1 \in 1..MaxSaves /\ rows' = rows
    BY DEF Lists!Save, WeeksInv, ListTypes, Lists!WeeksAssumption
  <1>2. /\ next \in SaveTx /\ next.pc = "delete" /\ next.owner = owner
        /\ next.todo = items /\ next.save = saves + 1
        /\ next.seen = {} /\ next.gone = {} /\ next.new = {}
    BY <1>1 DEF SaveTx
  <1>3. /\ tx' \in [Savers -> SaveTx] /\ tx'[s] = next
        /\ \A u \in Savers : u # s => tx'[u] = tx[u]
    BY <1>2 DEF Lists!Save, WeeksInv, ListTypes
  <1>4. /\ asked' \in [1..MaxSaves -> SUBSET Items] /\ asked'[saves + 1] = items
        /\ \A n \in 1..saves : asked'[n] = asked[n]
    BY <1>1 DEF Lists!Save, WeeksInv, ListTypes
  <1> HIDE DEF next
  <1>5. ListTypes' /\ ListRowsOK'
    BY <1>1, <1>3, <1>4 DEF WeeksInv, ListTypes, ListRowsOK
  <1>6. TxsOK'
    <2>1. ASSUME NEW u \in Savers, u # s PROVE TxOK(tx[u])'
      BY <1>1, <1>3, <2>1 DEF WeeksInv, TxsOK, TxOK
    <2>2. TxOK(tx[s])'
      BY <1>1, <1>2, <1>3 DEF TxOK
    <2> QED
      BY <2>1, <2>2 DEF TxsOK
  <1>7. Lists!Running' = Lists!Running \cup {s} /\ s \notin Lists!Running
    BY <1>2, <1>3 DEF Lists!Running, Lists!Save
  <1>8. AloneOK'
    <2>1. ASSUME NEW u \in Lists!Running', NEW v \in Lists!Running', u # v,
                 tx'[u].owner = tx'[v].owner
          PROVE  tx'[u].owner \in Lists!Overlapped'
      BY <2>1 DEF Lists!Overlapped
    <2>2. Lists!Overlapped' \subseteq mixed'
      BY DEF Lists!Save
    <2> QED
      BY <2>1, <2>2 DEF AloneOK
  <1>9. PlansOK'
    <2>1. mixed \subseteq mixed'
      BY DEF Lists!Save
    <2>2. ASSUME NEW u \in Lists!Running', tx'[u].owner \notin mixed', u # s
          PROVE  PlanOK(tx[u])'
      <3>1. u \in Lists!Running /\ tx'[u] = tx[u] /\ tx[u].save \in 1..saves
        BY <1>3, <1>7, <2>2 DEF Lists!Running, WeeksInv, TxsOK, TxOK
      <3> QED
        BY <1>1, <1>4, <2>1, <2>2, <3>1 DEF WeeksInv, PlansOK, PlanOK, Lists!Of
    <2>3. PlanOK(tx[s])'
      BY <1>2, <1>3, <1>4 DEF PlanOK, ItemsOf
    <2> QED
      BY <2>2, <2>3 DEF PlansOK
  <1>10. Lists!OneSavePerList'
    <2> SUFFICES ASSUME NEW o \in Owners \ mixed', NEW r \in Lists!Of(o)'
                 PROVE  {q.item : q \in Lists!Of(o)'} = asked'[r.save]
      BY DEF Lists!OneSavePerList
    <2>1. mixed \subseteq mixed'
      BY DEF Lists!Save
    <2>2. Lists!Of(o)' = Lists!Of(o) /\ r \in rows
      BY <1>1 DEF Lists!Of
    <2>3. asked'[r.save] = asked[r.save]
      BY <1>4, <2>2 DEF WeeksInv, ListRowsOK
    <2> QED
      BY <2>1, <2>2, <2>3 DEF WeeksInv, Lists!OneSavePerList
  <1> QED
    BY <1>5, <1>6, <1>8, <1>9, <1>10 DEF WeeksInv

LEMMA DeleteStep ==
    ASSUME WeeksInv, NEW s \in Savers, Lists!Delete(s) PROVE WeeksInv'
  <1> DEFINE next == [tx[s] EXCEPT !.pc = "lock", !.seen = Lists!Of(tx[s].owner)]
  <1>1. tx[s] \in SaveTx /\ TxOK(tx[s]) /\ tx[s].pc = "delete" /\ s \in Lists!Running
    BY DEF WeeksInv, ListTypes, TxsOK, Lists!Delete, Lists!Running
  <1>2. tx' = [tx EXCEPT ![s] = next]
    BY DEF Lists!Delete, WeeksInv, ListTypes
  <1>3. Lists!Of(tx[s].owner) \in SUBSET ListRow
    BY DEF Lists!Of, WeeksInv, ListTypes
  <1>4. /\ next \in SaveTx /\ next.pc = "lock" /\ next.seen = Lists!Of(tx[s].owner)
        /\ next.owner = tx[s].owner /\ next.todo = tx[s].todo /\ next.save = tx[s].save
        /\ next.new = tx[s].new /\ next.gone = tx[s].gone
    BY <1>1, <1>3 DEF SaveTx
  <1> HIDE DEF next
  <1>5. TxOK(next)
    BY <1>1, <1>4 DEF TxOK, Lists!Of
  <1>6. next.owner \notin mixed => PlanOK(next)
    BY <1>1, <1>4 DEF WeeksInv, PlansOK, PlanOK
  <1> QED
    BY <1>1, <1>2, <1>4, <1>5, <1>6, SaveMoves DEF Lists!Delete

\* A save that nobody overlapped waits for nobody and deletes what it saw: no
\* row of its list went or came meanwhile.
LEMMA DeletedStep ==
    ASSUME WeeksInv, NEW s \in Savers, Lists!Deleted(s) PROVE WeeksInv'
  <1> DEFINE next == [tx[s] EXCEPT !.pc = "insert", !.gone = tx[s].seen \cap rows]
  <1>1. tx[s] \in SaveTx /\ TxOK(tx[s]) /\ tx[s].pc = "lock" /\ s \in Lists!Running
    BY DEF WeeksInv, ListTypes, TxsOK, Lists!Deleted, Lists!Running
  <1>2. tx' = [tx EXCEPT ![s] = next]
    BY DEF Lists!Deleted, WeeksInv, ListTypes
  <1>3. /\ next \in SaveTx /\ next.pc = "insert" /\ next.gone = tx[s].seen \cap rows
        /\ next.owner = tx[s].owner /\ next.todo = tx[s].todo /\ next.save = tx[s].save
        /\ next.new = tx[s].new /\ next.seen = tx[s].seen
    BY <1>1 DEF SaveTx
  <1> HIDE DEF next
  <1>4. TxOK(next)
    BY <1>1, <1>3 DEF TxOK
  <1>5. next.owner \notin mixed => PlanOK(next)
    BY <1>1, <1>3 DEF WeeksInv, PlansOK, PlanOK, Lists!Of
  <1> QED
    BY <1>1, <1>2, <1>3, <1>4, <1>5, SaveMoves DEF Lists!Deleted

\* An insert moves an item from what is asked for to what is inserted: in a list
\* of services nobody overlapped, it is not there since all was deleted.
LEMMA InsertItemStep ==
    ASSUME Lists!WeeksAssumption, WeeksInv, NEW s \in Savers, Lists!Insert(s)
    PROVE  WeeksInv'
  <1>1. tx[s] \in SaveTx /\ TxOK(tx[s]) /\ tx[s].pc = "insert" /\ s \in Lists!Running
    BY DEF WeeksInv, ListTypes, TxsOK, Lists!Insert, Lists!Running
  <1> DEFINE row(item) == [owner |-> tx[s].owner, item |-> item, save |-> tx[s].save]
             there(item) == /\ tx[s].owner \in Keyed
                            /\ \E r \in rows \ tx[s].gone : r.owner = tx[s].owner /\ r.item = item
             next(item) == [tx[s] EXCEPT !.todo = @ \ {item},
                                         !.new = IF there(item) THEN @ ELSE @ \cup {row(item)}]
  <1>2. PICK item \in tx[s].todo : tx' = [tx EXCEPT ![s] = next(item)]
    BY DEF Lists!Insert, WeeksInv, ListTypes
  <1>3. /\ row(item) \in ListRow /\ row(item).owner = tx[s].owner /\ row(item).item = item
        /\ row(item).save = tx[s].save
    BY <1>1, <1>2 DEF SaveTx, ListRow, TxOK, WeeksInv, ListTypes, Lists!WeeksAssumption
  <1>4. tx[s].owner \notin mixed => ~there(item)
    BY <1>1 DEF WeeksInv, PlansOK, PlanOK, Lists!Of
  <1> HIDE DEF row, there
  <1>5. /\ next(item) \in SaveTx /\ next(item).pc = "insert" /\ next(item).owner = tx[s].owner
        /\ next(item).todo = tx[s].todo \ {item} /\ next(item).save = tx[s].save
        /\ next(item).seen = tx[s].seen /\ next(item).gone = tx[s].gone
        /\ next(item).new = IF there(item) THEN tx[s].new ELSE tx[s].new \cup {row(item)}
    BY <1>1, <1>3 DEF SaveTx
  <1> HIDE DEF next
  <1>6. TxOK(next(item))
    BY <1>1, <1>3, <1>5 DEF TxOK
  <1>7. next(item).owner \notin mixed => PlanOK(next(item))
    <2> SUFFICES ASSUME tx[s].owner \notin mixed PROVE PlanOK(next(item))
      BY <1>5
    <2>1. PlanOK(tx[s])
      BY <1>1 DEF WeeksInv, PlansOK
    <2>2. ItemsOf(tx[s].new \cup {row(item)}) = ItemsOf(tx[s].new) \cup {item}
      BY <1>3 DEF ItemsOf
    <2>3. ItemsOf(next(item).new) \cup next(item).todo = ItemsOf(tx[s].new) \cup tx[s].todo
      BY <1>2, <1>4, <1>5, <2>2
    <2> QED
      BY <1>1, <1>5, <2>1, <2>3 DEF PlanOK
  <1> QED
    BY <1>1, <1>2, <1>5, <1>6, <1>7, SaveMoves DEF Lists!Insert

LEMMA NoTxOK ==
    ASSUME Lists!WeeksAssumption
    PROVE  Lists!NoTx \in SaveTx /\ TxOK(Lists!NoTx) /\ Lists!NoTx.pc = "idle"
  BY DEF Lists!WeeksAssumption, Lists!NoTx, SaveTx, TxOK

LEMMA RollbackStep ==
    ASSUME Lists!WeeksAssumption, WeeksInv, NEW s \in Savers, Lists!Rollback(s)
    PROVE  WeeksInv'
  BY NoTxOK, SaveMoves DEF Lists!Rollback

\* A commit changes its own list only, and leaves what it inserted if nobody
\* overlapped it.
LEMMA CommitStep ==
    ASSUME Lists!WeeksAssumption, WeeksInv, NEW s \in Savers, Lists!Commit(s)
    PROVE  WeeksInv'
  <1>1. tx[s] \in SaveTx /\ TxOK(tx[s]) /\ tx[s].pc = "insert" /\ s \in Lists!Running
    BY DEF WeeksInv, ListTypes, TxsOK, Lists!Commit, Lists!Running
  <1>2. /\ tx' \in [Savers -> SaveTx] /\ tx'[s] = Lists!NoTx
        /\ \A u \in Savers : u # s => tx'[u] = tx[u]
    BY NoTxOK DEF Lists!Commit, WeeksInv, ListTypes
  <1>3. rows' = (rows \ tx[s].gone) \cup tx[s].new /\ UNCHANGED <<saves, asked, mixed>>
    BY DEF Lists!Commit
  <1>4. ListTypes' /\ ListRowsOK'
    <2>1. rows' \in SUBSET ListRow
      BY <1>1, <1>3 DEF WeeksInv, ListTypes, SaveTx
    <2>2. ListRowsOK'
      BY <1>1, <1>3 DEF WeeksInv, ListRowsOK, TxOK
    <2> QED
      BY <1>2, <1>3, <2>1, <2>2 DEF WeeksInv, ListTypes
  <1>5. TxsOK'
    BY <1>2, <1>3, NoTxOK DEF WeeksInv, TxsOK, TxOK
  <1>6. Lists!Running' = Lists!Running \ {s} /\ \A u \in Lists!Running' : tx'[u] = tx[u]
    BY <1>2, NoTxOK DEF Lists!Running
  <1>7. \A o : o # tx[s].owner => Lists!Of(o)' = Lists!Of(o)
    BY <1>1, <1>3 DEF Lists!Of, TxOK
  <1>8. AloneOK'
    BY <1>3, <1>6 DEF WeeksInv, AloneOK
  <1>9. PlansOK'
    <2> SUFFICES ASSUME NEW u \in Lists!Running', tx'[u].owner \notin mixed
                 PROVE  PlanOK(tx[u])'
      BY <1>3 DEF PlansOK
    <2>1. u \in Lists!Running /\ u # s /\ tx'[u] = tx[u] /\ tx[u].owner # tx[s].owner
      BY <1>1, <1>2, <1>6 DEF WeeksInv, AloneOK, Lists!Running
    <2>2. Lists!Of(tx[u].owner)' = Lists!Of(tx[u].owner)
      BY <1>7, <2>1 DEF Lists!Of
    <2> QED
      BY <1>3, <2>1, <2>2 DEF WeeksInv, PlansOK, PlanOK
  <1>10. Lists!OneSavePerList'
    <2> SUFFICES ASSUME NEW o \in Owners \ mixed, NEW r \in Lists!Of(o)'
                 PROVE  {q.item : q \in Lists!Of(o)'} = asked[r.save]
      BY <1>3 DEF Lists!OneSavePerList
    <2>1. CASE o # tx[s].owner
      BY <1>7, <2>1 DEF WeeksInv, Lists!OneSavePerList
    <2>2. CASE o = tx[s].owner
      <3>1. PlanOK(tx[s]) /\ tx[s].todo = {}
        BY <1>1, <2>2 DEF WeeksInv, PlansOK, Lists!Commit
      <3>2. tx[s].gone = Lists!Of(o) /\ ItemsOf(tx[s].new) = asked[tx[s].save]
        BY <1>1, <2>2, <3>1 DEF PlanOK
      <3>3. Lists!Of(o)' = tx[s].new
        BY <1>1, <1>3, <2>2, <3>2 DEF Lists!Of, TxOK
      <3>4. r.save = tx[s].save
        BY <1>1, <3>3 DEF TxOK
      <3> QED
        BY <3>2, <3>3, <3>4 DEF ItemsOf
    <2> QED
      BY <2>1, <2>2
  <1> QED
    BY <1>4, <1>5, <1>8, <1>9, <1>10 DEF WeeksInv

-----------------------------------------------------------------------------
(* The migration. *)

LEMMA StartStep ==
    ASSUME Lists!WeeksAssumption, WeeksInv, Lists!Start PROVE WeeksInv'
  <1> DEFINE items == {r.item : r \in Lists!Of(Professional)}
             copies == [owner : {Business}, item : items, save : {saves + 1}]
  <1>1. saves \in Nat /\ saves' = saves + 1 /\ saves + 1 \in 1..MaxSaves
    BY DEF Lists!Start, WeeksInv, ListTypes, Lists!WeeksAssumption
  <1>2. items \in SUBSET Items
    BY DEF WeeksInv, ListTypes, Lists!Of, ListRow
  <1>3. copies \in SUBSET ListRow
    BY <1>1, <1>2 DEF ListRow, Lists!WeeksAssumption
  <1>4. \A r \in copies : r.owner = Business /\ r.save = saves + 1
    OBVIOUS
  <1>5. {r.item : r \in copies} = items
    <2>1. \A i \in items : [owner |-> Business, item |-> i, save |-> saves + 1] \in copies
      OBVIOUS
    <2> QED
      BY <2>1
  <1>6. /\ rows' = rows \cup copies /\ UNCHANGED <<tx, mixed>> /\ Lists!Running = {}
        /\ Lists!Of(Business) = {}
    BY DEF Lists!Start
  <1>7. /\ asked' \in [1..MaxSaves -> SUBSET Items] /\ asked'[saves + 1] = items
        /\ \A n \in 1..saves : asked'[n] = asked[n]
    BY <1>1, <1>2 DEF Lists!Start, WeeksInv, ListTypes
  <1> HIDE DEF items, copies
  <1>8. ListTypes' /\ ListRowsOK'
    BY <1>1, <1>3, <1>4, <1>6, <1>7 DEF WeeksInv, ListTypes, ListRowsOK
  <1>9. TxsOK' /\ AloneOK' /\ PlansOK'
    BY <1>1, <1>6 DEF WeeksInv, TxsOK, TxOK, AloneOK, PlansOK, Lists!Running
  <1>10. Lists!OneSavePerList'
    <2> SUFFICES ASSUME NEW o \in Owners \ mixed, NEW r \in Lists!Of(o)'
                 PROVE  {q.item : q \in Lists!Of(o)'} = asked'[r.save]
      BY <1>6 DEF Lists!OneSavePerList
    <2>1. CASE o = Business
      <3>1. Lists!Of(o)' = copies
        BY <1>4, <1>6, <2>1 DEF Lists!Of
      <3> QED
        BY <1>4, <1>5, <1>7, <3>1
    <2>2. CASE o # Business
      <3>1. Lists!Of(o)' = Lists!Of(o) /\ r \in rows
        BY <1>4, <1>6, <2>2 DEF Lists!Of
      <3>2. asked'[r.save] = asked[r.save]
        BY <1>7, <3>1 DEF WeeksInv, ListRowsOK
      <3> QED
        BY <3>1, <3>2 DEF WeeksInv, Lists!OneSavePerList
    <2> QED
      BY <2>1, <2>2
  <1> QED
    BY <1>8, <1>9, <1>10 DEF WeeksInv

-----------------------------------------------------------------------------
(* The theorem. *)

LEMMA WeeksInit == Lists!WeeksAssumption /\ Lists!Init => WeeksInv
  <1> SUFFICES ASSUME Lists!WeeksAssumption, Lists!Init PROVE WeeksInv
    OBVIOUS
  <1>1. ListTypes
    BY NoTxOK DEF Lists!Init, ListTypes, Lists!WeeksAssumption
  <1>2. TxsOK /\ Lists!Running = {}
    BY NoTxOK DEF Lists!Init, TxsOK, Lists!Running
  <1> QED
    BY <1>1, <1>2
       DEF Lists!Init, WeeksInv, ListRowsOK, AloneOK, PlansOK, Lists!OneSavePerList,
           Lists!Of

LEMMA WeeksStep ==
    Lists!WeeksAssumption /\ WeeksInv /\ [Lists!Next]_(Lists!vars) => WeeksInv'
  <1> SUFFICES ASSUME Lists!WeeksAssumption, WeeksInv, [Lists!Next]_(Lists!vars)
               PROVE  WeeksInv'
    OBVIOUS
  <1>1. CASE UNCHANGED Lists!vars
    <2>1. UNCHANGED <<rows, tx, saves, asked, mixed>>
      BY <1>1 DEF Lists!vars
    <2>2. ListTypes' /\ ListRowsOK' /\ TxsOK' /\ AloneOK'
      BY <2>1 DEF WeeksInv, ListTypes, ListRowsOK, TxsOK, TxOK, AloneOK, Lists!Running
    <2>3. PlansOK'
      BY <2>1 DEF WeeksInv, PlansOK, PlanOK, Lists!Running, Lists!Of
    <2>4. Lists!OneSavePerList'
      BY <2>1 DEF WeeksInv, Lists!OneSavePerList, Lists!Of
    <2> QED
      BY <2>2, <2>3, <2>4 DEF WeeksInv
  <1>2. ASSUME NEW s \in Savers, NEW owner \in Owners, NEW items \in SUBSET Items,
               Lists!Save(s, owner, items)
        PROVE  WeeksInv'
    BY <1>2, SaveStep
  <1>3. ASSUME NEW s \in Savers,
               \/ Lists!Delete(s) \/ Lists!Deleted(s) \/ Lists!Insert(s)
               \/ Lists!Commit(s) \/ Lists!Rollback(s)
        PROVE  WeeksInv'
    BY <1>3, DeleteStep, DeletedStep, InsertItemStep, CommitStep, RollbackStep
  <1>4. CASE Lists!Start
    BY <1>4, StartStep
  <1> QED
    BY <1>1, <1>2, <1>3, <1>4 DEF Lists!Next

\* For any lists and any number of saves at once, a list is what one save asked
\* for unless two overlapped on it, and the migration that runs at every start
\* never adds to hours a business has (professionals.service.ts:200,
\* BD/migration/016_business_schedule_capacity.sql).
THEOREM SavesAreWhole ==
    /\ Lists!Spec => []Lists!OneSavePerList
    /\ ServerSpec => []OneSavePerList
  <1> USE ServerAssumption
  <1>1. Lists!Init => WeeksInv
    BY WeeksInit
  <1>2. WeeksInv /\ [Lists!Next]_(Lists!vars) => WeeksInv'
    BY WeeksStep
  <1>3. WeeksInv => Lists!OneSavePerList
    BY DEF WeeksInv
  <1>4. Lists!Spec => []Lists!OneSavePerList
    BY <1>1, <1>2, <1>3, PTL DEF Lists!Spec
  <1>5. ServerSpec => []OneSavePerList
    <2> DEFINE Inv == part = "weeks" => WeeksInv
    <2>1. ServerInit => Inv
      BY <1>1 DEF ServerInit
    <2>2. Inv /\ [ServerNext]_ServerVars => Inv'
      BY <1>2, ListsMoves
    <2>3. Inv => OneSavePerList
      BY <1>3 DEF OneSavePerList
    <2> QED
      BY <2>1, <2>2, <2>3, PTL DEF ServerSpec
  <1> QED
    BY <1>4, <1>5

-----------------------------------------------------------------------------
(* What a transaction deletes *)

\* What a transaction has deleted is committed, and another has not deleted it.
GonesOK ==
    /\ mixed \subseteq Owners
    /\ \A s \in Savers : tx[s].gone \subseteq rows
    /\ \A s \in Savers : \A u \in Savers \ {s} : tx[s].gone \cap tx[u].gone = {}

LEMMA GonesStep ==
    ASSUME Lists!WeeksAssumption, WeeksInv, GonesOK, [Lists!Next]_(Lists!vars)
    PROVE  GonesOK'
  <1>1. tx \in [Savers -> SaveTx] /\ Lists!NoTx.gone = {} /\ Lists!NoTx \in SaveTx
    BY NoTxOK DEF WeeksInv, ListTypes, Lists!NoTx
  <1>2. \A s \in Savers : tx[s].owner \in Owners
    BY <1>1 DEF SaveTx
  <1>3. ASSUME NEW s \in Savers, NEW owner \in Owners, NEW items \in SUBSET Items,
               Lists!Save(s, owner, items)
        PROVE  GonesOK'
    <2>1. /\ tx'[s].gone = {} /\ tx'[s].owner = owner
          /\ \A u \in Savers \ {s} : tx'[u] = tx[u]
          /\ rows' = rows
      BY <1>1, <1>3 DEF Lists!Save
    <2>2. Lists!Overlapped' \subseteq Owners
      BY <1>2, <2>1 DEF Lists!Overlapped, Lists!Running
    <2>3. mixed' \subseteq Owners
      BY <1>3, <2>2 DEF Lists!Save, GonesOK
    <2> QED
      BY <2>1, <2>3 DEF GonesOK
  <1>4. ASSUME NEW s \in Savers, Lists!Delete(s) \/ Lists!Insert(s)
        PROVE  GonesOK'
    <2>1. \A u \in Savers : tx'[u].gone = tx[u].gone
      <3>1. CASE Lists!Delete(s)
        BY <1>1, <3>1 DEF Lists!Delete, SaveTx
      <3>2. CASE Lists!Insert(s)
        <4>1. PICK item, new : tx' = [tx EXCEPT ![s].todo = tx[s].todo \ {item}, ![s].new = new]
          BY <3>2 DEF Lists!Insert
        <4> QED
          BY <1>1, <4>1 DEF SaveTx
      <3> QED
        BY <1>4, <3>1, <3>2
    <2> QED
      BY <1>4, <2>1 DEF GonesOK, Lists!Delete, Lists!Insert
  <1>5. ASSUME NEW s \in Savers, Lists!Deleted(s)
        PROVE  GonesOK'
    <2>1. /\ tx'[s].gone = tx[s].seen \cap rows
          /\ \A u \in Savers \ {s} : tx'[u].gone = tx[u].gone
      BY <1>1, <1>5 DEF Lists!Deleted, SaveTx
    <2>2. \A u \in Savers \ {s} : tx[s].seen \cap tx[u].gone = {}
      BY <1>5 DEF Lists!Deleted
    <2> QED
      BY <1>5, <2>1, <2>2 DEF GonesOK, Lists!Deleted
  <1>6. ASSUME NEW s \in Savers, Lists!Rollback(s) \/ Lists!Commit(s)
        PROVE  GonesOK'
    <2>1. tx'[s].gone = {} /\ \A u \in Savers \ {s} : tx'[u].gone = tx[u].gone
      BY <1>1, <1>6 DEF Lists!Rollback, Lists!Commit
    <2>2. \A u \in Savers \ {s} : tx[u].gone \subseteq rows'
      BY <1>6 DEF GonesOK, Lists!Rollback, Lists!Commit
    <2> QED
      BY <1>6, <2>1, <2>2 DEF GonesOK, Lists!Rollback, Lists!Commit
  <1>7. CASE Lists!Start
    BY <1>7 DEF GonesOK, Lists!Start
  <1>8. CASE UNCHANGED Lists!vars
    BY <1>8 DEF GonesOK, Lists!vars
  <1> QED
    BY <1>3, <1>4, <1>5, <1>6, <1>7, <1>8 DEF Lists!Next

\* The rows, the saves and what each is about to do keep their types.
LEMMA ListsTyped == ServerSpec => [](part = "weeks" => Lists!TypeOK)
  <1> USE ServerAssumption
  <1>1. Lists!Init => WeeksInv /\ GonesOK
    <2>1. Lists!Init => GonesOK
      BY NoTxOK DEF Lists!Init, GonesOK, Lists!NoTx
    <2> QED
      BY <2>1, WeeksInit
  <1>2. WeeksInv /\ GonesOK /\ [Lists!Next]_(Lists!vars) => WeeksInv' /\ GonesOK'
    BY WeeksStep, GonesStep
  <1>3. WeeksInv /\ GonesOK => Lists!TypeOK
    BY DEF WeeksInv, ListTypes, TxsOK, TxOK, GonesOK, Lists!TypeOK, ListRow, Lists!Of
  <1> DEFINE Inv == part = "weeks" => (WeeksInv /\ GonesOK)
  <1>4. ServerInit => Inv
    BY <1>1 DEF ServerInit
  <1>5. Inv /\ [ServerNext]_ServerVars => Inv'
    BY <1>2, ListsMoves
  <1>6. Inv => (part = "weeks" => Lists!TypeOK)
    BY <1>3
  <1> QED
    BY <1>4, <1>5, <1>6, PTL DEF ServerSpec

-----------------------------------------------------------------------------
(* The files of a business (Assets) *)

\* A request is a record with a step, and is about a file that may be sent
\* once it has one.
RequestOK(q) ==
    /\ q = [pc |-> q.pc, asset |-> q.asset, kind |-> q.kind, page |-> q.page]
    /\ q.pc # "idle" => q.asset \in 1..MaxAssets

FilesOK ==
    /\ req = [r \in Requests |-> req[r]]
    /\ \A r \in Requests : RequestOK(req[r])
    /\ links = [a \in 1..MaxAssets |-> links[a]]
    /\ assets \subseteq 1..MaxAssets
    /\ used.files \in Nat

\* Only rows are linked, and a request that links found its row.
LinkRowsOK ==
    /\ \A a \in 1..MaxAssets : links[a] = "logo" => a \in assets
    /\ \A r \in Requests : req[r].pc \in {"unlink", "link"} => req[r].asset \in assets

\* The logo is freed by the request that links it: none goes to link one
\* without having passed the unlinking.
LinkedOK ==
    /\ last # None => last \in Files!Linked("logo")
    /\ ~mixed => Files!Linked("logo") = {last} \ {None}
    /\ ~mixed => \A r \in Files!Linking("logo") : last = None /\ Files!Linking("logo") = {r}

LogoInv == FilesOK /\ LinkRowsOK /\ LinkedOK

-----------------------------------------------------------------------------

\* The newest of some files is one of them.
LEMMA MaxIsMember ==
    ASSUME MaxAssets \in Nat, NEW S \in SUBSET (1..MaxAssets), S # {}
    PROVE  Files!Max(S) \in S
  <1>0. S \subseteq Nat
    OBVIOUS
  <1> DEFINE T == {MaxAssets - a : a \in S}
             Less == OpToRel(<, Nat)
  <1>1. T \subseteq Nat /\ T # {}
    <2>1. \A a \in S : MaxAssets - a \in Nat
      OBVIOUS
    <2>2. PICK a \in S : TRUE
      OBVIOUS
    <2>3. MaxAssets - a \in T
      BY <2>2
    <2> QED
      BY <2>1, <2>3
  <1>2. PICK t \in T : \A u \in T : <<u, t>> \notin Less
    <2>1. IsWellFoundedOn(Less, Nat)
      BY NatLessThanWellFounded
    <2> HIDE DEF T, Less
    <2> QED
      BY <1>1, <2>1, WFMin
  <1>3. \A u \in T : ~(u < t)
    <2> HIDE DEF T
    <2> QED
      BY <1>1, <1>2 DEF OpToRel
  <1> HIDE DEF Less
  <1>4. PICK a \in S : t = MaxAssets - a
    OBVIOUS
  <1>5. ASSUME NEW b \in S PROVE a >= b
    <2>1. ~(MaxAssets - b < t)
      BY <1>3
    <2> QED
      BY <1>0, <1>4, <2>1
  <1> QED
    BY <1>5 DEF Files!Max

\* LogoInv says what the page reads: a business without a logo has had none
\* linked, or its last one unlinked.
LEMMA InvImpliesLogo ==
    ASSUME Files!AssetsAssumption, LogoInv PROVE Files!LogoIsTheLastLinked
  <1>1. ASSUME last # None PROVE Files!Logo # None
    <2>1. Files!Linked("logo") # {} /\ Files!Linked("logo") \in SUBSET (1..MaxAssets)
      BY <1>1 DEF LogoInv, LinkedOK, FilesOK, Files!Linked
    <2>2. Files!Max(Files!Linked("logo")) \in 1..MaxAssets
      BY <2>1, MaxIsMember DEF Files!AssetsAssumption
    <2> QED
      BY <2>1, <2>2 DEF Files!Logo, Files!AssetsAssumption
  <1> QED
    BY <1>1 DEF Files!LogoIsTheLastLinked, LogoInv, LinkedOK
\* A step of the server is a step of this part or none, if the part is in play.
LEMMA FilesMoves ==
    ASSUME [ServerNext]_ServerVars, part' = "assets"
    PROVE  part = "assets" /\ [Files!Next]_(Files!vars)
  <1>1. CASE UNCHANGED ServerVars
    BY <1>1 DEF ServerVars, Files!vars
  <1>2. CASE ServerNext
    BY <1>2
       DEF ServerNext, ClientsStep, JobStep, QueryStep, ListsStep, FilesStep, ResetStep,
           RecordsStep
  <1> QED
    BY <1>1, <1>2

\* A request takes a step that does not link: the links stay, and what is said
\* of the others stays with them.
LEMMA FileQuiet ==
    ASSUME LogoInv, NEW r \in Requests, NEW next, RequestOK(next),
           req' = [req EXCEPT ![r] = next],
           next.pc \in {"unlink", "link"} => next.asset \in assets,
           next.pc = "link" => next.kind # "logo",
           assets \subseteq assets', assets' \subseteq 1..MaxAssets,
           Files!Linked("logo")' = Files!Linked("logo"), UNCHANGED <<links, last, mixed>>,
           used'.files \in Nat
    PROVE  LogoInv'
  <1>1. req' = [q \in Requests |-> req'[q]] /\ req'[r] = next
        /\ \A q \in Requests : q # r => req'[q] = req[q]
    BY DEF LogoInv, FilesOK
  <1>2. FilesOK'
    BY <1>1 DEF LogoInv, FilesOK, RequestOK
  <1>3. LinkRowsOK'
    BY <1>1 DEF LogoInv, LinkRowsOK
  <1>4. Files!Linking("logo")' \subseteq Files!Linking("logo")
    BY <1>1 DEF Files!Linking
  <1>5. LinkedOK'
    BY <1>4 DEF LogoInv, LinkedOK
  <1> QED
    BY <1>2, <1>3, <1>5 DEF LogoInv

\* The same for a request that only moves to its next step.
LEMMA FileMoves ==
    ASSUME LogoInv, NEW r \in Requests, NEW pc, req[r].pc # "idle",
           req' = [req EXCEPT ![r].pc = pc],
           pc \in {"unlink", "link"} => req[r].asset \in assets,
           pc = "link" => req[r].kind # "logo",
           assets \subseteq assets', assets' \subseteq 1..MaxAssets,
           UNCHANGED <<links, last, mixed, used>>, Files!Linked("logo")' = Files!Linked("logo")
    PROVE  LogoInv'
  <1> DEFINE next == [req[r] EXCEPT !.pc = pc]
  <1>1. RequestOK(req[r])
    BY DEF LogoInv, FilesOK
  <1>2. /\ RequestOK(next) /\ next.pc = pc /\ next.asset = req[r].asset
        /\ next.kind = req[r].kind
    BY <1>1 DEF RequestOK
  <1>3. req' = [req EXCEPT ![r] = next] /\ used'.files \in Nat
    BY DEF LogoInv, FilesOK
  <1> HIDE DEF next
  <1> QED
    BY <1>2, <1>3, FileQuiet

\* A request that ends, answered or not.
LEMMA FileEnds ==
    ASSUME LogoInv, NEW r \in Requests, req' = [req EXCEPT ![r] = Files!NoReq],
           UNCHANGED <<assets, links, used, last, mixed>>
    PROVE  LogoInv'
  <1>1. RequestOK(Files!NoReq) /\ Files!NoReq.pc = "idle"
    BY DEF RequestOK, Files!NoReq
  <1>2. /\ used'.files \in Nat /\ assets' \subseteq 1..MaxAssets
        /\ Files!Linked("logo")' = Files!Linked("logo")
    BY DEF LogoInv, FilesOK, Files!Linked
  <1> QED
    BY <1>1, <1>2, FileQuiet

LEMMA UploadStep ==
    ASSUME Files!AssetsAssumption, LogoInv, NEW r \in Requests, NEW kind, NEW flag,
           Files!Upload(r, kind, flag), UNCHANGED <<objects, assets, links, last, mixed>>
    PROVE  LogoInv'
  <1> DEFINE next == [pc |-> "put", asset |-> used.files + 1, kind |-> kind, page |-> flag]
  <1>1. req' = [req EXCEPT ![r] = next] /\ used' = [used EXCEPT !.files = used.files + 1]
        /\ used.files < MaxAssets
    BY DEF Files!Upload
  <1>2. used.files \in Nat /\ MaxAssets \in Nat
    BY DEF LogoInv, FilesOK, Files!AssetsAssumption
  <1>3. RequestOK(next) /\ next.pc = "put"
    BY <1>1, <1>2 DEF RequestOK
  <1>4. used'.files \in Nat
    BY <1>1, <1>2
  <1>5. assets' \subseteq 1..MaxAssets /\ Files!Linked("logo")' = Files!Linked("logo")
    BY DEF LogoInv, FilesOK, Files!Linked
  <1> HIDE DEF next
  <1> QED
    BY <1>1, <1>3, <1>4, <1>5, FileQuiet

-----------------------------------------------------------------------------
(* The two statements of a linking. *)

\* Freeing the kind leaves no logo, and the request alone unless another was
\* about to link; freeing another kind leaves the logo alone.
LEMMA UnlinkStep ==
    ASSUME LogoInv, NEW r \in Requests, Files!Unlink(r)
    PROVE  LogoInv'
  <1> DEFINE kind == req[r].kind
  <1>1. RequestOK(req[r]) /\ req[r].pc = "unlink" /\ req[r].asset \in assets
    BY DEF LogoInv, FilesOK, LinkRowsOK, Files!Unlink
  <1>2. /\ req' = [q \in Requests |-> req'[q]]
        /\ req'[r] = [req[r] EXCEPT !.pc = "link"]
        /\ \A q \in Requests : q # r => req'[q] = req[q]
    BY DEF LogoInv, FilesOK, Files!Unlink
  <1>3. /\ RequestOK(req'[r]) /\ req'[r].asset = req[r].asset
        /\ req'[r].kind = kind /\ req'[r].pc = "link"
    BY <1>1, <1>2 DEF RequestOK
  <1>4. links' = [a \in 1..MaxAssets |-> IF links[a] = kind THEN "none" ELSE links[a]]
    BY DEF LogoInv, FilesOK, Files!Unlink
  <1>5. FilesOK'
    <2>1. UNCHANGED <<assets, used>>
      BY DEF Files!Unlink
    <2> QED
      BY <1>2, <1>3, <1>4, <2>1 DEF LogoInv, FilesOK
  <1>6. LinkRowsOK'
    BY <1>1, <1>2, <1>3, <1>4 DEF LogoInv, LinkRowsOK, Files!Unlink
  <1>7. LinkedOK'
    <2>1. CASE kind = "logo"
      <3>1. /\ Files!Linked("logo")' = {} /\ last' = None
            /\ mixed' = (Files!Linking("logo") # {})
        BY <1>4, <2>1 DEF Files!Linked, Files!Unlink, LogoInv, FilesOK
      <3>2. Files!Linking("logo") = {} => Files!Linking("logo")' = {r}
        <4> SUFFICES ASSUME Files!Linking("logo") = {}, NEW q \in Requests
                     PROVE  (req'[q].pc = "link" /\ req'[q].kind = "logo") <=> q = r
          BY DEF Files!Linking
        <4>1. CASE q = r
          BY <4>1, <1>3, <2>1
        <4>2. CASE q # r
          BY <4>2, <1>2 DEF Files!Linking
        <4> QED
          BY <4>1, <4>2
      <3> QED
        BY <3>1, <3>2 DEF LinkedOK
    <2>2. CASE kind # "logo"
      <3>1. Files!Linked("logo")' = Files!Linked("logo") /\ UNCHANGED <<last, mixed>>
        BY <1>4, <2>2 DEF Files!Linked, Files!Unlink, LogoInv, FilesOK
      <3>2. Files!Linking("logo")' = Files!Linking("logo")
        BY <1>1, <1>2, <1>3, <2>2 DEF Files!Linking
      <3> QED
        BY <3>1, <3>2 DEF LinkedOK, LogoInv
    <2> QED
      BY <2>1, <2>2
  <1> QED
    BY <1>5, <1>6, <1>7 DEF LogoInv

\* Linking a logo makes it the last and, unless two overlapped, the only one;
\* another kind takes the logo from its own asset at most.
LEMMA LinkStep ==
    ASSUME Files!AssetsAssumption, LogoInv, NEW r \in Requests, Files!Link(r)
    PROVE  LogoInv'
  <1> DEFINE kind == req[r].kind
             asset == req[r].asset
  <1>1. /\ RequestOK(req[r]) /\ req[r].pc = "link" /\ asset \in assets
        /\ asset \in 1..MaxAssets
    BY DEF LogoInv, FilesOK, LinkRowsOK, Files!Link
  <1>2. /\ req' = [q \in Requests |-> req'[q]]
        /\ req'[r] = [req[r] EXCEPT !.pc = "answer"]
        /\ \A q \in Requests : q # r => req'[q] = req[q]
    BY DEF LogoInv, FilesOK, Files!Link
  <1>3. RequestOK(req'[r]) /\ req'[r].pc = "answer"
    BY <1>1, <1>2 DEF RequestOK
  <1>4. /\ links' = [a \in 1..MaxAssets |-> links'[a]] /\ links'[asset] = kind
        /\ \A a \in 1..MaxAssets : a # asset => links'[a] = links[a]
    BY <1>1 DEF LogoInv, FilesOK, Files!Link
  <1>5. FilesOK'
    <2>1. UNCHANGED <<assets, used>>
      BY DEF Files!Link
    <2> QED
      BY <1>2, <1>3, <1>4, <2>1 DEF LogoInv, FilesOK
  <1>6. LinkRowsOK'
    BY <1>1, <1>2, <1>3, <1>4 DEF LogoInv, LinkRowsOK, Files!Link
  <1>7. LinkedOK'
    <2>0. /\ assets' = assets /\ assets \subseteq 1..MaxAssets /\ mixed' = mixed
          /\ None \notin assets
      BY DEF Files!Link, LogoInv, FilesOK, Files!AssetsAssumption
    <2>1. CASE kind = "logo"
      <3>1. last' = asset /\ Files!Linked("logo")' = Files!Linked("logo") \cup {asset}
        BY <1>1, <1>4, <2>0, <2>1 DEF Files!Linked, Files!Link
      <3>2. /\ Files!Linking("logo")' = Files!Linking("logo") \ {r}
            /\ r \in Files!Linking("logo")
        BY <1>1, <1>2, <1>3, <2>1 DEF Files!Linking
      <3>3. ~mixed => Files!Linked("logo") = {} /\ Files!Linking("logo")' = {}
        BY <3>2 DEF LinkedOK, LogoInv
      <3> QED
        BY <1>1, <2>0, <3>1, <3>3 DEF LinkedOK
    <2>2. CASE kind # "logo"
      <3>1. /\ last' = IF last = asset THEN None ELSE last
            /\ Files!Linked("logo")' = Files!Linked("logo") \ {asset}
        BY <1>1, <1>4, <2>0, <2>2 DEF Files!Linked, Files!Link
      <3>2. Files!Linking("logo")' = Files!Linking("logo")
        <4> SUFFICES ASSUME NEW q \in Requests
                     PROVE  (req'[q].pc = "link" /\ req'[q].kind = "logo")
                            <=> (req[q].pc = "link" /\ req[q].kind = "logo")
          BY DEF Files!Linking
        <4> QED
          BY <1>2, <1>3, <2>2
      <3> QED
        BY <2>0, <3>1, <3>2 DEF LinkedOK, LogoInv
    <2> QED
      BY <2>1, <2>2
  <1> QED
    BY <1>5, <1>6, <1>7 DEF LogoInv

-----------------------------------------------------------------------------
(* The theorem. *)

LEMMA LogoInit == Files!AssetsAssumption /\ Files!Init => LogoInv
  <1> SUFFICES ASSUME Files!AssetsAssumption, Files!Init PROVE LogoInv
    OBVIOUS
  <1>1. RequestOK(Files!NoReq) /\ Files!NoReq.pc = "idle"
    BY DEF RequestOK, Files!NoReq
  <1>2. FilesOK
    BY <1>1 DEF Files!Init, FilesOK
  <1>3. LinkRowsOK
    BY <1>1 DEF Files!Init, LinkRowsOK
  <1>4. LinkedOK
    BY <1>1 DEF Files!Init, LinkedOK, Files!Linked, Files!Linking
  <1> QED
    BY <1>2, <1>3, <1>4 DEF LogoInv

LEMMA LogoStep == Files!AssetsAssumption /\ LogoInv /\ [Files!Next]_(Files!vars) => LogoInv'
  <1> SUFFICES ASSUME Files!AssetsAssumption, LogoInv, [Files!Next]_(Files!vars)
               PROVE  LogoInv'
    OBVIOUS
  <1> USE DEF LogoInv
  <1>1. ASSUME NEW r \in Requests, Files!SendFile(r) PROVE LogoInv'
    BY <1>1, UploadStep DEF Files!SendFile
  <1>2. ASSUME NEW r \in Requests, Files!ChangeLogo(r) PROVE LogoInv'
    BY <1>2, UploadStep DEF Files!ChangeLogo
  <1>3. ASSUME NEW r \in Requests, Files!Put(r) PROVE LogoInv'
    <2>1. Files!Linked("logo")' = Files!Linked("logo") /\ assets' \subseteq 1..MaxAssets
      BY <1>3 DEF Files!Put, Files!Linked, FilesOK
    <2> QED
      BY <1>3, <2>1, FileMoves DEF Files!Put
  <1>4. ASSUME NEW r \in Requests, Files!Insert(r) PROVE LogoInv'
    <2>1. req[r].asset \in 1..MaxAssets
      BY <1>4 DEF Files!Insert, FilesOK, RequestOK
    <2>2. Files!Linked("logo")' = Files!Linked("logo") /\ assets' \subseteq 1..MaxAssets
      BY <1>4, <2>1 DEF Files!Insert, Files!Linked, FilesOK, LinkRowsOK
    <2> QED
      BY <1>4, <2>2, FileMoves DEF Files!Insert
  <1>5. ASSUME NEW r \in Requests, Files!Find(r) PROVE LogoInv'
    <2>1. Files!Linked("logo")' = Files!Linked("logo") /\ assets' \subseteq 1..MaxAssets
      BY <1>5 DEF Files!Find, Files!Linked, FilesOK
    <2>2. CASE req[r].asset \notin assets
      BY <1>5, <2>2, FileEnds DEF Files!Find
    <2>3. CASE req[r].asset \in assets
      <3> DEFINE pc == IF req[r].kind \in Exclusive THEN "unlink" ELSE "link"
      <3>1. req' = [req EXCEPT ![r].pc = pc] /\ req[r].pc # "idle"
            /\ UNCHANGED <<assets, links, used, last, mixed>>
        BY <1>5, <2>3 DEF Files!Find
      <3>2. pc = "link" => req[r].kind # "logo"
        BY DEF Files!AssetsAssumption
      <3> HIDE DEF pc
      <3> QED
        BY <2>1, <2>3, <3>1, <3>2, FileMoves
    <2> QED
      BY <2>2, <2>3
  <1>6. ASSUME NEW r \in Requests, Files!Unlink(r) PROVE LogoInv'
    BY <1>6, UnlinkStep
  <1>7. ASSUME NEW r \in Requests, Files!Link(r) PROVE LogoInv'
    BY <1>7, LinkStep
  <1>8. ASSUME NEW r \in Requests, Files!Fail(r) \/ Files!Answered(r) PROVE LogoInv'
    BY <1>8, FileEnds DEF Files!Fail, Files!Answered
  <1>9. ASSUME NEW r \in Requests, NEW a \in 1..MaxAssets, NEW kind \in Kinds,
               Files!AskLink(r, a, kind)
        PROVE  LogoInv'
    <2> DEFINE next == [pc |-> "find", asset |-> a, kind |-> kind, page |-> FALSE]
    <2>1. RequestOK(next) /\ next.pc = "find"
      BY DEF RequestOK
    <2>2. req' = [req EXCEPT ![r] = next] /\ UNCHANGED <<assets, links, last, mixed>>
      BY <1>9 DEF Files!AskLink
    <2>3. used'.files \in Nat
      BY <1>9 DEF Files!AskLink, FilesOK
    <2>4. Files!Linked("logo")' = Files!Linked("logo") /\ assets' \subseteq 1..MaxAssets
      BY <2>2 DEF Files!Linked, FilesOK
    <2> HIDE DEF next
    <2> QED
      BY <2>1, <2>2, <2>3, <2>4, FileQuiet
  <1>10. CASE Files!OpenPage
    <2>1. req' = [r \in Requests |-> [req[r] EXCEPT !.page = FALSE]]
          /\ UNCHANGED <<assets, links, used, last, mixed>>
      BY <1>10 DEF Files!OpenPage
    <2>2. ASSUME NEW r \in Requests
          PROVE  /\ RequestOK(req'[r]) /\ req'[r].pc = req[r].pc
                 /\ req'[r].asset = req[r].asset /\ req'[r].kind = req[r].kind
      <3>1. RequestOK(req[r])
        BY DEF FilesOK
      <3> QED
        BY <2>1, <3>1 DEF RequestOK
    <2>3. FilesOK'
      BY <2>1, <2>2 DEF FilesOK
    <2>4. LinkRowsOK'
      BY <2>1, <2>2 DEF LinkRowsOK
    <2>5. /\ Files!Linked("logo")' = Files!Linked("logo")
          /\ Files!Linking("logo")' = Files!Linking("logo")
      BY <2>1, <2>2 DEF Files!Linked, Files!Linking
    <2> QED
      BY <2>1, <2>3, <2>4, <2>5 DEF LinkedOK
  <1>11. CASE UNCHANGED Files!vars
    BY <1>11 DEF Files!vars, FilesOK, LinkRowsOK, LinkedOK, Files!Linked, Files!Linking
  <1> QED
    BY <1>1, <1>2, <1>3, <1>4, <1>5, <1>6, <1>7, <1>8, <1>9, <1>10, <1>11 DEF Files!Next

\* The logo a business has is the one linked last, for any number of requests
\* and files, though the old one is unlinked in a statement of its own
\* (assets.service.ts:194-210).
THEOREM LogoIsLast ==
    /\ Files!Spec => []Files!LogoIsTheLastLinked
    /\ ServerSpec => []LogoIsTheLastLinked
  <1> USE ServerAssumption
  <1>1. Files!Init => LogoInv
    BY LogoInit
  <1>2. LogoInv /\ [Files!Next]_(Files!vars) => LogoInv'
    BY LogoStep
  <1>3. LogoInv => Files!LogoIsTheLastLinked
    BY InvImpliesLogo
  <1>4. Files!Spec => []Files!LogoIsTheLastLinked
    BY <1>1, <1>2, <1>3, PTL DEF Files!Spec
  <1>5. ServerSpec => []LogoIsTheLastLinked
    <2> DEFINE Inv == part = "assets" => LogoInv
    <2>1. ServerInit => Inv
      BY <1>1 DEF ServerInit
    <2>2. Inv /\ [ServerNext]_ServerVars => Inv'
      BY <1>2, FilesMoves
    <2>3. Inv => LogoIsTheLastLinked
      BY <1>3 DEF LogoIsTheLastLinked
    <2> QED
      BY <2>1, <2>2, <2>3, PTL DEF ServerSpec
  <1> QED
    BY <1>4, <1>5

-----------------------------------------------------------------------------
(* Files, kinds and the page *)

\* A row is of an object in R2; a request answers for a row, and the page's links one.
ObjectsOK ==
    /\ assets \subseteq objects /\ objects \subseteq 1..MaxAssets
    /\ \A r \in Requests : req[r].pc = "insert" => req[r].asset \in objects
    /\ \A r \in Requests : req[r].pc = "answer" => req[r].asset \in assets
    /\ \A r \in Requests : req[r].pc = "find" /\ req[r].page = TRUE => req[r].asset \in assets

\* Only rows are linked, with the kinds there are.
KindsOK ==
    /\ \A r \in Requests : req[r].kind \in Kinds \cup {"none"}
    /\ \A a \in 1..MaxAssets : links[a] \in Kinds \cup {"none"}
    /\ \A a \in 1..MaxAssets : links[a] # "none" => a \in assets
    /\ mixed \in BOOLEAN

\* The page has one logo on its way at most, and then its button is off.
ScreenOK ==
    /\ shown = [logo |-> shown.logo, uploading |-> shown.uploading]
    /\ shown.logo \in assets \cup {None}
    /\ shown.uploading \in BOOLEAN
    /\ \A r \in Requests : req[r].page \in BOOLEAN
    /\ \A r \in Requests : req[r].page = TRUE => req[r].pc # "idle" /\ shown.uploading = TRUE
    /\ \A r, q \in Requests : req[r].page = TRUE /\ req[q].page = TRUE => r = q
    /\ shown.uploading = TRUE => \E r \in Requests : req[r].page = TRUE

FilesInv == LogoInv /\ ObjectsOK /\ KindsOK /\ ScreenOK

\* What a request is after its step, and that the others stay.
Becomes(r, pc, asset, kind, flag) ==
    /\ req'[r].pc = pc /\ req'[r].asset = asset /\ req'[r].kind = kind /\ req'[r].page = flag
    /\ \A q \in Requests \ {r} : req'[q] = req[q]

LEMMA BecomesNext ==
    ASSUME LogoInv, NEW r \in Requests, NEW pc, req' = [req EXCEPT ![r].pc = pc]
    PROVE  Becomes(r, pc, req[r].asset, req[r].kind, req[r].page)
  <1>1. RequestOK(req[r])
    BY DEF LogoInv, FilesOK
  <1>2. req'[r] = [req[r] EXCEPT !.pc = pc] /\ \A q \in Requests \ {r} : req'[q] = req[q]
    BY DEF LogoInv, FilesOK
  <1> QED
    BY <1>1, <1>2 DEF Becomes, RequestOK

LEMMA BecomesNew ==
    ASSUME LogoInv, NEW r \in Requests, NEW pc, NEW asset, NEW kind, NEW flag,
           req' = [req EXCEPT ![r] = [pc |-> pc, asset |-> asset, kind |-> kind, page |-> flag]]
    PROVE  Becomes(r, pc, asset, kind, flag)
  BY DEF LogoInv, FilesOK, Becomes

LEMMA BecomesIdle ==
    ASSUME LogoInv, NEW r \in Requests, req' = [req EXCEPT ![r] = Files!NoReq]
    PROVE  Becomes(r, "idle", None, "none", FALSE)
  BY BecomesNew DEF Files!NoReq

\* A step of a request that the page does not hear of.
LEMMA ScreenStays ==
    ASSUME ScreenOK, NEW r \in Requests, NEW pc, NEW asset, NEW kind,
           Becomes(r, pc, asset, kind, req[r].page), pc # "idle" \/ req[r].page = FALSE,
           assets \subseteq assets', UNCHANGED shown
    PROVE  ScreenOK'
  <1>1. \A q \in Requests : /\ req'[q].page = req[q].page
                            /\ req[q].pc # "idle" /\ q # r => req'[q].pc # "idle"
    BY DEF Becomes
  <1> QED
    BY <1>1 DEF ScreenOK, Becomes

\* A request that ends: if it is the page's, the button is on again.
LEMMA ScreenHears ==
    ASSUME ScreenOK, NEW r \in Requests, NEW logo,
           Becomes(r, "idle", None, "none", FALSE), assets' = assets,
           req[r].page = FALSE => shown' = shown,
           req[r].page = TRUE =>
              /\ shown' = [logo |-> shown'.logo, uploading |-> shown'.uploading]
              /\ shown'.logo = logo /\ shown'.uploading = FALSE,
           logo \in assets \cup {None}
    PROVE  ScreenOK'
  <1>1. CASE req[r].page = TRUE
    <2>1. \A q \in Requests : req'[q].page = FALSE
      BY <1>1 DEF ScreenOK, Becomes
    <2>2. /\ shown' = [logo |-> shown'.logo, uploading |-> shown'.uploading]
          /\ shown'.logo = logo /\ shown'.uploading = FALSE
      BY <1>1
    <2> QED
      BY <2>1, <2>2 DEF ScreenOK
  <1>2. CASE req[r].page = FALSE
    BY <1>2, ScreenStays
  <1> QED
    BY <1>1, <1>2 DEF ScreenOK

LEMMA FilesBegin == Files!AssetsAssumption /\ Files!Init => FilesInv
  <1> SUFFICES ASSUME Files!AssetsAssumption, Files!Init PROVE FilesInv
    OBVIOUS
  <1>1. \A r \in Requests : /\ req[r].pc = "idle" /\ req[r].kind = "none"
                            /\ req[r].page = FALSE
    BY DEF Files!Init, Files!NoReq
  <1>2. shown = [logo |-> shown.logo, uploading |-> shown.uploading]
        /\ shown.logo = None /\ shown.uploading = FALSE
    BY DEF Files!Init
  <1>3. ScreenOK
    BY <1>1, <1>2 DEF ScreenOK
  <1>4. ObjectsOK /\ KindsOK
    BY <1>1 DEF Files!Init, ObjectsOK, KindsOK
  <1> QED
    BY <1>3, <1>4, LogoInit DEF FilesInv

\* A request that begins: what is in R2, in the table and linked stays.
LEMMA BeginsFile ==
    ASSUME FilesInv, NEW r \in Requests, NEW pc \in {"put", "find"}, NEW asset,
           NEW kind \in Kinds \cup {"none"}, NEW flag, pc = "find" => flag = FALSE,
           Becomes(r, pc, asset, kind, flag),
           UNCHANGED <<objects, assets, links, mixed>>
    PROVE  ObjectsOK' /\ KindsOK'
  BY DEF FilesInv, ObjectsOK, KindsOK, Becomes

LEMMA FilesKeep ==
    Files!AssetsAssumption /\ FilesInv /\ [Files!Next]_(Files!vars) => FilesInv'
  <1> SUFFICES ASSUME Files!AssetsAssumption, FilesInv, [Files!Next]_(Files!vars)
               PROVE  ObjectsOK' /\ KindsOK' /\ ScreenOK'
    BY LogoStep DEF FilesInv
  <1> USE DEF FilesInv
  <1>1. ASSUME NEW r \in Requests, Files!SendFile(r)
        PROVE  ObjectsOK' /\ KindsOK' /\ ScreenOK'
    <2>1. PICK kind \in {"none", "logo"} : Files!Upload(r, kind, FALSE)
      BY <1>1 DEF Files!SendFile
    <2>2. Becomes(r, "put", used.files + 1, kind, FALSE) /\ req[r].pc = "idle"
      BY <2>1, BecomesNew DEF Files!Upload
    <2>3. req[r].page = FALSE
      BY <2>2 DEF ScreenOK
    <2> QED
      BY <1>1, <2>2, <2>3, BeginsFile, ScreenStays
         DEF Files!SendFile, Files!AssetsAssumption
  <1>2. ASSUME NEW r \in Requests, Files!ChangeLogo(r)
        PROVE  ObjectsOK' /\ KindsOK' /\ ScreenOK'
    <2>1. Becomes(r, "put", used.files + 1, "logo", TRUE)
      BY <1>2, BecomesNew DEF Files!ChangeLogo, Files!Upload
    <2>2. ObjectsOK' /\ KindsOK'
      BY <1>2, <2>1, BeginsFile DEF Files!ChangeLogo, Files!AssetsAssumption
    <2>3. shown.uploading = FALSE
      BY <1>2 DEF Files!ChangeLogo, ScreenOK
    <2>4. \A q \in Requests : req[q].page = FALSE
      BY <2>3 DEF ScreenOK
    <2>5. /\ shown' = [logo |-> shown'.logo, uploading |-> shown'.uploading]
          /\ shown'.logo = shown.logo /\ shown'.uploading = TRUE /\ assets' = assets
      BY <1>2 DEF Files!ChangeLogo, ScreenOK
    <2>6. /\ req'[r].page = TRUE /\ req'[r].pc = "put"
          /\ \A q \in Requests : q # r => req'[q].page = FALSE
      BY <2>1, <2>4 DEF Becomes
    <2>7. ScreenOK'
      BY <2>5, <2>6 DEF ScreenOK
    <2> QED
      BY <2>2, <2>7
  <1>3. ASSUME NEW r \in Requests, Files!Put(r) PROVE ObjectsOK' /\ KindsOK' /\ ScreenOK'
    <2>1. Becomes(r, "insert", req[r].asset, req[r].kind, req[r].page)
      BY <1>3, BecomesNext DEF Files!Put
    <2>2. req[r].asset \in 1..MaxAssets
      BY <1>3 DEF Files!Put, LogoInv, FilesOK, RequestOK
    <2>3. ObjectsOK' /\ KindsOK'
      BY <1>3, <2>1, <2>2 DEF Files!Put, ObjectsOK, KindsOK, Becomes
    <2> QED
      BY <1>3, <2>1, <2>3, ScreenStays DEF Files!Put
  <1>4. ASSUME NEW r \in Requests, Files!Insert(r)
        PROVE  ObjectsOK' /\ KindsOK' /\ ScreenOK'
    <2>1. PICK pc \in {"answer", "find"} : req' = [req EXCEPT ![r].pc = pc]
      BY <1>4 DEF Files!Insert
    <2>2. Becomes(r, pc, req[r].asset, req[r].kind, req[r].page)
      BY <2>1, BecomesNext
    <2>3. ObjectsOK' /\ KindsOK'
      BY <1>4, <2>2 DEF Files!Insert, ObjectsOK, KindsOK, Becomes
    <2> QED
      BY <1>4, <2>2, <2>3, ScreenStays DEF Files!Insert
  <1>5. ASSUME NEW r \in Requests, Files!Find(r), req[r].asset \in assets
        PROVE  ObjectsOK' /\ KindsOK' /\ ScreenOK'
    <2>1. PICK pc \in {"unlink", "link"} : req' = [req EXCEPT ![r].pc = pc]
      BY <1>5 DEF Files!Find
    <2>2. Becomes(r, pc, req[r].asset, req[r].kind, req[r].page)
      BY <2>1, BecomesNext
    <2>3. ObjectsOK' /\ KindsOK'
      BY <1>5, <2>2 DEF Files!Find, ObjectsOK, KindsOK, Becomes
    <2> QED
      BY <1>5, <2>2, <2>3, ScreenStays DEF Files!Find
  <1>6. ASSUME NEW r \in Requests, Files!Unlink(r)
        PROVE  ObjectsOK' /\ KindsOK' /\ ScreenOK'
    <2>1. Becomes(r, "link", req[r].asset, req[r].kind, req[r].page)
      BY <1>6, BecomesNext DEF Files!Unlink
    <2>2. ObjectsOK'
      BY <1>6, <2>1 DEF Files!Unlink, ObjectsOK, Becomes
    <2>3. /\ links' = [a \in 1..MaxAssets |-> IF links[a] = req[r].kind THEN "none" ELSE links[a]]
          /\ mixed' \in BOOLEAN /\ assets' = assets
      BY <1>6 DEF Files!Unlink, LogoInv, FilesOK, KindsOK
    <2>4. KindsOK'
      BY <2>1, <2>3 DEF KindsOK, Becomes
    <2> QED
      BY <1>6, <2>1, <2>2, <2>4, ScreenStays DEF Files!Unlink
  <1>7. ASSUME NEW r \in Requests, Files!Link(r) PROVE ObjectsOK' /\ KindsOK' /\ ScreenOK'
    <2>1. Becomes(r, "answer", req[r].asset, req[r].kind, req[r].page)
      BY <1>7, BecomesNext DEF Files!Link
    <2>2. req[r].asset \in assets
      BY <1>7 DEF Files!Link, LogoInv, LinkRowsOK
    <2>3. ObjectsOK'
      BY <1>7, <2>1, <2>2 DEF Files!Link, ObjectsOK, Becomes
    <2>4. /\ \A a \in 1..MaxAssets :
                links'[a] = links[a] \/ (a \in assets /\ links'[a] = req[r].kind)
          /\ mixed' = mixed /\ assets' = assets
      BY <1>7, <2>2 DEF Files!Link, LogoInv, FilesOK
    <2>5. KindsOK'
      BY <2>1, <2>4 DEF KindsOK, Becomes
    <2> QED
      BY <1>7, <2>1, <2>3, <2>5, ScreenStays DEF Files!Link
  <1>8. ASSUME NEW r \in Requests, req' = [req EXCEPT ![r] = Files!NoReq],
               UNCHANGED <<objects, assets, links, mixed>>
        PROVE  ObjectsOK' /\ KindsOK' /\ Becomes(r, "idle", None, "none", FALSE)
    <2>1. Becomes(r, "idle", None, "none", FALSE)
      BY <1>8, BecomesIdle
    <2> QED
      BY <1>8, <2>1 DEF ObjectsOK, KindsOK, Becomes
  <1>9. ASSUME NEW r \in Requests, Files!Find(r), req[r].asset \notin assets
        PROVE  ObjectsOK' /\ KindsOK' /\ ScreenOK'
    <2>1. req' = [req EXCEPT ![r] = Files!NoReq] /\ req[r].pc = "find"
          /\ UNCHANGED <<objects, assets, links, mixed, shown>>
      BY <1>9 DEF Files!Find
    <2>2. ObjectsOK' /\ KindsOK' /\ Becomes(r, "idle", None, "none", FALSE)
      BY <1>8, <2>1
    <2>3. req[r].page = FALSE
      BY <1>9, <2>1 DEF ObjectsOK, ScreenOK
    <2> QED
      BY <2>1, <2>2, <2>3, ScreenHears DEF ScreenOK
  <1>10. ASSUME NEW r \in Requests, Files!Fail(r)
         PROVE  ObjectsOK' /\ KindsOK' /\ ScreenOK'
    <2>1. req[r].page = TRUE =>
              /\ shown' = [logo |-> shown'.logo, uploading |-> shown'.uploading]
              /\ shown'.logo = shown.logo /\ shown'.uploading = FALSE
      BY <1>10 DEF Files!Fail, ScreenOK
    <2>2. req[r].page = FALSE => shown' = shown
      BY <1>10 DEF Files!Fail
    <2>3. shown.logo \in assets \cup {None} /\ assets' = assets
      BY <1>10 DEF ScreenOK, Files!Fail
    <2> QED
      BY <1>8, <1>10, <2>1, <2>2, <2>3, ScreenHears DEF Files!Fail
  <1>11. ASSUME NEW r \in Requests, Files!Answered(r)
         PROVE  ObjectsOK' /\ KindsOK' /\ ScreenOK'
    <2>1. req[r].asset \in assets
      BY <1>11 DEF Files!Answered, ObjectsOK
    <2>2. req[r].page = TRUE =>
              /\ shown' = [logo |-> shown'.logo, uploading |-> shown'.uploading]
              /\ shown'.logo = req[r].asset /\ shown'.uploading = FALSE
      BY <1>11 DEF Files!Answered
    <2>3. req[r].page = FALSE => shown' = shown
      BY <1>11 DEF Files!Answered
    <2> QED
      BY <1>8, <1>11, <2>1, <2>2, <2>3, ScreenHears DEF Files!Answered
  <1>12. ASSUME NEW r \in Requests, NEW a \in 1..MaxAssets, NEW kind \in Kinds,
                Files!AskLink(r, a, kind)
        PROVE  ObjectsOK' /\ KindsOK' /\ ScreenOK'
    <2>1. Becomes(r, "find", a, kind, FALSE) /\ req[r].pc = "idle"
      BY <1>12, BecomesNew DEF Files!AskLink
    <2>2. req[r].page = FALSE
      BY <2>1 DEF ScreenOK
    <2> QED
      BY <1>12, <2>1, <2>2, BeginsFile, ScreenStays DEF Files!AskLink
  <1>13. CASE Files!OpenPage
    <2>1. \A r \in Requests : /\ req'[r].pc = req[r].pc /\ req'[r].asset = req[r].asset
                              /\ req'[r].kind = req[r].kind /\ req'[r].page = FALSE
      BY <1>13 DEF Files!OpenPage, LogoInv, FilesOK, RequestOK
    <2>2. PICK logo \in {Files!Logo, None} : shown' = [logo |-> logo, uploading |-> FALSE]
      BY <1>13 DEF Files!OpenPage
    <2>3. logo \in assets \cup {None}
      <3>1. /\ Files!Linked("logo") \in SUBSET (1..MaxAssets)
            /\ Files!Linked("logo") \subseteq assets
        BY DEF Files!Linked, LogoInv, FilesOK
      <3> QED
        BY <3>1, MaxIsMember DEF Files!Logo, Files!AssetsAssumption
    <2>4. /\ shown' = [logo |-> shown'.logo, uploading |-> shown'.uploading]
          /\ shown'.logo = logo /\ shown'.uploading = FALSE
      BY <2>2
    <2>5. UNCHANGED <<objects, assets, links, mixed>>
      BY <1>13 DEF Files!OpenPage
    <2> QED
      BY <2>1, <2>3, <2>4, <2>5 DEF ObjectsOK, KindsOK, ScreenOK
  <1>14. CASE UNCHANGED Files!vars
    BY <1>14 DEF Files!vars, ObjectsOK, KindsOK, ScreenOK
  <1> QED
    BY <1>1, <1>2, <1>3, <1>4, <1>5, <1>6, <1>7, <1>9, <1>10, <1>11, <1>12, <1>13, <1>14
       DEF Files!Next

\* The files, the kinds and what the page shows keep their types.
LEMMA FilesTyped == ServerSpec => [](part = "assets" => Files!TypeOK)
  <1> USE ServerAssumption
  <1>1. Files!Init => FilesInv
    BY FilesBegin
  <1>2. FilesInv /\ [Files!Next]_(Files!vars) => FilesInv'
    BY FilesKeep
  <1>3. FilesInv => Files!TypeOK
    <2> SUFFICES ASSUME FilesInv PROVE Files!TypeOK
      OBVIOUS
    <2>1. last \in assets \cup {None}
      BY DEF FilesInv, LogoInv, LinkedOK, Files!Linked
    <2>2. shown.uploading <=> \E r \in Requests : req[r].page
      BY DEF FilesInv, ScreenOK
    <2> QED
      BY <2>1, <2>2 DEF FilesInv, ObjectsOK, KindsOK, ScreenOK, Files!TypeOK
  <1> DEFINE Inv == part = "assets" => FilesInv
  <1>4. ServerInit => Inv
    BY <1>1 DEF ServerInit
  <1>5. Inv /\ [ServerNext]_ServerVars => Inv'
    BY <1>2, FilesMoves
  <1>6. Inv => (part = "assets" => Files!TypeOK)
    BY <1>3
  <1> QED
    BY <1>4, <1>5, <1>6, PTL DEF ServerSpec

-----------------------------------------------------------------------------
(* Passwords and their sessions (PasswordReset) *)

AskFields == {"op", "pc", "about", "of"}

\* Each request is a record of its fields.
RequestsOK ==
    /\ req = [r \in Requests |-> req[r]]
    /\ \A r \in Requests : AskFields \subseteq DOMAIN req[r]

\* A request that goes back to a password that is gone and will insert a session
\* was overtaken by a revocation, renews an excused session, or is itself
\* followed by a revocation that is still to come.
StaleIsExcused ==
    \A q \in Requests :
        req[q].pc \in {"cut", "open"} /\ req[q].of # password =>
            \/ q \in late
            \/ req[q].op = "refresh" /\ req[q].about \in excused
            \/ \E r \in Requests : Reset!Closing(r)

ExcusedInv == RequestsOK /\ StaleIsExcused /\ Reset!OldSessionsAreExcused

-----------------------------------------------------------------------------
\* A step of the server is a step of this part or none, if the part is in play.
LEMMA ResetMoves ==
    ASSUME [ServerNext]_ServerVars, part' = "passwords"
    PROVE  part = "passwords" /\ [Reset!Next]_(Reset!vars)
  <1>1. CASE UNCHANGED ServerVars
    BY <1>1 DEF ServerVars, Reset!vars
  <1>2. CASE ServerNext
    BY <1>2
       DEF ServerNext, ClientsStep, JobStep, QueryStep, ListsStep, FilesStep, ResetStep,
           RecordsStep
  <1> QED
    BY <1>1, <1>2

\* The step of one request.
Turns(r, next) ==
    /\ req' = [q \in Requests |-> req'[q]]
    /\ req'[r] = next
    /\ \A q \in Requests \ {r} : req'[q] = req[q]

LEMMA RequestTurns ==
    ASSUME RequestsOK, NEW r \in Requests, NEW next, req' = [req EXCEPT ![r] = next]
    PROVE  Turns(r, next)
  BY DEF RequestsOK, Turns

LEMMA RequestGoesOn ==
    ASSUME RequestsOK, NEW r \in Requests, NEW pc, req' = [req EXCEPT ![r].pc = pc]
    PROVE  LET next == [req[r] EXCEPT !.pc = pc]
           IN  /\ Turns(r, next) /\ AskFields \subseteq DOMAIN next
               /\ next.pc = pc /\ next.op = req[r].op
               /\ next.about = req[r].about /\ next.of = req[r].of
  BY DEF RequestsOK, Turns, AskFields

\* Requests that have not begun.
LEMMA NoRequest == AskFields \subseteq DOMAIN Reset!NoReq /\ Reset!NoReq.pc = "idle"
  BY DEF Reset!NoReq, AskFields

LEMMA InitExcused == Reset!Init => ExcusedInv
  BY NoRequest
     DEF Reset!Init, ExcusedInv, RequestsOK, StaleIsExcused, Reset!OldSessionsAreExcused

\* A request that revokes nothing and sets no password adds a session only with
\* its excuse, and begins or goes on with one.
LEMMA ExcusesStand ==
    ASSUME ExcusedInv, NEW r \in Requests, NEW next, Turns(r, next),
           AskFields \subseteq DOMAIN next, password' = password,
           excused \subseteq excused', late \ {r} \subseteq late',
           Reset!Closing(r) => next.pc \in {"mark", "revoke"},
           \A s \in open' : s \in open \/ s.of = password \/ s.id \in excused'
                              \/ \E q \in Requests \ {r} : Reset!Closing(q),
           next.pc \in {"cut", "open"} /\ next.of # password =>
               \/ r \in late'
               \/ next.op = "refresh" /\ next.about \in excused'
               \/ \E q \in Requests \ {r} : Reset!Closing(q)
    PROVE  ExcusedInv'
  <1>1. RequestsOK'
    BY DEF ExcusedInv, RequestsOK, Turns
  <1>2. \A q \in Requests : Reset!Closing(q) => Reset!Closing(q)'
    BY DEF Turns, Reset!Closing
  <1>3. Reset!OldSessionsAreExcused'
    BY <1>2 DEF ExcusedInv, Reset!OldSessionsAreExcused
  <1>4. StaleIsExcused'
    <2>1. ASSUME NEW q \in Requests, q # r
          PROVE  req'[q].pc \in {"cut", "open"} /\ req'[q].of # password =>
                    \/ q \in late'
                    \/ req'[q].op = "refresh" /\ req'[q].about \in excused'
                    \/ \E p \in Requests : Reset!Closing(p)'
      <3>1. req'[q] = req[q]
        BY <2>1 DEF Turns
      <3> QED
        BY <1>2, <2>1, <3>1 DEF ExcusedInv, StaleIsExcused
    <2>2. req'[r].pc \in {"cut", "open"} /\ req'[r].of # password =>
                    \/ r \in late'
                    \/ req'[r].op = "refresh" /\ req'[r].about \in excused'
                    \/ \E p \in Requests : Reset!Closing(p)'
      BY <1>2 DEF Turns
    <2> QED
      BY <2>1, <2>2 DEF StaleIsExcused
  <1> QED
    BY <1>1, <1>3, <1>4 DEF ExcusedInv

\* The steps that touch no request.
LEMMA FormSteps ==
    ASSUME ExcusedInv, Reset!OtherStep \/ Reset!Expire \/ Reset!ReloadForm
    PROVE  ExcusedInv'
  BY DEF ExcusedInv, RequestsOK, StaleIsExcused, Reset!OldSessionsAreExcused,
         Reset!Closing, Reset!OtherStep, Reset!Expire, Reset!ReloadForm

\* The steps with which a request starts. A refresh goes back to the password of
\* the session it renews, which is open, and a profile edit that goes back to a
\* password that is gone is one of the late.
LEMMA StartSteps ==
    ASSUME ExcusedInv, NEW r \in Requests, NEW code,
           \/ Reset!Forgot(r) \/ Reset!Reset(r, code) \/ Reset!Change(r) \/ Reset!SignIn(r)
           \/ Reset!Refresh(r) \/ Reset!Profile(r)
    PROVE  ExcusedInv'
  <1>1. PICK op, pc, about, of :
          /\ Reset!Begin(r, op, pc, about, of)
          /\ pc \in {"cut", "open"} /\ of # password =>
                \/ r \in late'
                \/ op = "refresh" /\ about \in excused
                \/ \E q \in Requests : Reset!Closing(q)
    <2>1. CASE Reset!Forgot(r) \/ Reset!Reset(r, code) \/ Reset!Change(r) \/ Reset!SignIn(r)
      BY <2>1 DEF Reset!Forgot, Reset!Reset, Reset!Change, Reset!SignIn
    <2>2. CASE Reset!Refresh(r)
      <3>1. PICK s \in open : Reset!Begin(r, "refresh", "open", s.id, s.of)
        BY <2>2 DEF Reset!Refresh
      <3> QED
        BY <3>1 DEF ExcusedInv, Reset!OldSessionsAreExcused
    <2>3. CASE Reset!Profile(r)
      BY <2>3 DEF Reset!Profile
    <2> QED
      BY <2>1, <2>2, <2>3
  <1>2. UNCHANGED <<password, open, excused>> /\ late \subseteq late'
    BY DEF Reset!Forgot, Reset!Reset, Reset!Change, Reset!SignIn, Reset!Refresh,
           Reset!Profile
  <1> DEFINE next == [op |-> op, pc |-> pc, about |-> about, of |-> of]
  <1>3. /\ AskFields \subseteq DOMAIN next
        /\ next.op = op /\ next.pc = pc /\ next.about = about /\ next.of = of
    BY DEF AskFields
  <1>4. Turns(r, next) /\ ~Reset!Closing(r)
    BY <1>1, RequestTurns DEF ExcusedInv, Reset!Begin, Reset!Closing
  <1> HIDE DEF next
  <1> QED
    BY <1>1, <1>2, <1>3, <1>4, ExcusesStand

\* A new password leaves its request to revoke the sessions.
LEMMA PasswordSteps ==
    ASSUME ExcusedInv, NEW r \in Requests, Reset!SetPassword(r)
    PROVE  ExcusedInv'
  <1>1. PICK pc \in {"mark", "revoke"} : req' = [req EXCEPT ![r].pc = pc]
    BY DEF Reset!SetPassword
  <1> DEFINE next == [req[r] EXCEPT !.pc = pc]
  <1>2. Turns(r, next) /\ AskFields \subseteq DOMAIN next /\ next.pc = pc
    BY <1>1, RequestGoesOn DEF ExcusedInv
  <1> HIDE DEF next
  <1>3. RequestsOK' /\ Reset!Closing(r)'
    BY <1>2 DEF ExcusedInv, RequestsOK, Turns, Reset!Closing
  <1> QED
    BY <1>3 DEF ExcusedInv, StaleIsExcused, Reset!OldSessionsAreExcused

\* The steps within a request that revoke nothing but the session it renews.
LEMMA MiddleSteps ==
    ASSUME ExcusedInv, NEW r \in Requests, Reset!Mark(r) \/ Reset!Cut(r)
    PROVE  ExcusedInv'
  <1>1. PICK pc : /\ req' = [req EXCEPT ![r].pc = pc]
                  /\ Reset!Mark(r) => pc = "revoke"
                  /\ Reset!Cut(r) => pc = "open" /\ req[r].pc = "cut"
    BY DEF Reset!Mark, Reset!Cut
  <1> DEFINE next == [req[r] EXCEPT !.pc = pc]
  <1>2. /\ Turns(r, next) /\ AskFields \subseteq DOMAIN next
        /\ next.pc = pc /\ next.op = req[r].op
        /\ next.about = req[r].about /\ next.of = req[r].of
    BY <1>1, RequestGoesOn DEF ExcusedInv
  <1> HIDE DEF next
  <1>3. UNCHANGED <<password, excused, late>> /\ open' \subseteq open
    BY DEF Reset!Mark, Reset!Cut
  <1>4. Reset!Closing(r) => next.pc \in {"mark", "revoke"}
    BY <1>1, <1>2 DEF Reset!Closing
  <1>5. next.pc \in {"cut", "open"} /\ next.of # password =>
            \/ r \in late'
            \/ next.op = "refresh" /\ next.about \in excused'
            \/ \E q \in Requests \ {r} : Reset!Closing(q)
    <2>1. CASE Reset!Mark(r)
      BY <1>1, <1>2, <2>1
    <2>2. CASE Reset!Cut(r)
      BY <1>1, <1>2, <1>3, <2>2 DEF ExcusedInv, StaleIsExcused, Reset!Closing
    <2> QED
      BY <2>1, <2>2
  <1> QED
    BY <1>2, <1>3, <1>4, <1>5, ExcusesStand

\* The request ends. One that was to revoke the sessions did, or failed and
\* excuses every session there is; the requests past their check are the late.
LEMMA LastSteps ==
    ASSUME ExcusedInv, NEW r \in Requests,
           Reset!Mail(r) \/ Reset!Revoke(r) \/ Reset!Rotate(r) \/ Reset!Fail(r)
    PROVE  ExcusedInv'
  <1>1. Turns(r, Reset!NoReq)
    BY RequestTurns
       DEF ExcusedInv, Reset!Mail, Reset!Revoke, Reset!Rotate, Reset!Fail
  <1>2. password' = password
    BY DEF Reset!Mail, Reset!Revoke, Reset!Rotate, Reset!Fail
  <1>3. CASE ~Reset!Closing(r)
    <2>1. open' \subseteq open /\ excused \subseteq excused' /\ late \ {r} \subseteq late'
      BY <1>3 DEF Reset!Mail, Reset!Revoke, Reset!Rotate, Reset!Fail, Reset!Closing
    <2> QED
      BY <1>1, <1>2, <1>3, <2>1, NoRequest, ExcusesStand
  <1>4. CASE Reset!Closing(r)
    <2>1. RequestsOK'
      BY <1>1, NoRequest DEF ExcusedInv, RequestsOK, Turns
    <2>2. StaleIsExcused'
      <3>1. \A q \in Requests : q # r /\ req[q].pc \in {"cut", "open"} => q \in late'
        BY <1>4 DEF Reset!Mail, Reset!Revoke, Reset!Rotate, Reset!Fail, Reset!Closing,
                    Reset!Checked
      <3>2. \A q \in Requests : q # r => req'[q] = req[q]
        BY <1>1 DEF Turns
      <3>3. req'[r].pc = "idle"
        BY <1>1, NoRequest DEF Turns
      <3> QED
        BY <3>1, <3>2, <3>3 DEF StaleIsExcused
    <2>3. \A s \in open' : s.id \in excused'
      BY <1>4 DEF Reset!Mail, Reset!Revoke, Reset!Rotate, Reset!Fail, Reset!Closing,
                  Reset!OpenIds
    <2> QED
      BY <2>1, <2>2, <2>3 DEF ExcusedInv, Reset!OldSessionsAreExcused
  <1> QED
    BY <1>3, <1>4

\* A session that goes back to a password that is gone has the excuse of the
\* request that inserts it.
LEMMA OpenStep ==
    ASSUME ExcusedInv, NEW r \in Requests, Reset!OpenSession(r)
    PROVE  ExcusedInv'
  <1> DEFINE new == [id |-> opened + 1, of |-> req[r].of]
  <1>1. /\ open' = open \cup {new} /\ password' = password
        /\ excused \subseteq excused' /\ late' = late \ {r} /\ req[r].pc = "open"
        /\ (r \in late \/ (req[r].op = "refresh" /\ req[r].about \in excused)
              => opened + 1 \in excused')
    BY DEF Reset!OpenSession
  <1>2. new.id = opened + 1 /\ new.of = req[r].of /\ ~Reset!Closing(r)
    BY <1>1 DEF Reset!Closing
  <1> HIDE DEF new
  <1>3. \/ new.of = password \/ new.id \in excused'
        \/ \E q \in Requests \ {r} : Reset!Closing(q)
    BY <1>1, <1>2 DEF ExcusedInv, StaleIsExcused
  <1>4. PICK next : /\ Turns(r, next) /\ AskFields \subseteq DOMAIN next
                    /\ next.pc \in {"rotate", "idle"}
    <2>1. CASE req[r].op = "refresh"
      <3> DEFINE going == [req[r] EXCEPT !.pc = "rotate"]
      <3>1. req' = [req EXCEPT ![r].pc = "rotate"]
        BY <2>1 DEF Reset!OpenSession
      <3>2. Turns(r, going) /\ AskFields \subseteq DOMAIN going /\ going.pc = "rotate"
        BY <3>1, RequestGoesOn DEF ExcusedInv
      <3> HIDE DEF going
      <3> QED
        BY <3>2
    <2>2. CASE req[r].op # "refresh"
      BY <2>2, RequestTurns, NoRequest DEF ExcusedInv, Reset!OpenSession
    <2> QED
      BY <2>1, <2>2
  <1> QED
    BY <1>1, <1>2, <1>3, <1>4, ExcusesStand

LEMMA ExcusedStep == ExcusedInv /\ [Reset!Next]_(Reset!vars) => ExcusedInv'
  <1> SUFFICES ASSUME ExcusedInv, [Reset!Next]_(Reset!vars) PROVE ExcusedInv'
    OBVIOUS
  <1>1. CASE Reset!OtherStep \/ Reset!Expire \/ Reset!ReloadForm
    BY <1>1, FormSteps
  <1>2. ASSUME NEW r \in Requests,
               \/ Reset!Forgot(r) \/ Reset!Change(r) \/ Reset!SignIn(r)
               \/ Reset!Refresh(r) \/ Reset!Profile(r)
        PROVE  ExcusedInv'
    BY <1>2, StartSteps
  <1>3. ASSUME NEW r \in Requests, NEW code \in 1..MaxCodes, Reset!Reset(r, code)
        PROVE  ExcusedInv'
    BY <1>3, StartSteps
  <1>4. ASSUME NEW r \in Requests, Reset!SetPassword(r)
        PROVE  ExcusedInv'
    BY <1>4, PasswordSteps
  <1>5. ASSUME NEW r \in Requests, Reset!Mark(r) \/ Reset!Cut(r)
        PROVE  ExcusedInv'
    BY <1>5, MiddleSteps
  <1>6. ASSUME NEW r \in Requests,
               Reset!Mail(r) \/ Reset!Revoke(r) \/ Reset!Rotate(r) \/ Reset!Fail(r)
        PROVE  ExcusedInv'
    BY <1>6, LastSteps
  <1>7. ASSUME NEW r \in Requests, Reset!OpenSession(r)
        PROVE  ExcusedInv'
    BY <1>7, OpenStep
  <1>8. CASE UNCHANGED Reset!vars
    BY <1>8
       DEF Reset!vars, ExcusedInv, RequestsOK, StaleIsExcused,
           Reset!OldSessionsAreExcused, Reset!Closing
  <1> QED
    BY <1>1, <1>2, <1>3, <1>4, <1>5, <1>6, <1>7, <1>8 DEF Reset!Next

\* However many requests interleave and fail, no session outlives the password
\* it was opened with but for the causes the property names: the sessions issued
\* past a check that a revocation overtook, those of an access token from
\* before, those left by a failure, and those that renew one of these.
THEOREM OldSessionsExcused ==
    /\ Reset!Spec => []Reset!OldSessionsAreExcused
    /\ ServerSpec => []OldSessionsAreExcused
  <1> USE ServerAssumption
  <1>1. Reset!Init => ExcusedInv
    BY InitExcused
  <1>2. ExcusedInv /\ [Reset!Next]_(Reset!vars) => ExcusedInv'
    BY ExcusedStep
  <1>3. ExcusedInv => Reset!OldSessionsAreExcused
    BY DEF ExcusedInv
  <1>4. Reset!Spec => []Reset!OldSessionsAreExcused
    BY <1>1, <1>2, <1>3, PTL DEF Reset!Spec
  <1>5. ServerSpec => []OldSessionsAreExcused
    <2> DEFINE Inv == part = "passwords" => ExcusedInv
    <2>1. ServerInit => Inv
      BY <1>1 DEF ServerInit
    <2>2. Inv /\ [ServerNext]_ServerVars => Inv'
      BY <1>2, ResetMoves
    <2>3. Inv => OldSessionsAreExcused
      BY <1>3 DEF OldSessionsAreExcused
    <2> QED
      BY <2>1, <2>2, <2>3, PTL DEF ServerSpec
  <1> QED
    BY <1>4, <1>5

-----------------------------------------------------------------------------
(* Codes, sessions and the form *)

\* A request that mails or uses a code has one that was issued.
AskOK(q, issued) ==
    /\ AskFields \subseteq DOMAIN q
    /\ q.pc \in {"mail", "mark"} => q.about \in issued
    /\ q.pc = "set" /\ q.op = "reset" => q.about \in issued
    /\ q.pc \in {"cut", "open", "rotate"} => q.op \in {"login", "refresh", "profile"}
    /\ q.pc \in {"cut", "open"} => q.of \in 1..MaxPasswords

CodesOK ==
    /\ codes = [rows |-> codes.rows, used |-> codes.used, expired |-> codes.expired]
    /\ \E n \in 0..MaxCodes : codes.rows = 1..n
    /\ codes.used \subseteq codes.rows /\ codes.expired \subseteq codes.rows
    /\ inbox \subseteq codes.rows
    /\ req = [r \in Requests |-> req[r]]
    /\ \A r \in Requests : AskOK(req[r], codes.rows)

SessionsOK ==
    /\ password \in 1..MaxPasswords /\ opened \in Nat
    /\ \A s \in open : s.id \in 1..opened /\ s.of \in 1..MaxPasswords
    /\ excused \subseteq 1..opened
    /\ access \subseteq 1..MaxPasswords /\ late \subseteq Requests

\* The form waits for a request it sent that has not ended.
FormOK ==
    /\ form = [step |-> form.step, waits |-> form.waits]
    /\ form.step \in {"forgot", "reset"}
    /\ form.waits # Nobody => /\ form.waits \in Requests
                              /\ req[form.waits].pc # "idle"
                              /\ req[form.waits].op \in {"forgot", "reset"}

PasswordsInv == CodesOK /\ SessionsOK /\ FormOK

LEMMA TurnsNew ==
    ASSUME CodesOK, NEW r \in Requests, NEW next, req' = [req EXCEPT ![r] = next]
    PROVE  Turns(r, next)
  BY DEF CodesOK, Turns

LEMMA TurnsNext ==
    ASSUME CodesOK, NEW r \in Requests, NEW pc, req' = [req EXCEPT ![r].pc = pc]
    PROVE  LET next == [req[r] EXCEPT !.pc = pc]
           IN  /\ Turns(r, next) /\ AskFields \subseteq DOMAIN next
               /\ next.pc = pc /\ next.op = req[r].op /\ next.about = req[r].about
               /\ next.of = req[r].of
  <1>1. AskOK(req[r], codes.rows)
    BY DEF CodesOK
  <1>2. Turns(r, [req[r] EXCEPT !.pc = pc])
    BY DEF CodesOK, Turns
  <1> QED
    BY <1>1, <1>2 DEF AskOK, AskFields

LEMMA AskOfNone ==
    /\ AskFields \subseteq DOMAIN Reset!NoReq /\ Reset!NoReq.pc = "idle"
    /\ \A issued : AskOK(Reset!NoReq, issued)
  BY DEF Reset!NoReq, AskFields, AskOK

\* The first of some codes is one of them.
LEMMA MinIsMember ==
    ASSUME NEW S \in SUBSET Nat, S # {} PROVE Reset!Min(S) \in S
  <1> DEFINE Less == OpToRel(<, Nat)
  <1>1. PICK t \in S : \A u \in S : <<u, t>> \notin Less
    <2>1. IsWellFoundedOn(Less, Nat)
      BY NatLessThanWellFounded
    <2> HIDE DEF Less
    <2> QED
      BY <2>1, WFMin
  <1>2. ASSUME NEW b \in S PROVE t <= b
    <2>1. b \in Nat /\ t \in Nat
      OBVIOUS
    <2>2. ~(b < t)
      BY <1>1, <2>1 DEF OpToRel
    <2> QED
      BY <2>1, <2>2
  <1> QED
    BY <1>2 DEF Reset!Min

\* The cardinality of the module that is instanced is the one of the library.
LEMMA ResetCardinality == \A S : Reset!Cardinality(S) = Cardinality(S)
  BY DEF Reset!Cardinality, Cardinality

\* Codes are numbered from one.
LEMMA CodesAreNumbered ==
    ASSUME Reset!PasswordResetAssumption, CodesOK,
           Reset!Cardinality(codes.rows) < MaxCodes
    PROVE  LET n == Reset!Cardinality(codes.rows)
           IN  n \in Nat /\ n + 1 \in 1..MaxCodes /\ codes.rows = 1..n
                 /\ codes.rows \cup {n + 1} = 1..(n + 1)
  <1>1. PICK n \in 0..MaxCodes : codes.rows = 1..n
    BY DEF CodesOK
  <1>2. Reset!Cardinality(1..n) = n
    BY <1>1, FS_Interval, ResetCardinality DEF Reset!PasswordResetAssumption
  <1> QED
    BY <1>1, <1>2 DEF Reset!PasswordResetAssumption

\* The table of codes after a step that issues none.
LEMMA SameCodes ==
    ASSUME CodesOK, NEW r \in Requests, NEW next, Turns(r, next),
           AskOK(next, codes.rows), UNCHANGED codes, inbox' \subseteq codes.rows
    PROVE  CodesOK'
  BY DEF CodesOK, Turns

\* The form after the step of a request that it may wait for.
LEMMA FormGoesOn ==
    ASSUME FormOK, NEW r \in Requests, NEW next, Turns(r, next), UNCHANGED form,
           next.pc # "idle" /\ next.op = req[r].op
    PROVE  FormOK'
  BY DEF FormOK, Turns

\* The form after the end of a request it hears of.
LEMMA FormHears ==
    ASSUME FormOK, NEW r \in Requests, NEW step \in {"forgot", "reset"},
           Turns(r, Reset!NoReq),
           form' = Reset!Heard(r, step)
    PROVE  FormOK'
  <1>1. CASE form.waits = r
    <2>1. /\ form' = [step |-> form'.step, waits |-> form'.waits]
          /\ form'.step = step /\ form'.waits = Nobody
      BY <1>1 DEF Reset!Heard
    <2> QED
      BY <2>1 DEF FormOK
  <1>2. CASE form.waits # r
    BY <1>2 DEF FormOK, Turns, Reset!Heard
  <1> QED
    BY <1>1, <1>2

LEMMA PasswordsInit == Reset!PasswordResetAssumption /\ Reset!Init => PasswordsInv
  <1> SUFFICES ASSUME Reset!PasswordResetAssumption, Reset!Init PROVE PasswordsInv
    OBVIOUS
  <1>1. 0 \in 0..MaxCodes /\ 1..0 = {}
    BY DEF Reset!PasswordResetAssumption
  <1>2. CodesOK
    BY <1>1, AskOfNone DEF Reset!Init, CodesOK
  <1>3. SessionsOK
    BY DEF Reset!Init, SessionsOK, Reset!PasswordResetAssumption
  <1>4. FormOK
    BY DEF Reset!Init, FormOK
  <1> QED
    BY <1>2, <1>3, <1>4 DEF PasswordsInv

\* The requests that begin: a new code, a new password or a session to be.
LEMMA BeginKeeps ==
    ASSUME Reset!PasswordResetAssumption, PasswordsInv, NEW r \in Requests, NEW code,
           \/ Reset!Forgot(r) \/ Reset!Reset(r, code) \/ Reset!Change(r) \/ Reset!SignIn(r)
           \/ Reset!Refresh(r) \/ Reset!Profile(r)
    PROVE  PasswordsInv'
  <1> USE DEF PasswordsInv
  <1>1. PICK op, pc, c, of : Reset!Begin(r, op, pc, c, of)
    BY DEF Reset!Forgot, Reset!Reset, Reset!Change, Reset!SignIn, Reset!Refresh,
           Reset!Profile
  <1>2. req[r].pc = "idle"
    BY <1>1 DEF Reset!Begin
  <1>3. SessionsOK'
    BY DEF Reset!Forgot, Reset!Reset, Reset!Change, Reset!SignIn, Reset!Refresh,
           Reset!Profile, SessionsOK
  <1>4. CASE Reset!Forgot(r)
    <2> DEFINE n == Reset!Cardinality(codes.rows)
               next == [op |-> "forgot", pc |-> "mail", about |-> n + 1, of |-> 0]
    <2>1. n < MaxCodes /\ Turns(r, next)
      BY <1>4, TurnsNew DEF Reset!Forgot, Reset!Begin
    <2>2. /\ next.pc = "mail" /\ next.op = "forgot" /\ next.about = n + 1
          /\ AskFields \subseteq DOMAIN next
      BY DEF AskFields
    <2> HIDE DEF next
    <2>3. /\ n \in Nat /\ n + 1 \in 1..MaxCodes /\ codes.rows = 1..n
          /\ codes.rows \cup {n + 1} = 1..(n + 1)
      BY <2>1, CodesAreNumbered
    <2>4. /\ codes' = [rows |-> codes'.rows, used |-> codes'.used, expired |-> codes'.expired]
          /\ codes'.rows = codes.rows \cup {n + 1}
          /\ codes'.used = codes.used /\ codes'.expired = codes.expired /\ inbox' = inbox
      BY <1>4 DEF Reset!Forgot, CodesOK
    <2> HIDE DEF n
    <2>5. AskOK(next, codes'.rows)
      BY <2>2, <2>4 DEF AskOK
    <2>6. \A q \in Requests : AskOK(req'[q], codes'.rows)
      BY <2>1, <2>4, <2>5 DEF CodesOK, AskOK, Turns
    <2>7. n + 1 \in 0..MaxCodes
      BY <2>3
    <2>8. CodesOK'
      BY <2>1, <2>3, <2>4, <2>6, <2>7 DEF CodesOK, Turns
    <2>9. FormOK'
      <3>1. /\ form' = [step |-> form'.step, waits |-> form'.waits]
            /\ form'.step = form.step /\ form'.waits = r
        BY <1>4 DEF Reset!Forgot, FormOK
      <3> QED
        BY <2>1, <2>2, <3>1 DEF FormOK, Turns
    <2> QED
      BY <1>3, <2>8, <2>9
  <1>5. CASE Reset!Reset(r, code)
    <2> DEFINE next == [op |-> "reset", pc |-> "set", about |-> code, of |-> 0]
    <2>1. Turns(r, next) /\ code \in inbox /\ UNCHANGED <<codes, inbox>>
      BY <1>5, TurnsNew DEF Reset!Reset, Reset!Begin
    <2>2. /\ next.pc = "set" /\ next.op = "reset" /\ next.about = code
          /\ AskFields \subseteq DOMAIN next
      BY DEF AskFields
    <2> HIDE DEF next
    <2>3. CodesOK'
      BY <2>1, <2>2, SameCodes DEF CodesOK, AskOK
    <2>4. FormOK'
      <3>1. /\ form' = [step |-> form'.step, waits |-> form'.waits]
            /\ form'.step = form.step /\ form'.waits = r
        BY <1>5 DEF Reset!Reset, FormOK
      <3> QED
        BY <2>1, <2>2, <3>1 DEF FormOK, Turns
    <2> QED
      BY <1>3, <2>3, <2>4
  <1>6. CASE Reset!Change(r) \/ Reset!SignIn(r) \/ Reset!Refresh(r) \/ Reset!Profile(r)
    <2>1. PICK nop, npc, nabout, nof :
            /\ Reset!Begin(r, nop, npc, nabout, nof)
            /\ nop \in {"change", "login", "refresh", "profile"}
            /\ npc \in {"set", "open", "cut"} /\ (npc = "set" <=> nop = "change")
            /\ nof \in 1..MaxPasswords
      BY <1>6 DEF Reset!Change, Reset!SignIn, Reset!Refresh, Reset!Profile, SessionsOK
    <2> DEFINE next == [op |-> nop, pc |-> npc, about |-> nabout, of |-> nof]
    <2>2. Turns(r, next)
      BY <2>1, TurnsNew DEF Reset!Begin
    <2>3. /\ next.pc = npc /\ next.op = nop /\ next.of = nof
          /\ AskFields \subseteq DOMAIN next
      BY DEF AskFields
    <2> HIDE DEF next
    <2>4. UNCHANGED <<codes, inbox, form>>
      BY <1>6 DEF Reset!Change, Reset!SignIn, Reset!Refresh, Reset!Profile
    <2>5. CodesOK'
      BY <2>1, <2>2, <2>3, <2>4, SameCodes DEF CodesOK, AskOK
    <2>6. FormOK'
      BY <1>2, <2>2, <2>4 DEF FormOK, Turns
    <2> QED
      BY <1>3, <2>5, <2>6
  <1> QED
    BY <1>4, <1>5, <1>6

\* The steps within a request.
LEMMA MiddleKeeps ==
    ASSUME Reset!PasswordResetAssumption, PasswordsInv, NEW r \in Requests,
           Reset!SetPassword(r) \/ Reset!Mark(r) \/ Reset!Cut(r)
    PROVE  PasswordsInv'
  <1> USE DEF PasswordsInv
  <1>1. AskOK(req[r], codes.rows)
    BY DEF CodesOK
  <1>2. CASE Reset!SetPassword(r)
    <2>0. PICK to \in {"mark", "revoke"} :
            /\ req' = [req EXCEPT ![r].pc = to]
            /\ to = "mark" => req[r].op = "reset"
      BY <1>2 DEF Reset!SetPassword
    <2> DEFINE next == [req[r] EXCEPT !.pc = to]
    <2>1. /\ Turns(r, next) /\ AskFields \subseteq DOMAIN next
          /\ next.pc = to /\ next.op = req[r].op /\ next.about = req[r].about
      BY <2>0, TurnsNext
    <2> HIDE DEF next
    <2>2. AskOK(next, codes.rows)
      BY <1>1, <1>2, <2>0, <2>1 DEF AskOK, Reset!SetPassword
    <2>3. CodesOK'
      BY <1>2, <2>1, <2>2, SameCodes DEF Reset!SetPassword, CodesOK
    <2>4. FormOK'
      BY <1>2, <2>0, <2>1, FormGoesOn DEF Reset!SetPassword
    <2>5. SessionsOK'
      BY <1>2 DEF Reset!SetPassword, SessionsOK, Reset!PasswordResetAssumption
    <2> QED
      BY <2>3, <2>4, <2>5
  <1>3. CASE Reset!Mark(r)
    <2> DEFINE next == [req[r] EXCEPT !.pc = "revoke"]
    <2>1. /\ Turns(r, next) /\ AskFields \subseteq DOMAIN next
          /\ next.pc = "revoke" /\ next.op = req[r].op /\ next.about = req[r].about
      BY <1>3, TurnsNext DEF Reset!Mark
    <2> HIDE DEF next
    <2>2. req[r].about \in codes.rows /\ AskOK(next, codes.rows)
      BY <1>1, <1>3, <2>1 DEF AskOK, Reset!Mark
    <2>3. /\ codes' = [rows |-> codes'.rows, used |-> codes'.used, expired |-> codes'.expired]
          /\ codes'.rows = codes.rows /\ codes'.expired = codes.expired
          /\ codes'.used = codes.used \cup {req[r].about} /\ inbox' = inbox
      BY <1>3 DEF Reset!Mark, CodesOK
    <2>4. CodesOK'
      BY <2>1, <2>2, <2>3 DEF CodesOK, Turns
    <2>5. FormOK'
      BY <1>3, <2>1, FormGoesOn DEF Reset!Mark
    <2>6. SessionsOK'
      BY <1>3 DEF Reset!Mark, SessionsOK
    <2> QED
      BY <2>4, <2>5, <2>6
  <1>4. CASE Reset!Cut(r)
    <2> DEFINE next == [req[r] EXCEPT !.pc = "open"]
    <2>1. /\ Turns(r, next) /\ AskFields \subseteq DOMAIN next
          /\ next.pc = "open" /\ next.op = req[r].op /\ next.of = req[r].of
      BY <1>4, TurnsNext DEF Reset!Cut
    <2> HIDE DEF next
    <2>2. AskOK(next, codes.rows)
      BY <1>1, <1>4, <2>1 DEF AskOK, Reset!Cut
    <2>3. CodesOK'
      BY <1>4, <2>1, <2>2, SameCodes DEF Reset!Cut, CodesOK
    <2>4. FormOK'
      BY <1>4, <2>1, FormGoesOn DEF Reset!Cut
    <2>5. SessionsOK'
      BY <1>4 DEF Reset!Cut, SessionsOK
    <2> QED
      BY <2>3, <2>4, <2>5
  <1> QED
    BY <1>2, <1>3, <1>4

\* The ends of a request.
LEMMA EndKeeps ==
    ASSUME PasswordsInv, NEW r \in Requests,
           Reset!Mail(r) \/ Reset!Revoke(r) \/ Reset!Fail(r)
    PROVE  PasswordsInv'
  <1> USE DEF PasswordsInv
  <1>1. /\ AskOK(req[r], codes.rows) /\ req' = [req EXCEPT ![r] = Reset!NoReq]
        /\ UNCHANGED codes
    BY DEF CodesOK, Reset!Mail, Reset!Revoke, Reset!Fail
  <1>2. Turns(r, Reset!NoReq)
    BY <1>1, TurnsNew
  <1>3. inbox' \subseteq codes.rows
    BY <1>1 DEF CodesOK, AskOK, Reset!Mail, Reset!Revoke, Reset!Fail
  <1>4. CodesOK'
    BY <1>1, <1>2, <1>3, AskOfNone, SameCodes
  <1>5. FormOK'
    <2>1. PICK step \in {"forgot", "reset"} : form' = Reset!Heard(r, step)
      BY DEF Reset!Mail, Reset!Revoke, Reset!Fail, FormOK
    <2> QED
      BY <1>2, <2>1, FormHears
  <1>6. SessionsOK'
    BY DEF Reset!Mail, Reset!Revoke, Reset!Fail, SessionsOK, Reset!OpenIds, Reset!Checked
  <1> QED
    BY <1>4, <1>5, <1>6

\* The steps of a request whose answer is a session: no form waits for it.
LEMMA SessionKeeps ==
    ASSUME PasswordsInv, NEW r \in Requests, Reset!OpenSession(r) \/ Reset!Rotate(r)
    PROVE  PasswordsInv'
  <1> USE DEF PasswordsInv
  <1>1. /\ AskOK(req[r], codes.rows) /\ req[r].pc \in {"open", "rotate"}
        /\ req[r].op \in {"login", "refresh", "profile"}
        /\ UNCHANGED <<codes, inbox, form>>
    BY DEF CodesOK, AskOK, Reset!OpenSession, Reset!Rotate
  <1>2. PICK next : Turns(r, next) /\ AskOK(next, codes.rows)
    <2>1. CASE Reset!OpenSession(r) /\ req[r].op = "refresh"
      <3> DEFINE going == [req[r] EXCEPT !.pc = "rotate"]
      <3>1. req' = [req EXCEPT ![r].pc = "rotate"]
        BY <2>1 DEF Reset!OpenSession
      <3>2. /\ Turns(r, going) /\ AskFields \subseteq DOMAIN going
            /\ going.pc = "rotate" /\ going.op = "refresh"
        BY <2>1, <3>1, TurnsNext
      <3> HIDE DEF going
      <3> QED
        BY <3>2 DEF AskOK
    <2>2. CASE Reset!Rotate(r) \/ req[r].op # "refresh"
      <3>1. req' = [req EXCEPT ![r] = Reset!NoReq]
        BY <2>2 DEF Reset!OpenSession, Reset!Rotate
      <3> QED
        BY <3>1, TurnsNew, AskOfNone
    <2> QED
      BY <2>1, <2>2
  <1>3. CodesOK'
    BY <1>1, <1>2, SameCodes DEF CodesOK
  <1>4. FormOK'
    <2>1. form.waits # Nobody => form.waits \in Requests \ {r}
      BY <1>1 DEF FormOK
    <2> QED
      BY <1>1, <1>2, <2>1 DEF FormOK, Turns
  <1>5. SessionsOK'
    <2>1. CASE Reset!OpenSession(r)
      <3>1. /\ opened' = opened + 1 /\ opened' \in Nat /\ 1..opened \subseteq 1..opened'
            /\ opened + 1 \in 1..opened'
        BY <2>1 DEF Reset!OpenSession, SessionsOK
      <3>2. req[r].of \in 1..MaxPasswords
        BY <1>1, <2>1 DEF AskOK, Reset!OpenSession
      <3>3. \A s \in open' : s.id \in 1..opened' /\ s.of \in 1..MaxPasswords
        BY <2>1, <3>1, <3>2 DEF Reset!OpenSession, SessionsOK
      <3>4. /\ excused' \subseteq 1..opened' /\ password' = password
            /\ access' \subseteq 1..MaxPasswords /\ late' \subseteq Requests
        BY <2>1, <3>1, <3>2 DEF Reset!OpenSession, SessionsOK
      <3> QED
        BY <3>1, <3>3, <3>4 DEF SessionsOK
    <2>2. CASE Reset!Rotate(r)
      BY <2>2 DEF Reset!Rotate, SessionsOK
    <2> QED
      BY <2>1, <2>2
  <1> QED
    BY <1>3, <1>4, <1>5

\* The steps of no request.
LEMMA AsideKeeps ==
    ASSUME Reset!PasswordResetAssumption, PasswordsInv,
           Reset!OtherStep \/ Reset!Expire \/ Reset!ReloadForm
    PROVE  PasswordsInv'
  <1> USE DEF PasswordsInv
  <1>1. CASE Reset!OtherStep
    <2>1. /\ form' = [step |-> form'.step, waits |-> form'.waits]
          /\ form'.step \in {"forgot", "reset"} /\ form'.waits = Nobody
      BY <1>1 DEF Reset!OtherStep, FormOK
    <2> QED
      BY <1>1, <2>1 DEF Reset!OtherStep, CodesOK, SessionsOK, FormOK
  <1>2. CASE Reset!ReloadForm
    BY <1>2 DEF Reset!ReloadForm, CodesOK, SessionsOK, FormOK
  <1>3. CASE Reset!Expire
    <2> DEFINE left == codes.rows \ codes.expired
    <2>1. left # {} /\ left \in SUBSET Nat
      BY <1>3 DEF Reset!Expire, CodesOK
    <2>2. Reset!Min(left) \in codes.rows
      BY <2>1, MinIsMember
    <2>3. /\ codes' = [rows |-> codes'.rows, used |-> codes'.used, expired |-> codes'.expired]
          /\ codes'.rows = codes.rows /\ codes'.used = codes.used
          /\ codes'.expired = codes.expired \cup {Reset!Min(left)}
      BY <1>3 DEF Reset!Expire, CodesOK
    <2> HIDE DEF left
    <2>4. UNCHANGED <<req, inbox, password, opened, open, access, late, excused, form>>
      BY <1>3 DEF Reset!Expire
    <2> QED
      BY <2>2, <2>3, <2>4 DEF CodesOK, SessionsOK, FormOK
  <1> QED
    BY <1>1, <1>2, <1>3

\* The codes, the sessions and the form keep their types.
LEMMA ResetTyped == ServerSpec => [](part = "passwords" => Reset!TypeOK)
  <1> USE ServerAssumption
  <1>1. Reset!Init => PasswordsInv
    BY PasswordsInit
  <1>2. PasswordsInv /\ [Reset!Next]_(Reset!vars) => PasswordsInv'
    <2> SUFFICES ASSUME PasswordsInv, [Reset!Next]_(Reset!vars) PROVE PasswordsInv'
      OBVIOUS
    <2>1. ASSUME NEW r \in Requests,
                 \/ Reset!Forgot(r) \/ Reset!Change(r) \/ Reset!SignIn(r)
                 \/ Reset!Refresh(r) \/ Reset!Profile(r)
          PROVE  PasswordsInv'
      BY <2>1, BeginKeeps
    <2>2. ASSUME NEW r \in Requests, NEW code \in 1..MaxCodes, Reset!Reset(r, code)
          PROVE  PasswordsInv'
      BY <2>2, BeginKeeps
    <2>3. CASE UNCHANGED Reset!vars
      BY <2>3 DEF Reset!vars, PasswordsInv, CodesOK, SessionsOK, FormOK
    <2> QED
      BY <2>1, <2>2, <2>3, MiddleKeeps, EndKeeps, SessionKeeps, AsideKeeps
         DEF Reset!Next
  <1>3. PasswordsInv => Reset!TypeOK
    <2> SUFFICES ASSUME PasswordsInv PROVE Reset!TypeOK
      OBVIOUS
    <2>1. codes.rows \subseteq 1..MaxCodes
      BY DEF PasswordsInv, CodesOK, Reset!PasswordResetAssumption
    <2>2. Reset!OpenIds \subseteq 1..opened
      BY DEF PasswordsInv, SessionsOK, Reset!OpenIds
    <2> QED
      BY <2>1, <2>2 DEF PasswordsInv, CodesOK, SessionsOK, FormOK, Reset!TypeOK
  <1> DEFINE Inv == part = "passwords" => PasswordsInv
  <1>4. ServerInit => Inv
    BY <1>1 DEF ServerInit
  <1>5. Inv /\ [ServerNext]_ServerVars => Inv'
    BY <1>2, ResetMoves
  <1>6. Inv => (part = "passwords" => Reset!TypeOK)
    BY <1>3
  <1> QED
    BY <1>4, <1>5, <1>6, PTL DEF ServerSpec

-----------------------------------------------------------------------------
(* The records of the catalogue and their trail (Catalogue) *)

-----------------------------------------------------------------------------
(* Records and their trail *)

RecordFields == {"pc", "op", "id", "says", "old", "list"}

\* A record has, a request is about, and a list is of records there are.
RecordRequestOK(q, count) ==
    /\ RecordFields \subseteq DOMAIN q
    /\ q.pc \in {"write", "log", "deactivate"} => q.id \in 1..count
    /\ q.list \subseteq 1..count

RecordsOK ==
    /\ made \in 1..MaxRecords /\ changes \in 0..MaxChanges
    /\ rows = [i \in 1..MaxRecords |-> rows[i]]
    /\ \A i \in 1..MaxRecords : rows[i] = [says |-> rows[i].says, active |-> rows[i].active]
    /\ req = [r \in Requests |-> req[r]]
    /\ \A r \in Requests : RecordRequestOK(req[r], made)
    /\ page = [items |-> page.items, form |-> page.form]
    /\ page.items \subseteq 1..made
    /\ \A l \in trail : l.id \in 1..made

\* One addition at a time, and a form for each record that was added.
FormsOK ==
    /\ \A r, q \in Records!Adding : r = q
    /\ page.form \in 1..made
    /\ \A r \in Records!Adding : req[r].pc \in {"log", "answer"} => page.form < made
    /\ \A r \in Records!Adding : req[r].pc \notin {"write", "deactivate"}

\* A record says it, or said it: it is in the trail, or about to be, or failed to.
AccountedIn(lines, unwritten, requests, i, says) ==
    \/ says = 0
    \/ \E l \in lines : l.id = i /\ l.new = says
    \/ says \in unwritten
    \/ \E r \in Requests :
          requests[r].pc = "log" /\ requests[r].id = i /\ requests[r].says = says

Accounted(i, says) == AccountedIn(trail, failed, req, i, says)

AccountedNext(i, says) == AccountedIn(trail', failed', req', i, says)

\* What a record says, and what was overwritten, is accounted for.
TrailOK ==
    /\ \A i \in 1..made : Accounted(i, rows[i].says)
    /\ \A r \in Requests : req[r].pc = "log" /\ req[r].says \notin crossed
                              => Accounted(req[r].id, req[r].old.says)
    /\ \A r \in Requests : req[r].pc = "insert" => req[r].old.says = 0
    /\ \A l \in trail : l.new \notin crossed => Accounted(l.id, l.old)

TrailInv == RecordsOK /\ FormsOK /\ TrailOK

-----------------------------------------------------------------------------

\* The step of one request.
RecordSteps(r, next) ==
    /\ req' = [q \in Requests |-> req'[q]]
    /\ req'[r] = next
    /\ \A q \in Requests \ {r} : req'[q] = req[q]
\* A step of the server is a step of this part or none, if the part is in play.
LEMMA RecordsMoves ==
    ASSUME [ServerNext]_ServerVars, part' = "catalogue"
    PROVE  part = "catalogue" /\ [Records!Next]_(Records!vars)
  <1>1. CASE UNCHANGED ServerVars
    BY <1>1 DEF ServerVars, Records!vars
  <1>2. CASE ServerNext
    BY <1>2
       DEF ServerNext, ClientsStep, JobStep, QueryStep, ListsStep, FilesStep, ResetStep,
           RecordsStep
  <1> QED
    BY <1>1, <1>2

\* A request takes a step: the others stay as they were.
LEMMA RecordRequests ==
    ASSUME RecordsOK, NEW r \in Requests, NEW next, RecordSteps(r, next),
           made' \in Nat, made <= made', RecordRequestOK(next, made')
    PROVE  /\ req' = [q \in Requests |-> req'[q]]
           /\ \A q \in Requests : RecordRequestOK(req'[q], made')
  <1>1. 1..made \subseteq 1..made'
    BY DEF RecordsOK
  <1>2. ASSUME NEW q \in Requests \ {r} PROVE RecordRequestOK(req'[q], made')
    <2>1. RecordRequestOK(req[q], made) /\ req'[q] = req[q]
      BY DEF RecordsOK, RecordSteps
    <2> QED
      BY <1>1, <2>1 DEF RecordRequestOK
  <1> QED
    BY <1>2 DEF RecordSteps

\* What a request is after the statements that assign it.
LEMMA RecordBegins ==
    ASSUME RecordsOK, NEW r \in Requests, NEW next, req' = [req EXCEPT ![r] = next]
    PROVE  RecordSteps(r, next)
  BY DEF RecordsOK, RecordSteps

LEMMA RecordMovesOn ==
    ASSUME RecordsOK, NEW r \in Requests, NEW pc, req' = [req EXCEPT ![r].pc = pc]
    PROVE  RecordSteps(r, [req[r] EXCEPT !.pc = pc])
  BY DEF RecordsOK, RecordSteps

\* What is accounted for stays so, if a request that was to write it in the
\* trail still is, or did, or failed.
LEMMA StaysAccounted ==
    ASSUME NEW i, NEW says, Accounted(i, says), trail \subseteq trail',
           failed \subseteq failed',
           \A q \in Requests : req[q].pc = "log" =>
              \/ req'[q].pc = "log" /\ req'[q].id = req[q].id /\ req'[q].says = req[q].says
              \/ \E l \in trail' : l.id = req[q].id /\ l.new = req[q].says
              \/ req[q].says \in failed'
    PROVE  AccountedNext(i, says)
  BY DEF Accounted, AccountedNext, AccountedIn

\* A request that is not about to write in the trail takes a step, and still is
\* not: no record says anything new.
LEMMA QuietRecord ==
    ASSUME TrailInv, NEW r \in Requests, NEW next, RecordSteps(r, next),
           req[r].pc # "log", next.pc # "log", next.pc = "insert" => next.old.says = 0,
           UNCHANGED <<trail, made, crossed, failed>>,
           \A i \in 1..made : rows'[i].says = rows[i].says,
           RecordRequestOK(next, made')
    PROVE  TrailOK'
  <1>1. /\ req'[r] = next /\ \A q \in Requests \ {r} : req'[q] = req[q]
    BY DEF RecordSteps
  <1>2. \A i, says : Accounted(i, says) => AccountedNext(i, says)
    BY <1>1, StaysAccounted
  <1>3. \A q \in Requests : req'[q].pc = "log" => req'[q] = req[q]
    BY <1>1
  <1>4. \A q \in Requests : req'[q].pc = "insert" => req'[q].old.says = 0
    BY <1>1 DEF TrailInv, TrailOK, Accounted, AccountedNext
  <1> QED
    BY <1>2, <1>3, <1>4 DEF TrailInv, TrailOK, Accounted, AccountedNext

\* The list, the forms and the records of a step that makes no record.
LEMMA SameRecords ==
    ASSUME TrailInv, NEW r \in Requests, NEW next, RecordSteps(r, next),
           RecordRequestOK(next, made'), UNCHANGED made, changes' \in 0..MaxChanges,
           rows' = [i \in 1..MaxRecords |-> rows'[i]],
           \A i \in 1..MaxRecords :
              rows'[i] = [says |-> rows'[i].says, active |-> rows'[i].active],
           page' = [items |-> page'.items, form |-> page'.form],
           page'.items \subseteq 1..made, \A l \in trail' : l.id \in 1..made
    PROVE  RecordsOK'
  <1>1. made' \in Nat /\ made' = made /\ made <= made'
    BY DEF TrailInv, RecordsOK
  <1>2. /\ req' = [q \in Requests |-> req'[q]]
        /\ \A q \in Requests : RecordRequestOK(req'[q], made')
    BY <1>1, RecordRequests DEF TrailInv
  <1> QED
    BY <1>1, <1>2 DEF TrailInv, RecordsOK

\* The forms of a step that begins no addition and ends no insert.
LEMMA SameForms ==
    ASSUME TrailInv, NEW r \in Requests, NEW next, RecordSteps(r, next),
           RecordRequestOK(next, made'), UNCHANGED <<made, page>>,
           next.op = "add" => req[r].op = "add" /\ next.pc \notin {"write", "deactivate"},
           next.op = "add" /\ next.pc \in {"log", "answer"} => req[r].pc \in {"log", "answer"}
    PROVE  FormsOK'
  <1>1. req'[r] = next /\ \A q \in Requests \ {r} : req'[q] = req[q]
    BY DEF RecordSteps
  <1>2. Records!Adding' \subseteq Records!Adding
    BY <1>1 DEF Records!Adding
  <1>3. ASSUME NEW q \in Records!Adding', req'[q].pc \in {"log", "answer"}
        PROVE  q \in Records!Adding /\ req[q].pc \in {"log", "answer"}
    BY <1>1, <1>2, <1>3 DEF Records!Adding
  <1>4. \A q \in Records!Adding' : req'[q].pc \notin {"write", "deactivate"}
    BY <1>1, <1>2 DEF TrailInv, FormsOK, Records!Adding
  <1> QED
    BY <1>2, <1>3, <1>4 DEF TrailInv, FormsOK

\* The request that ends, or begins nothing.
LEMMA NoRecordRequest ==
    /\ RecordFields \subseteq DOMAIN Records!NoReq /\ Records!NoReq.list = {}
    /\ Records!NoReq.old.says = 0
    /\ Records!NoReq.pc = "idle" /\ Records!NoReq.op = "none"
  BY DEF Records!NoReq, Records!Nothing, RecordFields

-----------------------------------------------------------------------------
(* The steps of a request *)

LEMMA RecordAdds ==
    ASSUME TrailInv, NEW r \in Requests, Records!Add(r) PROVE TrailInv'
  <1> DEFINE next == [Records!NoReq EXCEPT !.pc = "insert", !.op = "add", !.says = page.form]
  <1>1. /\ next.pc = "insert" /\ next.op = "add" /\ next.old.says = 0
        /\ RecordRequestOK(next, made')
    BY NoRecordRequest DEF RecordRequestOK, RecordFields
  <1>2. /\ req[r].pc = "idle" /\ RecordSteps(r, next) /\ Records!Adding = {}
        /\ UNCHANGED <<rows, trail, page, made, changes, crossed, failed>>
    BY RecordBegins DEF Records!Add, Records!Begin, TrailInv
  <1>2a. made' \in Nat /\ made <= made'
    BY <1>2 DEF TrailInv, RecordsOK
  <1> HIDE DEF next
  <1>3. RecordsOK'
    BY <1>1, <1>2, SameRecords DEF TrailInv, RecordsOK
  <1>4. TrailOK'
    BY <1>1, <1>2, QuietRecord
  <1>5. FormsOK'
    <2>1. req'[r] = next /\ \A q \in Requests \ {r} : req'[q] = req[q]
      BY <1>2 DEF RecordSteps
    <2>2. Records!Adding' = {r}
      BY <1>1, <1>2, <2>1 DEF Records!Adding
    <2> QED
      BY <1>1, <1>2, <2>1, <2>2 DEF TrailInv, FormsOK
  <1> QED
    BY <1>3, <1>4, <1>5 DEF TrailInv

LEMMA RecordChanges ==
    ASSUME Records!CatalogueAssumption, TrailInv, NEW r \in Requests,
           NEW i \in 1..MaxRecords,
           Records!Change(r, i) \/ Records!Remove(r, i)
    PROVE  TrailInv'
  <1>1. PICK next :
          /\ RecordSteps(r, next) /\ next.pc \in {"write", "deactivate"}
          /\ next.op \in {"change", "remove"} /\ next.id = i /\ next.list = {}
          /\ RecordFields \subseteq DOMAIN next
    <2>1. CASE Records!Change(r, i)
      <3> DEFINE next == [Records!NoReq EXCEPT !.pc = "write", !.op = "change", !.id = i,
                                       !.says = MaxRecords + changes + 1, !.old = rows[i]]
      <3>1. /\ next.pc = "write" /\ next.op = "change" /\ next.id = i /\ next.list = {}
            /\ RecordFields \subseteq DOMAIN next
        BY NoRecordRequest DEF RecordFields
      <3>2. RecordSteps(r, next)
        BY <2>1, RecordBegins DEF Records!Change, Records!Begin, TrailInv
      <3> HIDE DEF next
      <3> QED
        BY <3>1, <3>2
    <2>2. CASE Records!Remove(r, i)
      <3> DEFINE next == [Records!NoReq EXCEPT !.pc = "deactivate", !.op = "remove", !.id = i]
      <3>1. /\ next.pc = "deactivate" /\ next.op = "remove" /\ next.id = i /\ next.list = {}
            /\ RecordFields \subseteq DOMAIN next
        BY NoRecordRequest DEF RecordFields
      <3>2. RecordSteps(r, next)
        BY <2>2, RecordBegins DEF Records!Remove, Records!Begin, TrailInv
      <3> HIDE DEF next
      <3> QED
        BY <3>1, <3>2
    <2> QED
      BY <2>1, <2>2
  <1>2. /\ i \in 1..made /\ req[r].pc = "idle" /\ changes' = changes + 1 /\ changes < MaxChanges
        /\ UNCHANGED <<rows, trail, page, made, crossed, failed>>
    BY DEF Records!Change, Records!Remove, Records!Begin, TrailInv, RecordsOK
  <1>3. RecordRequestOK(next, made')
    BY <1>1, <1>2 DEF RecordRequestOK
  <1>4. changes' \in 0..MaxChanges
    BY <1>2 DEF TrailInv, RecordsOK, Records!CatalogueAssumption
  <1>5. RecordsOK'
    BY <1>1, <1>2, <1>3, <1>4, SameRecords DEF TrailInv, RecordsOK
  <1>6. FormsOK'
    BY <1>1, <1>2, <1>3, SameForms
  <1>7. TrailOK'
    BY <1>1, <1>2, <1>3, QuietRecord
  <1> QED
    BY <1>5, <1>6, <1>7 DEF TrailInv

\* What is said of a request whose step was taken from the one it had.
LEMMA RecordStepOf ==
    ASSUME NEW q, RecordFields \subseteq DOMAIN q, NEW pc
    PROVE  LET next == [q EXCEPT !.pc = pc]
           IN  /\ RecordFields \subseteq DOMAIN next /\ next.pc = pc /\ next.op = q.op
               /\ next.id = q.id /\ next.says = q.says /\ next.old = q.old
               /\ next.list = q.list
  BY DEF RecordFields

LEMMA RecordInserts ==
    ASSUME Records!CatalogueAssumption, TrailInv, NEW r \in Requests, Records!Insert(r)
    PROVE  TrailInv'
  <1> DEFINE next == [req[r] EXCEPT !.pc = "log", !.id = made + 1]
  <1>1. /\ RecordRequestOK(req[r], made) /\ req[r].pc = "insert" /\ req[r].old.says = 0
        /\ made \in Nat /\ made < MaxRecords /\ made' = made + 1 /\ made' \in 1..MaxRecords
    BY DEF TrailInv, RecordsOK, TrailOK, Records!Insert, Records!CatalogueAssumption
  <1>2. /\ RecordFields \subseteq DOMAIN next /\ next.pc = "log" /\ next.op = req[r].op
        /\ next.id = made + 1 /\ next.says = req[r].says /\ next.old = req[r].old
        /\ next.list = req[r].list
    BY <1>1 DEF RecordRequestOK, RecordFields
  <1>3. RecordSteps(r, next)
    BY DEF Records!Insert, RecordSteps, TrailInv, RecordsOK
  <1> HIDE DEF next
  <1>4. RecordRequestOK(next, made')
    BY <1>1, <1>2 DEF RecordRequestOK
  <1>5. /\ rows' = [i \in 1..MaxRecords |-> rows'[i]]
        /\ rows'[made + 1] = [says |-> req[r].says, active |-> TRUE]
        /\ \A i \in 1..MaxRecords : i # made + 1 => rows'[i] = rows[i]
        /\ UNCHANGED <<trail, page, changes, crossed, failed>>
    BY <1>1 DEF Records!Insert, TrailInv, RecordsOK
  <1>6. RecordsOK'
    <2>1. /\ req' = [q \in Requests |-> req'[q]]
          /\ \A q \in Requests : RecordRequestOK(req'[q], made')
      BY <1>1, <1>3, <1>4, RecordRequests DEF TrailInv
    <2>2. \A i \in 1..MaxRecords :
             rows'[i] = [says |-> rows'[i].says, active |-> rows'[i].active]
      BY <1>5 DEF TrailInv, RecordsOK
    <2> QED
      <3>1. 1..made \subseteq 1..made'
        BY <1>1
      <3> QED
        BY <1>1, <1>5, <2>1, <2>2, <3>1 DEF TrailInv, RecordsOK
  <1>7. FormsOK'
    <2>1. Records!Adding' = Records!Adding
      BY <1>2, <1>3 DEF Records!Adding, RecordSteps
    <2>2. page' = page
      BY DEF Records!Insert
    <2>3. ASSUME NEW q \in Records!Adding
          PROVE  /\ req'[q].pc \notin {"write", "deactivate"}
                 /\ page.form < made + 1
      BY <1>1, <1>2, <1>3 DEF TrailInv, FormsOK, RecordSteps, Records!Adding
    <2>4. page.form \in 1..made'
      BY <1>1 DEF TrailInv, FormsOK
    <2> QED
      BY <1>1, <2>1, <2>2, <2>3, <2>4 DEF TrailInv, FormsOK
  <1>8. TrailOK'
    <2>1. \A i, says : Accounted(i, says) => AccountedNext(i, says)
      BY <1>1, <1>3, StaysAccounted DEF RecordSteps, Records!Insert
    <2>2. \A i \in 1..made' : AccountedNext(i, rows'[i].says)
      <3>1. AccountedNext(made + 1, rows'[made + 1].says)
        BY <1>2, <1>3, <1>5 DEF AccountedNext, AccountedIn, RecordSteps
      <3>2. ASSUME NEW i \in 1..made PROVE AccountedNext(i, rows'[i].says)
        <4>1. i \in 1..MaxRecords /\ i # made + 1
          BY <1>1 DEF Records!CatalogueAssumption
        <4> QED
          BY <1>5, <2>1, <4>1 DEF TrailInv, TrailOK
      <3> QED
        BY <1>1, <3>1, <3>2
    <2>3. AccountedNext(next.id, next.old.says)
      BY <1>1, <1>2 DEF AccountedNext, AccountedIn
    <2>4. UNCHANGED <<trail, crossed>>
      BY DEF Records!Insert
    <2>5. \A q \in Requests : req'[q].pc = "log" /\ req'[q].says \notin crossed'
                                 => AccountedNext(req'[q].id, req'[q].old.says)
      BY <1>3, <2>1, <2>3, <2>4 DEF TrailInv, TrailOK, RecordSteps
    <2>6. \A q \in Requests : req'[q].pc = "insert" => req'[q].old.says = 0
      BY <1>2, <1>3 DEF TrailInv, TrailOK, RecordSteps
    <2> QED
      BY <2>1, <2>2, <2>4, <2>5, <2>6 DEF TrailInv, TrailOK, Accounted, AccountedNext
  <1> QED
    BY <1>6, <1>7, <1>8 DEF TrailInv

\* The row that is overwritten says what it said when it was read, unless the
\* update is one that crossed another.
LEMMA RecordWrites ==
    ASSUME Records!CatalogueAssumption, TrailInv, NEW r \in Requests, Records!Write(r)
    PROVE  TrailInv'
  <1> DEFINE next == [req[r] EXCEPT !.pc = "log"]
  <1>1. /\ RecordRequestOK(req[r], made) /\ req[r].pc = "write" /\ req[r].id \in 1..made
        /\ req[r].id \in 1..MaxRecords
        /\ made \in 1..MaxRecords /\ UNCHANGED <<trail, page, made, changes, failed>>
    BY DEF TrailInv, RecordsOK, RecordRequestOK, Records!Write,
           Records!CatalogueAssumption
  <1>2. /\ RecordFields \subseteq DOMAIN next /\ next.pc = "log" /\ next.op = req[r].op
        /\ next.id = req[r].id /\ next.says = req[r].says /\ next.old = req[r].old
        /\ next.list = req[r].list
    BY <1>1, RecordStepOf DEF RecordRequestOK
  <1>3. RecordSteps(r, next)
    BY RecordMovesOn DEF Records!Write, TrailInv
  <1> HIDE DEF next
  <1>4. RecordRequestOK(next, made')
    BY <1>1, <1>2 DEF RecordRequestOK
  <1>5. /\ rows' = [i \in 1..MaxRecords |-> rows'[i]]
        /\ rows'[req[r].id] = [rows[req[r].id] EXCEPT !.says = req[r].says]
        /\ \A i \in 1..MaxRecords : i # req[r].id => rows'[i] = rows[i]
    BY <1>1 DEF Records!Write, TrailInv, RecordsOK
  <1>6. /\ rows'[req[r].id].says = req[r].says
        /\ \A i \in 1..MaxRecords :
              rows'[i] = [says |-> rows'[i].says, active |-> rows'[i].active]
    BY <1>1, <1>5 DEF TrailInv, RecordsOK
  <1>7. RecordsOK'
    BY <1>1, <1>3, <1>4, <1>5, <1>6, SameRecords DEF TrailInv, RecordsOK
  <1>8. FormsOK'
    <2>1. Records!Adding' = Records!Adding
      BY <1>2, <1>3 DEF Records!Adding, RecordSteps
    <2>2. \A q \in Records!Adding : q # r => req'[q] = req[q]
      BY <1>3 DEF Records!Adding, RecordSteps
    <2>3. r \notin Records!Adding
      BY <1>1 DEF TrailInv, FormsOK, Records!Adding
    <2> QED
      BY <1>1, <2>1, <2>2, <2>3 DEF TrailInv, FormsOK
  <1>9. TrailOK'
    <2>1. \A i, says : Accounted(i, says) => AccountedNext(i, says)
      BY <1>1, <1>3, StaysAccounted DEF RecordSteps
    <2>2. ASSUME NEW i \in 1..made' PROVE AccountedNext(i, rows'[i].says)
      <3>1. AccountedNext(req[r].id, req[r].says)
        BY <1>2, <1>3 DEF AccountedNext, AccountedIn, RecordSteps
      <3>2. i \in 1..made /\ i \in 1..MaxRecords
        BY <1>1, <2>2 DEF Records!CatalogueAssumption
      <3> QED
        BY <1>5, <1>6, <2>1, <3>1, <3>2 DEF TrailInv, TrailOK
    <2>3. crossed \subseteq crossed'
      BY DEF Records!Write
    <2>4. req[r].says \notin crossed' => AccountedNext(req[r].id, req[r].old.says)
      <3> SUFFICES ASSUME req[r].says \notin crossed'
                   PROVE  rows[req[r].id] = req[r].old
        BY <1>1, <2>1 DEF TrailInv, TrailOK, Accounted, AccountedNext
      <3> QED
        BY DEF Records!Write
    <2>5. \A q \in Requests : req'[q].pc = "log" /\ req'[q].says \notin crossed'
                                 => AccountedNext(req'[q].id, req'[q].old.says)
      BY <1>2, <1>3, <2>1, <2>3, <2>4 DEF TrailInv, TrailOK, RecordSteps
    <2>6. \A q \in Requests : req'[q].pc = "insert" => req'[q].old.says = 0
      BY <1>2, <1>3 DEF TrailInv, TrailOK, RecordSteps
    <2> QED
      BY <1>1, <2>1, <2>2, <2>3, <2>5, <2>6
         DEF TrailInv, TrailOK, Accounted, AccountedNext
  <1> QED
    BY <1>7, <1>8, <1>9 DEF TrailInv

\* The line in the trail says what the request was about to say.
LEMMA RecordLogs ==
    ASSUME TrailInv, NEW r \in Requests, Records!Log(r) PROVE TrailInv'
  <1> DEFINE next == [req[r] EXCEPT !.pc = "answer"]
             line == [id |-> req[r].id, old |-> req[r].old.says, new |-> req[r].says]
  <1>1. /\ RecordRequestOK(req[r], made) /\ req[r].pc = "log" /\ req[r].id \in 1..made
        /\ trail' = trail \cup {line}
        /\ UNCHANGED <<rows, page, made, changes, crossed, failed>>
    BY DEF TrailInv, RecordsOK, RecordRequestOK, Records!Log
  <1>2. /\ RecordFields \subseteq DOMAIN next /\ next.pc = "answer" /\ next.op = req[r].op
        /\ next.id = req[r].id /\ next.list = req[r].list
    BY <1>1, RecordStepOf DEF RecordRequestOK
  <1>3. RecordSteps(r, next)
    BY RecordMovesOn DEF Records!Log, TrailInv
  <1>4. line.id = req[r].id /\ line.old = req[r].old.says /\ line.new = req[r].says
    OBVIOUS
  <1> HIDE DEF next, line
  <1>5. RecordRequestOK(next, made')
    BY <1>1, <1>2 DEF RecordRequestOK
  <1>6. RecordsOK'
    BY <1>1, <1>3, <1>4, <1>5, SameRecords DEF TrailInv, RecordsOK
  <1>7. FormsOK'
    BY <1>1, <1>2, <1>3, <1>5, SameForms
  <1>8. TrailOK'
    <2>1. \A q \in Requests : req[q].pc = "log" =>
              \/ req'[q].pc = "log" /\ req'[q].id = req[q].id /\ req'[q].says = req[q].says
              \/ \E l \in trail' : l.id = req[q].id /\ l.new = req[q].says
      BY <1>1, <1>3, <1>4 DEF RecordSteps
    <2>2. \A i, says : Accounted(i, says) => AccountedNext(i, says)
      BY <1>1, <2>1, StaysAccounted
    <2>3. \A i \in 1..made' : AccountedNext(i, rows'[i].says)
      BY <1>1, <2>2 DEF TrailInv, TrailOK, Accounted, AccountedNext
    <2>4. \A q \in Requests : req'[q].pc = "log" /\ req'[q].says \notin crossed'
                                 => AccountedNext(req'[q].id, req'[q].old.says)
      BY <1>1, <1>2, <1>3, <2>2 DEF TrailInv, TrailOK, RecordSteps
    <2>5. \A q \in Requests : req'[q].pc = "insert" => req'[q].old.says = 0
      BY <1>2, <1>3 DEF TrailInv, TrailOK, RecordSteps
    <2>6. \A l \in trail' : l.new \notin crossed' => AccountedNext(l.id, l.old)
      BY <1>1, <1>4, <2>2 DEF TrailInv, TrailOK, Accounted, AccountedNext
    <2> QED
      BY <2>3, <2>4, <2>5, <2>6 DEF TrailOK, Accounted, AccountedNext
  <1> QED
    BY <1>6, <1>7, <1>8 DEF TrailInv

LEMMA RecordDeactivates ==
    ASSUME Records!CatalogueAssumption, TrailInv, NEW r \in Requests,
           Records!Deactivate(r) PROVE TrailInv'
  <1> DEFINE next == [req[r] EXCEPT !.pc = "answer"]
  <1>1. /\ RecordRequestOK(req[r], made) /\ req[r].pc = "deactivate" /\ req[r].id \in 1..made
        /\ req[r].id \in 1..MaxRecords
        /\ made \in 1..MaxRecords /\ UNCHANGED <<trail, page, made, changes, crossed, failed>>
    BY DEF TrailInv, RecordsOK, RecordRequestOK, Records!Deactivate,
           Records!CatalogueAssumption
  <1>2. /\ RecordFields \subseteq DOMAIN next /\ next.pc = "answer" /\ next.op = req[r].op
        /\ next.id = req[r].id /\ next.list = req[r].list
    BY <1>1, RecordStepOf DEF RecordRequestOK
  <1>3. RecordSteps(r, next)
    BY RecordMovesOn DEF Records!Deactivate, TrailInv
  <1> HIDE DEF next
  <1>4. RecordRequestOK(next, made')
    BY <1>1, <1>2 DEF RecordRequestOK
  <1>5. /\ rows' = [i \in 1..MaxRecords |-> rows'[i]]
        /\ rows'[req[r].id] = [rows[req[r].id] EXCEPT !.active = FALSE]
        /\ \A i \in 1..MaxRecords : i # req[r].id => rows'[i] = rows[i]
    BY <1>1 DEF Records!Deactivate, TrailInv, RecordsOK
  <1>6. \A i \in 1..MaxRecords :
           /\ rows'[i].says = rows[i].says
           /\ rows'[i] = [says |-> rows'[i].says, active |-> rows'[i].active]
    BY <1>1, <1>5 DEF TrailInv, RecordsOK
  <1>7. RecordsOK'
    BY <1>1, <1>3, <1>4, <1>5, <1>6, SameRecords DEF TrailInv, RecordsOK
  <1>8. FormsOK'
    <2>1. Records!Adding' = Records!Adding
      BY <1>2, <1>3 DEF Records!Adding, RecordSteps
    <2>2. \A q \in Records!Adding : q # r => req'[q] = req[q]
      BY <1>3 DEF Records!Adding, RecordSteps
    <2>3. r \notin Records!Adding
      BY <1>1 DEF TrailInv, FormsOK, Records!Adding
    <2> QED
      BY <1>1, <2>1, <2>2, <2>3 DEF TrailInv, FormsOK
  <1>9. TrailOK'
    <2>1. \A i \in 1..made : i \in 1..MaxRecords
      BY <1>1 DEF Records!CatalogueAssumption
    <2> QED
      BY <1>1, <1>2, <1>3, <1>4, <1>6, <2>1, QuietRecord
  <1> QED
    BY <1>7, <1>8, <1>9 DEF TrailInv

\* The answers, and the list the page asks for after its own.
LEMMA RecordAnswers ==
    ASSUME Records!CatalogueAssumption, TrailInv, NEW r \in Requests,
           Records!Answered(r) \/ Records!List(r) \/ Records!Listed(r) \/ Records!Fail(r)
    PROVE  TrailInv'
  <1>1. /\ RecordRequestOK(req[r], made) /\ req[r].pc # "idle" /\ made \in 1..MaxRecords
        /\ UNCHANGED <<rows, trail, made, changes, crossed>>
        /\ page = [items |-> page.items, form |-> page.form]
        /\ page.items \subseteq 1..made /\ page.form \in 1..made
    BY DEF TrailInv, RecordsOK, FormsOK, Records!Answered, Records!List, Records!Listed,
           Records!Fail
  <1>2. Records!Active \subseteq 1..made
    BY DEF Records!Active
  <1>3. PICK next :
          /\ RecordSteps(r, next) /\ RecordRequestOK(next, made')
          /\ next.pc \in {"idle", "list", "listed"}
          /\ next.op = "add" => req[r].op = "add" /\ req[r].pc \in {"answer", "list"}
          /\ next.pc = "insert" => next.old.says = 0
    <2>1. CASE req' = [req EXCEPT ![r] = Records!NoReq]
      BY <2>1, RecordBegins, NoRecordRequest DEF RecordRequestOK, TrailInv
    <2>2. CASE Records!Answered(r) /\ req' = [req EXCEPT ![r].pc = "list"]
      <3> DEFINE new == [req[r] EXCEPT !.pc = "list"]
      <3>1. /\ RecordFields \subseteq DOMAIN new /\ new.pc = "list" /\ new.op = req[r].op
            /\ new.list = req[r].list
        BY <1>1, RecordStepOf DEF RecordRequestOK
      <3>2. RecordSteps(r, new) /\ req[r].pc = "answer"
        BY <2>2, RecordMovesOn DEF Records!Answered, TrailInv
      <3> HIDE DEF new
      <3>3. RecordRequestOK(new, made')
        BY <1>1, <3>1 DEF RecordRequestOK
      <3> QED
        BY <3>1, <3>2, <3>3
    <2>3. CASE Records!List(r)
      <3> DEFINE new == [req[r] EXCEPT !.pc = "listed", !.list = Records!Active]
      <3>1. /\ new.pc = "listed" /\ RecordFields \subseteq DOMAIN new
            /\ new.op = req[r].op /\ new.list = Records!Active
        BY <1>1 DEF RecordRequestOK, RecordFields
      <3>2. RecordSteps(r, new) /\ req[r].pc = "list"
        BY <2>3 DEF Records!List, RecordSteps, TrailInv, RecordsOK
      <3> HIDE DEF new
      <3>3. RecordRequestOK(new, made')
        BY <1>1, <1>2, <3>1 DEF RecordRequestOK
      <3>4. /\ new.pc \in {"idle", "list", "listed"} /\ new.pc # "insert"
            /\ new.op = "add" => req[r].op = "add" /\ req[r].pc \in {"answer", "list"}
        BY <3>1, <3>2
      <3> QED
        BY <3>2, <3>3, <3>4
    <2> QED
      BY <2>1, <2>2, <2>3 DEF Records!Answered, Records!Listed, Records!Fail
  <1>4. /\ page' = [items |-> page'.items, form |-> page'.form]
        /\ page'.items \subseteq 1..made
        /\ page'.form = IF Records!Answered(r) /\ req[r].op = "add" THEN page.form + 1
                                                                 ELSE page.form
    <2>1. CASE Records!Answered(r) /\ req[r].op = "add"
      BY <1>1, <2>1 DEF Records!Answered
    <2>2. CASE Records!Answered(r) /\ req[r].op # "add"
      BY <1>1, <2>2 DEF Records!Answered
    <2>3. CASE Records!Listed(r)
      <3>1. req[r].list \subseteq 1..made /\ req[r].pc = "listed"
        BY <1>1, <2>3 DEF RecordRequestOK, Records!Listed
      <3> QED
        BY <1>1, <2>3, <3>1 DEF Records!Listed, Records!Answered
    <2>4. CASE Records!List(r)
      BY <1>1, <2>4 DEF Records!List, Records!Answered
    <2>5. CASE Records!Fail(r) /\ ~Records!Answered(r)
      BY <1>1, <2>5 DEF Records!Fail
    <2> QED
      BY <2>1, <2>2, <2>3, <2>4, <2>5
  <1>5. RecordsOK'
    BY <1>1, <1>3, <1>4, SameRecords DEF TrailInv, RecordsOK
  <1>6. FormsOK'
    <2>1. /\ Records!Adding' \subseteq Records!Adding
          /\ \A q \in Records!Adding' : q # r => req'[q] = req[q]
      BY <1>3 DEF Records!Adding, RecordSteps
    <2>2. req'[r] = next
      BY <1>3 DEF RecordSteps
    <2>3. \A q \in Records!Adding' : req'[q].pc \notin {"write", "deactivate"}
      BY <1>3, <2>1, <2>2 DEF TrailInv, FormsOK
    <2>4. CASE Records!Answered(r) /\ req[r].op = "add"
      <3>1. Records!Adding = {r} /\ page.form < made
        BY <2>4 DEF TrailInv, FormsOK, Records!Adding, Records!Answered
      <3>2. page'.form \in 1..made'
        BY <1>1, <1>4, <2>4, <3>1 DEF Records!CatalogueAssumption
      <3> QED
        BY <1>3, <2>1, <2>2, <2>3, <3>1, <3>2 DEF FormsOK
    <2>5. CASE ~(Records!Answered(r) /\ req[r].op = "add")
      BY <1>1, <1>3, <1>4, <2>1, <2>2, <2>3, <2>5 DEF TrailInv, FormsOK
    <2> QED
      BY <2>4, <2>5
  <1>7. TrailOK'
    <2>1. failed \subseteq failed' /\ (req[r].pc = "log" => req[r].says \in failed')
      BY DEF Records!Answered, Records!List, Records!Listed, Records!Fail
    <2>2. \A i, says : Accounted(i, says) => AccountedNext(i, says)
      BY <1>1, <1>3, <2>1, StaysAccounted DEF RecordSteps
    <2>3. \A q \in Requests : req'[q].pc \in {"log", "insert"} => req'[q] = req[q]
      BY <1>3 DEF RecordSteps
    <2> QED
      BY <1>1, <2>2, <2>3 DEF TrailInv, TrailOK, Accounted, AccountedNext
  <1> QED
    BY <1>5, <1>6, <1>7 DEF TrailInv

-----------------------------------------------------------------------------
(* The theorem *)

LEMMA TrailInit == Records!CatalogueAssumption /\ Records!Init => TrailInv
  <1> SUFFICES ASSUME Records!CatalogueAssumption, Records!Init PROVE TrailInv
    OBVIOUS
  <1>1. \A r \in Requests : req[r] = Records!NoReq
    BY DEF Records!Init
  <1>2. \A r \in Requests : RecordRequestOK(req[r], made)
    BY <1>1, NoRecordRequest DEF RecordRequestOK
  <1>3. ASSUME NEW i \in 1..MaxRecords
        PROVE  rows[i] = [says |-> rows[i].says, active |-> rows[i].active] /\ rows[i].says = 0
    <2>1. rows[i] = IF i = 1 THEN [says |-> 0, active |-> TRUE] ELSE Records!Nothing
      BY DEF Records!Init
    <2>2. rows[i] \in {[says |-> 0, active |-> TRUE], [says |-> 0, active |-> FALSE]}
      BY <2>1 DEF Records!Nothing
    <2> QED
      BY <2>2
  <1>4. RecordsOK
    <2>1. /\ page = [items |-> page.items, form |-> page.form] /\ page.items = {1}
          /\ page.form = 1
      BY DEF Records!Init
    <2>2. made = 1 /\ made \in 1..MaxRecords /\ changes = 0 /\ changes \in 0..MaxChanges
      BY DEF Records!Init, Records!CatalogueAssumption
    <2>3. /\ rows = [i \in 1..MaxRecords |-> rows[i]] /\ trail = {}
          /\ req = [r \in Requests |-> req[r]]
      BY DEF Records!Init
    <2>4. \A i \in 1..MaxRecords : rows[i] = [says |-> rows[i].says, active |-> rows[i].active]
      BY <1>3
    <2> QED
      BY <1>2, <2>1, <2>2, <2>3, <2>4 DEF RecordsOK
  <1>5. FormsOK
    BY <1>1, NoRecordRequest DEF Records!Init, FormsOK, Records!Adding
  <1>6. TrailOK
    <2>1. \A i \in 1..made : i \in 1..MaxRecords
      BY DEF Records!Init, Records!CatalogueAssumption
    <2> QED
      BY <1>1, <1>3, <2>1, NoRecordRequest
         DEF Records!Init, TrailOK, Accounted, AccountedIn
  <1> QED
    BY <1>4, <1>5, <1>6 DEF TrailInv

LEMMA TrailStep ==
    Records!CatalogueAssumption /\ TrailInv /\ [Records!Next]_(Records!vars) => TrailInv'
  <1> SUFFICES ASSUME Records!CatalogueAssumption, TrailInv, [Records!Next]_(Records!vars)
               PROVE  TrailInv'
    OBVIOUS
  <1>1. CASE UNCHANGED Records!vars
    BY <1>1
       DEF Records!vars, TrailInv, RecordsOK, FormsOK, TrailOK, Accounted,
           Records!Adding
  <1>2. ASSUME NEW r \in Requests,
               Records!Answered(r) \/ Records!List(r) \/ Records!Listed(r) \/ Records!Fail(r)
        PROVE  TrailInv'
    BY <1>2, RecordAnswers
  <1>3. ASSUME NEW r \in Requests, NEW i \in 1..MaxRecords,
               Records!Change(r, i) \/ Records!Remove(r, i)
        PROVE  TrailInv'
    BY <1>3, RecordChanges
  <1> QED
    BY <1>1, <1>2, <1>3, RecordAdds, RecordInserts, RecordWrites, RecordLogs,
       RecordDeactivates
       DEF Records!Next

\* The trail tells what a record says and what it said before, for any number of
\* requests that interleave and fail: what was written over a change that came
\* after the row was read, and what failed before the trail, are the only
\* exceptions (services.service.ts:109-146).
THEOREM TrailIsTold ==
    /\ Records!Spec => []Records!TrailTellsTheChange
    /\ ServerSpec => []TrailTellsTheChange
  <1> USE ServerAssumption
  <1>1. Records!Init => TrailInv
    BY TrailInit
  <1>2. TrailInv /\ [Records!Next]_(Records!vars) => TrailInv'
    BY TrailStep
  <1>3. TrailInv => Records!TrailTellsTheChange
    BY DEF TrailInv, TrailOK, Accounted, AccountedIn, Records!TrailTellsTheChange
  <1>4. Records!Spec => []Records!TrailTellsTheChange
    BY <1>1, <1>2, <1>3, PTL DEF Records!Spec
  <1>5. ServerSpec => []TrailTellsTheChange
    <2> DEFINE Inv == part = "catalogue" => TrailInv
    <2>1. ServerInit => Inv
      BY <1>1 DEF ServerInit
    <2>2. Inv /\ [ServerNext]_ServerVars => Inv'
      BY <1>2, RecordsMoves
    <2>3. Inv => TrailTellsTheChange
      BY <1>3 DEF TrailTellsTheChange
    <2> QED
      BY <2>1, <2>2, <2>3, PTL DEF ServerSpec
  <1> QED
    BY <1>4, <1>5

LEMMA RecordTypes == Records!CatalogueAssumption /\ TrailInv => Records!TypeOK
  BY DEF Records!CatalogueAssumption, TrailInv, RecordsOK, FormsOK, Records!TypeOK

\* The records, their trail and the requests keep their types.
LEMMA RecordsTyped == ServerSpec => [](part = "catalogue" => Records!TypeOK)
  <1> USE ServerAssumption
  <1>1. Records!Init => TrailInv
    BY TrailInit
  <1>2. TrailInv /\ [Records!Next]_(Records!vars) => TrailInv'
    BY TrailStep
  <1>3. TrailInv => Records!TypeOK
    BY RecordTypes
  <1> DEFINE Inv == part = "catalogue" => TrailInv
  <1>4. ServerInit => Inv
    BY <1>1 DEF ServerInit
  <1>5. Inv /\ [ServerNext]_ServerVars => Inv'
    BY <1>2, RecordsMoves
  <1>6. Inv => (part = "catalogue" => Records!TypeOK)
    BY <1>3
  <1> QED
    BY <1>4, <1>5, <1>6, PTL DEF ServerSpec

-----------------------------------------------------------------------------
(* Every part *)

\* Whatever part of the API is in play, its tables, its requests and its pages
\* keep their types.
THEOREM EveryPartIsTyped == ServerSpec => []TypesOK
  BY ClientsTyped, JobTyped, QueryTyped, ListsTyped, FilesTyped, ResetTyped, RecordsTyped, PTL
     DEF TypesOK

=============================================================================
