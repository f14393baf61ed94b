------------------------------- MODULE Weeks -------------------------------
(***************************************************************************)
(* The opening hours of the business and of each professional, and the     *)
(* services each professional gives: three lists that a save replaces      *)
(* whole (setSchedules and setServices of professionals.service.ts, and    *)
(* setSchedules of businesses.service.ts), and the migration that fills    *)
(* the hours of a business from those of its professionals                 *)
(* (BD/migration/016), which runs again at every start.                    *)
(*                                                                         *)
(* PostgreSQL at READ COMMITTED: a DELETE takes the rows committed when it *)
(* starts, waits for a transaction that is deleting one of them and then   *)
(* leaves out those that are gone; it never sees what the other inserted.  *)
(* A service is a key of its list: an INSERT of one that is there does     *)
(* nothing, and of one that another transaction inserted waits for it.     *)
(***************************************************************************)
EXTENDS Naturals, FiniteSets

CONSTANTS
    Owners,         \* the lists
    Keyed,          \* those of services: each item at most once
    Business, Professional, \* two lists of hours, or the same if there is no migration
    Items,          \* blocks of hours or services
    Savers,         \* requests in flight
    MaxSaves        \* bound: saves and starts, which number the rows

VARIABLES
    rows,           \* committed rows: [owner, item, save]
    tx,             \* saver -> its transaction
    saves,          \* how many saves and starts there were
    asked,          \* history: save -> the items it was asked to store
    mixed           \* history: lists that two saves overlapped on

vars == <<rows, tx, saves, asked, mixed>>

\* Bound on the saves, and the hours of the business are one of the lists.
WeeksAssumption == MaxSaves \in Nat /\ Business \in Owners

NoTx == [pc |-> "idle", owner |-> Business, todo |-> {}, save |-> 0, seen |-> {}, gone |-> {},
         new |-> {}]

Of(owner) == {r \in rows : r.owner = owner}

Running == {s \in Savers : tx[s].pc # "idle"}

\* Two savers of one list at once.
Overlapped == {tx[s].owner : s \in {u \in Running : \E v \in Running \ {u} : tx[v].owner = tx[u].owner}}

\* findById and BEGIN.
Save(s, owner, items) ==
    /\ tx[s].pc = "idle" /\ saves < MaxSaves
    /\ saves' = saves + 1
    /\ asked' = [asked EXCEPT ![saves + 1] = items]
    /\ tx' = [tx EXCEPT ![s] = [pc |-> "delete", owner |-> owner, todo |-> items,
                                 save |-> saves + 1, seen |-> {}, gone |-> {}, new |-> {}]]
    /\ mixed' = mixed \cup Overlapped'
    /\ UNCHANGED rows

\* SQL_DELETE_..._SCHEDULES: the snapshot of the statement.
Delete(s) ==
    /\ tx[s].pc = "delete"
    /\ tx' = [tx EXCEPT ![s].pc = "lock", ![s].seen = Of(tx[s].owner)]
    /\ UNCHANGED <<rows, saves, asked, mixed>>

\* Its row locks: every other transaction that is deleting one of the rows has ended.
Deleted(s) ==
    /\ tx[s].pc = "lock"
    /\ \A u \in Savers \ {s} : tx[s].seen \cap tx[u].gone = {}
    /\ tx' = [tx EXCEPT ![s].pc = "insert", ![s].gone = tx[s].seen \cap rows]
    /\ UNCHANGED <<rows, saves, asked, mixed>>

InTheWay(s, item) ==
    {u \in Savers \ {s} : \E r \in tx[u].new \cup tx[u].gone :
        r.owner = tx[s].owner /\ r.item = item}

\* One row; ON CONFLICT DO NOTHING for a service that is there.
Insert(s) ==
    /\ tx[s].pc = "insert"
    /\ \E item \in tx[s].todo :
          /\ tx[s].owner \in Keyed => InTheWay(s, item) = {}
          /\ LET there == tx[s].owner \in Keyed
                          /\ \E r \in rows \ tx[s].gone : r.owner = tx[s].owner /\ r.item = item
                 row == [owner |-> tx[s].owner, item |-> item, save |-> tx[s].save]
             IN  tx' = [tx EXCEPT ![s].todo = @ \ {item},
                                  ![s].new = IF there THEN @ ELSE @ \cup {row}]
    /\ UNCHANGED <<rows, saves, asked, mixed>>

Commit(s) ==
    /\ tx[s].pc = "insert" /\ tx[s].todo = {}
    /\ rows' = (rows \ tx[s].gone) \cup tx[s].new
    /\ tx' = [tx EXCEPT ![s] = NoTx]
    /\ UNCHANGED <<saves, asked, mixed>>

\* Broken: the statements before the one that failed are kept.
RollbackKeeps(s) ==
    /\ tx[s].pc # "idle"
    /\ rows' = (rows \ tx[s].gone) \cup tx[s].new
    /\ tx' = [tx EXCEPT ![s] = NoTx]
    /\ UNCHANGED <<saves, asked, mixed>>

\* A statement fails (a block that ends before it starts, a service that does
\* not exist, the deadlock of two lists of services) or the server dies.
Rollback(s) ==
    /\ tx[s].pc # "idle"
    /\ tx' = [tx EXCEPT ![s] = NoTx]
    /\ UNCHANGED <<rows, saves, asked, mixed>>

\* The server is started, and every migration with it: a business without hours
\* gets those of its professionals, each block once.
Start ==
    /\ Running = {} /\ saves < MaxSaves
    /\ Business # Professional /\ Of(Business) = {}
    /\ saves' = saves + 1
    /\ asked' = [asked EXCEPT ![saves + 1] = {r.item : r \in Of(Professional)}]
    /\ rows' = rows \cup [owner : {Business}, item : {r.item : r \in Of(Professional)},
                          save : {saves + 1}]
    /\ UNCHANGED <<tx, mixed>>

Init ==
    /\ rows = {} /\ tx = [s \in Savers |-> NoTx]
    /\ saves = 0 /\ asked = [n \in 1..MaxSaves |-> {}] /\ mixed = {}

Next ==
    \/ \E s \in Savers, owner \in Owners, items \in SUBSET Items : Save(s, owner, items)
    \/ \E s \in Savers : Delete(s) \/ Deleted(s) \/ Insert(s) \/ Commit(s) \/ Rollback(s)
    \/ Start

Spec == Init /\ [][Next]_vars

-----------------------------------------------------------------------------
(* Properties *)

\* Type correctness; a transaction deletes only committed rows of its list.
TypeOK ==
    /\ rows \subseteq [owner : Owners, item : Items, save : 1..MaxSaves]
    /\ saves \in 0..MaxSaves
    /\ mixed \subseteq Owners
    /\ \A s \in Savers : tx[s].gone \subseteq Of(tx[s].owner)

\* The list an owner has is what one save asked for: a mixture of two only comes
\* of two that overlapped, and a start never adds to hours the business has
\* (professionals.service.ts:200, BD/migration/016_business_schedule_capacity.sql).
OneSavePerList ==
    \A o \in Owners \ mixed : \A r \in Of(o) : {q.item : q \in Of(o)} = asked[r.save]

=============================================================================
