--------------------------- MODULE DbTransaction ---------------------------
(***************************************************************************)
(* Changes to a database table through libadbo and libadbl:                *)
(* adbo_node_update and adbo_node_delete (src/libadbo/core/adbo_node.c)    *)
(* open a session at the manager (src/libadbl/core/adbl_manager.c), begin  *)
(* a transaction, execute statements and commit or roll back.  A session   *)
(* is only a reference: the manager keeps ONE connection for each source,  *)
(* made by the first session, and all threads use it.  The plug-in is the  *)
(* one for SQLite (src/libadbl/adbl_sqlite/adbl_sqlite3.c); SQLite itself, *)
(* one statement after the other on a connection, is external.             *)
(***************************************************************************)
EXTENDS Integers, Sequences, FiniteSets, FiniteSetsExt

CONSTANTS
  Threads,
  Jobs,       \* the calls the threads may make
  MaxKey,     \* bound on the primary keys
  Preset,     \* the keys of the rows the table has at first
  MaxCalls,   \* bound on the calls of a thread
  Settings,   \* who calls, and what may fail (connect, statement, commit; crash:
              \* the process ends and another one goes on), in one behaviour
  Null        \* no thread

Keys == 1 .. MaxKey

JobKinds ==
  [kind : {"insert"}, items : Nat]
  \cup [kind : {"update", "delete"}, key : Keys]
  \cup [kind : {"nodata"}]

ASSUME TransactionConstants ==
  /\ IsFiniteSet(Threads) /\ Null \notin Threads
  /\ MaxKey \in Nat /\ MaxCalls \in Nat
  /\ Jobs \subseteq JobKinds
  /\ Preset \subseteq Keys
  /\ Settings \subseteq [users : SUBSET Threads,
                       failures : SUBSET {"connect", "statement", "commit", "crash"}]

VARIABLES
  users,        \* the threads that call
  failures,     \* what may fail
  mutex,        \* owner of the manager's mutex
  connection,   \* pc->connection; broken: it has no handle
  connects,     \* how often dbconnect was called
  db,           \* the table on disk
  view,         \* the table as the connection sees it
  open,         \* a transaction is open on the connection
  changes,      \* sqlite3_changes
  pc,           \* where each thread is
  job,          \* the call it is in
  todo,         \* adbo_node_insert: how many items are left
  number,       \* the number its sequence gave
  ret,          \* what the call will answer; 0 is FALSE, anything else TRUE
  calls,        \* how many calls it has made
  sessions,     \* how many sessions it has not closed
  declined      \* the calls that were answered with FALSE

disk  == <<db, view, open, changes>>
fixed == <<users, failures>>
conn  == <<fixed, mutex, connection, connects>>
local == <<job, todo, number, ret, calls>>
vars  == <<conn, disk, pc, local, sessions, declined>>

(* A row is known by the call that wrote it last.                          *)
Old == <<Null, 0>>
Rows == (Threads \X (1 .. MaxCalls)) \cup {Old}
IsTable(T) == DOMAIN T \subseteq Keys /\ \A k \in DOMAIN T : T[k] \in Rows

Places == {"idle", "lock", "look", "connect", "begin", "item", "insert", "counted",
           "ignore", "ignored", "update", "delete", "end"}

TypeOK ==
  /\ [users |-> users, failures |-> failures] \in Settings
  /\ mutex \in Threads \cup {Null}
  /\ connection \in {"none", "up", "broken"} /\ connects \in Nat
  /\ IsTable(db) /\ IsTable(view)
  /\ open \in BOOLEAN /\ changes \in 0 .. 1
  /\ pc \in [Threads -> Places]
  /\ \A t \in Threads : pc[t] # "idle" => job[t] \in Jobs
  /\ \A t \in Threads : todo[t] \in Nat
  /\ number \in [Threads -> 0 .. MaxKey + 1]
  /\ ret \in [Threads -> -1 .. 1]
  /\ calls \in [Threads -> 0 .. MaxCalls]
  /\ sessions \in [Threads -> 0 .. MaxCalls]
  /\ declined \subseteq Threads \X (1 .. MaxCalls)

Init ==
  /\ \E setting \in Settings :
       users = setting.users /\ failures = setting.failures
  /\ mutex = Null /\ connection = "none" /\ connects = 0
  /\ db = [k \in Preset |-> Old] /\ view = db
  /\ open = FALSE /\ changes = 0
  /\ pc = [t \in Threads |-> "idle"]
  /\ job = [t \in Threads |-> [kind |-> "nodata"]]
  /\ todo = [t \in Threads |-> 0]
  /\ number = [t \in Threads |-> 0]
  /\ ret = [t \in Threads |-> 0]
  /\ calls = [t \in Threads |-> 0]
  /\ sessions = [t \in Threads |-> 0]
  /\ declined = {}

-----------------------------------------------------------------------------
Go(t, place) == pc' = [pc EXCEPT ![t] = place]
At(t, place) == pc[t] = place
Mine(t) == <<t, calls[t]>>

(* adbo_node_update or adbo_node_delete is called.                         *)
Call(t, j) ==
  /\ t \in users /\ At(t, "idle") /\ calls[t] < MaxCalls
  /\ job' = [job EXCEPT ![t] = j]
  /\ calls' = [calls EXCEPT ![t] = @ + 1]
  /\ Go(t, "lock")
  /\ UNCHANGED <<conn, disk, todo, number, ret, sessions, declined>>

(* Mutation: the mutex of the manager is not taken.                        *)
LockNothing(t) ==
  /\ At(t, "lock")
  /\ Go(t, "look")
  /\ UNCHANGED <<conn, disk, local, sessions, declined>>

(* adbl_openSession: is the source connected?  Under the manager's mutex.  *)
Lock(t) ==
  /\ At(t, "lock") /\ mutex = Null
  /\ mutex' = t
  /\ Go(t, "look")
  /\ UNCHANGED <<fixed, connection, connects, disk, local, sessions, declined>>

Session(t) ==
  /\ mutex' = Null
  /\ sessions' = [sessions EXCEPT ![t] = @ + 1]
  /\ Go(t, "begin")

Look(t) ==
  /\ At(t, "look")
  /\ IF connection = "none"
     THEN Go(t, "connect") /\ UNCHANGED <<mutex, sessions>>
     ELSE Session(t)
  /\ UNCHANGED <<fixed, connection, connects, disk, local, declined>>

(* dbconnect answers with a connection even if the file cannot be opened:  *)
(* the manager believes that it is connected, now and for ever.            *)
Connect(t) ==
  /\ At(t, "connect")
  /\ connects' = connects + 1
  /\ \/ connection' = "up"
     \/ "connect" \in failures /\ connection' = "broken"
  /\ Session(t)
  /\ UNCHANGED <<fixed, disk, local, declined>>

(* No data for this table: adbo_node_update returns FALSE, and the session *)
(* it has opened is not closed.                                            *)
NoData(t) ==
  /\ At(t, "begin") /\ job[t].kind = "nodata"
  /\ declined' = declined \cup {Mine(t)}
  /\ Go(t, "idle")
  /\ UNCHANGED <<conn, disk, local, sessions>>

(* Mutation: the statements follow without a transaction.                  *)
BeginNothing(t) ==
  /\ At(t, "begin") /\ job[t].kind # "nodata"
  /\ todo' = [todo EXCEPT ![t] = IF job[t].kind = "insert" THEN job[t].items ELSE 0]
  /\ ret' = [ret EXCEPT ![t] = 1]
  /\ Go(t, CASE job[t].kind = "insert" -> "item"
             [] job[t].kind = "update" -> "ignore"
             [] job[t].kind = "delete" -> "delete")
  /\ UNCHANGED <<conn, disk, job, number, calls, sessions, declined>>

(* BEGIN.  It fails when a transaction is open on the connection, which    *)
(* nobody notices.                                                         *)
Begin(t) ==
  /\ At(t, "begin") /\ job[t].kind # "nodata"
  /\ open' = (open \/ connection = "up")
  /\ todo' = [todo EXCEPT ![t] = IF job[t].kind = "insert" THEN job[t].items ELSE 0]
  /\ ret' = [ret EXCEPT ![t] = 1]
  /\ Go(t, CASE job[t].kind = "insert" -> "item"
             [] job[t].kind = "update" -> "ignore"
             [] job[t].kind = "delete" -> "delete")
  /\ UNCHANGED <<conn, db, view, changes, job, number, calls, sessions, declined>>

-----------------------------------------------------------------------------
(* Statements.  One is executed as a whole; outside of a transaction it is *)
(* on disk at once.  What it changed is asked for in a second call, which  *)
(* may find the number of another thread's statement.                      *)

With(T, k, row) == [i \in DOMAIN T \cup {k} |-> IF i = k THEN row ELSE T[i]]
Without(T, k) == [i \in DOMAIN T \ {k} |-> T[i]]

Executed(table, n) ==
  /\ view' = table
  /\ db' = IF open THEN db ELSE table
  /\ changes' = n
  /\ UNCHANGED open

(* The statement leaves everything as it is and the call answers "res".    *)
Answer(t, res, place) ==
  /\ ret' = [ret EXCEPT ![t] = res]
  /\ Go(t, place)
  /\ UNCHANGED disk

(* Not connected, or (MayFail) an error: a full disk, another process.     *)
Fails(t, place) ==
  \/ connection = "broken" /\ Answer(t, 0, place)
  \/ connection = "up" /\ "statement" \in failures /\ Answer(t, -1, place)

settled == <<conn, job, number, calls, sessions, declined>>

(* The number of a new row: one more than the highest key.                 *)
Sequence(t) ==
  /\ At(t, "item") /\ todo[t] > 0
  /\ Max(DOMAIN view \cup {0}) < MaxKey
  /\ number' = [number EXCEPT ![t] =
       IF connection = "up" THEN Max(DOMAIN view \cup {0}) + 1 ELSE 0]
  /\ Go(t, "insert")
  /\ UNCHANGED <<conn, disk, job, todo, ret, calls, sessions, declined>>

(* INSERT: it fails if there is a row with that key.                       *)
Insert(t) ==
  /\ At(t, "insert")
  /\ \/ /\ connection = "up" /\ number[t] \notin DOMAIN view
        /\ Executed(With(view, number[t], Mine(t)), 1)
        /\ Go(t, "counted")
        /\ UNCHANGED <<todo, ret>>
     \/ /\ \/ connection = "up" /\ number[t] \in DOMAIN view /\ Answer(t, -1, "item")
           \/ Fails(t, "item")
        /\ todo' = [todo EXCEPT ![t] = @ - 1]
  /\ UNCHANGED settled

(* INSERT OR IGNORE, for an update of the row with the key.                *)
InsertOrIgnore(t) ==
  /\ At(t, "ignore")
  /\ LET k == job[t].key
     IN  \/ /\ connection = "up"
            /\ IF k \in DOMAIN view
               THEN Executed(view, 0)
               ELSE Executed(With(view, k, Mine(t)), 1)
            /\ Go(t, "ignored")
            /\ UNCHANGED ret
         \/ Fails(t, "end")
  /\ UNCHANGED <<settled, todo>>

Ignored(t) ==
  /\ At(t, "ignored")
  /\ IF changes = 0
     THEN Go(t, "update") /\ UNCHANGED ret
     ELSE Go(t, "end") /\ ret' = [ret EXCEPT ![t] = changes]
  /\ UNCHANGED <<settled, disk, todo>>

Update(t) ==
  /\ At(t, "update")
  /\ LET k == job[t].key
     IN  \/ /\ connection = "up"
            /\ IF k \in DOMAIN view
               THEN Executed(With(view, k, Mine(t)), 1)
               ELSE Executed(view, 0)
            /\ Go(t, "counted")
            /\ UNCHANGED ret
         \/ Fails(t, "end")
  /\ UNCHANGED <<settled, todo>>

Delete(t) ==
  /\ At(t, "delete")
  /\ LET k == job[t].key
     IN  \/ /\ connection = "up"
            /\ Executed(Without(view, k), IF k \in DOMAIN view THEN 1 ELSE 0)
            /\ Go(t, "counted")
            /\ UNCHANGED ret
         \/ Fails(t, "end")
  /\ UNCHANGED <<settled, todo>>

(* sqlite3_changes.  For an insert the next item follows.                  *)
Counted(t) ==
  /\ At(t, "counted")
  /\ ret' = [ret EXCEPT ![t] = changes]
  /\ IF job[t].kind = "insert"
     THEN Go(t, "item") /\ todo' = [todo EXCEPT ![t] = @ - 1]
     ELSE Go(t, "end") /\ UNCHANGED todo
  /\ UNCHANGED <<settled, disk>>

NoItems(t) ==
  /\ At(t, "item") /\ todo[t] = 0
  /\ Go(t, "end")
  /\ UNCHANGED <<settled, disk, todo, ret>>

-----------------------------------------------------------------------------
(* COMMIT or ROLLBACK; without an open transaction neither does anything.  *)
Commit == db' = view /\ open' = FALSE /\ UNCHANGED <<view, changes>>
Rollback == view' = db /\ open' = FALSE /\ UNCHANGED <<db, changes>>

(* Mutation: the session is closed a second time.                          *)
CloseTwice(t) ==
  /\ sessions' = [sessions EXCEPT ![t] = @ - 2]
  /\ declined' = declined \cup (IF ret[t] = 0 THEN {Mine(t)} ELSE {})
  /\ Go(t, "idle")
  /\ UNCHANGED <<conn, local>>

(* adbl_closeSession, and the call is over.                                *)
Close(t) ==
  /\ sessions' = [sessions EXCEPT ![t] = @ - 1]
  /\ declined' = declined \cup (IF ret[t] = 0 THEN {Mine(t)} ELSE {})
  /\ Go(t, "idle")
  /\ UNCHANGED <<conn, local>>

(* Mutation: without an answer there is nothing to end.                    *)
EndForgets(t) ==
  /\ At(t, "end")
  /\ IF ret[t] # 0 /\ open THEN Commit ELSE UNCHANGED disk
  /\ Close(t)

(* Mutation: the two are mixed up.                                         *)
EndSwapped(t) ==
  /\ At(t, "end")
  /\ IF ~open THEN UNCHANGED disk ELSE IF ret[t] = 0 THEN Commit ELSE Rollback
  /\ Close(t)

(* The end of the call.  A COMMIT that fails leaves the transaction open,  *)
(* and the call answers TRUE all the same.                                 *)
End(t) ==
  /\ At(t, "end")
  /\ \/ IF ~open THEN UNCHANGED disk ELSE IF ret[t] = 0 THEN Rollback ELSE Commit
     \/ "commit" \in failures /\ ret[t] # 0 /\ UNCHANGED disk
  /\ Close(t)

-----------------------------------------------------------------------------
Step(t) ==
  \/ Lock(t) \/ Look(t) \/ Connect(t) \/ NoData(t) \/ Begin(t)
  \/ Sequence(t) \/ Insert(t) \/ NoItems(t)
  \/ InsertOrIgnore(t) \/ Ignored(t) \/ Update(t) \/ Delete(t) \/ Counted(t) \/ End(t)

(* The process ends: by an item that names its own primary key, which      *)
(* adbo_node_insert looks up with a constraint that is NULL, or by force.  *)
(* SQLite takes an open transaction back when the file is opened again.    *)
Crash ==
  /\ "crash" \in failures /\ \E t \in users : ~At(t, "idle")
  /\ view' = db /\ open' = FALSE /\ changes' = 0
  /\ mutex' = Null /\ connection' = "none" /\ connects' = 0
  /\ pc' = [t \in Threads |-> "idle"]
  /\ sessions' = [t \in Threads |-> 0]
  /\ UNCHANGED <<fixed, db, local, declined>>

Next == Crash \/ \E t \in Threads : Step(t) \/ \E j \in Jobs : Call(t, j)

Spec == Init /\ [][Next]_vars

-----------------------------------------------------------------------------
(* Properties.                                                             *)

(* However many threads open their first session at once, the source is    *)
(* connected once, and everybody who has a session finds a connection.     *)
ConnectedOnce ==
  /\ connects <= 1
  /\ \A t \in Threads : sessions[t] > 0 => connection # "none"

(* A transaction does not outlive the calls, unless a COMMIT failed:       *)
(* someone who is in a call will still commit or roll back.                *)
InCall(t) == pc[t] \notin {"idle", "lock", "look", "connect", "begin"}
TransactionEnds ==
  "commit" \notin failures =>
    /\ open => \E t \in Threads : InCall(t)
    /\ (\A t \in Threads : ~InCall(t)) => db = view

Alone == Cardinality(users) = 1

(* "commit / rollback all changes": at no time, also after a crash, the    *)
(* table on disk has some of the rows of an insert and not the others, nor *)
(* anything of a call that answered FALSE, when no other thread calls and  *)
(* no statement fails ...                                                  *)
Written(t) == Cardinality({k \in DOMAIN db : db[k] = Mine(t)})
AllOrNothing ==
  (Alone /\ "statement" \notin failures) =>
    /\ \A k \in DOMAIN db : db[k] \notin declined
    /\ \A t \in users : job[t].kind = "insert" => Written(t) \in {0, job[t].items}

(* ... and a call that answered FALSE leaves nothing, whoever calls.       *)
FalseLeavesNothing ==
  \A k \in DOMAIN db : db[k] \notin declined

(* When a call answers TRUE, all it was asked for is on disk ...           *)
Complete(t, table) ==
  LET k == job[t].key
  IN  CASE job[t].kind = "insert" ->
             Cardinality({i \in DOMAIN table : table[i] = Mine(t)}) = job[t].items
        [] job[t].kind = "update" -> k \in DOMAIN table /\ table[k] = Mine(t)
        [] job[t].kind = "delete" -> k \notin DOMAIN table

AnswersTrue(t) ==
  At(t, "end") /\ pc'[t] = "idle" /\ ret[t] # 0 /\ connection' # "none"

TrueIsComplete ==
  [][\A t \in Threads : AnswersTrue(t) => Complete(t, db')]_vars

(* ... when no other thread calls and no statement or COMMIT fails; a      *)
(* database that cannot be opened is no excuse.                            *)
CalmIsComplete ==
  [][\A t \in Threads :
       (AnswersTrue(t) /\ Alone /\ failures \subseteq {"connect", "crash"}) => Complete(t, db')]_vars

(* A call closes the session it opened ("execute in extra method to avoid  *)
(* memory leaks in query and dbsession").                                  *)
SessionsClosed == \A t \in Threads : At(t, "idle") => sessions[t] = 0

(* Types, and one connection that everybody who has a session finds.       *)
ConnectionInv == TypeOK /\ ConnectedOnce
=============================================================================
