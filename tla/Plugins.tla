------------------------------- MODULE Plugins ------------------------------
(***************************************************************************)
(* One connection of the SQLite plugin (src/libadbl/adbl_sqlite/           *)
(* adbl_sqlite3.c) or of the MySQL plugin (src/libadbl/adbl_mysql/         *)
(* adbl_mysql.c), used by one thread: statements and cursors, transactions *)
(* and sequences.  Every statement may fail, BEGIN, COMMIT and ROLLBACK,   *)
(* too.  The texts of the statements are in Sql.  A table is the set of its*)
(* ids; other users of the database insert into it, too.                   *)
(***************************************************************************)
EXTENDS Integers, FiniteSets, Sequences, FiniteSetsExt

CONSTANTS
  PColumns,   \* of a query
  PMaxId,     \* bound on the ids
  PMaxSteps   \* bound on the calls

ASSUME PluginConstants == PColumns \in Nat \ {0} /\ {PMaxId, PMaxSteps} \subseteq Nat

VARIABLES
  pkind,    \* sqlite, mysql, or ansi: MySQL with names in quotes
  popen,    \* no, open, or deaf: a connection of SQLite without a handle,
            \* which refuses every statement
  prows,    \* the table as this connection sees it
  pkept,    \* what is committed
  pinside,  \* SQLite is in a transaction
  pauto,    \* the next id that MySQL makes
  pchecks,  \* foreign keys are checked in this connection
  pstmts,   \* statements that are open
  pcursor,  \* the rows ahead, whether there is a row, the next column; or closed
  pdata,    \* the column the last call of _data or _nextdata came from, 0: NULL
  pseqs,    \* the two sequences: closed, or the last number
  pgiven,   \* the numbers given by the sequences
  pmeant,   \* what the user has committed, and what others have
  pothers,  \* the ids that other users have taken
  pwrote,   \* what the user has inserted and not committed
  pgone,    \* what is committed and the user has deleted since
  pside,    \* what went wrong on the way: statement, checks, committed
  psteps

pluginVars == <<pkind, popen, prows, pkept, pinside, pauto, pchecks, pstmts, pcursor, pdata, pseqs,
                pgiven, pmeant, pothers, pwrote, pgone, pside, psteps>>
ptables == <<prows, pkept, pinside, pauto, pmeant, pothers, pwrote, pgone>>
pread   == <<pstmts, pcursor, pdata>>
pnumber == <<pseqs, pgiven, pchecks>>

Closed0 == [ahead |-> 0, row |-> FALSE, pos |-> 0, open |-> FALSE]
Sqlite == pkind = "sqlite"
Works == popen = "open"
Ids == 1 .. PMaxId

PluginInit ==
  /\ pkind \in {"sqlite", "mysql", "ansi"} /\ popen = "no"
  /\ prows = {} /\ pkept = {} /\ pinside = FALSE /\ pauto = 1 /\ pchecks = TRUE
  /\ pstmts = 0 /\ pcursor = Closed0 /\ pdata = 0
  /\ pseqs = [n \in 1 .. 2 |-> -1] /\ pgiven = <<>>
  /\ pmeant = {} /\ pothers = {} /\ pwrote = {} /\ pgone = {} /\ pside = {} /\ psteps = 0

(* The database keeps what the connection sees, or takes back what it has  *)
(* not committed.                                                          *)
Kept == pkept' = prows /\ pwrote' = {} /\ pgone' = {}
TakenBack == prows' = pkept /\ pinside' = FALSE /\ pwrote' = {} /\ pgone' = {}

-----------------------------------------------------------------------------
(* adblmodule_dbconnect: SQLite gives a connection also when it has not    *)
(* opened the file; MySQL gives none when the server refuses.              *)
PluginConnect ==
  /\ popen = "no"
  /\ popen' \in IF Sqlite THEN {"open", "deaf"} ELSE {"open", "no"}
  /\ pchecks' = TRUE
  /\ UNCHANGED <<ptables, pread, pseqs, pgiven, pside>>

(* adblmodule_dbdisconnect of a connection that nothing refers to: what is *)
(* not committed is lost.                                                  *)
PluginDisconnect ==
  /\ popen # "no" /\ ~pcursor.open /\ \A n \in 1 .. 2 : pseqs[n] = -1
  /\ popen' = "no"
  /\ TakenBack
  /\ UNCHANGED <<pkept, pauto, pmeant, pothers, pread, pnumber, pside>>

-----------------------------------------------------------------------------
(* adblmodule_dbinsert and _dbupdate of a row.  SQLite keeps it at once    *)
(* when it is in no transaction; MySQL never does (autocommit = 0).        *)
WriteRow ==
  /\ Works
  /\ \E id \in Ids \ prows :
       /\ prows' = prows \cup {id} /\ pgone' = pgone \ {id}
       /\ pauto' = IF id >= pauto THEN id + 1 ELSE pauto
       /\ IF Sqlite /\ ~pinside
          THEN pkept' = pkept \cup {id} /\ pmeant' = pmeant \cup {id} /\ UNCHANGED pwrote
          ELSE pwrote' = pwrote \cup {id} /\ UNCHANGED <<pkept, pmeant>>
  /\ UNCHANGED <<popen, pinside, pothers, pread, pnumber, pside>>

(* The rows that adblmodule_dbdelete asks for.  Without a constraint MySQL *)
(* deletes nothing and SQLite all rows, if it must; a constraint that has  *)
(* no elements is no WHERE, and meets all rows.                            *)
Deleted(constrained, forced) ==
  IF constrained THEN SUBSET prows ELSE {IF Sqlite /\ forced THEN prows ELSE {}}

(* Mutation: MySQL keeps a deletion at once.                               *)
DeleteAtOnce ==
  /\ Works
  /\ \E constrained, forced \in BOOLEAN : \E gone \in Deleted(constrained, forced) :
       /\ prows' = prows \ gone /\ pwrote' = pwrote \ gone
       /\ pkept' = pkept \ gone
       /\ IF Sqlite /\ ~pinside THEN pmeant' = pmeant \ gone ELSE UNCHANGED pmeant
  /\ UNCHANGED <<popen, pinside, pauto, pothers, pgone, pread, pnumber, pside>>

PluginDelete ==
  /\ Works
  /\ \E constrained, forced \in BOOLEAN : \E gone \in Deleted(constrained, forced) :
       /\ prows' = prows \ gone /\ pwrote' = pwrote \ gone
       /\ IF Sqlite /\ ~pinside
          THEN pkept' = pkept \ gone /\ pmeant' = pmeant \ gone /\ UNCHANGED pgone
          ELSE pgone' = pgone \cup (gone \cap pkept) /\ UNCHANGED <<pkept, pmeant>>
  /\ UNCHANGED <<popen, pinside, pauto, pothers, pread, pnumber, pside>>

(* A statement fails, and its caller gets nothing, 0 or -1, or is not told *)
(* (begin, commit, rollback).  The database has done nothing, or has taken *)
(* the transaction back: SQLite without space or memory, MySQL in a dead-  *)
(* lock and when the connection is lost; the next statement has a new one  *)
(* (MYSQL_OPT_RECONNECT), in which foreign keys are checked.               *)
StatementFails ==
  /\ Works
  /\ \/ UNCHANGED <<prows, pinside, pwrote, pgone, pchecks>>
     \/ TakenBack /\ pchecks' \in IF Sqlite THEN {pchecks} ELSE {pchecks, TRUE}
  /\ UNCHANGED <<popen, pkept, pauto, pmeant, pothers, pread, pseqs, pgiven, pside>>

(* Another user: he takes the number behind the last one.                  *)
OtherWrites ==
  /\ Works /\ ~pinside /\ pauto <= PMaxId
  /\ LET id == IF Sqlite THEN Max({0} \cup prows) + 1 ELSE pauto
     IN  /\ id \in Ids \ prows
         /\ prows' = prows \cup {id} /\ pkept' = pkept \cup {id} /\ pmeant' = pmeant \cup {id}
         /\ pothers' = pothers \cup {id} /\ pgone' = pgone \ {id}
         /\ pauto' = IF id >= pauto THEN id + 1 ELSE pauto
  /\ UNCHANGED <<popen, pinside, pwrote, pread, pnumber, pside>>

(* adblmodule_dbbegin: MySQL commits what was open; SQLite refuses a second*)
(* one.                                                                    *)
PluginBegin ==
  /\ Works
  /\ IF Sqlite THEN pinside' = TRUE /\ UNCHANGED <<pkept, pwrote, pgone, pside>>
     ELSE /\ Kept /\ UNCHANGED pinside
          /\ pside' = pside \cup (IF prows = pkept THEN {} ELSE {"committed"})
  /\ UNCHANGED <<popen, prows, pauto, pmeant, pothers, pread, pnumber>>

PluginCommit ==
  /\ Works
  /\ Kept /\ pmeant' = prows /\ pinside' = FALSE
  /\ UNCHANGED <<popen, prows, pauto, pothers, pread, pnumber, pside>>

(* Mutation: the transaction goes on.                                      *)
RollbackNothing ==
  /\ Works
  /\ pinside' = FALSE /\ pwrote' = {} /\ pgone' = {}
  /\ UNCHANGED <<popen, prows, pkept, pauto, pmeant, pothers, pread, pnumber, pside>>

PluginRollback ==
  /\ Works
  /\ TakenBack
  /\ UNCHANGED <<popen, pkept, pauto, pmeant, pothers, pread, pnumber, pside>>

-----------------------------------------------------------------------------
(* adblmodule_dbquery: SQLite prepares the statement; MySQL runs it, has   *)
(* all its rows, and commits.  The column that MySQL starts at is not      *)
(* initialised.  A query that fails is StatementFails: MySQL closes it.    *)
PluginQuery ==
  /\ Works /\ ~pcursor.open
  /\ \E pos \in IF Sqlite THEN {0} ELSE {0, PColumns} :
       pcursor' = [ahead |-> IF Sqlite THEN 0 ELSE Cardinality(prows),
                   row |-> FALSE, pos |-> pos, open |-> TRUE]
  /\ pstmts' = pstmts + 1
  /\ IF Sqlite THEN UNCHANGED <<pkept, pwrote, pgone, pside>>
     ELSE Kept /\ pside' = pside \cup (IF prows = pkept THEN {} ELSE {"committed"})
  /\ UNCHANGED <<popen, prows, pinside, pauto, pmeant, pothers, pdata, pnumber>>

(* adblmodule_dbprocedure: there is none in SQLite; MySQL commits even if  *)
(* it failed, and says nothing when it cannot commit.                      *)
PluginProcedure ==
  /\ Works /\ ~Sqlite
  /\ Kept /\ pside' = pside \cup (IF prows = pkept THEN {} ELSE {"committed"})
  /\ UNCHANGED <<popen, prows, pinside, pauto, pmeant, pothers, pread, pnumber>>

(* adblmodule_dbtable_size: SQLite leaves its statement open when there is *)
(* no row.                                                                 *)
PluginTableSize ==
  /\ Works
  /\ \/ UNCHANGED <<pstmts, pside>>
     \/ Sqlite /\ pstmts' = pstmts + 1 /\ pside' = pside \cup {"statement"}
  /\ UNCHANGED <<popen, ptables, pcursor, pdata, pnumber>>

(* adblmodule_dbcursor_next: only SQLite starts each row at its first      *)
(* column; it runs the statement at the first call, and again at the one   *)
(* after FALSE.  An error while rows are ahead is FALSE, as the end is.    *)
Ahead == IF Sqlite /\ ~pcursor.row THEN Cardinality(prows) ELSE pcursor.ahead
PluginFetch ==
  /\ pcursor.open
  /\ LET pos == IF Sqlite THEN 0 ELSE pcursor.pos
     IN  \/ Ahead > 0 /\ pcursor' = [ahead |-> Ahead - 1, row |-> TRUE, pos |-> pos, open |-> TRUE]
         \/ pcursor' = [ahead |-> 0, row |-> FALSE, pos |-> pos, open |-> TRUE]
  /\ UNCHANGED <<popen, ptables, pstmts, pdata, pnumber, pside>>

(* adblmodule_dbcursor_data and _nextdata of a row.                        *)
DataOf(column) == IF pcursor.row /\ column < PColumns THEN column + 1 ELSE 0
PluginData ==
  /\ pcursor.open /\ pcursor.row
  /\ \E column \in 0 .. PColumns : pdata' = DataOf(column)
  /\ UNCHANGED <<popen, ptables, pstmts, pcursor, pnumber, pside>>
PluginNextData ==
  /\ pcursor.open /\ pcursor.row /\ pcursor.pos <= PColumns
  /\ pdata' = DataOf(pcursor.pos)
  /\ pcursor' = [pcursor EXCEPT !.pos = @ + 1]
  /\ UNCHANGED <<popen, ptables, pstmts, pnumber, pside>>

PluginRelease ==
  /\ pcursor.open
  /\ pcursor' = Closed0 /\ pstmts' = pstmts - 1
  /\ UNCHANGED <<popen, ptables, pdata, pnumber, pside>>

-----------------------------------------------------------------------------
(* adblmodule_dbsequence_get.  SQLite: the largest id of the primary key,  *)
(* and zero without one, or when it cannot be asked for; MySQL: a table    *)
(* with one primary key that counts itself, or no sequence.                *)
SequenceMade ==
  /\ popen # "no"
  /\ \E n \in 1 .. 2 :
       /\ pseqs[n] = -1
       /\ \/ /\ Works
             /\ pseqs' = [pseqs EXCEPT ![n] = IF Sqlite THEN Max({0} \cup prows) ELSE 0]
          \/ UNCHANGED pseqs
  /\ UNCHANGED <<popen, ptables, pread, pchecks, pgiven, pside>>

SequenceRelease ==
  /\ \E n \in 1 .. 2 : pseqs[n] >= 0 /\ pseqs' = [pseqs EXCEPT ![n] = -1]
  /\ UNCHANGED <<popen, ptables, pread, pchecks, pgiven, pside>>

(* adblmodule_dbsequence_next of SQLite: the next number.                  *)
SqliteSequenceNext ==
  /\ Sqlite
  /\ \E n \in 1 .. 2 :
       /\ pseqs[n] >= 0 /\ pseqs[n] < PMaxId
       /\ pseqs' = [pseqs EXCEPT ![n] = @ + 1]
       /\ pgiven' = Append(pgiven, pseqs[n] + 1)
  /\ UNCHANGED <<popen, ptables, pread, pchecks, pside>>

(* Mutation: the row is inserted with the number of the last one.          *)
MysqlSequenceAgain ==
  /\ ~Sqlite /\ Works /\ \E n \in 1 .. 2 : pseqs[n] >= 0
  /\ pauto <= PMaxId
  /\ \E fails \in {"off", "insert", "delete", "on", "no"} :
       /\ pkind = "ansi" => fails \notin {"on", "no"}
       /\ pchecks' = (pchecks /\ fails \in {"off", "no"})
       /\ pside' = pside \cup (IF fails = "no" THEN {} ELSE {"checks"})
       /\ pauto' = IF fails \in {"off", "insert"} THEN pauto ELSE pauto + 1
       /\ prows' = IF fails = "delete" THEN prows \cup {pauto} ELSE prows
       /\ pgiven' = IF fails = "no" THEN Append(pgiven, pauto - 1) ELSE pgiven
  /\ UNCHANGED <<popen, pkept, pinside, pmeant, pothers, pwrote, pgone, pread, pseqs>>

(* That of MySQL: the checks are switched off, a row is inserted and gives *)
(* its number, the row is deleted, the checks are switched on.  It ends    *)
(* where a step fails; with quotes around the names the third one always   *)
(* does.                                                                   *)
MysqlSequenceNext ==
  /\ ~Sqlite /\ Works /\ \E n \in 1 .. 2 : pseqs[n] >= 0
  /\ pauto <= PMaxId
  /\ \E fails \in {"off", "insert", "delete", "on", "no"} :
       /\ pkind = "ansi" => fails \notin {"on", "no"}
       /\ pchecks' = IF fails = "off" THEN pchecks ELSE fails = "no"
       /\ pside' = pside \cup (IF fails = "no" THEN {} ELSE {"checks"})
       /\ pauto' = IF fails \in {"off", "insert"} THEN pauto ELSE pauto + 1
       /\ prows' = IF fails = "delete" THEN prows \cup {pauto} ELSE prows
       /\ pgiven' = IF fails = "no" THEN Append(pgiven, pauto) ELSE pgiven
  /\ UNCHANGED <<popen, pkept, pinside, pmeant, pothers, pwrote, pgone, pread, pseqs>>

PluginCall ==
  \/ PluginConnect \/ PluginDisconnect
  \/ WriteRow \/ PluginDelete \/ StatementFails \/ OtherWrites \/ PluginBegin \/ PluginCommit \/ PluginRollback
  \/ PluginQuery \/ PluginProcedure \/ PluginTableSize
  \/ PluginFetch \/ PluginData \/ PluginNextData \/ PluginRelease
  \/ SequenceMade \/ SequenceRelease \/ SqliteSequenceNext \/ MysqlSequenceNext
PluginNext == psteps < PMaxSteps /\ psteps' = psteps + 1 /\ UNCHANGED pkind /\ PluginCall

-----------------------------------------------------------------------------
(* What is kept is what the user committed, whatever fails, unless a query,*)
(* a procedure or a second beginning of MySQL committed for him; what the  *)
(* connection sees is what is kept without what it deleted and with what it*)
(* wrote since, and rows a sequence failed to take back.  MySQL gives no   *)
(* number twice and none that another user has.  Foreign keys are checked  *)
(* unless a sequence failed, and no statement is open but that of the      *)
(* cursor unless SQLite left that of a size.                               *)
PluginsKeep ==
  /\ pkept \ pgone \subseteq prows
  /\ "committed" \notin pside => pkept = pmeant
  /\ "checks" \notin pside => prows = (pkept \ pgone) \cup pwrote /\ pchecks
  /\ ~Sqlite => /\ \A i, j \in DOMAIN pgiven : pgiven[i] = pgiven[j] => i = j
                /\ \A i \in DOMAIN pgiven : pgiven[i] \notin pothers
  /\ pstmts >= (IF pcursor.open THEN 1 ELSE 0)
  /\ "statement" \notin pside => pstmts = (IF pcursor.open THEN 1 ELSE 0)
=============================================================================
