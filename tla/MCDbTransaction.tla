--------------------------- MODULE MCDbTransaction ---------------------------
(* Small instances of DbTransaction: one thread with every failure, one    *)
(* where only connecting fails, and two threads that share the connection. *)
EXTENDS DbTransaction, TLC

CONSTANTS t1, t2

InsertJob(items) == [kind |-> "insert", items |-> items]
KeyJob(kind, k) == [kind |-> kind, key |-> k]

SmallJobs == {InsertJob(1), InsertJob(2),
              KeyJob("update", 1), KeyJob("update", 2), KeyJob("delete", 1),
              [kind |-> "nodata"]}
Setting(n, faults) ==
  {[users |-> u, failures |-> faults] : u \in {v \in SUBSET Threads : Cardinality(v) = n}}
OneOrTwo ==
  Setting(1, {"connect", "crash"}) \cup Setting(1, {"connect", "statement", "commit"})
    \cup Setting(2, {"connect", "statement"})
AloneStatement == Setting(1, {"statement"})
Interchangeable == Permutations(Threads)
=============================================================================
