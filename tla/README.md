# Verification of entc, libadbl and libadbo

TLA+ models of this repository, the TLC configurations that check them on small instances, and TLAPS
proofs of what matters most for every instance. Each module is translated from the C source;
`PROJECT.json` names, for every definition, the lines it stands for.

    tlc -workers 4 -config Tasks.cfg MCTasks      # one run
    tlapm EventQueueProofs.tla                    # one proof module

## 1. The system

`entc` is a C base library, `libadbl` a database abstraction with plug-ins on top of it, `libadbo` maps
objects to tables with libadbl.

| layer | directory | what it has |
|---|---|---|
| system | `entc/system` | mutexes, threads, events and `select()`, sockets, child processes, files, IPC |
| types, utils | `entc/types`, `entc/utils` | lists, maps, chains, buffers, streams, the data tree, message registry, logger, file observer |
| tools | `entc/tools` | the accept/worker server, TCP/UDP contexts of the async pool, HTTP, MIME, mail, JSON, XML, a binary format |
| libadbl | `libadbl/core`, `libadbl/adbl_*` | manager, sessions, request builders; plug-ins for SQLite, MySQL, Oracle |
| libadbo | `libadbo/core` | the object nodes, their rows and their updates |

    ecserver ---------> event queue <------- async pool <---- stream workers, accept, UDP dispatcher
    file observer ----> (inotify)                             (contexts of ecasyncvc.c)
    HTTP server ------> stream buffer, multipart parser, temporary files
    logger --> messages --> read/write lock
    adbo_node --> adbl_manager (mutex) --> plug-in (connection shared by all threads)
    every ecthread loop --> wait(0) <--> ecexec_run's waitpid

### Components: state, hard behaviour, correctness

**Event queue** (`ecevents_linux.c`). The mutex is held *during* `select()`; who wants to change the set
writes a token into `intrfd` to throw the waiter out, takes the mutex, and reads the token back. Hard:
tokens of several changes meet in one counter; the callback that destroys an object closes its handle,
whose number the kernel gives out again; several waiters share one abort. Correct when `select()` never
watches a closed handle, every object is destroyed once and not lost, changes return, events and aborts
are noticed.

**File observer** (`ecobserver.c`, the `ece_files` half of `ecevents_linux.c`). A thread follows a file
that is written, moved away and replaced, and shares its handle with the application without a lock.
Correct when an open handle is the file that has the name and is watched, and changes are told.

**Read/write lock** (`ecmutex_unix.c`). The first reader waits for `mutex_w` with `mutex_r` in its hands;
`mutex_w` is unlocked by another thread than its locker. Correct when it is a reentrant shared/exclusive lock.

**Accept/worker server** (`ecserver.c`). An accept thread appends to a list, workers take from it; one
event wakes one worker, the rest is served through a chain of wake-ups. Correct when every object is
served once and in order, and the abort ends everybody.

**Async pool** (`ecasyncio.c`). Threads with a queue each; a client goes to the thread whose queue looks
shortest, by sizes that are stale when used. A hand-over and a removal are changes of an event queue: they
wait for its waiter, and may be refused. Correct when each client has one home, the load stays balanced,
clients are served, the pool can be destroyed.

**Stream workers, UDP dispatcher** (`ecasyncvc.c`, `ecsocket_readBunch`). The strict worker collects as many
bytes as its idle callback asks for, from any fragments. The dispatcher has a mutex for the map of peers
and one for each context. Correct when callbacks get the stream in the sizes asked for; when a peer has
one context, no freed one is used, and nobody is stuck.

**Message registry** (`ecmessages.c`). Callbacks run under the read lock and may send again. Correct when a
callee stays registered while it runs, everybody is reached, and calls return.

**Child processes** (`ecexec_unix.c`, `ecthread_unix.c`). Two pipes, `waitpid`, then the reads; other
threads' loops wait for *any* child. Correct when the run returns with all output and the status.

**IPC** (`ecipc.c`). Semaphores with `SEM_UNDO` between processes that may end anywhere. Correct when one
process is in, and the next gets in whatever became of it.

**Containers, buffers, strings** (`entc/types`, `entc/utils`). Rings of nodes with cursors that erase, slots
with a free list, segments, growing buffers, windows on a file. Correct when they hold what they were
given after any sequence of calls.

**Data tree** (`ecudc.c`). Items owned by the program or by one container. Correct when nothing has two
owners or none.

**HTTP, MIME, mail, pages** (`echttp.c`, `ecmime.c`, `ecmail.c`, `echtml.c`). A request goes through content in
memory or in temporary files, callbacks and one answer; a multipart message goes through buffers and
chunks of any size; a mail session meets any answers. Correct when a request is answered once and leaves
nothing behind, parts arrive as they were sent, and what the client says became of a mail is true.

**Formats** (`ecjson.c`, `ecxml*.c`, `eclparser.c`, `ecbins.c`, `ecfile*.c`). Correct when what is written reads
back as it was, and paths, lines and directories are taken apart at the right places.

**Database manager** (`adbl_manager.c`), **requests** (`libadbl/core`), **plug-ins** (`adbl_sqlite3.c`,
`adbl_mysql.c`), **object nodes** (`adbo_node.c`, `adbo_item.c`). A session is a *reference* to the one
lazily made connection of its source; a node update is a transaction of several statements, with many
early returns. Hard: threads share the transaction; a statement, the COMMIT, the connect or the process
fails in the middle; a MySQL statement may commit by itself; a filter limits a change only by the keys it
has. Correct when there is one connection, no transaction is left open, FALSE means nothing happened and
TRUE means everything did, also after a crash; a request means what was said since it was cleared; rows
the filter does not name stay.

## 2. Modules

Concurrent and distributed parts; one `pc` per thread or process, one action per step between two points
where another can interfere:

| module | code | how it corresponds |
|---|---|---|
| `EventQueue` | `ecevents_linux.c` | *Call* puts the token; `Lock` is `pthread_mutex_lock`; `Add`, `Del`, `Size`, `Sortout`, `Select…` are what happens under the mutex; `Reset` the blocking read of the token. `Del`/`DelClear` are split where the callback runs. The environment opens and closes handles, sends data, sets events, aborts, tears down. |
| `EventQueueProofs` | | invariants of EventQueue, in three layers |
| `FileWatch` | `ecobserver.c`, `ece_files_*` | application, notification thread, other programs, kernel with its watches and their events |
| `SharedExclusive` | interface of the lock | `BeginRead`, `EndRead`, `BeginWrite`, `EndWrite`, `Upgrade` |
| `ReadWriteLock` | `ecmutex_unix.c` | one action for each lock, unlock and counter access of each operation |
| `ReadWriteLockProofs` | | inductive invariant and refinement |
| `JobPool` | what `ecserver.h` promises | objects wait, are taken in order, finished or cleared |
| `Server` | `ecserver.c` | accept thread, worker loop with its wake-up chain, main thread; EventQueue's actions as conjuncts |
| `ServerProofs` | | no object lost or taken twice, no wake-up lost; refinement of JobPool |
| `AsyncIO` | `ecasyncio.c` | each thread's queue with its tokens; a change of a queue is three steps, as in EventQueue: token, change under the mutex, token read back (`Store`, `Put` or `Refused`, `Added`; `Del`, `Remove`, `Removed`; the owner's `OwnerAdd`, `OwnerPut`, `OwnerAdded`); the scan for the shortest one thread at a time, clear and join; `shared` tells whether the accept context is in all queues |
| `AsyncIOProofs` | | one home for each client, balanced queues |
| `StreamWorker` | `ecasyncvc.c`, `ecsocket_unix.c` | `strict` selects the worker; a byte is its position in the stream; a length is a number modulo 2^Width |
| `AsyncUdp` | `ecasyncvc.c` | places between the locks; `memory` tells live from freed contexts |
| `Messages` | `ecmessages.c` | a stack of calls per thread, each with its place in the live list, and in `wants` the call for which the thread waits for the read lock (`Broadcast`, `Send`, then `Enter`), from a callback or, in `OutOfMemory`, under its own write lock; on SharedExclusive |
| `Exec` | `ecexec_unix.c`, `ecthread_unix.c` | child, pipes, caller, and pool threads in `wait(0)` |
| `TasksProofs` | | invariants of Exec, StreamWorker, AsyncUdp and FileWatch |
| `Ipc` | `ecipc.c` | processes, the semaphore's value and what the kernel undoes for each |
| `DbTransaction` | `adbo_node.c`, `adbl_manager.c`, `adbl_sqlite3.c` | a call is a job; places between the statements; `db` on disk, `view` as the connection sees it; SQLite is external: statements one after the other, its journal, and `Crash` |
| `DbTransactionProofs` | | one connection, transactions end, all or nothing |
| `Plugins` | `adbl_sqlite3.c`, `adbl_mysql.c` | one connection: insert, delete, query, procedure, cursors, transactions, sequences, each of which may fail; `pkept` is committed, `prows` what the connection sees, `pwrote` and `pgone` what it has inserted and deleted in between |
| `Manager` | `adbl_manager.c`, `ecdl.c` | libraries, configuration, credentials, connections, cursors, the end of the manager |
| `ServicesProofs` | | invariants of Ipc, Plugins, Manager, Requests, Messages, HttpFlow and Objects |

Parts used by one thread at a time; one action per operation:

| module | code |
|---|---|
| `Lists` | `eclist.c`; `ecmap.c`, `ecintmap.c`, `ecptrmap.c`, `ecmapchar` |
| `DataProofs` | invariants of Lists, Tables, Streams and DataTree |
| `Tables` | `ectable.c`, `eccursor.c` with the callback of `adbo_node.c`; `ecchain.c`, `ecvector.c` |
| `DataTree` | `ecudc.c` |
| `Streams`, `Lines` | `ecstream.c`, `ecbuffer.c`, `ecsmartbuffer.c`, `ecreadbuffer.c`; `ecstreambuffer.c`, `eclparser.c` |
| `HttpText`, `HttpFlow`, `Mime`, `Clients` | `echttp.c`; `ecmime.c`; `ecmail.c`, `echtml.c` |
| `Requests`, `Objects` | `libadbl/core` (query, insert, update, delete, constraint, attributes); `adbo_node.c`, `adbo_item.c`, `adbo_value.c`, `adbo.c` |

Pure functions, checked over bounded inputs against what they are for:

| module | code |
|---|---|
| `Strings`, `Codecs` | `ecstring.c`; `ecbuffer.c`; what both are for |
| `Json`, `Xml` | `ecjson.c`, `ecbins.c`; `ecxmldom.c`, `ecxmlstream.c`, `ecstack.c` |
| `Sql` | the statement texts of `adbl_sqlite3.c` and `adbl_mysql.c` and the reading of a table's definition; an interpreter of these texts over small tables stands for the database |
| `Paths` | `ecfile.c`, `ecfile_unix.c`, `ecdl.c`, `ecsecfile.c` |

`MCEventQueue`, `MCMessages`, `MCDbTransaction` give constants to one module. `MCTasks`, `MCData` and
`MCServices` put parts that share no state **side by side**: `part` says which one a behaviour exercises,
the others stay as they begin, so the state spaces add up instead of multiplying and a property of one
part is checked in all behaviours of that part.

Operators named "Mutation: …" in comments are faulty variants of the definition that follows. No
specification uses them; put in place of it they show that the properties notice.

## 3. Runs

| run | instance | shows |
|---|---|---|
| `queue_pool` | 1 waiter that also drops, 1 changer, 3 handles of which one is ≥ FD_SETSIZE, 2 objects | `QueueInv` (types, one owner of the mutex, only open handles are watched, a handle being added is nowhere else), `NoObjectLost`, `ObjectsSafe` (an object is destroyed once, and not while a waiter serves it) |
| `queue_listener` | 2 waiters, 1 changer, 1 handle | `ChangeReturns`; `WaitersAreTold`: an event is noticed, an abort reaches all |
| `queue_overlap` | 1 waiter that drops, 1 changer | **refutes** `ChangeReturns`, see 6 |
| `rwlock` | 3 threads, nesting 2, deadlock checked | `Exclusion`, `ReaderNeverBlocked`, `ReaderServed`, `KeepsPromise` (implements SharedExclusive) |
| `server` | 2 workers (one may quit), 2 objects | `ServerInv` (an object is in one place, a wake-up is pending where one is needed), `ServerCompletes`, `KeepsPromise` (implements JobPool) |
| `async` | 2 threads, 2 clients, accept context in one queue or in both; any descriptor may be refused, changes of a queue overlap | `PoolInv` (one home for each client, unless a queue refused it; balanced queues), `PoolServes` (clients are served and the pool of one accepting thread is destroyed, unless a change is stuck) |
| `tasks` | 2 dispatching threads and a broadcaster, or one whose callback closes and broadcasts, 2 peers, 2 datagrams; both workers with 6 bytes in any pieces, a buffer of 2, requests of 0 to 3; pipes of 2, 2 writes, 2 pool threads, a child that may be stopped; 3 files one after the other, 4 operations of other programs | `DispatcherInv`, `BroadcastReturns`; `WorkerInv` (the stream in order, in the sizes asked for), `RunInv` (what a child wrote is read); `ObserverFollows`, `ChangesTold`; `TasksEnd`: a peer that is gone is removed, and `ecexec_run` returns |
| `messages` | 2 threads, 2 modules, 2 methods, calls nested twice | `RegistryInv` (nobody changes the registry under a call, the callee is registered), `ReachesAll` (a broadcast returns after it called every module once and in order), `CallReturns` (also within a read lock, while a writer waits; not where the logger is called under the write lock) |
| `db` | 1 thread with failing connect and a crash, or with failing connect, statements and COMMIT; 2 threads with failing connect and statements; up to 2 calls each | `ConnectionInv`, `TransactionEnds`, `AllOrNothing` (also of what a crash leaves), `CalmIsComplete` |
| `db_failed` | 1 thread, statements may fail | **refutes** `TrueIsComplete`, see 6 |
| `data` | 2 lists of 3 nodes, maps of 3 keys, 2 slots and 5 adds, tables of 3 rows in segments of 2, buffers of 2 and 4 with 7 bytes, 3 tree items; every string up to 5 characters, every byte block up to 7, every listed document, statement, directory, table definition | `ListsKeep`: links follow the order, a cursor gives all once, a map keeps what was stored; `TablesKeep`: cells, rows of a cursor, slots and vectors; `BytesKeep`: buffers and streams give the bytes they were given; `TreeOwned`: one place per item; `TextsReturn`: what is written reads back, what is taken apart is taken apart at the right places |
| `services` | messages of up to 2 sections through buffers of 9 and chunks of 4; requests of 5 lengths with 2 objects; a mail session; every page address up to 4 characters; 3 libraries, 2 configurations, 2 threads; requests of 5 steps; nodes of 3 steps over 3 rows; 8 calls on a connection; 3 processes and 8 steps on a semaphore | `HttpServes`: a request is answered once and leaves nothing; `MessagesArrive`: parts, fields and what a client is told of its mail; `ManagerKeeps`, `RequestsMean`, `PluginsKeep`, `IpcExcludes`; `ObjectsKeep`: rows the filter does not name stay, a fetch reads what was asked for |

**Why the bounds are enough.** Every hazard of the concurrent parts needs two of something: two changes
whose tokens meet, two threads that race for a client, a datagram or a connection, a handle that is closed
and opened again, two pieces of a record. Three lock users give a reader, a returning reader and a writer;
three handles a lower one, a higher one and a refused one. `MaxSignals` and `MaxAborts` bound event
counters that a read resets as a whole: beyond one, a count behaves the same (in `server`, 7 is more than
the workers can add). `MaxNest`, `MaxDepth` bound the recursion of callbacks, two of which show reentrancy;
`MaxSent`, `MaxWrites`, `MaxDatagrams` bound what peers send, one more than fills a buffer or meets another;
`MaxCalls`, `MaxKey` bound a thread's calls and the ids these use up. `WFiles`, `WMaxWatches`, `WMaxOps`
give a file that is moved, replaced and written again before the first event was handled; `WTries` = 1 is
one failed attempt before the observer gives up instead of five. `IMaxSteps` = 8 lets two processes be in
one after the other and a third end in between; section 4 proves the same for any number. In `data`, each
buffer and segment is filled, met exactly and exceeded by one; `CBase` = 2 makes a base64 digit of 3 bits,
so that all group lengths and paddings occur; strings are long enough for two separators with something
before, between and behind. In `services`, content is below, at and above the size kept in memory (2), and
an answer, a part and a boundary straddle every buffer end. The step bounds (`QMaxSteps`, `OMaxSteps`,
`PMaxSteps`) let every operation meet every other one that was done before, with a clear in between.
Deadlock is checked where threads never stop (`rwlock`); elsewhere they may: waiters do not come back after
an abort, the bounds end what the environment does.

**Fairness.** Weak fairness for every step a running thread can take: the scheduler does not stop a thread
for ever. Strong fairness for taking a mutex, though POSIX does not promise it: a thread that finds the
mutex free again and again gets it. Strong fairness also for a thread returning from a callback or
leaving a read section (callbacks are assumed to return and readers to leave), for a thread that asks for
the read lock and finds it free again and again (`ReaderServed` of ReadWriteLock is why it gets it), and for
accepting a client that is there. In `AsyncIO` also for what waits for a queue's mutex or for a token. None for timeouts, signals, calls from outside, data from peers, failures, other programs'
operations on files, crashes or the abort. In `Exec` the child keeps running and a stopped child is
continued by somebody. In `MCTasks` each part keeps the fairness of its module; in a behaviour of another
part its actions are disabled and it asks for nothing.

**Crashes and faults.** `DbTransaction` has a `Crash` between any two steps, after which the journal gives
back what was committed; failing connects, statements and COMMITs are chosen by `Settings`. `Plugins` lets
every statement and every step of a sequence fail (insert, delete, query, BEGIN, COMMIT, ROLLBACK, and a
fetch inside a result), with the database having done nothing or having taken the transaction back, as
after a lost connection; the caller is told what the code tells him, which may be nothing. `AsyncIO` lets
a queue refuse a descriptor, `Messages` a list get no memory. `Ipc` ends processes anywhere. `Clients` lets the peer answer
anything or go away, `HttpFlow` and `Mime` let content end early, `Exec` stops the child, `FileWatch` moves
and replaces files between any two steps.

## 4. What is proved

The proof modules go from an inductive invariant, checked with TLC before it was proved, and hold for
every value of the constants that satisfies the named ASSUME of the module.

**ReadWriteLockProofs**: any finite set of threads, any nesting depth. `IInv` says: `mutex_r` has exactly
the owner whose place is inside; `mutex_w` is locked for exactly one of three reasons (a writer, readers,
a last reader about to unlock it); `counter` is the number of read locks held (a cardinality, with lemmas
for one more and one less); who waits for `mutex_w` inside `mutex_r` does so with no readers. Exclusion
alone is not inductive: it says nothing of why `mutex_w` is locked. Theorems: `LockInvariant`, `LockTyped`,
`LockExcludes`, `LockReentrant`, and `LockKeepsPromise`: every step is a step of SharedExclusive or a
stutter.

**EventQueueProofs**: any threads, handles, objects and signals, in three layers.
1. `QueueOwned`, with no assumption on the threads: types, one owner of the mutex (`InsideOwns`), and
   `CallShape`, which ties every place in the code to the call that passes through it.
2. `QueueWellFormed`: if one thread removes handles (`OneDropper`), then `QueueInv`: the watched handles are
   open. Inductive with it: a handle being added is open, registered nowhere and being added once; one
   a waiter was told, or is removing, is open and not being added. With two droppers this fails in the
   code: both are woken for a handle and the second removal closes what was opened under its number.
3. `QueueLosesNothing`, `QueueFreesOnce` (`ObjectsSafe`): with one waiter and no expiring entry
   (`OneWaiter`), from `ObjectsOwned`: an object has one owner, a slot or the `ece_list_add` that will store
   it, and a pointer left behind is always about to be cleared. An entry that expires is lost by
   `ece_list_sortout` itself, see 6.

**ServerProofs**: any finite set of workers and objects, any answers of the callbacks, the abort at any
time. `ServerInv` says where an object is and that a wake-up is pending while one waits. Inductive with it:
the object the accept thread is about to append is nowhere yet (`Fresh`), a worker's hands hold exactly one
object from taking it to the end of its callback (`HandsFull`), a worker inside `ece_list_wait` was not told
of an event (`Unanswered`), and `ecserver_destroy` joins only workers that stopped (`JoinedStopped`), so
that what it clears is in nobody's hands. `OnePlace` counts places; `Apart` says the same pairwise, which the
provers can use. Theorems `ServerOnce` and `ServerIsJobPool`: every step is one of JobPool or a stutter.

**DbTransactionProofs**: any threads, keys, calls, sizes of inserts and failures; three invariants, each on
top of the one before.
1. `Layout`: types, `CallPlace` (where a thread is belongs to what it was asked) and `OneOpener` (who looks
   for a connection has the manager's mutex until there is one). Hence `ConnectionMadeOnce`.
2. `Transactions`: outside of one, the connection sees what is on disk. Hence `TransactionEndsWithCalls`.
3. `AloneInv`, for a thread that calls alone while no statement fails (`Calm`): `Orderly` says how many rows
   of the call are in the view at each place, as what is still to do and what was asked for; `History`,
   that no row and no answer belongs to a call that comes yet. Hence `AllOrNothingAlone` (also of what a
   crash leaves) and `TrueIsCompleteAlone`. The two conditions are hypotheses inside the properties; section
   6 shows what the code does without them.

**AsyncIOProofs**: any number of threads and clients, changes of a queue in their three steps. `Homed` is
"one home" without counting: a client is waiting, on its way, in one queue, gone, or `lost` when a queue
refused it; `AtWork` ties a client in a thread's hands to the accept context. That the queues stay of like size although each size is
read without a common lock needs two invariants: `Stale` (the smallest size a thread remembers was not
larger than any it has seen) and `Slack` (the threads on their way to a queue that they saw at level v, and
what the queue already has above v, are together no more than the threads that accept). Theorem
`PoolKeepsClients`.

**TasksProofs**
- Exec, any pipes and writes: what was written is in the pipe or was read (`Conserved`); a child that was
  never stopped has ended when `waitpid` answers and both pipes are watched in every round
  (`ReadToTheEnd`); the status is the child's when nobody else waits (`OwnStatus`). Theorem `ChildReadWhole`.
- StreamWorker, any sizes, buffer, width and number of bytes: what was given, in any bunches, is the stream
  up to what is still in the buffer (`InOrder`), with lengths inside the buffer (`InBuffer`), as asked for
  (`AsAsked`, `Collects`). Lemmas about `FlattenSeq`, a recursive function, are proved by a smallest
  counterexample (`WFMin` on the natural numbers). Theorems `WorkersGiveTheStream`: until the reset of a
  connection is read; `WorkersKeep`: for ever if connections are not reset, which the run assumes too.
- AsyncUdp, any threads, peers and contexts, under `OneThreadCloses` (if the receive callback closes
  contexts, one thread runs the dispatcher; section 6 has the other case): `Stands` says which context each
  place may rely on, `OneEach` and `OwnSender` that contexts are not shared. Theorem `DispatcherKeeps`.
- FileWatch, any numbers of files, watches, operations and attempts. A handle that nothing happened to
  unseen is the file that has the name, watched as far as who opened it came; or its end is among the
  events that were reported and not yet read, of a watch whose entry is filled in or about to be
  (`Follows`). For that to last, a file has one watch (`OneWatchEach`), and no ending that is still unread is
  of the file that has the name now (`EndingsOfOthers`), or the thread would close the new file for the end
  of the old one. Theorem `ObserverKeepsUp`.

**ServicesProofs**
- Ipc, any finite set of processes, any number of calls: the value is one for the process that is in, and
  what the kernel would take back for each process is exactly that (`OneInside`); so the end of a process in
  its section restores the value, which exclusion alone does not say. Theorem `IpcExclusion`.
- Plugins, any columns, ids and numbers of steps, any failures: what is kept is what was meant, and what is
  seen is that without what was deleted and with what was inserted since (`RowsKept`); every number given,
  every row and every number another user took is behind the counter (`NumbersBehind`); the cursor accounts for the
  statements left open (`StatementsOpen`). Theorem `PluginsKeepRows`.
- Manager, any directory, configurations, threads and scans: libraries loaded and released in pairs
  (`LibInv`), credentials of known plug-ins (`CredInv`), an open connection of one database (`ConnInv`),
  sessions on it (`SessInv`). That the databases after a scan are the first of each name needs a loop
  invariant of the parser: after k entries, every one it takes is a database under its name, and there is
  no other (`CameTo`, in `ParseInv`); JSON stops at the first entry without a plug-in, XML goes on. Theorem
  `ManagerIsKept`.
- Requests, any columns, values and numbers of steps: the fields a kind of request does not have stay as
  they began (`OwnFields`), which a clear that touches only some fields relies on, and a constraint that
  holds another one is remembered (`Remembered`), the only case in which NULL is followed. The attributes of a
  constraint are a recursive function of its parts; that each round keeps one value for a column is shown
  by a smallest counterexample (`WFMin` on the natural numbers). Theorem `RequestsMeanWhatWasSaid`.
- Messages, any threads, modules, methods and depth of nested calls: `Walked` says for every call on every
  stack what it did: a broadcast at position `pos` of the live list has called all before it, a send nobody
  or the one it is for. It is inductive because the list does not change while a call walks it
  (`LockedWhileCalling`), which is what the read lock is for; a call that still waits for the lock has done
  nothing (`CallsStart`), so it holds also of the logger's call under the write lock, which never gets it. Theorems `RegistryKept`, and `CallsReachAll` as
  an action property.

- HttpFlow, any size of the memory buffer, any lengths and bodies, any number of objects: before the answer
  nothing but "continue" was sent, and after it the answer is on the socket or waits in the stream
  (`HttpPlace`, `HttpSocket`); an object is held from the callback that made it to the one that takes it
  (`HttpObjects`); the temporary files are those the content has (`HttpFiles`), and a plain
  body is in one piece, in memory up to the size of the buffer and in a file above (`HttpBytes`). Theorem `RequestsAreServed`.
- Objects, any file that describes a table with the key `id` (`ObjectSettings`), any filters, items and
  numbers of steps. The property needs little to be inductive: rows have a number in each column and are
  finitely many, or there would be no next number. The work is in the lemmas: which elements of a constraint
  a filter gives for which keys (`KeysMean`, through `FlattenSeq`), that without a list a row fits a
  constraint when it has the values of the keys (`FitsMeans`), that the keys in use ask for what the filter
  says (`ReadsWhat`), and a loop invariant of the insert: after k items there are k new rows under the
  filter's keys (`AfterItems`). The theorem needed one assumption more than the run had shown: that a file
  with primary keys does not list `id` among its other columns too, for then an item's own number decides
  and may be refused. Theorem `ObjectsStay`.

**DataProofs**, any numbers and sizes, any sequence of operations. Loops and walks of the code are recursive
functions in the models. That such a function exists and what it gives is shown by induction over an
explicit set of numbers (`Inductive`, `Iterated`), itself from a smallest element (`WFMin`).
- Lists: the links of a list are those of a circle through its *stops*, the end node and its entries in
  order (`Around`), and lemmas say what becomes of a circle when a node is put in or taken out. `Ringed`
  adds that an entry is at one place of one list and a linked node is in a list, without which a node freed
  in one list could be linked in another. For the cursor, `Passing` gives the place it stands at: what was
  there all along was seen or lies ahead, and nothing is both, so that nothing is given twice. That needs
  `DataOnce` (no data in two nodes), which `eclist_splice` breaks between its insertion and its erasure, so
  a round of its loop is proved as one step; and `SpliceStands`: it stands in its list, even when the entry
  it stood on has gone. Maps: the entries are pieces of data of their own (`MapApart`); `orderAll` is two
  nested loops, of which the inner one leaves the smallest remaining key in place and the outer one a sorted
  front. Theorem `ListsStay`.
- Streams and buffers: a buffer is longer than its contents (`StreamSizes`), and byte i of it is the byte
  that was given so many before the last (`StreamPlaces`); likewise for the stream device, the smart buffer
  and the window of the read buffer. Theorem `BytesStay`.
- Tables, cursors, slots, vectors: what a cell holds was last set there and lies before the fill mark
  (`TableIInv`); what is in the cursor's table are the rows of the result that were taken and not yet given
  (`CursorGave`); a slot's owner and its pointer name one another (`SlotOwners`), and free slots are noted
  once (`SlotStack`). Theorem `TablesStay`.
- Data tree: `Forest` says that an item is with the program, in one container or lost. One place for each
  item does not exclude a container inside itself, which `ecudc_destroy` would follow for ever: `Ranked` gives
  every item a rank above its container's. What a destroy frees is a closure over containers, shown to be
  complete by counting; the merge is a loop over the entries of a container. Theorem `TreeStays`.

**Only model-checked**
- What must eventually happen (`ServerCompletes`, `PoolServes`, `CallReturns`, `BroadcastReturns`, `TasksEnd`,
  `ChangesTold`, `ReaderServed`, `ChangeReturns`, `WaitersAreTold`): it needs ENABLED.
- `TextsReturn` and the texts in `MessagesArrive`: what folds and recursive definitions compute for every
  input is an induction over data, and `Json`, `Xml`, `Paths`, `Sql` declare RECURSIVE operators. The mail
  session in `MessagesArrive` has no constants, so that its run covers all there is.

All other properties of the passing runs are theorems.

## 5. What is not modelled, and why

Parts of the code:
- `adbo_object.c`, `adbo_container.c`, `adbo_schema.c`, `adbo_substitute.c`: not in the list of files that
  libadbo builds, and written against an earlier interface. The Oracle plug-in needs a proprietary library.
- Platforms other than Linux; vendored headers; `eclocale`, MD5 and SHA-1 (tables and arithmetic);
  `ecrefcnt`, `ecdata`, `ecarray` and the like: records without behaviour; calendar arithmetic; logging
  and wording; thin wrappers of system calls.
- `ece_context_waitforAbort`, `ecf_observer_delete` (it leaves its entry registered), `ecnotify`.

Inside what is modelled:
- EventQueue: read and write sets are one set.
- AsyncIO: handles (a context is known by its client; EventQueue has the handles and their reuse); contexts
  do not expire. A descriptor of the listening socket is not refused: it is opened first.
- StreamWorker: timeouts. The read is made when there is something to read, so that no signal ends it; one
  that did would be an error, `ecsocket_readBunch` (`ecsocket_unix.c:285`) does not ask for EINTR.
- Messages: `clear`, called when no thread runs; the logger's calls outside of callbacks and of the write lock.
- Streams: write errors and short writes of a device; a minimum size that overflows (the width is assumed to
  hold it). Lists: the cursor of `ecmap.c:170`, whose first step leaves the first entry out and which nothing
  in the repository uses. Tables: a column at or beyond the number of columns (`ectable.c:172`).
- Clients: the lines of a mail's text. It is sent as it is (`ecmail.c:159`), so that a line that is a dot
  would end it early and the rest be taken for commands; `MessagesArrive` speaks of texts without one.
- DbTransaction: nested nodes and fetch (those are in Objects), SQLite's own automatic rollback.
- Exec: fork and pipe failures, descriptors of concurrent forks.
- FileWatch: a directory's events (Paths has the opening); event buffers that overflow.
- Plugins: several threads on one connection (DbTransaction has them). Objects: a call is one step.
- Strings and texts: a few characters of each kind that the code tells apart stand for all.

## 6. Where the code disagrees with what it says

Two runs refute a property that a comment or a test of the repository states.

- `queue_overlap`, `ecevents_linux.c:389`: two changes whose tokens are both in `intrfd`: the first
  `ece_reset_event` reads the whole count, the second blocks for ever. The comment at line 280 says "make
  it thread safe".
- `db_failed`, `adbo_node.c:1285`: a statement that fails answers −1, which is true: what was written
  before it is committed and the caller is told TRUE. The comment above says "commit / rollback all changes".

Some properties a reader would expect are defined in the modules and not among the runs, because the code
does not have them; the instances of section 3 exclude exactly these cases:

| property | module | what the code does |
|---|---|---|
| `SortoutDestroys` | EventQueue | `ecevents_linux.c:436` applies the callback to the argument of the sort-out (the stopwatch) and forgets the entry |
| `DestroyReturns` | AsyncIO | with the accept context in all queues, one thread gets the client and the others block in `accept()`, where no abort reaches them; and however it is added, changes of a queue that overlap leave one of them without its token (`Stuck`, the deadlock of `queue_overlap`, here between a thread that hands a client over and one that removes another) |
| that an accepted client is in a queue | AsyncIO | `ecasyncio.c:215` does not look at the answer of `ece_list_add`: a descriptor at or above FD_SETSIZE is in no queue, and its context is lost (`Refused`) |
| `CallReturns` without its exception | Messages | `eclist.c:93` logs under the write lock of `ecmessages_add` when there is no memory, and the logger waits for the read lock (`LogsWhileWriting`) |
| `LooksAtLiving` | AsyncIO | `ecasyncio.c:269` frees threads that others still ask for their size |
| `BroadcastReturns` with a pool and broadcasting callbacks | AsyncUdp | dispatcher mutex then context mutex in broadcast, the other way round from a callback |
| `FreedIsUnused` with closing callbacks on several threads | AsyncUdp | `ecasyncvc.c:629` frees a context before its node is erased under the mutex |
| `InBuffer` for a peer that resets | StreamWorker | −1 of a failed read is taken for a length |
| `FalseLeavesNothing` for two users | DbTransaction | the COMMIT of one thread commits what another will roll back |
| `SessionsClosed` | DbTransaction | early returns of `adbo_node_update` leave the session open |
| `RunReturns` beyond a pipe's capacity | Exec | the parent waits for a child that fills a pipe nobody reads |
| `OutputComplete` for a stopped child | Exec | the set given to `select()` is filled once, output after a stop is lost |

Other properties are stated with the exception the code makes, next to it in the module:

| module | exception |
|---|---|
| `FileWatch` | a change between opening and watching (`ecobserver.c:197`) is not told; a replaced file may never be followed (`ecevents_linux.c:709`); `onDelete` closes a NULL handle after it gave up |
| `Ipc` | `ecsem_clear` under a holder lets a second process in, and so does a signal that ends `ecsem_waitAndSet`, of which the caller is not told; two processes may both be told they created |
| `Plugins` | BEGIN, COMMIT and ROLLBACK that fail, and a fetch that fails inside a result (`adbl_mysql.c:1309`), are not told to the caller; every query of MySQL commits the open transaction; its sequence leaves the foreign key checks off when a step fails; the cursor position is not initialised (`adbl_mysql.c:1380`) |
| `Sql` | an IN has its first value twice and not its last in SQLite, MySQL leaves inner constraints out; a FOREIGN KEY without a column (`adbl_sqlite3.c:1304`) and UNIQUE over two columns (`:1334`) are misread |
| `Objects` | an empty section of keys lets a deletion match the whole table |
| `Clients` | a mail whose QUIT fails is reported as not taken |
| `Json`, `Xml` | numbers in arrays; a text at the end of a buffer, nodes, lists longer than a byte counts; namespaces |
| `HttpFlow`, `HttpText` | content that ends early is followed by holes; an address is unescaped twice |
| `Paths` | where the file system does not tell types, removal empties a linked directory (`ecfile_unix.c:500`); a scan stops at a dangling link |
| `Manager` | `update`, `insert`, `delete`, `schema` and `table` ask for another method than they call |

## 7. Plan

Open: `LinesKeepText` (a part of `TextsReturn`) for a buffer of any size, whose reader and parser are
state machines and not recursive; what a node update promises as an abstract specification that
DbTransaction with one caller implements, and DbTransaction over Plugins' MySQL steps.
