--------------------------- MODULE ServicesProofs ---------------------------
(***************************************************************************)
(* Proofs about services of the libraries, for any constants: processes    *)
(* with a semaphore (Ipc), one connection of a database plugin (Plugins),  *)
(* the manager of the databases (Manager), requests for them (Requests),   *)
(* the registry of modules that call one another (Messages), a request to  *)
(* the web server (HttpFlow) and the nodes of the objects (Objects).       *)
(***************************************************************************)
EXTENDS Ipc, Plugins, Manager, Requests, Messages, HttpFlow, Objects, FiniteSetTheorems,
        SequenceTheorems, WellFoundedInduction, TLAPS

-----------------------------------------------------------------------------
(* Ipc: processes with a semaphore.                                        *)

IpcStates == {"new", "missing", "out", "in", "dead"}

IpcTypeOK ==
  /\ istate \in [IProcesses -> IpcStates]
  /\ icreated \in [IProcesses -> BOOLEAN]
  /\ iset \in BOOLEAN /\ ivalue \in Nat /\ iundo \in [IProcesses -> Int]
  /\ idisturbed \in BOOLEAN

(* Unless a process was let in otherwise, the value is one for the process *)
(* that is in, and the kernel would take back that one and nothing else.   *)
OneInside ==
  ~idisturbed =>
    /\ \A p, q \in IProcesses : istate[p] = "in" /\ istate[q] = "in" => p = q
    /\ ivalue = (IF \E p \in IProcesses : istate[p] = "in" THEN 1 ELSE 0)
    /\ \A p \in IProcesses : iundo[p] = (IF istate[p] = "in" THEN -1 ELSE 0)

(* Who attached found a semaphore, and who made it was told so.            *)
OneCreated ==
  /\ (\E p \in IProcesses : istate[p] \in {"out", "in"}) => iset
  /\ iset => \E p \in IProcesses : icreated[p]

IpcIInv == IpcTypeOK /\ OneInside /\ OneCreated

-----------------------------------------------------------------------------
(* It holds of a key that nobody has used.                                *)
LEMMA IpcStarts == IpcInit => IpcIInv
<1> SUFFICES ASSUME IpcInit PROVE IpcIInv
  OBVIOUS
<1>1. IpcTypeOK
  <2>1. /\ istate \in [IProcesses -> IpcStates]
        /\ ivalue \in Nat /\ iundo \in [IProcesses -> Int]
    BY DEF IpcInit, IpcStates
  <2>2. icreated \in [IProcesses -> BOOLEAN] /\ iset \in BOOLEAN /\ idisturbed \in BOOLEAN
    BY DEF IpcInit
  <2> QED
    BY <2>1, <2>2 DEF IpcTypeOK
<1>2. OneInside
  BY DEF IpcInit, OneInside
<1>3. OneCreated
  BY DEF IpcInit, OneCreated
<1> QED
  BY <1>1, <1>2, <1>3 DEF IpcIInv

(* Every call, and the end of a process, preserves it.                     *)
LEMMA IpcSteps == IpcIInv /\ [IpcNext]_ipcVars => IpcIInv'
<1> SUFFICES ASSUME IpcIInv, [IpcNext]_ipcVars PROVE IpcIInv'
  OBVIOUS
<1> USE DEF IpcIInv, Moves
<1>1. ASSUME NEW p \in IProcesses, Attach(p) PROVE IpcIInv'
  <2>1. IpcTypeOK'
    BY <1>1 DEF Attach, Operate, IpcTypeOK, IpcStates
  <2>2. OneInside'
    BY <1>1 DEF Attach, Operate, IpcTypeOK, OneInside, IpcStates
  <2>3. OneCreated'
    BY <1>1 DEF Attach, Operate, IpcTypeOK, OneCreated
  <2> QED
    BY <2>1, <2>2, <2>3
<1>2. ASSUME NEW p \in IProcesses, FindsNone(p) PROVE IpcIInv'
  <2>1. IpcTypeOK'
    BY <1>2 DEF FindsNone, Operate, IpcTypeOK, IpcStates
  <2>2. OneInside'
    BY <1>2 DEF FindsNone, Operate, IpcTypeOK, OneInside, IpcStates
  <2>3. OneCreated'
    BY <1>2 DEF FindsNone, Operate, IpcTypeOK, OneCreated
  <2> QED
    BY <2>1, <2>2, <2>3
<1>3. ASSUME NEW p \in IProcesses, CreateIpc(p) PROVE IpcIInv'
  <2>1. IpcTypeOK'
    BY <1>3 DEF CreateIpc, Operate, IpcTypeOK, IpcStates
  <2>2. OneInside'
    BY <1>3 DEF CreateIpc, Operate, IpcTypeOK, OneInside, IpcStates
  <2>3. OneCreated'
    BY <1>3 DEF CreateIpc, Operate, IpcTypeOK, OneCreated
  <2> QED
    BY <2>1, <2>2, <2>3
<1>4. ASSUME NEW p \in IProcesses, WaitAndSet(p) PROVE IpcIInv'
  <2>1. IpcTypeOK'
    BY <1>4 DEF WaitAndSet, Operate, IpcTypeOK, IpcStates
  <2>2. OneInside'
    BY <1>4 DEF WaitAndSet, Operate, IpcTypeOK, OneInside, IpcStates
  <2>3. OneCreated'
    BY <1>4 DEF WaitAndSet, Operate, IpcTypeOK, OneCreated
  <2> QED
    BY <2>1, <2>2, <2>3
<1>5. ASSUME NEW p \in IProcesses, SetBack(p) PROVE IpcIInv'
  <2>1. IpcTypeOK'
    BY <1>5 DEF SetBack, Operate, IpcTypeOK, IpcStates
  <2>2. OneInside'
    BY <1>5 DEF SetBack, Operate, IpcTypeOK, OneInside, IpcStates
  <2>3. OneCreated'
    BY <1>5 DEF SetBack, Operate, IpcTypeOK, OneCreated
  <2> QED
    BY <2>1, <2>2, <2>3
<1>6. ASSUME NEW p \in IProcesses, TryDec(p) PROVE IpcIInv'
  <2>1. IpcTypeOK'
    BY <1>6 DEF TryDec, Operate, IpcTypeOK, IpcStates
  <2>2. OneInside'
    BY <1>6 DEF TryDec, Operate, IpcTypeOK, OneInside, IpcStates
  <2>3. OneCreated'
    BY <1>6 DEF TryDec, Operate, IpcTypeOK, OneCreated
  <2> QED
    BY <2>1, <2>2, <2>3
<1>7. ASSUME NEW p \in IProcesses, WaitZero(p) PROVE IpcIInv'
  <2>1. IpcTypeOK'
    BY <1>7 DEF WaitZero, Operate, IpcTypeOK, IpcStates
  <2>2. OneInside'
    BY <1>7 DEF WaitZero, Operate, IpcTypeOK, OneInside, IpcStates
  <2>3. OneCreated'
    BY <1>7 DEF WaitZero, Operate, IpcTypeOK, OneCreated
  <2> QED
    BY <2>1, <2>2, <2>3
<1>8. ASSUME NEW p \in IProcesses, ClearSem(p) PROVE IpcIInv'
  <2>1. IpcTypeOK'
    BY <1>8 DEF ClearSem, Operate, IpcTypeOK, IpcStates
  <2>2. OneInside'
    BY <1>8 DEF ClearSem, Operate, IpcTypeOK, OneInside, IpcStates
  <2>3. OneCreated'
    BY <1>8 DEF ClearSem, Operate, IpcTypeOK, OneCreated
  <2> QED
    BY <2>1, <2>2, <2>3
<1>9. ASSUME NEW p \in IProcesses, EndProcess(p) PROVE IpcIInv'
  <2>1. IpcTypeOK'
    BY <1>9 DEF EndProcess, Operate, IpcTypeOK, IpcStates
  <2>2. OneInside'
    BY <1>9 DEF EndProcess, Operate, IpcTypeOK, OneInside, IpcStates
  <2>3. OneCreated'
    BY <1>9 DEF EndProcess, Operate, IpcTypeOK, OneCreated
  <2> QED
    BY <2>1, <2>2, <2>3
<1>10. ASSUME NEW p \in IProcesses, WaitInterrupted(p) PROVE IpcIInv'
  <2>1. IpcTypeOK'
    BY <1>10 DEF WaitInterrupted, Operate, IpcTypeOK, IpcStates
  <2>2. OneInside'
    BY <1>10 DEF WaitInterrupted, Operate, IpcTypeOK, OneInside, IpcStates
  <2>3. OneCreated'
    BY <1>10 DEF WaitInterrupted, Operate, IpcTypeOK, OneCreated
  <2> QED
    BY <2>1, <2>2, <2>3
<1>11. CASE UNCHANGED ipcVars
  BY <1>11 DEF ipcVars, IpcTypeOK, OneInside, OneCreated
<1> QED
  BY <1>1, <1>2, <1>3, <1>4, <1>5, <1>6, <1>7, <1>8, <1>9, <1>10, <1>11 DEF IpcNext

(* The invariant says of the set of holders what IpcExcludes counts.       *)
LEMMA IpcCounts == IpcIInv => IpcExcludes
<1> SUFFICES ASSUME IpcIInv PROVE IpcExcludes
  OBVIOUS
<1>1. ASSUME ~idisturbed PROVE Cardinality(Holders) <= 1 /\ ivalue = Cardinality(Holders)
  <2>1. CASE \E p \in IProcesses : istate[p] = "in"
    <3>1. PICK p \in IProcesses : istate[p] = "in"
      BY <2>1
    <3>2. Holders = {p}
      BY <1>1, <3>1 DEF IpcIInv, OneInside, Holders
    <3>3. Cardinality({p}) = 1
      BY FS_Singleton
    <3> QED
      BY <1>1, <2>1, <3>2, <3>3 DEF IpcIInv, OneInside
  <2>2. CASE ~\E p \in IProcesses : istate[p] = "in"
    <3>1. Holders = {}
      BY <2>2 DEF Holders
    <3>2. Cardinality({}) = 0
      BY FS_EmptySet
    <3> QED
      BY <1>1, <2>2, <3>1, <3>2 DEF IpcIInv, OneInside
  <2> QED
    BY <2>1, <2>2
<1>2. ivalue >= 0
  BY DEF IpcIInv, IpcTypeOK
<1>3. (\E p \in IProcesses : istate[p] \in {"out", "in"}) => \E p \in IProcesses : icreated[p]
  BY DEF IpcIInv, OneCreated
<1> QED
  BY <1>1, <1>2, <1>3 DEF IpcExcludes

(* However many processes attach, enter, leave, clear and end in whatever  *)
(* order, one is in at most unless the semaphore was cleared under it or a *)
(* signal ended a wait, and the value lets the next one in when none is.   *)
THEOREM IpcExclusion == IpcSpec => []IpcExcludes
<1>1. IpcInit => IpcIInv
  BY IpcStarts
<1>2. IpcIInv /\ [IpcNext]_ipcVars => IpcIInv'
  BY IpcSteps
<1>3. IpcIInv => IpcExcludes
  BY IpcCounts
<1> QED
  BY <1>1, <1>2, <1>3, PTL DEF IpcSpec

-----------------------------------------------------------------------------
(* Plugins: one connection of a database plugin.                           *)

(* What PluginsKeep needs of types.                                        *)
PluginTyped ==
  /\ prows \subseteq Ids /\ pkept \subseteq Ids /\ pothers \subseteq Ids
  /\ pauto \in Nat \ {0} /\ pstmts \in Int
  /\ pcursor \in [ahead : Nat, row : BOOLEAN, pos : Nat, open : BOOLEAN]
  /\ ~Sqlite => pgiven \in Seq(Nat)

(* Rows that are kept, rows that are seen and rows that were meant.        *)
RowsKept ==
  /\ pkept \ pgone \subseteq prows
  /\ "committed" \notin pside => pkept = pmeant
  /\ "checks" \notin pside => prows = (pkept \ pgone) \cup pwrote /\ pchecks

(* MySQL counts up: what it gave and what is or was in the table is behind *)
(* it.                                                                     *)
NumbersBehind ==
  ~Sqlite => /\ \A r \in prows \cup pkept \cup pothers : r < pauto
             /\ \A i \in DOMAIN pgiven : pgiven[i] < pauto
             /\ \A i, j \in DOMAIN pgiven : pgiven[i] = pgiven[j] => i = j
             /\ \A i \in DOMAIN pgiven : pgiven[i] \notin pothers

StatementsOpen ==
  /\ pstmts >= (IF pcursor.open THEN 1 ELSE 0)
  /\ "statement" \notin pside => pstmts = (IF pcursor.open THEN 1 ELSE 0)

PluginIInv == PluginTyped /\ RowsKept /\ NumbersBehind /\ StatementsOpen

LEMMA PluginStarts == ASSUME PluginInit PROVE PluginIInv
<1>1. PluginTyped /\ RowsKept /\ NumbersBehind
  <2>1. PluginTyped
    BY DEF PluginInit, PluginTyped, Closed0
  <2>2. RowsKept
    BY DEF PluginInit, RowsKept
  <2>3. NumbersBehind
    BY DEF PluginInit, NumbersBehind
  <2>. QED
    BY <2>1, <2>2, <2>3
<1>2. StatementsOpen
  BY DEF PluginInit, StatementsOpen, Closed0
<1>. QED
  BY <1>1, <1>2 DEF PluginIInv

(* Writing, committing and rolling back, one conjunct after the other.     *)
LEMMA TablesKeep ==
  ASSUME PluginIInv, UNCHANGED pkind,
         \/ WriteRow \/ PluginDelete \/ StatementFails \/ OtherWrites
         \/ PluginBegin \/ PluginCommit \/ PluginRollback \/ PluginDisconnect \/ PluginProcedure
  PROVE  PluginIInv'
<1> USE DEF PluginIInv, pread, pnumber, ptables, Kept, TakenBack
<1>a. CASE WriteRow \/ OtherWrites
  <2>1. PICK id \in Ids \ prows :
          /\ prows' = prows \cup {id} /\ pgone' = pgone \ {id}
          /\ pauto' = IF id >= pauto THEN id + 1 ELSE pauto
          /\ \/ pkept' = pkept \cup {id} /\ pmeant' = pmeant \cup {id} /\ UNCHANGED pwrote
             \/ pwrote' = pwrote \cup {id} /\ UNCHANGED <<pkept, pmeant>>
          /\ \/ UNCHANGED pothers
             \/ pothers' = pothers \cup {id} /\ (Sqlite \/ id = pauto)
    BY <1>a DEF WriteRow, OtherWrites
  <2>2. UNCHANGED <<pstmts, pcursor, pgiven, pside, pchecks>>
    BY <1>a DEF WriteRow, OtherWrites
  <2>3. id \in Nat /\ pauto \in Nat \ {0} /\ \A r \in prows \cup pkept \cup pothers : r \in Nat
    BY DEF PluginTyped, Ids
  <2>4. PluginTyped'
    <3>1. prows' \subseteq Ids /\ pkept' \subseteq Ids /\ pothers' \subseteq Ids
      BY <2>1 DEF PluginTyped
    <3>2. pauto' \in Nat \ {0}
      BY <2>1, <2>3
    <3>. QED
      BY <2>2, <3>1, <3>2 DEF PluginTyped, Sqlite
  <2>5. RowsKept'
    BY <2>1, <2>2 DEF RowsKept
  <2>6. NumbersBehind'
    <3>1. SUFFICES ASSUME ~Sqlite PROVE NumbersBehind'
      BY DEF NumbersBehind, Sqlite
    <3>2. /\ \A r \in prows \cup pkept \cup pothers : r < pauto
          /\ \A i \in DOMAIN pgiven : pgiven[i] \in Nat /\ pgiven[i] < pauto /\ pgiven[i] \notin pothers
          /\ \A i, j \in DOMAIN pgiven : pgiven[i] = pgiven[j] => i = j
      BY <3>1 DEF NumbersBehind, PluginTyped
    <3>3. pauto' \in Nat /\ pauto <= pauto' /\ id < pauto'
      BY <2>1, <2>3
    <3>4. \A r \in prows' \cup pkept' \cup pothers' : r < pauto'
      BY <2>1, <2>3, <3>2, <3>3
    <3>5. \A i \in DOMAIN pgiven : pgiven[i] < pauto' /\ pgiven[i] \notin pothers'
      BY <2>1, <2>3, <3>1, <3>2, <3>3
    <3>. QED
      BY <2>2, <3>2, <3>4, <3>5 DEF NumbersBehind
  <2>7. StatementsOpen'
    BY <2>2 DEF StatementsOpen
  <2>. QED
    BY <2>4, <2>5, <2>6, <2>7
<1>b. CASE \/ PluginDelete \/ StatementFails \/ PluginBegin \/ PluginCommit \/ PluginRollback
           \/ PluginDisconnect \/ PluginProcedure
  <2>1. /\ UNCHANGED <<pstmts, pcursor, pgiven, pauto, pothers>>
        /\ pside \subseteq pside' /\ pside' \subseteq pside \cup {"committed"}
        /\ pchecks => pchecks'
    <3>1. CASE StatementFails
      BY <3>1 DEF StatementFails, PluginTyped, RowsKept
    <3>2. CASE PluginDelete \/ PluginCommit \/ PluginRollback \/ PluginDisconnect
      BY <3>2 DEF PluginDelete, PluginCommit, PluginRollback, PluginDisconnect
    <3>3. CASE PluginBegin \/ PluginProcedure
      BY <3>3 DEF PluginBegin, PluginProcedure
    <3>. QED
      BY <1>b, <3>1, <3>2, <3>3
  <2>2. prows' \subseteq prows \cup pkept /\ pkept' \subseteq prows \cup pkept
    <3>1. CASE PluginDelete
      BY <3>1 DEF PluginDelete
    <3>. QED
      BY <1>b, <3>1 DEF StatementFails, PluginBegin, PluginCommit, PluginRollback,
                        PluginDisconnect, PluginProcedure
  <2>3. PluginTyped'
    BY <2>1, <2>2 DEF PluginTyped, Sqlite
  <2>4. NumbersBehind'
    BY <2>1, <2>2 DEF NumbersBehind, Sqlite
  <2>5. StatementsOpen'
    BY <2>1 DEF StatementsOpen
  <2>6. RowsKept'
    <3>1. CASE PluginDelete
      <4>1. PICK constrained \in BOOLEAN, forced \in BOOLEAN :
              \E gone \in Deleted(constrained, forced) :
                /\ prows' = prows \ gone /\ pwrote' = pwrote \ gone
                /\ IF Sqlite /\ ~pinside
                   THEN pkept' = pkept \ gone /\ pmeant' = pmeant \ gone /\ UNCHANGED pgone
                   ELSE pgone' = pgone \cup (gone \cap pkept) /\ UNCHANGED <<pkept, pmeant>>
        BY <3>1 DEF PluginDelete
      <4>2. UNCHANGED <<pside, pchecks>>
        BY <3>1 DEF PluginDelete
      <4>. QED
        BY <4>1, <4>2 DEF RowsKept
    <3>2. CASE PluginBegin \/ PluginCommit \/ PluginProcedure
      BY <2>1, <3>2 DEF RowsKept, PluginBegin, PluginCommit, PluginProcedure
    <3>3. CASE StatementFails \/ PluginRollback \/ PluginDisconnect
      BY <2>1, <3>3 DEF RowsKept, StatementFails, PluginRollback, PluginDisconnect
    <3>. QED
      BY <1>b, <3>1, <3>2, <3>3
  <2>. QED
    BY <2>3, <2>4, <2>5, <2>6
<1>. QED
  BY <1>a, <1>b

(* Queries, cursors and numbers: the cursor has the statement that is open.*)
LEMMA CursorKeeps ==
  ASSUME PluginIInv, UNCHANGED pkind,
         \/ PluginQuery \/ PluginTableSize \/ PluginFetch \/ PluginData \/ PluginNextData
         \/ PluginRelease
  PROVE  PluginIInv'
<1> USE DEF PluginIInv, ptables, pnumber, Kept
<1>1. /\ UNCHANGED <<prows, pauto, pmeant, pothers, pgiven, pchecks>> /\ pside \subseteq pside'
      /\ pside' \subseteq pside \cup {"committed", "statement"}
  BY DEF PluginQuery, PluginTableSize, PluginFetch, PluginData, PluginNextData, PluginRelease
<1>2. NumbersBehind'
  <2>1. pkept' \subseteq prows \cup pkept
    BY DEF PluginQuery, PluginTableSize, PluginFetch, PluginData, PluginNextData, PluginRelease
  <2>. QED
    BY <1>1, <2>1 DEF NumbersBehind, Sqlite
<1>3. RowsKept'
  <2>1. \/ UNCHANGED <<pkept, pwrote, pgone>> /\ ("committed" \in pside' => "committed" \in pside)
        \/ /\ pkept' = prows /\ pwrote' = {} /\ pgone' = {}
           /\ ("committed" \notin pside' => prows = pkept)
    BY DEF PluginQuery, PluginTableSize, PluginFetch, PluginData, PluginNextData, PluginRelease
  <2>. QED
    BY <1>1, <2>1 DEF RowsKept
<1>4. pstmts \in Int /\ StatementsOpen
  BY DEF PluginTyped
<1>5. pstmts' \in Int /\ StatementsOpen'
  <2>1. CASE PluginQuery
    <3>1. ~pcursor.open /\ pcursor'.open /\ pstmts' = pstmts + 1
      BY <2>1 DEF PluginQuery
    <3>2. "statement" \in pside' <=> "statement" \in pside
      BY <2>1 DEF PluginQuery
    <3>. QED
      BY <1>4, <3>1, <3>2 DEF StatementsOpen
  <2>2. CASE PluginTableSize
    BY <1>4, <2>2 DEF PluginTableSize, StatementsOpen
  <2>3. CASE PluginFetch \/ PluginData \/ PluginNextData
    <3>1. pcursor.open /\ UNCHANGED <<pstmts, pside>>
      BY <2>3 DEF PluginFetch, PluginData, PluginNextData
    <3>2. pcursor'.open
      BY <2>3, <3>1 DEF PluginTyped, PluginFetch, PluginData, PluginNextData
    <3>. QED
      BY <1>4, <3>1, <3>2 DEF StatementsOpen
  <2>4. CASE PluginRelease
    <3>1. pcursor.open /\ ~pcursor'.open /\ pstmts' = pstmts - 1 /\ UNCHANGED pside
      BY <2>4 DEF PluginRelease, Closed0
    <3>. QED
      BY <1>4, <3>1 DEF StatementsOpen
  <2>. QED
    BY <2>1, <2>2, <2>3, <2>4
<1>a. Cardinality(prows) \in Nat
  <2>1. IsFiniteSet(1 .. PMaxId)
    BY FS_Interval, PluginConstants
  <2>2. IsFiniteSet(prows)
    BY <2>1, FS_Subset DEF PluginTyped, Ids
  <2>. QED
    BY <2>2, FS_CardinalityType
<1>6. pcursor' \in [ahead : Nat, row : BOOLEAN, pos : Nat, open : BOOLEAN]
  <2>1. CASE PluginQuery
    <3> DEFINE ahead == IF Sqlite THEN 0 ELSE Cardinality(prows)
    <3>1. PICK pos \in {0, PColumns} :
            pcursor' = [ahead |-> ahead, row |-> FALSE, pos |-> pos, open |-> TRUE]
      BY <2>1 DEF PluginQuery
    <3>2. ahead \in Nat /\ pos \in Nat
      BY <1>a, PluginConstants
    <3> HIDE DEF ahead
    <3>. QED
      BY <3>1, <3>2
  <2>2. CASE PluginTableSize \/ PluginData
    <3>1. UNCHANGED pcursor
      BY <2>2 DEF PluginTableSize, PluginData
    <3>. QED
      BY <3>1 DEF PluginTyped
  <2>4. CASE PluginFetch
    <3> DEFINE pos == IF Sqlite THEN 0 ELSE pcursor.pos
    <3>1. pos \in Nat /\ Ahead \in Nat
      BY <1>a DEF PluginTyped, Ahead
    <3>2. \/ Ahead > 0 /\ pcursor' = [ahead |-> Ahead - 1, row |-> TRUE, pos |-> pos, open |-> TRUE]
          \/ pcursor' = [ahead |-> 0, row |-> FALSE, pos |-> pos, open |-> TRUE]
      BY <2>4 DEF PluginFetch
    <3> HIDE DEF pos
    <3>3. CASE Ahead > 0 /\ pcursor' = [ahead |-> Ahead - 1, row |-> TRUE, pos |-> pos, open |-> TRUE]
      <4>1. Ahead - 1 \in Nat
        BY <3>1, <3>3
      <4>. QED
        BY <3>1, <3>3, <4>1
    <3>4. CASE pcursor' = [ahead |-> 0, row |-> FALSE, pos |-> pos, open |-> TRUE]
      BY <3>1, <3>4
    <3>. QED
      BY <3>2, <3>3, <3>4
  <2>5. CASE PluginNextData
    <3>1. pcursor.pos + 1 \in Nat
      BY DEF PluginTyped
    <3>2. pcursor' = [pcursor EXCEPT !.pos = pcursor.pos + 1]
      BY <2>5 DEF PluginNextData
    <3>. QED
      BY <3>1, <3>2 DEF PluginTyped
  <2>3. CASE PluginRelease
    BY <2>3 DEF PluginRelease, Closed0
  <2>. QED
    BY <2>1, <2>2, <2>3, <2>4, <2>5
<1>7. PluginTyped'
  <2>1. pkept' \subseteq prows \cup pkept
    BY DEF PluginQuery, PluginTableSize, PluginFetch, PluginData, PluginNextData, PluginRelease
  <2>. QED
    BY <1>1, <1>5, <1>6, <2>1 DEF PluginTyped, Sqlite
<1>. QED
  BY <1>2, <1>3, <1>5, <1>7

(* Connections and sequences: a number of MySQL is one that nothing in the *)
(* table has and that was not given yet.                                   *)
LEMMA NumbersKeep ==
  ASSUME PluginIInv, UNCHANGED pkind,
         \/ PluginConnect \/ SequenceMade \/ SequenceRelease
         \/ SqliteSequenceNext \/ MysqlSequenceNext
  PROVE  PluginIInv'
<1> USE DEF PluginIInv, ptables, pread
<1>1. UNCHANGED <<pkept, pmeant, pothers, pwrote, pgone, pstmts, pcursor>>
  BY DEF PluginConnect, SequenceMade, SequenceRelease, SqliteSequenceNext, MysqlSequenceNext
<1>2. CASE PluginConnect \/ SequenceMade \/ SequenceRelease
  <2>1. UNCHANGED <<prows, pauto, pgiven, pside>> /\ (pchecks => pchecks')
    BY <1>2 DEF PluginConnect, SequenceMade, SequenceRelease
  <2>. QED
    BY <1>1, <2>1 DEF PluginTyped, RowsKept, NumbersBehind, StatementsOpen, Sqlite
<1>3. CASE SqliteSequenceNext
  <2>1. UNCHANGED <<prows, pauto, pside, pchecks>> /\ Sqlite
    BY <1>3 DEF SqliteSequenceNext
  <2>. QED
    BY <1>1, <2>1 DEF PluginTyped, RowsKept, NumbersBehind, StatementsOpen, Sqlite
<1>4. CASE MysqlSequenceNext
  <2>1. PICK fails \in {"off", "insert", "delete", "on", "no"} :
          /\ pchecks' = IF fails = "off" THEN pchecks ELSE fails = "no"
          /\ pside' = pside \cup (IF fails = "no" THEN {} ELSE {"checks"})
          /\ pauto' = IF fails \in {"off", "insert"} THEN pauto ELSE pauto + 1
          /\ prows' = IF fails = "delete" THEN prows \cup {pauto} ELSE prows
          /\ pgiven' = IF fails = "no" THEN Append(pgiven, pauto) ELSE pgiven
    BY <1>4 DEF MysqlSequenceNext
  <2>2. ~Sqlite /\ pauto \in Nat \ {0} /\ pauto <= PMaxId /\ pgiven \in Seq(Nat) /\ prows \subseteq Ids
        /\ pkept \subseteq Ids /\ pothers \subseteq Ids
    BY <1>4 DEF MysqlSequenceNext, PluginTyped
  <2>3. /\ \A r \in prows \cup pkept \cup pothers : r \in Nat /\ r < pauto
        /\ \A i \in DOMAIN pgiven : pgiven[i] \in Nat /\ pgiven[i] < pauto
        /\ \A i, j \in DOMAIN pgiven : pgiven[i] = pgiven[j] => i = j
        /\ \A i \in DOMAIN pgiven : pgiven[i] \notin pothers
    BY <2>2 DEF NumbersBehind, Ids
  <2>4. StatementsOpen'
    BY <1>1, <2>1 DEF StatementsOpen
  <2>5. RowsKept'
    BY <1>1, <2>1 DEF RowsKept
  <2>6. NumbersBehind'
    <3>1. CASE fails = "no"
      <4>1. /\ DOMAIN pgiven = 1 .. Len(pgiven) /\ DOMAIN pgiven' = 1 .. Len(pgiven) + 1 /\ Len(pgiven) \in Nat
            /\ pgiven'[Len(pgiven) + 1] = pauto
            /\ \A i \in 1 .. Len(pgiven) : pgiven'[i] = pgiven[i]
        BY <2>1, <2>2, <3>1
      <4>2. ASSUME NEW i \in DOMAIN pgiven'
            PROVE  \/ i = Len(pgiven) + 1 /\ pgiven'[i] = pauto
                   \/ i \in DOMAIN pgiven /\ pgiven'[i] = pgiven[i] /\ pgiven[i] < pauto
        BY <2>3, <4>1
      <4>3. \A i, j \in DOMAIN pgiven' : pgiven'[i] = pgiven'[j] => i = j
        BY <2>2, <2>3, <4>2
      <4>4. UNCHANGED <<prows, pothers>> /\ pauto' = pauto + 1
        BY <1>1, <2>1, <3>1
      <4>5. \A i \in DOMAIN pgiven' : pgiven'[i] < pauto'
        BY <2>2, <2>3, <4>2, <4>4
      <4>6. \A i \in DOMAIN pgiven' : pgiven'[i] \notin pothers
        BY <2>2, <2>3, <4>2
      <4>. QED
        BY <1>1, <2>2, <2>3, <4>3, <4>4, <4>5, <4>6 DEF NumbersBehind
    <3>2. CASE fails # "no"
      <4>1. UNCHANGED pgiven /\ pauto' \in {pauto, pauto + 1}
        BY <2>1, <3>2
      <4>2. \A r \in prows' \cup pkept \cup pothers : r < pauto'
        BY <2>1, <2>2, <2>3, <3>2
      <4>. QED
        BY <1>1, <2>2, <2>3, <4>1, <4>2 DEF NumbersBehind
    <3>. QED
      BY <3>1, <3>2
  <2>7. PluginTyped'
    <3>1. pauto' \in Nat \ {0} /\ pgiven' \in Seq(Nat)
      BY <2>1, <2>2
    <3>2. prows' \subseteq Ids
      <4>1. CASE fails = "delete"
        <5>1. pauto \in Ids
          BY <2>2, PluginConstants DEF Ids
        <5>. QED
          BY <2>1, <2>2, <5>1
      <4>. QED
        BY <2>1, <2>2, <4>1
    <3>. QED
      BY <1>1, <3>1, <3>2 DEF PluginTyped
  <2>. QED
    BY <2>4, <2>5, <2>6, <2>7
<1>. QED
  BY <1>2, <1>3, <1>4

LEMMA PluginSteps == ASSUME PluginIInv, [PluginNext]_pluginVars PROVE PluginIInv'
<1>1. CASE UNCHANGED pluginVars
  BY <1>1 DEF pluginVars, PluginIInv, PluginTyped, RowsKept, NumbersBehind, StatementsOpen, Sqlite
<1>2. CASE PluginNext
  BY <1>2, TablesKeep, CursorKeeps, NumbersKeep DEF PluginNext, PluginCall
<1>. QED
  BY <1>1, <1>2

(* Whatever a user of the connection and the others do, deleting included, *)
(* and whichever statement fails, COMMIT and ROLLBACK included: what is    *)
(* kept is what was committed unless a query, a procedure or a second      *)
(* beginning of MySQL committed for him, the foreign keys are checked and  *)
(* the table is what was written and not deleted unless a sequence failed  *)
(* on the way, MySQL gives no number twice and none of another user's, and *)
(* no statement but the cursor's stays open unless SQLite left that of a   *)
(* size.                                                                   *)
THEOREM PluginsKeepRows == PluginInit /\ [][PluginNext]_pluginVars => []PluginsKeep
<1>1. PluginIInv => PluginsKeep
  BY DEF PluginIInv, RowsKept, NumbersBehind, StatementsOpen, PluginsKeep
<1>2. PluginInit => PluginIInv
  BY PluginStarts
<1>3. PluginIInv /\ [PluginNext]_pluginVars => PluginIInv'
  BY PluginSteps
<1>. QED
  BY <1>1, <1>2, <1>3, PTL

-----------------------------------------------------------------------------
(* Manager: the manager of the databases.                                  *)

(* Every plugin has one library, which is loaded once.                     *)
LibInv ==
  /\ amodules = [n \in DOMAIN amodules |-> amodules[n]]
  /\ \A n \in DOMAIN amodules : amodules[n] \in AFiles /\ amodules[n].plugin = n
  /\ LibrariesAreHeld

(* A connection has the number it got when it was made.                    *)
Numbered(c) == c = <<c[1], c[2]>> /\ c[1] \in 1 .. amade
IsCredentials(c) ==
  /\ c = [type |-> c.type, connection |-> c.connection, file |-> c.file]
  /\ c.type \in DOMAIN amodules
  /\ c.connection = <<>> \/ Numbered(c.connection)
CredInv ==
  /\ amade \in Nat
  /\ acredentials = [n \in DOMAIN acredentials |-> acredentials[n]]
  /\ \A n \in DOMAIN acredentials : IsCredentials(acredentials[n])

Connection(n) == acredentials[n].connection
Connected == {m \in DOMAIN acredentials : Connection(m) # <<>>}
ConnInv ==
  /\ alive => aopen = {Connection(n) : n \in Connected}
  /\ \A n, m \in Connected : n # m => Connection(n)[1] # Connection(m)[1]
  /\ \A n \in Connected : Connection(n)[1] \in amixed \/ Connection(n)[2] = acredentials[n].type
  /\ ~alive => /\ DOMAIN acredentials = {} /\ Idle
               /\ \A c \in aopen :
                    c[1] \in amixed \/ \E f \in AFiles : f.plugin = c[2] /\ ~DlMethod(f, "dbdisconnect")

SessInv ==
  /\ asession \in [AThreads -> [at : {"idle", "opens", "open"}, name : ANames \cup {None}]]
  /\ \A t \in AThreads :
       /\ asession[t].at # "idle" => asession[t].name \in DOMAIN acredentials
       /\ asession[t].at = "open" => asession[t].name \in Connected

(* What is left to do of a scan is the rest of what its file holds.        *)
EntriesOf(s) == {s[i] : i \in DOMAIN s}
TodoInv ==
  /\ atodo = [files |-> atodo.files, entries |-> atodo.entries, given |-> atodo.given]
  /\ atodo.files \subseteq AFiles
  /\ atodo.given.format \in {"xml", "json"}
  /\ atodo.given.entries \in Seq(EntriesOf(atodo.given.entries))
  /\ atodo.entries \in Seq(EntriesOf(atodo.given.entries))
  /\ ascans \in Nat
  /\ ascans = 0 => DOMAIN acredentials = {} /\ DOMAIN amodules = {} /\ Idle

(* The entries that a parser comes to and takes, the first of a name or a  *)
(* later one.                                                              *)
Pluginless(e) == Named(e) /\ e.type \notin DOMAIN amodules
Takes(config, i) ==
  /\ Named(config.entries[i]) /\ ~Pluginless(config.entries[i])
  /\ config.format = "json" =>
       \A j \in DOMAIN config.entries : Pluginless(config.entries[j]) => i < j

(* The first k entries of the file are parsed, and the credentials are     *)
(* those it gave, or set since.                                            *)
CameTo(k) ==
  LET E == atodo.given.entries
  IN  /\ \/ /\ Len(atodo.entries) = Len(E) - k
            /\ \A i \in 1 .. Len(E) - k : atodo.entries[i] = E[i + k]
            /\ atodo.given.format = "json" => \A j \in 1 .. k : ~Pluginless(E[j])
         \/ /\ atodo.given.format = "json" /\ Idle
            /\ \E j \in 1 .. k : Pluginless(E[j])
      /\ atodo.files # {} => k = 0
      /\ \A i \in 1 .. k : Takes(atodo.given, i) =>
           /\ E[i].name \in DOMAIN acredentials
           /\ \/ i \notin KnownEntries(atodo.given)
              \/ acredentials[E[i].name].file = "set"
              \/ /\ acredentials[E[i].name].type = E[i].type
                 /\ acredentials[E[i].name].file = FileName(E[i])
      /\ \A n \in DOMAIN acredentials :
           \/ Idle /\ acredentials[n].file = "set"
           \/ \E i \in 1 .. k : i \in KnownEntries(atodo.given) /\ E[i].name = n
ParseInv == ascans = 1 /\ alive => \E k \in 0 .. Len(atodo.given.entries) : CameTo(k)

ManagerIInv ==
  LibInv /\ CredInv /\ ConnInv /\ SessInv /\ TodoInv /\ ParseInv /\ RequestsAreChecked

(* The entries taken, said of each entry alone.                            *)
LEMMA KnownTakes ==
  ASSUME NEW config, config.format \in {"xml", "json"},
         config.entries \in Seq(EntriesOf(config.entries))
  PROVE  /\ DOMAIN config.entries \subseteq Nat
         /\ \A i : i \in KnownEntries(config) <=>
              /\ i \in DOMAIN config.entries
              /\ Takes(config, i)
              /\ \A j \in DOMAIN config.entries :
                   Takes(config, j) /\ config.entries[j].name = config.entries[i].name => i <= j
<1>. DEFINE named == {i \in DOMAIN config.entries : Named(config.entries[i])}
            unknown == {i \in named : config.entries[i].type \notin DOMAIN amodules}
            read == IF config.format = "xml" THEN named \ unknown
                    ELSE {i \in named : \A j \in unknown : i < j}
<1>1. DOMAIN config.entries \subseteq Nat
  OBVIOUS
<1>2. \A i : i \in unknown <=> i \in DOMAIN config.entries /\ Pluginless(config.entries[i])
  BY DEF Pluginless
<1>3. \A i : i \in read <=> i \in DOMAIN config.entries /\ Takes(config, i)
  <2>. SUFFICES ASSUME NEW i
                PROVE  i \in read <=> i \in DOMAIN config.entries /\ Takes(config, i)
    OBVIOUS
  <2>1. CASE config.format = "xml"
    BY <2>1, <1>2 DEF Takes
  <2>2. CASE config.format = "json"
    <3>1. i \in read <=> i \in named /\ \A j \in unknown : i < j
      BY <2>2
    <3>2. i \in DOMAIN config.entries => ~(i < i)
      BY <1>1
    <3>. HIDE DEF unknown, read
    <3>. QED
      BY <3>1, <3>2, <2>2, <1>2 DEF Takes
  <2>. QED
    BY <2>1, <2>2
<1>4. KnownEntries(config) = {i \in read : \A j \in read :
                                config.entries[j].name = config.entries[i].name => i <= j}
  BY DEF KnownEntries
<1>. HIDE DEF read
<1>. QED
  BY <1>1, <1>3, <1>4

(* A library is loaded once if it is the one of its plugin, and else not.  *)
OfItsPlugin(modules, f) == f.plugin \in DOMAIN modules /\ modules[f.plugin] = f
OnceEach(modules, loaded) == loaded = [f \in AFiles |-> IF OfItsPlugin(modules, f) THEN 1 ELSE 0]
LEMMA HeldIsOnceEach ==
  ASSUME NEW modules, NEW loaded, \A n \in DOMAIN modules : modules[n].plugin = n
  PROVE  loaded = [f \in AFiles |-> Cardinality({n \in DOMAIN modules : modules[n] = f})]
           <=> OnceEach(modules, loaded)
<1>1. ASSUME NEW f \in AFiles
      PROVE  Cardinality({n \in DOMAIN modules : modules[n] = f})
               = IF OfItsPlugin(modules, f) THEN 1 ELSE 0
  <2>1. CASE OfItsPlugin(modules, f)
    <3>1. {n \in DOMAIN modules : modules[n] = f} = {f.plugin}
      BY <2>1 DEF OfItsPlugin
    <3>. QED
      BY <3>1, <2>1, FS_Singleton
  <2>2. CASE ~OfItsPlugin(modules, f)
    <3>1. {n \in DOMAIN modules : modules[n] = f} = {}
      BY <2>2 DEF OfItsPlugin
    <3>. QED
      BY <3>1, <2>2, FS_EmptySet
  <2>. QED
    BY <2>1, <2>2
<1>2. [f \in AFiles |-> Cardinality({n \in DOMAIN modules : modules[n] = f})]
        = [f \in AFiles |-> IF OfItsPlugin(modules, f) THEN 1 ELSE 0]
  BY <1>1
<1>. QED
  BY <1>2 DEF OnceEach

LEMMA ManagerStarts == ASSUME ManagerInit PROVE ManagerIInv
<1>1. amodules = <<>> /\ acredentials = <<>> /\ DOMAIN amodules = {} /\ DOMAIN acredentials = {}
  BY DEF ManagerInit
<1>2. LibInv
  <2>1. OnceEach(amodules, aloaded)
    BY <1>1 DEF ManagerInit, OnceEach, OfItsPlugin
  <2>4. amodules = [n \in DOMAIN amodules |-> amodules[n]]
    BY <1>1
  <2>. QED
    BY <1>1, <2>1, <2>4, HeldIsOnceEach DEF LibInv, LibrariesAreHeld
<1>3. CredInv
  BY <1>1 DEF CredInv, ManagerInit
<1>4. ConnInv
  BY <1>1 DEF ConnInv, Connected, ManagerInit
<1>5. SessInv
  BY DEF SessInv, ManagerInit
<1>6. TodoInv
  <2>1. /\ atodo.files = {} /\ atodo.entries = <<>> /\ atodo.given = NoConfig
        /\ atodo = [files |-> atodo.files, entries |-> atodo.entries, given |-> atodo.given]
    BY DEF ManagerInit, NotScanning
  <2>2. NoConfig.entries = <<>> /\ NoConfig.format = "xml"
    BY DEF NoConfig
  <2>3. \A S : <<>> \in Seq(S)
    OBVIOUS
  <2>4. ascans = 0
    BY DEF ManagerInit
  <2>. QED
    BY <1>1, <2>1, <2>2, <2>3, <2>4 DEF TodoInv, Idle
<1>7. ParseInv /\ RequestsAreChecked
  BY DEF ParseInv, RequestsAreChecked, ManagerInit
<1>. QED
  BY <1>2, <1>3, <1>4, <1>5, <1>6, <1>7 DEF ManagerIInv

(* The invariant implies what the run checks.                              *)
LEMMA ManagerImplies == ASSUME ManagerIInv PROVE ManagerKeeps
<1>1. LibrariesAreHeld /\ RequestsAreChecked
  BY DEF ManagerIInv, LibInv
<1>2. ConnectionsAreHeld
  <2>1. alive => aopen = {acredentials[n].connection :
                   n \in {m \in DOMAIN acredentials : acredentials[m].connection # <<>>}}
    BY DEF ManagerIInv, ConnInv, Connected, Connection
  <2>2. ASSUME NEW n \in DOMAIN acredentials, NEW m \in DOMAIN acredentials,
               acredentials[n].connection = acredentials[m].connection, n # m
        PROVE  acredentials[n].connection = <<>>
    BY <2>2 DEF ManagerIInv, ConnInv, Connected, Connection
  <2>3. ASSUME NEW n \in DOMAIN acredentials
        PROVE  \/ acredentials[n].connection = <<>> \/ acredentials[n].connection[1] \in amixed
               \/ acredentials[n].connection[2] = acredentials[n].type
    BY DEF ManagerIInv, ConnInv, Connected, Connection
  <2>4. ~alive => \A c \in aopen :
          c[1] \in amixed \/ \E f \in AFiles : f.plugin = c[2] /\ ~DlMethod(f, "dbdisconnect")
    BY DEF ManagerIInv, ConnInv
  <2>5. ASSUME NEW t \in AThreads, asession[t].at = "open"
        PROVE  acredentials[asession[t].name].connection \in aopen
    <3>1. asession[t].name \in Connected
      BY <2>5 DEF ManagerIInv, SessInv
    <3>2. alive
      BY <3>1 DEF ManagerIInv, ConnInv, Connected
    <3>. QED
      BY <3>1, <3>2 DEF ManagerIInv, ConnInv, Connection
  <2>. QED
    BY <2>1, <2>2, <2>3, <2>4, <2>5 DEF ConnectionsAreHeld
<1>3. ConfigIsTaken
  <2>. DEFINE E == atodo.given.entries
              known == {E[i] : i \in KnownEntries(atodo.given)}
  <2>. SUFFICES ASSUME ascans = 1, Idle, alive
                PROVE  /\ \A e \in known : /\ e.name \in DOMAIN acredentials
                                           /\ \/ acredentials[e.name].file = "set"
                                              \/ /\ acredentials[e.name].type = e.type
                                                 /\ acredentials[e.name].file = FileName(e)
                       /\ \A n \in DOMAIN acredentials :
                            acredentials[n].file = "set" \/ \E e \in known : e.name = n
    BY DEF ConfigIsTaken
  <2>1. PICK k \in 0 .. Len(E) : CameTo(k)
    BY DEF ManagerIInv, ParseInv
  <2>2. atodo.given.format \in {"xml", "json"} /\ E \in Seq(EntriesOf(E))
    BY DEF ManagerIInv, TodoInv
  <2>3. ASSUME NEW i \in KnownEntries(atodo.given)
        PROVE  i \in 1 .. k /\ Takes(atodo.given, i)
    <3>1. i \in DOMAIN E /\ Takes(atodo.given, i) /\ i \in 1 .. Len(E)
      BY <2>2, KnownTakes
    <3>2. Len(E) \in Nat /\ k \in Nat
      BY <2>2
    <3>3. CASE Len(atodo.entries) = Len(E) - k
      <4>1. Len(atodo.entries) = 0
        BY DEF Idle
      <4>. QED
        BY <4>1, <3>1, <3>2, <3>3
    <3>4. CASE atodo.given.format = "json" /\ \E j \in 1 .. k : Pluginless(E[j])
      <4>1. PICK j \in 1 .. k : Pluginless(E[j])
        BY <3>4
      <4>2. j \in DOMAIN E
        BY <2>2, <3>2
      <4>3. i < j
        BY <3>1, <3>4, <4>1, <4>2 DEF Takes
      <4>. QED
        BY <4>3, <3>1, <3>2
    <3>. QED
      BY <3>3, <3>4, <2>1 DEF CameTo
  <2>. QED
    BY <2>1, <2>3 DEF CameTo
<1>. QED
  BY <1>1, <1>2, <1>3 DEF ManagerKeeps

(* A part of the invariant depends on these variables alone.               *)
LEMMA ManagerFrames ==
  ASSUME ManagerIInv
  PROVE  /\ UNCHANGED <<amodules, aloaded>> => LibInv'
         /\ UNCHANGED <<amodules, amade, acredentials>> => CredInv'
         /\ UNCHANGED <<alive, aopen, acredentials, amixed, atodo>> => ConnInv'
         /\ UNCHANGED <<asession, acredentials>> => SessInv'
         /\ UNCHANGED <<atodo, ascans, acredentials, amodules>> => TodoInv'
         /\ UNCHANGED <<atodo, ascans, alive, acredentials, amodules>> => ParseInv'
         /\ UNCHANGED acrash => RequestsAreChecked'
<1>1. LibInv /\ CredInv /\ ConnInv /\ SessInv /\ TodoInv /\ ParseInv /\ RequestsAreChecked
  BY DEF ManagerIInv
<1>2. UNCHANGED <<amodules, aloaded>> => LibInv'
  BY <1>1 DEF LibInv, LibrariesAreHeld
<1>3. UNCHANGED <<amodules, amade, acredentials>> => CredInv'
  BY <1>1 DEF CredInv, IsCredentials, Numbered
<1>4. UNCHANGED <<alive, aopen, acredentials, amixed, atodo>> => ConnInv'
  <2>. SUFFICES ASSUME UNCHANGED <<alive, aopen, acredentials, amixed, atodo>> PROVE ConnInv'
    OBVIOUS
  <2>1. (Idle' <=> Idle) /\ Connected' = Connected /\ \A n : Connection(n)' = Connection(n)
    BY DEF Idle, Connected, Connection
  <2>. QED
    BY <1>1, <2>1 DEF ConnInv
<1>5. UNCHANGED <<asession, acredentials>> => SessInv'
  BY <1>1 DEF SessInv, Connected, Connection
<1>6. UNCHANGED <<atodo, ascans, acredentials, amodules>> => TodoInv'
  BY <1>1 DEF TodoInv, Idle
<1>7. UNCHANGED <<atodo, ascans, alive, acredentials, amodules>> => ParseInv'
  <2>. SUFFICES ASSUME UNCHANGED <<atodo, ascans, alive, acredentials, amodules>>,
                       ascans = 1, alive
                PROVE  \E k \in 0 .. Len(atodo.given.entries) : CameTo(k)'
    BY DEF ParseInv
  <2>1. PICK k \in 0 .. Len(atodo.given.entries) : CameTo(k)
    BY <1>1 DEF ParseInv
  <2>2. /\ Idle' <=> Idle
        /\ \A e : Pluginless(e)' <=> Pluginless(e)
    BY DEF Idle, Pluginless
  <2>3. /\ \A config, i : Takes(config, i)' <=> Takes(config, i)
        /\ \A config : KnownEntries(config)' = KnownEntries(config)
    BY <2>2 DEF Takes, KnownEntries
  <2>4. CameTo(k)'
    BY <2>1, <2>2, <2>3 DEF CameTo
  <2>. QED
    BY <2>4
<1>8. UNCHANGED acrash => RequestsAreChecked'
  BY <1>1 DEF RequestsAreChecked
<1>. QED
  BY <1>2, <1>3, <1>4, <1>5, <1>6, <1>7, <1>8

LEMMA ManagerStutters == ASSUME ManagerIInv, UNCHANGED managerVars PROVE ManagerIInv'
BY ManagerFrames DEF ManagerIInv, managerVars

(* Requests disturb only what they say of a method and of the cursor: the  *)
(* five that ask for another method are the ones that may be called for    *)
(* nothing.                                                                *)
LEMMA DoesKeeps ==
  ASSUME ManagerIInv, acrash = None, NEW t, NEW method, NEW checked, NEW cursor,
         Does(t, method, checked, cursor),
         \/ method = checked
         \/ method \in {"dbupdate", "dbinsert", "dbdelete", "dbschema", "dbtable"}
  PROVE  ManagerIInv'
<1>1. UNCHANGED <<scanVars, acredentials, aopen, amade, amixed, asession>>
  BY DEF Does
<1>2. UNCHANGED <<amodules, aloaded, ascans, apath, aobserver, alive, atodo>>
  BY <1>1 DEF scanVars
<1>3. acrash' \in {None, "dbupdate", "dbinsert", "dbdelete", "dbschema", "dbtable"}
  BY DEF Does
<1>4. RequestsAreChecked'
  BY <1>3 DEF RequestsAreChecked
<1>. QED
  BY <1>1, <1>2, <1>4, ManagerFrames DEF ManagerIInv

LEMMA RequestsKeep ==
  ASSUME ManagerIInv, acrash = None, Requests
  PROVE  ManagerIInv'
<1>1. CASE \E t \in AThreads : \/ Query(t) \/ Procedure(t) \/ TableSize(t) \/ SequenceGet(t)
                               \/ Change(t) \/ Transaction(t) \/ Describe(t)
  <2>1. PICK t \in AThreads : \/ Query(t) \/ Procedure(t) \/ TableSize(t) \/ SequenceGet(t)
                              \/ Change(t) \/ Transaction(t) \/ Describe(t)
    BY <1>1
  <2>2. PICK method, checked, cursor :
          /\ Does(t, method, checked, cursor)
          /\ \/ method = checked
             \/ method \in {"dbupdate", "dbinsert", "dbdelete", "dbschema", "dbtable"}
    <3>1. CASE Query(t) \/ Procedure(t) \/ TableSize(t) \/ SequenceGet(t)
      BY <3>1 DEF Query, Procedure, TableSize, SequenceGet
    <3>2. CASE Change(t)
      BY <3>2 DEF Change
    <3>3. CASE Transaction(t)
      BY <3>3 DEF Transaction
    <3>4. CASE Describe(t)
      BY <3>4 DEF Describe
    <3>. QED
      BY <2>1, <3>1, <3>2, <3>3, <3>4
  <2>. QED
    BY <2>2, DoesKeeps
<1>2. CASE ManagerFetch
  BY <1>2, ManagerStutters DEF ManagerFetch
<1>. QED
  BY <1>1, <1>2 DEF Requests

(* A scan of a file begins with all it holds, and what it gives is known   *)
(* for the first one only.                                                 *)
LEMMA ScanKeeps ==
  ASSUME ManagerConstants, ManagerIInv, NEW config \in AConfigs,
         Scan(config) \/ ScanJson(config), UNCHANGED acrash
  PROVE  ManagerIInv'
<1>. DEFINE way == atodo'.given
<1>1. /\ alive /\ Idle /\ ascans' = ascans + 1
      /\ UNCHANGED <<amodules, aloaded, acredentials, aopen, amade, amixed, alive, asession>>
  BY DEF Scan, ScanJson, MayScan
<1>2. PICK path : ValidateConfig(config, path)
  BY DEF Scan, ScanJson
<1>3. PICK file, given :
        /\ atodo' = [files |-> Found(file), entries |-> given.entries, given |-> given]
        /\ given = config \/ given = [config EXCEPT !.entries = <<>>]
  BY <1>2 DEF ValidateConfig
<1>4. Found(file) \subseteq AFiles
  BY DEF Found
<1>5. /\ given.format \in {"xml", "json"} /\ given.entries \in Seq(EntriesOf(given.entries))
      /\ EntriesOf(given.entries) = {given.entries[i] : i \in DOMAIN given.entries}
  <2>1. /\ DOMAIN config = {"format", "path", "exec", "entries"}
        /\ config.format \in {"xml", "json"}
        /\ config.entries \in Seq(EntriesOf(config.entries))
    BY DEF ManagerConstants, EntriesOf
  <2>2. given.format = config.format /\ (given = config \/ given.entries = <<>>)
    BY <1>3, <2>1
  <2>3. \A S : <<>> \in Seq(S)
    OBVIOUS
  <2>. QED
    BY <2>1, <2>2, <2>3 DEF EntriesOf
<1>6. /\ atodo'.files = Found(file) /\ atodo'.entries = given.entries /\ atodo'.given = given
      /\ atodo' = [files |-> atodo'.files, entries |-> atodo'.entries, given |-> atodo'.given]
  BY <1>3
<1>7. ascans \in Nat /\ ascans' \in Nat /\ ascans' # 0
  BY <1>1 DEF ManagerIInv, TodoInv
<1>8. TodoInv'
  BY <1>4, <1>5, <1>6, <1>7 DEF TodoInv, EntriesOf
<1>9. ParseInv'
  <2>. SUFFICES ASSUME ascans' = 1
                PROVE  \E k \in 0 .. Len(atodo'.given.entries) : CameTo(k)'
    BY DEF ParseInv
  <2>1. DOMAIN acredentials = {}
    BY <1>1, <1>7 DEF ManagerIInv, TodoInv
  <2>2. Len(given.entries) \in Nat /\ 0 \in 0 .. Len(given.entries)
    BY <1>5
  <2>3. CameTo(0)'
    <3>1. /\ Len(given.entries) = Len(given.entries) - 0
          /\ \A i \in 1 .. Len(given.entries) - 0 : given.entries[i] = given.entries[i + 0]
          /\ 1 .. 0 = {}
      BY <2>2
    <3>. QED
      BY <3>1, <2>1, <1>1, <1>6 DEF CameTo
  <2>. QED
    BY <2>2, <2>3, <1>6
<1>10. ConnInv'
  <2>1. Connected' = Connected /\ \A n : Connection(n)' = Connection(n)
    BY <1>1 DEF Connected, Connection
  <2>. QED
    BY <1>1, <2>1 DEF ManagerIInv, ConnInv
<1>. QED
  BY <1>1, <1>8, <1>9, <1>10, ManagerFrames DEF ManagerIInv

(* A library that is looked at stays loaded if its plugin is new.          *)
LEMMA ScanPluginKeeps ==
  ASSUME ManagerIInv, ScanPlugin, UNCHANGED acrash
  PROVE  ManagerIInv'
<1>1. PICK f \in atodo.files :
        /\ atodo' = [atodo EXCEPT !.files = @ \ {f}]
        /\ IF DlNew(f) /\ DlMethod(f, "dbinfo")
           THEN AddPlugin(f, [aloaded EXCEPT ![f] = @ + 1])
           ELSE UNCHANGED <<amodules, aloaded>>
        /\ UNCHANGED <<acredentials, aopen, amade, amixed, ascans, apath, aobserver, alive, asession,
                       acursor>>
  BY DEF ScanPlugin
<1>2. /\ LibInv /\ CredInv /\ ConnInv /\ SessInv /\ TodoInv /\ ParseInv /\ RequestsAreChecked
      /\ f \in AFiles /\ ~Idle /\ alive /\ atodo.files # {}
  BY <1>1 DEF ManagerIInv, TodoInv, Idle, ConnInv
<1>3. /\ atodo'.files = atodo.files \ {f} /\ atodo'.entries = atodo.entries
      /\ atodo'.given = atodo.given
      /\ atodo' = [files |-> atodo'.files, entries |-> atodo'.entries, given |-> atodo'.given]
  BY <1>1, <1>2 DEF TodoInv
<1>4. /\ OnceEach(amodules, aloaded) /\ aloaded[f] = IF OfItsPlugin(amodules, f) THEN 1 ELSE 0
      /\ \A n \in DOMAIN amodules : amodules[n].plugin = n
  BY <1>2, HeldIsOnceEach DEF LibInv, LibrariesAreHeld, OnceEach
<1>5. LibInv' /\ DOMAIN amodules \subseteq DOMAIN amodules'
  <2>1. CASE UNCHANGED <<amodules, aloaded>>
    BY <2>1, ManagerFrames
  <2>2. CASE AddPlugin(f, [aloaded EXCEPT ![f] = @ + 1]) /\ f.plugin \in DOMAIN amodules
    <3>1. /\ UNCHANGED amodules
          /\ aloaded' = [[aloaded EXCEPT ![f] = @ + 1] EXCEPT ![f] = @ - 1]
      BY <2>2 DEF AddPlugin
    <3>3. DOMAIN aloaded = AFiles /\ aloaded = [g \in AFiles |-> aloaded[g]]
      BY <1>4 DEF OnceEach
    <3>5. aloaded' = aloaded
      <4>. DEFINE more == [aloaded EXCEPT ![f] = @ + 1]
      <4>1. /\ more = [g \in AFiles |-> IF g = f THEN aloaded[f] + 1 ELSE aloaded[g]]
            /\ aloaded' = [more EXCEPT ![f] = @ - 1]
        BY <3>1, <3>3, <1>2
      <4>. HIDE DEF more
      <4>2. /\ DOMAIN aloaded' = AFiles /\ aloaded' = [g \in AFiles |-> aloaded'[g]]
            /\ aloaded'[f] = aloaded[f]
            /\ \A g \in AFiles \ {f} : aloaded'[g] = aloaded[g]
        <5>1. /\ DOMAIN more = AFiles /\ more[f] = aloaded[f] + 1
              /\ \A g \in AFiles \ {f} : more[g] = aloaded[g]
          BY <4>1, <1>2
        <5>2. aloaded' = [g \in AFiles |-> IF g = f THEN more[f] - 1 ELSE more[g]]
          BY <4>1, <5>1
        <5>3. DOMAIN aloaded' = AFiles /\ aloaded' = [g \in AFiles |-> aloaded'[g]]
          BY <5>2
        <5>4. aloaded'[f] = aloaded[f]
          <6>1. aloaded'[f] = more[f] - 1
            BY <5>2, <1>2
          <6>. QED
            <7>1. aloaded[f] \in Nat /\ more[f] = aloaded[f] + 1
              BY <5>1, <1>4
            <7>. HIDE DEF more
            <7>. QED
              BY <6>1, <7>1
        <5>5. \A g \in AFiles \ {f} : aloaded'[g] = aloaded[g]
          BY <5>1, <5>2
        <5>. QED
          BY <5>3, <5>4, <5>5
      <4>3. \A g \in AFiles : aloaded'[g] = aloaded[g]
        BY <4>2
      <4>. QED
        BY <4>2, <4>3, <3>3
    <3>. QED
      BY <3>1, <3>5, ManagerFrames
  <2>3. CASE AddPlugin(f, [aloaded EXCEPT ![f] = @ + 1]) /\ f.plugin \notin DOMAIN amodules
    <3>1. /\ aloaded' = [aloaded EXCEPT ![f] = @ + 1]
          /\ amodules' = [n \in DOMAIN amodules \cup {f.plugin} |->
                            IF n = f.plugin THEN f ELSE amodules[n]]
      BY <2>3 DEF AddPlugin
    <3>2. /\ \A n \in DOMAIN amodules' : amodules'[n] \in AFiles /\ amodules'[n].plugin = n
          /\ amodules' = [n \in DOMAIN amodules' |-> amodules'[n]]
      BY <3>1, <1>2 DEF LibInv
    <3>3. OfItsPlugin(amodules', f) /\ ~OfItsPlugin(amodules, f)
      BY <3>1, <2>3 DEF OfItsPlugin
    <3>4. ASSUME NEW g \in AFiles, g # f PROVE OfItsPlugin(amodules', g) <=> OfItsPlugin(amodules, g)
      BY <3>1, <3>4, <2>3 DEF OfItsPlugin
    <3>5. aloaded' = [g \in AFiles |-> IF OfItsPlugin(amodules', g) THEN 1 ELSE 0]
      <4>1. \A g \in AFiles : aloaded'[g] = IF OfItsPlugin(amodules', g) THEN 1 ELSE 0
        <5>. TAKE g \in AFiles
        <5>1. CASE g = f
          BY <5>1, <3>1, <3>3, <1>4, <1>2 DEF OnceEach
        <5>2. CASE g # f
          BY <5>2, <3>1, <3>4, <1>4 DEF OnceEach
        <5>. QED
          BY <5>1, <5>2
      <4>2. aloaded' = [g \in AFiles |-> aloaded'[g]]
        BY <3>1, <1>4 DEF OnceEach
      <4>. QED
        BY <4>1, <4>2
    <3>6. OnceEach(amodules', aloaded')
      BY <3>5 DEF OnceEach
    <3>7. LibrariesAreHeld'
      BY <3>2, <3>6, HeldIsOnceEach DEF LibrariesAreHeld
    <3>. QED
      BY <3>1, <3>2, <3>7 DEF LibInv
  <2>. QED
    BY <1>1, <2>1, <2>2, <2>3
<1>6. CredInv'
  BY <1>1, <1>2, <1>5 DEF CredInv, IsCredentials, Numbered
<1>7. ConnInv'
  <2>1. Connected' = Connected /\ \A n : Connection(n)' = Connection(n)
    BY <1>1 DEF Connected, Connection
  <2>. QED
    BY <1>1, <1>2, <2>1 DEF ConnInv
<1>8. TodoInv'
  BY <1>1, <1>2, <1>3 DEF TodoInv
<1>9. ParseInv'
  <2>. SUFFICES ASSUME ascans = 1, alive
                PROVE  \E k \in 0 .. Len(atodo'.given.entries) : CameTo(k)'
    BY <1>1 DEF ParseInv
  <2>1. PICK k \in 0 .. Len(atodo.given.entries) : CameTo(k)
    BY <1>2 DEF ParseInv
  <2>2. k = 0 /\ 1 .. 0 = {}
    BY <2>1, <1>2 DEF CameTo
  <2>3. DOMAIN acredentials = {}
    BY <2>1, <2>2, <1>2 DEF CameTo
  <2>4. CameTo(0)'
    BY <2>1, <2>2, <2>3, <1>1, <1>3 DEF CameTo
  <2>. QED
    BY <2>1, <2>2, <2>4, <1>3
<1>. QED
  BY <1>1, <1>5, <1>6, <1>7, <1>8, <1>9, ManagerFrames DEF ManagerIInv

(* An entry is parsed: those of before stay as they are, and a new one is  *)
(* the first of its name.  The scan goes on with the next, or a JSON file  *)
(* ends at an entry without a plugin.                                      *)
ParsesHead ==
  LET e == Head(atodo.entries)
  IN  /\ atodo.files = {} /\ atodo.entries # <<>>
      /\ ParseDatabase(e)
      /\ \/ /\ atodo' = Rest(Tail(atodo.entries))
            /\ atodo.given.format = "json" => ~Pluginless(e)
         \/ /\ atodo' = Rest(<<>>)
            /\ atodo.given.format = "json" /\ Pluginless(e)
      /\ UNCHANGED <<amodules, aloaded, aopen, amade, amixed, ascans, alive, asession, acrash>>

LEMMA ParseKeeps == ASSUME ManagerIInv, ParsesHead PROVE ManagerIInv'
<1>. DEFINE e == Head(atodo.entries)
            E == atodo.given.entries
            Read == Named(e) /\ e.type \in DOMAIN amodules
<1>1. /\ LibInv /\ CredInv /\ ConnInv /\ SessInv /\ TodoInv /\ ParseInv /\ RequestsAreChecked
      /\ atodo.files = {} /\ atodo.entries # <<>> /\ ~Idle /\ alive /\ ascans # 0
  BY DEF ManagerIInv, ParsesHead, Idle, ConnInv, TodoInv
<1>2. UNCHANGED <<amodules, aloaded, aopen, amade, amixed, ascans, alive, asession, acrash>>
  BY DEF ParsesHead
<1>3. /\ acredentials' = [n \in DOMAIN acredentials' |-> acredentials'[n]]
      /\ DOMAIN acredentials \subseteq DOMAIN acredentials'
      /\ \A n \in DOMAIN acredentials : acredentials'[n] = acredentials[n]
      /\ \A n \in DOMAIN acredentials' \ DOMAIN acredentials :
           n = e.name /\ Read /\ acredentials'[n] = Credentials(e)
      /\ Read => e.name \in DOMAIN acredentials'
  <2>. HIDE DEF e
  <2>1. acredentials' = IF Read /\ e.name \notin DOMAIN acredentials
                        THEN With(e.name, Credentials(e)) ELSE acredentials
    BY DEF ParsesHead, ParseDatabase, e
  <2>2. CASE Read /\ e.name \notin DOMAIN acredentials
    BY <2>1, <2>2 DEF With
  <2>3. CASE ~(Read /\ e.name \notin DOMAIN acredentials)
    BY <2>1, <2>3, <1>1 DEF CredInv
  <2>. QED
    BY <2>2, <2>3
<1>4. CredInv'
  <2>1. ASSUME NEW n \in DOMAIN acredentials' PROVE IsCredentials(acredentials[n])'
    <3>1. CASE n \in DOMAIN acredentials
      BY <3>1, <1>1, <1>2, <1>3 DEF CredInv, IsCredentials, Numbered
    <3>2. CASE n \notin DOMAIN acredentials
      BY <3>2, <1>2, <1>3 DEF IsCredentials, Credentials
    <3>. QED
      BY <3>1, <3>2
  <2>. QED
    BY <2>1, <1>1, <1>2, <1>3 DEF CredInv
<1>5. /\ Connected' = Connected
      /\ \A n \in Connected : Connection(n)' = Connection(n) /\ acredentials'[n] = acredentials[n]
  BY <1>3 DEF Connected, Connection, Credentials
<1>6. ConnInv'
  BY <1>1, <1>2, <1>5 DEF ConnInv
<1>7. SessInv'
  BY <1>1, <1>2, <1>3, <1>5 DEF SessInv
<1>8. /\ atodo' = [files |-> {}, entries |-> atodo'.entries, given |-> atodo.given]
      /\ atodo'.files = {} /\ atodo'.given = atodo.given
      /\ \/ /\ atodo'.entries = Tail(atodo.entries)
            /\ atodo.given.format = "json" => ~Pluginless(e)
         \/ /\ atodo'.entries = <<>>
            /\ atodo.given.format = "json" /\ Pluginless(e)
  BY <1>1 DEF ParsesHead, Rest, TodoInv
<1>9. TodoInv'
  <2>1. atodo.entries \in Seq(EntriesOf(E)) /\ atodo.entries # <<>>
    BY <1>1 DEF TodoInv
  <2>2. Tail(atodo.entries) \in Seq(EntriesOf(E)) /\ <<>> \in Seq(EntriesOf(E))
    <3>1. \A S, s : s \in Seq(S) /\ s # <<>> => Tail(s) \in Seq(S)
      OBVIOUS
    <3>2. \A S : <<>> \in Seq(S)
      OBVIOUS
    <3>. QED
      BY <2>1, <3>1, <3>2
  <2>. QED
    BY <2>2, <1>1, <1>2, <1>8 DEF TodoInv
<1>10. ParseInv'
  <2>. SUFFICES ASSUME ascans = 1
                PROVE  \E k \in 0 .. Len(E) : CameTo(k)'
    BY <1>2, <1>8 DEF ParseInv
  <2>1. PICK k \in 0 .. Len(E) : CameTo(k)
    BY <1>1 DEF ParseInv
  <2>0. atodo.given.format \in {"xml", "json"} /\ E \in Seq(EntriesOf(E))
    BY <1>1 DEF TodoInv
  <2>2. /\ atodo.given.format \in {"xml", "json"} /\ E \in Seq(EntriesOf(E))
        /\ atodo.entries \in Seq(EntriesOf(E)) /\ Len(E) \in Nat /\ Len(atodo.entries) \in Nat
        /\ DOMAIN E = 1 .. Len(E) /\ k \in Nat /\ DOMAIN E \subseteq Nat
    <3>1. atodo.given.format \in {"xml", "json"} /\ E \in Seq(EntriesOf(E))
          /\ atodo.entries \in Seq(EntriesOf(E))
      BY <1>1 DEF TodoInv
    <3>. QED
      BY <3>1
  <2>3. /\ Len(atodo.entries) = Len(E) - k
        /\ \A i \in 1 .. Len(E) - k : atodo.entries[i] = E[i + k]
        /\ atodo.given.format = "json" => \A j \in 1 .. k : ~Pluginless(E[j])
    BY <2>1, <1>1 DEF CameTo
  <2>4. k + 1 \in 1 .. Len(E) /\ e = E[k + 1] /\ k + 1 \in 0 .. Len(E)
    <3>1. Len(atodo.entries) # 0 /\ e = atodo.entries[1]
      BY <1>1, <2>2
    <3>2. 1 \in 1 .. Len(E) - k
      BY <3>1, <2>2, <2>3
    <3>3. atodo.entries[1] = E[1 + k]
      BY <3>2, <2>3
    <3>. QED
      BY <3>1, <3>2, <3>3, <2>2
  <2>5. \A i : i \in 1 .. k + 1 <=> i \in 1 .. k \/ i = k + 1
    BY <2>2
  <2>6. /\ \A x : Pluginless(x)' <=> Pluginless(x)
        /\ \A config, i : Takes(config, i)' <=> Takes(config, i)
        /\ \A config : KnownEntries(config)' = KnownEntries(config)
    BY <1>2 DEF Pluginless, Takes, KnownEntries
  <2>. DEFINE Known == KnownEntries(atodo.given)
  <2>7. \A i : i \in Known <=>
          /\ i \in DOMAIN E
          /\ Takes(atodo.given, i)
          /\ \A j \in DOMAIN E : Takes(atodo.given, j) /\ E[j].name = E[i].name => i <= j
    BY <2>0, KnownTakes
  <2>. HIDE DEF e, E, Known
  <2>8. \A i \in 1 .. k : Takes(atodo.given, i) =>
           /\ E[i].name \in DOMAIN acredentials
           /\ \/ i \notin Known
              \/ acredentials[E[i].name].file = "set"
              \/ /\ acredentials[E[i].name].type = E[i].type
                 /\ acredentials[E[i].name].file = FileName(E[i])
    BY <2>1 DEF CameTo, E, Known
  <2>9. \A n \in DOMAIN acredentials : \E i \in 1 .. k : i \in Known /\ E[i].name = n
    BY <2>1, <1>1 DEF CameTo, E, Known
  <2>10. ASSUME Takes(atodo.given, k + 1)
         PROVE  /\ e.name \in DOMAIN acredentials'
                /\ \/ k + 1 \notin Known
                   \/ /\ acredentials'[e.name].type = e.type
                      /\ acredentials'[e.name].file = FileName(e)
    <3>1. Read
      BY <2>10, <2>4 DEF Takes, Pluginless, E
    <3>2. CASE e.name \notin DOMAIN acredentials
      BY <3>1, <3>2, <1>3 DEF Credentials
    <3>3. CASE e.name \in DOMAIN acredentials
      <4>1. PICK i \in 1 .. k : i \in Known /\ E[i].name = e.name
        BY <3>3, <2>9
      <4>2. k + 1 \notin Known
        BY <4>1, <2>2, <2>4, <2>7 DEF E
      <4>. QED
        BY <4>2, <3>1, <1>3
    <3>. QED
      BY <3>2, <3>3
  <2>11. ASSUME NEW n \in DOMAIN acredentials', n \notin DOMAIN acredentials
         PROVE  k + 1 \in Known /\ E[k + 1].name = n
    <3>1. n = e.name /\ Read
      BY <2>11, <1>3
    <3>2. Takes(atodo.given, k + 1)
      <4>1. Named(e) /\ ~Pluginless(e)
        BY <3>1 DEF Pluginless
      <4>2. ASSUME atodo.given.format = "json", NEW j \in DOMAIN E, Pluginless(E[j])
            PROVE  k + 1 < j
        <5>1. j \notin 1 .. k /\ j # k + 1
          BY <4>1, <4>2, <2>3, <2>4 DEF E
        <5>. QED
          BY <5>1, <2>2 DEF E
      <4>. QED
        BY <4>1, <4>2, <2>4 DEF Takes, E
    <3>3. ASSUME NEW j \in DOMAIN E, Takes(atodo.given, j), E[j].name = e.name
          PROVE  k + 1 <= j
      <4>1. j \notin 1 .. k
        BY <3>1, <3>3, <2>8, <2>11
      <4>. QED
        BY <4>1, <2>2 DEF E
    <3>. QED
      BY <3>1, <3>2, <3>3, <2>2, <2>4, <2>7 DEF E
  <2>12. /\ \A i \in 1 .. k + 1 : Takes(atodo.given, i) =>
             /\ E[i].name \in DOMAIN acredentials'
             /\ \/ i \notin Known
                \/ acredentials'[E[i].name].file = "set"
                \/ /\ acredentials'[E[i].name].type = E[i].type
                   /\ acredentials'[E[i].name].file = FileName(E[i])
         /\ \A n \in DOMAIN acredentials' : \E i \in 1 .. k + 1 : i \in Known /\ E[i].name = n
    <3>1. ASSUME NEW i \in 1 .. k + 1, Takes(atodo.given, i)
          PROVE  /\ E[i].name \in DOMAIN acredentials'
                 /\ \/ i \notin Known
                    \/ acredentials'[E[i].name].file = "set"
                    \/ /\ acredentials'[E[i].name].type = E[i].type
                       /\ acredentials'[E[i].name].file = FileName(E[i])
      <4>1. CASE i \in 1 .. k
        BY <4>1, <3>1, <2>8, <1>3
      <4>2. CASE i = k + 1
        BY <4>2, <3>1, <2>4, <2>10 DEF E
      <4>. QED
        BY <4>1, <4>2, <2>5
    <3>2. ASSUME NEW n \in DOMAIN acredentials'
          PROVE  \E i \in 1 .. k + 1 : i \in Known /\ E[i].name = n
      <4>1. CASE n \in DOMAIN acredentials
        BY <4>1, <2>9, <2>5
      <4>2. CASE n \notin DOMAIN acredentials
        BY <4>2, <2>11, <2>5
      <4>. QED
        BY <4>1, <4>2
    <3>. QED
      BY <3>1, <3>2
  <2>13. \/ /\ Len(atodo'.entries) = Len(E) - (k + 1)
            /\ \A i \in 1 .. Len(E) - (k + 1) : atodo'.entries[i] = E[i + (k + 1)]
            /\ atodo.given.format = "json" => \A j \in 1 .. k + 1 : ~Pluginless(E[j])
         \/ /\ atodo.given.format = "json" /\ Idle'
            /\ \E j \in 1 .. k + 1 : Pluginless(E[j])
    <3>1. CASE /\ atodo'.entries = Tail(atodo.entries)
               /\ atodo.given.format = "json" => ~Pluginless(e)
      <4>1. Len(atodo'.entries) = Len(E) - (k + 1)
        <5>1. Len(Tail(atodo.entries)) = Len(atodo.entries) - 1
          BY <1>1, <2>2 DEF E
        <5>. QED
          <6>1. Len(atodo'.entries) = Len(atodo.entries) - 1
            BY <5>1, <3>1
          <6>2. Len(E) \in Nat /\ k \in Nat /\ Len(atodo.entries) = Len(E) - k
            BY <2>2, <2>3 DEF E
          <6>. QED
            BY <6>1, <6>2
      <4>2. ASSUME NEW i \in 1 .. Len(E) - (k + 1)
            PROVE  atodo'.entries[i] = E[i + (k + 1)]
        <5>1. Len(E) \in Nat /\ k \in Nat /\ Len(atodo.entries) = Len(E) - k
          BY <2>2, <2>3 DEF E
        <5>2. /\ i \in Nat /\ i + 1 \in 1 .. Len(E) - k /\ (i + 1) + k = i + (k + 1)
              /\ i \in 1 .. Len(atodo.entries) - 1
          BY <5>1
        <5>3. Tail(atodo.entries)[i] = atodo.entries[i + 1]
          BY <5>2, <1>1, <2>2 DEF E
        <5>4. atodo.entries[i + 1] = E[(i + 1) + k]
          BY <5>2, <2>3 DEF E
        <5>. QED
          BY <5>2, <5>3, <5>4, <3>1
      <4>3. atodo.given.format = "json" => \A j \in 1 .. k + 1 : ~Pluginless(E[j])
        BY <3>1, <2>3, <2>4, <2>5 DEF E
      <4>. QED
        BY <4>1, <4>2, <4>3
    <3>2. CASE /\ atodo'.entries = <<>>
               /\ atodo.given.format = "json" /\ Pluginless(e)
      <4>1. k + 1 \in 1 .. k + 1 /\ Pluginless(E[k + 1])
        BY <3>2, <2>4, <2>5 DEF E
      <4>. QED
        BY <4>1, <3>2, <1>8 DEF Idle
    <3>. QED
      BY <3>1, <3>2, <1>8 DEF e
  <2>14. CameTo(k + 1)'
    BY <2>6, <2>12, <2>13, <1>8 DEF CameTo, E, Known
  <2>. QED
    BY <2>4, <2>14 DEF E
<1>. QED
  BY <1>1, <1>2, <1>4, <1>6, <1>7, <1>9, <1>10, ManagerFrames DEF ManagerIInv

LEMMA ParsersKeep ==
  ASSUME ManagerIInv, ParseXml \/ ScanJsonParse, UNCHANGED acrash
  PROVE  ManagerIInv'
<1>1. CASE ParseXml
  <2>1. ParsesHead
    BY <1>1 DEF ParseXml, ParsesHead
  <2>. QED
    BY <2>1, ParseKeeps
<1>2. CASE ScanJsonParse
  <2>1. ParsesHead
    BY <1>2 DEF ScanJsonParse, ParsesHead, Pluginless
  <2>. QED
    BY <2>1, ParseKeeps
<1>. QED
  BY <1>1, <1>2

(* A file is set for a database: its connection stays, and is known to be  *)
(* another plugin's if the plugin changed.                                 *)
LEMMA SetCredentialsFileKeeps ==
  ASSUME ManagerIInv, NEW name, NEW type, SetCredentialsFile(name, type), UNCHANGED acrash
  PROVE  ManagerIInv'
<1>. DEFINE given == [type |-> type, file |-> "set",
                      connection |-> IF name \in DOMAIN acredentials
                                     THEN acredentials[name].connection ELSE <<>>]
            mixed == {acredentials[n].connection[1] : n \in
                        {m \in DOMAIN acredentials \cap {name} :
                           acredentials[m].connection # <<>> /\ acredentials[m].type # type}}
<1>1. /\ LibInv /\ CredInv /\ ConnInv /\ SessInv /\ TodoInv /\ ParseInv /\ RequestsAreChecked
      /\ alive /\ Idle /\ type \in DOMAIN amodules /\ ascans # 0
      /\ acredentials' = With(name, given) /\ amixed' = amixed \cup mixed
      /\ UNCHANGED <<amodules, aloaded, ascans, apath, aobserver, alive, atodo>>
      /\ UNCHANGED <<aopen, amade, asession, acursor>>
  BY DEF ManagerIInv, SetCredentialsFile, Ready, scanVars, TodoInv
<1>2. /\ acredentials' = [n \in DOMAIN acredentials' |-> acredentials'[n]]
      /\ DOMAIN acredentials' = DOMAIN acredentials \cup {name}
      /\ \A n \in DOMAIN acredentials \ {name} : acredentials'[n] = acredentials[n]
      /\ acredentials'[name] = given
  BY <1>1 DEF With
<1>3. /\ given.type = type /\ given.file = "set"
      /\ given.connection = IF name \in DOMAIN acredentials
                            THEN acredentials[name].connection ELSE <<>>
      /\ given = [type |-> given.type, connection |-> given.connection, file |-> given.file]
  OBVIOUS
<1>4. \A n : n \in Connected /\ n = name /\ acredentials[n].type # type
               => Connection(n)[1] \in mixed
  BY DEF Connected, Connection
<1>. HIDE DEF given, mixed
<1>5. CredInv'
  <2>1. ASSUME NEW n \in DOMAIN acredentials' PROVE IsCredentials(acredentials[n])'
    <3>1. CASE n # name
      <4>1. n \in DOMAIN acredentials /\ acredentials'[n] = acredentials[n]
        BY <3>1, <1>2
      <4>. QED
        BY <4>1, <1>1 DEF CredInv, IsCredentials, Numbered
    <3>2. CASE n = name
      <4>1. given.connection = <<>> \/ Numbered(given.connection)
        BY <1>1, <1>3 DEF CredInv, IsCredentials
      <4>2. (given.connection = <<>> \/ Numbered(given.connection))'
        BY <4>1, <1>1, <1>3, <1>2 DEF Numbered, given
      <4>. QED
        BY <3>2, <4>1, <1>1, <1>2, <1>3 DEF IsCredentials, Numbered
    <3>. QED
      BY <3>1, <3>2
  <2>. QED
    BY <2>1, <1>1, <1>2 DEF CredInv
<1>6. /\ Connected' = Connected
      /\ \A n \in Connected : Connection(n)' = Connection(n)
  BY <1>2, <1>3 DEF Connected, Connection
<1>7. ConnInv'
  <2>1. ASSUME NEW n \in Connected
        PROVE  Connection(n)[1] \in amixed' \/ Connection(n)[2] = acredentials'[n].type
    <3>1. CASE n # name
      BY <3>1, <1>1, <1>2 DEF ConnInv, Connected
    <3>2. CASE n = name /\ acredentials[n].type # type
      BY <3>2, <1>1, <1>4
    <3>3. CASE n = name /\ acredentials[n].type = type
      BY <3>3, <1>1, <1>2, <1>3 DEF ConnInv, Connected
    <3>. QED
      BY <3>1, <3>2, <3>3
  <2>2. (alive => aopen = {Connection(n) : n \in Connected})'
    BY <1>1, <1>6 DEF ConnInv
  <2>. QED
    BY <2>1, <2>2, <1>1, <1>6 DEF ConnInv
<1>8. SessInv'
  BY <1>1, <1>2, <1>6 DEF SessInv
<1>9. TodoInv'
  BY <1>1 DEF TodoInv
<1>10. ParseInv'
  <2>. DEFINE E == atodo.given.entries
              Known == KnownEntries(atodo.given)
  <2>. SUFFICES ASSUME ascans = 1
                PROVE  \E k \in 0 .. Len(E) : CameTo(k)'
    BY <1>1 DEF ParseInv
  <2>1. PICK k \in 0 .. Len(E) : CameTo(k)
    BY <1>1 DEF ParseInv
  <2>2. /\ \A x : Pluginless(x)' <=> Pluginless(x)
        /\ \A config, i : Takes(config, i)' <=> Takes(config, i)
        /\ \A config : KnownEntries(config)' = KnownEntries(config)
        /\ Idle'
    BY <1>1 DEF Pluginless, Takes, KnownEntries, Idle
  <2>. HIDE DEF E, Known
  <2>3. ASSUME NEW i \in 1 .. k, Takes(atodo.given, i)
        PROVE  /\ E[i].name \in DOMAIN acredentials'
               /\ \/ i \notin Known
                  \/ acredentials'[E[i].name].file = "set"
                  \/ /\ acredentials'[E[i].name].type = E[i].type
                     /\ acredentials'[E[i].name].file = FileName(E[i])
    <3>1. CASE E[i].name = name
      BY <3>1, <1>2, <1>3
    <3>2. CASE E[i].name # name
      BY <3>2, <2>1, <2>3, <1>2 DEF CameTo, E, Known
    <3>. QED
      BY <3>1, <3>2
  <2>4. ASSUME NEW n \in DOMAIN acredentials'
        PROVE  \/ acredentials'[n].file = "set"
               \/ \E i \in 1 .. k : i \in Known /\ E[i].name = n
    <3>1. CASE n = name
      BY <3>1, <1>2, <1>3
    <3>2. CASE n # name
      BY <3>2, <2>1, <1>2 DEF CameTo, E, Known
    <3>. QED
      BY <3>1, <3>2
  <2>5. CameTo(k)'
    BY <2>1, <2>2, <2>3, <2>4, <1>1 DEF CameTo, E, Known
  <2>. QED
    BY <2>5
<1>. QED
  BY <1>1, <1>5, <1>7, <1>8, <1>9, <1>10, ManagerFrames DEF ManagerIInv

(* Sessions that open and close leave the databases alone.                 *)
LEMMA SessionsKeep ==
  ASSUME ManagerIInv, NEW t \in AThreads,
         (\E name \in ANames : OpenSession(t, name)) \/ CloseSession(t), UNCHANGED acrash
  PROVE  ManagerIInv'
<1>1. /\ UNCHANGED <<amodules, aloaded, ascans, apath, aobserver, alive, atodo>>
      /\ UNCHANGED <<acredentials, aopen, amade, amixed, acursor>>
  BY DEF OpenSession, CloseSession, scanVars
<1>2. SessInv'
  <2>1. SessInv /\ Connected' = Connected
    BY <1>1 DEF ManagerIInv, Connected, Connection
  <2>2. ASSUME NEW name \in ANames, OpenSession(t, name) PROVE SessInv'
    <3>1. /\ asession' = [asession EXCEPT ![t] = [at |-> "opens", name |-> name]]
          /\ name \in DOMAIN acredentials
      BY <2>2 DEF OpenSession
    <3>. QED
      BY <3>1, <2>1, <1>1 DEF SessInv
  <2>3. ASSUME CloseSession(t) PROVE SessInv'
    <3>1. asession' = [asession EXCEPT ![t].at = "idle"]
      BY <2>3 DEF CloseSession, Answers
    <3>. QED
      BY <3>1, <2>1, <1>1 DEF SessInv
  <2>. QED
    BY <2>2, <2>3
<1>. QED
  BY <1>1, <1>2, ManagerFrames DEF ManagerIInv

(* Under the mutex a database is connected once: the new connection's      *)
(* number is one that none has.                                            *)
LEMMA ConnectKeeps ==
  ASSUME ManagerIInv, NEW t \in AThreads, Connect(t), UNCHANGED acrash
  PROVE  ManagerIInv'
<1>0. PICK name, new : name = asession[t].name /\ new = <<amade + 1, acredentials[name].type>>
  OBVIOUS
<1>1. /\ LibInv /\ CredInv /\ ConnInv /\ SessInv /\ TodoInv /\ ParseInv /\ RequestsAreChecked
      /\ asession[t].at = "opens" /\ name \in DOMAIN acredentials
      /\ UNCHANGED <<amodules, aloaded, ascans, apath, aobserver, alive, atodo, acursor>>
  BY <1>0 DEF ManagerIInv, Connect, scanVars, SessInv
<1>2. CASE /\ Answers(t, "open") \/ Answers(t, "idle")
           /\ Answers(t, "open") => name \in Connected
           /\ UNCHANGED <<acredentials, aopen, amade, amixed>>
  <2>1. Connected' = Connected
    BY <1>2 DEF Connected, Connection
  <2>2. SessInv'
    BY <1>0, <1>1, <1>2, <2>1 DEF SessInv, Answers
  <2>. QED
    BY <1>1, <1>2, <2>2, ManagerFrames DEF ManagerIInv
<1>3. CASE Connects(name) /\ Answers(t, "open") /\ name \notin Connected
  <2>1. /\ amade' = amade + 1 /\ aopen' = aopen \cup {new} /\ UNCHANGED amixed
        /\ acredentials' = [acredentials EXCEPT ![name].connection = new]
        /\ asession' = [asession EXCEPT ![t].at = "open"]
    BY <1>0, <1>3 DEF Connects, Answers
  <2>2. /\ new # <<>> /\ new[1] = amade + 1 /\ new[2] = acredentials[name].type
        /\ new = <<new[1], new[2]>>
    <3>1. Len(new) = 2 /\ Len(<<>>) = 0
      BY <1>0
    <3>. QED
      BY <3>1, <1>0
  <2>3. /\ alive /\ ascans # 0 /\ DOMAIN acredentials # {}
        /\ amade \in Nat /\ amade' \in Nat /\ 1 .. amade \subseteq 1 .. amade'
        /\ amade' \in 1 .. amade' /\ amade' \notin 1 .. amade
    BY <1>1, <2>1 DEF ConnInv, TodoInv, CredInv
  <2>4. /\ acredentials' = [n \in DOMAIN acredentials' |-> acredentials'[n]]
        /\ DOMAIN acredentials' = DOMAIN acredentials
        /\ \A n \in DOMAIN acredentials \ {name} : acredentials'[n] = acredentials[n]
        /\ acredentials'[name] = [type |-> acredentials[name].type, connection |-> new,
                                  file |-> acredentials[name].file]
    <3>1. acredentials[name] = [type |-> acredentials[name].type,
                                connection |-> acredentials[name].connection,
                                file |-> acredentials[name].file]
      BY <1>1 DEF CredInv, IsCredentials
    <3>2. acredentials'[name] = [acredentials[name] EXCEPT !.connection = new]
      BY <2>1, <1>1
    <3>. QED
      BY <3>1, <3>2, <2>1, <1>1 DEF CredInv
  <2>5. /\ acredentials'[name].type = acredentials[name].type
        /\ acredentials'[name].file = acredentials[name].file
        /\ acredentials'[name].connection = new
        /\ acredentials'[name] = [type |-> acredentials'[name].type,
                                  connection |-> acredentials'[name].connection,
                                  file |-> acredentials'[name].file]
    BY <2>4
  <2>6. CredInv'
    <3>1. ASSUME NEW n \in DOMAIN acredentials PROVE IsCredentials(acredentials[n])'
      <4>1. CASE n # name
        <5>1. acredentials'[n] = acredentials[n] /\ IsCredentials(acredentials[n])
          BY <4>1, <2>4, <1>1 DEF CredInv
        <5>. QED
          BY <5>1, <2>3, <1>1 DEF IsCredentials, Numbered
      <4>2. CASE n = name
        <5>1. acredentials[name].type \in DOMAIN amodules
          BY <1>1 DEF CredInv, IsCredentials
        <5>2. new = <<new[1], new[2]>> /\ new[1] \in 1 .. amade'
          BY <2>1, <2>2, <2>3
        <5>. QED
          BY <4>2, <5>1, <5>2, <2>5, <1>1 DEF IsCredentials, Numbered
      <4>. QED
        BY <4>1, <4>2
    <3>. QED
      BY <3>1, <2>3, <2>4 DEF CredInv
  <2>7. /\ Connected' = Connected \cup {name}
        /\ \A n \in Connected : n # name /\ Connection(n)' = Connection(n)
                                /\ acredentials'[n] = acredentials[n]
        /\ Connection(name)' = new
    BY <1>1, <1>3, <2>2, <2>4, <2>5 DEF Connected, Connection
  <2>8. \A n \in Connected : Connection(n)[1] \in 1 .. amade
    BY <1>1 DEF CredInv, IsCredentials, Numbered, Connected, Connection
  <2>9. ConnInv'
    <3>1. aopen' = {Connection(n)' : n \in Connected'}
      <4>1. aopen = {Connection(n) : n \in Connected}
        BY <1>1, <2>3 DEF ConnInv
      <4>2. {Connection(n)' : n \in Connected'} = {Connection(n) : n \in Connected} \cup {new}
        BY <2>7
      <4>. QED
        BY <4>1, <4>2, <2>1
    <3>2. \A n, m \in Connected' : n # m => Connection(n)'[1] # Connection(m)'[1]
      BY <1>1, <2>1, <2>2, <2>3, <2>7, <2>8 DEF ConnInv
    <3>3. \A n \in Connected' :
            Connection(n)'[1] \in amixed \/ Connection(n)'[2] = acredentials'[n].type
      BY <1>1, <2>2, <2>5, <2>7 DEF ConnInv
    <3>. QED
      BY <3>1, <3>2, <3>3, <2>1, <2>3, <1>1 DEF ConnInv
  <2>10. SessInv'
    BY <1>0, <1>1, <2>1, <2>4, <2>7 DEF SessInv
  <2>11. TodoInv'
    BY <1>1, <2>3 DEF TodoInv
  <2>12. ParseInv'
    <3>. SUFFICES ASSUME ascans = 1
                  PROVE  \E k \in 0 .. Len(atodo.given.entries) : CameTo(k)'
      BY <1>1 DEF ParseInv
    <3>1. PICK k \in 0 .. Len(atodo.given.entries) : CameTo(k)
      BY <1>1, <2>3 DEF ParseInv
    <3>2. /\ \A x : Pluginless(x)' <=> Pluginless(x)
          /\ \A config, i : Takes(config, i)' <=> Takes(config, i)
          /\ \A config : KnownEntries(config)' = KnownEntries(config)
          /\ Idle' <=> Idle
      BY <1>1 DEF Pluginless, Takes, KnownEntries, Idle
    <3>3. \A n \in DOMAIN acredentials : /\ acredentials'[n].type = acredentials[n].type
                                         /\ acredentials'[n].file = acredentials[n].file
      BY <2>4, <2>5
    <3>4. CameTo(k)'
      <4>1. /\ atodo' = atodo /\ DOMAIN acredentials' = DOMAIN acredentials
            /\ \A i : Takes(atodo.given, i)' <=> Takes(atodo.given, i)
            /\ \A e : Pluginless(e)' <=> Pluginless(e)
            /\ KnownEntries(atodo.given)' = KnownEntries(atodo.given)
            /\ Idle' <=> Idle
        BY <3>2, <2>4, <1>1
      <4>. DEFINE E == atodo.given.entries
                  T(i) == Takes(atodo.given, i)
                  P(e) == Pluginless(e)
                  K == KnownEntries(atodo.given)
      <4>2. /\ E' = E /\ K' = K /\ atodo'.given.entries = E
            /\ \A i : T(i)' <=> T(i)
            /\ \A e : P(e)' <=> P(e)
        BY <4>1
      <4>3. \A i \in 1 .. k : T(i) =>
              /\ E[i].name \in DOMAIN acredentials
              /\ \/ i \notin K
                 \/ acredentials[E[i].name].file = "set"
                 \/ /\ acredentials[E[i].name].type = E[i].type
                    /\ acredentials[E[i].name].file = FileName(E[i])
        BY <3>1 DEF CameTo
      <4>4. \A i \in 1 .. k : T(i)' =>
              /\ E[i].name \in DOMAIN acredentials'
              /\ \/ i \notin K'
                 \/ acredentials'[E[i].name].file = "set"
                 \/ /\ acredentials'[E[i].name].type = E[i].type
                    /\ acredentials'[E[i].name].file = FileName(E[i])
        <5>. HIDE DEF T, E, K
        <5>. QED
          BY <4>1, <4>2, <4>3, <3>3
      <4>5. \A n \in DOMAIN acredentials :
              \/ Idle /\ acredentials[n].file = "set"
              \/ \E i \in 1 .. k : i \in K /\ E[i].name = n
        BY <3>1 DEF CameTo
      <4>6. \A n \in DOMAIN acredentials' :
              \/ Idle' /\ acredentials'[n].file = "set"
              \/ \E i \in 1 .. k : i \in K' /\ E[i].name = n
        <5>. HIDE DEF E, K
        <5>. QED
          BY <4>1, <4>2, <4>5, <3>3
      <4>7. \/ /\ Len(atodo.entries) = Len(E) - k
               /\ \A i \in 1 .. Len(E) - k : atodo.entries[i] = E[i + k]
               /\ atodo.given.format = "json" => \A j \in 1 .. k : ~P(E[j])
            \/ /\ atodo.given.format = "json" /\ Idle
               /\ \E j \in 1 .. k : P(E[j])
        BY <3>1 DEF CameTo
      <4>8. \/ /\ Len(atodo'.entries) = Len(E') - k
               /\ \A i \in 1 .. Len(E') - k : atodo'.entries[i] = E'[i + k]
               /\ atodo'.given.format = "json" => \A j \in 1 .. k : ~P(E[j])'
            \/ /\ atodo'.given.format = "json" /\ Idle'
               /\ \E j \in 1 .. k : P(E[j])'
        BY <4>1, <4>7
      <4>9. atodo'.files # {} => k = 0
        BY <3>1, <4>1 DEF CameTo
      <4>10. \A i \in 1 .. k : T(i)' =>
              /\ E'[i].name \in DOMAIN acredentials'
              /\ \/ i \notin K'
                 \/ acredentials'[E'[i].name].file = "set"
                 \/ /\ acredentials'[E'[i].name].type = E'[i].type
                    /\ acredentials'[E'[i].name].file = FileName(E'[i])
        BY <4>2, <4>4
      <4>11. \A n \in DOMAIN acredentials' :
              \/ Idle' /\ acredentials'[n].file = "set"
              \/ \E i \in 1 .. k : i \in K' /\ E'[i].name = n
        BY <4>2, <4>6
      <4>. QED
        BY <4>8, <4>9, <4>10, <4>11, Zenon DEF CameTo
    <3>. QED
      BY <3>4
  <2>. QED
    BY <1>1, <2>6, <2>9, <2>10, <2>11, <2>12, ManagerFrames DEF ManagerIInv
<1>. QED
  <2>1. name \in Connected <=> acredentials[name].connection # <<>>
    BY <1>1 DEF Connected, Connection
  <2>. QED
    <3>1. IF acredentials[name].connection # <<>>
          THEN Answers(t, "open") /\ UNCHANGED <<acredentials, aopen, amade, amixed>>
          ELSE \/ Connects(name) /\ Answers(t, "open")
               \/ Answers(t, "idle") /\ UNCHANGED <<acredentials, aopen, amade, amixed>>
      BY <1>0 DEF Connect
    <3>2. Answers(t, "idle") => ~Answers(t, "open")
      <4>1. t \in DOMAIN asession /\ DOMAIN asession[t] = {"at", "name"}
        BY <1>1 DEF SessInv
      <4>2. Answers(t, "idle") => asession'[t].at = "idle"
        BY <4>1 DEF Answers
      <4>3. Answers(t, "open") => asession'[t].at = "open"
        BY <4>1 DEF Answers
      <4>. QED
        BY <4>2, <4>3
    <3>. QED
      BY <3>1, <3>2, <2>1, <1>2, <1>3

LEMMA ReleaseKeeps == ASSUME ManagerIInv, Release, UNCHANGED acrash PROVE ManagerIInv'
<1>1. /\ UNCHANGED <<amodules, aloaded, ascans, apath, aobserver, alive, atodo>>
      /\ UNCHANGED <<acredentials, aopen, amade, amixed, asession>>
  BY DEF Release, scanVars
<1>. QED
  BY <1>1, ManagerFrames DEF ManagerIInv

(* When the manager is deleted every connection is closed whose plugin can *)
(* close it, and every library is unloaded as often as it was loaded.      *)
LEMMA ManagerDeleteKeeps ==
  ASSUME ManagerIInv, ManagerDelete, UNCHANGED acrash
  PROVE  ManagerIInv'
<1>1. /\ LibInv /\ CredInv /\ ConnInv /\ SessInv /\ TodoInv /\ ParseInv /\ RequestsAreChecked
      /\ alive /\ Idle /\ (\A t \in AThreads : asession[t].at = "idle") /\ ~alive'
      /\ acredentials' = <<>> /\ amodules' = <<>>
      /\ aloaded' = [f \in AFiles |-> IF \E n \in DOMAIN amodules : amodules[n] = f
                                      THEN aloaded[f] - 1 ELSE aloaded[f]]
      /\ UNCHANGED <<amade, amixed, atodo, ascans, apath, asession, acursor>>
  BY DEF ManagerIInv, ManagerDelete, Ready
<1>2. DOMAIN acredentials' = {} /\ DOMAIN amodules' = {}
  BY <1>1
<1>3. LibInv'
  <2>1. OnceEach(amodules, aloaded)
    BY <1>1, HeldIsOnceEach DEF LibInv, LibrariesAreHeld
  <2>2. ASSUME NEW f \in AFiles PROVE aloaded'[f] = 0
    <3>1. aloaded[f] = IF OfItsPlugin(amodules, f) THEN 1 ELSE 0
      BY <2>1 DEF OnceEach
    <3>2. OfItsPlugin(amodules, f) <=> \E n \in DOMAIN amodules : amodules[n] = f
      BY <1>1 DEF LibInv, OfItsPlugin
    <3>. QED
      BY <1>1, <3>1, <3>2
  <2>3. OnceEach(amodules', aloaded')
    <3>1. \A f : ~OfItsPlugin(amodules', f)
      BY <1>2 DEF OfItsPlugin
    <3>2. aloaded' = [f \in AFiles |-> aloaded'[f]]
      BY <1>1
    <3>. QED
      BY <2>2, <3>1, <3>2 DEF OnceEach
  <2>4. LibrariesAreHeld'
    BY <1>2, <2>3, HeldIsOnceEach DEF LibrariesAreHeld
  <2>5. amodules' = [n \in DOMAIN amodules' |-> amodules'[n]]
    BY <1>1
  <2>. QED
    BY <1>2, <2>4, <2>5 DEF LibInv
<1>4. CredInv'
  <2>1. acredentials' = [n \in DOMAIN acredentials' |-> acredentials'[n]]
    BY <1>1
  <2>. QED
    BY <1>1, <1>2, <2>1 DEF CredInv
<1>5. Connected' = {}
  BY <1>2 DEF Connected
<1>6. ConnInv'
  <2>1. ASSUME NEW c \in aopen'
        PROVE  \/ c[1] \in amixed
               \/ \E f \in AFiles : f.plugin = c[2] /\ ~DlMethod(f, "dbdisconnect")
    <3>1. /\ c \in {Connection(n) : n \in Connected}
          /\ c \notin {acredentials[n].connection :
                         n \in {m \in DOMAIN acredentials :
                                  DlMethod(Plugin(acredentials[m].type), "dbdisconnect")}}
      BY <1>1, <2>1 DEF ConnInv, ManagerDelete
    <3>2. PICK n \in Connected : c = acredentials[n].connection
      BY <3>1 DEF Connection
    <3>3. n \in DOMAIN acredentials /\ ~DlMethod(Plugin(acredentials[n].type), "dbdisconnect")
      BY <3>1, <3>2 DEF Connected
    <3>4. /\ acredentials[n].type \in DOMAIN amodules
          /\ Plugin(acredentials[n].type) \in AFiles
          /\ Plugin(acredentials[n].type).plugin = acredentials[n].type
      BY <3>3, <1>1 DEF CredInv, IsCredentials, LibInv, Plugin
    <3>5. c[1] \in amixed \/ c[2] = acredentials[n].type
      BY <3>2, <1>1 DEF ConnInv, Connection
    <3>. QED
      BY <3>3, <3>4, <3>5
  <2>2. Idle'
    BY <1>1 DEF Idle
  <2>. QED
    BY <2>1, <2>2, <1>1, <1>2, <1>5 DEF ConnInv
<1>7. SessInv'
  BY <1>1 DEF SessInv
<1>8. TodoInv'
  BY <1>1, <1>2 DEF TodoInv, Idle
<1>9. ParseInv'
  BY <1>1 DEF ParseInv
<1>. QED
  BY <1>1, <1>3, <1>4, <1>6, <1>7, <1>8, <1>9, ManagerFrames DEF ManagerIInv

(* The libraries loaded are those of the plugins, a connection that is     *)
(* open is one database's and nobody's else, the databases after a scan    *)
(* are the first of each name, and a request calls what its plugin has but *)
(* for the five that ask for another method: for any directory, any        *)
(* configurations, any threads and any number of scans.                    *)
THEOREM ManagerIsKept ==
  ManagerInit /\ [][ManagerNext]_managerVars => []ManagerKeeps
<1>1. ManagerInit => ManagerIInv
  BY ManagerStarts
<1>2. ManagerIInv /\ [ManagerNext]_managerVars => ManagerIInv'
  <2>. SUFFICES ASSUME ManagerIInv, [ManagerNext]_managerVars PROVE ManagerIInv'
    OBVIOUS
  <2>1. CASE UNCHANGED managerVars
    BY <2>1, ManagerStutters
  <2>2. CASE acrash = None /\ Requests
    BY <2>2, RequestsKeep
  <2>3. CASE Others /\ UNCHANGED acrash
    <3>1. CASE \E config \in AConfigs : Scan(config) \/ ScanJson(config)
      BY <3>1, <2>3, ManagerConstants, ScanKeeps
    <3>2. CASE ScanPlugin
      BY <3>2, <2>3, ScanPluginKeeps
    <3>3. CASE ParseXml \/ ScanJsonParse
      BY <3>3, <2>3, ParsersKeep
    <3>4. CASE \E name \in ANames, type \in DOMAIN amodules : SetCredentialsFile(name, type)
      BY <3>4, <2>3, SetCredentialsFileKeeps
    <3>5. CASE \E t \in AThreads :
                 (\E name \in ANames : OpenSession(t, name)) \/ CloseSession(t)
      BY <3>5, <2>3, SessionsKeep
    <3>6. CASE \E t \in AThreads : Connect(t)
      BY <3>6, <2>3, ConnectKeeps
    <3>7. CASE Release
      BY <3>7, <2>3, ReleaseKeeps
    <3>8. CASE ManagerDelete
      BY <3>8, <2>3, ManagerDeleteKeeps
    <3>. QED
      BY <2>3, <3>1, <3>2, <3>3, <3>4, <3>5, <3>6, <3>7, <3>8 DEF Others
  <2>. QED
    BY <2>1, <2>2, <2>3 DEF ManagerNext
<1>3. ManagerIInv => ManagerKeeps
  BY ManagerImplies
<1>. QED
  BY <1>1, <1>2, <1>3, PTL

-----------------------------------------------------------------------------
(* Requests: what a client builds for the database.                        *)

Plain == QNames \X QValues
Unequal(attrs) == \A i, j \in DOMAIN attrs : attrs[i][1] = attrs[j][1] => i = j
Attributes == {attrs \in Seq(Plain) : Unequal(attrs)}

RequestTyped ==
  /\ qkind \in {"query", "update", "insert", "delete"}
  /\ DOMAIN qrequest = Fields /\ DOMAIN qsaid = Fields
  /\ qconstraint \in Seq(Plain \cup {Inner})
  /\ qcrash \in BOOLEAN /\ qnested \in BOOLEAN

(* A request has nothing in the fields that are none of its kind.          *)
OwnFields == \A f \in Fields \ Of(qkind) : qrequest[f] = Empty[f]

(* A constraint inside of another one is remembered.                       *)
Remembered == (\E i \in DOMAIN qconstraint : qconstraint[i] = Inner) => qnested

RequestIInv ==
  /\ RequestTyped /\ OwnFields /\ Remembered
  /\ qattrs \in Attributes /\ SaidSinceClear /\ (qcrash => qnested)

(* An attribute that is added or replaced has its column alone.            *)
LEMMA AttrsWithKeeps ==
  ASSUME NEW attrs \in Attributes, NEW column \in QNames, NEW value \in QValues
  PROVE  AttrsWith(attrs, column, value) \in Attributes
<1> DEFINE places == {i \in DOMAIN attrs : attrs[i][1] = column}
           new == AttrsWith(attrs, column, value)
<1>1. attrs \in Seq(Plain) /\ Unequal(attrs) /\ <<column, value>> \in Plain
  BY DEF Attributes, Plain
<1>2. CASE places = {}
  <2>1. new = Append(attrs, <<column, value>>)
    BY <1>2 DEF AttrsWith
  <2>2. /\ new \in Seq(Plain) /\ Len(new) = Len(attrs) + 1 /\ Len(attrs) \in Nat
        /\ \A i \in 1 .. Len(attrs) : new[i] = attrs[i]
        /\ new[Len(attrs) + 1] = <<column, value>>
    BY <2>1, <1>1
  <2>3. \A i \in 1 .. Len(attrs) : new[i][1] # column
    BY <2>2, <1>1, <1>2
  <2>. HIDE DEF new
  <2>4. DOMAIN new = 1 .. Len(attrs) + 1
    BY <2>2
  <2>5. Unequal(new)
    <3>. SUFFICES ASSUME NEW i \in DOMAIN new, NEW j \in DOMAIN new, new[i][1] = new[j][1]
                  PROVE  i = j
      BY DEF Unequal
    <3>1. CASE i \in 1 .. Len(attrs) /\ j \in 1 .. Len(attrs)
      BY <3>1, <2>2, <1>1 DEF Unequal
    <3>2. CASE i = Len(attrs) + 1 \/ j = Len(attrs) + 1
      <4>1. new[i][1] = column /\ new[j][1] = column
        BY <3>2, <2>2
      <4>2. i \notin 1 .. Len(attrs) /\ j \notin 1 .. Len(attrs)
        BY <4>1, <2>3
      <4>. QED
        BY <4>2, <2>2, <2>4
    <3>. QED
      BY <3>1, <3>2, <2>2, <2>4
  <2>. QED
    BY <2>2, <2>5 DEF Attributes, new
<1>3. CASE places # {}
  <2>1. new = [i \in DOMAIN attrs |-> IF i \in places THEN <<column, value>> ELSE attrs[i]]
    BY <1>3 DEF AttrsWith
  <2>2. DOMAIN attrs = 1 .. Len(attrs) /\ Len(attrs) \in Nat
    BY <1>1
  <2>3. \A i \in DOMAIN attrs : new[i] \in Plain /\ new[i][1] = attrs[i][1]
    BY <2>1, <1>1
  <2>. HIDE DEF new
  <2>4. DOMAIN new = DOMAIN attrs /\ new \in [1 .. Len(attrs) -> Plain]
    BY <2>1, <2>2, <2>3
  <2>5. new \in Seq(Plain)
    BY <2>2, <2>4
  <2>6. Unequal(new)
    BY <1>1, <2>3, <2>4 DEF Unequal
  <2>. QED
    BY <2>5, <2>6 DEF Attributes, new
<1>. QED
  BY <1>2, <1>3

(* A set of naturals that is not empty has a smallest element.             *)
LEMMA SmallestIn ==
  ASSUME NEW S \in SUBSET Nat, S # {}
  PROVE  \E x \in S : \A y \in S : x <= y
<1> DEFINE R == OpToRel(<, Nat)
<1>1. IsWellFoundedOn(R, Nat)
  BY NatLessThanWellFounded, Zenon
<1>2. PICK x \in S : \A y \in S : ~(<<y, x>> \in R)
  <2> HIDE DEF R
  <2> QED
    BY <1>1, WFMin
<1>3. ASSUME NEW y \in S, y < x PROVE FALSE
  BY <1>2, <1>3 DEF OpToRel
<1>4. ASSUME NEW y \in S PROVE x <= y
  <2>1. x \in Nat /\ y \in Nat
    OBVIOUS
  <2>2. ~(y < x)
    BY <1>3
  <2>. QED
    BY <2>1, <2>2
<1>. QED
  BY <1>4

(* The loop of adbl_constraint_attrs over the first m parts.               *)
Passed(f, parts, m) ==
  f = [k \in 0 .. m |->
        IF k = 0 THEN qattrs
        ELSE IF parts[k] = Inner THEN f[k - 1]
        ELSE AttrsWith(f[k - 1], parts[k][1], parts[k][2])]

LEMMA LoopPasses ==
  ASSUME NEW parts, NEW n \in Nat
  PROVE  \E f : Passed(f, parts, n)
<1> DEFINE D == {m \in Nat : ~ \E f : Passed(f, parts, m)}
<1>1. \E f : Passed(f, parts, 0)
  <2> DEFINE f == [k \in 0 .. 0 |-> qattrs]
  <2>1. \A k \in 0 .. 0 : k = 0 /\ k \in Int
    OBVIOUS
  <2>2. Passed(f, parts, 0)
    BY <2>1 DEF Passed
  <2> QED
    BY <2>2
<1>2. ASSUME NEW m \in Nat, NEW f, Passed(f, parts, m) PROVE \E g : Passed(g, parts, m + 1)
  <2> DEFINE After(v, k) == IF parts[k] = Inner THEN v ELSE AttrsWith(v, parts[k][1], parts[k][2])
             g == [k \in 0 .. m + 1 |-> IF k <= m THEN f[k] ELSE After(f[m], k)]
  <2>1. \A k \in 0 .. m : f[k] = IF k = 0 THEN qattrs ELSE After(f[k - 1], k)
    BY <1>2 DEF Passed
  <2>2. \A k \in 0 .. m + 1 : g[k] = IF k <= m THEN f[k] ELSE After(f[m], k)
    OBVIOUS
  <2>. HIDE DEF After
  <2>3. ASSUME NEW k \in 0 .. m + 1
        PROVE  g[k] = IF k = 0 THEN qattrs ELSE After(g[k - 1], k)
    <3>1. CASE k = 0
      BY <3>1, <2>1, <2>2
    <3>2. CASE k \in 1 .. m
      <4>1. k - 1 \in 0 .. m + 1 /\ k - 1 <= m /\ k <= m /\ k # 0 /\ k \in 0 .. m
        BY <3>2
      <4>. HIDE DEF g
      <4>2. g[k] = f[k] /\ g[k - 1] = f[k - 1]
        BY <4>1, <2>2
      <4>. QED
        BY <4>1, <4>2, <2>1
    <3>3. CASE k = m + 1
      <4>1. k - 1 = m /\ k # 0 /\ ~(k <= m) /\ m \in 0 .. m + 1 /\ m <= m
        BY <3>3
      <4>. HIDE DEF g
      <4>2. g[k] = After(f[m], k) /\ g[m] = f[m]
        BY <4>1, <2>2
      <4>. QED
        BY <4>1, <4>2
    <3>. QED
      BY <3>1, <3>2, <3>3
  <2>4. g = [k \in 0 .. m + 1 |-> g[k]]
    OBVIOUS
  <2>. HIDE DEF g
  <2>5. g = [k \in 0 .. m + 1 |-> IF k = 0 THEN qattrs ELSE After(g[k - 1], k)]
    BY <2>3, <2>4
  <2>6. Passed(g, parts, m + 1)
    BY <2>5 DEF Passed, After
  <2>. QED
    BY <2>6
<1>3. CASE D # {}
  <2>1. PICK x \in D : \A y \in D : x <= y
    <3>1. D \in SUBSET Nat
      OBVIOUS
    <3> HIDE DEF D
    <3> QED
      BY <1>3, <3>1, SmallestIn
  <2>2. x # 0 /\ x - 1 \in Nat /\ x - 1 \notin D
    BY <2>1, <1>1
  <2>3. PICK f : Passed(f, parts, x - 1)
    BY <2>2
  <2>4. (x - 1) + 1 = x
    BY <2>1
  <2>5. \E g : Passed(g, parts, x)
    BY <2>2, <2>3, <2>4, <1>2
  <2>. QED
    BY <2>1, <2>5
<1>. QED
  BY <1>3

LEMMA AttrsFromKeeps ==
  ASSUME qattrs \in Attributes, NEW parts \in Seq(Plain \cup {Inner})
  PROVE  AttrsFrom(parts) \in Attributes
<1> DEFINE n == Len(parts)
           after == CHOOSE f : Passed(f, parts, n)
           D == {k \in 0 .. n : after[k] \notin Attributes}
<1>1. n \in Nat /\ \A k \in 1 .. n : parts[k] \in Plain \cup {Inner}
  OBVIOUS
<1>2. AttrsFrom(parts) = after[n]
  BY DEF AttrsFrom, Passed
<1>. HIDE DEF n
<1>3. Passed(after, parts, n)
  BY <1>1, LoopPasses
<1>. HIDE DEF after
<1>4. \A k \in 0 .. n : after[k] = IF k = 0 THEN qattrs
                                   ELSE IF parts[k] = Inner THEN after[k - 1]
                                   ELSE AttrsWith(after[k - 1], parts[k][1], parts[k][2])
  BY <1>3 DEF Passed
<1>5. CASE D # {}
  <2>1. PICK x \in D : \A y \in D : x <= y
    <3>1. D \in SUBSET Nat
      OBVIOUS
    <3> HIDE DEF D
    <3> QED
      BY <1>5, <3>1, SmallestIn
  <2>2. x \in 0 .. n /\ x # 0
    BY <2>1, <1>4
  <2>3. x \in 1 .. n /\ x - 1 \in 0 .. n /\ after[x - 1] \in Attributes
    BY <2>1, <2>2, <1>1
  <2>4. CASE parts[x] = Inner
    BY <2>1, <2>2, <2>3, <2>4, <1>4
  <2>5. CASE parts[x] # Inner
    <3>1. parts[x][1] \in QNames /\ parts[x][2] \in QValues
      BY <2>3, <2>5, <1>1 DEF Plain
    <3>2. AttrsWith(after[x - 1], parts[x][1], parts[x][2]) \in Attributes
      BY <3>1, <2>3, AttrsWithKeeps
    <3>. QED
      BY <3>2, <2>1, <2>2, <2>5, <1>4
  <2>. QED
    BY <2>4, <2>5
<1>6. D = {} => after[n] \in Attributes
  BY <1>1
<1>. QED
  BY <1>2, <1>5, <1>6

LEMMA RequestStarts == ASSUME RequestInit PROVE RequestIInv
<1>1. qattrs \in Attributes /\ qconstraint \in Seq(Plain \cup {Inner}) /\ DOMAIN qconstraint = {}
  BY DEF RequestInit, Attributes, Unequal
<1>. QED
  BY <1>1 DEF RequestInit, RequestIInv, RequestTyped, OwnFields, Remembered, SaidSinceClear, Empty

(* The operations of a request.                                            *)
LEMMA RequestSets ==
  ASSUME RequestIInv, NEW field \in Fields, NEW value, Sets(field, value), UNCHANGED <<qkind, qnested, qcrash>>
  PROVE  RequestIInv'
<1>1. /\ RequestTyped /\ OwnFields /\ Remembered
      /\ qattrs \in Attributes /\ SaidSinceClear /\ (qcrash => qnested)
  BY DEF RequestIInv
<1>2. /\ field \in Of(qkind) /\ qattrs' = qattrs /\ qconstraint' = qconstraint
      /\ qrequest' = [qrequest EXCEPT ![field] = value]
      /\ qsaid' = [qsaid EXCEPT ![field] = value]
      /\ qkind' = qkind /\ qnested' = qnested /\ qcrash' = qcrash
  BY DEF Sets, Lists
<1>3. RequestTyped' /\ Remembered' /\ (qcrash => qnested)'
  BY <1>1, <1>2 DEF RequestTyped, Remembered
<1>4. OwnFields'
  BY <1>1, <1>2 DEF OwnFields, RequestTyped
<1>5. SaidSinceClear'
  BY <1>1, <1>2 DEF SaidSinceClear, RequestTyped, Left
<1>. QED
  BY <1>1, <1>2, <1>3, <1>4, <1>5 DEF RequestIInv

LEMMA RequestClears ==
  ASSUME RequestIInv, Clear, UNCHANGED <<qkind, qnested, qcrash>>
  PROVE  RequestIInv'
<1>1. /\ RequestTyped /\ OwnFields /\ Remembered
      /\ qattrs \in Attributes /\ SaidSinceClear /\ (qcrash => qnested)
  BY DEF RequestIInv
<1>2. /\ qattrs' = qattrs /\ qconstraint' = qconstraint
      /\ qrequest' = Cleared /\ qsaid' = Empty
      /\ qkind' = qkind /\ qnested' = qnested /\ qcrash' = qcrash
  BY DEF Clear, Lists
<1>3. /\ DOMAIN Cleared = Fields
      /\ \A f \in Fields : Cleared[f] = Empty[f] \/ Cleared[f] = qrequest[f]
      /\ \A f \in Fields : Cleared[f] = Empty[f] \/ f \in Left
  <2>1. CASE qkind = "query"
    BY <2>1, <1>1 DEF Cleared, Empty, Fields, Nothing, RequestTyped, OwnFields, Of, Left
  <2>2. CASE qkind = "update"
    BY <2>2, <1>1 DEF Cleared, Empty, Fields, Nothing
  <2>3. CASE qkind \in {"insert", "delete"}
    BY <2>3, <1>1 DEF Cleared, Empty, Fields, Nothing, RequestTyped, OwnFields, Of, Left
  <2>. QED
    BY <2>1, <2>2, <2>3, <1>1 DEF RequestTyped
<1>4. RequestTyped' /\ Remembered' /\ (qcrash => qnested)'
  BY <1>1, <1>2, <1>3 DEF RequestTyped, Remembered, Empty
<1>5. OwnFields'
  BY <1>1, <1>2, <1>3 DEF OwnFields
<1>6. SaidSinceClear'
  BY <1>2, <1>3 DEF SaidSinceClear, Left
<1>. QED
  BY <1>1, <1>2, <1>4, <1>5, <1>6 DEF RequestIInv

(* The operations of its constraint and its attributes.                    *)
LEMMA ListsKeep ==
  ASSUME RequestIInv, qkind' = qkind,
         ConstraintAdd \/ ConstraintClear \/ AttrsAdd \/ AttrsClear \/ ConstraintAttrs
  PROVE  RequestIInv'
<1>1. /\ RequestTyped /\ OwnFields /\ Remembered
      /\ qattrs \in Attributes /\ SaidSinceClear /\ (qcrash => qnested)
  BY DEF RequestIInv
<1>2. qrequest' = qrequest /\ qsaid' = qsaid
  BY DEF ConstraintAdd, ConstraintClear, AttrsAdd, AttrsClear, ConstraintAttrs, Request
<1>3. OwnFields' /\ SaidSinceClear'
  BY <1>1, <1>2 DEF OwnFields, SaidSinceClear, Left
<1>4. qattrs' \in Attributes
  <2>1. CASE ConstraintAdd \/ ConstraintClear
    BY <2>1, <1>1 DEF ConstraintAdd, ConstraintClear
  <2>2. CASE AttrsAdd
    BY <2>2, <1>1, AttrsWithKeeps DEF AttrsAdd
  <2>3. CASE AttrsClear
    BY <2>3 DEF AttrsClear, Attributes, Unequal
  <2>4. CASE ConstraintAttrs
    BY <2>4, <1>1, AttrsFromKeeps DEF ConstraintAttrs, RequestTyped
  <2>. QED
    BY <2>1, <2>2, <2>3, <2>4
<1>5. /\ qconstraint' \in Seq(Plain \cup {Inner})
      /\ qcrash' \in BOOLEAN /\ qnested' \in BOOLEAN
      /\ Remembered' /\ (qcrash => qnested)'
  <2>1. CASE ConstraintAdd
    <3>1. PICK part \in Plain \cup {Inner} :
            /\ qconstraint' = Append(qconstraint, part)
            /\ qnested' = (qnested \/ part = Inner) /\ qcrash' = qcrash
      BY <2>1 DEF ConstraintAdd, Plain
    <3>2. /\ qconstraint' \in Seq(Plain \cup {Inner})
          /\ \A i \in DOMAIN qconstraint' : i \in DOMAIN qconstraint \/ qconstraint'[i] = part
          /\ \A i \in DOMAIN qconstraint : qconstraint'[i] = qconstraint[i]
      BY <3>1, <1>1 DEF RequestTyped
    <3>. QED
      BY <3>1, <3>2, <1>1 DEF RequestTyped, Remembered
  <2>2. CASE ConstraintClear
    <3>1. qconstraint' = <<>> /\ qnested' = qnested /\ (qcrash' => qnested) /\ qcrash' \in BOOLEAN
      BY <2>2, <1>1 DEF ConstraintClear, RequestTyped, Remembered
    <3>2. DOMAIN qconstraint' = {} /\ qconstraint' \in Seq(Plain \cup {Inner})
      BY <3>1
    <3>. QED
      BY <3>1, <3>2, <1>1 DEF RequestTyped, Remembered
  <2>3. CASE AttrsAdd \/ AttrsClear
    BY <2>3, <1>1 DEF AttrsAdd, AttrsClear, RequestTyped, Remembered
  <2>4. CASE ConstraintAttrs
    BY <2>4, <1>1 DEF ConstraintAttrs, RequestTyped, Remembered
  <2>. QED
    BY <2>1, <2>2, <2>3, <2>4
<1>. QED
  BY <1>1, <1>2, <1>3, <1>4, <1>5 DEF RequestIInv, RequestTyped

(* However a client uses a request again and again: it means what was said *)
(* of it since the clear but for the fields a clear leaves, an attribute   *)
(* has one value, and NULL is followed only where a constraint was put     *)
(* into another: for any names, values and number of parts and steps.      *)
THEOREM RequestsMeanWhatWasSaid ==
  RequestInit /\ [][RequestNext]_requestVars => []RequestsMean
<1>1. RequestInit => RequestIInv
  BY RequestStarts
<1>2. RequestIInv /\ [RequestNext]_requestVars => RequestIInv'
  <2>. SUFFICES ASSUME RequestIInv, [RequestNext]_requestVars PROVE RequestIInv'
    OBVIOUS
  <2>1. CASE UNCHANGED requestVars
    BY <2>1 DEF requestVars, RequestIInv, RequestTyped, OwnFields, Remembered, SaidSinceClear, Left
  <2>2. CASE RequestNext
    <3>1. qkind' = qkind
      BY <2>2 DEF RequestNext
    <3>2. CASE /\ SetTable \/ SetLimit \/ SetForce \/ SetConstraint \/ SetAttributes \/ AddColumn
               /\ UNCHANGED <<qnested, qcrash>>
      <4>1. PICK field \in Fields : \E value : Sets(field, value)
        BY <3>2 DEF SetTable, SetLimit, SetForce, SetConstraint, SetAttributes, AddColumn, Fields
      <4>2. PICK value : Sets(field, value)
        BY <4>1
      <4>. QED
        BY <4>2, <3>1, <3>2, RequestSets
    <3>3. CASE Clear /\ UNCHANGED <<qnested, qcrash>>
      BY <3>1, <3>3, RequestClears
    <3>4. CASE ConstraintAdd \/ ConstraintClear \/ AttrsAdd \/ AttrsClear \/ ConstraintAttrs
      BY <3>1, <3>4, ListsKeep
    <3>. QED
      BY <2>2, <3>2, <3>3, <3>4 DEF RequestNext
  <2>. QED
    BY <2>1, <2>2
<1>3. RequestIInv => RequestsMean
  BY DEF RequestIInv, RequestsMean, Attributes, Unequal, OneValueEach
<1>. QED
  BY <1>1, <1>2, <1>3, PTL

-----------------------------------------------------------------------------
(* Messages: the registry of modules and their callbacks.                  *)

(* What a call has done: it walked through the live list up to pos.  A     *)
(* broadcast has called what lies behind it; a send nobody yet, or its     *)
(* module, which it has found.                                             *)
WalkedSoFar(c) ==
  LET list == ListOf(c.method)
  IN  /\ c.pos > 0
      /\ c.running => c.pos <= Len(list)
      /\ IF c.kind = "broadcast"
         THEN /\ c.pos <= Len(list) + 1
              /\ Len(c.called) = IF c.running THEN c.pos ELSE c.pos - 1
              /\ \A j \in DOMAIN c.called : c.called[j] = list[j]
         ELSE \/ /\ c.called = <<>> /\ ~c.running
                 /\ \A j \in DOMAIN list : j < c.pos => list[j] # c.module
              \/ /\ c.called = <<c.module>>
                 /\ IF c.running THEN list[c.pos] = c.module
                    ELSE c.pos = Len(list) + 1 /\ c.module \in Members(list)

Walked == \A t \in Threads : \A i \in DOMAIN stack[t] : WalkedSoFar(stack[t][i])

(* The inductive invariant.  CalleeRegistered follows from Walked.         *)
RegistryIInv == TypeOK /\ RegistryClean /\ LockedWhileCalling /\ Walked

(* TypeOK in parts.                                                        *)
LockTyped == reads \in [Threads -> 0 .. MaxDepth] /\ writer \subseteq Threads
ListsTyped ==
  /\ DOMAIN functions \subseteq Methods
  /\ \A m \in DOMAIN functions : functions[m] \in Seq(Modules)
StackTyped == stack \in [Threads -> Seq(Calls)]
WantsTyped == wants \in [Threads -> Asked \cup {NoCall}]
OpTyped == op \in [Threads -> Changes \cup {NoOp}]

-----------------------------------------------------------------------------
(* Lists of modules.                                                       *)

(* A list without a module twice is no longer than there are modules.      *)
LEMMA DistinctShort ==
  ASSUME NEW list \in Seq(Modules), Distinct(list)
  PROVE  Len(list) <= Cardinality(Modules)
<1>1. list \in Injection(1 .. Len(list), Modules)
  BY DEF Injection, IsInjective, Distinct
<1>2. IsFiniteSet(1 .. Len(list)) /\ Cardinality(1 .. Len(list)) = Len(list)
  <2>1. Len(list) \in Nat /\ 1 \in Int /\ Len(list) \in Int
    OBVIOUS
  <2> QED BY <2>1, FS_Interval
<1>3. Cardinality(1 .. Len(list)) <= Cardinality(Modules)
  BY <1>1, <1>2, FS_Injection, MessagesConstants
<1> QED BY <1>2, <1>3

LEMMA Typed ==
  RegistryClean => (TypeOK <=> /\ LockTyped /\ ListsTyped /\ StackTyped /\ WantsTyped /\ OpTyped
                                /\ up \in BOOLEAN)
BY DistinctShort DEF TypeOK, LockTyped, ListsTyped, StackTyped, WantsTyped, OpTyped, RegistryClean

LEMMA TypedNext ==
  ASSUME RegistryClean', LockTyped', ListsTyped', StackTyped', WantsTyped', OpTyped', up' \in BOOLEAN
  PROVE  TypeOK'
<1>1. \A m \in DOMAIN functions' : Len(functions'[m]) <= Cardinality(Modules)
  BY DistinctShort DEF RegistryClean, ListsTyped
<1> QED BY <1>1 DEF TypeOK, LockTyped, ListsTyped, StackTyped, WantsTyped, OpTyped

LEMMA ListOfType ==
  ASSUME ListsTyped, NEW m
  PROVE  ListOf(m) \in Seq(Modules)
BY EmptySeq DEF ListsTyped, ListOf

(* Append keeps a list without duplicates if the module is new.            *)
LEMMA Appended ==
  ASSUME NEW list \in Seq(Modules), Distinct(list), NEW x \in Modules, x \notin Members(list)
  PROVE  /\ Append(list, x) \in Seq(Modules) /\ Append(list, x) # <<>>
         /\ Distinct(Append(list, x))
BY DEF Distinct, Members

(* Without takes out one entry.                                            *)
LEMMA Removed ==
  ASSUME NEW list \in Seq(Modules), Distinct(list), NEW x \in Modules
  PROVE  Without(list, x) \in Seq(Modules) /\ Distinct(Without(list, x))
<1>1. CASE ~\E i \in 1 .. Len(list) : list[i] = x
  BY <1>1 DEF Without, RemoveFirst
<1>2. CASE \E i \in 1 .. Len(list) : list[i] = x
  <2>1. PICK k \in 1 .. Len(list) : list[k] = x
    BY <1>2
  <2>2. {i \in 1 .. Len(list) : list[i] = x} = {k}
    BY <2>1 DEF Distinct
  <2>3. Min({k}) = k
    BY DEF Min
  <2>4. SelectInSeq(list, LAMBDA v : v = x) = k
    BY <2>2, <2>3 DEF SelectInSeq
  <2>5. Without(list, x) = SubSeq(list, 1, k - 1) \o SubSeq(list, k + 1, Len(list))
    BY <1>2, <2>4 DEF Without, RemoveFirst, RemoveAt
  <2>6. /\ SubSeq(list, 1, k - 1) \in Seq(Modules) /\ Len(SubSeq(list, 1, k - 1)) = k - 1
        /\ SubSeq(list, k + 1, Len(list)) \in Seq(Modules)
        /\ Len(SubSeq(list, k + 1, Len(list))) = Len(list) - k
        /\ \A i \in 1 .. k - 1 : SubSeq(list, 1, k - 1)[i] = list[i]
        /\ \A i \in 1 .. Len(list) - k : SubSeq(list, k + 1, Len(list))[i] = list[k + i]
    BY <2>1, SubSeqProperties
  <2> DEFINE a == SubSeq(list, 1, k - 1)
             b == SubSeq(list, k + 1, Len(list))
             w == Without(list, x)
  <2>7. /\ a \o b \in Seq(Modules) /\ Len(a \o b) = Len(a) + Len(b)
        /\ \A i \in 1 .. Len(a) + Len(b) : (a \o b)[i] = IF i <= Len(a) THEN a[i] ELSE b[i - Len(a)]
    BY <2>6, ConcatProperties
  <2>8. /\ Len(list) \in Nat /\ k \in Nat /\ k <= Len(list) /\ w = a \o b
        /\ Len(a) = k - 1 /\ Len(b) = Len(list) - k
        /\ \A i \in 1 .. k - 1 : a[i] = list[i]
        /\ \A i \in 1 .. Len(list) - k : b[i] = list[k + i]
    BY <2>1, <2>5, <2>6
  <2> HIDE DEF a, b, w
  <2>9. /\ w \in Seq(Modules) /\ Len(w) = Len(list) - 1
        /\ \A i \in 1 .. Len(list) - 1 : w[i] = IF i <= k - 1 THEN a[i] ELSE b[i - (k - 1)]
    <3>1. Len(a) + Len(b) = Len(list) - 1
      BY <2>8
    <3>2. /\ w \in Seq(Modules) /\ Len(w) = Len(list) - 1
          /\ \A i \in 1 .. Len(list) - 1 : w[i] = IF i <= Len(a) THEN a[i] ELSE b[i - Len(a)]
      BY <2>7, <2>8, <3>1, Zenon
    <3> QED BY <2>8, <3>2, Zenon
  <2>10. \A i \in 1 .. Len(list) - 1 : w[i] = IF i < k THEN list[i] ELSE list[i + 1]
    <3> SUFFICES ASSUME NEW i \in 1 .. Len(list) - 1
                 PROVE  w[i] = IF i < k THEN list[i] ELSE list[i + 1]
      OBVIOUS
    <3>1. i < k => w[i] = a[i] /\ a[i] = list[i]
      BY <2>8, <2>9
    <3>2. i >= k => w[i] = b[i - (k - 1)] /\ b[i - (k - 1)] = list[k + (i - (k - 1))]
      BY <2>8, <2>9
    <3>3. i >= k => k + (i - (k - 1)) = i + 1
      BY <2>8
    <3> QED BY <2>8, <3>1, <3>2, <3>3
  <2>11. Distinct(w)
    <3> SUFFICES ASSUME NEW i \in 1 .. Len(list) - 1, NEW j \in 1 .. Len(list) - 1, i # j
                 PROVE  w[i] # w[j]
      BY <2>9 DEF Distinct
    <3> DEFINE p == IF i < k THEN i ELSE i + 1
               q == IF j < k THEN j ELSE j + 1
    <3>1. p \in 1 .. Len(list) /\ q \in 1 .. Len(list) /\ p # q
      BY <2>8
    <3>2. w[i] = list[p] /\ w[j] = list[q]
      BY <2>8, <2>10
    <3> HIDE DEF p, q
    <3> QED BY <3>1, <3>2 DEF Distinct
  <2> QED BY <2>9, <2>11 DEF w
<1> QED BY <1>1, <1>2
-----------------------------------------------------------------------------
(* Stacks of calls.                                                        *)

LEMMA Pushed ==
  ASSUME NEW s \in Seq(Calls), NEW c \in Calls
  PROVE  /\ <<c>> \o s \in Seq(Calls) /\ Len(<<c>> \o s) = Len(s) + 1
         /\ (<<c>> \o s)[1] = c
         /\ \A i \in 1 .. Len(s) : (<<c>> \o s)[i + 1] = s[i]
<1>1. <<c>> \in Seq(Calls) /\ Len(<<c>>) = 1 /\ <<c>>[1] = c
  OBVIOUS
<1>2. /\ <<c>> \o s \in Seq(Calls) /\ Len(<<c>> \o s) = 1 + Len(s)
      /\ \A i \in 1 .. 1 + Len(s) : (<<c>> \o s)[i] = IF i <= 1 THEN <<c>>[i] ELSE s[i - 1]
  BY <1>1, ConcatProperties
<1>3. Len(s) \in Nat
  OBVIOUS
<1> DEFINE r == <<c>> \o s
<1> HIDE DEF r
<1>4. Len(r) = 1 + Len(s) /\ \A i \in 1 .. 1 + Len(s) : r[i] = IF i <= 1 THEN c ELSE s[i - 1]
  BY <1>1, <1>2 DEF r
<1>5. r[1] = c /\ \A i \in 1 .. Len(s) : r[i + 1] = s[i]
  BY <1>3, <1>4
<1> QED BY <1>2, <1>3, <1>5 DEF r

LEMMA Popped ==
  ASSUME NEW s \in Seq(Calls), s # <<>>
  PROVE  /\ Tail(s) \in Seq(Calls) /\ Len(Tail(s)) = Len(s) - 1 /\ Len(s) > 0
         /\ Head(s) = s[1] /\ Head(s) \in Calls
         /\ \A i \in 1 .. Len(s) - 1 : Tail(s)[i] = s[i + 1]
BY HeadTailProperties

(* The call on top is replaced; those below stay.                          *)
LEMMA Replaced ==
  ASSUME NEW s \in Seq(Calls), s # <<>>, NEW c \in Calls
  PROVE  /\ <<c>> \o Tail(s) \in Seq(Calls) /\ Len(<<c>> \o Tail(s)) = Len(s)
         /\ (<<c>> \o Tail(s))[1] = c
         /\ \A i \in 2 .. Len(s) : (<<c>> \o Tail(s))[i] = s[i]
<1>1. /\ Tail(s) \in Seq(Calls) /\ Len(Tail(s)) = Len(s) - 1 /\ Len(s) \in Nat
      /\ \A i \in 1 .. Len(s) - 1 : Tail(s)[i] = s[i + 1]
  BY Popped
<1> DEFINE r == Tail(s)
<1> HIDE DEF r
<1>2. /\ <<c>> \o r \in Seq(Calls) /\ Len(<<c>> \o r) = Len(r) + 1
      /\ (<<c>> \o r)[1] = c
      /\ \A i \in 1 .. Len(r) : (<<c>> \o r)[i + 1] = r[i]
  BY <1>1, Pushed DEF r
<1>3. \A i \in 2 .. Len(s) : (<<c>> \o r)[i] = s[i]
  <2> SUFFICES ASSUME NEW i \in 2 .. Len(s) PROVE (<<c>> \o r)[i] = s[i]
    OBVIOUS
  <2>1. i - 1 \in 1 .. Len(s) - 1 /\ (i - 1) + 1 = i /\ i - 1 \in 1 .. Len(r)
    BY <1>1 DEF r
  <2>2. r[i - 1] = s[(i - 1) + 1] /\ (<<c>> \o r)[(i - 1) + 1] = r[i - 1]
    BY <1>1, <1>2, <2>1 DEF r
  <2> QED BY <2>1, <2>2
<1> QED BY <1>1, <1>2, <1>3 DEF r
-----------------------------------------------------------------------------
(* The steps.                                                              *)

LEMMA MessagesStart == Init => RegistryIInv
<1> SUFFICES ASSUME Init PROVE RegistryIInv
  OBVIOUS
<1>1. RegistryClean /\ ListsTyped
  BY MessagesConstants DEF Init, RegistryClean, ListsTyped
<1>2. LockTyped
  BY MessagesConstants DEF Init, Lock!Init, LockTyped
<1>3. StackTyped /\ WantsTyped /\ OpTyped /\ up \in BOOLEAN
  BY EmptySeq DEF Init, StackTyped, WantsTyped, OpTyped
<1>4. Walked
  BY DEF Init, Walked
<1>5. LockedWhileCalling
  BY DEF Init, Lock!Init, LockedWhileCalling
<1> QED BY <1>1, <1>2, <1>3, <1>4, <1>5, Typed DEF RegistryIInv

(* While the lists are the same, the calls below the one that changes      *)
(* stand where they did.                                                   *)
LEMMA Standing ==
  ASSUME functions' = functions, NEW c
  PROVE  WalkedSoFar(c)' <=> WalkedSoFar(c)
BY DEF WalkedSoFar, ListOf

(* What a thread waits for is a call at its beginning.                     *)
LEMMA CallsStart ==
  ASSUME RegistryIInv, NEW t \in Threads, wants[t] # NoCall
  PROVE  wants[t] \in Calls /\ WalkedSoFar(wants[t])
<1> DEFINE c == wants[t]
<1>1. c \in Asked
  BY Typed DEF RegistryIInv, WantsTyped
<1>2. c \in Calls
  <2>1. \A x \in {1} : x \in Nat
    OBVIOUS
  <2>2. \A x \in {<<>>} : x \in Seq(Modules)
    BY EmptySeq
  <2>3. \A x \in {FALSE} : x \in BOOLEAN
    OBVIOUS
  <2> HIDE DEF c
  <2> QED BY <1>1, <2>1, <2>2, <2>3, Zenon DEF Asked, Calls
<1>3. ListOf(c.method) \in Seq(Modules)
  BY Typed, ListOfType DEF RegistryIInv
<1>4. /\ c.kind \in {"broadcast", "send"} /\ c.pos = 1 /\ c.called = <<>> /\ c.running = FALSE
      /\ c.module \in Modules
  BY <1>1 DEF Asked
<1> HIDE DEF c
<1>5. WalkedSoFar(c)
  BY <1>3, <1>4 DEF WalkedSoFar
<1> QED BY <1>2, <1>5 DEF c

LEMMA EnterKeeps == ASSUME RegistryIInv, NEW t \in Threads, Enter(t) PROVE RegistryIInv'
<1> DEFINE c == wants[t]
<1>a. c \in Calls /\ WalkedSoFar(c) /\ stack' = [stack EXCEPT ![t] = <<c>> \o stack[t]]
  BY CallsStart DEF Enter
<1>b. WantsTyped'
  BY Typed DEF RegistryIInv, Enter, WantsTyped
<1> HIDE DEF c
<1> USE DEF RegistryIInv, Enter
<1>1. RegistryClean' /\ ListsTyped' /\ OpTyped' /\ up' \in BOOLEAN
  BY Typed DEF RegistryClean, ListsTyped, OpTyped
<1>2. /\ LockTyped' /\ writer = {} /\ writer' = {}
      /\ reads' = [reads EXCEPT ![t] = reads[t] + 1] /\ reads \in [Threads -> Nat]
  BY Typed, MessagesConstants DEF LockTyped, Lock!BeginRead, lock
<1>3. stack \in [Threads -> Seq(Calls)] /\ stack[t] \in Seq(Calls)
  BY Typed DEF StackTyped
<1> DEFINE r == <<c>> \o stack[t]
<1>4. /\ r \in Seq(Calls) /\ Len(r) = Len(stack[t]) + 1 /\ r[1] = c
      /\ \A i \in 1 .. Len(stack[t]) : r[i + 1] = stack[t][i]
  BY <1>a, <1>3, Pushed
<1>5. stack' = [stack EXCEPT ![t] = r]
  BY <1>a
<1> HIDE DEF r
<1>6. StackTyped'
  BY <1>3, <1>4, <1>5 DEF StackTyped
<1>7. LockedWhileCalling'
  BY <1>2, <1>3, <1>4, <1>5 DEF LockedWhileCalling
<1>8. Walked'
  <2> SUFFICES ASSUME NEW u \in Threads, NEW i \in DOMAIN stack'[u]
               PROVE  WalkedSoFar(stack'[u][i])
    BY Standing DEF Walked
  <2>1. CASE u # t
    BY <1>3, <1>5, <2>1 DEF Walked
  <2>2. CASE u = t
    <3>1. stack'[u] = r /\ i \in 1 .. Len(stack[t]) + 1 /\ Len(stack[t]) \in Nat
      BY <1>3, <1>4, <1>5, <2>2
    <3>2. CASE i = 1
      BY <1>a, <1>4, <3>1, <3>2
    <3>3. CASE i # 1
      <4>1. i - 1 \in 1 .. Len(stack[t]) /\ (i - 1) + 1 = i
        BY <3>1, <3>3
      <4>2. r[i] = stack[t][i - 1]
        BY <1>4, <4>1
      <4>3. i - 1 \in DOMAIN stack[t]
        BY <1>3, <4>1
      <4> QED BY <3>1, <4>2, <4>3 DEF Walked
    <3> QED BY <3>2, <3>3
  <2> QED BY <2>1, <2>2
<1> QED BY <1>b, <1>1, <1>2, <1>6, <1>7, <1>8, TypedNext

(* The call on top goes on.                                                *)
LEMMA TopGoesOn ==
  ASSUME RegistryIInv, NEW t \in Threads, stack[t] # <<>>, NEW c \in Calls, Replace(t, c),
         WalkedSoFar(c), UNCHANGED <<lock, functions, wants, op, up>>
  PROVE  RegistryIInv'
<1> USE DEF RegistryIInv, Replace, lock
<1>1. /\ RegistryClean' /\ ListsTyped' /\ WantsTyped' /\ OpTyped' /\ up' \in BOOLEAN
      /\ LockTyped'
  BY Typed DEF RegistryClean, ListsTyped, WantsTyped, OpTyped, LockTyped
<1>2. stack \in [Threads -> Seq(Calls)] /\ stack[t] \in Seq(Calls)
  BY Typed DEF StackTyped
<1> DEFINE r == <<c>> \o Tail(stack[t])
<1>3. /\ r \in Seq(Calls) /\ Len(r) = Len(stack[t]) /\ r[1] = c
      /\ \A i \in 2 .. Len(stack[t]) : r[i] = stack[t][i]
  BY <1>2, Replaced
<1>4. stack' = [stack EXCEPT ![t] = r]
  OBVIOUS
<1> HIDE DEF r
<1>5. StackTyped'
  BY <1>2, <1>3, <1>4 DEF StackTyped
<1>6. LockedWhileCalling'
  BY <1>2, <1>3, <1>4 DEF LockedWhileCalling
<1>7. Walked'
  <2> SUFFICES ASSUME NEW u \in Threads, NEW i \in DOMAIN stack'[u]
               PROVE  WalkedSoFar(stack'[u][i])
    BY Standing DEF Walked
  <2>1. CASE u # t
    BY <1>2, <1>4, <2>1 DEF Walked
  <2>2. CASE u = t
    BY <1>2, <1>3, <1>4, <2>2 DEF Walked
  <2> QED BY <2>1, <2>2
<1> QED BY <1>1, <1>5, <1>6, <1>7, TypedNext

LEMMA TopOfStack ==
  ASSUME RegistryIInv, NEW t \in Threads, stack[t] # <<>>
  PROVE  /\ Top(t) \in Calls /\ WalkedSoFar(Top(t)) /\ writer = {}
         /\ Top(t) = stack[t][1] /\ 1 \in DOMAIN stack[t]
<1>1. stack[t] \in Seq(Calls)
  BY Typed DEF RegistryIInv, StackTyped
<1>2. Len(stack[t]) > 0 /\ Len(stack[t]) \in Nat /\ Top(t) = stack[t][1] /\ Top(t) \in Calls
  BY <1>1, Popped DEF Top
<1>3. 1 \in DOMAIN stack[t]
  BY <1>1, <1>2
<1> QED BY <1>2, <1>3 DEF RegistryIInv, Walked, LockedWhileCalling

LEMMA VisitKeeps == ASSUME RegistryIInv, NEW t \in Threads, Visit(t) PROVE RegistryIInv'
<1> DEFINE c    == Top(t)
           list == ListOf(c.method)
<1>1. /\ c \in Calls /\ WalkedSoFar(c) /\ stack[t] # <<>> /\ ~c.running /\ c.pos <= Len(list)
      /\ UNCHANGED <<lock, functions, wants, op, up>>
  BY TopOfStack DEF Visit
<1>2. list \in Seq(Modules) /\ Len(list) \in Nat /\ c.pos \in Nat /\ c.pos > 0
  BY <1>1, Typed, ListOfType DEF RegistryIInv, WalkedSoFar, Calls
<1>3. list[c.pos] \in Modules /\ c.pos \in DOMAIN list
  BY <1>1, <1>2
<1>4. CASE c.kind = "broadcast" \/ list[c.pos] = c.module
  <2> DEFINE d == [c EXCEPT !.running = TRUE, !.called = Append(@, list[c.pos])]
  <2>1. Replace(t, d)
    BY <1>4 DEF Visit
  <2>2. /\ d.kind = c.kind /\ d.method = c.method /\ d.module = c.module /\ d.pos = c.pos
        /\ d.running = TRUE /\ d.called = Append(c.called, list[c.pos])
        /\ c.called \in Seq(Modules)
    BY <1>1 DEF Calls
  <2>3. d.called \in Seq(Modules)
    BY <1>3, <2>2
  <2>4. d \in Calls
    BY <1>1, <2>3 DEF Calls
  <2> HIDE DEF d
  <2>5. WalkedSoFar(d)
    <3>1. CASE c.kind = "broadcast"
      <4>1. Len(c.called) = c.pos - 1 /\ \A j \in DOMAIN c.called : c.called[j] = list[j]
        BY <1>1, <3>1 DEF WalkedSoFar
      <4>2. Len(d.called) = c.pos
        BY <1>2, <2>2, <4>1
      <4>3. \A j \in DOMAIN d.called : d.called[j] = list[j]
        BY <1>2, <1>3, <2>2, <4>1
      <4> QED BY <1>1, <1>2, <2>2, <3>1, <4>2, <4>3 DEF WalkedSoFar
    <3>2. CASE c.kind # "broadcast"
      <4>1. c.called = <<>>
        BY <1>1, <1>2, <3>2 DEF WalkedSoFar
      <4>2. d.called = <<d.module>>
        BY <1>4, <2>2, <3>2, <4>1
      <4> QED BY <1>1, <1>2, <1>4, <2>2, <3>2, <4>2 DEF WalkedSoFar
    <3> QED BY <3>1, <3>2
  <2> QED BY <1>1, <2>1, <2>4, <2>5, TopGoesOn
<1>5. CASE ~(c.kind = "broadcast" \/ list[c.pos] = c.module)
  <2> DEFINE d == [c EXCEPT !.pos = @ + 1]
  <2>1. Replace(t, d)
    BY <1>5 DEF Visit
  <2>2. /\ d.kind = c.kind /\ d.method = c.method /\ d.module = c.module /\ d.pos = c.pos + 1
        /\ d.running = FALSE /\ d.called = c.called
    BY <1>1 DEF Calls
  <2>3. d \in Calls
    BY <1>1, <1>2 DEF Calls
  <2> HIDE DEF d
  <2>4. WalkedSoFar(d)
    BY <1>1, <1>2, <1>3, <1>5, <2>2 DEF WalkedSoFar
  <2> QED BY <1>1, <2>1, <2>3, <2>4, TopGoesOn
<1> QED BY <1>4, <1>5

LEMMA CallbackKeeps == ASSUME RegistryIInv, NEW t \in Threads, CallbackReturns(t) PROVE RegistryIInv'
<1> DEFINE c    == Top(t)
           list == ListOf(c.method)
           d    == [c EXCEPT !.running = FALSE,
                             !.pos = IF c.kind = "broadcast" THEN @ + 1 ELSE Len(list) + 1]
<1>1. /\ c \in Calls /\ WalkedSoFar(c) /\ stack[t] # <<>> /\ c.running
      /\ UNCHANGED <<lock, functions, wants, op, up>> /\ Replace(t, d)
  BY TopOfStack DEF CallbackReturns
<1>2. list \in Seq(Modules) /\ Len(list) \in Nat /\ c.pos \in Nat /\ c.pos > 0 /\ c.pos <= Len(list)
  BY <1>1, Typed, ListOfType DEF RegistryIInv, WalkedSoFar, Calls
<1>3. /\ d.kind = c.kind /\ d.method = c.method /\ d.module = c.module
      /\ d.pos = IF c.kind = "broadcast" THEN c.pos + 1 ELSE Len(list) + 1
      /\ d.running = FALSE /\ d.called = c.called
  BY <1>1 DEF Calls
<1>4. d \in Calls
  <2>1. (IF c.kind = "broadcast" THEN c.pos + 1 ELSE Len(list) + 1) \in Nat
    BY <1>2
  <2> HIDE DEF list
  <2> QED BY <1>1, <2>1 DEF Calls
<1> HIDE DEF d
<1>5. WalkedSoFar(d)
  <2>1. CASE c.kind = "broadcast"
    BY <1>1, <1>2, <1>3, <2>1 DEF WalkedSoFar
  <2>2. CASE c.kind # "broadcast"
    <3>1. c.called = <<c.module>> /\ list[c.pos] = c.module
      BY <1>1, <1>2, <2>2 DEF WalkedSoFar
    <3>2. c.module \in Members(list)
      BY <1>2, <3>1 DEF Members
    <3> QED BY <1>2, <1>3, <2>2, <3>1, <3>2 DEF WalkedSoFar
  <2> QED BY <2>1, <2>2
<1> QED BY <1>1, <1>4, <1>5, TopGoesOn

LEMMA LeaveKeeps == ASSUME RegistryIInv, NEW t \in Threads, Leave(t) PROVE RegistryIInv'
<1> USE DEF RegistryIInv, Leave
<1>1. RegistryClean' /\ ListsTyped' /\ WantsTyped' /\ OpTyped' /\ up' \in BOOLEAN
  BY Typed DEF RegistryClean, ListsTyped, WantsTyped, OpTyped
<1>2. /\ LockTyped' /\ writer' = writer /\ writer = {} /\ reads[t] > 0
      /\ reads' = [reads EXCEPT ![t] = reads[t] - 1] /\ reads \in [Threads -> Nat]
  BY Typed, MessagesConstants DEF LockTyped, Lock!EndRead, LockedWhileCalling
<1>3. stack \in [Threads -> Seq(Calls)] /\ stack[t] \in Seq(Calls) /\ stack[t] # <<>>
  BY Typed DEF StackTyped
<1> DEFINE r == Tail(stack[t])
<1>4. /\ r \in Seq(Calls) /\ Len(r) = Len(stack[t]) - 1 /\ Len(stack[t]) > 0
      /\ \A i \in 1 .. Len(stack[t]) - 1 : r[i] = stack[t][i + 1]
  BY <1>3, Popped
<1>5. stack' = [stack EXCEPT ![t] = r]
  OBVIOUS
<1> HIDE DEF r
<1>6. StackTyped'
  BY <1>3, <1>4, <1>5 DEF StackTyped
<1>7. LockedWhileCalling'
  BY <1>2, <1>3, <1>4, <1>5 DEF LockedWhileCalling
<1>8. Walked'
  <2> SUFFICES ASSUME NEW u \in Threads, NEW i \in DOMAIN stack'[u]
               PROVE  WalkedSoFar(stack'[u][i])
    BY Standing DEF Walked
  <2>1. CASE u # t
    BY <1>3, <1>5, <2>1 DEF Walked
  <2>2. CASE u = t
    <3>1. stack'[u] = r /\ i \in 1 .. Len(stack[t]) - 1 /\ i + 1 \in DOMAIN stack[t]
      BY <1>3, <1>4, <1>5, <2>2
    <3> QED BY <1>4, <3>1 DEF Walked
  <2> QED BY <2>1, <2>2
<1> QED BY <1>1, <1>2, <1>6, <1>7, <1>8, TypedNext

(* A thread asks for the read lock: it waits for nothing else.             *)
LEMMA AskKeeps ==
  ASSUME RegistryIInv, NEW t \in Threads, NEW call \in Asked,
         wants' = [wants EXCEPT ![t] = call], UNCHANGED <<lock, functions, stack, op, up>>
  PROVE  RegistryIInv'
<1> USE DEF RegistryIInv, lock
<1>1. RegistryClean' /\ ListsTyped' /\ StackTyped' /\ OpTyped' /\ up' \in BOOLEAN /\ LockTyped'
  BY Typed DEF RegistryClean, ListsTyped, StackTyped, OpTyped, LockTyped
<1>2. WantsTyped'
  BY Typed DEF WantsTyped
<1>3. LockedWhileCalling' /\ Walked'
  BY Standing DEF LockedWhileCalling, Walked
<1> QED BY <1>1, <1>2, <1>3, TypedNext

(* What asks for the read lock: a broadcast, a send, the logger.           *)
LEMMA Asking ==
  ASSUME NEW t \in Threads,
         \/ \E method \in Methods : Broadcast(t, method)
         \/ \E module \in Modules, method \in Methods : Send(t, module, method)
         \/ OutOfMemory(t)
  PROVE  /\ \E call \in Asked : wants' = [wants EXCEPT ![t] = call]
         /\ UNCHANGED <<lock, functions, stack, op, up>>
<1>1. AnyModule \in Modules
  BY MessagesConstants DEF AnyModule
<1>2. \A kind \in {"broadcast", "send"}, module \in Modules, method \in Methods :
        Call(kind, module, method) \in Asked
  BY DEF Call, Asked
<1>3. CASE \E method \in Methods : Broadcast(t, method)
  BY <1>1, <1>2, <1>3 DEF Broadcast, Ask
<1>4. CASE \E module \in Modules, method \in Methods : Send(t, module, method)
  BY <1>2, <1>4 DEF Send, Ask
<1>5. CASE OutOfMemory(t)
  BY <1>1, <1>2, <1>5, MessagesConstants DEF OutOfMemory
<1> QED BY <1>3, <1>4, <1>5

(* Neither the calls nor the lists change.                                 *)
LEMMA WantsKeep ==
  ASSUME RegistryIInv, NEW t \in Threads,
         LockWrite(t) \/ \E change \in Changes : WantChange(t, change)
  PROVE  RegistryIInv'
<1> USE DEF RegistryIInv, lock
<1>1. UNCHANGED <<functions, stack, wants, up>>
  BY DEF LockWrite, WantChange
<1>2. RegistryClean' /\ ListsTyped' /\ StackTyped' /\ WantsTyped' /\ up' \in BOOLEAN
  BY <1>1, Typed DEF RegistryClean, ListsTyped, StackTyped, WantsTyped
<1>3. LockTyped' /\ OpTyped'
  BY Typed DEF LockWrite, WantChange, Lock!BeginWrite, LockTyped, OpTyped
<1>4. LockedWhileCalling'
  <2>1. CASE LockWrite(t)
    <3>1. \A u \in Threads : stack[u] = <<>>
      BY <2>1, Typed DEF LockWrite, Lock!BeginWrite, Lock!NobodyReads, LockedWhileCalling, StackTyped
    <3> QED BY <1>1, <2>1, <3>1 DEF LockWrite, Lock!BeginWrite, LockedWhileCalling
  <2>2. CASE \E change \in Changes : WantChange(t, change)
    BY <1>1, <2>2 DEF WantChange, LockedWhileCalling
  <2> QED BY <2>1, <2>2
<1>5. Walked'
  BY <1>1, Standing DEF Walked
<1> QED BY <1>2, <1>3, <1>4, <1>5, TypedNext

(* A writer has the registry for itself: nobody is in a call.              *)
LEMMA WriterAlone ==
  ASSUME RegistryIInv, NEW t \in Threads, t \in writer, Done(t)
  PROVE  /\ \A u \in Threads : stack'[u] = <<>>
         /\ LockTyped' /\ StackTyped' /\ WantsTyped' /\ OpTyped' /\ up' \in BOOLEAN
         /\ LockedWhileCalling' /\ Walked'
<1> USE DEF RegistryIInv, Done, lock
<1>1. \A u \in Threads : stack'[u] = <<>> /\ stack'[u] = stack[u]
  BY DEF LockedWhileCalling
<1>2. LockTyped' /\ StackTyped' /\ WantsTyped' /\ OpTyped' /\ up' \in BOOLEAN
  BY Typed DEF Lock!EndWrite, LockTyped, StackTyped, WantsTyped, OpTyped
<1>3. LockedWhileCalling'
  BY <1>1 DEF Lock!EndWrite, LockedWhileCalling
<1>4. Walked'
  BY <1>1 DEF Walked
<1> QED BY <1>1, <1>2, <1>3, <1>4

LEMMA AddKeeps == ASSUME RegistryIInv, NEW t \in Threads, Add(t) PROVE RegistryIInv'
<1> DEFINE method == op[t].method
           module == op[t].module
           list   == ListOf(method)
<1>1. RegistryClean /\ ListsTyped /\ op[t].does = "add" /\ op[t] \in Changes \cup {NoOp}
  BY Typed DEF RegistryIInv, OpTyped, Add
<1>2. method \in Methods /\ module \in Modules
  BY <1>1, MessagesConstants DEF Changes, NoOp
<1>3. list \in Seq(Modules) /\ Distinct(list)
  BY <1>1, ListOfType DEF RegistryClean, ListOf, Distinct
<1>4. functions' = [m \in DOMAIN functions \cup {method} |->
                      IF m # method THEN functions[m]
                      ELSE IF module \in Members(list) THEN list ELSE Append(list, module)]
  BY DEF Add
<1>5. module \in Members(list) => list # <<>>
  BY DEF Members
<1>6. module \notin Members(list) =>
        /\ Append(list, module) \in Seq(Modules) /\ Append(list, module) # <<>>
        /\ Distinct(Append(list, module))
  BY <1>2, <1>3, Appended
<1> HIDE DEF method, module, list
<1>7. ListsTyped' /\ RegistryClean'
  BY <1>1, <1>2, <1>3, <1>4, <1>5, <1>6 DEF ListsTyped, RegistryClean
<1>8. /\ LockTyped' /\ StackTyped' /\ WantsTyped' /\ OpTyped' /\ up' \in BOOLEAN
      /\ LockedWhileCalling' /\ Walked'
  BY WriterAlone DEF Add
<1> QED BY <1>7, <1>8, TypedNext DEF RegistryIInv

LEMMA RemoveAllKeeps == ASSUME RegistryIInv, NEW t \in Threads, RemoveAll(t) PROVE RegistryIInv'
<1> DEFINE module == op[t].module
<1>1. RegistryClean /\ ListsTyped /\ op[t].does = "removeAll" /\ op[t] \in Changes \cup {NoOp}
  BY Typed DEF RegistryIInv, OpTyped, RemoveAll
<1>2. module \in Modules
  BY <1>1, MessagesConstants DEF Changes, NoOp
<1>3. functions' = [m \in {n \in DOMAIN functions : Without(functions[n], module) # <<>>} |->
                      Without(functions[m], module)]
  BY DEF RemoveAll
<1>4. \A m \in DOMAIN functions :
        Without(functions[m], module) \in Seq(Modules) /\ Distinct(Without(functions[m], module))
  BY <1>1, <1>2, Removed DEF ListsTyped, RegistryClean
<1> HIDE DEF module
<1>5. ListsTyped' /\ RegistryClean'
  BY <1>1, <1>3, <1>4 DEF ListsTyped, RegistryClean
<1>6. /\ LockTyped' /\ StackTyped' /\ WantsTyped' /\ OpTyped' /\ up' \in BOOLEAN
      /\ LockedWhileCalling' /\ Walked'
  BY WriterAlone DEF RemoveAll
<1> QED BY <1>5, <1>6, TypedNext DEF RegistryIInv

LEMMA DeinitializeKeeps == ASSUME RegistryIInv, Deinitialize PROVE RegistryIInv'
<1> USE DEF RegistryIInv, Deinitialize, lock
<1>1. ListsTyped' /\ RegistryClean'
  BY DEF ListsTyped, RegistryClean
<1>2. LockTyped' /\ StackTyped' /\ WantsTyped' /\ OpTyped' /\ up' \in BOOLEAN
  BY Typed DEF LockTyped, StackTyped, WantsTyped, OpTyped
<1>3. LockedWhileCalling' /\ Walked'
  BY DEF LockedWhileCalling, Walked
<1> QED BY <1>1, <1>2, <1>3, TypedNext

LEMMA MessagesKeep == ASSUME RegistryIInv, [Next]_vars PROVE RegistryIInv'
<1>1. CASE UNCHANGED vars
  <2>1. RegistryClean' /\ TypeOK' /\ LockedWhileCalling'
    BY <1>1 DEF RegistryIInv, vars, lock, RegistryClean, TypeOK, LockedWhileCalling
  <2>2. Walked'
    BY <1>1, Standing DEF RegistryIInv, vars, Walked
  <2> QED BY <2>1, <2>2 DEF RegistryIInv
<1>2. ASSUME NEW t \in Threads,
             \/ \E method \in Methods : Broadcast(t, method)
             \/ \E module \in Modules, method \in Methods : Send(t, module, method)
             \/ OutOfMemory(t)
      PROVE  RegistryIInv'
  BY <1>2, Asking, AskKeeps
<1>3. ASSUME NEW t \in Threads, Enter(t) PROVE RegistryIInv'
  BY <1>3, EnterKeeps
<1>4. ASSUME NEW t \in Threads, Visit(t) \/ CallbackReturns(t) \/ Leave(t) PROVE RegistryIInv'
  BY <1>4, VisitKeeps, CallbackKeeps, LeaveKeeps
<1>5. ASSUME NEW t \in Threads, LockWrite(t) \/ \E change \in Changes : WantChange(t, change)
      PROVE  RegistryIInv'
  BY <1>5, WantsKeep
<1>6. ASSUME NEW t \in Threads, Add(t) \/ RemoveAll(t) PROVE RegistryIInv'
  BY <1>6, AddKeeps, RemoveAllKeeps
<1>7. CASE Deinitialize
  BY <1>7, DeinitializeKeeps
<1> QED BY <1>1, <1>2, <1>3, <1>4, <1>5, <1>6, <1>7 DEF Next

-----------------------------------------------------------------------------
(* The properties.                                                         *)

LEMMA Registered == ASSUME RegistryIInv PROVE CalleeRegistered
<1> SUFFICES ASSUME NEW t \in Threads, NEW i \in DOMAIN stack[t], stack[t][i].running
             PROVE  LET c == stack[t][i] IN ListOf(c.method)[c.pos] = c.called[Len(c.called)]
  BY DEF CalleeRegistered
<1> DEFINE c == stack[t][i]
<1>1. c \in Calls
  BY Typed DEF RegistryIInv, StackTyped
<1>2. WalkedSoFar(c)
  BY DEF RegistryIInv, Walked
<1>3. c.pos \in Nat /\ c.called \in Seq(Modules) /\ c.running
  BY <1>1 DEF Calls
<1> HIDE DEF c
<1>4. CASE c.kind = "broadcast"
  <2>1. Len(c.called) = c.pos /\ c.pos > 0
    BY <1>2, <1>3, <1>4 DEF WalkedSoFar
  <2>2. c.pos \in DOMAIN c.called
    BY <1>3, <2>1
  <2> QED BY <1>2, <1>4, <2>1, <2>2 DEF WalkedSoFar, c
<1>5. CASE c.kind # "broadcast"
  <2>1. c.called = <<c.module>> /\ ListOf(c.method)[c.pos] = c.module
    BY <1>2, <1>3, <1>5 DEF WalkedSoFar
  <2> QED BY <2>1 DEF c
<1> QED BY <1>4, <1>5

(* A thread leaves a call in one way only.                                 *)
LEMMA LeavesByLeave ==
  ASSUME RegistryIInv, [Next]_vars, NEW t \in Threads, stack[t] # <<>>, stack'[t] = Tail(stack[t])
  PROVE  Leave(t)
<1>1. stack \in [Threads -> Seq(Calls)] /\ stack[t] \in Seq(Calls)
  BY Typed DEF RegistryIInv, StackTyped
<1>2. Len(stack'[t]) = Len(stack[t]) - 1 /\ Len(stack[t]) \in Nat
  BY <1>1, Popped
<1>3. stack'[t] # stack[t]
  <2>1. \A n \in Nat : n # n - 1
    OBVIOUS
  <2>2. Len(stack[t]) # Len(stack[t]) - 1
    BY <1>2, <2>1
  <2>3. stack'[t] = stack[t] => Len(stack'[t]) = Len(stack[t])
    OBVIOUS
  <2> QED BY <1>2, <2>2, <2>3, Zenon
<1>4. ASSUME NEW u \in Threads, u # t, stack' = [stack EXCEPT ![u] = stack'[u]] PROVE FALSE
  BY <1>1, <1>3, <1>4
<1>5. ASSUME NEW u \in Threads, Enter(u) PROVE FALSE
  <2> DEFINE c == wants[u]
  <2>1. stack' = [stack EXCEPT ![u] = <<c>> \o stack[u]] /\ c \in Calls
    BY <1>5, CallsStart DEF Enter
  <2> HIDE DEF c
  <2>2. u = t
    BY <1>1, <1>3, <2>1
  <2>3. Len(stack'[t]) = Len(stack[t]) + 1
    BY <1>1, <2>1, <2>2, Pushed
  <2> QED BY <1>2, <2>3
<1>6. ASSUME NEW u \in Threads, Visit(u) \/ CallbackReturns(u) PROVE FALSE
  <2>1. PICK c : Replace(u, c)
    BY <1>6 DEF Visit, CallbackReturns
  <2>2. u = t
    BY <1>1, <1>3, <2>1 DEF Replace
  <2>3. stack'[t] = <<c>> \o Tail(stack[t])
    BY <1>1, <2>1, <2>2 DEF Replace
  <2>4. RegistryIInv'
    BY MessagesKeep
  <2>5. Len(stack'[t]) = 1 + Len(Tail(stack[t]))
    <3> DEFINE r == Tail(stack[t])
    <3>1. r \in Seq(Calls)
      BY <1>1, Popped
    <3>2. <<c>> \in Seq({c}) /\ r \in Seq(Calls \cup {c}) /\ <<c>> \in Seq(Calls \cup {c})
      BY <3>1, SeqMonotonic
    <3>3. Len(<<c>> \o r) = Len(<<c>>) + Len(r)
      BY <3>2, ConcatProperties
    <3> QED BY <2>3, <3>3
  <2> QED BY <1>1, <1>2, <2>5, Popped
<1>7. ASSUME NEW u \in Threads,
             \/ \E method \in Methods : Broadcast(u, method)
             \/ \E module \in Modules, method \in Methods : Send(u, module, method)
             \/ OutOfMemory(u)
      PROVE  FALSE
  BY <1>3, <1>7, Asking
<1>8. ASSUME NEW u \in Threads,
             LockWrite(u) \/ Add(u) \/ RemoveAll(u) \/ \E change \in Changes : WantChange(u, change)
      PROVE  FALSE
  BY <1>3, <1>8 DEF LockWrite, Add, RemoveAll, Done, WantChange
<1>9. ASSUME NEW u \in Threads, Leave(u) PROVE u = t
  BY <1>1, <1>3, <1>9 DEF Leave
<1>10. ~UNCHANGED vars /\ ~Deinitialize
  BY <1>3 DEF vars, Deinitialize
<1> QED BY <1>5, <1>6, <1>7, <1>8, <1>9, <1>10 DEF Next

LEMMA WholeList ==
  ASSUME RegistryIInv, NEW t \in Threads, Leave(t)
  PROVE  LET c == Top(t)
         IN  IF c.kind = "broadcast"
             THEN c.called = ListOf(c.method)
             ELSE c.called = IF c.module \in Members(ListOf(c.method)) THEN <<c.module>> ELSE <<>>
<1> DEFINE c    == Top(t)
           list == ListOf(c.method)
<1>1. c \in Calls /\ WalkedSoFar(c) /\ ~c.running /\ c.pos > Len(list)
  BY TopOfStack DEF Leave
<1>2. list \in Seq(Modules) /\ Len(list) \in Nat /\ c.pos \in Nat /\ c.called \in Seq(Modules)
  BY <1>1, Typed, ListOfType DEF RegistryIInv, Calls
<1>3. CASE c.kind = "broadcast"
  <2>1. /\ c.pos <= Len(list) + 1 /\ Len(c.called) = c.pos - 1
        /\ \A j \in DOMAIN c.called : c.called[j] = list[j]
    BY <1>1, <1>3 DEF WalkedSoFar
  <2>2. Len(c.called) = Len(list)
    BY <1>1, <1>2, <2>1
  <2>3. c.called = list
    BY <1>2, <2>1, <2>2, SeqEqual
  <2> QED BY <1>3, <2>3
<1>4. CASE c.kind # "broadcast"
  <2>1. CASE c.called = <<>> /\ \A j \in DOMAIN list : j < c.pos => list[j] # c.module
    <3>1. c.module \notin Members(list)
      BY <1>1, <1>2, <2>1 DEF Members
    <3> QED BY <1>4, <2>1, <3>1
  <2>2. CASE c.called = <<c.module>> /\ c.module \in Members(list)
    BY <1>4, <2>2
  <2> QED BY <1>1, <1>4, <2>1, <2>2 DEF WalkedSoFar
<1> QED BY <1>3, <1>4

(* The registry of ecmessages.c stays clean, nobody changes it while a     *)
(* thread is in a call, and while a callback runs its module stays         *)
(* registered, whatever sends, broadcasts and changes the threads make.    *)
THEOREM RegistryKept == Spec => []RegistryInv
<1>1. RegistryIInv => RegistryInv
  BY Registered DEF RegistryIInv, RegistryInv
<1> QED BY <1>1, MessagesStart, MessagesKeep, PTL DEF Spec

(* ecmessages_broadcast returns when every registered module was called,   *)
(* each once and in order; ecmessages_send has called its module if and    *)
(* only if it is registered.                                               *)
THEOREM CallsReachAll == Spec => ReachesAll
<1>1. RegistryIInv /\ [Next]_vars =>
        [\A t \in Threads :
           (stack[t] # <<>> /\ stack'[t] = Tail(stack[t])) =>
             LET c == Top(t)
             IN  IF c.kind = "broadcast"
                 THEN c.called = ListOf(c.method)
                 ELSE c.called = IF c.module \in Members(ListOf(c.method))
                                 THEN <<c.module>> ELSE <<>>]_vars
  BY LeavesByLeave, WholeList
<1> QED BY <1>1, MessagesStart, MessagesKeep, PTL DEF Spec, ReachesAll

-----------------------------------------------------------------------------
(* A request to the web server.  Before the answer nothing but "continue"  *)
(* has been sent; an answer is sent or waits in the stream, not both.      *)
Silent(s) == s = <<>> \/ (s = <<"100">> /\ hreq.on /\ ~hreq.dev)
NoAnswer == ~hreq.on \/ hreq.dev
Sent(s) ==
  \/ s = <<>> /\ NoAnswer
  \/ s \in {<<"404">>, <<"408">>, <<"500">>, <<"100", "500">>, <<"200", "file">>}
Answered(s) ==
  Sent(s) \/ s \in {<<"200">>, <<"401">>, <<"100", "200">>, <<"100", "401">>}
HttpPlace ==
  /\ hpc \in {"idle", "route", "validate", "content", "render", "rendering", "clear", "end"}
  /\ hpc \in {"route", "validate"} => hsocket = <<>>
  /\ hpc \in {"route", "validate", "content", "render", "rendering"} => hstream = <<>>
  /\ hpc \in {"content", "render", "rendering"} => Silent(hsocket)
  /\ hpc = "clear" => \/ hstream = <<>> /\ Sent(hsocket)
                      \/ hstream \in {<<"200">>, <<"401">>} /\ Silent(hsocket)
  /\ hpc = "end" => Answered(hsocket)
HttpSocket == hsocket = <<>> \/ Silent(hsocket) \/ Answered(hsocket)
HttpObjects == hpc \in {"idle", "end"} => hobject.made = hobject.cleared
HttpReads ==
  /\ hreq.length \in Nat /\ hreq.body \in {"plain", "multi"} \X Seq(STRING)
HttpFiles ==
  /\ hfiles = FilesOf(hcontent)
  /\ hpc \in {"idle", "route", "validate", "content"} => hcontent = <<>>
  /\ \A k \in DOMAIN hcontent : DOMAIN hcontent[k] = 1 .. 2
HttpBytes ==
  hpc = "render" /\ hreq.length > 0 /\ hreq.body[1] = "plain" =>
    IF hreq.length > HBuffer THEN hcontent = <<<<Came, 1>>>> ELSE hcontent = <<<<FillBuffer, 0>>>>
HttpIInv == HttpPlace /\ HttpSocket /\ HttpObjects /\ HttpReads /\ HttpFiles /\ HttpBytes

(* One and two codes.                                                      *)
LEMMA TwoCodes ==
  ASSUME NEW a, NEW b
  PROVE  /\ Append(<<>>, a) = <<a>> /\ <<>> \o <<a>> = <<a>>
         /\ Append(<<a>>, b) = <<a, b>> /\ <<a>> \o <<b>> = <<a, b>>
<1>1. PICK S : a \in S /\ b \in S
  <2>1. a \in {a, b} /\ b \in {a, b}
    OBVIOUS
  <2>. QED
    BY <2>1
<1>2. <<a>> \in Seq(S) /\ <<b>> \in Seq(S) /\ <<>> \in Seq(S) /\ <<a, b>> \in Seq(S)
  BY <1>1
<1>3. Append(<<>>, a) = <<a>>
  BY <1>1
<1>4. /\ Len(<<a>>) = 1 /\ Len(<<b>>) = 1 /\ Len(<<a, b>>) = 2
      /\ <<a>>[1] = a /\ <<b>>[1] = b /\ <<a, b>>[1] = a /\ <<a, b>>[2] = b
  BY <1>1
<1>6. <<>> \o <<a>> = <<a>>
  BY <1>2, ConcatEmptySeq
<1>7. <<a>> \o <<b>> = <<a, b>>
  <2>1. PICK s : s = <<a>>
    OBVIOUS
  <2>2. PICK v : v = <<b>>
    OBVIOUS
  <2>3. s \in Seq(S) /\ Len(s) = 1 /\ s[1] = a /\ v \in Seq(S) /\ Len(v) = 1 /\ v[1] = b
    BY <1>2, <1>4, <2>1, <2>2
  <2>4. PICK t : t = s \o v
    OBVIOUS
  <2>5. t \in Seq(S) /\ Len(t) = 2 /\ t[1] = a /\ t[2] = b
    BY <2>3, <2>4, ConcatProperties
  <2>6. PICK u : u = <<a, b>>
    OBVIOUS
  <2>7. u \in Seq(S) /\ Len(u) = 2 /\ u[1] = a /\ u[2] = b
    BY <1>2, <1>4, <2>6
  <2>8. \A i \in 1 .. 2 : t[i] = u[i]
    BY <2>5, <2>7
  <2>9. t = u
    BY <2>5, <2>7, <2>8, SeqEqual
  <2>. QED
    BY <2>1, <2>2, <2>4, <2>6, <2>9
<1>5. Append(<<a>>, b) = <<a, b>>
  <2>1. PICK s : s = <<a>>
    OBVIOUS
  <2>2. s \in Seq(S) /\ Append(s, b) = s \o <<b>>
    BY <1>1, <1>2, <2>1, AppendIsConcat
  <2>. QED
    BY <1>7, <2>1, <2>2
<1>. QED
  BY <1>3, <1>5, <1>6, <1>7

(* The empty sequence is a sequence of texts.                               *)
LEMMA NoTexts == \E w \in Seq(STRING) : w = <<>>
<1>1. <<>> \in Seq(STRING)
  OBVIOUS
<1>. QED
  BY <1>1

(* A function on the numbers from one on is a sequence.                      *)
LEMMA SequenceBy ==
  ASSUME NEW S, NEW n \in Nat, NEW f, f = [k \in 1 .. n |-> f[k]], \A k \in 1 .. n : f[k] \in S
  PROVE  f \in Seq(S) /\ Len(f) = n
<1>1. f \in [1 .. n -> S]
  OBVIOUS
<1>2. f \in Seq(S)
  BY <1>1, SeqDef
<1>. QED
  BY <1>1, <1>2

(* No request yet.                                                         *)
LEMMA HttpStarts == HttpInit => HttpIInv
<1> SUFFICES ASSUME HttpInit PROVE HttpIInv
  OBVIOUS
<1>1. hpc = "idle" /\ hcontent = <<>> /\ hfiles = {} /\ hsocket = <<>> /\ hreq = NoRequest
      /\ hobject.made = hobject.cleared
  BY DEF HttpInit
<1>2. FilesOf(<<>>) = {}
  BY DEF FilesOf
<1>3. HttpReads
  <2>1. NoRequest.length = 0 /\ NoRequest.body = <<"plain", <<>>>>
    BY DEF NoRequest
  <2>2. PICK w \in Seq(STRING) : w = <<>>
    BY NoTexts
  <2>3. hreq.length = 0 /\ hreq.body = <<"plain", w>>
    BY <1>1, <2>1, <2>2
  <2>. QED
    BY <2>3 DEF HttpReads
<1>. QED
  BY <1>1, <1>2, <1>3 DEF HttpIInv, HttpPlace, HttpSocket, HttpObjects, HttpFiles, HttpBytes

(* The content that is made for a request.                                 *)
LEMMA ContentMade ==
  ASSUME hcontent = <<>>, hfiles = {}, ContentCreate, HttpReads
  PROVE  /\ hfiles' = FilesOf(hcontent')
         /\ \A k \in DOMAIN hcontent' : DOMAIN hcontent'[k] = 1 .. 2
         /\ hreq.body[1] = "plain" /\ hcontent' # <<>> =>
              IF hreq.length > HBuffer THEN hcontent' = <<<<Came, 1>>>> ELSE hcontent' = <<<<FillBuffer, 0>>>>
<1>1. Cardinality(hfiles) = 0
  BY FS_EmptySet
<1>2. ASSUME NEW x, NEW n
      PROVE  /\ FilesOf(<<<<x, n>>>>) = {n} \ {0}
             /\ \A k \in DOMAIN <<<<x, n>>>> : DOMAIN <<<<x, n>>>>[k] = 1 .. 2
  BY DEF FilesOf
<1>3. CASE hreq.body[1] = "multi"
  <2>1. hcontent' = Multipart /\ hfiles' = hfiles
    BY <1>3 DEF ContentCreate
  <2>2. PICK parts : Multipart = [k \in 1 .. Len(parts) + 1 |-> <<IF k = 1 THEN Absent ELSE parts[k - 1][1], 0>>]
    BY DEF Multipart
  <2>3. \A k \in DOMAIN Multipart : Multipart[k][2] = 0 /\ DOMAIN Multipart[k] = 1 .. 2
    BY <2>2
  <2>4. FilesOf(Multipart) = {}
    BY <2>3 DEF FilesOf
  <2>. QED
    BY <1>3, <2>1, <2>3, <2>4
<1>4. CASE hreq.body[1] # "multi" /\ hreq.length > HBuffer
  <2>1. \/ hcontent' = <<<<Came, 1>>>> /\ hfiles' = {1}
        \/ hcontent' = <<>> /\ hfiles' = {}
    BY <1>1, <1>4 DEF ContentCreate
  <2>2. FilesOf(<<>>) = {}
    BY DEF FilesOf
  <2>3. CASE hcontent' = <<>> /\ hfiles' = {}
    BY <2>2, <2>3
  <2>4. CASE hcontent' = <<<<Came, 1>>>> /\ hfiles' = {1}
    <3>1. PICK x : x = Came
      OBVIOUS
    <3>2. hcontent' = <<<<x, 1>>>> /\ hfiles' = {1} \ {0}
      BY <2>4, <3>1
    <3>3. FilesOf(<<<<x, 1>>>>) = {1} \ {0} /\ \A k \in DOMAIN <<<<x, 1>>>> : DOMAIN <<<<x, 1>>>>[k] = 1 .. 2
      BY <1>2
    <3>4. hfiles' = FilesOf(hcontent') /\ \A k \in DOMAIN hcontent' : DOMAIN hcontent'[k] = 1 .. 2
      BY <3>2, <3>3
    <3>. QED
      BY <1>4, <2>4, <3>4
  <2>. QED
    BY <2>1, <2>3, <2>4
<1>5. CASE hreq.body[1] # "multi" /\ ~(hreq.length > HBuffer)
  <2>1. hcontent' = <<<<FillBuffer, 0>>>> /\ hfiles' = {}
    BY <1>5 DEF ContentCreate
  <2>. QED
    BY <1>2, <1>5, <2>1
<1>. QED
  BY <1>3, <1>4, <1>5

(* Every step sends what is due at its place and keeps the files to the    *)
(* content.                                                                *)
LEMMA HttpSteps == HttpIInv /\ [HttpStepNext]_httpVars => HttpIInv'
<1> SUFFICES ASSUME HttpIInv, [HttpStepNext]_httpVars PROVE HttpIInv'
  OBVIOUS
<1>0. HttpPlace /\ HttpSocket /\ HttpObjects /\ HttpReads /\ HttpFiles /\ HttpBytes
  BY DEF HttpIInv
<1>1. CASE HttpProcess
  <2>1. /\ hpc = "idle" /\ hpc' \in {"route", "end"} /\ hstream' = <<>>
        /\ hobject' = hobject /\ hfiles' = hfiles /\ hcontent' = hcontent
        /\ hreq'.dev = FALSE
        /\ hpc' = "route" => hsocket' = <<>>
        /\ hpc' = "end" => hsocket' = IF hreq'.on THEN <<"408">> ELSE <<>>
    BY <1>1 DEF HttpProcess
  <2>2. HttpReads'
    <3>1. PICK length \in HLengths, body \in HBodies : hreq'.length = length /\ hreq'.body = body
      BY <1>1 DEF HttpProcess
    <3>. QED
      BY <3>1, HttpConstants DEF HttpReads
  <2>3. HttpPlace' /\ HttpSocket'
    BY <2>1 DEF HttpPlace, HttpSocket, Answered, Sent, NoAnswer
  <2>4. hcontent = <<>>
    BY <1>0, <2>1 DEF HttpFiles
  <2>. QED
    BY <1>0, <2>1, <2>2, <2>3, <2>4 DEF HttpIInv, HttpObjects, HttpFiles, HttpBytes, FilesOf
<1>2. CASE HttpProcessDev
  <2>1. /\ hpc = "idle" /\ hpc' = "route" /\ hstream' = <<>> /\ hsocket' = <<>>
        /\ hobject' = hobject /\ hfiles' = hfiles /\ hcontent' = hcontent
        /\ hreq'.length = 0 /\ hreq'.body = <<"plain", <<>>>>
    BY <1>2 DEF HttpProcessDev, NoRequest
  <2>2. HttpReads'
    <3>1. PICK w \in Seq(STRING) : w = <<>>
      BY NoTexts
    <3>2. hreq'.length = 0 /\ hreq'.body = <<"plain", w>>
      BY <2>1, <3>1
    <3>. QED
      BY <3>2 DEF HttpReads
  <2>3. hcontent = <<>>
    BY <1>0, <2>1 DEF HttpFiles
  <2>. QED
    BY <1>0, <2>1, <2>2, <2>3 DEF HttpIInv, HttpPlace, HttpSocket, HttpObjects, HttpFiles, HttpBytes, FilesOf
<1>3. CASE HttpRoute
  <2>1. /\ hpc = "route" /\ hpc' \in {"validate", "clear"} /\ hsocket = <<>> /\ hstream = <<>>
        /\ hreq' = hreq /\ hstream' = hstream /\ hfiles' = hfiles /\ hcontent' = hcontent
        /\ hcontent = <<>>
    BY <1>0, <1>3 DEF HttpRoute, HttpPlace, HttpFiles
  <2>2. hpc' = "validate" => hsocket' = <<>>
    BY <1>3, <2>1 DEF HttpRoute
  <2>3. hpc' = "clear" => hsocket' \in {<<"404">>, <<"200", "file">>} \/ (hsocket' = <<>> /\ NoAnswer')
    BY <1>3, <2>1 DEF HttpRoute, SendFile, Direct, NoAnswer
  <2>4. HttpPlace'
    BY <2>1, <2>2, <2>3 DEF HttpPlace, Sent
  <2>5. HttpSocket'
    BY <2>1, <2>2, <2>3 DEF HttpSocket, Answered, Sent
  <2>6. HttpReads' /\ HttpFiles'
    BY <1>0, <2>1 DEF HttpReads, HttpFiles, FilesOf
  <2>. QED
    BY <2>1, <2>4, <2>5, <2>6 DEF HttpIInv, HttpObjects, HttpBytes
<1>4. CASE HttpValidate
  <2>1. /\ hpc = "validate" /\ hpc' \in {"content", "clear"} /\ hsocket = <<>> /\ hstream = <<>>
        /\ hreq' = hreq /\ hobject' = hobject /\ hfiles' = hfiles /\ hcontent' = hcontent
        /\ hcontent = <<>>
    BY <1>0, <1>4 DEF HttpValidate, HttpPlace, HttpFiles
  <2>2. hpc' = "content" => hstream' = <<>> /\ Silent(hsocket)'
    BY <1>4, <2>1 DEF HttpValidate, Direct, Silent
  <2>3. hpc' = "clear" => hstream' = <<"401">> /\ hsocket' = <<>>
    BY <1>4, <2>1 DEF HttpValidate
  <2>4. HttpPlace'
    BY <2>1, <2>2, <2>3 DEF HttpPlace, Silent
  <2>5. HttpSocket'
    BY <2>1, <2>2, <2>3 DEF HttpSocket
  <2>6. HttpReads' /\ HttpFiles'
    BY <1>0, <2>1 DEF HttpReads, HttpFiles, FilesOf
  <2>. QED
    BY <2>1, <2>4, <2>5, <2>6 DEF HttpIInv, HttpObjects, HttpBytes
<1>5. CASE HttpContent
  <2>1. /\ hpc = "content" /\ Silent(hsocket) /\ hstream = <<>> /\ hcontent = <<>> /\ hfiles = {}
        /\ hreq' = hreq /\ hobject' = hobject /\ hstream' = hstream
        /\ hpc' \in {"render", "clear"}
    BY <1>0, <1>5 DEF HttpContent, HttpPlace, HttpFiles, FilesOf
  <2>2. hpc' = "render" => hsocket' = hsocket
    BY <1>5 DEF HttpContent
  <2>3. hpc' = "clear" => Sent(hsocket)'
    <3>1. hpc' = "clear" => hsocket' = IF hreq.on THEN Append(hsocket, "500") ELSE hsocket
      BY <1>5, <2>1 DEF HttpContent, Direct
    <3>2. Append(<<>>, "500") = <<"500">> /\ Append(<<"100">>, "500") = <<"100", "500">>
      BY TwoCodes
    <3>. QED
      BY <2>1, <3>1, <3>2 DEF Silent, Sent, NoAnswer
  <2>4. Silent(hsocket)' <=> Silent(hsocket')
    BY <2>1 DEF Silent
  <2>5. HttpPlace'
    BY <2>1, <2>2, <2>3 DEF HttpPlace, Silent
  <2>6. HttpSocket'
    BY <2>1, <2>2, <2>3 DEF HttpSocket, Silent, Answered
  <2>7. HttpReads'
    BY <1>0, <2>1 DEF HttpReads
  <2>8. HttpFiles' /\ HttpBytes'
    <3>1. CASE hreq.length = 0
      <4>1. hfiles' = hfiles /\ hcontent' = hcontent
        BY <1>5, <3>1 DEF HttpContent
      <4>. QED
        BY <1>0, <2>1, <3>1, <4>1 DEF HttpFiles, HttpBytes, FilesOf
    <3>2. CASE hreq.length # 0
      <4>1. ContentCreate /\ (hcontent' = <<>> => hpc' = "clear")
        BY <1>5, <3>2 DEF HttpContent
      <4>2. /\ hfiles' = FilesOf(hcontent')
            /\ \A k \in DOMAIN hcontent' : DOMAIN hcontent'[k] = 1 .. 2
            /\ hreq.body[1] = "plain" /\ hcontent' # <<>> =>
                 IF hreq.length > HBuffer THEN hcontent' = <<<<Came, 1>>>> ELSE hcontent' = <<<<FillBuffer, 0>>>>
        BY <1>0, <2>1, <4>1, ContentMade
      <4>3. Came' = Came /\ FillBuffer' = FillBuffer
        BY <2>1 DEF Came, FillBuffer
      <4>4. hpc' = "render" \/ hpc' = "clear"
        BY <2>1
      <4>5. FilesOf(hcontent)' = FilesOf(hcontent')
        BY DEF FilesOf
      <4>6. HttpFiles'
        BY <4>2, <4>4, <4>5 DEF HttpFiles
      <4>7. HttpBytes'
        BY <2>1, <4>1, <4>2, <4>3 DEF HttpBytes
      <4>. QED
        BY <4>6, <4>7
    <3>. QED
      BY <3>1, <3>2
  <2>9. HttpObjects'
    BY <2>1 DEF HttpObjects
  <2>. QED
    BY <2>5, <2>6, <2>7, <2>8, <2>9 DEF HttpIInv
<1>6. CASE HttpExtract
  <2>1. PICK k \in DOMAIN hcontent : hcontent' = [hcontent EXCEPT ![k][1] = Absent]
    BY <1>6 DEF HttpExtract
  <2>2. /\ hpc = "render" /\ hpc' = "rendering" /\ hreq' = hreq /\ hobject' = hobject
        /\ hstream' = hstream /\ hsocket' = hsocket /\ hfiles' = hfiles
    BY <1>6 DEF HttpExtract
  <2>3. /\ DOMAIN hcontent' = DOMAIN hcontent
        /\ \A i \in DOMAIN hcontent : hcontent'[i][2] = hcontent[i][2] /\ DOMAIN hcontent'[i] = 1 .. 2
    <3>1. \A i \in DOMAIN hcontent : DOMAIN hcontent[i] = 1 .. 2
      BY <1>0 DEF HttpFiles
    <3>. QED
      BY <2>1, <3>1
  <2>4. FilesOf(hcontent)' = FilesOf(hcontent)
    BY <2>3 DEF FilesOf
  <2>5. HttpFiles'
    BY <1>0, <2>2, <2>3, <2>4 DEF HttpFiles
  <2>6. HttpPlace' /\ HttpSocket'
    BY <1>0, <2>2 DEF HttpPlace, HttpSocket, Silent, Answered, Sent, NoAnswer
  <2>. QED
    BY <1>0, <2>2, <2>5, <2>6 DEF HttpIInv, HttpObjects, HttpReads, HttpBytes
<1>7. CASE HttpRender
  <2>1. /\ hpc \in {"render", "rendering"} /\ hpc' = "clear" /\ hreq' = hreq /\ hobject' = hobject
        /\ hstream' = <<"200">> /\ hsocket' = hsocket /\ hfiles' = hfiles /\ hcontent' = hcontent
        /\ Silent(hsocket)
    <3>1. Append(<<>>, "200") = <<"200">>
      BY TwoCodes
    <3>2. hstream = <<>> /\ Silent(hsocket)
      BY <1>0, <1>7 DEF HttpRender, HttpPlace
    <3>. QED
      BY <1>7, <3>1, <3>2 DEF HttpRender
  <2>2. HttpPlace' /\ HttpSocket'
    BY <2>1 DEF HttpPlace, HttpSocket, Silent
  <2>3. HttpFiles'
    BY <1>0, <2>1 DEF HttpFiles, FilesOf
  <2>. QED
    BY <1>0, <2>1, <2>2, <2>3 DEF HttpIInv, HttpObjects, HttpReads, HttpBytes
<1>8. CASE HttpClear
  <2>1. /\ hpc = "clear" /\ hpc' = "end" /\ hreq' = hreq /\ hobject'.made = hobject'.cleared
        /\ hsocket' = hsocket \o hstream /\ hstream' = <<>> /\ hfiles' = hfiles /\ hcontent' = hcontent
    <3>1. hobject' = [hobject EXCEPT !.cleared = hobject.made] /\ hpc = "clear"
      BY <1>8 DEF HttpClear
    <3>. QED
      BY <1>8, <3>1 DEF HttpClear, HttpObjects
  <2>2. Answered(hsocket')
    <3>1. ASSUME NEW s \in {<<>>, <<"100">>, <<"404">>, <<"408">>, <<"500">>, <<"100", "500">>, <<"200", "file">>}
          PROVE  s \o <<>> = s
      OBVIOUS
    <3>2. \A c \in {"200", "401"} : <<>> \o <<c>> = <<c>> /\ <<"100">> \o <<c>> = <<"100", c>>
      BY TwoCodes
    <3>3. CASE hstream = <<>> /\ Sent(hsocket)
      BY <2>1, <3>1, <3>3 DEF Answered, Sent
    <3>4. CASE hstream \in {<<"200">>, <<"401">>} /\ Silent(hsocket)
      BY <2>1, <3>2, <3>4 DEF Answered, Silent
    <3>. QED
      BY <1>0, <2>1, <3>3, <3>4 DEF HttpPlace
  <2>3. Answered(hsocket)'
    BY <2>1, <2>2 DEF Answered, Sent, NoAnswer
  <2>4. HttpPlace' /\ HttpSocket'
    BY <2>1, <2>3 DEF HttpPlace, HttpSocket
  <2>5. HttpFiles'
    BY <1>0, <2>1 DEF HttpFiles, FilesOf
  <2>. QED
    BY <1>0, <2>1, <2>4, <2>5 DEF HttpIInv, HttpObjects, HttpReads, HttpBytes
<1>9. CASE HttpEnd
  <2>1. /\ hpc = "end" /\ hpc' = "idle" /\ hreq' = hreq /\ hobject' = hobject
        /\ hstream' = hstream /\ hsocket' = hsocket
        /\ hcontent' = <<>> /\ hfiles' = hfiles \ FilesOf(hcontent)
    BY <1>9 DEF HttpEnd, ContentDestroy
  <2>2. hfiles' = {} /\ FilesOf(hcontent)' = {}
    BY <1>0, <2>1 DEF HttpFiles, FilesOf
  <2>3. HttpPlace' /\ HttpSocket'
    BY <1>0, <2>1 DEF HttpPlace, HttpSocket, Silent, Answered, Sent, NoAnswer
  <2>4. HttpFiles'
    BY <2>1, <2>2 DEF HttpFiles
  <2>. QED
    BY <1>0, <2>1, <2>3, <2>4 DEF HttpIInv, HttpObjects, HttpReads, HttpBytes
<1>10. CASE UNCHANGED httpVars
  <2>1. /\ hpc' = hpc /\ hreq' = hreq /\ hobject' = hobject /\ hstream' = hstream
        /\ hsocket' = hsocket /\ hfiles' = hfiles /\ hcontent' = hcontent
    BY <1>10 DEF httpVars
  <2>0. /\ Silent(hsocket)' <=> Silent(hsocket)
        /\ Sent(hsocket)' <=> Sent(hsocket)
        /\ Answered(hsocket)' <=> Answered(hsocket)
    <3>1. NoAnswer' <=> NoAnswer
      BY <2>1 DEF NoAnswer
    <3>2. Silent(hsocket)' <=> Silent(hsocket)
      BY <2>1 DEF Silent
    <3>3. Sent(hsocket)' <=> Sent(hsocket)
      BY <2>1, <3>1, Zenon DEF Sent
    <3>4. Answered(hsocket)' <=> Answered(hsocket)
      BY <2>1, <3>3, Zenon DEF Answered
    <3>. QED
      BY <3>2, <3>3, <3>4
  <2>2. HttpPlace'
    BY <1>0, <2>0, <2>1 DEF HttpPlace
  <2>3. HttpSocket'
    BY <1>0, <2>0, <2>1 DEF HttpSocket
  <2>4. HttpObjects' /\ HttpReads'
    BY <1>0, <2>1 DEF HttpObjects, HttpReads
  <2>5. HttpFiles'
    BY <1>0, <2>1 DEF HttpFiles, FilesOf
  <2>6. HttpBytes'
    BY <1>0, <2>1 DEF HttpBytes, Came, FillBuffer
  <2>. QED
    BY <2>2, <2>3, <2>4, <2>5, <2>6 DEF HttpIInv
<1>. QED
  BY <1>1, <1>2, <1>3, <1>4, <1>5, <1>6, <1>7, <1>8, <1>9, <1>10 DEF HttpStepNext

(* What is counted as an answer.                                           *)
Finals(s) == {k \in DOMAIN s : s[k] \notin {"100", "file"}}

(* The answers among what was sent.                                        *)
LEMMA FinalsCounted ==
  /\ \A s \in {<<>>, <<"100">>} : Cardinality(Finals(s)) = 0
  /\ \A s \in {<<"404">>, <<"408">>, <<"500">>, <<"200">>, <<"401">>, <<"200", "file">>,
              <<"100", "500">>, <<"100", "200">>, <<"100", "401">>} : Cardinality(Finals(s)) = 1
<1>1. \A s \in {<<>>, <<"100">>} : Finals(s) = {}
  BY DEF Finals
<1>2. \A s \in {<<"404">>, <<"408">>, <<"500">>, <<"200">>, <<"401">>} : Finals(s) = {1}
  BY DEF Finals
<1>3. Finals(<<"200", "file">>) = {1}
  BY DEF Finals
<1>4. \A c \in {"200", "401", "500"} : Finals(<<"100", c>>) = {2}
  BY DEF Finals
<1>5. Cardinality({}) = 0 /\ Cardinality({1}) = 1 /\ Cardinality({2}) = 1
  BY FS_EmptySet, FS_Singleton
<1>. QED
  BY <1>1, <1>2, <1>3, <1>4, <1>5

(* The bytes that came, and the buffer they are put in.                    *)
LEMMA BytesServed ==
  ASSUME HttpReads
  PROVE  /\ Came \in Seq(STRING) /\ Len(Came) <= hreq.length
         /\ IsPrefix(Came, Came) /\ IsPrefix(Came, FillBuffer)
         /\ Len(Came) = hreq.length => FillBuffer = Came
<1>1. PICK n \in Nat : n = hreq.length
  BY DEF HttpReads
<1>2. PICK b \in Seq(STRING) : b = hreq.body[2]
  BY DEF HttpReads
<1>3. PICK m \in Nat : m = Smallest(n, Len(b)) /\ m <= n /\ m <= Len(b)
  <2>1. Len(b) \in Nat
    OBVIOUS
  <2>. QED
    BY <2>1 DEF Smallest
<1>4. PICK c : c = Came /\ c = SubSeq(b, 1, m)
  BY <1>1, <1>2, <1>3 DEF Came
<1>5. c \in Seq(STRING) /\ Len(c) = m
  BY <1>3, <1>4
<1>6. PICK f : f = FillBuffer /\ f = [k \in 1 .. n |-> IF k <= Len(c) THEN c[k] ELSE Hole]
  BY <1>1, <1>4 DEF FillBuffer
<1> DEFINE S == STRING \cup {Hole}
<1>7. f \in Seq(S) /\ Len(f) = n /\ c \in Seq(S)
  <2>1. \A k \in 1 .. m : c[k] \in STRING
    BY <1>5
  <2>2. c \in Seq(S)
    BY <1>3, <1>5, <2>1
  <2>3. f = [k \in 1 .. n |-> f[k]] /\ \A k \in 1 .. n : f[k] \in S
    BY <1>3, <1>5, <1>6, <2>1
  <2> HIDE DEF S
  <2>4. f \in Seq(S) /\ Len(f) = n
    BY <2>3, SequenceBy, ZenonT(30)
  <2>. QED
    BY <2>2, <2>4
<1> HIDE DEF S
<1>8. ASSUME NEW t \in Seq(S), m <= Len(t), \A k \in 1 .. m : t[k] = c[k] PROVE IsPrefix(c, t)
  <2>1. SubSeq(c, 1, m) = SubSeq(t, 1, m)
    BY <1>3, <1>5, <1>7, <1>8
  <2>. QED
    BY <1>5, <1>8, <2>1 DEF IsPrefix
<1>9. IsPrefix(c, c)
  BY <1>5, <1>7, <1>8
<1>10. IsPrefix(c, f)
  <2>1. \A k \in 1 .. m : f[k] = c[k]
    BY <1>3, <1>5, <1>6
  <2>. QED
    BY <1>3, <1>7, <1>8, <2>1
<1>11. ASSUME m = n PROVE f = c
  <2>1. \A k \in 1 .. n : f[k] = c[k]
    BY <1>5, <1>6, <1>11
  <2>. QED
    BY <1>5, <1>7, <1>11, <2>1
<1>. QED
  BY <1>1, <1>3, <1>4, <1>5, <1>6, <1>9, <1>10, <1>11

(* One answer, no object and no file left, and the bytes that were sent.   *)
LEMMA HttpFollows == HttpIInv => HttpServes
<1> SUFFICES ASSUME HttpIInv PROVE HttpServes
  OBVIOUS
<1>0. HttpPlace /\ HttpSocket /\ HttpObjects /\ HttpReads /\ HttpFiles /\ HttpBytes
  BY DEF HttpIInv
<1>1. hpc = "idle" => hobject.made = hobject.cleared /\ hfiles = {}
  BY <1>0 DEF HttpObjects, HttpFiles, FilesOf
<1>2. hsocket \in {<<>>, <<"100">>, <<"404">>, <<"408">>, <<"500">>, <<"200">>, <<"401">>, <<"200", "file">>,
                   <<"100", "500">>, <<"100", "200">>, <<"100", "401">>}
  BY <1>0 DEF HttpSocket, Silent, Answered, Sent
<1>3. Cardinality(Finals(hsocket)) <= 1
  <2>1. Cardinality(Finals(hsocket)) = 0 \/ Cardinality(Finals(hsocket)) = 1
    BY <1>2, FinalsCounted
  <2>. QED
    BY <2>1
<1>4. hpc = "end" /\ hreq.on /\ ~hreq.dev => Cardinality(Finals(hsocket)) = 1
  <2>1. hpc = "end" /\ hreq.on /\ ~hreq.dev =>
          hsocket \in {<<"404">>, <<"408">>, <<"500">>, <<"200">>, <<"401">>, <<"200", "file">>,
                       <<"100", "500">>, <<"100", "200">>, <<"100", "401">>}
    BY <1>0 DEF HttpPlace, Answered, Sent, NoAnswer
  <2>. QED
    BY <2>1, FinalsCounted
<1>5. \A k \in DOMAIN hsocket : hsocket[k] = "100" => k = 1
  BY <1>2
<1>6. ASSUME hpc = "render", hreq.length > 0, hreq.body[1] = "plain"
      PROVE  /\ IsPrefix(Came, hcontent[1][1])
             /\ (GetFile(hcontent[1]) # 0) <=> hreq.length > HBuffer
             /\ Len(Came) = hreq.length => hcontent[1][1] = Came
  <2>1. CASE hreq.length > HBuffer
    <3>1. hcontent[1][1] = Came /\ hcontent[1][2] = 1
      BY <1>0, <1>6, <2>1 DEF HttpBytes
    <3>. QED
      BY <1>0, <2>1, <3>1, BytesServed DEF GetFile
  <2>2. CASE ~(hreq.length > HBuffer)
    <3>1. hcontent[1][1] = FillBuffer /\ hcontent[1][2] = 0
      BY <1>0, <1>6, <2>2 DEF HttpBytes
    <3>. QED
      BY <1>0, <2>2, <3>1, BytesServed DEF GetFile
  <2>. QED
    BY <2>1, <2>2
<1>7. hfiles = FilesOf(hcontent)
  BY <1>0 DEF HttpFiles
<1>. QED
  BY <1>1, <1>3, <1>4, <1>5, <1>6, <1>7 DEF HttpServes, Finals

(* A request to the web server (echttp.c) leaves nothing behind and is     *)
(* answered once, whatever the application and the client do, and the      *)
(* application gets the bytes that came (HttpServes).                      *)
THEOREM RequestsAreServed == HttpInit /\ [][HttpStepNext]_httpVars => []HttpServes
<1>1. HttpInit => HttpIInv
  BY HttpStarts
<1>2. HttpIInv /\ [HttpStepNext]_httpVars => HttpIInv'
  BY HttpSteps
<1>3. HttpIInv => HttpServes
  BY HttpFollows
<1>. QED
  BY <1>1, <1>2, <1>3, PTL

-----------------------------------------------------------------------------
(* Objects: the nodes of libadbo.                                          *)

(* Induction up to m, over the set of the numbers where a fact holds.      *)
LEMMA Inductive ==
  ASSUME NEW S, NEW m \in Nat, 0 \in S, \A k \in 0 .. m - 1 : k \in S => k + 1 \in S
  PROVE  \A k \in 0 .. m : k \in S
<1> DEFINE D == {k \in 0 .. m : k \notin S}
<1>1. ASSUME D # {} PROVE FALSE
  <2>1. PICK x \in D : \A y \in D : x <= y
    <3>1. D \in SUBSET Nat
      OBVIOUS
    <3> HIDE DEF D
    <3> QED
      BY <1>1, <3>1, SmallestIn
  <2>2. x \in 0 .. m /\ x \notin S /\ x # 0
    OBVIOUS
  <2>3. x - 1 \in 0 .. m - 1 /\ (x - 1) + 1 = x /\ ~(x <= x - 1)
    BY <2>2
  <2>4. x - 1 \in D
    BY <2>2, <2>3
  <2>. QED
    BY <2>1, <2>3, <2>4
<1>. QED
  BY <1>1

(* A function that is given at 0, and by its value at k - 1 for each k up  *)
(* to m, exists; F is what happens from one to the next.                   *)
StepsWithin(F, T, m) == \A x \in T, k \in 1 .. m : F[x][k] \in T
Iterates(f, F, T, base, m) ==
  f \in [0 .. m -> T] /\ f[0] = base /\ \A k \in 1 .. m : f[k] = F[f[k - 1]][k]

(* What goes on for n steps goes on for one more.                          *)
LEMMA OneMore ==
  ASSUME NEW T, NEW base \in T, NEW m \in Nat, NEW F, StepsWithin(F, T, m),
         NEW n \in 0 .. m - 1, NEW f, Iterates(f, F, T, base, n)
  PROVE  \E g : Iterates(g, F, T, base, n + 1)
<1> DEFINE g == [k \in 0 .. n + 1 |-> IF k = n + 1 THEN F[f[n]][n + 1] ELSE f[k]]
<1>1. n \in Nat /\ n + 1 \in 1 .. m /\ n \in 0 .. n
  OBVIOUS
<1>2. f \in [0 .. n -> T] /\ f[0] = base /\ \A k \in 1 .. n : f[k] = F[f[k - 1]][k]
  BY DEF Iterates
<1>3. F[f[n]][n + 1] \in T
  BY <1>1, <1>2 DEF StepsWithin
<1>4. \A k \in 0 .. n : g[k] = f[k]
  BY <1>1
<1>5. g[n + 1] = F[f[n]][n + 1]
  BY <1>1
<1>6. g \in [0 .. n + 1 -> T]
  BY <1>1, <1>2, <1>3
<1> HIDE DEF g
<1>7. ASSUME NEW k \in 1 .. n + 1 PROVE g[k] = F[g[k - 1]][k]
  <2>1. CASE k = n + 1
    <3>1. g[n] = f[n] /\ k - 1 = n
      BY <1>1, <1>4, <2>1
    <3>. QED
      BY <2>1, <3>1, <1>5
  <2>2. CASE k # n + 1
    <3>1. k \in 1 .. n /\ k \in 0 .. n /\ k - 1 \in 0 .. n
      BY <1>1, <2>2
    <3>. QED
      BY <3>1, <1>2, <1>4
  <2>. QED
    BY <2>1, <2>2
<1>8. g[0] = base
  BY <1>1, <1>2, <1>4
<1>9. Iterates(g, F, T, base, n + 1)
  BY <1>6, <1>7, <1>8 DEF Iterates
<1>. QED
  BY <1>9

(* A loop that moves within T can be run as often as one likes.            *)
LEMMA Iterated ==
  ASSUME NEW T, NEW base \in T, NEW m \in Nat, NEW F, StepsWithin(F, T, m)
  PROVE  \E f : Iterates(f, F, T, base, m)
<1> DEFINE S == {n \in 0 .. m : \E f : Iterates(f, F, T, base, n)}
<1>1. 0 \in S
  <2> DEFINE f == [k \in 0 .. 0 |-> base]
  <2>1. 0 \in 0 .. 0 /\ \A k \in 1 .. 0 : FALSE
    OBVIOUS
  <2>2. Iterates(f, F, T, base, 0)
    BY <2>1 DEF Iterates
  <2>. QED
    <3> HIDE DEF f
    <3> QED
      BY <2>2
<1>2. ASSUME NEW n \in 0 .. m - 1, n \in S PROVE n + 1 \in S
  <2>1. PICK f : Iterates(f, F, T, base, n)
    BY <1>2
  <2>2. \E g : Iterates(g, F, T, base, n + 1)
    BY <2>1, OneMore
  <2>3. n + 1 \in 0 .. m
    OBVIOUS
  <2>. QED
    BY <2>2, <2>3
<1>3. m \in 0 .. m /\ \A n \in 0 .. m : n \in S
  <2>1. \A n \in 0 .. m - 1 : n \in S => n + 1 \in S
    BY <1>2
  <2> HIDE DEF S
  <2> QED
    BY <1>1, <2>1, Inductive
<1>. QED
  BY <1>3

(* What two sequences have, one behind the other.                          *)
LEMMA JoinHas ==
  ASSUME NEW S, NEW s \in Seq(S), NEW t \in Seq(S)
  PROVE  s \o t \in Seq(S) /\ \A e : e \in ToSet(s \o t) <=> e \in ToSet(s) \/ e \in ToSet(t)
<1>1. /\ s \o t \in Seq(S) /\ Len(s \o t) = Len(s) + Len(t) /\ Len(s) \in Nat /\ Len(t) \in Nat
      /\ DOMAIN (s \o t) = 1 .. Len(s) + Len(t) /\ DOMAIN s = 1 .. Len(s) /\ DOMAIN t = 1 .. Len(t)
      /\ \A i \in 1 .. Len(s) : (s \o t)[i] = s[i]
      /\ \A i \in 1 .. Len(t) : (s \o t)[Len(s) + i] = t[i]
  OBVIOUS
<1>a. PICK m : m = Len(s)
  OBVIOUS
<1>b. PICK n : n = Len(t)
  OBVIOUS
<1>2. m = Len(s) /\ n = Len(t) /\ m \in Nat /\ n \in Nat
  BY <1>1, <1>a, <1>b
<1>3. PICK u : u = s \o t
  OBVIOUS
<1>4. ASSUME NEW i \in 1 .. m + n PROVE u[i] \in ToSet(s) \/ u[i] \in ToSet(t)
  <2>1. CASE i <= m
    <3>1. i \in 1 .. m
      BY <2>1
    <3>. QED
      BY <1>1, <1>2, <1>3, <3>1 DEF ToSet
  <2>2. CASE ~(i <= m)
    <3>1. i - m \in 1 .. n /\ m + (i - m) = i
      BY <1>2, <2>2
    <3>2. u[m + (i - m)] = t[i - m]
      BY <1>1, <1>2, <1>3, <3>1
    <3>. QED
      BY <1>1, <1>2, <3>1, <3>2 DEF ToSet
  <2>. QED
    BY <2>1, <2>2
<1>5. ASSUME NEW i \in 1 .. m PROVE s[i] \in ToSet(u)
  <2>1. i \in 1 .. m + n
    BY <1>2
  <2>. QED
    BY <1>1, <1>2, <1>3, <2>1 DEF ToSet
<1>6. ASSUME NEW i \in 1 .. n PROVE t[i] \in ToSet(u)
  <2>1. m + i \in 1 .. m + n
    BY <1>2
  <2>2. u[m + i] = t[i]
    BY <1>1, <1>2, <1>3
  <2>. QED
    BY <1>1, <1>2, <1>3, <2>1, <2>2 DEF ToSet
<1>7. ToSet(u) = {u[i] : i \in 1 .. m + n} /\ ToSet(s) = {s[i] : i \in 1 .. m} /\ ToSet(t) = {t[i] : i \in 1 .. n}
  BY <1>1, <1>2, <1>3 DEF ToSet
<1>8. \A e : e \in ToSet(u) <=> e \in ToSet(s) \/ e \in ToSet(t)
  <2>1. ASSUME NEW e, e \in ToSet(u) PROVE e \in ToSet(s) \/ e \in ToSet(t)
    BY <1>4, <1>7, <2>1
  <2>2. ASSUME NEW e, e \in ToSet(s) PROVE e \in ToSet(u)
    <3>1. PICK i \in 1 .. m : e = s[i]
      BY <1>7, <2>2
    <3>. QED
      BY <1>5, <3>1
  <2>3. ASSUME NEW e, e \in ToSet(t) PROVE e \in ToSet(u)
    <3>1. PICK i \in 1 .. n : e = t[i]
      BY <1>7, <2>3
    <3>. QED
      BY <1>6, <3>1
  <2>. QED
    BY <2>1, <2>2, <2>3
<1>. QED
  BY <1>1, <1>3, <1>8

(* A sequence without an element is the empty one.                         *)
LEMMA SeqEmpty ==
  ASSUME NEW T, NEW s \in Seq(T), Len(s) = 0
  PROVE  s = <<>>
OBVIOUS

(* A sequence of sequences put together has what each of them has.         *)
LEMMA FlatHas ==
  ASSUME NEW S, NEW s \in Seq(Seq(S))
  PROVE  /\ FlattenSeq(s) \in Seq(S)
         /\ \A e : e \in ToSet(FlattenSeq(s)) <=> \E i \in DOMAIN s : e \in ToSet(s[i])
<1>1. PICK n \in Nat : n = Len(s)
  OBVIOUS
<1>2. DOMAIN s = 1 .. n /\ \A i \in 1 .. n : s[i] \in Seq(S)
  BY <1>1
<1>3. CASE n = 0
  <2>a. s = <<>>
    BY <1>1, <1>3, SeqEmpty
  <2>b. Len(s) = 0
    BY <1>1, <1>3
  <2>c. FlattenSeq(s) = s
    BY <2>b DEF FlattenSeq
  <2>1. FlattenSeq(s) = s /\ s = <<>>
    BY <2>a, <2>c
  <2>2. DOMAIN s = {} /\ s \in Seq(S)
    BY <2>1
  <2>. QED
    BY <2>1, <2>2 DEF ToSet
<1>4. CASE n # 0
  <2> DEFINE F == [x \in Seq(S) |-> [k \in 1 .. n |-> x \o s[k]]]
             G(h) == h = [i \in 1 .. n |-> IF i = 1 THEN s[i] ELSE h[i - 1] \o s[i]]
  <2>1. StepsWithin(F, Seq(S), n) /\ <<>> \in Seq(S)
    <3>1. ASSUME NEW x \in Seq(S), NEW k \in 1 .. n PROVE F[x][k] \in Seq(S)
      <4>1. F[x][k] = x \o s[k]
        OBVIOUS
      <4>. QED
        BY <1>2, <4>1
    <3>. QED
      BY <3>1 DEF StepsWithin
  <2>2. PICK f : Iterates(f, F, Seq(S), <<>>, n)
    <3> HIDE DEF F
    <3> QED
      BY <2>1, Iterated
  <2>3. f \in [0 .. n -> Seq(S)] /\ f[0] = <<>> /\ \A k \in 1 .. n : f[k] = f[k - 1] \o s[k]
    <3>1. ASSUME NEW k \in 1 .. n PROVE f[k] = f[k - 1] \o s[k]
      <4>1. f[k - 1] \in Seq(S) /\ f[k] = F[f[k - 1]][k]
        <5> HIDE DEF F
        <5>1. k - 1 \in 0 .. n
          OBVIOUS
        <5>. QED
          BY <2>2, <5>1 DEF Iterates
      <4>2. PICK x \in Seq(S) : x = f[k - 1]
        BY <4>1
      <4>3. F[x][k] = x \o s[k]
        OBVIOUS
      <4>. QED
        BY <4>1, <4>2, <4>3
    <3>. QED
      BY <2>2, <3>1 DEF Iterates
  <2>4. PICK g0 : g0 = [i \in 1 .. n |-> f[i]]
    OBVIOUS
  <2>5. G(g0)
    <3>1. ASSUME NEW i \in 1 .. n PROVE g0[i] = IF i = 1 THEN s[i] ELSE g0[i - 1] \o s[i]
      <4>1. CASE i = 1
        <5>1. f[1] = <<>> \o s[1]
          <6>1. 1 \in 1 .. n /\ 1 - 1 = 0
            BY <4>1
          <6>2. f[1] = f[1 - 1] \o s[1]
            BY <2>3, <6>1
          <6>. QED
            BY <2>3, <6>1, <6>2
        <5>2. s[1] \in Seq(S)
          BY <1>2, <4>1
        <5>. QED
          BY <2>4, <4>1, <5>1, <5>2
      <4>2. CASE i # 1
        <5>1. i - 1 \in 1 .. n
          BY <4>2
        <5>. QED
          BY <2>3, <2>4, <4>2, <5>1
      <4>. QED
        BY <4>1, <4>2
    <3>. QED
      BY <2>4, <3>1
  <2>6. PICK g : g = (CHOOSE h : G(h)) /\ G(g)
    BY <2>5
  <2>7. FlattenSeq(s) = g[n]
    BY <1>1, <1>4, <2>6 DEF FlattenSeq
  <2> DEFINE D == {k \in 0 .. n : k = 0 \/ (/\ g[k] \in Seq(S)
                                            /\ \A e : e \in ToSet(g[k]) <=> \E i \in 1 .. k : e \in ToSet(s[i]))}
  <2>8. 0 \in D
    OBVIOUS
  <2>9. ASSUME NEW k \in 0 .. n - 1, k \in D PROVE k + 1 \in D
    <3>1. k + 1 \in 1 .. n /\ (k + 1) - 1 = k /\ (k + 1 = 1 <=> k = 0)
      OBVIOUS
    <3>2. g[k + 1] = IF k = 0 THEN s[k + 1] ELSE g[k] \o s[k + 1]
      <4>1. \A i \in 1 .. n : g[i] = IF i = 1 THEN s[i] ELSE g[i - 1] \o s[i]
        BY <2>6
      <4>2. PICK i \in 1 .. n : i = k + 1
        BY <3>1
      <4>3. g[i] = IF i = 1 THEN s[i] ELSE g[i - 1] \o s[i]
        BY <4>1
      <4>4. i - 1 = k /\ (i = 1 <=> k = 0)
        BY <4>2
      <4>. QED
        BY <4>2, <4>3, <4>4
    <3>3. CASE k = 0
      BY <1>2, <3>1, <3>2, <3>3
    <3>4. CASE k # 0
      <4>1. g[k] \in Seq(S) /\ \A e : e \in ToSet(g[k]) <=> \E i \in 1 .. k : e \in ToSet(s[i])
        BY <2>9, <3>4
      <4>2. s[k + 1] \in Seq(S)
        BY <1>2, <3>1
      <4>3. g[k + 1] \in Seq(S) /\ \A e : e \in ToSet(g[k + 1]) <=> e \in ToSet(g[k]) \/ e \in ToSet(s[k + 1])
        BY <3>2, <3>4, <4>1, <4>2, JoinHas
      <4>4. \A i : i \in 1 .. k + 1 <=> i \in 1 .. k \/ i = k + 1
        BY <3>1
      <4>5. \A e : e \in ToSet(g[k + 1]) <=> \E i \in 1 .. k + 1 : e \in ToSet(s[i])
        BY <4>1, <4>3, <4>4
      <4>. QED
        BY <3>1, <4>3, <4>5
    <3>. QED
      BY <3>3, <3>4
  <2>10. n \in D
    <3>1. n \in 0 .. n
      OBVIOUS
    <3> HIDE DEF D
    <3> QED
      BY <2>8, <2>9, <3>1, Inductive
  <2>. QED
    BY <1>2, <1>4, <2>7, <2>10
<1>. QED
  BY <1>3, <1>4


-----------------------------------------------------------------------------
(* Keys and what is given for them.                                        *)
KeyNames == Columns \cup {NoColumn}
Elements == ({"inner"} \X KeyNames) \cup (KeyNames \X Int)

(* e is what the data gives for the key k.                                 *)
ElementOf(k, data, e) ==
  /\ k \in DOMAIN data
  /\ IF data[k][1] = "list"
     THEN (\A i \in DOMAIN data[k][2] : Usable(data[k][2][i])) /\ e = <<"inner", k>>
     ELSE Usable(data[k]) /\ e = <<k, data[k][2]>>

(* els is what the data gives for the set of keys K.                       *)
Gives(els, K, data) ==
  /\ els \in Seq(Elements)
  /\ \A e : e \in ToSet(els) <=> \E k \in K : ElementOf(k, data, e)

(* What is in a sequence of one element, and in one of none.               *)
LEMMA ShortHas ==
  ASSUME NEW S, NEW x, x \in S
  PROVE  /\ <<x>> \in Seq(S) /\ <<x>> # <<>> /\ \A e : e \in ToSet(<<x>>) <=> e = x
         /\ <<>> \in Seq(S) /\ \A e : e \notin ToSet(<<>>)
<1>1. PICK s : s = <<x>>
  OBVIOUS
<1>2. s \in Seq(S) /\ DOMAIN s = {1} /\ s[1] = x /\ s # <<>>
  BY <1>1
<1>3. \A e : e \in ToSet(s) <=> e = x
  BY <1>2 DEF ToSet
<1>4. PICK t : t = <<>>
  OBVIOUS
<1>5. t \in Seq(S) /\ DOMAIN t = {}
  BY <1>4
<1>6. \A e : e \notin ToSet(t)
  BY <1>5 DEF ToSet
<1>. QED
  BY <1>1, <1>2, <1>3, <1>4, <1>5, <1>6

(* The values of a column are a list of such, or a kind and a number.      *)
LEMMA DataHas ==
  ASSUME NEW data, IsData(data), NEW k \in DOMAIN data
  PROVE  /\ k \in Columns /\ k \in KeyNames
         /\ data[k][1] # "list" => data[k] = <<data[k][1], data[k][2]>> /\ data[k][2] \in Int
<1>1. k \in Columns /\ data[k] \in Values \cup ({"list"} \X Seq(Values))
  BY DEF IsData
<1>. QED
  BY <1>1 DEF Values, KeyNames

(* What the data gives for one key.                                        *)
LEMMA KeyGivenIs ==
  ASSUME NEW data, IsData(data), NEW k
  PROVE  /\ KeyGiven(k, data) \in Seq(Elements)
         /\ \A e : e \in ToSet(KeyGiven(k, data)) <=> ElementOf(k, data, e)
         /\ KeyGiven(k, data) # <<>> <=> \E e : ElementOf(k, data, e)
<1> DEFINE Goal(s) == /\ s \in Seq(Elements)
                      /\ \A e : e \in ToSet(s) <=> ElementOf(k, data, e)
                      /\ s # <<>> <=> \E e : ElementOf(k, data, e)
<1>0. <<1, 1>> = <<1, 1>> /\ <<"id", 1>> \in Elements
  BY DEF Elements, KeyNames, Columns
<1>1. ASSUME \A e : ~ElementOf(k, data, e) PROVE Goal(<<>>)
  BY <1>0, <1>1, ShortHas
<1>2. ASSUME NEW x \in Elements, \A e : ElementOf(k, data, e) <=> e = x PROVE Goal(<<x>>)
  BY <1>2, ShortHas
<1> HIDE DEF Goal
<1>3. CASE k \notin DOMAIN data
  <2>1. KeyGiven(k, data) = <<>> /\ \A e : ~ElementOf(k, data, e)
    BY <1>3 DEF KeyGiven, ElementOf
  <2>. QED
    BY <1>1, <2>1 DEF Goal
<1>4. CASE k \in DOMAIN data /\ data[k][1] = "list"
  <2>1. CASE \A i \in DOMAIN data[k][2] : Usable(data[k][2][i])
    <3>1. KeyGiven(k, data) = <<<<"inner", k>>>>
      BY <1>4, <2>1 DEF KeyGiven, KeyElements
    <3>2. \A e : ElementOf(k, data, e) <=> e = <<"inner", k>>
      BY <1>4, <2>1 DEF ElementOf
    <3>3. <<"inner", k>> \in Elements
      BY <1>4, DataHas DEF Elements
    <3>. QED
      BY <1>2, <3>1, <3>2, <3>3 DEF Goal
  <2>2. CASE ~(\A i \in DOMAIN data[k][2] : Usable(data[k][2][i]))
    <3>1. KeyGiven(k, data) = <<>> /\ \A e : ~ElementOf(k, data, e)
      BY <1>4, <2>2 DEF KeyGiven, KeyElements, ElementOf
    <3>. QED
      BY <1>1, <3>1 DEF Goal
  <2>. QED
    BY <2>1, <2>2
<1>5. CASE k \in DOMAIN data /\ data[k][1] # "list"
  <2>1. CASE Usable(data[k])
    <3>1. KeyGiven(k, data) = <<<<k, data[k][2]>>>>
      BY <1>5, <2>1 DEF KeyGiven, KeyElements
    <3>2. \A e : ElementOf(k, data, e) <=> e = <<k, data[k][2]>>
      BY <1>5, <2>1 DEF ElementOf
    <3>3. <<k, data[k][2]>> \in Elements
      BY <1>5, DataHas DEF Elements
    <3>. QED
      BY <1>2, <3>1, <3>2, <3>3 DEF Goal
  <2>2. CASE ~Usable(data[k])
    <3>1. KeyGiven(k, data) = <<>> /\ \A e : ~ElementOf(k, data, e)
      BY <1>5, <2>2 DEF KeyGiven, KeyElements, ElementOf
    <3>. QED
      BY <1>1, <3>1 DEF Goal
  <2>. QED
    BY <2>1, <2>2
<1>. QED
  BY <1>3, <1>4, <1>5

(* What the data gives for several keys.                                   *)
LEMMA KeysMean ==
  ASSUME NEW data, IsData(data), NEW S, NEW keys \in Seq(S)
  PROVE  Gives(KeysGiven(keys, data), ToSet(keys), data)
<1>1. PICK n : n = Len(keys)
  OBVIOUS
<1>2. n \in Nat /\ DOMAIN keys = 1 .. n
  BY <1>1
<1>3. PICK f : f = [i \in 1 .. n |-> KeyGiven(keys[i], data)]
  OBVIOUS
<1>4. \A i \in 1 .. n : f[i] = KeyGiven(keys[i], data) /\ f[i] \in Seq(Elements)
  BY <1>3, KeyGivenIs
<1>5. f = [i \in 1 .. n |-> f[i]]
  BY <1>3
<1>6. f \in Seq(Seq(Elements)) /\ Len(f) = n
  BY <1>2, <1>4, <1>5, SequenceBy
<1>7. KeysGiven(keys, data) = FlattenSeq(f)
  BY <1>2, <1>3 DEF KeysGiven
<1>8. DOMAIN f = 1 .. n
  BY <1>3
<1>9. PICK els : els = FlattenSeq(f)
  OBVIOUS
<1>10. els \in Seq(Elements) /\ \A e : e \in ToSet(els) <=> \E i \in 1 .. n : e \in ToSet(f[i])
  BY <1>6, <1>8, <1>9, FlatHas
<1>11. \A i \in 1 .. n : \A e : e \in ToSet(f[i]) <=> ElementOf(keys[i], data, e)
  BY <1>4, KeyGivenIs
<1>12. ToSet(keys) = {keys[i] : i \in 1 .. n}
  BY <1>2 DEF ToSet
<1>13. \A e : e \in ToSet(els) <=> \E k \in ToSet(keys) : ElementOf(k, data, e)
  <2>1. ASSUME NEW e, e \in ToSet(els) PROVE \E k \in ToSet(keys) : ElementOf(k, data, e)
    <3>1. PICK i \in 1 .. n : e \in ToSet(f[i])
      BY <1>10, <2>1
    <3>2. ElementOf(keys[i], data, e) /\ keys[i] \in ToSet(keys)
      BY <1>11, <1>12, <3>1
    <3>. QED
      BY <3>2
  <2>2. ASSUME NEW e, NEW k \in ToSet(keys), ElementOf(k, data, e) PROVE e \in ToSet(els)
    <3>1. PICK i \in 1 .. n : k = keys[i]
      BY <1>12
    <3>2. e \in ToSet(f[i])
      BY <1>11, <2>2, <3>1
    <3>. QED
      BY <1>10, <3>2
  <2>. QED
    BY <2>1, <2>2
<1>. QED
  BY <1>7, <1>9, <1>10, <1>13 DEF Gives

(* All is given when something is given for each key.                      *)
LEMMA AllMeans ==
  ASSUME NEW data, IsData(data), NEW S, NEW keys \in Seq(S)
  PROVE  AllGiven(keys, data) <=> \A k \in ToSet(keys) : \E e : ElementOf(k, data, e)
<1>1. \A i \in DOMAIN keys : KeyGiven(keys[i], data) # <<>> <=> \E e : ElementOf(keys[i], data, e)
  BY KeyGivenIs
<1>2. ToSet(keys) = {keys[i] : i \in DOMAIN keys}
  BY DEF ToSet
<1>3. ASSUME AllGiven(keys, data), NEW k \in ToSet(keys) PROVE \E e : ElementOf(k, data, e)
  <2>1. PICK i \in DOMAIN keys : k = keys[i]
    BY <1>2
  <2>. QED
    BY <1>1, <1>3, <2>1 DEF AllGiven
<1>4. ASSUME \A k \in ToSet(keys) : \E e : ElementOf(k, data, e) PROVE AllGiven(keys, data)
  <2>1. ASSUME NEW i \in DOMAIN keys PROVE KeyGiven(keys[i], data) # <<>>
    BY <1>1, <1>2, <1>4
  <2>. QED
    BY <2>1 DEF AllGiven
<1>. QED
  BY <1>3, <1>4

(* What two sets of keys give together.                                    *)
LEMMA GivesBoth ==
  ASSUME NEW data, NEW K, NEW L, NEW a, NEW b, Gives(a, K, data), Gives(b, L, data)
  PROVE  Gives(a \o b, K \cup L, data)
<1>1. a \in Seq(Elements) /\ b \in Seq(Elements)
  BY DEF Gives
<1>2. a \o b \in Seq(Elements) /\ \A e : e \in ToSet(a \o b) <=> e \in ToSet(a) \/ e \in ToSet(b)
  BY <1>1, JoinHas
<1>3. PICK c : c = a \o b
  OBVIOUS
<1>. QED
  BY <1>2, <1>3 DEF Gives


(* A constraint in a constraint comes from a list.                         *)
LEMMA NestedMeans ==
  ASSUME NEW data, IsData(data), NEW K, NEW els, Gives(els, K, data), Nested(els)
  PROVE  HasList(data)
<1>1. PICK i \in DOMAIN els : els[i][1] = "inner"
  BY DEF Nested
<1>2. els[i] \in ToSet(els)
  BY DEF ToSet
<1>3. PICK k \in K : ElementOf(k, data, els[i])
  BY <1>2 DEF Gives
<1>4. k \in DOMAIN data
  BY <1>3 DEF ElementOf
<1>5. k \in Columns
  BY <1>4, DataHas
<1>6. CASE data[k][1] = "list"
  BY <1>4, <1>6 DEF HasList
<1>7. CASE data[k][1] # "list"
  <2>1. els[i] = <<k, data[k][2]>>
    BY <1>3, <1>7 DEF ElementOf
  <2>. QED
    BY <1>1, <1>5, <2>1 DEF Columns
<1>. QED
  BY <1>6, <1>7

(* Without one, a key gives its value when the value can be used, and all  *)
(* that is given is the value of a key.                                    *)
Plainly(els, K, data) ==
  /\ \A k \in K : (\E e : ElementOf(k, data, e)) <=> (k \in DOMAIN data /\ Usable(data[k]))
  /\ \A k \in K : (k \in DOMAIN data /\ Usable(data[k])) => <<k, data[k][2]>> \in ToSet(els)
  /\ \A e \in ToSet(els) : /\ e[1] \in K /\ e[1] \in Columns /\ e[1] \in DOMAIN data
                           /\ Usable(data[e[1]]) /\ e[2] = data[e[1]][2] /\ e[2] \in Int

LEMMA PlainMeans ==
  ASSUME NEW data, IsData(data), NEW K, NEW els, Gives(els, K, data), ~Nested(els)
  PROVE  Plainly(els, K, data)
<1>1. ASSUME NEW e, e \in ToSet(els) PROVE e[1] # "inner"
  <2>1. PICK i \in DOMAIN els : e = els[i]
    BY <1>1 DEF ToSet
  <2>. QED
    BY <2>1 DEF Nested
<1>2. ASSUME NEW k \in K, NEW e, ElementOf(k, data, e)
      PROVE  k \in DOMAIN data /\ data[k][1] # "list" /\ Usable(data[k]) /\ e = <<k, data[k][2]>>
  <2>1. e \in ToSet(els)
    BY <1>2 DEF Gives
  <2>2. e[1] # "inner"
    BY <1>1, <2>1
  <2>3. data[k][1] # "list"
    BY <1>2, <2>2 DEF ElementOf
  <2>. QED
    BY <1>2, <2>3 DEF ElementOf
<1>3. ASSUME NEW k \in K, k \in DOMAIN data, Usable(data[k]) PROVE ElementOf(k, data, <<k, data[k][2]>>)
  <2>1. data[k][1] # "list"
    BY <1>3 DEF Usable
  <2>. QED
    BY <1>3, <2>1 DEF ElementOf
<1>4. \A k \in K : (\E e : ElementOf(k, data, e)) <=> (k \in DOMAIN data /\ Usable(data[k]))
  BY <1>2, <1>3
<1>5. \A k \in K : (k \in DOMAIN data /\ Usable(data[k])) => <<k, data[k][2]>> \in ToSet(els)
  BY <1>3 DEF Gives
<1>6. ASSUME NEW e, e \in ToSet(els)
      PROVE  /\ e[1] \in K /\ e[1] \in Columns /\ e[1] \in DOMAIN data
             /\ Usable(data[e[1]]) /\ e[2] = data[e[1]][2] /\ e[2] \in Int
  <2>1. PICK k \in K : ElementOf(k, data, e)
    BY <1>6 DEF Gives
  <2>2. k \in DOMAIN data /\ data[k][1] # "list" /\ Usable(data[k]) /\ e = <<k, data[k][2]>>
    BY <1>2, <2>1
  <2>3. k \in Columns /\ data[k][2] \in Int
    BY <2>2, DataHas
  <2>. QED
    BY <2>2, <2>3
<1>. QED
  BY <1>4, <1>5, <1>6 DEF Plainly

(* A row fits what is given when it has the values of the keys.            *)
HasValues(row, K, data) ==
  \A k \in K : (k \in DOMAIN data /\ Usable(data[k])) => row[k] = data[k][2]

LEMMA FitsMeans ==
  ASSUME NEW data, IsData(data), NEW K, NEW els, Gives(els, K, data), ~Nested(els)
  PROVE  \A row : Fits(row, els) <=> HasValues(row, K, data)
<1>1. Plainly(els, K, data)
  BY PlainMeans
<1>2. \A row : Fits(row, els) <=> \A e \in ToSet(els) : row[e[1]] = e[2]
  BY DEF Fits, ToSet
<1>3. ASSUME NEW row, \A e \in ToSet(els) : row[e[1]] = e[2] PROVE HasValues(row, K, data)
  <2>1. ASSUME NEW k \in K, k \in DOMAIN data, Usable(data[k]) PROVE row[k] = data[k][2]
    <3>1. PICK e : e = <<k, data[k][2]>>
      OBVIOUS
    <3>2. e \in ToSet(els)
      BY <1>1, <2>1, <3>1 DEF Plainly
    <3>3. row[e[1]] = e[2]
      BY <1>3, <3>2
    <3>. QED
      BY <3>1, <3>3
  <2>. QED
    BY <2>1 DEF HasValues
<1>4. ASSUME NEW row, HasValues(row, K, data), NEW e \in ToSet(els) PROVE row[e[1]] = e[2]
  BY <1>1, <1>4 DEF Plainly, HasValues
<1>. QED
  BY <1>2, <1>3, <1>4

(* All of some keys given, a row that fits is named by them.               *)
LEMMA NamedBy ==
  ASSUME NEW data, IsData(data), NEW K, NEW els, Gives(els, K, data), ~Nested(els),
         NEW S, NEW keys \in Seq(S), ToSet(keys) \subseteq K, AllGiven(keys, data)
  PROVE  /\ \A k \in ToSet(keys) : k \in DOMAIN data /\ Usable(data[k])
         /\ \A row : Fits(row, els) => NamedRow(row, keys, data)
<1>1. Plainly(els, K, data)
  BY PlainMeans
<1>2. \A k \in ToSet(keys) : \E e : ElementOf(k, data, e)
  BY AllMeans
<1>3. \A k \in ToSet(keys) : k \in DOMAIN data /\ Usable(data[k])
  BY <1>1, <1>2 DEF Plainly
<1>4. \A row : Fits(row, els) => HasValues(row, K, data)
  BY FitsMeans
<1>. QED
  BY <1>3, <1>4 DEF NamedRow, HasValues

-----------------------------------------------------------------------------
(* The invariant of the nodes.                                             *)
ObjectTyped ==
  /\ osetting \in OSettings /\ Describes(onode)
  /\ ~ocrash => NoColumn \notin ColumnsOf(onode.ids)
  /\ IsFiniteSet(otable) /\ otable \in SUBSET [Columns -> Int]
  /\ IsData(ofilter)
ObjectIInv == ObjectTyped /\ ObjectsKeep

(* The first of the sections of a kind, or none.                           *)
LEMMA FirstIs ==
  ASSUME NEW s \in Seq(STRING \X Seq(STRING)), NEW kind
  PROVE  \/ FirstOf(s, kind) = NoKeys
         \/ \E i \in DOMAIN s : s[i][1] = kind /\ FirstOf(s, kind) = s[i][2]
<1>1. PICK at : at = SelectInSeq(s, LAMBDA x : x[1] = kind)
  OBVIOUS
<1>2. FirstOf(s, kind) = IF at = 0 THEN NoKeys ELSE s[at][2]
  BY <1>1 DEF FirstOf
<1> DEFINE A == {i \in 1 .. Len(s) : s[i][1] = kind}
<1>3. at = (IF A # {} THEN Min(A) ELSE 0)
  BY <1>1 DEF SelectInSeq
<1>4. A \in SUBSET Nat
  OBVIOUS
<1>5. CASE A # {}
  <2>1. Min(A) \in A
    <3>1. \E x \in A : \A y \in A : x <= y
      <4> HIDE DEF A
      <4> QED
        BY <1>4, <1>5, SmallestIn
    <3> HIDE DEF A
    <3> QED
      BY <3>1 DEF Min
  <2>2. at \in DOMAIN s /\ at # 0 /\ s[at][1] = kind
    BY <1>3, <1>5, <2>1
  <2>. QED
    BY <1>2, <2>2
<1>6. CASE A = {}
  BY <1>2, <1>3, <1>6
<1>. QED
  BY <1>5, <1>6

(* The nodes begin as the invariant says.                                  *)
LEMMA ObjectStarts == ASSUME ObjectInit PROVE ObjectIInv
<1>1. PICK s : s = osetting.sections
  OBVIOUS
<1>2. osetting \in OSettings /\ onode = NodeRead(s) /\ otable = {} /\ ofilter = NoFilter /\ osteps = 0
      /\ ocrash = (\E i \in DOMAIN s : s[i][1] # "objects" /\ NoColumn \in ToSet(s[i][2]))
      /\ olast.op = "created" /\ olast.answer = 1
  BY <1>1 DEF ObjectInit
<1>3. s \in Seq(STRING \X Seq(STRING)) /\ Describes(NodeRead(s))
  BY <1>1, <1>2, ObjectSettings
<1>4. ASSUME ~ocrash PROVE NoColumn \notin ColumnsOf(onode.ids)
  <2>1. onode.ids = FirstOf(s, "primary_keys")
    BY <1>2 DEF NodeRead
  <2>2. CASE FirstOf(s, "primary_keys") = NoKeys
    BY <2>1, <2>2 DEF ColumnsOf
  <2>3. ASSUME NEW i \in DOMAIN s, s[i][1] = "primary_keys", FirstOf(s, "primary_keys") = s[i][2]
        PROVE  NoColumn \notin ColumnsOf(onode.ids)
    <3>1. NoColumn \notin ToSet(s[i][2])
      BY <1>2, <1>4, <2>3
    <3>. QED
      BY <2>1, <2>3, <3>1 DEF ColumnsOf
  <2>. QED
    BY <1>3, <2>2, <2>3, FirstIs
<1>5. IsFiniteSet(otable)
  BY <1>2, FS_EmptySet
<1>6. IsData(ofilter)
  BY <1>2 DEF IsData, NoFilter
<1>7. ObjectsKeep
  BY <1>2 DEF ObjectsKeep, OthersStay, InsertsMakeRows, ReadsWhatIsAsked, EndsForAReason
<1>. QED
  BY <1>2, <1>3, <1>4, <1>5, <1>6, <1>7 DEF ObjectIInv, ObjectTyped

-----------------------------------------------------------------------------
(* The highest element of a finite set of numbers.                         *)
LEMMA Highest ==
  ASSUME NEW S \in SUBSET Int, IsFiniteSet(S), S # {}
  PROVE  Max(S) \in S /\ \A y \in S : Max(S) >= y
<1> DEFINE Above(x) == {y \in S : y > x}
           A == {Above(x) : x \in S}
           R == StrictSubsetOrdering(S)
<1>1. IsWellFoundedOn(R, FiniteSubsetsOf(S))
  BY FS_StrictSubsetOrderingWellFounded
<1>2. A \subseteq FiniteSubsetsOf(S) /\ A # {}
  <2>1. ASSUME NEW x \in S PROVE Above(x) \in FiniteSubsetsOf(S)
    <3>1. Above(x) \in SUBSET S
      OBVIOUS
    <3> HIDE DEF Above
    <3> QED
      BY <3>1, FS_Subset DEF FiniteSubsetsOf
  <2> HIDE DEF Above
  <2> QED
    BY <2>1
<1>3. PICK a \in A : \A b \in A : ~(<<b, a>> \in R)
  <2> HIDE DEF A, R
  <2> QED
    BY <1>1, <1>2, WFMin
<1>4. PICK x \in S : a = Above(x)
  BY <1>3
<1>5. \A y \in S : x >= y
  <2> SUFFICES ASSUME NEW y \in S, ~(x >= y) PROVE FALSE
    OBVIOUS
  <2>1. y \in Int /\ x \in Int /\ y > x
    OBVIOUS
  <2>2. Above(y) \subseteq Above(x) /\ y \in Above(x) /\ y \notin Above(y)
    <3>1. ASSUME NEW z \in S, z > y PROVE z > x
      <4>1. z \in Int
        OBVIOUS
      <4> QED
        BY <2>1, <3>1, <4>1
    <3>2. ~(y > y)
      BY <2>1
    <3> QED
      BY <2>1, <3>1, <3>2
  <2>3. <<Above(y), a>> \in R
    BY <1>4, <2>2 DEF StrictSubsetOrdering
  <2> QED
    BY <1>3, <2>3
<1> QED
  BY <1>5 DEF Max

(* The next number of the primary key is in no row.                        *)
LEMMA NextIdIsNew ==
  ASSUME NEW T, T \in SUBSET [Columns -> Int], IsFiniteSet(T)
  PROVE  NextId(T) \in Int /\ \A r \in T : r["id"] # NextId(T)
<1> DEFINE f == [r \in T |-> r["id"]]
           A == {r["id"] : r \in T}
           B == A \cup {0}
<1>1. \A r \in T : r["id"] \in Int
  BY DEF Columns
<1>2. IsFiniteSet(A)
  <2>1. f \in Surjection(T, A)
    BY DEF Surjection
  <2>. QED
    BY <2>1, FS_Surjection
<1>3. IsFiniteSet(B) /\ B # {} /\ B \in SUBSET Int
  <2>1. B \in SUBSET Int /\ B # {}
    BY <1>1
  <2>2. IsFiniteSet(A \cup {0})
    <3> HIDE DEF A
    <3> QED
      BY <1>2, FS_AddElement
  <2>. QED
    BY <2>1, <2>2
<1>4. NextId(T) = Max(B) + 1
  BY DEF NextId
<1>5. \A r \in T : r["id"] \in B
  OBVIOUS
<1>6. Max(B) \in B /\ \A y \in B : Max(B) >= y
  <2> HIDE DEF B
  <2> QED
    BY <1>3, Highest
<1> HIDE DEF B
<1>7. PICK m \in Int : m = Max(B)
  BY <1>3, <1>6
<1>8. \A r \in T : r["id"] # m + 1
  <2>1. ASSUME NEW r \in T, r["id"] = m + 1 PROVE FALSE
    <3>1. m >= r["id"]
      BY <1>5, <1>6, <1>7
    <3>. QED
      BY <1>7, <2>1, <3>1
  <2>. QED
    BY <2>1
<1>. QED
  BY <1>4, <1>7, <1>8


-----------------------------------------------------------------------------
(* Calls.                                                                  *)
LEMMA KeysOfNode ==
  ASSUME ObjectTyped
  PROVE  onode.ids \in Seq(KeyNames) /\ onode.refs \in Seq(KeyNames) /\ onode.cols \in Seq(KeyNames)
<1>1. Seq(Columns) \subseteq Seq(KeyNames) /\ NoKeys \in Seq(KeyNames)
  BY DEF KeyNames, NoKeys
<1>. QED
  BY <1>1 DEF ObjectTyped, Describes, KeyNames

(* What is remembered of a call.                                           *)
LEMMA CallSays ==
  ASSUME NEW what, NEW filter, NEW items, NEW answer, Called(what, filter, items, answer)
  PROVE  /\ olast'.op = what /\ olast'.filter = filter /\ olast'.items = items
         /\ olast'.before = otable /\ olast'.answer = answer
         /\ osetting' = osetting /\ onode' = onode
BY DEF Called

(* A call that leaves the table, and neither reads nor inserts or ends the *)
(* process for a reason.                                                   *)
LEMMA TableLeft ==
  ASSUME ObjectIInv, ~ocrash, NEW what, NEW filter, NEW items, NEW answer,
         Called(what, filter, items, answer), otable' = otable, IsData(ofilter'),
         ocrash' \/ what \notin {"insert", "fetch"},
         ocrash' => HasList(filter) \/ \E i \in DOMAIN items : "id" \in DOMAIN items[i]
  PROVE  ObjectIInv'
<1>1. olast'.op = what /\ olast'.filter = filter /\ olast'.items = items /\ olast'.before = otable
      /\ osetting' = osetting /\ onode' = onode
  BY CallSays
<1>2. ObjectTyped'
  BY <1>1 DEF ObjectIInv, ObjectTyped
<1>3. OthersStay'
  BY <1>1 DEF OthersStay
<1>4. InsertsMakeRows'
  BY <1>1 DEF InsertsMakeRows
<1>5. ReadsWhatIsAsked'
  BY <1>1 DEF ReadsWhatIsAsked
<1>6. EndsForAReason'
  BY <1>1 DEF EndsForAReason
<1>. QED
  BY <1>2, <1>3, <1>4, <1>5, <1>6 DEF ObjectIInv, ObjectsKeep

(* The process ends on a list or on an item that names its own key.        *)
LEMMA DiesKeeps ==
  ASSUME ObjectIInv, ~ocrash, NEW what, NEW filter, NEW items, Dies(what, filter, items),
         HasList(filter) \/ \E i \in DOMAIN items : "id" \in DOMAIN items[i]
  PROVE  ObjectIInv'
<1>1. Called(what, filter, items, 0) /\ ocrash' /\ otable' = otable /\ ofilter' = ofilter
  BY DEF Dies
<1>2. IsData(ofilter')
  BY <1>1 DEF ObjectIInv, ObjectTyped
<1>. QED
  BY <1>1, <1>2, TableLeft

(* The calls that only open and close sessions.                            *)
LEMMA SizeKeeps == ASSUME ObjectIInv, ~ocrash, UpdateSize PROVE ObjectIInv'
<1>1. Called("size", NoFilter, <<>>, 1) /\ otable' = otable /\ ofilter' = ofilter /\ ocrash' = ocrash
  BY DEF UpdateSize
<1>2. IsData(ofilter')
  BY <1>1 DEF ObjectIInv, ObjectTyped
<1>. QED
  BY <1>1, <1>2, TableLeft

LEMMA CloseCursorKeeps == ASSUME ObjectIInv, ~ocrash, CloseCursor PROVE ObjectIInv'
<1>1. Called("closed", NoFilter, <<>>, 1) /\ otable' = otable /\ ofilter' = ofilter /\ ocrash' = ocrash
  BY DEF CloseCursor
<1>2. IsData(ofilter')
  BY <1>1 DEF ObjectIInv, ObjectTyped
<1>. QED
  BY <1>1, <1>2, TableLeft

LEMMA UpdateNothingKeeps ==
  ASSUME ObjectIInv, ~ocrash, NEW filter, UpdateNothing(filter)
  PROVE  ObjectIInv'
<1>1. Called("update", filter, <<>>, 0) /\ otable' = otable /\ ofilter' = ofilter /\ ocrash' = ocrash
  BY DEF UpdateNothing
<1>2. IsData(ofilter')
  BY <1>1 DEF ObjectIInv, ObjectTyped
<1>. QED
  BY <1>1, <1>2, TableLeft

(* What the reads ask for is given by some of the keys.                    *)
LEMMA ReadsAreGiven ==
  ASSUME ObjectTyped, NEW data, IsData(data)
  PROVE  /\ Gives(KeysGiven(onode.ids, data), ToSet(onode.ids), data)
         /\ Gives(KeysGiven(onode.refs, data), ToSet(onode.refs), data)
         /\ Gives(KeysGiven(onode.ids, data) \o KeysGiven(onode.refs, data),
                  ToSet(onode.ids) \cup ToSet(onode.refs), data)
         /\ Gives(KeysGiven(onode.refs, data) \o KeysGiven(onode.cols, data),
                  ToSet(onode.refs) \cup ToSet(onode.cols), data)
<1>1. /\ Gives(KeysGiven(onode.ids, data), ToSet(onode.ids), data)
      /\ Gives(KeysGiven(onode.refs, data), ToSet(onode.refs), data)
      /\ Gives(KeysGiven(onode.cols, data), ToSet(onode.cols), data)
  BY KeysOfNode, KeysMean
<1>. QED
  BY <1>1, GivesBoth

LEMMA NestedReads ==
  ASSUME ObjectTyped, NEW data, IsData(data), Nested(ReadConstraints(data))
  PROVE  HasList(data)
<1>1. \/ ReadConstraints(data) = KeysGiven(onode.ids, data)
      \/ ReadConstraints(data) = KeysGiven(onode.refs, data) \o KeysGiven(onode.cols, data)
  BY DEF ReadConstraints
<1>. QED
  BY <1>1, ReadsAreGiven, NestedMeans

(* The cursor.                                                             *)
LEMMA OpenCursorKeeps ==
  ASSUME ObjectIInv, ~ocrash, NEW filter, IsData(filter), OpenCursor(filter)
  PROVE  ObjectIInv'
<1>1. CASE osetting.source /\ Nested(ReadConstraints(filter))
  <2>1. HasList(filter)
    BY <1>1, NestedReads DEF ObjectIInv
  <2>2. Dies("cursor", filter, <<>>)
    BY <1>1 DEF OpenCursor
  <2>. QED
    BY <2>1, <2>2, DiesKeeps
<1>2. CASE ~(osetting.source /\ Nested(ReadConstraints(filter)))
  <2>1. PICK answer : Called("cursor", filter, <<>>, answer)
    BY <1>2 DEF OpenCursor
  <2>2. otable' = otable /\ ofilter' = ofilter /\ ocrash' = ocrash
    BY <1>2 DEF OpenCursor
  <2>3. IsData(ofilter')
    BY <2>2 DEF ObjectIInv, ObjectTyped
  <2>. QED
    BY <2>1, <2>2, <2>3, TableLeft
<1>. QED
  BY <1>1, <1>2

(* What is asked for.                                                      *)
ByPrimary(data) == \E c \in ColumnsOf(onode.ids) : c \in DOMAIN data /\ Usable(data[c])
AskedFor(row, data) ==
  IF ByPrimary(data) THEN Sought(row, onode.ids, data)
  ELSE Sought(row, onode.refs, data) /\ Sought(row, onode.cols, data)

LEMMA SoughtIs ==
  ASSUME NEW data, IsData(data), NEW keys
  PROVE  /\ \A row : Sought(row, keys, data) <=> HasValues(row, ToSet(keys), data)
         /\ \A c \in DOMAIN data : c \in ToSet(keys) <=> c \in ColumnsOf(keys)
<1>1. \A c \in DOMAIN data : c # NoColumn
  BY DEF IsData, Columns, NoColumn
<1>2. keys = NoKeys => \A c \in ToSet(keys) : c = NoColumn
  <2>1. <<NoColumn>> \in Seq({NoColumn}) /\ \A e : e \in ToSet(<<NoColumn>>) <=> e = NoColumn
    BY ShortHas
  <2>. QED
    BY <2>1 DEF NoKeys
<1>3. \A c \in DOMAIN data : c \in ToSet(keys) <=> c \in ColumnsOf(keys)
  BY <1>1, <1>2 DEF ColumnsOf
<1>. QED
  BY <1>3 DEF Sought, HasValues

LEMMA ReadsWhat ==
  ASSUME ObjectTyped, NEW data, IsData(data), ~Nested(ReadConstraints(data))
  PROVE  \A row : Fits(row, ReadConstraints(data)) <=> AskedFor(row, data)
<1>1. PICK a : a = KeysGiven(onode.ids, data)
  OBVIOUS
<1>2. Gives(a, ToSet(onode.ids), data)
  BY <1>1, ReadsAreGiven
<1>3. CASE a # <<>>
  <2>1. ReadConstraints(data) = a
    BY <1>1, <1>3 DEF ReadConstraints
  <2>2. Plainly(a, ToSet(onode.ids), data)
    BY <1>2, <2>1, PlainMeans
  <2>3. ByPrimary(data)
    <3>1. a \in Seq(Elements)
      BY <1>2 DEF Gives
    <3>2. PICK e : e \in ToSet(a)
      <4>1. Len(a) # 0 /\ Len(a) \in Nat
        BY <1>3, <3>1, SeqEmpty
      <4>2. 1 \in DOMAIN a
        BY <3>1, <4>1
      <4>. QED
        BY <4>2 DEF ToSet
    <3>3. e[1] \in ToSet(onode.ids) /\ e[1] \in DOMAIN data /\ Usable(data[e[1]])
      BY <2>2, <3>2 DEF Plainly
    <3>. QED
      BY <3>3, SoughtIs DEF ByPrimary
  <2>. QED
    BY <1>2, <2>1, <2>3, FitsMeans, SoughtIs DEF AskedFor
<1>4. CASE a = <<>>
  <2>1. ReadConstraints(data) = KeysGiven(onode.refs, data) \o KeysGiven(onode.cols, data)
    BY <1>1, <1>4 DEF ReadConstraints
  <2>2. PICK els : els = ReadConstraints(data)
    OBVIOUS
  <2>3. Gives(els, ToSet(onode.refs) \cup ToSet(onode.cols), data) /\ ~Nested(els)
    BY <2>1, <2>2, ReadsAreGiven
  <2>4. ~ByPrimary(data)
    <3>1. ASSUME NEW c \in ColumnsOf(onode.ids), c \in DOMAIN data, Usable(data[c]) PROVE FALSE
      <4>1. ~Nested(a)
        BY <1>4 DEF Nested
      <4>2. c \in ToSet(onode.ids)
        BY <3>1, SoughtIs
      <4>3. <<c, data[c][2]>> \in ToSet(a)
        BY <1>2, <3>1, <4>1, <4>2, PlainMeans DEF Plainly
      <4>. QED
        BY <1>4, <4>3, ShortHas
    <3>. QED
      BY <3>1 DEF ByPrimary
  <2>5. \A row : Fits(row, els) <=> HasValues(row, ToSet(onode.refs) \cup ToSet(onode.cols), data)
    BY <2>3, FitsMeans
  <2>6. \A row : HasValues(row, ToSet(onode.refs) \cup ToSet(onode.cols), data)
                 <=> HasValues(row, ToSet(onode.refs), data) /\ HasValues(row, ToSet(onode.cols), data)
    BY DEF HasValues
  <2>. QED
    BY <2>2, <2>4, <2>5, <2>6, SoughtIs DEF AskedFor
<1>. QED
  BY <1>3, <1>4

(* A fetch.                                                                *)
LEMMA FetchKeeps ==
  ASSUME ObjectIInv, ~ocrash, NEW filter, IsData(filter), Fetch(filter)
  PROVE  ObjectIInv'
<1>1. CASE osetting.source /\ Nested(ReadConstraints(filter))
  <2>1. HasList(filter)
    BY <1>1, NestedReads DEF ObjectIInv
  <2>2. Dies("fetch", filter, <<>>)
    BY <1>1 DEF Fetch
  <2>. QED
    BY <2>1, <2>2, DiesKeeps
<1>2. CASE ~(osetting.source /\ Nested(ReadConstraints(filter)))
  <2>1. PICK answer : Called("fetch", filter, <<>>, answer)
    BY <1>2 DEF Fetch
  <2>2. otable' = otable /\ ofilter' = ofilter /\ ocrash' = ocrash /\ orows' = Fetched(filter)
    BY <1>2 DEF Fetch
  <2>3. olast'.op = "fetch" /\ olast'.filter = filter /\ olast'.before = otable
        /\ osetting' = osetting /\ onode' = onode
    BY <2>1, CallSays
  <2>4. ObjectTyped'
    BY <2>2, <2>3 DEF ObjectIInv, ObjectTyped
  <2>5. OthersStay' /\ InsertsMakeRows' /\ EndsForAReason'
    BY <2>2, <2>3 DEF OthersStay, InsertsMakeRows, EndsForAReason
  <2>6. ASSUME osetting.source, osetting.exists
        PROVE  /\ \A seen \in orows' : \E row \in otable :
                    AskedFor(row, filter) /\ \A c \in DOMAIN seen : seen[c] = row[c]
               /\ \A row \in otable : AskedFor(row, filter) =>
                    \E seen \in orows' : \A c \in DOMAIN seen : seen[c] = row[c]
    <3>1. PICK els : els = ReadConstraints(filter)
      OBVIOUS
    <3>2. PICK cols : cols = ReadColumns(filter)
      OBVIOUS
    <3>3. orows' = {Seen(row, cols) : row \in Selected(els)}
      BY <2>2, <2>6, <3>1, <3>2 DEF Fetched
    <3>4. \A row : Fits(row, els) <=> AskedFor(row, filter)
      BY <1>2, <2>6, <3>1, ReadsWhat DEF ObjectIInv
    <3>5. \A row : \A c \in DOMAIN Seen(row, cols) : Seen(row, cols)[c] = row[c]
      BY DEF Seen
    <3>. QED
      BY <3>3, <3>4, <3>5 DEF Selected
  <2>7. ReadsWhatIsAsked'
    BY <2>2, <2>3, <2>6 DEF ReadsWhatIsAsked, AskedFor, ByPrimary, Sought
  <2>. QED
    BY <2>4, <2>5, <2>7 DEF ObjectIInv, ObjectsKeep
<1>. QED
  BY <1>1, <1>2


-----------------------------------------------------------------------------
(* Updates and deletes.  The rows that go are named by the filter.         *)
LEMMA RowsGo ==
  ASSUME ObjectIInv, ~ocrash, NEW what, NEW filter, NEW items, NEW answer,
         Called(what, filter, items, answer), what \in {"update", "delete"},
         otable' \in SUBSET [Columns -> Int], IsFiniteSet(otable'), IsData(ofilter'), ~ocrash',
         answer = 0 => otable' = otable,
         \A row \in otable \ otable' :
           NamedRow(row, onode.ids, filter) \/ NamedRow(row, onode.refs, filter)
  PROVE  ObjectIInv'
<1>1. olast'.op = what /\ olast'.filter = filter /\ olast'.before = otable /\ olast'.answer = answer
      /\ osetting' = osetting /\ onode' = onode
  BY CallSays
<1>2. ObjectTyped'
  BY <1>1 DEF ObjectIInv, ObjectTyped
<1>3. OthersStay'
  <2>1. ASSUME NEW row \in otable \ otable' PROVE row \in Touched(filter)'
    BY <1>1, <2>1 DEF Touched, NamedRow
  <2>2. (olast.before \ Touched(olast.filter) \subseteq otable)'
    BY <1>1, <2>1
  <2>3. what # "insert" /\ what # "fetch" /\ what # "cursor" /\ what # "closed" /\ what # "size"
    OBVIOUS
  <2>. QED
    BY <1>1, <2>2, <2>3 DEF OthersStay
<1>4. InsertsMakeRows'
  BY <1>1 DEF InsertsMakeRows
<1>5. ReadsWhatIsAsked'
  BY <1>1 DEF ReadsWhatIsAsked
<1>6. EndsForAReason'
  BY <1>1 DEF EndsForAReason
<1>. QED
  BY <1>2, <1>3, <1>4, <1>5, <1>6 DEF ObjectIInv, ObjectsKeep

(* A delete.                                                               *)
LEMMA DeleteKeeps ==
  ASSUME ObjectIInv, ~ocrash, NEW filter, IsData(filter), Delete(filter)
  PROVE  ObjectIInv'
<1>0. ObjectTyped /\ onode.ids \in Seq(KeyNames) /\ onode.refs \in Seq(KeyNames)
  BY KeysOfNode DEF ObjectIInv
<1> DEFINE byPrimary == onode.ids # NoKeys /\ AllGiven(onode.ids, filter)
           byForeign == onode.refs # NoKeys /\ AllGiven(onode.refs, filter)
           elements == IF byPrimary THEN KeysGiven(onode.ids, filter)
                       ELSE KeysGiven(onode.ids, filter) \o KeysGiven(onode.refs, filter)
           K == IF byPrimary THEN ToSet(onode.ids) ELSE ToSet(onode.ids) \cup ToSet(onode.refs)
           runs == osetting.source /\ (byPrimary \/ byForeign)
           hit == IF runs /\ osetting.exists THEN Selected(elements) ELSE {}
           answer == IF runs /\ ~osetting.exists THEN -1 ELSE Cardinality(hit)
<1>1. \/ osetting.source /\ Nested(elements) /\ Dies("delete", filter, <<>>)
      \/ /\ ~(osetting.source /\ Nested(elements))
         /\ Called("delete", filter, <<>>, answer) /\ otable' = otable \ hit
         /\ ofilter' = ofilter /\ ocrash' = ocrash
  BY DEF Delete
<1>2. Gives(elements, K, filter)
  BY <1>0, ReadsAreGiven
<1>3. ASSUME ~Nested(elements), NEW row, Fits(row, elements), byPrimary \/ byForeign
      PROVE  NamedRow(row, onode.ids, filter) \/ NamedRow(row, onode.refs, filter)
  <2>1. CASE byPrimary
    <3>1. ToSet(onode.ids) \subseteq K /\ AllGiven(onode.ids, filter)
      BY <2>1
    <3> HIDE DEF elements, K
    <3> QED
      BY <1>0, <1>2, <1>3, <3>1, NamedBy
  <2>2. CASE ~byPrimary /\ byForeign
    <3>1. ToSet(onode.refs) \subseteq K /\ AllGiven(onode.refs, filter)
      BY <2>2
    <3> HIDE DEF elements, K
    <3> QED
      BY <1>0, <1>2, <1>3, <3>1, NamedBy
  <2>. QED
    BY <1>3, <2>1, <2>2
<1>4. ASSUME Nested(elements) PROVE HasList(filter)
  <2> HIDE DEF elements, K
  <2> QED
    BY <1>2, <1>4, NestedMeans
<1>5. CASE osetting.source /\ Nested(elements) /\ Dies("delete", filter, <<>>)
  BY <1>4, <1>5, DiesKeeps
<1>6. CASE /\ ~(osetting.source /\ Nested(elements))
           /\ Called("delete", filter, <<>>, answer) /\ otable' = otable \ hit
           /\ ofilter' = ofilter /\ ocrash' = ocrash
  <2>1. ASSUME NEW row \in hit
        PROVE  NamedRow(row, onode.ids, filter) \/ NamedRow(row, onode.refs, filter)
    <3>1. ~Nested(elements) /\ (byPrimary \/ byForeign) /\ row \in Selected(elements)
      BY <1>6, <2>1
    <3>2. Fits(row, elements)
      BY <3>1 DEF Selected
    <3> HIDE DEF elements, byPrimary, byForeign
    <3> QED
      BY <1>3, <3>1, <3>2
  <2>2. hit \in SUBSET otable
    BY DEF Selected
  <2>3. IsFiniteSet(hit) /\ (Cardinality(hit) = 0 <=> hit = {})
        /\ IsFiniteSet(otable') /\ otable' \in SUBSET [Columns -> Int] /\ IsData(ofilter')
    <3> HIDE DEF hit
    <3>1. IsFiniteSet(otable) /\ otable \in SUBSET [Columns -> Int] /\ IsData(ofilter)
      BY <1>0 DEF ObjectTyped
    <3>2. IsFiniteSet(hit) /\ IsFiniteSet(otable \ hit)
      BY <2>2, <3>1, FS_Subset
    <3> QED
      BY <1>6, <3>1, <3>2, FS_EmptySet
  <2>4. answer = 0 => otable' = otable
    <3>1. answer = 0 => hit = {}
      BY <2>3
    <3> HIDE DEF hit, answer
    <3> QED
      BY <1>6, <3>1
  <2>5. \A row \in otable \ otable' :
           NamedRow(row, onode.ids, filter) \/ NamedRow(row, onode.refs, filter)
    <3> HIDE DEF hit
    <3> QED
      BY <1>6, <2>1
  <2>6. PICK a : a = answer
    OBVIOUS
  <2> HIDE DEF hit, answer, elements
  <2> QED
    BY <1>6, <2>3, <2>4, <2>5, <2>6, RowsGo
<1>. QED
  BY <1>1, <1>5, <1>6

(* The cells of an item are numbers in columns that are not keys.          *)
LEMMA ItemCellsAre ==
  ASSUME ObjectTyped, NEW item, IsData(item)
  PROVE  \A c \in DOMAIN ItemCells(item) :
           c \in ColumnsOf(onode.cols) /\ c \in Columns /\ ItemCells(item)[c] \in Int
<1>1. ASSUME NEW c \in ColumnsOf(onode.cols), c \in DOMAIN item PROVE c \in Columns /\ Cell(item[c]) \in Int
  BY <1>1, DataHas DEF Cell, ListCell
<1>. QED
  BY <1>1 DEF ItemCells

(* The cells of a constraint are what is given for the keys.               *)
LEMMA ElementCellsAre ==
  ASSUME NEW data, IsData(data), NEW K, NEW els, Gives(els, K, data), ~Nested(els)
  PROVE  /\ \A c \in DOMAIN ElementCells(els) :
              c \in K /\ c \in Columns /\ ElementCells(els)[c] = data[c][2] /\ ElementCells(els)[c] \in Int
         /\ \A k \in K : k \in DOMAIN data /\ Usable(data[k]) => k \in DOMAIN ElementCells(els)
<1>1. Plainly(els, K, data)
  BY PlainMeans
<1>2. DOMAIN ElementCells(els) = {e[1] : e \in ToSet(els)}
  BY DEF ElementCells
<1>3. ASSUME NEW c \in DOMAIN ElementCells(els)
      PROVE  c \in K /\ c \in Columns /\ ElementCells(els)[c] = data[c][2] /\ ElementCells(els)[c] \in Int
  <2> DEFINE I == {i \in 1 .. Len(els) : els[i][1] = c}
  <2>1. els \in Seq(Elements) /\ DOMAIN els = 1 .. Len(els) /\ Len(els) \in Nat
    BY DEF Gives
  <2>2. ElementCells(els)[c] = els[SelectLastInSeq(els, LAMBDA e : e[1] = c)][2]
    BY <1>2, <1>3 DEF ElementCells
  <2>3. SelectLastInSeq(els, LAMBDA e : e[1] = c) = (IF I # {} THEN Max(I) ELSE 0)
    BY DEF SelectLastInSeq
  <2>4. PICK e \in ToSet(els) : e[1] = c
    BY <1>2
  <2>5. PICK j \in 1 .. Len(els) : e = els[j]
    BY <2>1 DEF ToSet
  <2>6. I # {}
    BY <2>4, <2>5
  <2>7. I \in SUBSET Int /\ IsFiniteSet(I)
    <3>1. I \in SUBSET (1 .. Len(els)) /\ I \in SUBSET Int
      OBVIOUS
    <3>2. PICK n : n = Len(els)
      OBVIOUS
    <3>3. IsFiniteSet(1 .. n)
      <4>1. n \in Nat /\ 1 \in Int
        BY <2>1, <3>2
      <4>. QED
        BY <4>1, FS_Interval
    <3> HIDE DEF I
    <3> QED
      BY <3>1, <3>2, <3>3, FS_Subset
  <2>8. Max(I) \in I
    <3> HIDE DEF I
    <3> QED
      BY <2>6, <2>7, Highest
  <2>9. PICK m : m = Max(I)
    OBVIOUS
  <2>10. m \in 1 .. Len(els) /\ els[m][1] = c /\ ElementCells(els)[c] = els[m][2]
    BY <2>2, <2>3, <2>6, <2>8, <2>9
  <2>11. els[m] \in ToSet(els)
    BY <2>1, <2>10 DEF ToSet
  <2>. QED
    BY <1>1, <2>10, <2>11 DEF Plainly
<1>4. ASSUME NEW k \in K, k \in DOMAIN data, Usable(data[k]) PROVE k \in DOMAIN ElementCells(els)
  <2>1. PICK e : e = <<k, data[k][2]>>
    OBVIOUS
  <2>2. e \in ToSet(els) /\ e[1] = k
    BY <1>1, <1>4, <2>1 DEF Plainly
  <2>. QED
    BY <1>2, <2>2
<1>. QED
  BY <1>3, <1>4


(* Numbers and numbers are numbers.                                        *)
LEMMA FilledNumbers ==
  ASSUME NEW f, NEW g, \A c \in DOMAIN f : f[c] \in Int, \A c \in DOMAIN g : g[c] \in Int
  PROVE  \A c \in DOMAIN Filled(f, g) : Filled(f, g)[c] \in Int
BY DEF Filled

(* A row that is written has a number in each column.                      *)
LEMMA WrittenIs ==
  ASSUME NEW T, T \in SUBSET [Columns -> Int], IsFiniteSet(T), NEW attrs,
         \A c \in DOMAIN attrs : attrs[c] \in Int
  PROVE  /\ Written1(T, attrs) \in [Columns -> Int]
         /\ \A c \in Columns \cap DOMAIN attrs : Written1(T, attrs)[c] = attrs[c]
         /\ "id" \notin DOMAIN attrs => Written1(T, attrs)["id"] = NextId(T)
<1>1. NextId(T) \in Int
  BY NextIdIsNew
<1>2. NullCell \in Int /\ "id" \in Columns
  BY DEF NullCell, Columns
<1>. QED
  BY <1>1, <1>2 DEF Written1

(* What the update of a row leaves.                                        *)
LEMMA UpsertTables ==
  ASSUME ObjectTyped, NEW elements, NEW cells,
         \A c \in DOMAIN cells : c \in Columns /\ cells[c] \in Int,
         \A c \in DOMAIN ElementCells(elements) : ElementCells(elements)[c] \in Int,
         NEW done, done = Upsert(elements, cells)
  PROVE  /\ done.table \in SUBSET [Columns -> Int] /\ IsFiniteSet(done.table)
         /\ \A row \in otable \ done.table : Fits(row, elements)
<1> DEFINE row == Written1(otable, Filled(ElementCells(elements), cells))
           hit == Selected(elements)
           made == {Filled(cells, r) : r \in hit}
<1>1. IsFiniteSet(otable) /\ otable \in SUBSET [Columns -> Int]
  BY DEF ObjectTyped
<1>2. row \in [Columns -> Int]
  <2>1. PICK attrs : attrs = Filled(ElementCells(elements), cells)
    OBVIOUS
  <2>2. \A c \in DOMAIN attrs : attrs[c] \in Int
    BY <2>1, FilledNumbers
  <2>. QED
    BY <1>1, <2>1, <2>2, WrittenIs
<1>3. hit \in SUBSET otable /\ \A r \in hit : Fits(r, elements)
  BY DEF Selected
<1>4. IsFiniteSet(hit) /\ IsFiniteSet(otable \ hit)
  <2> HIDE DEF hit
  <2> QED
    BY <1>1, <1>3, FS_Subset
<1>5. made \in SUBSET [Columns -> Int]
  <2>1. ASSUME NEW r \in [Columns -> Int] PROVE Filled(cells, r) \in [Columns -> Int]
    <3>1. DOMAIN cells \cup DOMAIN r = Columns
      OBVIOUS
    <3>2. Filled(cells, r) = [c \in Columns |-> IF c \in DOMAIN cells THEN cells[c] ELSE r[c]]
      BY <3>1 DEF Filled
    <3>. QED
      BY <3>2
  <2> HIDE DEF hit
  <2> QED
    BY <1>1, <1>3, <2>1
<1>6. IsFiniteSet(made)
  <2> DEFINE f == [r \in hit |-> Filled(cells, r)]
  <2> HIDE DEF hit
  <2>1. f \in Surjection(hit, made)
    BY DEF Surjection
  <2>. QED
    BY <1>4, <2>1, FS_Surjection
<1>7. \/ done.table = otable
      \/ done.table = otable \cup {row}
      \/ done.table = (otable \ hit) \cup made
  BY DEF Upsert
<1>8. CASE done.table = otable
  BY <1>1, <1>8
<1>9. CASE done.table = otable \cup {row}
  <2>1. IsFiniteSet(otable \cup {row})
    <3> HIDE DEF row
    <3> QED
      BY <1>1, FS_AddElement
  <2> HIDE DEF row
  <2> QED
    BY <1>1, <1>2, <1>9, <2>1
<1>10. CASE done.table = (otable \ hit) \cup made
  <2>1. IsFiniteSet((otable \ hit) \cup made)
    <3> HIDE DEF hit, made
    <3> QED
      BY <1>4, <1>6, FS_Union
  <2> HIDE DEF hit, made
  <2> QED
    BY <1>1, <1>3, <1>5, <1>10, <2>1
<1>. QED
  BY <1>7, <1>8, <1>9, <1>10

(* The update of the rows that the filter names by their primary key.      *)
LEMMA UpdateFirstKeeps ==
  ASSUME ObjectIInv, ~ocrash, NEW filter, IsData(filter), NEW items,
         \A i \in DOMAIN items : IsData(items[i]), items # <<>> => 1 \in DOMAIN items,
         onode.ids # NoKeys, AllGiven(onode.ids, filter),
         UpdateFirst(filter, items, KeysGiven(onode.ids, filter) \o KeysGiven(onode.refs, filter))
  PROVE  ObjectIInv'
<1>1. PICK els : els = KeysGiven(onode.ids, filter) \o KeysGiven(onode.refs, filter)
  OBVIOUS
<1>2. PICK K : K = ToSet(onode.ids) \cup ToSet(onode.refs)
  OBVIOUS
<1>3. ObjectTyped /\ onode.ids \in Seq(KeyNames) /\ Gives(els, K, filter) /\ UpdateFirst(filter, items, els)
  BY <1>1, <1>2, KeysOfNode, ReadsAreGiven DEF ObjectIInv
<1>4. CASE Nested(els)
  <2>1. Dies("update", filter, items) /\ HasList(filter)
    BY <1>3, <1>4, NestedMeans DEF UpdateFirst
  <2>. QED
    BY <2>1, DiesKeeps
<1>5. CASE ~Nested(els)
  <2> DEFINE cells == ItemCells(items[1])
             done == IF onode.cols = NoKeys \/ items = <<>> THEN [answer |-> 0, table |-> otable]
                     ELSE IF cells = <<>> THEN [answer |-> 1, table |-> otable]
                     ELSE Upsert(els, cells)
  <2>1. Called("update", filter, items, done.answer)
        /\ otable' = (IF done.answer = 0 THEN otable ELSE done.table)
        /\ ofilter' = filter /\ ocrash' = ocrash
    BY <1>3, <1>5 DEF UpdateFirst
  <2>2. \/ done.table = otable
        \/ items # <<>> /\ done = Upsert(els, cells)
    OBVIOUS
  <2>3. /\ otable \in SUBSET [Columns -> Int] /\ IsFiniteSet(otable)
    BY <1>3 DEF ObjectTyped
  <2>4. /\ done.table \in SUBSET [Columns -> Int] /\ IsFiniteSet(done.table)
        /\ \A row \in otable \ done.table : Fits(row, els)
    <3>1. CASE done.table = otable
      BY <2>3, <3>1
    <3>2. CASE items # <<>> /\ done = Upsert(els, cells)
      <4>1. PICK c0 : c0 = cells
        OBVIOUS
      <4>2. \A c \in DOMAIN c0 : c \in Columns /\ c0[c] \in Int
        BY <1>3, <3>2, <4>1, ItemCellsAre
      <4>3. \A c \in DOMAIN ElementCells(els) : ElementCells(els)[c] \in Int
        BY <1>3, <1>5, ElementCellsAre
      <4>4. done = Upsert(els, c0)
        BY <3>2, <4>1
      <4> HIDE DEF done, cells
      <4> QED
        BY <1>3, <4>2, <4>3, <4>4, UpsertTables
    <3>. QED
      BY <2>2, <3>1, <3>2
  <2>5. PICK answer : answer = done.answer
    OBVIOUS
  <2>6. PICK T : T = done.table
    OBVIOUS
  <2> HIDE DEF done
  <2>7. \A row \in otable \ otable' : Fits(row, els)
    BY <2>1, <2>4
  <2>8. \A row : Fits(row, els) => NamedRow(row, onode.ids, filter)
    <3>1. ToSet(onode.ids) \subseteq K
      BY <1>2
    <3>. QED
      BY <1>3, <1>5, <3>1, NamedBy
  <2>9. otable' \in SUBSET [Columns -> Int] /\ IsFiniteSet(otable') /\ IsData(ofilter')
        /\ (answer = 0 => otable' = otable)
    BY <2>1, <2>3, <2>4, <2>5
  <2>10. Called("update", filter, items, answer) /\ ~ocrash'
    BY <2>1, <2>5
  <2>. QED
    BY <2>7, <2>8, <2>9, <2>10, RowsGo
<1>. QED
  BY <1>4, <1>5


-----------------------------------------------------------------------------
(* Inserts.  The cells of a constraint are those of keys.                  *)
CellsOfKeys(els) ==
  \A c \in DOMAIN ElementCells(els) :
    /\ c \in Columns /\ ElementCells(els)[c] \in Int
    /\ c \in ColumnsOf(onode.ids) \cup ColumnsOf(onode.refs)

(* The rows that one more item makes of a table.                           *)
OneMoreRow(els, T, before, after) ==
  \E row \in [Columns -> Int] :
    /\ row \notin T /\ after.table = T \cup {row}
    /\ \A c \in DOMAIN ElementCells(els) : c \notin ColumnsOf(onode.ids) => row[c] = ElementCells(els)[c]
    /\ "id" \notin DOMAIN before => NamedRow(row, onode.ids, after.filter)

LEMMA ItemInserted ==
  ASSUME ObjectTyped, ~ocrash, NEW els, CellsOfKeys(els), NEW state, NEW item, IsData(item),
         state.table \in SUBSET [Columns -> Int], IsFiniteSet(state.table), IsData(state.filter),
         NEW after, after = InsertItem(els, state, item)
  PROVE  /\ after.table \in SUBSET [Columns -> Int] /\ IsFiniteSet(after.table)
         /\ IsData(after.filter) /\ after.answer \in {-1, 1} /\ state.table \subseteq after.table
         /\ (osetting.exists /\ onode.ids # NoKeys) =>
               OneMoreRow(els, state.table, state.filter, after)
<1>1. PICK T : T = state.table
  OBVIOUS
<1>2. PICK number : number = IF osetting.exists THEN NextId(state.table) ELSE 1
  OBVIOUS
<1>3. T \in SUBSET [Columns -> Int] /\ IsFiniteSet(T) /\ number \in Int /\ NextId(T) \in Int
      /\ (osetting.exists => number = NextId(T)) /\ \A r \in T : r["id"] # NextId(T)
  BY <1>1, <1>2, NextIdIsNew
<1>4. PICK ids : ids = [c \in ColumnsOf(onode.ids) |-> number]
  OBVIOUS
<1>5. PICK own : own = ItemCells(item)
  OBVIOUS
<1>6. PICK cells : cells = Filled(own, ids)
  OBVIOUS
<1>7. PICK attrs : attrs = Filled(cells, ElementCells(els))
  OBVIOUS
<1>8. PICK row : row = Written1(T, attrs)
  OBVIOUS
<1>9. PICK done : done = InsertRow(T, attrs)
  OBVIOUS
<1>10. /\ after.table = done.table /\ after.answer = done.answer
       /\ after.filter = Filled(state.filter, [c \in ColumnsOf(onode.ids) |-> <<"number", number>>])
  BY <1>1, <1>2, <1>4, <1>5, <1>6, <1>7, <1>9 DEF InsertItem
<1>11. /\ \A c \in DOMAIN own : c \in ColumnsOf(onode.cols) /\ c \in Columns /\ own[c] \in Int
       /\ \A c \in DOMAIN ids : ids[c] \in Int
       /\ \A c \in DOMAIN ElementCells(els) : ElementCells(els)[c] \in Int
  BY <1>3, <1>4, <1>5, ItemCellsAre DEF CellsOfKeys
<1>12. \A c \in DOMAIN attrs : attrs[c] \in Int
  <2>1. \A c \in DOMAIN cells : cells[c] \in Int
    BY <1>6, <1>11, FilledNumbers
  <2>. QED
    BY <1>7, <1>11, <2>1, FilledNumbers
<1>13. /\ row \in [Columns -> Int]
       /\ \A c \in Columns \cap DOMAIN attrs : row[c] = attrs[c]
       /\ "id" \notin DOMAIN attrs => row["id"] = NextId(T)
  BY <1>3, <1>8, <1>12, WrittenIs
<1>14. \/ done = [answer |-> -1, table |-> T] /\ (~osetting.exists \/ \E r \in T : r["id"] = row["id"])
       \/ done = [answer |-> 1, table |-> T \cup {row}] /\ \A r \in T : r["id"] # row["id"]
  BY <1>8, <1>9 DEF InsertRow
<1>15. /\ after.table \in SUBSET [Columns -> Int] /\ IsFiniteSet(after.table)
       /\ after.answer \in {-1, 1} /\ state.table \subseteq after.table
  <2>1. IsFiniteSet(T \cup {row})
    BY <1>3, FS_AddElement
  <2>2. (done.table = T \/ done.table = T \cup {row}) /\ done.answer \in {-1, 1}
    BY <1>14
  <2>3. done.table \in SUBSET [Columns -> Int] /\ IsFiniteSet(done.table) /\ T \subseteq done.table
    BY <1>3, <1>13, <2>1, <2>2
  <2>. QED
    BY <1>1, <1>10, <2>2, <2>3
<1>16. onode.ids \in Seq(KeyNames) /\ NoColumn \notin ColumnsOf(onode.ids)
       /\ ColumnsOf(onode.ids) \subseteq {"id"} /\ "id" \in Columns
  <2>1. ColumnsOf(onode.ids) \subseteq {"id", NoColumn} /\ NoColumn \notin ColumnsOf(onode.ids)
    BY DEF ObjectTyped, Describes
  <2>. QED
    BY <2>1, KeysOfNode DEF Columns
<1>17. IsData(after.filter)
  <2>1. <<"number", number>> \in Values
    BY <1>3 DEF Values
  <2>2. PICK more : more = [c \in ColumnsOf(onode.ids) |-> <<"number", number>>]
    OBVIOUS
  <2>3. \A c \in DOMAIN more : c \in Columns /\ more[c] \in Values
    BY <1>16, <2>1, <2>2
  <2>4. after.filter = Filled(state.filter, more)
    BY <1>10, <2>2
  <2>. QED
    BY <2>3, <2>4 DEF IsData, Filled
<1>18. ASSUME osetting.exists, onode.ids # NoKeys
       PROVE  OneMoreRow(els, state.table, state.filter, after)
  <2>1. ColumnsOf(onode.ids) = ToSet(onode.ids) /\ "id" \notin ColumnsOf(onode.refs)
        /\ "id" \notin ColumnsOf(onode.cols) /\ ColumnsOf(onode.refs) \cap ColumnsOf(onode.cols) = {}
    BY <1>18 DEF ColumnsOf, ObjectTyped, Describes
  <2>2. DOMAIN ids = ColumnsOf(onode.ids)
    BY <1>4
  <2>3. row["id"] = NextId(T)
    <3>1. CASE "id" \in ColumnsOf(onode.ids)
      <4>1. "id" \notin DOMAIN own
        BY <1>11, <2>1
      <4>2. "id" \in DOMAIN cells /\ cells["id"] = number
        BY <1>4, <1>6, <2>2, <3>1, <4>1 DEF Filled
      <4>3. "id" \in DOMAIN attrs /\ attrs["id"] = number
        BY <1>7, <4>2 DEF Filled
      <4>. QED
        BY <1>3, <1>13, <1>16, <1>18, <4>3
    <3>2. CASE "id" \notin ColumnsOf(onode.ids)
      <4>1. "id" \notin DOMAIN own /\ "id" \notin DOMAIN ids
        BY <1>11, <2>1, <2>2, <3>2
      <4>2. "id" \notin DOMAIN cells
        BY <1>6, <4>1 DEF Filled
      <4>3. "id" \notin DOMAIN ElementCells(els)
        BY <2>1, <3>2 DEF CellsOfKeys
      <4>4. "id" \notin DOMAIN attrs
        BY <1>7, <4>2, <4>3 DEF Filled
      <4>. QED
        BY <1>13, <4>4
    <3>. QED
      BY <3>1, <3>2
  <2>4. row \notin T /\ after.table = T \cup {row}
    BY <1>3, <1>10, <1>14, <1>18, <2>3
  <2>5. ASSUME NEW c \in DOMAIN ElementCells(els), c \notin ColumnsOf(onode.ids)
        PROVE  row[c] = ElementCells(els)[c]
    <3>1. c \in Columns /\ c \in ColumnsOf(onode.refs)
      BY <2>5 DEF CellsOfKeys
    <3>2. c \notin DOMAIN cells
      <4>1. c \notin DOMAIN own /\ c \notin DOMAIN ids
        BY <1>11, <2>1, <2>2, <2>5, <3>1
      <4>. QED
        BY <1>6, <4>1 DEF Filled
    <3>3. c \in DOMAIN attrs /\ attrs[c] = ElementCells(els)[c]
      BY <1>7, <2>5, <3>2 DEF Filled
    <3>. QED
      BY <1>13, <3>1, <3>3
  <2>6. ASSUME "id" \notin DOMAIN state.filter PROVE NamedRow(row, onode.ids, after.filter)
    <3>1. ASSUME NEW c \in ToSet(onode.ids)
          PROVE  c \in DOMAIN after.filter /\ Usable(after.filter[c]) /\ row[c] = after.filter[c][2]
      <4>1. c = "id" /\ c \in ColumnsOf(onode.ids)
        BY <1>16, <2>1
      <4>2. PICK more : more = [d \in ColumnsOf(onode.ids) |-> <<"number", number>>]
        OBVIOUS
      <4>3. c \in DOMAIN more /\ more[c] = <<"number", number>> /\ c \notin DOMAIN state.filter
        BY <2>6, <4>1, <4>2
      <4>4. after.filter = Filled(state.filter, more)
        BY <1>10, <4>2
      <4>5. c \in DOMAIN after.filter /\ after.filter[c] = <<"number", number>>
        BY <4>3, <4>4 DEF Filled
      <4>6. row[c] = number
        BY <1>3, <1>18, <2>3, <4>1
      <4>. QED
        BY <4>5, <4>6 DEF Usable
    <3>. QED
      BY <3>1 DEF NamedRow
  <2>. QED
    BY <1>1, <1>13, <2>4, <2>5, <2>6 DEF OneMoreRow
<1>. QED
  BY <1>15, <1>17, <1>18


(* The loop of an insert over the first m items.                           *)
Inserted(f, filter, items, els, m) ==
  f = [k \in 0 .. m |->
        IF k = 0 THEN [table |-> otable, answer |-> 1, rows |-> {}, filter |-> filter]
        ELSE InsertItem(els, f[k - 1], items[k])]

LEMMA LoopInserts ==
  ASSUME NEW filter, NEW items, NEW els, NEW n \in Nat
  PROVE  \E f : Inserted(f, filter, items, els, n)
<1> DEFINE D == {m \in 0 .. n : \E f : Inserted(f, filter, items, els, m)}
<1>1. 0 \in D
  <2> DEFINE f == [k \in 0 .. 0 |-> [table |-> otable, answer |-> 1, rows |-> {}, filter |-> filter]]
  <2>1. \A k \in 0 .. 0 : k = 0
    OBVIOUS
  <2>2. Inserted(f, filter, items, els, 0)
    BY <2>1 DEF Inserted
  <2> QED
    BY <2>2
<1>2. ASSUME NEW m \in 0 .. n - 1, m \in D PROVE m + 1 \in D
  <2> DEFINE base == [table |-> otable, answer |-> 1, rows |-> {}, filter |-> filter]
  <2>0. PICK f : Inserted(f, filter, items, els, m)
    BY <1>2
  <2> DEFINE g == [k \in 0 .. m + 1 |-> IF k <= m THEN f[k] ELSE InsertItem(els, f[m], items[k])]
  <2>1. \A k \in 0 .. m : f[k] = IF k = 0 THEN base ELSE InsertItem(els, f[k - 1], items[k])
    BY <2>0 DEF Inserted
  <2>2. \A k \in 0 .. m + 1 : g[k] = IF k <= m THEN f[k] ELSE InsertItem(els, f[m], items[k])
    OBVIOUS
  <2>3. g = [k \in 0 .. m + 1 |-> g[k]]
    OBVIOUS
  <2> HIDE DEF g, base
  <2>4. ASSUME NEW k \in 0 .. m + 1
        PROVE  g[k] = IF k = 0 THEN base ELSE InsertItem(els, g[k - 1], items[k])
    <3>1. CASE k = 0
      BY <3>1, <2>1, <2>2
    <3>2. CASE k \in 1 .. m
      <4>1. k - 1 \in 0 .. m + 1 /\ k - 1 <= m /\ k <= m /\ k # 0 /\ k \in 0 .. m
        BY <3>2
      <4>2. g[k] = f[k] /\ g[k - 1] = f[k - 1]
        BY <4>1, <2>2
      <4>. QED
        BY <4>1, <4>2, <2>1
    <3>3. CASE k = m + 1
      <4>1. k - 1 = m /\ k # 0 /\ ~(k <= m) /\ m \in 0 .. m + 1 /\ m <= m
        BY <3>3
      <4>2. g[k] = InsertItem(els, f[m], items[k]) /\ g[m] = f[m]
        BY <4>1, <2>2
      <4>. QED
        BY <4>1, <4>2
    <3>. QED
      BY <3>1, <3>2, <3>3
  <2>5. g = [k \in 0 .. m + 1 |-> IF k = 0 THEN base ELSE InsertItem(els, g[k - 1], items[k])]
    BY <2>3, <2>4
  <2>6. Inserted(g, filter, items, els, m + 1)
    BY <2>5 DEF Inserted, base
  <2>7. m + 1 \in 0 .. n
    OBVIOUS
  <2>. QED
    BY <2>6, <2>7
<1>3. n \in 0 .. n
  OBVIOUS
<1>4. n \in D
  <2>1. \A m \in 0 .. n - 1 : m \in D => m + 1 \in D
    BY <1>2
  <2> HIDE DEF D
  <2> QED
    BY <1>1, <1>3, <2>1, Inductive
<1>. QED
  BY <1>4

(* What k items of an insert leave.                                        *)
AfterItems(state, k, filter, els) ==
  /\ state.table \in SUBSET [Columns -> Int] /\ IsFiniteSet(state.table) /\ IsData(state.filter)
  /\ state.answer \in {-1, 1} /\ otable \subseteq state.table
  /\ k = 0 => state.filter = filter /\ state.table = otable
  /\ (osetting.exists /\ onode.ids # NoKeys) =>
        /\ Cardinality(state.table \ otable) = k
        /\ \A row \in state.table \ otable :
             \A c \in DOMAIN ElementCells(els) :
               c \notin ColumnsOf(onode.ids) => row[c] = ElementCells(els)[c]
        /\ (k = 1 /\ "id" \notin DOMAIN filter) =>
             \A row \in state.table \ otable : NamedRow(row, onode.ids, state.filter)

LEMMA AfterOneMore ==
  ASSUME ObjectTyped, ~ocrash, NEW els, CellsOfKeys(els), NEW filter, NEW item, IsData(item),
         NEW k \in Nat, NEW state, AfterItems(state, k, filter, els),
         NEW after, after = InsertItem(els, state, item)
  PROVE  AfterItems(after, k + 1, filter, els)
<1>1. /\ state.table \in SUBSET [Columns -> Int] /\ IsFiniteSet(state.table) /\ IsData(state.filter)
      /\ otable \subseteq state.table
  BY DEF AfterItems
<1>2. /\ after.table \in SUBSET [Columns -> Int] /\ IsFiniteSet(after.table)
      /\ IsData(after.filter) /\ after.answer \in {-1, 1} /\ state.table \subseteq after.table
      /\ (osetting.exists /\ onode.ids # NoKeys) => OneMoreRow(els, state.table, state.filter, after)
  BY <1>1, ItemInserted
<1>3. ASSUME osetting.exists, onode.ids # NoKeys
      PROVE  /\ Cardinality(after.table \ otable) = k + 1
             /\ \A row \in after.table \ otable :
                  \A c \in DOMAIN ElementCells(els) :
                    c \notin ColumnsOf(onode.ids) => row[c] = ElementCells(els)[c]
             /\ (k + 1 = 1 /\ "id" \notin DOMAIN filter) =>
                  \A row \in after.table \ otable : NamedRow(row, onode.ids, after.filter)
  <2>1. PICK row \in [Columns -> Int] :
          /\ row \notin state.table /\ after.table = state.table \cup {row}
          /\ \A c \in DOMAIN ElementCells(els) :
               c \notin ColumnsOf(onode.ids) => row[c] = ElementCells(els)[c]
          /\ "id" \notin DOMAIN state.filter => NamedRow(row, onode.ids, after.filter)
    BY <1>2, <1>3 DEF OneMoreRow
  <2>2. PICK A : A = state.table \ otable
    OBVIOUS
  <2>3. after.table \ otable = A \cup {row} /\ row \notin A
    BY <1>1, <2>1, <2>2
  <2>4. IsFiniteSet(A)
    BY <1>1, <2>2, FS_Subset
  <2>5. Cardinality(A) = k
    BY <1>3, <2>2 DEF AfterItems
  <2>6. Cardinality(A \cup {row}) = k + 1
    BY <2>3, <2>4, <2>5, FS_AddElement
  <2>7. \A r \in A : \A c \in DOMAIN ElementCells(els) :
          c \notin ColumnsOf(onode.ids) => r[c] = ElementCells(els)[c]
    BY <1>3, <2>2 DEF AfterItems
  <2>8. k + 1 = 1 => k = 0
    OBVIOUS
  <2>9. k = 0 => A = {} /\ state.filter = filter
    BY <2>2 DEF AfterItems
  <2>10. (k + 1 = 1 /\ "id" \notin DOMAIN filter) =>
           \A r \in A \cup {row} : NamedRow(r, onode.ids, after.filter)
    BY <2>1, <2>8, <2>9
  <2>11. \A r \in A \cup {row} : \A c \in DOMAIN ElementCells(els) :
          c \notin ColumnsOf(onode.ids) => r[c] = ElementCells(els)[c]
    BY <2>1, <2>7
  <2>. QED
    BY <2>3, <2>6, <2>10, <2>11
<1>4. k + 1 # 0 /\ otable \subseteq after.table
  BY <1>1, <1>2
<1>. QED
  BY <1>2, <1>3, <1>4 DEF AfterItems

(* What all the items leave.                                               *)
LEMMA AllInserted ==
  ASSUME ObjectTyped, ~ocrash, NEW els, NEW filter, IsData(filter), NEW items, NEW n \in Nat,
         n = Len(items), n # 0 => CellsOfKeys(els), \A i \in 1 .. n : IsData(items[i])
  PROVE  AfterItems(InsertItems(filter, items, els), n, filter, els)
<1>1. PICK f : f = (CHOOSE h : Inserted(h, filter, items, els, n)) /\ Inserted(f, filter, items, els, n)
  BY LoopInserts
<1>2. InsertItems(filter, items, els) = f[n]
  BY <1>1 DEF InsertItems, Inserted
<1>3. \A k \in 0 .. n : f[k] = IF k = 0 THEN [table |-> otable, answer |-> 1, rows |-> {}, filter |-> filter]
                               ELSE InsertItem(els, f[k - 1], items[k])
  BY <1>1 DEF Inserted
<1> DEFINE D == {k \in 0 .. n : AfterItems(f[k], k, filter, els)}
<1>4. 0 \in D
  <2>0. 0 \in 0 .. n
    OBVIOUS
  <2>1. f[0] = [table |-> otable, answer |-> 1, rows |-> {}, filter |-> filter]
    BY <1>3, <2>0
  <2>2. otable \ otable = {} /\ Cardinality(otable \ otable) = 0
    BY FS_EmptySet
  <2>3. IsFiniteSet(otable) /\ otable \in SUBSET [Columns -> Int]
    BY DEF ObjectTyped
  <2>4. AfterItems(f[0], 0, filter, els)
    BY <2>1, <2>2, <2>3 DEF AfterItems
  <2>. QED
    BY <2>0, <2>4
<1>5. ASSUME NEW k \in 0 .. n - 1, k \in D PROVE k + 1 \in D
  <2>1. k + 1 \in 1 .. n /\ k + 1 \in 0 .. n /\ (k + 1) - 1 = k /\ k + 1 # 0 /\ k \in Nat /\ n # 0
    OBVIOUS
  <2>2. PICK j : j = k + 1
    OBVIOUS
  <2>3. f[j] = InsertItem(els, f[j - 1], items[j]) /\ j - 1 = k /\ IsData(items[j])
    BY <1>3, <2>1, <2>2
  <2>4. PICK state : state = f[k]
    OBVIOUS
  <2>5. AfterItems(state, k, filter, els)
    BY <1>5, <2>4
  <2>6. PICK after : after = f[j]
    OBVIOUS
  <2>7. after = InsertItem(els, state, items[j])
    BY <2>3, <2>4, <2>6
  <2>8. AfterItems(after, k + 1, filter, els)
    BY <2>1, <2>3, <2>5, <2>7, AfterOneMore
  <2>. QED
    BY <2>1, <2>2, <2>6, <2>8
<1>6. n \in D
  <2>1. n \in 0 .. n
    OBVIOUS
  <2> HIDE DEF D
  <2> QED
    BY <1>4, <1>5, <2>1, Inductive
<1>. QED
  BY <1>2, <1>6


(* A key that is a column is among the columns of the keys.                *)
LEMMA ColumnIsKey ==
  ASSUME NEW keys, NEW c, c \in ToSet(keys), c \in Columns
  PROVE  c \in ColumnsOf(keys)
<1>1. keys # NoKeys
  <2>1. \A e : e \in ToSet(<<NoColumn>>) <=> e = NoColumn
    <3>1. NoColumn \in {NoColumn}
      OBVIOUS
    <3>. QED
      BY <3>1, ShortHas
  <2>. QED
    BY <2>1 DEF NoKeys, NoColumn, Columns
<1>. QED
  BY <1>1 DEF ColumnsOf

(* An insert.                                                              *)
LEMMA InsertKeeps ==
  ASSUME ObjectIInv, ~ocrash, NEW filter, IsData(filter), NEW items, NEW n \in Nat,
         n = Len(items), DOMAIN items = 1 .. n, items = <<>> <=> n = 0,
         \A i \in 1 .. n : IsData(items[i]),
         NEW constraint, constraint = KeysGiven(onode.ids, filter) \o KeysGiven(onode.refs, filter),
         NEW els, els = (IF onode.refs # NoKeys /\ AllGiven(onode.refs, filter) THEN constraint ELSE <<>>),
         Insert(filter, items, constraint, els)
  PROVE  ObjectIInv'
<1>1. PICK K : K = ToSet(onode.ids) \cup ToSet(onode.refs)
  OBVIOUS
<1>2. ObjectTyped /\ Gives(constraint, K, filter)
      /\ onode.ids \in Seq(KeyNames) /\ onode.refs \in Seq(KeyNames)
  BY <1>1, KeysOfNode, ReadsAreGiven DEF ObjectIInv
<1>3. Nested(constraint) => HasList(filter)
  BY <1>2, NestedMeans
<1>4. CASE NamesItself(items)
  <2>1. PICK i \in 1 .. n : KeysGiven(onode.ids, items[i]) # <<>>
    BY <1>4 DEF NamesItself
  <2>2. PICK item : item = items[i]
    OBVIOUS
  <2>3. PICK a : a = KeysGiven(onode.ids, item)
    OBVIOUS
  <2>4. IsData(item) /\ Gives(a, ToSet(onode.ids), item) /\ a # <<>>
    BY <1>2, <2>1, <2>2, <2>3, ReadsAreGiven
  <2>5. PICK e : e \in ToSet(a)
    <3>1. a \in Seq(Elements)
      BY <2>4 DEF Gives
    <3>2. Len(a) # 0 /\ Len(a) \in Nat
      BY <2>4, <3>1, SeqEmpty
    <3>3. 1 \in DOMAIN a
      BY <3>1, <3>2
    <3>. QED
      BY <3>3 DEF ToSet
  <2>6. PICK k \in ToSet(onode.ids) : k \in DOMAIN item
    BY <2>4, <2>5 DEF Gives, ElementOf
  <2>7. k \in Columns /\ k \in ColumnsOf(onode.ids)
    <3>1. k \in Columns
      BY <2>4, <2>6 DEF IsData
    <3>. QED
      BY <2>6, <3>1, ColumnIsKey
  <2>8. k = "id"
    BY <1>2, <2>7 DEF ObjectTyped, Describes, Columns, NoColumn
  <2>9. \E j \in DOMAIN items : "id" \in DOMAIN items[j]
    BY <2>2, <2>6, <2>8
  <2>10. Dies("insert", filter, items)
    BY <1>4 DEF Insert
  <2>. QED
    BY <2>9, <2>10, DiesKeeps
<1>5. CASE ~NamesItself(items) /\ items # <<>> /\ Nested(constraint)
  <2>1. Dies("insert", filter, items)
    BY <1>5 DEF Insert
  <2>. QED
    BY <1>3, <1>5, <2>1, DiesKeeps
<1>6. CASE ~NamesItself(items) /\ ~(items # <<>> /\ Nested(constraint))
  <2>1. PICK done : done = InsertItems(filter, items, els)
    OBVIOUS
  <2>2. /\ Called("insert", filter, items, done.answer)
        /\ otable' = done.table /\ ofilter' = done.filter /\ ocrash' = Nested(constraint)
    BY <1>6, <2>1 DEF Insert
  <2>3. n # 0 => CellsOfKeys(els)
    <3>1. CASE els = constraint /\ ~Nested(constraint)
      <4>1. \A c \in DOMAIN ElementCells(els) :
              c \in K /\ c \in Columns /\ ElementCells(els)[c] \in Int
        <5>1. Gives(els, K, filter) /\ ~Nested(els)
          BY <1>2, <3>1
        <5>. QED
          BY <5>1, ElementCellsAre
      <4>2. \A c \in K : c \in Columns => c \in ColumnsOf(onode.ids) \cup ColumnsOf(onode.refs)
        BY <1>1, ColumnIsKey
      <4>. QED
        BY <4>1, <4>2 DEF CellsOfKeys
    <3>2. CASE els = <<>>
      <4>1. \A e : e \notin ToSet(els)
        <5>1. 0 \in {0}
          OBVIOUS
        <5>. QED
          BY <3>2, <5>1, ShortHas
      <4>2. DOMAIN ElementCells(els) = {}
        BY <4>1 DEF ElementCells
      <4>. QED
        BY <4>2 DEF CellsOfKeys
    <3>. QED
      BY <1>6, <3>1, <3>2
  <2>4. AfterItems(done, n, filter, els)
    BY <1>2, <2>1, <2>3, AllInserted
  <2>5. olast'.op = "insert" /\ olast'.filter = filter /\ olast'.items = items /\ olast'.before = otable
        /\ olast'.answer = done.answer /\ osetting' = osetting /\ onode' = onode
    BY <2>2, CallSays
  <2>6. ObjectTyped'
    BY <1>2, <2>2, <2>4, <2>5 DEF ObjectTyped, AfterItems
  <2>7. OthersStay'
    BY <2>2, <2>4, <2>5 DEF OthersStay, AfterItems
  <2>8. ReadsWhatIsAsked'
    BY <2>5 DEF ReadsWhatIsAsked
  <2>9. EndsForAReason'
    BY <1>3, <2>2, <2>4, <2>5 DEF EndsForAReason, AfterItems
  <2>10. ASSUME ~ocrash', osetting.exists, onode.ids # NoKeys
         PROVE  /\ Cardinality(done.table \ otable) = Len(items)
                /\ AllGiven(onode.refs, filter) =>
                     \A row \in done.table \ otable : NamedRow(row, onode.refs, filter)
                /\ (Len(items) = 1 /\ "id" \notin DOMAIN filter) =>
                     \A row \in done.table \ otable : NamedRow(row, onode.ids, done.filter)
    <3>1. /\ Cardinality(done.table \ otable) = n
          /\ \A row \in done.table \ otable :
               \A c \in DOMAIN ElementCells(els) :
                 c \notin ColumnsOf(onode.ids) => row[c] = ElementCells(els)[c]
          /\ (n = 1 /\ "id" \notin DOMAIN filter) =>
               \A row \in done.table \ otable : NamedRow(row, onode.ids, done.filter)
      BY <2>4, <2>10 DEF AfterItems
    <3>2. ASSUME AllGiven(onode.refs, filter), NEW row \in done.table \ otable
          PROVE  NamedRow(row, onode.refs, filter)
      <4>1. \A k \in ToSet(onode.refs) : k \in DOMAIN filter /\ Usable(filter[k])
        <5>1. ToSet(onode.refs) \subseteq K /\ ~Nested(constraint)
          BY <1>1, <2>2, <2>10
        <5>. QED
          BY <1>2, <3>2, <5>1, NamedBy
      <4>2. \A k \in ToSet(onode.refs) : k \in Columns /\ k \in ColumnsOf(onode.refs)
        <5>1. \A k \in ToSet(onode.refs) : k \in Columns
          BY <4>1 DEF IsData
        <5>. QED
          BY <5>1, ColumnIsKey
      <4>3. onode.refs # NoKeys
        <5>1. ASSUME onode.refs = NoKeys PROVE FALSE
          <6>1. NoColumn \in ToSet(<<NoColumn>>)
            <7>1. NoColumn \in {NoColumn}
              OBVIOUS
            <7>. QED
              BY <7>1, ShortHas
          <6>. QED
            BY <4>2, <5>1, <6>1 DEF NoKeys, Columns, NoColumn
        <5>. QED
          BY <5>1
      <4>4. els = constraint /\ ~Nested(constraint)
        BY <2>2, <2>10, <3>2, <4>3
      <4>5. ASSUME NEW c \in ToSet(onode.refs)
            PROVE  c \in DOMAIN filter /\ Usable(filter[c]) /\ row[c] = filter[c][2]
        <5>1. c \in K /\ c \in DOMAIN filter /\ Usable(filter[c]) /\ c \in Columns
              /\ c \in ColumnsOf(onode.refs)
          BY <1>1, <4>1, <4>2
        <5>2. c \in DOMAIN ElementCells(els) /\ ElementCells(els)[c] = filter[c][2]
          <6>1. Gives(els, K, filter) /\ ~Nested(els)
            BY <1>2, <4>4
          <6>2. \A k \in K : k \in DOMAIN filter /\ Usable(filter[k]) => k \in DOMAIN ElementCells(els)
            BY <6>1, ElementCellsAre
          <6>3. \A d \in DOMAIN ElementCells(els) : ElementCells(els)[d] = filter[d][2]
            BY <6>1, ElementCellsAre
          <6>. QED
            BY <5>1, <6>2, <6>3
        <5>3. c \notin ColumnsOf(onode.ids)
          BY <1>2, <2>10, <5>1 DEF ObjectTyped, Describes, Columns, NoColumn
        <5>. QED
          BY <3>1, <5>1, <5>2, <5>3
      <4>. QED
        BY <4>5 DEF NamedRow
    <3>. QED
      BY <3>1, <3>2
  <2>11. InsertsMakeRows'
    BY <2>2, <2>5, <2>10 DEF InsertsMakeRows, New, AllGiven, NamedRow
  <2>. QED
    BY <2>6, <2>7, <2>8, <2>9, <2>11 DEF ObjectIInv, ObjectsKeep
<1>. QED
  BY <1>4, <1>5, <1>6

(* A list of items.                                                        *)
LEMMA ItemsAre ==
  ASSUME NEW items \in ItemLists
  PROVE  \E n \in Nat : /\ n = Len(items) /\ DOMAIN items = 1 .. n /\ (items = <<>> <=> n = 0)
                        /\ \A i \in 1 .. n : IsData(items[i])
<1>1. PICK n \in 0 .. OMaxItems : items \in [1 .. n -> OItems]
  BY DEF ItemLists
<1>2. n \in Nat /\ items = [i \in 1 .. n |-> items[i]] /\ DOMAIN items = 1 .. n
      /\ \A i \in 1 .. n : items[i] \in OItems
  BY <1>1, ObjectConstants
<1>3. items \in Seq(OItems) /\ Len(items) = n
  BY <1>2, SequenceBy
<1>4. n = 0 => items = <<>>
  BY <1>3, SeqEmpty
<1>5. items = <<>> => n = 0
  BY <1>3
<1>6. \A i \in 1 .. n : IsData(items[i])
  BY <1>2, ObjectSettings
<1>. QED
  BY <1>2, <1>3, <1>4, <1>5, <1>6

(* An update, whatever it comes to.                                        *)
LEMMA UpdateKeeps ==
  ASSUME ObjectIInv, ~ocrash, NEW filter, IsData(filter), NEW items \in ItemLists, Update(filter, items)
  PROVE  ObjectIInv'
<1>1. PICK n \in Nat : /\ n = Len(items) /\ DOMAIN items = 1 .. n /\ (items = <<>> <=> n = 0)
                       /\ \A i \in 1 .. n : IsData(items[i])
  BY ItemsAre
<1>2. CASE ~osetting.source
  BY <1>2, UpdateNothingKeeps DEF Update
<1>3. CASE osetting.source /\ onode.ids # NoKeys /\ AllGiven(onode.ids, filter)
  <2>1. UpdateFirst(filter, items, KeysGiven(onode.ids, filter) \o KeysGiven(onode.refs, filter))
    BY <1>3 DEF Update
  <2>2. items # <<>> => 1 \in DOMAIN items
    BY <1>1
  <2>. QED
    BY <1>1, <1>3, <2>1, <2>2, UpdateFirstKeeps
<1>4. CASE osetting.source /\ ~(onode.ids # NoKeys /\ AllGiven(onode.ids, filter))
  <2>1. PICK constraint : constraint = KeysGiven(onode.ids, filter) \o KeysGiven(onode.refs, filter)
    OBVIOUS
  <2>2. PICK els :
          els = IF onode.refs # NoKeys /\ AllGiven(onode.refs, filter) THEN constraint ELSE <<>>
    OBVIOUS
  <2>3. Insert(filter, items, constraint, els)
    BY <1>4, <2>1, <2>2 DEF Update
  <2>. QED
    BY <1>1, <2>1, <2>2, <2>3, InsertKeeps
<1>. QED
  BY <1>2, <1>3, <1>4

(* Every step keeps the invariant.                                         *)
LEMMA ObjectSteps == ASSUME ObjectIInv, [ObjectNext]_objectVars PROVE ObjectIInv'
<1>1. CASE ObjectNext
  <2>1. ~ocrash
    BY <1>1 DEF ObjectNext
  <2>2. \/ CloseCursor \/ UpdateSize
        \/ \E filter \in OFilters \cup {ofilter} :
             \/ Fetch(filter) \/ OpenCursor(filter) \/ Delete(filter) \/ UpdateNothing(filter)
             \/ \E items \in ItemLists : Update(filter, items)
    BY <1>1 DEF ObjectNext
  <2>3. \A filter \in OFilters \cup {ofilter} : IsData(filter)
    BY ObjectSettings DEF ObjectIInv, ObjectTyped
  <2>4. CASE CloseCursor \/ UpdateSize
    BY <2>1, <2>4, CloseCursorKeeps, SizeKeeps
  <2>5. ASSUME NEW filter \in OFilters \cup {ofilter},
               \/ Fetch(filter) \/ OpenCursor(filter) \/ Delete(filter) \/ UpdateNothing(filter)
               \/ \E items \in ItemLists : Update(filter, items)
        PROVE  ObjectIInv'
    <3>1. IsData(filter)
      BY <2>3
    <3>2. CASE Fetch(filter) \/ OpenCursor(filter)
      BY <2>1, <3>1, <3>2, FetchKeeps, OpenCursorKeeps
    <3>3. CASE Delete(filter) \/ UpdateNothing(filter)
      BY <2>1, <3>1, <3>3, DeleteKeeps, UpdateNothingKeeps
    <3>4. CASE \E items \in ItemLists : Update(filter, items)
      BY <2>1, <3>1, <3>4, UpdateKeeps
    <3>. QED
      BY <2>5, <3>2, <3>3, <3>4
  <2>. QED
    BY <2>2, <2>4, <2>5
<1>2. CASE UNCHANGED objectVars
  <2>1. /\ osetting' = osetting /\ onode' = onode /\ otable' = otable /\ orows' = orows
        /\ ofilter' = ofilter /\ olast' = olast /\ ocrash' = ocrash /\ osteps' = osteps
    BY <1>2 DEF objectVars
  <2>2. ObjectTyped'
    BY <2>1 DEF ObjectIInv, ObjectTyped
  <2>3. ObjectsKeep'
    BY <2>1 DEF ObjectIInv, ObjectsKeep, OthersStay, Touched, NamedRow, InsertsMakeRows, New,
                AllGiven, ReadsWhatIsAsked, Sought, EndsForAReason
  <2>. QED
    BY <2>2, <2>3 DEF ObjectIInv
<1>. QED
  BY <1>1, <1>2

(* The rows that a filter does not name stay, the rows of an insert are    *)
(* made under their keys, a fetch reads what is asked for, FALSE means that*)
(* nothing was changed, and the process ends for a reason (adbo_node.c).   *)
THEOREM ObjectsStay == ObjectInit /\ [][ObjectNext]_objectVars => []ObjectsKeep
<1>1. ObjectInit => ObjectIInv
  BY ObjectStarts
<1>2. ObjectIInv /\ [ObjectNext]_objectVars => ObjectIInv'
  BY ObjectSteps
<1>3. ObjectIInv => ObjectsKeep
  BY DEF ObjectIInv
<1>. QED
  BY <1>1, <1>2, <1>3, PTL
=============================================================================
