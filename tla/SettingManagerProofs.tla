------------------------ MODULE SettingManagerProofs ------------------------
(***************************************************************************)
(* What SettingManager guarantees for any number of transactions, readers, *)
(* settings and operations.                                                *)
(***************************************************************************)
EXTENDS SettingManager, WellFoundedInduction, SequenceTheorems, TLAPS

\* Every non-empty set of natural numbers has a least element: what proofs by
\* induction on a number rest on below
LEMMA LeastNatural ==
  ASSUME NEW S \in SUBSET Nat, S # {}
  PROVE  \E n \in S : \A m \in S : n <= m
<1> DEFINE R == OpToRel(<, Nat)
<1>1. IsWellFoundedOn(R, Nat)
  BY NatLessThanWellFounded
<1>2. \A x \in S, y \in S : y < x => <<y, x>> \in R
  BY DEF OpToRel
<1> HIDE DEF R
<1>3. \E x \in S : \A y \in S : ~ (<<y, x>> \in R)
  BY <1>1, WFMin
<1>4. \A x \in S, y \in S : ~(y < x) => x <= y
  OBVIOUS
<1> QED
  BY <1>2, <1>3, <1>4

\* The serial starts at the greatest id of the startup rows
LEMMA BootIds ==
  /\ LastId \in 0 .. MaxId
  /\ \A i \in Boot : i <= LastId
<1>1. CASE Boot = {}
  BY <1>1, SettingAssumption DEF LastId
<1>2. CASE Boot # {}
  <2> DEFINE S == {MaxId - i : i \in Boot}
  <2>1. S \in SUBSET Nat /\ S # {}
    <3>1. \A i \in Boot : i \in 1 .. MaxId
      BY SettingAssumption DEF Ids
    <3>2. \A i \in Boot : MaxId - i \in Nat
      BY <3>1, SettingAssumption
    <3> HIDE DEF Boot
    <3>3. \A i \in Boot : MaxId - i \in S
      OBVIOUS
    <3> QED
      BY <1>2, <3>2, <3>3
  <2>2. PICK n \in S : \A m \in S : n <= m
    <3> HIDE DEF S
    <3> QED
      BY <2>1, LeastNatural
  <2>3. PICK k \in Boot : n = MaxId - k
    OBVIOUS
  <2>4. \A i \in Boot : k >= i
    <3> TAKE i \in Boot
    <3>1. i \in 1 .. MaxId /\ k \in 1 .. MaxId
      BY SettingAssumption DEF Ids
    <3>2. MaxId - i \in S
      OBVIOUS
    <3>3. MaxId - k <= MaxId - i
      BY <2>2, <2>3, <3>2
    <3> QED
      BY <3>1, <3>3, SettingAssumption
  <2>5. LastId \in Boot /\ \A i \in Boot : LastId >= i
    BY <1>2, <2>4 DEF LastId, Max
  <2> QED
    BY <2>5, SettingAssumption DEF Ids
<1> QED
  BY <1>1, <1>2

\* The tables and the tree start with values of their types
LEMMA InitType == Init => TypeOK
<1> SUFFICES ASSUME Init PROVE TypeOK
  OBVIOUS
<1>1. \A i \in Boot : BootParent[i] \in Ids \cup {0}
  BY SettingAssumption
<1>2. tasks \in [Tx -> Seq(Statement)]
  BY DEF Init
<1>3. written \in [Tx -> [Ids -> Tx \cup {Absent, Unset}]]
  BY DEF Init, Nothing
<1>4. view \in [Reader -> {NoCall} \cup [Ids -> Value \cup {Absent, Unset}]]
  BY DEF Init
<1>5. /\ root \in [Ids -> Value \cup {Absent}]
      /\ db \in [Ids -> Value \cup {Absent}]
  BY DEF Init, Value
<1>6. parentOf \in [Ids -> Ids \cup {0}]
  BY <1>1 DEF Init
<1>7. calls \in 0 .. MaxCalls /\ maxSerial \in 0 .. MaxId
  BY BootIds, SettingAssumption DEF Init
<1> QED
  BY <1>2, <1>3, <1>4, <1>5, <1>6, <1>7 DEF Init, TypeOK, Statuses

\* A value written by a transaction, or nothing
LEMMA SeenType ==
  ASSUME TypeOK, NEW t \in Tx, NEW i \in Ids
  PROVE  Seen(t, i) \in Value \cup {Absent}
BY DEF TypeOK, Seen, Value

\* A statement leaves a value of the transaction, a deletion or no change
LEMMA RowChangeType ==
  ASSUME TypeOK, NEW t \in Tx, NEW s \in Statement
  PROVE  RowChange(t, s) \in Tx \cup {Absent, Unset}
BY DEF TypeOK, RowChange, Statement

\* Applying a task keeps the tree a tree of values
LEMMA AppliedType ==
  ASSUME TypeOK, NEW t \in Tx, NEW k \in Statement
  PROVE  Applied(root, t, k) \in [Ids -> Value \cup {Absent}]
BY DEF TypeOK, Applied, Statement, Value

\* A reader gets a value or nothing
LEMMA VisibleType ==
  ASSUME TypeOK, NEW i \in Ids
  PROVE  Visible[i] \in Value \cup {Absent}
BY DEF TypeOK, Visible

\* An operation executes statements on settings that may exist
LEMMA StatementsType ==
  ASSUME NEW c \in Requests, maxSerial \in Nat,
         c.op = "add" => maxSerial < MaxId
  PROVE  Statements(c) \subseteq Statement
<1>1. CASE c.op = "setValues"
  BY <1>1 DEF Statements, Statement, Requests
<1>2. CASE c.op = "add"
  BY <1>2, SettingAssumption DEF Statements, Statement, Ids
<1>3. CASE c.op \notin {"setValues", "add"}
  BY <1>3 DEF Statements, Statement
<1> QED
  BY <1>1, <1>2, <1>3

\* Every step keeps the types, and an operation keeps its request
LEMMA TypeStep == TypeOK /\ InCall /\ [Next]_vars => TypeOK' /\ InCall'
<1> SUFFICES ASSUME TypeOK, InCall, [Next]_vars
             PROVE  TypeOK' /\ InCall'
  OBVIOUS
<1> USE DEF TypeOK, InCall
<1>1. ASSUME NEW t \in Tx, Call(t) PROVE TypeOK' /\ InCall'
  BY <1>1, SettingAssumption DEF Call, Moves, memVars, lockVars, dbVars, Statuses
<1>2. ASSUME NEW t \in Tx, ExplicitCommit(t) PROVE TypeOK' /\ InCall'
  <2>1. db' \in [Ids -> Value \cup {Absent}]
    BY <1>2, SeenType DEF ExplicitCommit, CommitRows
  <2>2. written' \in [Tx -> [Ids -> Tx \cup {Absent, Unset}]]
    BY <1>2 DEF ExplicitCommit, CommitRows, Nothing
  <2> QED
    BY <1>2, <2>1, <2>2 DEF ExplicitCommit, memVars, lockVars, callVars
<1>3. ASSUME NEW t \in Tx, Close(t) PROVE TypeOK' /\ InCall'
  BY <1>3 DEF Close, Moves, memVars, lockVars, dbVars, callVars, Statuses
<1>4. ASSUME NEW t \in Tx, Abort(t) PROVE TypeOK' /\ InCall'
  <2>1. written' \in [Tx -> [Ids -> Tx \cup {Absent, Unset}]]
    BY <1>4 DEF Abort, Nothing
  <2> QED
    BY <1>4, <2>1 DEF Abort, memVars, lockVars, callVars, Statuses
<1>5. ASSUME NEW t \in Tx, Enter(t) PROVE TypeOK' /\ InCall'
  <2>1. call[t] \in Requests
    BY <1>5 DEF Enter, Moves
  <2>2. call[t].op = "add" => call[t].parent \in Ids /\ maxSerial < MaxId
    <3>1. CASE call[t].op = "add"
      BY <1>5, <2>1, <3>1 DEF Enter, Resolves, Requests
    <3> QED
      BY <3>1
  <2>3. Statements(call[t]) \subseteq Statement
    BY <2>1, <2>2, StatementsType
  <2>4. /\ maxSerial' \in 0 .. MaxId
        /\ parentOf' \in [Ids -> Ids \cup {0}]
    <3>1. CASE call[t].op = "add"
      <4>1. maxSerial' = maxSerial + 1
        BY <1>5, <3>1 DEF Enter
      <4>2. maxSerial + 1 \in 0 .. MaxId
        BY <2>2, <3>1, SettingAssumption
      <4>3. parentOf' = [parentOf EXCEPT ![maxSerial + 1] = call[t].parent]
        BY <1>5, <3>1 DEF Enter
      <4>4. parentOf' \in [Ids -> Ids \cup {0}]
        BY <2>2, <3>1, <4>3
      <4> QED
        BY <4>1, <4>2, <4>4
    <3>2. CASE call[t].op # "add"
      BY <1>5, <3>2 DEF Enter
    <3> QED
      BY <3>1, <3>2
  <2>5. todo' \in [Tx -> SUBSET Statement]
    BY <1>5, <2>3 DEF Enter
  <2> QED
    BY <1>5, <2>4, <2>5 DEF Enter, Moves, dbVars, Statuses
<1>6. ASSUME NEW t \in Tx, NotFound(t) PROVE TypeOK' /\ InCall'
  BY <1>6 DEF NotFound, Moves, memVars, lockVars, dbVars, Statuses
<1>7. ASSUME NEW t \in Tx, Execute(t) PROVE TypeOK' /\ InCall'
  <2>1. PICK s \in NextStatements(t) :
          /\ written' = [written EXCEPT ![t][s.id] = RowChange(t, s)]
          /\ tasks' = [tasks EXCEPT ![t] = Append(tasks[t], s)]
          /\ todo' = [todo EXCEPT ![t] = @ \ {s}]
          /\ IF todo[t] = {s}
             THEN /\ status' = [status EXCEPT ![t] = "open"]
                  /\ call' = [call EXCEPT ![t] = NoCall]
                  /\ writer' = NoTx
             ELSE UNCHANGED <<status, call, writer>>
    BY <1>7 DEF Execute, Recorded
  <2>2. s \in Statement
    BY DEF NextStatements
  <2>3. written' \in [Tx -> [Ids -> Tx \cup {Absent, Unset}]]
    BY <2>1, <2>2, RowChangeType DEF Statement
  <2>4. tasks' \in [Tx -> Seq(Statement)]
    BY <2>1, <2>2
  <2>5. todo' \in [Tx -> SUBSET Statement]
    BY <2>1
  <2>6. /\ status' \in [Tx -> Statuses]
        /\ call' \in [Tx -> Requests \cup {NoCall}]
        /\ writer' \in Tx \cup {NoTx}
        /\ InCall'
    BY <2>1 DEF Statuses
  <2> QED
    BY <1>7, <2>3, <2>4, <2>5, <2>6 DEF Execute
<1>8. ASSUME NEW t \in Tx, ExecuteFails(t) PROVE TypeOK' /\ InCall'
  BY <1>8 DEF ExecuteFails, Moves, memVars, dbVars, Statuses
<1>9. ASSUME NEW t \in Tx, BeforeClose(t) PROVE TypeOK' /\ InCall'
  BY <1>9 DEF BeforeClose, Moves, memVars, lockVars, dbVars, callVars, Statuses
<1>10. ASSUME NEW t \in Tx, Commit(t) PROVE TypeOK' /\ InCall'
  <2>1. db' \in [Ids -> Value \cup {Absent}]
    BY <1>10, SeenType DEF Commit, CommitRows
  <2>2. written' \in [Tx -> [Ids -> Tx \cup {Absent, Unset}]]
    BY <1>10 DEF Commit, CommitRows, Nothing
  <2> QED
    BY <1>10, <2>1, <2>2 DEF Commit, Moves, memVars, lockVars, callVars, Statuses
<1>11. ASSUME NEW t \in Tx, CommitFails(t) PROVE TypeOK' /\ InCall'
  <2>1. written' \in [Tx -> [Ids -> Tx \cup {Absent, Unset}]]
    BY <1>11 DEF CommitFails, Nothing
  <2> QED
    BY <1>11, <2>1 DEF CommitFails, Moves, memVars, lockVars, callVars, Statuses
<1>12. ASSUME NEW t \in Tx, Notify(t) PROVE TypeOK' /\ InCall'
  BY <1>12 DEF Notify, Moves, memVars, dbVars, callVars, Statuses
<1>13. ASSUME NEW t \in Tx, BeginFlush(t) PROVE TypeOK' /\ InCall'
  BY <1>13 DEF BeginFlush, Moves, memVars, dbVars, callVars, Statuses
<1>14. ASSUME NEW t \in Tx, FlushTask(t) PROVE TypeOK' /\ InCall'
  <2>1. tasks[t] \in Seq(Statement) /\ tasks[t] # <<>>
    BY <1>14 DEF FlushTask
  <2>2. Head(tasks[t]) \in Statement /\ Tail(tasks[t]) \in Seq(Statement)
    BY <2>1
  <2>3. root' \in [Ids -> Value \cup {Absent}]
    BY <1>14, <2>2, AppliedType DEF FlushTask
  <2>4. tasks' \in [Tx -> Seq(Statement)]
    BY <1>14, <2>2 DEF FlushTask
  <2> QED
    BY <1>14, <2>3, <2>4 DEF FlushTask, lockVars, dbVars, callVars
<1>15. ASSUME NEW t \in Tx, EndFlush(t) PROVE TypeOK' /\ InCall'
  BY <1>15 DEF EndFlush, Moves, memVars, dbVars, callVars, Statuses
<1>16. ASSUME NEW t \in Tx, DropTasks(t) PROVE TypeOK' /\ InCall'
  BY <1>16 DEF DropTasks, Moves, dbVars, callVars, Statuses
<1>17. ASSUME NEW r \in Reader, Get(r) PROVE TypeOK' /\ InCall'
  <2>1. CASE BeginGet(r)
    BY <2>1 DEF BeginGet, memVars, dbVars, callVars, Nothing
  <2>2. CASE BuildNode(r)
    <3>1. PICK i \in Ids : view' = [view EXCEPT ![r][i] = Visible[i]]
      BY <2>2 DEF BuildNode
    <3>2. Visible[i] \in Value \cup {Absent}
      BY VisibleType
    <3>3. view[r] \in [Ids -> Value \cup {Absent, Unset}]
      BY <2>2 DEF BuildNode
    <3>4. view' \in [Reader -> {NoCall} \cup [Ids -> Value \cup {Absent, Unset}]]
      BY <3>1, <3>2, <3>3
    <3> QED
      BY <2>2, <3>4 DEF BuildNode, memVars, dbVars, callVars
  <2>3. CASE EndGet(r)
    BY <2>3 DEF EndGet, memVars, dbVars, callVars
  <2> QED
    BY <1>17, <2>1, <2>2, <2>3 DEF Get
<1>18. CASE UNCHANGED vars
  BY <1>18 DEF vars
<1> QED
  BY <1>1, <1>2, <1>3, <1>4, <1>5, <1>6, <1>7, <1>8, <1>9, <1>10, <1>11, <1>12,
     <1>13, <1>14, <1>15, <1>16, <1>17, <1>18
  DEF Next, Service, Operation, End, AllEnded

\* The write lock and the monitor are held by exactly the threads whose status
\* says so
LEMMA LockStep == TypeOK /\ WriterOwns /\ MonitorOwns /\ [Next]_vars => WriterOwns' /\ MonitorOwns'
<1> SUFFICES ASSUME TypeOK, WriterOwns, MonitorOwns, [Next]_vars
             PROVE  WriterOwns' /\ MonitorOwns'
  OBVIOUS
<1> USE SettingAssumption DEF TypeOK, WriterOwns, MonitorOwns, WriteLockFree
<1>1. ASSUME NEW t \in Tx, Call(t) PROVE WriterOwns' /\ MonitorOwns'
  BY <1>1 DEF Call, Moves, memVars, lockVars, dbVars, callVars
<1>2. ASSUME NEW t \in Tx, ExplicitCommit(t) PROVE WriterOwns' /\ MonitorOwns'
  BY <1>2 DEF ExplicitCommit, CommitRows, memVars, lockVars, dbVars, callVars
<1>3. ASSUME NEW t \in Tx, Close(t) PROVE WriterOwns' /\ MonitorOwns'
  BY <1>3 DEF Close, Moves, memVars, lockVars, dbVars, callVars
<1>4. ASSUME NEW t \in Tx, Abort(t) PROVE WriterOwns' /\ MonitorOwns'
  BY <1>4 DEF Abort, memVars, lockVars, dbVars, callVars
<1>5. ASSUME NEW t \in Tx, Enter(t) PROVE WriterOwns' /\ MonitorOwns'
  BY <1>5 DEF Enter, Moves, memVars, lockVars, dbVars, callVars
<1>6. ASSUME NEW t \in Tx, NotFound(t) PROVE WriterOwns' /\ MonitorOwns'
  BY <1>6 DEF NotFound, Moves, memVars, lockVars, dbVars, callVars
<1>7. ASSUME NEW t \in Tx, Execute(t) PROVE WriterOwns' /\ MonitorOwns'
  <2>1. \/ /\ status' = [status EXCEPT ![t] = "open"] /\ writer' = NoTx
        \/ UNCHANGED <<status, writer>>
    BY <1>7 DEF Execute
  <2>2. UNCHANGED hsListeners
    BY <1>7 DEF Execute
  <2> QED
    BY <1>7, <2>1, <2>2 DEF Execute
<1>8. ASSUME NEW t \in Tx, ExecuteFails(t) PROVE WriterOwns' /\ MonitorOwns'
  BY <1>8 DEF ExecuteFails, Moves, memVars, lockVars, dbVars, callVars
<1>9. ASSUME NEW t \in Tx, BeforeClose(t) PROVE WriterOwns' /\ MonitorOwns'
  BY <1>9 DEF BeforeClose, Moves, memVars, lockVars, dbVars, callVars
<1>10. ASSUME NEW t \in Tx, Commit(t) PROVE WriterOwns' /\ MonitorOwns'
  BY <1>10 DEF Commit, CommitRows, Moves, memVars, lockVars, dbVars, callVars
<1>11. ASSUME NEW t \in Tx, CommitFails(t) PROVE WriterOwns' /\ MonitorOwns'
  BY <1>11 DEF CommitFails, Moves, memVars, lockVars, dbVars, callVars
<1>12. ASSUME NEW t \in Tx, Notify(t) PROVE WriterOwns' /\ MonitorOwns'
  BY <1>12 DEF Notify, Moves, memVars, lockVars, dbVars, callVars
<1>13. ASSUME NEW t \in Tx, BeginFlush(t) PROVE WriterOwns' /\ MonitorOwns'
  BY <1>13 DEF BeginFlush, Moves, memVars, lockVars, dbVars, callVars
<1>14. ASSUME NEW t \in Tx, FlushTask(t) PROVE WriterOwns' /\ MonitorOwns'
  BY <1>14 DEF FlushTask, memVars, lockVars, dbVars, callVars
<1>15. ASSUME NEW t \in Tx, EndFlush(t) PROVE WriterOwns' /\ MonitorOwns'
  BY <1>15 DEF EndFlush, Moves, memVars, lockVars, dbVars, callVars
<1>16. ASSUME NEW t \in Tx, DropTasks(t) PROVE WriterOwns' /\ MonitorOwns'
  BY <1>16 DEF DropTasks, Moves, memVars, lockVars, dbVars, callVars
<1>17. ASSUME NEW r \in Reader, Get(r) PROVE WriterOwns' /\ MonitorOwns'
  BY <1>17 DEF Get, BeginGet, BuildNode, EndGet, memVars, dbVars, callVars
<1>18. CASE UNCHANGED vars
  BY <1>18 DEF vars
<1> QED
  BY <1>1, <1>2, <1>3, <1>4, <1>5, <1>6, <1>7, <1>8, <1>9,
     <1>10, <1>11, <1>12, <1>13, <1>14, <1>15, <1>16, <1>17, <1>18
  DEF Next, Service, Operation, End, AllEnded
\* Rows are settled by the commit or the rollback, tasks by the flush
LEMMA SettledStep == TypeOK /\ RowsSettled /\ TasksGone /\ [Next]_vars => RowsSettled' /\ TasksGone'
<1> SUFFICES ASSUME TypeOK, RowsSettled, TasksGone, [Next]_vars
             PROVE  RowsSettled' /\ TasksGone'
  OBVIOUS
<1> USE DEF TypeOK, RowsSettled, TasksGone, Over
<1>1. ASSUME NEW t \in Tx, Call(t) PROVE RowsSettled' /\ TasksGone'
  BY <1>1 DEF Call, Moves, memVars, lockVars, dbVars, callVars
<1>2. ASSUME NEW t \in Tx, ExplicitCommit(t) PROVE RowsSettled' /\ TasksGone'
  BY <1>2 DEF ExplicitCommit, CommitRows, memVars, lockVars, dbVars, callVars
<1>3. ASSUME NEW t \in Tx, Close(t) PROVE RowsSettled' /\ TasksGone'
  BY <1>3 DEF Close, Moves, memVars, lockVars, dbVars, callVars
<1>4. ASSUME NEW t \in Tx, Abort(t) PROVE RowsSettled' /\ TasksGone'
  BY <1>4 DEF Abort, memVars, lockVars, dbVars, callVars
<1>5. ASSUME NEW t \in Tx, Enter(t) PROVE RowsSettled' /\ TasksGone'
  BY <1>5 DEF Enter, Moves, memVars, lockVars, dbVars, callVars
<1>6. ASSUME NEW t \in Tx, NotFound(t) PROVE RowsSettled' /\ TasksGone'
  BY <1>6 DEF NotFound, Moves, memVars, lockVars, dbVars, callVars
<1>7. ASSUME NEW t \in Tx, Execute(t) PROVE RowsSettled' /\ TasksGone'
  <2>1. PICK s \in NextStatements(t) :
          /\ written' = [written EXCEPT ![t][s.id] = RowChange(t, s)]
          /\ tasks' = [tasks EXCEPT ![t] = Append(tasks[t], s)]
          /\ \/ status' = [status EXCEPT ![t] = "open"]
             \/ UNCHANGED status
    BY <1>7 DEF Execute, Recorded
  <2>2. status[t] = "executing"
    BY <1>7 DEF Execute
  <2> QED
    BY <2>1, <2>2
<1>8. ASSUME NEW t \in Tx, ExecuteFails(t) PROVE RowsSettled' /\ TasksGone'
  BY <1>8 DEF ExecuteFails, Moves, memVars, lockVars, dbVars, callVars
<1>9. ASSUME NEW t \in Tx, BeforeClose(t) PROVE RowsSettled' /\ TasksGone'
  BY <1>9 DEF BeforeClose, Moves, memVars, lockVars, dbVars, callVars
<1>10. ASSUME NEW t \in Tx, Commit(t) PROVE RowsSettled' /\ TasksGone'
  BY <1>10 DEF Commit, CommitRows, Moves, memVars, lockVars, dbVars, callVars
<1>11. ASSUME NEW t \in Tx, CommitFails(t) PROVE RowsSettled' /\ TasksGone'
  BY <1>11 DEF CommitFails, Moves, memVars, lockVars, dbVars, callVars
<1>12. ASSUME NEW t \in Tx, Notify(t) PROVE RowsSettled' /\ TasksGone'
  BY <1>12 DEF Notify, Moves, memVars, lockVars, dbVars, callVars
<1>13. ASSUME NEW t \in Tx, BeginFlush(t) PROVE RowsSettled' /\ TasksGone'
  BY <1>13 DEF BeginFlush, Moves, memVars, lockVars, dbVars, callVars
<1>14. ASSUME NEW t \in Tx, FlushTask(t) PROVE RowsSettled' /\ TasksGone'
  BY <1>14 DEF FlushTask, memVars, lockVars, dbVars, callVars
<1>15. ASSUME NEW t \in Tx, EndFlush(t) PROVE RowsSettled' /\ TasksGone'
  BY <1>15 DEF EndFlush, Moves, memVars, lockVars, dbVars, callVars
<1>16. ASSUME NEW t \in Tx, DropTasks(t) PROVE RowsSettled' /\ TasksGone'
  BY <1>16 DEF DropTasks, Moves, memVars, lockVars, dbVars, callVars
<1>17. ASSUME NEW r \in Reader, Get(r) PROVE RowsSettled' /\ TasksGone'
  BY <1>17 DEF Get, BeginGet, BuildNode, EndGet, memVars, dbVars, callVars
<1>18. CASE UNCHANGED vars
  BY <1>18 DEF vars
<1> QED
  BY <1>1, <1>2, <1>3, <1>4, <1>5, <1>6, <1>7, <1>8, <1>9,
     <1>10, <1>11, <1>12, <1>13, <1>14, <1>15, <1>16, <1>17, <1>18
  DEF Next, Service, Operation, End, AllEnded

\* A reader enters when there is no writer, a writer when there is no reader
LEMMA ReadersStep == ReadersExclude /\ [Next]_vars => ReadersExclude'
<1> SUFFICES ASSUME ReadersExclude, [Next]_vars
             PROVE  ReadersExclude'
  OBVIOUS
<1> USE DEF ReadersExclude, ReadLocked, WriteLockFree
<1>1. ASSUME NEW t \in Tx, Call(t) PROVE ReadersExclude'
  BY <1>1 DEF Call, Moves, memVars, lockVars, dbVars, callVars
<1>2. ASSUME NEW t \in Tx, ExplicitCommit(t) PROVE ReadersExclude'
  BY <1>2 DEF ExplicitCommit, CommitRows, memVars, lockVars, dbVars, callVars
<1>3. ASSUME NEW t \in Tx, Close(t) PROVE ReadersExclude'
  BY <1>3 DEF Close, Moves, memVars, lockVars, dbVars, callVars
<1>4. ASSUME NEW t \in Tx, Abort(t) PROVE ReadersExclude'
  BY <1>4 DEF Abort, memVars, lockVars, dbVars, callVars
<1>5. ASSUME NEW t \in Tx, Enter(t) PROVE ReadersExclude'
  BY <1>5 DEF Enter, Moves, memVars, lockVars, dbVars, callVars
<1>6. ASSUME NEW t \in Tx, NotFound(t) PROVE ReadersExclude'
  BY <1>6 DEF NotFound, Moves, memVars, lockVars, dbVars, callVars
<1>7. ASSUME NEW t \in Tx, Execute(t) PROVE ReadersExclude'
  BY <1>7 DEF Execute
<1>8. ASSUME NEW t \in Tx, ExecuteFails(t) PROVE ReadersExclude'
  BY <1>8 DEF ExecuteFails, Moves, memVars, lockVars, dbVars, callVars
<1>9. ASSUME NEW t \in Tx, BeforeClose(t) PROVE ReadersExclude'
  BY <1>9 DEF BeforeClose, Moves, memVars, lockVars, dbVars, callVars
<1>10. ASSUME NEW t \in Tx, Commit(t) PROVE ReadersExclude'
  BY <1>10 DEF Commit, CommitRows, Moves, memVars, lockVars, dbVars, callVars
<1>11. ASSUME NEW t \in Tx, CommitFails(t) PROVE ReadersExclude'
  BY <1>11 DEF CommitFails, Moves, memVars, lockVars, dbVars, callVars
<1>12. ASSUME NEW t \in Tx, Notify(t) PROVE ReadersExclude'
  BY <1>12 DEF Notify, Moves, memVars, lockVars, dbVars, callVars
<1>13. ASSUME NEW t \in Tx, BeginFlush(t) PROVE ReadersExclude'
  BY <1>13 DEF BeginFlush, Moves, memVars, lockVars, dbVars, callVars
<1>14. ASSUME NEW t \in Tx, FlushTask(t) PROVE ReadersExclude'
  BY <1>14 DEF FlushTask, memVars, lockVars, dbVars, callVars
<1>15. ASSUME NEW t \in Tx, EndFlush(t) PROVE ReadersExclude'
  BY <1>15 DEF EndFlush, Moves, memVars, lockVars, dbVars, callVars
<1>16. ASSUME NEW t \in Tx, DropTasks(t) PROVE ReadersExclude'
  BY <1>16 DEF DropTasks, Moves, memVars, lockVars, dbVars, callVars
<1>17. ASSUME NEW r \in Reader, Get(r) PROVE ReadersExclude'
  BY <1>17 DEF Get, BeginGet, BuildNode, EndGet, memVars, dbVars, callVars
<1>18. CASE UNCHANGED vars
  BY <1>18 DEF vars
<1> QED
  BY <1>1, <1>2, <1>3, <1>4, <1>5, <1>6, <1>7, <1>8, <1>9,
     <1>10, <1>11, <1>12, <1>13, <1>14, <1>15, <1>16, <1>17, <1>18
  DEF Next, Service, Operation, End, AllEnded

\* The tree takes values from the transaction that flushes, and from no other
LEMMA VisibleStep == TypeOK /\ OnlyClosedVisible /\ [Next]_vars => OnlyClosedVisible'
<1> SUFFICES ASSUME TypeOK, OnlyClosedVisible, [Next]_vars
             PROVE  OnlyClosedVisible'
  OBVIOUS
<1> USE DEF TypeOK, OnlyClosedVisible
<1>1. ASSUME NEW t \in Tx, Call(t) PROVE OnlyClosedVisible'
  BY <1>1 DEF Call, Moves, memVars, lockVars, dbVars, callVars
<1>2. ASSUME NEW t \in Tx, ExplicitCommit(t) PROVE OnlyClosedVisible'
  BY <1>2 DEF ExplicitCommit, CommitRows, memVars, lockVars, dbVars, callVars
<1>3. ASSUME NEW t \in Tx, Close(t) PROVE OnlyClosedVisible'
  BY <1>3 DEF Close, Moves, memVars, lockVars, dbVars, callVars
<1>4. ASSUME NEW t \in Tx, Abort(t) PROVE OnlyClosedVisible'
  BY <1>4 DEF Abort, memVars, lockVars, dbVars, callVars
<1>5. ASSUME NEW t \in Tx, Enter(t) PROVE OnlyClosedVisible'
  BY <1>5 DEF Enter, Moves, memVars, lockVars, dbVars, callVars
<1>6. ASSUME NEW t \in Tx, NotFound(t) PROVE OnlyClosedVisible'
  BY <1>6 DEF NotFound, Moves, memVars, lockVars, dbVars, callVars
<1>7. ASSUME NEW t \in Tx, Execute(t) PROVE OnlyClosedVisible'
  <2>1. PICK s \in NextStatements(t) :
          /\ written' = [written EXCEPT ![t][s.id] = RowChange(t, s)]
          /\ tasks' = [tasks EXCEPT ![t] = Append(tasks[t], s)]
          /\ \/ status' = [status EXCEPT ![t] = "open"]
             \/ UNCHANGED status
    BY <1>7 DEF Execute, Recorded
  <2>2. status[t] = "executing" /\ UNCHANGED root
    BY <1>7 DEF Execute
  <2> QED
    BY <2>1, <2>2
<1>8. ASSUME NEW t \in Tx, ExecuteFails(t) PROVE OnlyClosedVisible'
  BY <1>8 DEF ExecuteFails, Moves, memVars, lockVars, dbVars, callVars
<1>9. ASSUME NEW t \in Tx, BeforeClose(t) PROVE OnlyClosedVisible'
  BY <1>9 DEF BeforeClose, Moves, memVars, lockVars, dbVars, callVars
<1>10. ASSUME NEW t \in Tx, Commit(t) PROVE OnlyClosedVisible'
  BY <1>10 DEF Commit, CommitRows, Moves, memVars, lockVars, dbVars, callVars
<1>11. ASSUME NEW t \in Tx, CommitFails(t) PROVE OnlyClosedVisible'
  BY <1>11 DEF CommitFails, Moves, memVars, lockVars, dbVars, callVars
<1>12. ASSUME NEW t \in Tx, Notify(t) PROVE OnlyClosedVisible'
  BY <1>12 DEF Notify, Moves, memVars, lockVars, dbVars, callVars
<1>13. ASSUME NEW t \in Tx, BeginFlush(t) PROVE OnlyClosedVisible'
  BY <1>13 DEF BeginFlush, Moves, memVars, lockVars, dbVars, callVars
<1>14. ASSUME NEW t \in Tx, FlushTask(t) PROVE OnlyClosedVisible'
  <2>1. tasks[t] \in Seq(Statement) /\ tasks[t] # <<>>
    BY <1>14 DEF FlushTask
  <2>2. PICK k \in Statement : root' = Applied(root, t, k)
    BY <1>14, <2>1 DEF FlushTask
  <2>3. \A i \in Ids : root'[i] \in {root[i], t, Absent}
    BY <2>2 DEF Applied, Statement
  <2>4. status[t] = "flushing" /\ UNCHANGED status
    BY <1>14 DEF FlushTask
  <2> QED
    BY <2>3, <2>4, SettingAssumption
<1>15. ASSUME NEW t \in Tx, EndFlush(t) PROVE OnlyClosedVisible'
  BY <1>15 DEF EndFlush, Moves, memVars, lockVars, dbVars, callVars
<1>16. ASSUME NEW t \in Tx, DropTasks(t) PROVE OnlyClosedVisible'
  BY <1>16 DEF DropTasks, Moves, memVars, lockVars, dbVars, callVars
<1>17. ASSUME NEW r \in Reader, Get(r) PROVE OnlyClosedVisible'
  BY <1>17 DEF Get, BeginGet, BuildNode, EndGet, memVars, dbVars, callVars
<1>18. CASE UNCHANGED vars
  BY <1>18 DEF vars
<1> QED
  BY <1>1, <1>2, <1>3, <1>4, <1>5, <1>6, <1>7, <1>8, <1>9,
     <1>10, <1>11, <1>12, <1>13, <1>14, <1>15, <1>16, <1>17, <1>18
  DEF Next, Service, Operation, End, AllEnded
\* Appending a task keeps the others in their places
LEMMA AppendKeeps ==
  ASSUME NEW q \in Seq(Statement), NEW s \in Statement
  PROVE  /\ \A n \in DOMAIN q : n \in DOMAIN Append(q, s) /\ Append(q, s)[n] = q[n]
         /\ Len(q) + 1 \in DOMAIN Append(q, s)
         /\ Append(q, s)[Len(q) + 1] = s
OBVIOUS

\* A statement that changes a row appends the task that will publish it
LEMMA TaskStep == TypeOK /\ RowsSettled /\ RowChangeHasTask /\ [Next]_vars => RowChangeHasTask'
<1> SUFFICES ASSUME TypeOK, RowsSettled, RowChangeHasTask, [Next]_vars
             PROVE  RowChangeHasTask'
  OBVIOUS
<1> USE DEF TypeOK, RowsSettled, RowChangeHasTask, Nothing
<1>1. ASSUME NEW t \in Tx, Call(t) PROVE RowChangeHasTask'
  BY <1>1 DEF Call, Moves, memVars, lockVars, dbVars, callVars
<1>2. ASSUME NEW t \in Tx, ExplicitCommit(t) PROVE RowChangeHasTask'
  BY <1>2 DEF ExplicitCommit, CommitRows, memVars, lockVars, dbVars, callVars
<1>3. ASSUME NEW t \in Tx, Close(t) PROVE RowChangeHasTask'
  BY <1>3 DEF Close, Moves, memVars, lockVars, dbVars, callVars
<1>4. ASSUME NEW t \in Tx, Abort(t) PROVE RowChangeHasTask'
  BY <1>4 DEF Abort, memVars, lockVars, dbVars, callVars
<1>5. ASSUME NEW t \in Tx, Enter(t) PROVE RowChangeHasTask'
  BY <1>5 DEF Enter, Moves, memVars, lockVars, dbVars, callVars
<1>6. ASSUME NEW t \in Tx, NotFound(t) PROVE RowChangeHasTask'
  BY <1>6 DEF NotFound, Moves, memVars, lockVars, dbVars, callVars
<1>7. ASSUME NEW t \in Tx, Execute(t) PROVE RowChangeHasTask'
  <2>1. PICK s \in NextStatements(t) :
          /\ written' = [written EXCEPT ![t][s.id] = RowChange(t, s)]
          /\ tasks' = [tasks EXCEPT ![t] = Append(tasks[t], s)]
    BY <1>7 DEF Execute, Recorded
  <2>2. s \in Statement /\ s.id \in Ids
    BY DEF NextStatements, Statement
  <2> SUFFICES ASSUME NEW u \in Tx, NEW i \in Ids, written'[u][i] # Unset
               PROVE  \E n \in DOMAIN tasks'[u] : tasks'[u][n].id = i
    OBVIOUS
  <2>3. CASE u # t
    <3>1. written'[u] = written[u] /\ tasks'[u] = tasks[u]
      BY <2>1, <2>3
    <3> QED
      BY <3>1
  <2>4. CASE u = t
    <3>1. tasks'[t] = Append(tasks[t], s) /\ tasks[t] \in Seq(Statement)
      BY <2>1
    <3>2. CASE i = s.id
      BY <2>2, <2>4, <3>1, <3>2, AppendKeeps
    <3>3. CASE i # s.id
      <4>1. written[t][i] # Unset
        BY <2>1, <2>4, <3>3
      <4>2. PICK n \in DOMAIN tasks[t] : tasks[t][n].id = i
        BY <4>1
      <4> QED
        BY <2>2, <2>4, <3>1, <4>2, AppendKeeps
    <3> QED
      BY <3>2, <3>3
  <2> QED
    BY <2>3, <2>4
<1>8. ASSUME NEW t \in Tx, ExecuteFails(t) PROVE RowChangeHasTask'
  BY <1>8 DEF ExecuteFails, Moves, memVars, lockVars, dbVars, callVars
<1>9. ASSUME NEW t \in Tx, BeforeClose(t) PROVE RowChangeHasTask'
  BY <1>9 DEF BeforeClose, Moves, memVars, lockVars, dbVars, callVars
<1>10. ASSUME NEW t \in Tx, Commit(t) PROVE RowChangeHasTask'
  BY <1>10 DEF Commit, CommitRows, Moves, memVars, lockVars, dbVars, callVars
<1>11. ASSUME NEW t \in Tx, CommitFails(t) PROVE RowChangeHasTask'
  BY <1>11 DEF CommitFails, Moves, memVars, lockVars, dbVars, callVars
<1>12. ASSUME NEW t \in Tx, Notify(t) PROVE RowChangeHasTask'
  BY <1>12 DEF Notify, Moves, memVars, lockVars, dbVars, callVars
<1>13. ASSUME NEW t \in Tx, BeginFlush(t) PROVE RowChangeHasTask'
  BY <1>13 DEF BeginFlush, Moves, memVars, lockVars, dbVars, callVars
<1>14. ASSUME NEW t \in Tx, FlushTask(t) PROVE RowChangeHasTask'
  <2>1. status[t] = "flushing" /\ UNCHANGED written
    BY <1>14 DEF FlushTask, dbVars
  <2>2. \A i \in Ids : written[t][i] = Unset
    BY <2>1 DEF Nothing
  <2>3. \A u \in Tx \ {t} : tasks'[u] = tasks[u]
    BY <1>14 DEF FlushTask
  <2> SUFFICES ASSUME NEW u \in Tx, NEW i \in Ids, written'[u][i] # Unset
               PROVE  \E n \in DOMAIN tasks'[u] : tasks'[u][n].id = i
    OBVIOUS
  <2>4. u # t /\ written[u][i] # Unset
    BY <2>1, <2>2
  <2>5. tasks'[u] = tasks[u]
    BY <2>3, <2>4
  <2> QED
    BY <2>4, <2>5
<1>15. ASSUME NEW t \in Tx, EndFlush(t) PROVE RowChangeHasTask'
  BY <1>15 DEF EndFlush, Moves, memVars, lockVars, dbVars, callVars
<1>16. ASSUME NEW t \in Tx, DropTasks(t) PROVE RowChangeHasTask'
  <2>1. status[t] = "notifyAbort" /\ UNCHANGED written
    BY <1>16 DEF DropTasks, Moves, dbVars
  <2>2. \A i \in Ids : written[t][i] = Unset
    BY <2>1 DEF Nothing
  <2>3. \A u \in Tx \ {t} : tasks'[u] = tasks[u]
    BY <1>16 DEF DropTasks
  <2> SUFFICES ASSUME NEW u \in Tx, NEW i \in Ids, written'[u][i] # Unset
               PROVE  \E n \in DOMAIN tasks'[u] : tasks'[u][n].id = i
    OBVIOUS
  <2>4. u # t /\ written[u][i] # Unset
    BY <2>1, <2>2
  <2>5. tasks'[u] = tasks[u]
    BY <2>3, <2>4
  <2> QED
    BY <2>4, <2>5
<1>17. ASSUME NEW r \in Reader, Get(r) PROVE RowChangeHasTask'
  BY <1>17 DEF Get, BeginGet, BuildNode, EndGet, memVars, dbVars, callVars
<1>18. CASE UNCHANGED vars
  BY <1>18 DEF vars
<1> QED
  BY <1>1, <1>2, <1>3, <1>4, <1>5, <1>6, <1>7, <1>8, <1>9,
     <1>10, <1>11, <1>12, <1>13, <1>14, <1>15, <1>16, <1>17, <1>18
  DEF Next, Service, Operation, End, AllEnded

\* What readers see depends on the tree and its links alone
LEMMA VisibleSame == UNCHANGED <<root, parentOf>> => Visible' = Visible
BY DEF Visible, Reachable

\* No step changes the visible tree while a reader copies it
LEMMA ReadStep == TypeOK /\ WriterOwns /\ ReadersExclude /\ NoTornRead /\ [Next]_vars => NoTornRead'
<1> SUFFICES ASSUME TypeOK, WriterOwns, ReadersExclude, NoTornRead, [Next]_vars
             PROVE  NoTornRead'
  OBVIOUS
<1> USE DEF TypeOK, NoTornRead
<1>1. ASSUME NEW t \in Tx, Call(t) PROVE NoTornRead'
  BY <1>1, VisibleSame DEF Call, memVars, lockVars
<1>2. ASSUME NEW t \in Tx, ExplicitCommit(t) PROVE NoTornRead'
  BY <1>2, VisibleSame DEF ExplicitCommit, memVars, lockVars
<1>3. ASSUME NEW t \in Tx, Close(t) PROVE NoTornRead'
  BY <1>3, VisibleSame DEF Close, memVars, lockVars
<1>4. ASSUME NEW t \in Tx, Abort(t) PROVE NoTornRead'
  BY <1>4, VisibleSame DEF Abort, memVars, lockVars
<1>5. ASSUME NEW t \in Tx, Enter(t) PROVE NoTornRead'
  <2>1. ~ReadLocked /\ UNCHANGED view
    BY <1>5 DEF Enter, WriteLockFree
  <2> QED
    BY <2>1 DEF ReadLocked
<1>6. ASSUME NEW t \in Tx, NotFound(t) PROVE NoTornRead'
  BY <1>6, VisibleSame DEF NotFound, memVars, lockVars
<1>7. ASSUME NEW t \in Tx, Execute(t) PROVE NoTornRead'
  BY <1>7, VisibleSame DEF Execute
<1>8. ASSUME NEW t \in Tx, ExecuteFails(t) PROVE NoTornRead'
  BY <1>8, VisibleSame DEF ExecuteFails, memVars, lockVars
<1>9. ASSUME NEW t \in Tx, BeforeClose(t) PROVE NoTornRead'
  BY <1>9, VisibleSame DEF BeforeClose, memVars, lockVars
<1>10. ASSUME NEW t \in Tx, Commit(t) PROVE NoTornRead'
  BY <1>10, VisibleSame DEF Commit, memVars, lockVars
<1>11. ASSUME NEW t \in Tx, CommitFails(t) PROVE NoTornRead'
  BY <1>11, VisibleSame DEF CommitFails, memVars, lockVars
<1>12. ASSUME NEW t \in Tx, Notify(t) PROVE NoTornRead'
  BY <1>12, VisibleSame DEF Notify, memVars, lockVars
<1>13. ASSUME NEW t \in Tx, BeginFlush(t) PROVE NoTornRead'
  BY <1>13, VisibleSame DEF BeginFlush, memVars, lockVars
<1>14. ASSUME NEW t \in Tx, FlushTask(t) PROVE NoTornRead'
  <2>1. writer = t /\ UNCHANGED view
    BY <1>14 DEF FlushTask, WriterOwns, lockVars
  <2>2. ~ReadLocked
    BY <2>1, SettingAssumption DEF ReadersExclude
  <2> QED
    BY <2>1, <2>2 DEF ReadLocked
<1>15. ASSUME NEW t \in Tx, EndFlush(t) PROVE NoTornRead'
  BY <1>15, VisibleSame DEF EndFlush, memVars, lockVars
<1>16. ASSUME NEW t \in Tx, DropTasks(t) PROVE NoTornRead'
  BY <1>16, VisibleSame DEF DropTasks, memVars, lockVars
<1>17. ASSUME NEW r \in Reader, Get(r) PROVE NoTornRead'
  <2>1. Visible' = Visible
    BY <1>17, VisibleSame DEF Get, BeginGet, BuildNode, EndGet, memVars
  <2>2. CASE BeginGet(r)
    BY <2>1, <2>2 DEF BeginGet, Nothing
  <2>3. CASE BuildNode(r)
    <3>1. PICK i \in Ids : view' = [view EXCEPT ![r][i] = Visible[i]]
      BY <2>3 DEF BuildNode
    <3>2. view[r] \in [Ids -> Value \cup {Absent, Unset}]
      BY <2>3 DEF BuildNode, TypeOK
    <3> QED
      BY <2>1, <2>3, <3>1, <3>2 DEF BuildNode
  <2>4. CASE EndGet(r)
    BY <2>1, <2>4 DEF EndGet
  <2> QED
    BY <1>17, <2>2, <2>3, <2>4 DEF Get
<1>18. CASE UNCHANGED vars
  BY <1>18, VisibleSame DEF vars
<1> QED
  BY <1>1, <1>2, <1>3, <1>4, <1>5, <1>6, <1>7, <1>8, <1>9,
     <1>10, <1>11, <1>12, <1>13, <1>14, <1>15, <1>16, <1>17, <1>18
  DEF Next, Service, Operation, End, AllEnded

-----------------------------------------------------------------------------
\* The inductive invariant holds at startup
LEMMA InitInv == Init => IInv
<1> SUFFICES ASSUME Init PROVE IInv
  OBVIOUS
<1>1. TypeOK
  BY InitType
<1>2. InCall /\ RowsSettled
  BY DEF Init, InCall, RowsSettled
<1>3. WriterOwns /\ MonitorOwns
  BY SettingAssumption DEF Init, WriterOwns, MonitorOwns
<1>4. TasksGone /\ ReadersExclude
  BY DEF Init, TasksGone, Over, ReadersExclude, ReadLocked
<1>5. OnlyClosedVisible
  BY SettingAssumption DEF Init, OnlyClosedVisible
<1>6. RowChangeHasTask
  BY DEF Init, RowChangeHasTask, Nothing
<1>7. NoTornRead
  BY DEF Init, NoTornRead
<1> QED
  BY <1>1, <1>2, <1>3, <1>4, <1>5, <1>6, <1>7 DEF IInv

\* Every step keeps the inductive invariant
LEMMA NextInv == IInv /\ [Next]_vars => IInv'
BY TypeStep, LockStep, SettledStep, ReadersStep, VisibleStep, TaskStep, ReadStep
DEF IInv

\* The inductive invariant holds in every reachable state.
THEOREM Inductive == Spec => []IInv
BY InitInv, NextInv, PTL DEF Spec

\* Every variable keeps its type, for any number of transactions and readers.
THEOREM TypeCorrect == Spec => []TypeOK
<1>1. IInv => TypeOK
  BY DEF IInv
<1> QED
  BY Inductive, <1>1, PTL

\* Isolation: the tree holds the values of closed transactions only, whatever
\* the transactions and readers do (SettingManager lines 51-55).
THEOREM Isolation == Spec => []OnlyClosedVisible
<1>1. IInv => OnlyClosedVisible
  BY DEF IInv
<1> QED
  BY Inductive, <1>1, PTL

\* A transaction that ended holds no lock, no row and no task.
THEOREM EndLeavesNothing == Spec => []NoLeftover
<1>1. IInv => NoLeftover
  BY SettingAssumption
  DEF IInv, NoLeftover, Over, WriterOwns, MonitorOwns, RowsSettled, TasksGone
<1> QED
  BY Inductive, <1>1, PTL

\* get() copies one state of the tree, whatever flushes and reads interleave
\* (lines 121-135 and 629-652).
THEOREM ReadsAreWhole == Spec => []NoTornRead
<1>1. IInv => NoTornRead
  BY DEF IInv
<1> QED
  BY Inductive, <1>1, PTL

\* A row a transaction changed and did not publish has a task that will.
THEOREM EveryRowHasTask == Spec => []RowChangeHasTask
<1>1. IInv => RowChangeHasTask
  BY DEF IInv
<1> QED
  BY Inductive, <1>1, PTL

-----------------------------------------------------------------------------
(* The refinement of TransactionalSettings *)

\* f holds the trees a flush goes through, after 0, 1, .. m tasks of q
Trees(f, r, t, q, m) ==
  f = [n \in 0 .. m |-> IF n = 0 THEN r ELSE Applied(f[n - 1], t, q[n])]

\* There is such a function, however many tasks there are
LEMMA TreesExist ==
  ASSUME NEW r, NEW t, NEW q, NEW m \in Nat
  PROVE  \E f : Trees(f, r, t, q, m)
<1> DEFINE S == {k \in Nat : ~ \E f : Trees(f, r, t, q, k)}
<1> SUFFICES ASSUME S # {} PROVE FALSE
  OBVIOUS
<1>1. PICK k \in S : \A l \in S : k <= l
  <2>1. S \in SUBSET Nat
    OBVIOUS
  <2> HIDE DEF S
  <2> QED
    BY <2>1, LeastNatural
<1>2. CASE k = 0
  <2> DEFINE f == [n \in 0 .. 0 |-> r]
  <2>1. Trees(f, r, t, q, 0)
    BY DEF Trees
  <2> QED
    BY <1>2, <2>1
<1>3. CASE k # 0
  <2>1. k - 1 \in Nat /\ k - 1 \notin S
    BY <1>1, <1>3
  <2>2. PICK g : Trees(g, r, t, q, k - 1)
    BY <2>1
  <2> DEFINE f == [n \in 0 .. k |-> IF n = k THEN Applied(g[k - 1], t, q[k]) ELSE g[n]]
  <2>3. \A n \in 0 .. k - 1 : f[n] = g[n]
    BY <2>1
  <2>4. \A n \in 0 .. k - 1 : g[n] = IF n = 0 THEN r ELSE Applied(g[n - 1], t, q[n])
    BY <2>2 DEF Trees
  <2>5. \A n \in 0 .. k : f[n] = IF n = 0 THEN r ELSE Applied(f[n - 1], t, q[n])
    <3> TAKE n \in 0 .. k
    <3>1. CASE n = k
      <4>1. f[k] = Applied(g[k - 1], t, q[k]) /\ f[k - 1] = g[k - 1]
        BY <2>1, <2>3
      <4> QED
        BY <1>3, <3>1, <4>1
    <3>2. CASE n # k
      <4>1. n \in 0 .. k - 1 /\ (n # 0 => n - 1 \in 0 .. k - 1)
        BY <2>1, <3>2
      <4>2. f[n] = g[n] /\ (n # 0 => f[n - 1] = g[n - 1])
        BY <2>3, <4>1
      <4> QED
        BY <2>4, <4>1, <4>2
    <3> QED
      BY <3>1, <3>2
  <2>6. f = [n \in 0 .. k |-> f[n]]
    OBVIOUS
  <2> HIDE DEF f
  <2>7. Trees(f, r, t, q, k)
    BY <2>5, <2>6 DEF Trees
  <2> QED
    BY <2>7
<1> QED
  BY <1>2, <1>3

\* The trees of a flush end with the one AllApplied names
LEMMA LastTree ==
  ASSUME NEW r, NEW t, NEW q, Len(q) \in Nat
  PROVE  \E f : Trees(f, r, t, q, Len(q)) /\ AllApplied(r, t, q) = f[Len(q)]
<1> DEFINE f == CHOOSE g : Trees(g, r, t, q, Len(q))
<1>1. Trees(f, r, t, q, Len(q))
  BY TreesExist
<1>2. AllApplied(r, t, q) = f[Len(q)]
  BY DEF AllApplied, Trees
<1> QED
  BY <1>1, <1>2

\* A flush of no task changes nothing
LEMMA NoneApplied == \A r, t : AllApplied(r, t, <<>>) = r
<1> TAKE r, t
<1>1. PICK f : Trees(f, r, t, <<>>, 0) /\ AllApplied(r, t, <<>>) = f[0]
  BY LastTree
<1> QED
  BY <1>1 DEF Trees

\* A flush may be counted from the tree after its first task
LEMMA FirstApplied ==
  ASSUME NEW r, NEW t, NEW q \in Seq(Statement), q # <<>>
  PROVE  AllApplied(r, t, q) = AllApplied(Applied(r, t, Head(q)), t, Tail(q))
<1> DEFINE p == Tail(q)
           r1 == Applied(r, t, Head(q))
           m == Len(p)
<1>1. /\ m \in Nat /\ Len(q) = m + 1
      /\ Head(q) = q[1] /\ \A n \in 1 .. m : p[n] = q[n + 1]
  OBVIOUS
<1> HIDE DEF p
<1>2. PICK f : Trees(f, r, t, q, m + 1) /\ AllApplied(r, t, q) = f[m + 1]
  BY <1>1, LastTree
<1>3. PICK g : Trees(g, r1, t, p, m) /\ AllApplied(r1, t, p) = g[m]
  BY <1>1, LastTree
<1>4. \A n \in 0 .. m + 1 : f[n] = IF n = 0 THEN r ELSE Applied(f[n - 1], t, q[n])
  BY <1>1, <1>2 DEF Trees
<1>5. \A n \in 0 .. m : g[n] = IF n = 0 THEN r1 ELSE Applied(g[n - 1], t, p[n])
  BY <1>1, <1>3 DEF Trees
<1> HIDE DEF m
<1> DEFINE S == {n \in 0 .. m : g[n] # f[n + 1]}
<1>6. S = {}
  <2> SUFFICES ASSUME S # {} PROVE FALSE
    OBVIOUS
  <2>1. PICK k \in S : \A l \in S : k <= l
    <3>1. S \in SUBSET Nat
      BY <1>1
    <3> HIDE DEF S
    <3> QED
      BY <3>1, LeastNatural
  <2>2. CASE k = 0
    <3>1. f[1] = Applied(f[0], t, q[1]) /\ f[0] = r
      BY <1>1, <1>4
    <3>2. g[0] = r1
      BY <1>1, <1>5
    <3> QED
      BY <1>1, <2>1, <2>2, <3>1, <3>2
  <2>3. CASE k # 0
    <3>1. k \in 0 .. m /\ k - 1 \in 0 .. m /\ k - 1 \notin S
      BY <1>1, <2>1, <2>3
    <3>2. g[k - 1] = f[(k - 1) + 1] /\ (k - 1) + 1 = k
      BY <1>1, <3>1
    <3>3. g[k] = Applied(g[k - 1], t, p[k])
      BY <1>5, <2>3, <3>1
    <3>4. f[k + 1] = Applied(f[k], t, q[k + 1])
      <4>1. k + 1 \in 0 .. m + 1 /\ k + 1 # 0 /\ (k + 1) - 1 = k
        BY <1>1, <3>1
      <4> QED
        BY <1>4, <4>1
    <3>5. p[k] = q[k + 1]
      BY <1>1, <2>3, <3>1
    <3> QED
      BY <2>1, <3>2, <3>3, <3>4, <3>5
  <2> QED
    BY <2>2, <2>3
<1>7. g[m] = f[m + 1]
  BY <1>1, <1>6
<1> QED
  BY <1>2, <1>3, <1>7 DEF p

\* What the abstract specification publishes is what a flush applies
LEMMA PublishedIsApplied ==
  \A r, t, q : Promise!AllChanged(r, t, q) = AllApplied(r, t, q)
BY DEF Promise!AllChanged, Promise!Changed, AllApplied, Applied

\* The write lock lets one transaction flush at a time
LEMMA OneFlusher ==
  ASSUME WriterOwns, NEW t \in Tx, Flushing(t)
  PROVE  /\ Flusher = t
         /\ \A u \in Tx : Flushing(u) => u = t
         /\ Published = AllApplied(root, t, tasks[t])
<1>1. \A u \in Tx : Flushing(u) => u = t
  BY DEF WriterOwns, Flushing
<1>2. Flusher = t
  BY <1>1 DEF Flusher
<1> QED
  BY <1>1, <1>2 DEF Published

\* Between flushes the published tree is the tree, and all tasks are pending
LEMMA NoFlusher ==
  ASSUME TypeOK, \A t \in Tx : ~ Flushing(t)
  PROVE  Published = root /\ Unpublished = tasks
BY DEF Published, Unpublished, TypeOK

\* A step that touches neither the tree nor the tasks, and neither begins nor
\* ends a flush, is nothing to the promise
LEMMA QuietStep ==
  ASSUME WriterOwns, WriterOwns', UNCHANGED <<root, tasks>>,
         \A t \in Tx : Flushing(t)' <=> Flushing(t)
  PROVE  UNCHANGED <<Published, Unpublished>>
<1>1. Unpublished' = Unpublished
  BY DEF Unpublished
<1>2. CASE \E t \in Tx : Flushing(t)
  <2>1. PICK t \in Tx : Flushing(t)
    BY <1>2
  <2>2. Flusher = t /\ Flusher' = t
    BY <2>1 DEF Flusher, WriterOwns, Flushing
  <2> QED
    BY <1>1, <2>1, <2>2 DEF Published
<1>3. CASE \A t \in Tx : ~ Flushing(t)
  BY <1>1, <1>3 DEF Published
<1> QED
  BY <1>2, <1>3

\* Every step of the settings is a step of the promise, or nothing to it
LEMMA PromiseStep ==
  IInv /\ IInv' /\ [Next]_vars => [Promise!Next]_<<Published, Unpublished>>
<1> SUFFICES ASSUME IInv, IInv', [Next]_vars
             PROVE  Promise!Next \/ UNCHANGED <<Published, Unpublished>>
  OBVIOUS
<1> DEFINE Quiet == UNCHANGED <<Published, Unpublished>>
<1>0. TypeOK /\ TypeOK' /\ WriterOwns /\ WriterOwns'
  BY DEF IInv
<1>q. ASSUME UNCHANGED <<root, tasks>>, \A t \in Tx : Flushing(t)' <=> Flushing(t)
      PROVE  Quiet
  BY <1>0, <1>q, QuietStep
<1> HIDE DEF Quiet
<1> USE DEF Flushing
<1>1. ASSUME NEW t \in Tx, Call(t) PROVE Quiet
  BY <1>0, <1>1, <1>q DEF Call, Moves, memVars, TypeOK
<1>2. ASSUME NEW t \in Tx, ExplicitCommit(t) PROVE Quiet
  BY <1>0, <1>2, <1>q DEF ExplicitCommit, memVars
<1>3. ASSUME NEW t \in Tx, Close(t) PROVE Quiet
  BY <1>0, <1>3, <1>q DEF Close, Moves, memVars, TypeOK
<1>4. ASSUME NEW t \in Tx, Abort(t) PROVE Quiet
  BY <1>0, <1>4, <1>q DEF Abort, memVars, TypeOK
<1>5. ASSUME NEW t \in Tx, Enter(t) PROVE Quiet
  BY <1>0, <1>5, <1>q DEF Enter, Moves, TypeOK
<1>6. ASSUME NEW t \in Tx, NotFound(t) PROVE Quiet
  BY <1>0, <1>6, <1>q DEF NotFound, Moves, memVars, TypeOK
<1>7. ASSUME NEW t \in Tx, Execute(t) PROVE Promise!Next
  <2>1. PICK s \in NextStatements(t) : tasks' = [tasks EXCEPT ![t] = Append(tasks[t], s)]
    BY <1>7 DEF Execute, Recorded
  <2>2. s \in Promise!Change
    BY <1>0 DEF NextStatements, TypeOK, Statement, Promise!Change
  <2>3. /\ \A u \in Tx : ~ Flushing(u)
        /\ \A u \in Tx : ~ Flushing(u)'
    BY <1>0, <1>7 DEF Execute, WriterOwns, TypeOK
  <2>4. Published' = Published /\ Unpublished' = tasks' /\ Unpublished = tasks
    BY <1>0, <1>7, <2>3, NoFlusher DEF Execute, Published, Unpublished, TypeOK
  <2> QED
    BY <2>1, <2>2, <2>4 DEF Promise!Next, Promise!Record
<1>8. ASSUME NEW t \in Tx, ExecuteFails(t) PROVE Quiet
  BY <1>0, <1>8, <1>q DEF ExecuteFails, Moves, memVars, TypeOK
<1>9. ASSUME NEW t \in Tx, BeforeClose(t) PROVE Quiet
  BY <1>0, <1>9, <1>q DEF BeforeClose, Moves, memVars, TypeOK
<1>10. ASSUME NEW t \in Tx, Commit(t) PROVE Quiet
  BY <1>0, <1>10, <1>q DEF Commit, Moves, memVars, TypeOK
<1>11. ASSUME NEW t \in Tx, CommitFails(t) PROVE Quiet
  BY <1>0, <1>11, <1>q DEF CommitFails, Moves, memVars, TypeOK
<1>12. ASSUME NEW t \in Tx, Notify(t) PROVE Quiet
  BY <1>0, <1>12, <1>q DEF Notify, Moves, memVars, TypeOK
<1>13. ASSUME NEW t \in Tx, BeginFlush(t) PROVE Promise!Next
  <2>1. writer = NoTx /\ Flushing(t)' /\ UNCHANGED <<root, tasks>>
    BY <1>0, <1>13 DEF BeginFlush, WriteLockFree, Moves, TypeOK, memVars
  <2>2. \A u \in Tx : ~ Flushing(u)
    BY <1>0, <2>1, SettingAssumption DEF WriterOwns
  <2>3. Published = root /\ Unpublished = tasks
    BY <1>0, <2>2, NoFlusher
  <2>4. \A u \in Tx : Flushing(u)' <=> u = t
    BY <1>0, <2>1 DEF WriterOwns
  <2>5. Published' = AllApplied(root, t, tasks[t])
    <3>1. Flusher' = t
      BY <2>4 DEF Flusher
    <3> QED
      BY <2>1, <3>1 DEF Published
  <2>6. Published' = Promise!AllChanged(Published, t, Unpublished[t])
    BY <2>3, <2>5, PublishedIsApplied
  <2>7. Unpublished' = [Unpublished EXCEPT ![t] = <<>>]
    BY <1>0, <2>1, <2>3, <2>4 DEF Unpublished, TypeOK
  <2> QED
    BY <2>6, <2>7 DEF Promise!Next, Promise!Publish
<1>14. ASSUME NEW t \in Tx, FlushTask(t) PROVE Quiet
  <2>1. Flushing(t) /\ Flushing(t)' /\ UNCHANGED status
    BY <1>14 DEF FlushTask
  <2>2. Published = AllApplied(root, t, tasks[t])
    BY <1>0, <2>1, OneFlusher
  <2>3. \A u \in Tx : Flushing(u)' <=> u = t
    BY <1>0, <2>1 DEF WriterOwns
  <2>4. Published' = AllApplied(root', t, tasks'[t])
    <3>1. Flusher' = t
      BY <2>3 DEF Flusher
    <3> QED
      BY <2>1, <3>1 DEF Published
  <2>5. /\ tasks[t] \in Seq(Statement) /\ tasks[t] # <<>>
        /\ root' = Applied(root, t, Head(tasks[t]))
        /\ tasks'[t] = Tail(tasks[t])
    BY <1>0, <1>14 DEF FlushTask, TypeOK
  <2>6. Published' = Published
    BY <2>2, <2>4, <2>5, FirstApplied
  <2>7. Unpublished' = Unpublished
    BY <1>0, <1>14, <2>1 DEF Unpublished, FlushTask, TypeOK
  <2> QED
    BY <2>6, <2>7 DEF Quiet
<1>15. ASSUME NEW t \in Tx, EndFlush(t) PROVE Quiet
  <2>1. Flushing(t) /\ tasks[t] = <<>> /\ UNCHANGED <<root, tasks>>
    BY <1>15 DEF EndFlush, Moves, memVars
  <2>2. Published = root
    BY <1>0, <2>1, OneFlusher, NoneApplied
  <2>3. \A u \in Tx : ~ Flushing(u)'
    BY <1>0, <1>15, SettingAssumption DEF EndFlush, WriterOwns
  <2>4. Published' = root
    BY <2>1, <2>3 DEF Published
  <2>5. \A u \in Tx \ {t} : ~ Flushing(u)
    BY <1>0, <2>1 DEF WriterOwns
  <2>6. Unpublished' = Unpublished
    BY <2>1, <2>3, <2>5 DEF Unpublished
  <2> QED
    BY <2>2, <2>4, <2>6 DEF Quiet
<1>16. ASSUME NEW t \in Tx, DropTasks(t) PROVE Promise!Next
  <2>1. /\ \A u \in Tx : ~ Flushing(u)
        /\ \A u \in Tx : ~ Flushing(u)'
    BY <1>0, <1>16, SettingAssumption DEF DropTasks, WriteLockFree, WriterOwns, Moves
  <2>2. /\ Published' = Published
        /\ Unpublished' = tasks' /\ Unpublished = tasks
    BY <1>0, <1>16, <2>1 DEF DropTasks, Published, Unpublished, TypeOK
  <2>3. Unpublished' = [Unpublished EXCEPT ![t] = <<>>]
    BY <1>16, <2>2 DEF DropTasks
  <2> QED
    BY <2>2, <2>3 DEF Promise!Next, Promise!Discard
<1>17. ASSUME NEW r \in Reader, Get(r) PROVE Quiet
  BY <1>0, <1>17, <1>q DEF Get, BeginGet, BuildNode, EndGet, memVars
<1>18. CASE UNCHANGED vars
  <2>1. Quiet
    BY <1>0, <1>18, <1>q DEF vars
  <2> QED
    BY <2>1 DEF Quiet
<1> QED
  BY <1>1, <1>2, <1>3, <1>4, <1>5, <1>6, <1>7, <1>8, <1>9,
     <1>10, <1>11, <1>12, <1>13, <1>14, <1>15, <1>16, <1>17, <1>18
  DEF Next, Service, Operation, End, AllEnded, Quiet

\* The startup state is one of the promise
LEMMA PromiseInit == Init => Promise!Init
<1> SUFFICES ASSUME Init PROVE Promise!Init
  OBVIOUS
<1>1. TypeOK /\ \A t \in Tx : ~ Flushing(t)
  BY InitType DEF Init, Flushing
<1>2. Published = root /\ Unpublished = tasks
  BY <1>1, NoFlusher
<1> QED
  BY <1>2 DEF Init, Promise!Init

\* The settings keep the promise of the class comment (lines 51-63): a
\* transaction's changes appear all together and in order when it is closed,
\* never before, and never when it is aborted - for any number of
\* transactions, readers, settings and operations.
THEOREM PromiseKept == Spec => KeepsPromise
<1>1. Init => Promise!Init
  BY PromiseInit
<1>2. IInv /\ IInv' /\ [Next]_vars => [Promise!Next]_<<Published, Unpublished>>
  BY PromiseStep
<1> QED
  BY <1>1, <1>2, Inductive, PTL DEF Spec, KeepsPromise, Promise!Spec
=============================================================================
