--------------------------- MODULE SettingManager ---------------------------
(***************************************************************************)
(* The settings of the catalogue: kernel/setting/SettingManager.java, its  *)
(* Task and Setting classes, and the way AbstractDbmsPool ends a           *)
(* transaction and tells its listeners.                                    *)
(*                                                                         *)
(* A setting lives twice: as a row of the Settings table and as a node of  *)
(* a tree in memory.  An operation runs its SQL under the write lock and   *)
(* leaves a Task behind; the tasks of a transaction are applied to the     *)
(* tree when the pool closes its Dbms, and dropped when it aborts it.      *)
(*                                                                         *)
(* The database is external: READ COMMITTED, row locks kept to the end of  *)
(* the transaction, a foreign key from a row to its parent.  What a row    *)
(* or a node stores is the transaction that wrote it.                      *)
(***************************************************************************)
EXTENDS Naturals, FiniteSets, SequencesExt

CONSTANTS
  Tx,           (* the Dbms objects: one per request or harvest run        *)
  Reader,       (* threads that read settings                              *)
  MaxId,        (* bound on Settings.id                                    *)
  BootParent,   (* parentid of the rows found at startup; 0 is the root    *)
  MaxCalls,     (* bound on the operations of all transactions together    *)
  LockTimeouts, (* whether the database gives up waiting for a row lock    *)
  Original,     (* the value of a setting nobody wrote since startup       *)
  Absent,       (* no such row, no such node                               *)
  Unset,        (* row not written by this Dbms, node not yet built       *)
  NoTx,         (* a lock nobody holds                                     *)
  NoCall        (* a transaction that is in no operation                   *)

Ids == 1 .. MaxId
Boot == DOMAIN BootParent
Value == Tx \cup {Original}

ASSUME SettingAssumption ==
  /\ MaxId \in Nat
  /\ Boot \subseteq Ids
  /\ \A i \in Boot : BootParent[i] \in (Boot \cup {0}) /\ BootParent[i] < i
  /\ MaxCalls \in Nat
  /\ LockTimeouts \in BOOLEAN
  /\ {Original, Absent, Unset, NoTx} \cap Tx = {}
  /\ Original # Absent /\ Unset \notin {Original, Absent}

VARIABLES
  root,       (* the tree: what the node of each setting holds             *)
  tasks,      (* the pending tasks of each Dbms, in the list's order       *)
  maxSerial,  (* the last id given to a setting                            *)
  parentOf,   (* the parent each id was created under                      *)
  writer,     (* who holds the write lock                                  *)
  view,       (* what the get() of a reader has built so far, if in one    *)
  hsListeners,(* who holds the monitor of the pool's listener set          *)
  db,         (* the committed Settings table                              *)
  written,    (* the uncommitted row changes (and row locks) of each Dbms  *)
  status,     (* where the thread that uses each Dbms is                   *)
  call,       (* the operation it is in                                    *)
  todo,       (* the SQL statements left of that operation                 *)
  calls       (* how many operations have been started                     *)

vars == <<root, tasks, maxSerial, parentOf, writer, view, hsListeners,
          db, written, status, call, todo, calls>>

lockVars == <<writer, view, hsListeners>>
memVars == <<root, tasks, maxSerial, parentOf>>
dbVars == <<db, written>>
callVars == <<call, todo, calls>>

-----------------------------------------------------------------------------
(* The tree *)

\* resolve() walks down from the root: it finds a node whose ancestors are
\* all still linked.
Reachable(i) ==
  LET linked[j \in Ids] ==
        /\ root[j] # Absent
        /\ parentOf[j] # 0 => linked[parentOf[j]]
  IN  linked[i]

\* j is the node i or lies below it
Below(i, j) ==
  LET under[k \in Ids] == k # i => parentOf[k] # 0 /\ under[parentOf[k]]
  IN  under[j]

\* what get() and getValue() return for each setting
Visible == [i \in Ids |-> IF Reachable(i) THEN root[i] ELSE Absent]

\* Setting.setValue, addChild and removeFromParent, for a task of t; a value
\* set on a node that was unlinked meanwhile is set on garbage
Applied(r, t, task) ==
  [r EXCEPT ![task.id] =
     IF task.op = "del" \/ (task.op = "set" /\ @ = Absent) THEN Absent ELSE t]

\* the node is pending in an ADDED task of this very Dbms
FindAmongAdded(t, i) ==
  \E n \in DOMAIN tasks[t] : tasks[t][n] = [op |-> "add", id |-> i]

-----------------------------------------------------------------------------
(* The database *)

Seen(t, i) == IF written[t][i] # Unset THEN written[t][i] ELSE db[i]

LockedByOther(t, i) == \E u \in Tx \ {t} : written[u][i] # Unset

Children(i) == {j \in Ids : parentOf[j] = i}

\* the statement must wait for another transaction to end
Blocked(t, s) ==
  CASE s.op = "set" -> LockedByOther(t, s.id)
    [] s.op = "add" -> \E u \in Tx \ {t} : /\ parentOf[s.id] # 0
                                           /\ written[u][parentOf[s.id]] = Absent
    [] s.op = "del" -> \E i \in Children(s.id) \cup {s.id} : LockedByOther(t, i)

\* the foreign key refuses the statement
Refused(t, s) ==
  \/ s.op = "add" /\ parentOf[s.id] # 0 /\ Seen(t, parentOf[s.id]) = Absent
  \/ s.op = "del" /\ \E i \in Children(s.id) : Seen(t, i) # Absent

\* Mutant: an UPDATE resets the row
RowChange_Reset(t, s) == IF s.op = "set" THEN Original ELSE t

\* an UPDATE or DELETE of a row that is gone affects no row, and says nothing
RowChange(t, s) ==
  CASE s.op = "add" -> t
    [] s.op = "set" -> IF Seen(t, s.id) = Absent THEN written[t][s.id] ELSE t
    [] s.op = "del" -> IF Seen(t, s.id) = Absent THEN written[t][s.id] ELSE Absent

Nothing == [i \in Ids |-> Unset]

CommitRows(t) ==
  /\ db' = [i \in Ids |-> Seen(t, i)]
  /\ written' = [written EXCEPT ![t] = Nothing]

-----------------------------------------------------------------------------
\* SELECT MAX(id) FROM Settings
LastId == IF Boot = {} THEN 0 ELSE Max(Boot)

Init ==
  /\ root = [i \in Ids |-> IF i \in Boot THEN Original ELSE Absent]
  /\ db = root
  /\ parentOf = [i \in Ids |-> IF i \in Boot THEN BootParent[i] ELSE 0]
  /\ maxSerial = LastId
  /\ tasks = [t \in Tx |-> <<>>]
  /\ writer = NoTx
  /\ view = [r \in Reader |-> NoCall]
  /\ hsListeners = NoTx
  /\ written = [t \in Tx |-> Nothing]
  /\ status = [t \in Tx |-> "open"]
  /\ call = [t \in Tx |-> NoCall]
  /\ todo = [t \in Tx |-> {}]
  /\ calls = 0

Moves(t, from, to) ==
  /\ status[t] = from
  /\ status' = [status EXCEPT ![t] = to]

ReadLocked == \E r \in Reader : view[r] # NoCall
WriteLockFree == writer = NoTx /\ ~ReadLocked

-----------------------------------------------------------------------------
(* setValue, setValues, setName, add, remove, removeChildren               *)

Requests ==
  [op : {"setValues"}, ids : SUBSET Ids \ {{}}]
    \cup [op : {"add"}, parent : Ids]
    \cup [op : {"remove", "removeChildren"}, id : Ids]

\* the caller names settings that exist or existed
Call(t) ==
  /\ Moves(t, "open", "calling")
  /\ calls < MaxCalls
  /\ \E c \in Requests :
       /\ CASE c.op = "setValues" -> c.ids \subseteq 1 .. maxSerial
            [] c.op = "add" -> c.parent <= maxSerial
            [] OTHER -> c.id <= maxSerial
       /\ call' = [call EXCEPT ![t] = c]
  /\ calls' = calls + 1
  /\ UNCHANGED <<memVars, lockVars, dbVars, todo>>

Resolves(t, c) ==
  CASE c.op = "setValues" -> \E i \in c.ids : Reachable(i)
    [] c.op = "add" -> /\ FindAmongAdded(t, c.parent) \/ Reachable(c.parent)
                       /\ maxSerial < MaxId
    [] c.op = "remove" -> Reachable(c.id)
    [] c.op = "removeChildren" -> Reachable(c.id)
                                    /\ \E j \in Children(c.id) : Reachable(j)

\* what the operation has to execute; remove() descends the tree in memory
Statements(c) ==
  CASE c.op = "setValues" ->
         {[op |-> "set", id |-> i] : i \in {j \in c.ids : Reachable(j)}}
    [] c.op = "add" -> {[op |-> "add", id |-> maxSerial + 1]}
    [] OTHER ->
         {[op |-> "del", id |-> j] :
            j \in {k \in Ids : /\ Reachable(k) /\ Below(c.id, k)
                               /\ k = c.id => c.op = "remove"}}

\* lock.writeLock().lock() and resolve()
Enter(t) ==
  /\ Moves(t, "calling", "executing")
  /\ WriteLockFree
  /\ Resolves(t, call[t])
  /\ writer' = t
  /\ todo' = [todo EXCEPT ![t] = Statements(call[t])]
  /\ IF call[t].op = "add"
     THEN /\ maxSerial' = maxSerial + 1
          /\ parentOf' = [parentOf EXCEPT ![maxSerial + 1] = call[t].parent]
     ELSE UNCHANGED <<maxSerial, parentOf>>
  /\ UNCHANGED <<root, tasks, view, hsListeners, dbVars, call, calls>>

\* no node: return false or null
NotFound(t) ==
  /\ Moves(t, "calling", "open")
  /\ WriteLockFree
  /\ ~Resolves(t, call[t])
  /\ call' = [call EXCEPT ![t] = NoCall]
  /\ UNCHANGED <<memVars, lockVars, dbVars, todo, calls>>

\* Mutant: only the node remove() was asked for gets a task
Recorded_Last(t, s) == IF todo[t] = {s} THEN Append(tasks[t], s) ELSE tasks[t]

\* tasks.add(Task.get...Task(dbms, ...))
Recorded(t, s) == Append(tasks[t], s)

\* children are removed before their parent
NextStatements(t) ==
  {s \in todo[t] : s.op = "del" =>
                     \A c \in Children(s.id) : [s EXCEPT !.id = c] \notin todo[t]}

\* dbms.execute(...), tasks.add(...), and the finally clause after the last
Execute(t) ==
  /\ status[t] = "executing"
  /\ \E s \in NextStatements(t) :
       /\ ~Blocked(t, s) /\ ~Refused(t, s)
       /\ written' = [written EXCEPT ![t][s.id] = RowChange(t, s)]
       /\ tasks' = [tasks EXCEPT ![t] = Recorded(t, s)]
       /\ todo' = [todo EXCEPT ![t] = @ \ {s}]
       /\ IF todo[t] = {s}
          THEN /\ status' = [status EXCEPT ![t] = "open"]
               /\ call' = [call EXCEPT ![t] = NoCall]
               /\ writer' = NoTx
          ELSE UNCHANGED <<status, call, writer>>
  /\ UNCHANGED <<root, maxSerial, parentOf, view, hsListeners, db, calls>>

\* Mutant: no finally clause, the exception leaves the write lock held
ExecuteFails_Locked(t) ==
  /\ Moves(t, "executing", "failed")
  /\ \E s \in NextStatements(t) :
       IF Blocked(t, s) THEN LockTimeouts ELSE Refused(t, s)
  /\ call' = [call EXCEPT ![t] = NoCall]
  /\ todo' = [todo EXCEPT ![t] = {}]
  /\ UNCHANGED <<memVars, lockVars, dbVars, calls>>

\* SQLException: the foreign key, or a lock wait the database gives up
ExecuteFails(t) ==
  /\ Moves(t, "executing", "failed")
  /\ \E s \in NextStatements(t) :
       IF Blocked(t, s) THEN LockTimeouts ELSE Refused(t, s)
  /\ writer' = NoTx
  /\ call' = [call EXCEPT ![t] = NoCall]
  /\ todo' = [todo EXCEPT ![t] = {}]
  /\ UNCHANGED <<memVars, view, hsListeners, dbVars, calls>>

-----------------------------------------------------------------------------
(* The services and the pool: dbms.commit(), close(), abort()              *)

\* a service commits on its own before its transaction ends
ExplicitCommit(t) ==
  /\ status[t] = "open"
  /\ written[t] # Nothing
  /\ CommitRows(t)
  /\ UNCHANGED <<memVars, lockVars, status, callVars>>

Close(t) ==
  /\ Moves(t, "open", "closing")
  /\ UNCHANGED <<memVars, lockVars, dbVars, callVars>>

\* beforeClose() of every listener, under the monitor of the set
BeforeClose(t) ==
  /\ hsListeners = NoTx
  /\ Moves(t, "closing", "committing")
  /\ UNCHANGED <<memVars, lockVars, dbVars, callVars>>

Commit(t) ==
  /\ Moves(t, "committing", "committed")
  /\ CommitRows(t)
  /\ UNCHANGED <<memVars, lockVars, callVars>>

\* dbms.commit() throws: the rows are lost, the finally clause still runs
CommitFails(t) ==
  /\ Moves(t, "committing", "committed")
  /\ written[t] # Nothing
  /\ written' = [written EXCEPT ![t] = Nothing]
  /\ UNCHANGED <<memVars, lockVars, db, callVars>>

Abort(t) ==
  /\ status[t] \in {"open", "failed"}
  /\ status' = [status EXCEPT ![t] = "rolledback"]
  /\ written' = [written EXCEPT ![t] = Nothing]
  /\ UNCHANGED <<memVars, lockVars, db, callVars>>

\* Mutant: the pool calls close() of the listeners after an abort too
Notify_Close(t) ==
  /\ hsListeners = NoTx
  /\ Moves(t, "committed", "notifyClose") \/ Moves(t, "rolledback", "notifyClose")
  /\ hsListeners' = t
  /\ UNCHANGED <<memVars, writer, view, dbVars, callVars>>

\* synchronized (hsListeners) around the close() or abort() of the listeners
Notify(t) ==
  /\ hsListeners = NoTx
  /\ \/ Moves(t, "committed", "notifyClose")
     \/ Moves(t, "rolledback", "notifyAbort")
  /\ hsListeners' = t
  /\ UNCHANGED <<memVars, writer, view, dbVars, callVars>>

-----------------------------------------------------------------------------
(* flush(): the listener of the setting manager                            *)

\* Mutant: flush() takes no notice of readers
BeginFlush_Reading(t) ==
  /\ writer = NoTx
  /\ Moves(t, "notifyClose", "flushing")
  /\ writer' = t
  /\ UNCHANGED <<memVars, view, hsListeners, dbVars, callVars>>

BeginFlush(t) ==
  /\ WriteLockFree
  /\ Moves(t, "notifyClose", "flushing")
  /\ writer' = t
  /\ UNCHANGED <<memVars, view, hsListeners, dbVars, callVars>>

\* Mutant: the removal from the list makes the loop jump over the next task
FlushTask_Skips(t) ==
  /\ status[t] = "flushing" /\ tasks[t] # <<>>
  /\ root' = Applied(root, t, Head(tasks[t]))
  /\ tasks' = [tasks EXCEPT ![t] = IF Len(@) > 1 THEN Tail(Tail(@)) ELSE <<>>]
  /\ UNCHANGED <<maxSerial, parentOf, lockVars, dbVars, status, callVars>>

\* the next task that matches(resource): i.remove() and commit()
FlushTask(t) ==
  /\ status[t] = "flushing" /\ tasks[t] # <<>>
  /\ root' = Applied(root, t, Head(tasks[t]))
  /\ tasks' = [tasks EXCEPT ![t] = Tail(@)]
  /\ UNCHANGED <<maxSerial, parentOf, lockVars, dbVars, status, callVars>>

\* Mutant: the write lock is not released after a flush
EndFlush_Locked(t) ==
  /\ tasks[t] = <<>>
  /\ Moves(t, "flushing", "closed")
  /\ hsListeners' = NoTx
  /\ UNCHANGED <<memVars, writer, view, dbVars, callVars>>

EndFlush(t) ==
  /\ tasks[t] = <<>>
  /\ Moves(t, "flushing", "closed")
  /\ writer' = NoTx /\ hsListeners' = NoTx
  /\ UNCHANGED <<memVars, view, dbVars, callVars>>

\* Mutant: an abort applies the tasks instead of dropping them
DropTasks_Apply(t) ==
  /\ WriteLockFree
  /\ Moves(t, "notifyAbort", "aborted")
  /\ root' = FoldLeft(LAMBDA r, k : Applied(r, t, k), root, tasks[t])
  /\ tasks' = [tasks EXCEPT ![t] = <<>>]
  /\ hsListeners' = NoTx
  /\ UNCHANGED <<maxSerial, parentOf, writer, view, dbVars, callVars>>

\* Mutant: an abort does nothing at all
DropTasks_Keep(t) ==
  /\ WriteLockFree
  /\ Moves(t, "notifyAbort", "aborted")
  /\ hsListeners' = NoTx
  /\ UNCHANGED <<memVars, writer, view, dbVars, callVars>>

\* flush(resource, false): the tasks go, the tree stays
DropTasks(t) ==
  /\ WriteLockFree
  /\ Moves(t, "notifyAbort", "aborted")
  /\ tasks' = [tasks EXCEPT ![t] = <<>>]
  /\ hsListeners' = NoTx
  /\ UNCHANGED <<root, maxSerial, parentOf, writer, view, dbVars, callVars>>

-----------------------------------------------------------------------------
(* get(): build() copies the tree node by node under the read lock         *)

BeginGet(r) ==
  /\ writer = NoTx
  /\ view[r] = NoCall
  /\ view' = [view EXCEPT ![r] = Nothing]
  /\ UNCHANGED <<memVars, writer, hsListeners, dbVars, status, callVars>>

BuildNode(r) ==
  /\ view[r] # NoCall
  /\ \E i \in Ids :
       /\ view[r][i] = Unset
       /\ view' = [view EXCEPT ![r][i] = Visible[i]]
  /\ UNCHANGED <<memVars, writer, hsListeners, dbVars, status, callVars>>

EndGet(r) ==
  /\ view[r] # NoCall
  /\ \A i \in Ids : view[r][i] # Unset
  /\ view' = [view EXCEPT ![r] = NoCall]
  /\ UNCHANGED <<memVars, writer, hsListeners, dbVars, status, callVars>>

-----------------------------------------------------------------------------
\* what the code that uses the transaction decides to do
Service(t) == Call(t) \/ ExplicitCommit(t) \/ Close(t) \/ Abort(t)
Operation(t) == Enter(t) \/ NotFound(t) \/ Execute(t) \/ ExecuteFails(t)
End(t) == BeforeClose(t) \/ Commit(t) \/ CommitFails(t) \/ Notify(t)
            \/ BeginFlush(t) \/ FlushTask(t) \/ EndFlush(t) \/ DropTasks(t)
Get(r) == BeginGet(r) \/ BuildNode(r) \/ EndGet(r)

Over(t) == status[t] \in {"closed", "aborted"}

\* every transaction has ended: nothing more to do
AllEnded == (\A t \in Tx : Over(t)) /\ UNCHANGED vars

Next ==
  \/ \E t \in Tx : Service(t) \/ Operation(t) \/ End(t)
  \/ \E r \in Reader : Get(r)
  \/ AllEnded

Spec == Init /\ [][Next]_vars

\* Threads keep running, and a thread that wants a lock that becomes free
\* again and again gets it some day.
Fairness ==
  /\ \A t \in Tx : /\ WF_vars(Service(t))
                   /\ SF_vars(Enter(t) \/ NotFound(t))
                   /\ WF_vars(Execute(t) \/ ExecuteFails(t))
                   /\ WF_vars(Commit(t) \/ CommitFails(t))
                   /\ SF_vars(BeforeClose(t) \/ Notify(t))
                   /\ SF_vars(BeginFlush(t) \/ DropTasks(t))
                   /\ WF_vars(FlushTask(t) \/ EndFlush(t))
  /\ \A r \in Reader : WF_vars(BuildNode(r) \/ EndGet(r))

FairSpec == Spec /\ Fairness

-----------------------------------------------------------------------------
(* Properties *)

Statement == [op : {"set", "add", "del"}, id : Ids]
Statuses == {"open", "calling", "executing", "failed", "closing", "committing",
             "committed", "rolledback", "notifyClose", "notifyAbort",
             "flushing", "closed", "aborted"}

TypeOK ==
  /\ root \in [Ids -> Value \cup {Absent}]
  /\ db \in [Ids -> Value \cup {Absent}]
  /\ tasks \in [Tx -> Seq(Statement)]
  /\ maxSerial \in 0 .. MaxId
  /\ parentOf \in [Ids -> Ids \cup {0}]
  /\ writer \in Tx \cup {NoTx}
  /\ hsListeners \in Tx \cup {NoTx}
  /\ view \in [Reader -> {NoCall} \cup [Ids -> Value \cup {Absent, Unset}]]
  /\ written \in [Tx -> [Ids -> Tx \cup {Absent, Unset}]]
  /\ status \in [Tx -> Statuses]
  /\ call \in [Tx -> Requests \cup {NoCall}]
  /\ todo \in [Tx -> SUBSET Statement]
  /\ calls \in 0 .. MaxCalls

\* Isolation (SettingManager lines 51-55): what a node holds was written by a
\* transaction the pool has closed or is closing, never by one in progress or
\* aborted, whatever other transactions and readers do meanwhile.
OnlyClosedVisible ==
  \A i \in Ids : root[i] \in Tx => status[root[i]] \in {"flushing", "closed"}

\* A transaction that has ended left nothing behind: a task that stayed in the
\* list would keep a dead Dbms alive and never be applied.
NoLeftover ==
  \A t \in Tx : Over(t) => /\ tasks[t] = <<>>
                           /\ written[t] = Nothing
                           /\ t \notin {writer, hsListeners}

\* get() returns one state of the tree: no flush changes a node between the
\* first and the last node it copies (lines 121-135, 629-652).
NoTornRead ==
  \A r \in Reader, i \in Ids :
    view[r] # NoCall => view[r][i] \in {Unset, Visible[i]}

\* No uncommitted row is forgotten: as long as a transaction keeps a row
\* changed and unpublished, a task of it will bring the change to the tree.
RowChangeHasTask ==
  \A t \in Tx, i \in Ids :
    written[t][i] # Unset =>
      \E n \in DOMAIN tasks[t] : tasks[t][n].id = i

\* The operations of one caller never wait for ever, when the database gives
\* up waiting for row locks: each one returns or fails.
CallReturns ==
  \A t \in Tx : status[t] = "calling" ~> status[t] \in {"open", "failed"}

\* A transaction the pool has started to close or abort gets closed or aborted:
\* its listeners get the monitor and the write lock.
EndReturns ==
  \A t \in Tx : status[t] \in {"closing", "rolledback"} ~> Over(t)

\* The parts of the inductive invariant that are not properties of their own:
\* an operation knows its request, a status tells which locks its thread has,
\* nothing is written after the commit or rollback, readers exclude the writer.
InCall == \A t \in Tx : status[t] \in {"calling", "executing"} => call[t] \in Requests
WriterOwns == \A t \in Tx : writer = t <=> status[t] \in {"executing", "flushing"}
MonitorOwns ==
  \A t \in Tx :
    hsListeners = t <=> status[t] \in {"notifyClose", "notifyAbort", "flushing"}
RowsSettled ==
  \A t \in Tx :
    status[t] \in {"committed", "rolledback", "notifyClose", "notifyAbort",
                  "flushing", "closed", "aborted"} => written[t] = Nothing
TasksGone == \A t \in Tx : Over(t) => tasks[t] = <<>>
ReadersExclude == ReadLocked => writer = NoTx

IInv ==
  /\ TypeOK /\ InCall
  /\ WriterOwns /\ MonitorOwns /\ RowsSettled /\ TasksGone /\ ReadersExclude
  /\ OnlyClosedVisible /\ RowChangeHasTask /\ NoTornRead

\* What the class comment promises, as TransactionalSettings states it: a flush
\* is one step, taken when it gets the write lock; the tasks it still has to
\* apply count as applied, since nobody can look before it ends.
Flushing(t) == status[t] = "flushing"
Flusher == CHOOSE t \in Tx : Flushing(t)

\* the tree once all of a sequence of tasks of t are applied
AllApplied(r, t, changes) ==
  LET after[n \in 0 .. Len(changes)] ==
        IF n = 0 THEN r ELSE Applied(after[n - 1], t, changes[n])
  IN  after[Len(changes)]

Published == IF \E t \in Tx : Flushing(t)
             THEN AllApplied(root, Flusher, tasks[Flusher])
             ELSE root
Unpublished == [t \in Tx |-> IF Flushing(t) THEN <<>> ELSE tasks[t]]

Promise == INSTANCE TransactionalSettings WITH
  Initial <- [i \in Ids |-> IF i \in Boot THEN Original ELSE Absent],
  visible <- Published,
  pending <- Unpublished

KeepsPromise == Promise!Spec
=============================================================================
