---------------------------- MODULE HarvestManager ----------------------------
(***************************************************************************)
(* The life of harvesters: kernel/harvest/HarvestManager.java,             *)
(* harvester/AbstractHarvester.java and the services that call them.       *)
(*                                                                         *)
(* What a harvester is doing is written in four places: the maps of the    *)
(* manager, the fields of the AbstractHarvester, the Quartz scheduler and  *)
(* the tree and table of settings.  Requests change several of them inside *)
(* one transaction, under the monitor of the manager, of the harvester, or *)
(* of none; a harvest runs in a thread of Quartz without any monitor.      *)
(*                                                                         *)
(* The settings are those of SettingManager, one row and one node for each *)
(* harvester: its options/status.  External: the DBMS (it gives up waiting *)
(* for a row lock), Quartz (one execution of a job at a time, deleting a   *)
(* job deletes its triggers and lets it run on), the remote catalogue.     *)
(***************************************************************************)
EXTENDS Naturals, SequencesExt

CONSTANTS
  Harvester,    (* harvesters: the id in the settings and the uuid          *)
  Request,      (* requests to the harvesting services, one transaction each *)
  Record,       (* the metadata a remote catalogue offers                   *)
  OneRunOnly,   (* the harvesters with options/oneRunOnly                   *)
  MaxFirings,   (* bound on the firings of the regular trigger of each job  *)
  MaxRestarts,  (* bound on the crashes of the server                       *)
  NoOne,        (* a monitor nobody holds                                   *)
  Absent,       (* no such row, no such node                                *)
  Unset         (* not written by this transaction                          *)

Status == {"ACTIVE", "INACTIVE"}
Actor == Request \cup Harvester  \* a job is known by its harvester

ASSUME HarvestAssumption ==
  /\ OneRunOnly \subseteq Harvester
  /\ MaxFirings \in Nat /\ MaxRestarts \in Nat
  /\ Request \cap Harvester = {}
  /\ NoOne \notin Actor
  /\ Absent # Unset /\ {Absent, Unset} \cap Status = {}

VARIABLES
  hmHarvesters,    (* harvesters by id                                      *)
  hmHarvestLookup, (* harvesters by uuid                                    *)
  status,          (* AbstractHarvester.status                              *)
  running,         (* AbstractHarvester.running                             *)
  manager,         (* who holds the monitor of the HarvestManager           *)
  monitor,         (* who holds the monitor of each harvester               *)
  jobs,            (* the jobs Quartz has                                   *)
  due,             (* the triggerJob() calls not yet fired                  *)
  exec,            (* where the execution of each job is                    *)
  firings,         (* how often the regular trigger of each job fired       *)
  table,           (* committed options/status of each harvester            *)
  tree,            (* the same in the settings tree                         *)
  pend,            (* uncommitted rows of each transaction                  *)
  tasks,           (* what each transaction will do to the tree             *)
  records,         (* committed metadata with this harvestUuid              *)
  history,         (* rows of HarvestHistory with deleted = 'n'             *)
  hiding,          (* rows a transaction has set to deleted = 'y'           *)
  req,             (* where each request is                                 *)
  doomed,          (* the metadata destroy() has selected and not deleted   *)
  born,            (* ids given out                                         *)
  spoiled,         (* history: named by a request that was aborted          *)
  overlapped,      (* history: removed while it was harvesting              *)
  restarts

memory == <<hmHarvesters, hmHarvestLookup, status, running>>
monitors == <<manager, monitor>>
quartz == <<jobs, due, exec, firings>>
settings == <<table, tree, pend, tasks>>
data == <<records, history, hiding>>
ghosts == <<born, spoiled, overlapped, restarts>>
vars == <<memory, monitors, quartz, settings, data, req, doomed, ghosts>>

-----------------------------------------------------------------------------
(* Settings and transactions *)

Nothing == [h \in Harvester |-> Unset]
NoRows == [h \in Harvester |-> 0]

Seen(x, h) == IF pend[x][h] # Unset THEN pend[x][h] ELSE table[h]
Blocked(x, h) == \E y \in Actor \ {x} : pend[y][h] # Unset

\* settingMan.setValue(dbms, "harvesting/id:h/options/status", s): false if
\* the tree has no such node, no row affected if the table has none
SetStatus(x, h, s) ==
  IF tree[h] = Absent
  THEN UNCHANGED <<pend, tasks>>
  ELSE /\ ~Blocked(x, h)
       /\ tasks' = [tasks EXCEPT ![x][h] = s]
       /\ pend' = IF Seen(x, h) = Absent THEN pend ELSE [pend EXCEPT ![x][h] = s]

\* dbms.commit(): the rows, not the tree
CommitRows(x) ==
  /\ table' = [h \in Harvester |-> Seen(x, h)]
  /\ pend' = [pend EXCEPT ![x] = Nothing]

Adds(x) == x \in Request /\ req[x].op = "add"

\* close of the transaction: commit, and the tasks reach the tree; a value for
\* a node that is gone is lost
CommitAndFlush(x) ==
  /\ CommitRows(x)
  /\ tree' = [h \in Harvester |->
               IF tasks[x][h] = Unset \/ (tree[h] = Absent /\ ~Adds(x))
               THEN tree[h] ELSE tasks[x][h]]
  /\ tasks' = [tasks EXCEPT ![x] = Nothing]

Rollback(x) ==
  /\ pend' = [pend EXCEPT ![x] = Nothing]
  /\ tasks' = [tasks EXCEPT ![x] = Nothing]

ShowHistory(r) ==
  /\ history' = [h \in Harvester |-> history[h] - hiding[r][h]]
  /\ hiding' = [hiding EXCEPT ![r] = NoRows]

-----------------------------------------------------------------------------
InitialSettings(s) ==
  /\ table = s /\ tree = s
  /\ status = [h \in Harvester |-> IF s[h] = Absent THEN "INACTIVE" ELSE s[h]]
  /\ hmHarvesters = {h \in Harvester : s[h] # Absent}
  /\ hmHarvestLookup = hmHarvesters
  /\ jobs = {h \in Harvester : s[h] = "ACTIVE"}
  /\ born = hmHarvesters

Idle == [pc |-> "idle", op |-> "none", ids |-> <<>>, named |-> {}]

Init ==
  /\ \E s \in [Harvester -> Status \cup {Absent}] : InitialSettings(s)
  /\ running = [h \in Harvester |-> FALSE]
  /\ manager = NoOne
  /\ monitor = [h \in Harvester |-> NoOne]
  /\ due = [h \in Harvester |-> 0]
  /\ exec = [h \in Harvester |-> "idle"]
  /\ firings = [h \in Harvester |-> 0]
  /\ pend = [x \in Actor |-> Nothing]
  /\ tasks = [x \in Actor |-> Nothing]
  /\ records = [h \in Harvester |-> {}]
  /\ history = NoRows
  /\ hiding = [r \in Request |-> NoRows]
  /\ req = [r \in Request |-> Idle]
  /\ doomed = [r \in Request |-> {}]
  /\ spoiled = {} /\ overlapped = {} /\ restarts = 0

-----------------------------------------------------------------------------
(* Requests: services.harvesting.* and Util.exec *)

ListOps == {"start", "stop", "run", "remove"}
Lists == {<<h>> : h \in Harvester}
           \cup {<<g, h>> : g, h \in Harvester}

At(r, pc) == req[r].pc = pc /\ req[r].ids # <<>>
Id(r) == Head(req[r].ids)
Does(r, ops, pc) == At(r, pc) /\ req[r].op \in ops
Goes(r, pc) == req' = [req EXCEPT ![r].pc = pc]
\* the result for this id goes to the response; next id
Answers(r) == req' = [req EXCEPT ![r].pc = "next", ![r].ids = Tail(@)]

\* a request names harvesters the settings show; add gives a new id
Begin(r) ==
  /\ req[r] = Idle
  /\ \E op \in ListOps \cup {"add", "update", "invoke"}, ids \in Lists :
       /\ op \notin ListOps => Len(ids) = 1
       /\ \A n \in DOMAIN ids : IF op = "add" THEN ids[n] \notin born
                                ELSE tree[ids[n]] # Absent
       /\ req' = [req EXCEPT ![r] = [pc |-> "next", op |-> op, ids |-> ids,
                                     named |-> ToSet(ids)]]
       /\ born' = IF op = "add" THEN born \cup ToSet(ids) ELSE born
  /\ UNCHANGED <<memory, monitors, quartz, settings, data, doomed,
                 spoiled, overlapped, restarts>>

\* doAdd stores the node, then the maps get the harvester
Add(r) ==
  /\ Does(r, {"add"}, "next")
  /\ pend' = [pend EXCEPT ![r][Id(r)] = "INACTIVE"]
  /\ tasks' = [tasks EXCEPT ![r][Id(r)] = "INACTIVE"]
  /\ status' = [status EXCEPT ![Id(r)] = "INACTIVE"]
  /\ hmHarvesters' = hmHarvesters \cup {Id(r)}
  /\ hmHarvestLookup' = hmHarvestLookup \cup {Id(r)}
  /\ Answers(r)
  /\ UNCHANGED <<running, monitors, quartz, table, tree, data, doomed, ghosts>>

\* hmHarvesters.get(id), without any monitor
Find(r) ==
  /\ Does(r, {"start", "stop", "run", "invoke"}, "next")
  /\ IF Id(r) \in hmHarvesters THEN Goes(r, "called") ELSE Answers(r)
  /\ UNCHANGED <<memory, monitors, quartz, settings, data, doomed, ghosts>>

\* the synchronized methods update() and remove() of the manager
FindAlone(r) ==
  /\ Does(r, {"update", "remove"}, "next")
  /\ manager = NoOne
  /\ IF Id(r) \in hmHarvesters
     THEN /\ Goes(r, "called") /\ manager' = r
          /\ hmHarvestLookup' = IF req[r].op = "remove"
                                THEN hmHarvestLookup \ {Id(r)} ELSE hmHarvestLookup
     ELSE Answers(r) /\ UNCHANGED <<manager, hmHarvestLookup>>
  /\ UNCHANGED <<hmHarvesters, status, running, monitor, quartz, settings, data,
                 doomed, ghosts>>

\* the thread enters a synchronized method of the harvester
Calls(r, op) == Does(r, {op}, "called") /\ monitor[Id(r)] = NoOne

\* "already active", "already inactive", "already running"
AlreadyDone(r) ==
  /\ \/ Calls(r, "start") /\ status[Id(r)] = "ACTIVE"
     \/ Calls(r, "stop") /\ status[Id(r)] = "INACTIVE"
     \/ Calls(r, "run") /\ status[Id(r)] = "ACTIVE" /\ running[Id(r)]
     \/ Calls(r, "invoke") /\ status[Id(r)] = "ACTIVE"
  /\ Answers(r)
  /\ UNCHANGED <<memory, monitors, quartz, settings, data, doomed, ghosts>>

\* Mutant: start() forgets the settings
Activate_Memory(r) ==
  /\ status[Id(r)] = "INACTIVE"
  /\ UNCHANGED <<pend, tasks>>
  /\ status' = [status EXCEPT ![Id(r)] = "ACTIVE"]
  /\ jobs' = jobs \cup {Id(r)}

\* the setting, the field, the scheduler; the job cannot be there already
Activate(r) ==
  /\ status[Id(r)] = "INACTIVE"
  /\ SetStatus(r, Id(r), "ACTIVE")
  /\ status' = [status EXCEPT ![Id(r)] = "ACTIVE"]
  /\ jobs' = jobs \cup {Id(r)}

Start(r) ==
  /\ Calls(r, "start") /\ Activate(r) /\ Answers(r)
  /\ UNCHANGED <<hmHarvesters, hmHarvestLookup, running, monitors, due, exec,
                 firings, table, tree, data, doomed, ghosts>>

\* Mutant: the triggers survive the job they belong to
Deactivate_Triggers(x, h) ==
  /\ status[h] = "ACTIVE"
  /\ SetStatus(x, h, "INACTIVE")
  /\ jobs' = jobs \ {h} /\ UNCHANGED due
  /\ status' = [status EXCEPT ![h] = "INACTIVE"]

\* the setting, the scheduler (deleteJob deletes the triggers too), the field
Deactivate(x, h) ==
  /\ status[h] = "ACTIVE"
  /\ SetStatus(x, h, "INACTIVE")
  /\ jobs' = jobs \ {h} /\ due' = [due EXCEPT ![h] = 0]
  /\ status' = [status EXCEPT ![h] = "INACTIVE"]

Stop(r) ==
  /\ Calls(r, "stop") /\ Deactivate(r, Id(r)) /\ Answers(r)
  /\ UNCHANGED <<hmHarvesters, hmHarvestLookup, running, monitors, exec, firings,
                 table, tree, data, doomed, ghosts>>

\* run(): start it if it is inactive, and trigger its job now
Run(r) ==
  /\ Calls(r, "run")
  /\ \/ Activate(r)
     \/ status[Id(r)] = "ACTIVE" /\ Id(r) \in jobs /\ ~running[Id(r)]
          /\ UNCHANGED <<pend, tasks, status, jobs>>
  /\ due' = IF running[Id(r)] THEN due ELSE [due EXCEPT ![Id(r)] = @ + 1]
  /\ Answers(r)
  /\ UNCHANGED <<hmHarvesters, hmHarvestLookup, running, monitors, exec, firings,
                 table, tree, data, doomed, ghosts>>

\* doUpdate removes the node's children and stores it anew with this status;
\* the job of an active harvester is deleted and scheduled again
Update(r) ==
  /\ Calls(r, "update")
  /\ SetStatus(r, Id(r), status[Id(r)])
  /\ IF status[Id(r)] = "ACTIVE"
     THEN jobs' = jobs \cup {Id(r)} /\ due' = [due EXCEPT ![Id(r)] = 0]
     ELSE UNCHANGED <<jobs, due>>
  /\ manager' = NoOne
  /\ Answers(r)
  /\ UNCHANGED <<memory, monitor, exec, firings, table, tree, data, doomed, ghosts>>

\* invoke() harvests in the thread of the request, inside the monitor
InvokeBegin(r) ==
  /\ Calls(r, "invoke") /\ status[Id(r)] = "INACTIVE"
  /\ monitor' = [monitor EXCEPT ![Id(r)] = r]
  /\ status' = [status EXCEPT ![Id(r)] = "ACTIVE"]
  /\ Goes(r, "invoking")
  /\ overlapped' = overlapped \cup ({Id(r)} \ hmHarvestLookup)
  /\ UNCHANGED <<hmHarvesters, hmHarvestLookup, running, manager, quartz, settings,
                 data, doomed, born, spoiled, restarts>>

\* Mutant: an exception in the harvest leaves the harvester active
InvokeEnd_Active(r) ==
  /\ At(r, "invoking")
  /\ monitor' = [monitor EXCEPT ![Id(r)] = NoOne]
  /\ UNCHANGED status
  /\ Answers(r)
  /\ UNCHANGED <<hmHarvesters, hmHarvestLookup, running, manager, quartz, settings,
                 data, doomed, ghosts>>

\* Mutant: invoke() harvests again and again
InvokeEnd_Retries(r) == At(r, "invoking") /\ UNCHANGED vars

\* harvested or failed: rm.close() or rm.abort(), neither has settings to write
InvokeEnd(r) ==
  /\ At(r, "invoking")
  /\ monitor' = [monitor EXCEPT ![Id(r)] = NoOne]
  /\ status' = [status EXCEPT ![Id(r)] = "INACTIVE"]
  /\ Answers(r)
  /\ UNCHANGED <<hmHarvesters, hmHarvestLookup, running, manager, quartz, settings,
                 data, doomed, ghosts>>

-----------------------------------------------------------------------------
(* remove() and destroy() *)

DestroyBegin(r) ==
  /\ Calls(r, "remove")
  /\ monitor' = [monitor EXCEPT ![Id(r)] = r]
  /\ jobs' = jobs \ {Id(r)} /\ due' = [due EXCEPT ![Id(r)] = 0]
  /\ doomed' = [doomed EXCEPT ![r] = records[Id(r)]]
  /\ Goes(r, "destroying")
  /\ overlapped' = IF exec[Id(r)] # "idle" THEN overlapped \cup {Id(r)} ELSE overlapped
  /\ UNCHANGED <<memory, manager, exec, firings, settings, data, born, spoiled, restarts>>

\* Mutant: the selected metadata are dropped from the list, not deleted
DestroyRecord_Skipped(r) ==
  /\ At(r, "destroying")
  /\ \E k \in doomed[r] : doomed' = [doomed EXCEPT ![r] = @ \ {k}]
  /\ CommitRows(r) /\ ShowHistory(r)
  /\ UNCHANGED <<memory, monitors, quartz, tree, tasks, records, req, ghosts>>

\* deleteMetadata() and dbms.commit(), which commits what came before too
DestroyRecord(r) ==
  /\ At(r, "destroying")
  /\ \E k \in doomed[r] \cap records[Id(r)] :
       /\ doomed' = [doomed EXCEPT ![r] = @ \ {k}]
       /\ records' = [records EXCEPT ![Id(r)] = @ \ {k}]
  /\ CommitRows(r) /\ ShowHistory(r)
  /\ UNCHANGED <<memory, monitors, quartz, tree, tasks, req, ghosts>>

\* doDestroy(); the monitor of the harvester is left, the map forgets it
DestroyEnd(r) ==
  /\ At(r, "destroying") /\ doomed[r] = {}
  /\ monitor' = [monitor EXCEPT ![Id(r)] = NoOne]
  /\ hmHarvesters' = hmHarvesters \ {Id(r)}
  /\ Goes(r, "removing")
  /\ UNCHANGED <<hmHarvestLookup, status, running, manager, quartz, settings, data,
                 doomed, ghosts>>

\* settingMan.remove() and HarvesterHistoryDao.setDeleted()
RemoveEntry(r) ==
  /\ At(r, "removing")
  /\ SetStatus(r, Id(r), Absent)
  /\ hiding' = [hiding EXCEPT ![r][Id(r)] = history[Id(r)]]
  /\ manager' = NoOne
  /\ Answers(r)
  /\ UNCHANGED <<memory, monitor, quartz, table, tree, records, history, doomed, ghosts>>

-----------------------------------------------------------------------------
(* How requests end *)

\* an exception leaves the synchronized methods it passes through
Releases(r) ==
  /\ manager' = IF manager = r THEN NoOne ELSE manager
  /\ monitor' = [h \in Harvester |-> IF monitor[h] = r THEN NoOne ELSE monitor[h]]

\* an exception of the database or the scheduler; a record that a running
\* harvest has deleted is one (isTemplate is null); so is triggerJob() for a
\* job the scheduler does not have
Fail(r) ==
  /\ \/ Does(r, {"start", "stop", "run", "update", "remove"}, "called")
     \/ At(r, "destroying") /\ doomed[r] # {}
     \/ At(r, "removing")
  /\ Releases(r)
  /\ doomed' = [doomed EXCEPT ![r] = {}]
  /\ Goes(r, "failed")
  /\ UNCHANGED <<memory, quartz, settings, data, ghosts>>

Abort(r) ==
  /\ req[r].pc = "failed"
  /\ Rollback(r)
  /\ hiding' = [hiding EXCEPT ![r] = NoRows]
  /\ req' = [req EXCEPT ![r].pc = "ended", ![r].ids = <<>>]
  /\ spoiled' = spoiled \cup req[r].named
  /\ UNCHANGED <<memory, monitors, quartz, table, tree, records, history, doomed,
                 born, overlapped, restarts>>

\* Mutant: the transaction ends without telling the settings
Close_Unflushed(r) ==
  /\ req[r].pc = "next" /\ req[r].ids = <<>>
  /\ CommitRows(r) /\ tasks' = [tasks EXCEPT ![r] = Nothing] /\ ShowHistory(r)
  /\ Goes(r, "ended")
  /\ UNCHANGED <<memory, monitors, quartz, tree, records, doomed, ghosts>>

Close(r) ==
  /\ req[r].pc = "next" /\ req[r].ids = <<>>
  /\ CommitAndFlush(r) /\ ShowHistory(r)
  /\ Goes(r, "ended")
  /\ UNCHANGED <<memory, monitors, quartz, records, doomed, ghosts>>

-----------------------------------------------------------------------------
(* Jobs: HarvesterJob.execute and AbstractHarvester.harvest *)

\* Mutant: a trigger fires although it was deleted
Fire_Deleted(h) ==
  /\ h \in jobs /\ exec[h] = "idle"
  /\ due' = [due EXCEPT ![h] = @ - 1]
  /\ exec' = [exec EXCEPT ![h] = "harvesting"]
  /\ running' = [running EXCEPT ![h] = TRUE]
  /\ UNCHANGED <<hmHarvesters, hmHarvestLookup, status, monitors, jobs, firings,
                 settings, data, req, doomed, ghosts>>

\* a trigger fires; the listener looks the harvester up by uuid, and without it
\* the execution ends in a NullPointerException
Fire(h) ==
  /\ h \in jobs /\ exec[h] = "idle"
  /\ \/ firings[h] < MaxFirings /\ firings' = [firings EXCEPT ![h] = @ + 1]
          /\ UNCHANGED due
     \/ due[h] > 0 /\ due' = [due EXCEPT ![h] = @ - 1] /\ UNCHANGED firings
  /\ IF h \in hmHarvestLookup
     THEN exec' = [exec EXCEPT ![h] = "harvesting"] /\ running' = [running EXCEPT ![h] = TRUE]
     ELSE UNCHANGED <<exec, running>>
  /\ UNCHANGED <<hmHarvesters, hmHarvestLookup, status, monitors, jobs, settings,
                 data, req, doomed, ghosts>>

Invoking(h) == \E r \in Request : At(r, "invoking") /\ Id(r) = h

\* the aligner inserts a record or removes an old one, and commits
Align(h) ==
  /\ exec[h] = "harvesting" \/ Invoking(h)
  /\ \E k \in Record :
       records' = [records EXCEPT ![h] = IF k \in @ THEN @ \ {k} ELSE @ \cup {k}]
  /\ UNCHANGED <<memory, monitors, quartz, settings, history, hiding, req, doomed, ghosts>>

\* harvested; a harvester that is to run once will stop itself
Harvested(h) ==
  /\ exec[h] = "harvesting"
  /\ exec' = [exec EXCEPT ![h] = IF h \in OneRunOnly THEN "stopping" ELSE "recording"]
  /\ UNCHANGED <<memory, monitors, jobs, due, firings, settings, data, req, doomed, ghosts>>

\* any exception, that of stop() too: rm.abort()
HarvestFails(h) ==
  /\ exec[h] \in {"harvesting", "stopping"}
  /\ exec' = [exec EXCEPT ![h] = "recording"]
  /\ UNCHANGED <<memory, monitors, jobs, due, firings, settings, data, req, doomed, ghosts>>

\* stop(dbms) from the harvest itself, in the harvest's transaction
StopItself(h) ==
  /\ exec[h] = "stopping" /\ monitor[h] = NoOne
  /\ \/ Deactivate(h, h)
     \/ status[h] = "INACTIVE" /\ UNCHANGED <<pend, tasks, jobs, due, status>>
  /\ exec' = [exec EXCEPT ![h] = "closing"]
  /\ UNCHANGED <<hmHarvesters, hmHarvestLookup, running, monitors, firings, table,
                 tree, data, req, doomed, ghosts>>

CloseHarvest(h) ==
  /\ exec[h] = "closing"
  /\ CommitAndFlush(h)
  /\ exec' = [exec EXCEPT ![h] = "recording"]
  /\ UNCHANGED <<memory, monitors, jobs, due, firings, data, req, doomed, ghosts>>

\* the row of HarvestHistory, in a transaction of its own, may fail to be
\* written; running is reset in any case
RecordHistory(h) ==
  /\ exec[h] = "recording"
  /\ exec' = [exec EXCEPT ![h] = "idle"]
  /\ running' = [running EXCEPT ![h] = FALSE]
  /\ \/ history' = [history EXCEPT ![h] = @ + 1]
     \/ UNCHANGED history
  /\ UNCHANGED <<hmHarvesters, hmHarvestLookup, status, monitors, jobs, due, firings,
                 settings, records, hiding, req, doomed, ghosts>>

-----------------------------------------------------------------------------
\* the server dies and comes up: the constructor reads the settings
Restart ==
  /\ restarts < MaxRestarts /\ restarts' = restarts + 1
  /\ tree' = table
  /\ hmHarvesters' = {h \in Harvester : table[h] # Absent}
  /\ hmHarvestLookup' = hmHarvesters'
  /\ status' = [h \in Harvester |-> IF table[h] = Absent THEN "INACTIVE" ELSE table[h]]
  /\ jobs' = {h \in Harvester : table[h] = "ACTIVE"}
  /\ running' = [h \in Harvester |-> FALSE]
  /\ manager' = NoOne /\ monitor' = [h \in Harvester |-> NoOne]
  /\ due' = [h \in Harvester |-> 0] /\ exec' = [h \in Harvester |-> "idle"]
  /\ pend' = [x \in Actor |-> Nothing] /\ tasks' = [x \in Actor |-> Nothing]
  /\ hiding' = [r \in Request |-> NoRows] /\ doomed' = [r \in Request |-> {}]
  /\ req' = [r \in Request |-> IF req[r] = Idle THEN Idle
               ELSE [req[r] EXCEPT !.pc = "ended", !.ids = <<>>]]
  /\ spoiled' = {}
  /\ UNCHANGED <<firings, table, records, history, born, overlapped>>

Operation(r) == AlreadyDone(r) \/ Start(r) \/ Stop(r) \/ Run(r) \/ Update(r)
                  \/ InvokeBegin(r) \/ DestroyBegin(r)
Finding(r) == Add(r) \/ Find(r) \/ FindAlone(r)
Removal(r) == DestroyRecord(r) \/ DestroyEnd(r) \/ RemoveEntry(r)
Ending(r) == InvokeEnd(r) \/ Abort(r) \/ Close(r)
Harvest(h) == Harvested(h) \/ HarvestFails(h) \/ StopItself(h) \/ CloseHarvest(h)
                \/ RecordHistory(h)

\* no request is in progress: the server waits
Waits == (\A r \in Request : req[r].pc \in {"idle", "ended"}) /\ UNCHANGED vars

Next ==
  \/ \E r \in Request : Begin(r) \/ Finding(r) \/ Operation(r) \/ Removal(r)
                          \/ Fail(r) \/ Ending(r)
  \/ \E h \in Harvester : Fire(h) \/ Align(h) \/ Harvest(h)
  \/ Restart
  \/ Waits

Spec == Init /\ [][Next]_vars

\* Threads keep running; a thread that waits for a monitor gets it some day; a
\* row that stays locked makes the statement fail; a trigger that is due fires.
Fairness ==
  /\ \A r \in Request :
       /\ SF_vars(Finding(r)) /\ SF_vars(Operation(r) \/ Fail(r))
       /\ WF_vars(Removal(r) \/ Fail(r)) /\ WF_vars(Ending(r))
  /\ \A h \in Harvester : WF_vars(Harvest(h)) /\ SF_vars(Fire(h) /\ due'[h] < due[h])

FairSpec == Spec /\ Fairness

-----------------------------------------------------------------------------
(* Properties *)

Ops == ListOps \cup {"add", "update", "invoke", "none"}
Pcs == {"idle", "next", "called", "destroying", "removing", "invoking", "failed", "ended"}
Execs == {"idle", "harvesting", "stopping", "closing", "recording"}

TypeOK ==
  /\ hmHarvesters \subseteq Harvester /\ hmHarvestLookup \subseteq Harvester
  /\ status \in [Harvester -> Status] /\ running \in [Harvester -> BOOLEAN]
  /\ manager \in Request \cup {NoOne}
  /\ monitor \in [Harvester -> Request \cup {NoOne}]
  /\ jobs \subseteq Harvester /\ due \in [Harvester -> Nat]
  /\ exec \in [Harvester -> Execs] /\ firings \in [Harvester -> 0 .. MaxFirings]
  /\ table \in [Harvester -> Status \cup {Absent}]
  /\ tree \in [Harvester -> Status \cup {Absent}]
  /\ pend \in [Actor -> [Harvester -> Status \cup {Absent, Unset}]]
  /\ tasks \in [Actor -> [Harvester -> Status \cup {Absent, Unset}]]
  /\ records \in [Harvester -> SUBSET Record]
  /\ history \in [Harvester -> Nat]
  /\ hiding \in [Request -> [Harvester -> Nat]]
  /\ req \in [Request -> [pc : Pcs, op : Ops, ids : Seq(Harvester),
                          named : SUBSET Harvester]]
  /\ doomed \in [Request -> SUBSET Record]
  /\ born \subseteq Harvester /\ spoiled \subseteq Harvester
  /\ overlapped \subseteq Harvester
  /\ restarts \in 0 .. MaxRestarts

\* Between two calls the scheduler has a job for a harvester exactly when its
\* status field says so, whatever requests, harvests that stop themselves and
\* aborted transactions there were; a harvester whose removal began is excepted.
JobFollowsStatus ==
  \A h \in hmHarvesters \cap hmHarvestLookup :
    monitor[h] = NoOne => (h \in jobs <=> status[h] = "ACTIVE")

Untouched(h) == \A x \in Actor : pend[x][h] = Unset /\ tasks[x][h] = Unset

\* Once no transaction has to do with a harvester, its field, its node and its
\* row agree: what a restart reads is what the server did before.  Not so when
\* a request that named it was aborted: abort() does not restore the field.
StatusSurvives ==
  \A h \in hmHarvesters \ spoiled :
    Untouched(h) /\ monitor[h] = NoOne => status[h] = table[h] /\ tree[h] = table[h]

\* HarvestManager.get() takes the nodes from the settings and the harvesters
\* from the map (lines 140-196, 455-459): a node without a harvester ends in a
\* NullPointerException.  This can only be while the removal of that harvester
\* is in progress, or after it was aborted.
VisibleIsManaged ==
  \A h \in Harvester :
    tree[h] # Absent =>
      \/ h \in hmHarvesters \cup spoiled
      \/ \E r \in Request : /\ req[r].op = "remove" /\ h \in req[r].named
                            /\ req[r].pc \notin {"idle", "ended"}

Removed(h) ==
  /\ h \in born /\ table[h] = Absent /\ h \notin hmHarvesters
  /\ \A x \in Actor : tasks[x][h] = Unset
  /\ \A r \in Request : h \in req[r].named => req[r].pc \in {"idle", "ended"}

\* remove() deletes every record and hides every history row of a harvester
\* that was not harvesting meanwhile, crashes and other requests in between.
NothingRemains ==
  \A h \in Harvester \ overlapped : Removed(h) => records[h] = {} /\ history[h] = 0

\* Requests end: nobody waits for a monitor for ever.
RequestEnds == \A r \in Request : req[r].pc \notin {"idle", "ended"} ~> req[r].pc = "ended"

\* What run() triggered is executed, unless the job is deleted first.
TriggerFires == \A h \in Harvester : due[h] > 0 ~> due[h] = 0

\* "Cannot do invoke if this harvester was started" (AbstractHarvester line
\* 289): invoke() and a harvest the scheduler started exclude each other.
InvokeAlone == \A h \in Harvester : Invoking(h) => exec[h] # "harvesting"

\* "it cannot run if we are updating some entries" (HarvestManager line 328):
\* no call that was in progress schedules a harvester remove() took away.
RemovedStaysUnscheduled == \A h \in Harvester : Removed(h) => h \notin jobs
=============================================================================
