-------------------------- MODULE HarvestManagerProofs --------------------------
(***************************************************************************)
(* Proofs about HarvestManager, for any harvesters, requests and records   *)
(* and any number of firings and crashes.                                  *)
(*                                                                         *)
(* That the scheduler follows the status fields is not inductive.  It      *)
(* holds because the monitor of a harvester is held by the request that is *)
(* destroying or invoking it (Owned), the one a harvester whose removal    *)
(* has taken it out of a map (TakenOut), the other one without a job       *)
(* (InvokesAlone); and because what an addition puts into the maps is      *)
(* known to nobody else (Fresh).  That counts of history rows stay natural *)
(* numbers needs that removals exclude one another (Exclusive, Hides).     *)
(***************************************************************************)
EXTENDS HarvestManager, SequenceTheorems, TLAPS

-----------------------------------------------------------------------------
(* The inductive invariant *)

\* A request that has found harvester h in the map and is not done with it
Found(r, h) == /\ req[r].pc \in {"called", "destroying", "removing", "invoking"}
               /\ req[r].ids # <<>> /\ Id(r) = h

Removing(r, h) == Found(r, h) /\ req[r].op = "remove"

\* A request that will put h into the maps
Adding(r, h) == At(r, "next") /\ req[r].op = "add" /\ Id(r) = h

OpsFit ==
  \A r \in Request :
    /\ req[r].pc \in {"destroying", "removing"} => req[r].op = "remove"
    /\ req[r].op = "add" /\ req[r].ids # <<>> => Tail(req[r].ids) = <<>>

Owned ==
  \A r \in Request : \A h \in Harvester :
    monitor[h] = r <=> Found(r, h) /\ req[r].pc \in {"destroying", "invoking"}

Exclusive ==
  \A r \in Request : \A h \in Harvester :
    Found(r, h) /\ req[r].op \in {"update", "remove"} => manager = r

TakenOut ==
  \A r \in Request : \A h \in Harvester : Removing(r, h) =>
    /\ h \notin hmHarvestLookup
    /\ req[r].pc = "removing" => h \notin hmHarvesters

\* Only an id that was given out is known anywhere
BornFirst ==
  /\ hmHarvesters \cup hmHarvestLookup \cup jobs \subseteq born
  /\ \A h \in Harvester : table[h] # Absent \/ exec[h] # "idle" => h \in born
  /\ \A x \in Actor : \A h \in Harvester : pend[x][h] # Unset => h \in born
  /\ \A r \in Request : \A h \in Harvester :
       Found(r, h) \/ Adding(r, h) \/ hiding[r][h] # 0 => h \in born

Fresh ==
  \A r \in Request : \A h \in Harvester : Adding(r, h) =>
    /\ h \notin hmHarvesters \cup hmHarvestLookup \cup jobs
    /\ \A q \in Request : /\ ~Found(q, h) /\ hiding[q][h] = 0
                          /\ q # r => ~Adding(q, h)

Hides ==
  \A r \in Request : \A h \in Harvester : hiding[r][h] # 0 =>
    /\ hiding[r][h] <= history[h] /\ h \notin hmHarvesters
    /\ \A q \in Request : ~Removing(q, h) /\ (q # r => hiding[q][h] = 0)

InvokesAlone ==
  \A r \in Request : \A h \in Harvester :
    Found(r, h) /\ req[r].pc = "invoking" /\ h \in hmHarvesters \cap hmHarvestLookup
      => h \notin jobs

IInv == /\ TypeOK /\ JobFollowsStatus
        /\ OpsFit /\ Owned /\ Exclusive /\ TakenOut /\ BornFirst /\ Fresh /\ Hides
        /\ InvokesAlone

-----------------------------------------------------------------------------
(* What the helpers of the model do *)

ReqType == [pc : Pcs, op : Ops, ids : Seq(Harvester), named : SUBSET Harvester]

LEMMA IdType ==
  ASSUME TypeOK, NEW r \in Request, req[r].ids # <<>>
  PROVE  Id(r) \in Harvester /\ Tail(req[r].ids) \in Seq(Harvester)
<1>1. req[r].ids \in Seq(Harvester)
  BY DEF TypeOK
<1> QED
  BY <1>1, HeadTailProperties DEF Id

LEMMA SetStatusFacts ==
  ASSUME TypeOK, NEW x \in Actor, NEW h \in Harvester, NEW s \in Status \cup {Absent},
         SetStatus(x, h, s)
  PROVE  /\ pend' \in [Actor -> [Harvester -> Status \cup {Absent, Unset}]]
         /\ tasks' \in [Actor -> [Harvester -> Status \cup {Absent, Unset}]]
         /\ \A y \in Actor : \A g \in Harvester :
              pend'[y][g] # Unset => pend[y][g] # Unset \/ g = h
<1>1. /\ pend \in [Actor -> [Harvester -> Status \cup {Absent, Unset}]]
      /\ tasks \in [Actor -> [Harvester -> Status \cup {Absent, Unset}]]
  BY DEF TypeOK
<1>2. CASE tree[h] = Absent
  BY <1>1, <1>2 DEF SetStatus
<1>3. CASE tree[h] # Absent
  <2>1. /\ tasks' = [tasks EXCEPT ![x][h] = s]
        /\ pend' = pend \/ pend' = [pend EXCEPT ![x][h] = s]
    BY <1>3 DEF SetStatus
  <2>2. tasks' \in [Actor -> [Harvester -> Status \cup {Absent, Unset}]]
    BY <1>1, <2>1
  <2>3. pend' \in [Actor -> [Harvester -> Status \cup {Absent, Unset}]]
    <3>1. CASE pend' = pend
      BY <1>1, <3>1
    <3>2. CASE pend' = [pend EXCEPT ![x][h] = s]
      BY <1>1, <3>2
    <3> QED
      BY <2>1, <3>1, <3>2
  <2>4. \A y \in Actor : \A g \in Harvester :
          pend'[y][g] # Unset => pend[y][g] # Unset \/ g = h
    BY <1>1, <2>1
  <2> QED
    BY <2>2, <2>3, <2>4
<1> QED
  BY <1>2, <1>3

LEMMA CommitFacts ==
  ASSUME TypeOK, NEW x \in Actor, CommitRows(x)
  PROVE  /\ pend' \in [Actor -> [Harvester -> Status \cup {Absent, Unset}]]
         /\ table' \in [Harvester -> Status \cup {Absent}]
         /\ \A y \in Actor : \A g \in Harvester :
              pend'[y][g] # Unset => pend[y][g] # Unset
         /\ \A g \in Harvester : table'[g] # Absent => table[g] # Absent \/ pend[x][g] # Unset
<1>1. pend \in [Actor -> [Harvester -> Status \cup {Absent, Unset}]]
      /\ table \in [Harvester -> Status \cup {Absent}]
  BY DEF TypeOK
<1>2. \A g \in Harvester : Seen(x, g) \in Status \cup {Absent}
                           /\ (Seen(x, g) # Absent => table[g] # Absent \/ pend[x][g] # Unset)
  BY <1>1 DEF Seen
<1>3. Nothing \in [Harvester -> Status \cup {Absent, Unset}]
      /\ \A g \in Harvester : Nothing[g] = Unset
  BY DEF Nothing
<1>4. table' = [g \in Harvester |-> Seen(x, g)] /\ pend' = [pend EXCEPT ![x] = Nothing]
  BY DEF CommitRows
<1>5. pend' \in [Actor -> [Harvester -> Status \cup {Absent, Unset}]]
  BY <1>1, <1>3, <1>4
<1>6. \A y \in Actor : \A g \in Harvester : pend'[y][g] # Unset => pend[y][g] # Unset
  BY <1>1, <1>3, <1>4
<1> QED
  BY <1>2, <1>4, <1>5, <1>6

LEMMA FlushFacts ==
  ASSUME TypeOK, NEW x \in Actor, CommitAndFlush(x)
  PROVE  /\ CommitRows(x)
         /\ tree' \in [Harvester -> Status \cup {Absent}]
         /\ tasks' \in [Actor -> [Harvester -> Status \cup {Absent, Unset}]]
<1>1. Nothing \in [Harvester -> Status \cup {Absent, Unset}]
  BY DEF Nothing
<1> QED
  BY <1>1 DEF TypeOK, CommitAndFlush

-----------------------------------------------------------------------------
(* Steps in which no request gets further with a harvester *)

Quieter ==
  \A q \in Request : \A h \in Harvester :
    /\ Found(q, h)' => /\ Found(q, h) /\ req'[q].pc = req[q].pc /\ req'[q].op = req[q].op
    /\ Adding(q, h)' => Adding(q, h)

LEMMA AnswersFacts ==
  ASSUME TypeOK, OpsFit, NEW r \in Request, req[r].ids # <<>>, Answers(r)
  PROVE  /\ Quieter /\ OpsFit' /\ req' \in [Request -> ReqType]
         /\ \A h \in Harvester : ~Found(r, h)' /\ ~Adding(r, h)'
         /\ \A q \in Request \ {r} : req'[q] = req[q]
         /\ req'[r].pc = "next"
<1>1. req' = [req EXCEPT ![r].pc = "next", ![r].ids = Tail(req[r].ids)]
  BY DEF Answers
<1>2. req \in [Request -> ReqType] /\ Tail(req[r].ids) \in Seq(Harvester)
  BY IdType DEF TypeOK, ReqType
<1>3. req'[r] = [pc |-> "next", op |-> req[r].op, ids |-> Tail(req[r].ids), named |-> req[r].named]
      /\ \A q \in Request \ {r} : req'[q] = req[q]
  BY <1>1, <1>2 DEF ReqType
<1>4. req' \in [Request -> ReqType]
  <2>1. req'[r] \in ReqType
    BY <1>2, <1>3 DEF ReqType, Pcs
  <2>2. req' = [q \in Request |-> req'[q]]
    BY <1>1, <1>2
  <2> QED
    BY <1>2, <1>3, <2>1, <2>2
<1>5. \A h \in Harvester : ~Found(r, h)' /\ ~Adding(r, h)'
  BY <1>3 DEF Found, Adding, At, OpsFit
<1>6. Quieter
  BY <1>3, <1>5 DEF Quieter, Found, Adding, At, Id
<1>7. OpsFit'
  BY <1>3 DEF OpsFit
<1> QED
  BY <1>3, <1>4, <1>5, <1>6, <1>7

LEMMA GoesFacts ==
  ASSUME TypeOK, NEW r \in Request, NEW pc \in Pcs, Goes(r, pc)
  PROVE  /\ req' \in [Request -> ReqType]
         /\ req'[r].pc = pc /\ req'[r].op = req[r].op /\ req'[r].ids = req[r].ids
         /\ \A q \in Request \ {r} : req'[q] = req[q]
<1>1. req' = [req EXCEPT ![r].pc = pc] /\ req \in [Request -> ReqType]
  BY DEF Goes, TypeOK, ReqType
<1>2. req'[r] = [pc |-> pc, op |-> req[r].op, ids |-> req[r].ids, named |-> req[r].named]
      /\ \A q \in Request \ {r} : req'[q] = req[q]
  BY <1>1 DEF ReqType
<1>3. req'[r] \in ReqType /\ req' = [q \in Request |-> req'[q]]
  BY <1>1, <1>2 DEF ReqType
<1> QED
  BY <1>1, <1>2, <1>3

LEMMA GoesQuiet ==
  ASSUME TypeOK, OpsFit, NEW r \in Request, NEW pc \in {"failed", "ended"}, Goes(r, pc)
  PROVE  /\ Quieter /\ OpsFit'
         /\ \A h \in Harvester : ~Found(r, h)' /\ ~Adding(r, h)'
<1>1. /\ req'[r].pc = pc /\ req'[r].op = req[r].op /\ req'[r].ids = req[r].ids
      /\ \A q \in Request \ {r} : req'[q] = req[q]
  BY GoesFacts DEF Pcs
<1>2. \A h \in Harvester : ~Found(r, h)' /\ ~Adding(r, h)'
  BY <1>1 DEF Found, Adding, At
<1> QED
  BY <1>1, <1>2 DEF Quieter, OpsFit, Found, Adding, At, Id

\* What such a step keeps, if what it adds belongs to a harvester somebody found
LEMMA QuietParts ==
  ASSUME IInv, Quieter,
         hmHarvesters' \subseteq hmHarvesters, hmHarvestLookup' \subseteq hmHarvestLookup,
         born' = born,
         \A h \in jobs' \ jobs : monitor[h] = NoOne /\ \E q \in Request : Found(q, h),
         jobs' \subseteq Harvester,
         \A q \in Request : \A h \in Harvester :
           hiding'[q][h] # 0 => hiding'[q][h] = hiding[q][h] /\ history'[h] >= history[h],
         history' \in [Harvester -> Nat],
         \A h \in Harvester : table'[h] # Absent \/ exec'[h] # "idle" => h \in born,
         \A x \in Actor : \A h \in Harvester : pend'[x][h] # Unset => h \in born,
         \A q \in Request : \A h \in Harvester : Found(q, h)' =>
           manager' = manager \/ manager # q
  PROVE  Exclusive' /\ TakenOut' /\ BornFirst' /\ Fresh' /\ Hides' /\ InvokesAlone'
<1>1. Exclusive'
  BY DEF IInv, Exclusive, Quieter
<1>2. TakenOut'
  BY DEF IInv, TakenOut, Removing, Quieter
<1>3. BornFirst'
  BY DEF IInv, BornFirst, Quieter
<1>4. Fresh'
  BY DEF IInv, Fresh, Quieter
<1>5. Hides'
  <2> SUFFICES ASSUME NEW r \in Request, NEW h \in Harvester, hiding'[r][h] # 0
               PROVE  /\ hiding'[r][h] <= history'[h] /\ h \notin hmHarvesters'
                      /\ \A q \in Request : ~Removing(q, h)' /\ (q # r => hiding'[q][h] = 0)
    BY DEF Hides
  <2>1. /\ hiding[r][h] <= history[h] /\ h \notin hmHarvesters
        /\ \A q \in Request : ~Removing(q, h) /\ (q # r => hiding[q][h] = 0)
    BY DEF IInv, Hides
  <2>2. hiding[r][h] \in Nat /\ history[h] \in Nat /\ history'[h] \in Nat
    BY DEF IInv, TypeOK
  <2>3. \A q \in Request : ~Removing(q, h)'
    BY <2>1 DEF Removing, Quieter
  <2> QED
    BY <2>1, <2>2, <2>3
<1>6. InvokesAlone'
  <2> SUFFICES ASSUME NEW r \in Request, NEW h \in Harvester,
                      Found(r, h)', req'[r].pc = "invoking",
                      h \in hmHarvesters' \cap hmHarvestLookup', h \in jobs'
               PROVE  FALSE
    BY DEF InvokesAlone
  <2>1. Found(r, h) /\ req[r].pc = "invoking"
    BY DEF Quieter
  <2>2. h \in jobs' \ jobs
    BY <2>1 DEF IInv, InvokesAlone
  <2>3. monitor[h] = r
    BY <2>1 DEF IInv, Owned
  <2> QED
    BY <2>2, <2>3, HarvestAssumption DEF Actor
<1> QED
  BY <1>1, <1>2, <1>3, <1>4, <1>5, <1>6

\* Monitors that nobody enters or leaves
LEMMA OwnedStays ==
  ASSUME IInv, monitor' = monitor,
         \A q \in Request : req[q].pc \in {"destroying", "invoking"}
                              \/ req'[q].pc \in {"destroying", "invoking"} => req'[q] = req[q]
  PROVE  Owned'
<1> SUFFICES ASSUME NEW q \in Request, NEW h \in Harvester
             PROVE  monitor[h] = q <=> Found(q, h)' /\ req'[q].pc \in {"destroying", "invoking"}
  BY DEF Owned
<1>1. monitor[h] = q <=> Found(q, h) /\ req[q].pc \in {"destroying", "invoking"}
  BY DEF IInv, Owned
<1>2. CASE req'[q] = req[q]
  BY <1>1, <1>2 DEF Found, Id
<1>3. CASE req'[q] # req[q]
  BY <1>1, <1>3
<1> QED
  BY <1>2, <1>3

-----------------------------------------------------------------------------
(* Calls to a harvester *)

LEMMA AlreadyDoneStep ==
  ASSUME IInv, NEW r \in Request, AlreadyDone(r)
  PROVE  IInv'
<1>1. /\ req[r].ids # <<>> /\ Answers(r)
      /\ UNCHANGED <<memory, monitors, quartz, settings, data, doomed, ghosts>>
  BY DEF AlreadyDone, Calls, Does, At
<1>2. /\ Quieter /\ OpsFit' /\ req' \in [Request -> ReqType]
      /\ \A q \in Request \ {r} : req'[q] = req[q]
      /\ req'[r].pc = "next" /\ req[r].pc = "called"
  BY <1>1, AnswersFacts DEF IInv, AlreadyDone, Calls, Does, At
<1>3. TypeOK'
  BY <1>1, <1>2 DEF IInv, TypeOK, ReqType, memory, monitors, quartz, settings, data, ghosts
<1>4. JobFollowsStatus'
  BY <1>1 DEF IInv, JobFollowsStatus, memory, monitors, quartz
<1>5. Owned'
  BY <1>1, <1>2, OwnedStays DEF monitors
<1>6. Exclusive' /\ TakenOut' /\ BornFirst' /\ Fresh' /\ Hides' /\ InvokesAlone'
  <2>1. jobs' = jobs /\ jobs \subseteq Harvester /\ manager' = manager
        /\ history' = history /\ hiding' = hiding /\ history \in [Harvester -> Nat]
    BY <1>1 DEF quartz, data, monitors, IInv, TypeOK
  <2> QED
    BY <1>1, <1>2, <2>1, QuietParts
       DEF IInv, BornFirst, memory, monitors, quartz, settings, data, ghosts
<1> QED
  BY <1>2, <1>3, <1>4, <1>5, <1>6 DEF IInv

\* what the operations in the monitor of a harvester have in common
LEMMA CallFacts ==
  ASSUME IInv, NEW r \in Request, NEW op \in {"start", "stop", "run", "update"},
         Calls(r, op), Answers(r)
  PROVE  /\ Id(r) \in Harvester /\ Found(r, Id(r)) /\ monitor[Id(r)] = NoOne
         /\ Id(r) \in born
         /\ Quieter /\ OpsFit' /\ req' \in [Request -> ReqType]
         /\ \A h \in Harvester : ~Found(r, h)'
         /\ \A q \in Request \ {r} : req'[q] = req[q]
         /\ req'[r].pc = "next" /\ req[r].pc = "called"
<1>1. /\ req[r].ids # <<>> /\ req[r].pc = "called" /\ monitor[Id(r)] = NoOne
  BY DEF Calls, Does, At
<1>2. Id(r) \in Harvester
  BY <1>1, IdType DEF IInv
<1>3. Found(r, Id(r))
  BY <1>1 DEF Found
<1>4. Id(r) \in born
  BY <1>2, <1>3 DEF IInv, BornFirst
<1> QED
  BY <1>1, <1>2, <1>3, <1>4, AnswersFacts DEF IInv

LEMMA CallParts ==
  ASSUME IInv, NEW r \in Request, NEW op \in {"start", "stop", "run", "update"},
         Calls(r, op), Answers(r),
         UNCHANGED <<hmHarvesters, hmHarvestLookup, born, hiding, history, table, exec, monitor>>,
         jobs' \subseteq jobs \cup {Id(r)},
         \A x \in Actor : \A h \in Harvester :
           pend'[x][h] # Unset => pend[x][h] # Unset \/ h = Id(r),
         manager' = manager \/ manager = r
  PROVE  /\ OpsFit' /\ Owned'
         /\ Exclusive' /\ TakenOut' /\ BornFirst' /\ Fresh' /\ Hides' /\ InvokesAlone'
<1>1. /\ Id(r) \in Harvester /\ Found(r, Id(r)) /\ monitor[Id(r)] = NoOne /\ Id(r) \in born
      /\ Quieter /\ OpsFit' /\ \A h \in Harvester : ~Found(r, h)'
      /\ \A q \in Request \ {r} : req'[q] = req[q]
      /\ req'[r].pc = "next" /\ req[r].pc = "called"
  BY CallFacts
<1>2. Owned'
  BY <1>1, OwnedStays
<1>3. Exclusive' /\ TakenOut' /\ BornFirst' /\ Fresh' /\ Hides' /\ InvokesAlone'
  <2>1. \A h \in jobs' \ jobs : monitor[h] = NoOne /\ \E q \in Request : Found(q, h)
    BY <1>1
  <2>2. jobs' \subseteq Harvester /\ history' \in [Harvester -> Nat]
    BY <1>1 DEF IInv, TypeOK
  <2>3. \A q \in Request : \A h \in Harvester :
          hiding'[q][h] # 0 => hiding'[q][h] = hiding[q][h] /\ history'[h] >= history[h]
    BY DEF IInv, TypeOK
  <2>4. /\ \A h \in Harvester : table'[h] # Absent \/ exec'[h] # "idle" => h \in born
        /\ \A x \in Actor : \A h \in Harvester : pend'[x][h] # Unset => h \in born
    BY <1>1 DEF IInv, BornFirst
  <2>5. \A q \in Request : \A h \in Harvester : Found(q, h)' => manager' = manager \/ manager # q
    BY <1>1
  <2> QED
    BY <1>1, <2>1, <2>2, <2>3, <2>4, <2>5, QuietParts
<1> QED
  BY <1>1, <1>2, <1>3

LEMMA ActivateFacts ==
  ASSUME IInv, NEW r \in Request, Id(r) \in Harvester, Activate(r)
  PROVE  /\ pend' \in [Actor -> [Harvester -> Status \cup {Absent, Unset}]]
         /\ tasks' \in [Actor -> [Harvester -> Status \cup {Absent, Unset}]]
         /\ \A x \in Actor : \A h \in Harvester :
              pend'[x][h] # Unset => pend[x][h] # Unset \/ h = Id(r)
         /\ status' = [status EXCEPT ![Id(r)] = "ACTIVE"]
         /\ status' \in [Harvester -> Status]
         /\ jobs' = jobs \cup {Id(r)} /\ jobs' \subseteq Harvester
<1>1. SetStatus(r, Id(r), "ACTIVE") /\ r \in Actor /\ "ACTIVE" \in Status \cup {Absent}
  BY DEF Activate, Actor, Status
<1>2. /\ status' = [status EXCEPT ![Id(r)] = "ACTIVE"] /\ jobs' = jobs \cup {Id(r)}
      /\ status \in [Harvester -> Status] /\ jobs \subseteq Harvester
  BY DEF Activate, IInv, TypeOK
<1> QED
  BY <1>1, <1>2, SetStatusFacts DEF IInv, Status

LEMMA StartStep ==
  ASSUME IInv, NEW r \in Request, Start(r)
  PROVE  IInv'
<1>1. /\ Calls(r, "start") /\ Activate(r) /\ Answers(r)
      /\ UNCHANGED <<hmHarvesters, hmHarvestLookup, running, monitors, due, exec,
                     firings, table, tree, data, doomed, ghosts>>
  BY DEF Start
<1>2. Id(r) \in Harvester /\ req' \in [Request -> ReqType]
  BY <1>1, CallFacts
<1>3. /\ pend' \in [Actor -> [Harvester -> Status \cup {Absent, Unset}]]
      /\ tasks' \in [Actor -> [Harvester -> Status \cup {Absent, Unset}]]
      /\ \A x \in Actor : \A h \in Harvester :
           pend'[x][h] # Unset => pend[x][h] # Unset \/ h = Id(r)
      /\ status' = [status EXCEPT ![Id(r)] = "ACTIVE"]
      /\ status' \in [Harvester -> Status]
      /\ jobs' = jobs \cup {Id(r)} /\ jobs' \subseteq Harvester
  BY <1>1, <1>2, ActivateFacts
<1>4. TypeOK'
  BY <1>1, <1>2, <1>3 DEF IInv, TypeOK, ReqType, monitors, data, ghosts
<1>5. JobFollowsStatus'
  BY <1>1, <1>2, <1>3 DEF IInv, TypeOK, JobFollowsStatus, monitors
<1> QED
  BY <1>1, <1>3, <1>4, <1>5, CallParts DEF IInv, monitors, data, ghosts

LEMMA DeactivateFacts ==
  ASSUME IInv, NEW x \in Actor, NEW h \in Harvester, Deactivate(x, h)
  PROVE  /\ pend' \in [Actor -> [Harvester -> Status \cup {Absent, Unset}]]
         /\ tasks' \in [Actor -> [Harvester -> Status \cup {Absent, Unset}]]
         /\ \A y \in Actor : \A g \in Harvester :
              pend'[y][g] # Unset => pend[y][g] # Unset \/ g = h
         /\ status' = [status EXCEPT ![h] = "INACTIVE"]
         /\ status' \in [Harvester -> Status] /\ due' \in [Harvester -> Nat]
         /\ jobs' = jobs \ {h}
<1>1. SetStatus(x, h, "INACTIVE") /\ "INACTIVE" \in Status \cup {Absent}
  BY DEF Deactivate, Status
<1>2. /\ status' = [status EXCEPT ![h] = "INACTIVE"] /\ jobs' = jobs \ {h}
      /\ due' = [due EXCEPT ![h] = 0]
      /\ status \in [Harvester -> Status] /\ due \in [Harvester -> Nat]
  BY DEF Deactivate, IInv, TypeOK
<1> QED
  BY <1>1, <1>2, SetStatusFacts DEF IInv, Status

LEMMA StopStep ==
  ASSUME IInv, NEW r \in Request, Stop(r)
  PROVE  IInv'
<1>1. /\ Calls(r, "stop") /\ Deactivate(r, Id(r)) /\ Answers(r)
      /\ UNCHANGED <<hmHarvesters, hmHarvestLookup, running, monitors, exec, firings,
                     table, tree, data, doomed, ghosts>>
  BY DEF Stop
<1>2. Id(r) \in Harvester /\ req' \in [Request -> ReqType] /\ r \in Actor
  BY <1>1, CallFacts DEF Actor
<1>3. /\ pend' \in [Actor -> [Harvester -> Status \cup {Absent, Unset}]]
      /\ tasks' \in [Actor -> [Harvester -> Status \cup {Absent, Unset}]]
      /\ \A x \in Actor : \A h \in Harvester :
           pend'[x][h] # Unset => pend[x][h] # Unset \/ h = Id(r)
      /\ status' = [status EXCEPT ![Id(r)] = "INACTIVE"]
      /\ status' \in [Harvester -> Status] /\ due' \in [Harvester -> Nat]
      /\ jobs' = jobs \ {Id(r)}
  BY <1>1, <1>2, DeactivateFacts
<1>4. TypeOK'
  BY <1>1, <1>2, <1>3 DEF IInv, TypeOK, ReqType, monitors, data, ghosts
<1>5. JobFollowsStatus'
  BY <1>1, <1>2, <1>3 DEF IInv, TypeOK, JobFollowsStatus, monitors
<1> QED
  BY <1>1, <1>3, <1>4, <1>5, CallParts DEF IInv, monitors, data, ghosts

LEMMA RunStep ==
  ASSUME IInv, NEW r \in Request, Run(r)
  PROVE  IInv'
<1>1. /\ Calls(r, "run") /\ Answers(r)
      /\ \/ Activate(r)
         \/ UNCHANGED <<pend, tasks, status, jobs>>
      /\ due' = due \/ due' = [due EXCEPT ![Id(r)] = due[Id(r)] + 1]
      /\ UNCHANGED <<hmHarvesters, hmHarvestLookup, running, monitors, exec, firings,
                     table, tree, data, doomed, ghosts>>
  BY DEF Run
<1>2. Id(r) \in Harvester /\ req' \in [Request -> ReqType]
  BY <1>1, CallFacts
<1>3. /\ pend' \in [Actor -> [Harvester -> Status \cup {Absent, Unset}]]
      /\ tasks' \in [Actor -> [Harvester -> Status \cup {Absent, Unset}]]
      /\ \A x \in Actor : \A h \in Harvester :
           pend'[x][h] # Unset => pend[x][h] # Unset \/ h = Id(r)
      /\ status' \in [Harvester -> Status]
      /\ jobs' \subseteq jobs \cup {Id(r)} /\ jobs' \subseteq Harvester
  <2>1. CASE Activate(r)
    BY <2>1, <1>2, ActivateFacts
  <2>2. CASE UNCHANGED <<pend, tasks, status, jobs>>
    BY <2>2 DEF IInv, TypeOK
  <2> QED
    BY <1>1, <2>1, <2>2
<1>4. due' \in [Harvester -> Nat]
  <2>1. due \in [Harvester -> Nat]
    BY DEF IInv, TypeOK
  <2>2. CASE due' = due
    BY <2>1, <2>2
  <2>3. CASE due' = [due EXCEPT ![Id(r)] = due[Id(r)] + 1]
    BY <2>1, <2>3, <1>2
  <2> QED
    BY <1>1, <2>2, <2>3
<1>5. TypeOK'
  BY <1>1, <1>2, <1>3, <1>4 DEF IInv, TypeOK, ReqType, monitors, data, ghosts
<1>6. JobFollowsStatus'
  BY <1>1, <1>2, ActivateFacts DEF IInv, TypeOK, JobFollowsStatus, monitors
<1> QED
  BY <1>1, <1>3, <1>5, <1>6, CallParts DEF IInv, monitors, data, ghosts

LEMMA UpdateStep ==
  ASSUME IInv, NEW r \in Request, Update(r)
  PROVE  IInv'
<1>1. /\ Calls(r, "update") /\ Answers(r) /\ SetStatus(r, Id(r), status[Id(r)])
      /\ IF status[Id(r)] = "ACTIVE"
         THEN jobs' = jobs \cup {Id(r)} /\ due' = [due EXCEPT ![Id(r)] = 0]
         ELSE UNCHANGED <<jobs, due>>
      /\ manager' = NoOne
      /\ UNCHANGED <<memory, monitor, exec, firings, table, tree, data, doomed, ghosts>>
  BY DEF Update
<1>2. Id(r) \in Harvester /\ req' \in [Request -> ReqType] /\ Found(r, Id(r)) /\ r \in Actor
  BY <1>1, CallFacts DEF Actor
<1>3. status[Id(r)] \in Status \cup {Absent}
  BY <1>2 DEF IInv, TypeOK
<1>4. /\ pend' \in [Actor -> [Harvester -> Status \cup {Absent, Unset}]]
      /\ tasks' \in [Actor -> [Harvester -> Status \cup {Absent, Unset}]]
      /\ \A x \in Actor : \A h \in Harvester :
           pend'[x][h] # Unset => pend[x][h] # Unset \/ h = Id(r)
  <2> DEFINE h == Id(r)
             s == status[Id(r)]
  <2>1. SetStatus(r, h, s) /\ h \in Harvester /\ s \in Status \cup {Absent} /\ TypeOK
    BY <1>1, <1>2, <1>3 DEF IInv
  <2> HIDE DEF h, s
  <2>2. /\ pend' \in [Actor -> [Harvester -> Status \cup {Absent, Unset}]]
        /\ tasks' \in [Actor -> [Harvester -> Status \cup {Absent, Unset}]]
        /\ \A x \in Actor : \A g \in Harvester :
             pend'[x][g] # Unset => pend[x][g] # Unset \/ g = h
    BY <2>1, <1>2, SetStatusFacts
  <2> QED
    BY <2>2 DEF h
<1>5. due' \in [Harvester -> Nat] /\ jobs' \subseteq Harvester /\ jobs' \subseteq jobs \cup {Id(r)}
  <2>1. due \in [Harvester -> Nat] /\ jobs \subseteq Harvester
    BY DEF IInv, TypeOK
  <2>2. CASE status[Id(r)] = "ACTIVE"
    BY <2>1, <2>2, <1>1, <1>2
  <2>3. CASE status[Id(r)] # "ACTIVE"
    BY <2>1, <2>3, <1>1
  <2> QED
    BY <2>2, <2>3
<1>6. TypeOK'
  BY <1>1, <1>2, <1>4, <1>5 DEF IInv, TypeOK, ReqType, memory, data, ghosts
<1>7. JobFollowsStatus'
  BY <1>1, <1>2 DEF IInv, TypeOK, JobFollowsStatus, memory
<1>8. manager = r
  BY <1>1, <1>2 DEF IInv, Exclusive, Calls, Does
<1> QED
  BY <1>1, <1>4, <1>5, <1>6, <1>7, <1>8, CallParts DEF IInv, memory, data, ghosts

-----------------------------------------------------------------------------
(* Harvests of the scheduler *)

LEMMA JobParts ==
  ASSUME IInv, req' = req,
         UNCHANGED <<hmHarvesters, hmHarvestLookup, manager, monitor, born, hiding>>,
         jobs' \subseteq jobs, history' \in [Harvester -> Nat],
         \A h \in Harvester : history'[h] >= history[h],
         \A h \in Harvester : table'[h] # Absent \/ exec'[h] # "idle" => h \in born,
         \A x \in Actor : \A h \in Harvester : pend'[x][h] # Unset => h \in born
  PROVE  /\ OpsFit' /\ Owned'
         /\ Exclusive' /\ TakenOut' /\ BornFirst' /\ Fresh' /\ Hides' /\ InvokesAlone'
<1>1. Quieter
  BY DEF Quieter, Found, Adding, At, Id
<1>2. OpsFit'
  BY DEF IInv, OpsFit
<1>3. Owned'
  BY OwnedStays
<1>4. jobs' \subseteq Harvester
  BY DEF IInv, TypeOK
<1> QED
  BY <1>1, <1>2, <1>3, <1>4, QuietParts

LEMMA FireStep ==
  ASSUME IInv, NEW h \in Harvester, Fire(h)
  PROVE  IInv'
<1>1. /\ h \in jobs
      /\ \/ firings[h] < MaxFirings /\ firings' = [firings EXCEPT ![h] = firings[h] + 1]
              /\ due' = due
         \/ due[h] > 0 /\ due' = [due EXCEPT ![h] = due[h] - 1] /\ firings' = firings
      /\ \/ exec' = [exec EXCEPT ![h] = "harvesting"] /\ running' = [running EXCEPT ![h] = TRUE]
         \/ exec' = exec /\ running' = running
      /\ UNCHANGED <<hmHarvesters, hmHarvestLookup, status, monitors, jobs, settings,
                     data, req, doomed, ghosts>>
  BY DEF Fire
<1>2. /\ firings \in [Harvester -> 0 .. MaxFirings] /\ due \in [Harvester -> Nat]
      /\ exec \in [Harvester -> Execs] /\ running \in [Harvester -> BOOLEAN] /\ MaxFirings \in Nat
  BY HarvestAssumption DEF IInv, TypeOK
<1>3. firings' \in [Harvester -> 0 .. MaxFirings] /\ due' \in [Harvester -> Nat]
  <2>1. CASE firings[h] < MaxFirings /\ firings' = [firings EXCEPT ![h] = firings[h] + 1]
               /\ due' = due
    BY <1>2, <2>1
  <2>2. CASE due[h] > 0 /\ due' = [due EXCEPT ![h] = due[h] - 1] /\ firings' = firings
    BY <1>2, <2>2
  <2> QED
    BY <1>1, <2>1, <2>2
<1>4. /\ exec' \in [Harvester -> Execs] /\ running' \in [Harvester -> BOOLEAN]
      /\ \A g \in Harvester : exec'[g] # "idle" => exec[g] # "idle" \/ g = h
  <2>1. CASE exec' = [exec EXCEPT ![h] = "harvesting"] /\ running' = [running EXCEPT ![h] = TRUE]
    BY <1>2, <2>1 DEF Execs
  <2>2. CASE exec' = exec /\ running' = running
    BY <1>2, <2>2
  <2> QED
    BY <1>1, <2>1, <2>2
<1>5. TypeOK'
  BY <1>1, <1>3, <1>4 DEF IInv, TypeOK, monitors, settings, data, ghosts
<1>6. JobFollowsStatus'
  BY <1>1 DEF IInv, JobFollowsStatus, monitors
<1>7. h \in born
  BY <1>1 DEF IInv, BornFirst
<1>8. history \in [Harvester -> Nat] /\ \A g \in Harvester : history[g] >= history[g]
  BY DEF IInv, TypeOK
<1>9. \A g \in Harvester : table'[g] # Absent \/ exec'[g] # "idle" => g \in born
  BY <1>1, <1>4, <1>7 DEF IInv, BornFirst, settings
<1>10. \A x \in Actor : \A g \in Harvester : pend'[x][g] # Unset => g \in born
  BY <1>1 DEF IInv, BornFirst, settings
<1> QED
  BY <1>1, <1>5, <1>6, <1>8, <1>9, <1>10, JobParts DEF IInv, monitors, data, ghosts

LEMMA AlignStep ==
  ASSUME IInv, NEW h \in Harvester, Align(h)
  PROVE  IInv'
<1>1. /\ \E k \in Record :
           records' = [records EXCEPT ![h] = IF k \in records[h] THEN records[h] \ {k}
                                                                  ELSE records[h] \cup {k}]
      /\ UNCHANGED <<memory, monitors, quartz, settings, history, hiding, req, doomed, ghosts>>
  BY DEF Align
<1>2. records' \in [Harvester -> SUBSET Record]
  BY <1>1 DEF IInv, TypeOK
<1>3. TypeOK'
  BY <1>1, <1>2 DEF IInv, TypeOK, memory, monitors, quartz, settings, ghosts
<1>4. JobFollowsStatus'
  BY <1>1 DEF IInv, JobFollowsStatus, memory, monitors, quartz
<1>5. history \in [Harvester -> Nat] /\ \A g \in Harvester : history[g] >= history[g]
  BY DEF IInv, TypeOK
<1>6. /\ \A g \in Harvester : table'[g] # Absent \/ exec'[g] # "idle" => g \in born
      /\ \A x \in Actor : \A g \in Harvester : pend'[x][g] # Unset => g \in born
  BY <1>1 DEF IInv, BornFirst, settings, quartz
<1> QED
  BY <1>1, <1>3, <1>4, <1>5, <1>6, JobParts DEF IInv, memory, monitors, quartz, ghosts

\* the steps of a harvest that move its execution on and no more
LEMMA HarvestMoves ==
  ASSUME IInv, NEW h \in Harvester, Harvested(h) \/ HarvestFails(h)
  PROVE  IInv'
<1>1. /\ exec[h] # "idle"
      /\ \E e \in Execs : exec' = [exec EXCEPT ![h] = e]
      /\ UNCHANGED <<memory, monitors, jobs, due, firings, settings, data, req, doomed, ghosts>>
  BY DEF Harvested, HarvestFails, Execs
<1>2. /\ exec' \in [Harvester -> Execs]
      /\ \A g \in Harvester : exec'[g] # "idle" => exec[g] # "idle" \/ g = h
  BY <1>1 DEF IInv, TypeOK
<1>3. TypeOK'
  BY <1>1, <1>2 DEF IInv, TypeOK, memory, monitors, settings, data, ghosts
<1>4. JobFollowsStatus'
  BY <1>1 DEF IInv, JobFollowsStatus, memory, monitors
<1>5. history \in [Harvester -> Nat] /\ \A g \in Harvester : history[g] >= history[g]
  BY DEF IInv, TypeOK
<1>6. /\ \A g \in Harvester : table'[g] # Absent \/ exec'[g] # "idle" => g \in born
      /\ \A x \in Actor : \A g \in Harvester : pend'[x][g] # Unset => g \in born
  BY <1>1, <1>2 DEF IInv, BornFirst, settings
<1> QED
  BY <1>1, <1>3, <1>4, <1>5, <1>6, JobParts DEF IInv, memory, monitors, data, ghosts

LEMMA StopItselfStep ==
  ASSUME IInv, NEW h \in Harvester, StopItself(h)
  PROVE  IInv'
<1>1. /\ exec[h] = "stopping" /\ monitor[h] = NoOne
      /\ \/ Deactivate(h, h)
         \/ UNCHANGED <<pend, tasks, jobs, due, status>>
      /\ exec' = [exec EXCEPT ![h] = "closing"]
      /\ UNCHANGED <<hmHarvesters, hmHarvestLookup, running, monitors, firings, table,
                     tree, data, req, doomed, ghosts>>
  BY DEF StopItself
<1>2. h \in Actor /\ h \in born
  BY <1>1 DEF Actor, IInv, BornFirst
<1>3. /\ pend' \in [Actor -> [Harvester -> Status \cup {Absent, Unset}]]
      /\ tasks' \in [Actor -> [Harvester -> Status \cup {Absent, Unset}]]
      /\ \A x \in Actor : \A g \in Harvester :
           pend'[x][g] # Unset => pend[x][g] # Unset \/ g = h
      /\ status' \in [Harvester -> Status] /\ due' \in [Harvester -> Nat]
      /\ jobs' \subseteq jobs
  <2>1. CASE Deactivate(h, h)
    BY <2>1, <1>2, DeactivateFacts
  <2>2. CASE UNCHANGED <<pend, tasks, jobs, due, status>>
    BY <2>2 DEF IInv, TypeOK
  <2> QED
    BY <1>1, <2>1, <2>2
<1>4. exec' \in [Harvester -> Execs]
      /\ \A g \in Harvester : exec'[g] # "idle" => exec[g] # "idle" \/ g = h
  BY <1>1 DEF IInv, TypeOK, Execs
<1>5. TypeOK'
  BY <1>1, <1>3, <1>4 DEF IInv, TypeOK, monitors, data, ghosts
<1>6. JobFollowsStatus'
  <2>1. CASE Deactivate(h, h)
    <3>1. status' = [status EXCEPT ![h] = "INACTIVE"] /\ jobs' = jobs \ {h}
      BY <2>1, <1>2, DeactivateFacts
    <3> QED
      BY <3>1, <1>1 DEF IInv, TypeOK, JobFollowsStatus, monitors
  <2>2. CASE UNCHANGED <<pend, tasks, jobs, due, status>>
    BY <2>2, <1>1 DEF IInv, JobFollowsStatus, monitors
  <2> QED
    BY <1>1, <2>1, <2>2
<1>7. history \in [Harvester -> Nat] /\ \A g \in Harvester : history[g] >= history[g]
  BY DEF IInv, TypeOK
<1>8. /\ \A g \in Harvester : table'[g] # Absent \/ exec'[g] # "idle" => g \in born
      /\ \A x \in Actor : \A g \in Harvester : pend'[x][g] # Unset => g \in born
  BY <1>1, <1>2, <1>3, <1>4 DEF IInv, BornFirst
<1> QED
  BY <1>1, <1>3, <1>5, <1>6, <1>7, <1>8, JobParts DEF IInv, monitors, data, ghosts

LEMMA CloseHarvestStep ==
  ASSUME IInv, NEW h \in Harvester, CloseHarvest(h)
  PROVE  IInv'
<1>1. /\ exec[h] = "closing" /\ CommitAndFlush(h)
      /\ exec' = [exec EXCEPT ![h] = "recording"]
      /\ UNCHANGED <<memory, monitors, jobs, due, firings, data, req, doomed, ghosts>>
  BY DEF CloseHarvest
<1>2. h \in Actor /\ h \in born
  BY <1>1 DEF Actor, IInv, BornFirst
<1>3. /\ CommitRows(h) /\ tree' \in [Harvester -> Status \cup {Absent}]
      /\ tasks' \in [Actor -> [Harvester -> Status \cup {Absent, Unset}]]
  BY <1>1, <1>2, FlushFacts DEF IInv
<1>4. /\ pend' \in [Actor -> [Harvester -> Status \cup {Absent, Unset}]]
      /\ table' \in [Harvester -> Status \cup {Absent}]
      /\ \A y \in Actor : \A g \in Harvester : pend'[y][g] # Unset => pend[y][g] # Unset
      /\ \A g \in Harvester : table'[g] # Absent => table[g] # Absent \/ pend[h][g] # Unset
  BY <1>2, <1>3, CommitFacts DEF IInv
<1>5. exec' \in [Harvester -> Execs]
      /\ \A g \in Harvester : exec'[g] # "idle" => exec[g] # "idle" \/ g = h
  BY <1>1 DEF IInv, TypeOK, Execs
<1>6. TypeOK'
  BY <1>1, <1>3, <1>4, <1>5 DEF IInv, TypeOK, memory, monitors, data, ghosts
<1>7. JobFollowsStatus'
  BY <1>1 DEF IInv, JobFollowsStatus, memory, monitors
<1>8. history \in [Harvester -> Nat] /\ \A g \in Harvester : history[g] >= history[g]
  BY DEF IInv, TypeOK
<1>9. /\ \A g \in Harvester : table'[g] # Absent \/ exec'[g] # "idle" => g \in born
      /\ \A x \in Actor : \A g \in Harvester : pend'[x][g] # Unset => g \in born
  BY <1>2, <1>4, <1>5 DEF IInv, BornFirst
<1> QED
  BY <1>1, <1>6, <1>7, <1>8, <1>9, JobParts DEF IInv, memory, monitors, data, ghosts

LEMMA RecordHistoryStep ==
  ASSUME IInv, NEW h \in Harvester, RecordHistory(h)
  PROVE  IInv'
<1>1. /\ exec' = [exec EXCEPT ![h] = "idle"]
      /\ running' = [running EXCEPT ![h] = FALSE]
      /\ history' = [history EXCEPT ![h] = history[h] + 1] \/ history' = history
      /\ UNCHANGED <<hmHarvesters, hmHarvestLookup, status, monitors, jobs, due, firings,
                     settings, records, hiding, req, doomed, ghosts>>
  BY DEF RecordHistory
<1>2. history' \in [Harvester -> Nat] /\ \A g \in Harvester : history'[g] >= history[g]
  <2>1. history \in [Harvester -> Nat]
    BY DEF IInv, TypeOK
  <2>2. CASE history' = [history EXCEPT ![h] = history[h] + 1]
    BY <2>1, <2>2
  <2>3. CASE history' = history
    BY <2>1, <2>3
  <2> QED
    BY <1>1, <2>2, <2>3
<1>3. /\ exec' \in [Harvester -> Execs] /\ running' \in [Harvester -> BOOLEAN]
      /\ \A g \in Harvester : exec'[g] # "idle" => exec[g] # "idle"
  BY <1>1 DEF IInv, TypeOK, Execs
<1>4. TypeOK'
  BY <1>1, <1>2, <1>3 DEF IInv, TypeOK, monitors, settings, ghosts
<1>5. JobFollowsStatus'
  BY <1>1 DEF IInv, JobFollowsStatus, monitors
<1>6. /\ \A g \in Harvester : table'[g] # Absent \/ exec'[g] # "idle" => g \in born
      /\ \A x \in Actor : \A g \in Harvester : pend'[x][g] # Unset => g \in born
  BY <1>1, <1>3 DEF IInv, BornFirst, settings
<1> QED
  BY <1>1, <1>2, <1>4, <1>5, <1>6, JobParts DEF IInv, monitors, ghosts

-----------------------------------------------------------------------------
(* Requests find a harvester *)

LEMMA FindStep ==
  ASSUME IInv, NEW r \in Request, Find(r)
  PROVE  IInv'
<1>1. /\ req[r].pc = "next" /\ req[r].ids # <<>>
      /\ req[r].op \in {"start", "stop", "run", "invoke"}
      /\ (Id(r) \in hmHarvesters /\ Goes(r, "called")) \/ Answers(r)
      /\ UNCHANGED <<memory, monitors, quartz, settings, data, doomed, ghosts>>
  BY DEF Find, Does, At
<1>2. Id(r) \in Harvester
  BY <1>1, IdType DEF IInv
<1>3. CASE Answers(r)
  <2>1. /\ Quieter /\ OpsFit' /\ req' \in [Request -> ReqType]
        /\ \A q \in Request \ {r} : req'[q] = req[q]
        /\ req'[r].pc = "next"
    BY <1>1, <1>3, AnswersFacts DEF IInv
  <2>2. TypeOK'
    BY <1>1, <2>1 DEF IInv, TypeOK, ReqType, memory, monitors, quartz, settings, data, ghosts
  <2>3. JobFollowsStatus'
    BY <1>1 DEF IInv, JobFollowsStatus, memory, monitors, quartz
  <2>4. Owned'
    BY <1>1, <2>1, OwnedStays DEF monitors
  <2>5. history \in [Harvester -> Nat] /\ jobs \subseteq Harvester
    BY DEF IInv, TypeOK
  <2>6. Exclusive' /\ TakenOut' /\ BornFirst' /\ Fresh' /\ Hides' /\ InvokesAlone'
    BY <1>1, <2>1, <2>5, QuietParts
       DEF IInv, BornFirst, memory, monitors, quartz, settings, data, ghosts
  <2> QED
    BY <2>1, <2>2, <2>3, <2>4, <2>6 DEF IInv
<1>4. CASE Id(r) \in hmHarvesters /\ Goes(r, "called")
  <2>1. /\ req' \in [Request -> ReqType]
        /\ req'[r].pc = "called" /\ req'[r].op = req[r].op /\ req'[r].ids = req[r].ids
        /\ \A q \in Request \ {r} : req'[q] = req[q]
    BY <1>4, GoesFacts DEF IInv, Pcs
  <2>2. \A h \in Harvester :
          /\ Found(r, h)' <=> h = Id(r)
          /\ ~Adding(r, h)' /\ ~Removing(r, h)'
          /\ \A q \in Request \ {r} : /\ Found(q, h)' <=> Found(q, h)
                                      /\ Adding(q, h)' <=> Adding(q, h)
                                      /\ Removing(q, h)' <=> Removing(q, h)
    BY <1>1, <2>1 DEF Found, Adding, Removing, At, Id
  <2>3. TypeOK'
    BY <1>1, <2>1 DEF IInv, TypeOK, ReqType, memory, monitors, quartz, settings, data, ghosts
  <2>4. JobFollowsStatus'
    BY <1>1 DEF IInv, JobFollowsStatus, memory, monitors, quartz
  <2>5. OpsFit'
    BY <2>1 DEF IInv, OpsFit
  <2>6. Owned'
    BY <1>1, <2>1, OwnedStays DEF monitors
  <2>7. Exclusive' /\ TakenOut' /\ InvokesAlone'
    BY <1>1, <2>1, <2>2
       DEF IInv, Exclusive, TakenOut, InvokesAlone, memory, monitors, quartz
  <2>8. BornFirst'
    BY <1>1, <1>4, <2>2 DEF IInv, BornFirst, memory, quartz, settings, data, ghosts
  <2>9. Fresh'
    BY <1>1, <1>4, <2>2 DEF IInv, Fresh, memory, quartz, data
  <2>10. Hides'
    BY <1>1, <2>2 DEF IInv, Hides, memory, data
  <2> QED
    BY <2>3, <2>4, <2>5, <2>6, <2>7, <2>8, <2>9, <2>10 DEF IInv
<1> QED
  BY <1>1, <1>3, <1>4

LEMMA FindAloneStep ==
  ASSUME IInv, NEW r \in Request, FindAlone(r)
  PROVE  IInv'
<1>1. /\ req[r].pc = "next" /\ req[r].ids # <<>> /\ req[r].op \in {"update", "remove"}
      /\ manager = NoOne
      /\ UNCHANGED <<hmHarvesters, status, running, monitor, quartz, settings, data,
                     doomed, ghosts>>
  BY DEF FindAlone, Does, At
<1>2. Id(r) \in Harvester
  BY <1>1, IdType DEF IInv
<1>3. CASE Id(r) \notin hmHarvesters
  <2>1. Answers(r) /\ manager' = manager /\ hmHarvestLookup' = hmHarvestLookup
    BY <1>3 DEF FindAlone
  <2>2. /\ Quieter /\ OpsFit' /\ req' \in [Request -> ReqType]
        /\ \A q \in Request \ {r} : req'[q] = req[q]
        /\ req'[r].pc = "next"
    BY <1>1, <2>1, AnswersFacts DEF IInv
  <2>3. TypeOK'
    BY <1>1, <2>1, <2>2 DEF IInv, TypeOK, ReqType, quartz, settings, data, ghosts
  <2>4. JobFollowsStatus'
    BY <1>1, <2>1 DEF IInv, JobFollowsStatus, quartz
  <2>5. Owned'
    BY <1>1, <2>2, OwnedStays
  <2>6. history \in [Harvester -> Nat] /\ jobs \subseteq Harvester
    BY DEF IInv, TypeOK
  <2>7. Exclusive' /\ TakenOut' /\ BornFirst' /\ Fresh' /\ Hides' /\ InvokesAlone'
    BY <1>1, <2>1, <2>2, <2>6, QuietParts
       DEF IInv, BornFirst, quartz, settings, data, ghosts
  <2> QED
    BY <2>2, <2>3, <2>4, <2>5, <2>7 DEF IInv
<1>4. CASE Id(r) \in hmHarvesters
  <2>1. /\ Goes(r, "called") /\ manager' = r
        /\ hmHarvestLookup' = IF req[r].op = "remove" THEN hmHarvestLookup \ {Id(r)}
                                                      ELSE hmHarvestLookup
    BY <1>4 DEF FindAlone
  <2>2. /\ req' \in [Request -> ReqType]
        /\ req'[r].pc = "called" /\ req'[r].op = req[r].op /\ req'[r].ids = req[r].ids
        /\ \A q \in Request \ {r} : req'[q] = req[q]
    BY <2>1, GoesFacts DEF IInv, Pcs
  <2>3. \A h \in Harvester :
          /\ Found(r, h)' <=> h = Id(r)
          /\ Removing(r, h)' <=> h = Id(r) /\ req[r].op = "remove"
          /\ ~Adding(r, h)'
          /\ \A q \in Request \ {r} : /\ Found(q, h)' <=> Found(q, h)
                                      /\ Adding(q, h)' <=> Adding(q, h)
                                      /\ Removing(q, h)' <=> Removing(q, h)
    BY <1>1, <2>2 DEF Found, Adding, Removing, At, Id
  <2>4. hmHarvestLookup' \subseteq hmHarvestLookup
    BY <2>1
  <2>5. TypeOK'
    BY <1>1, <2>1, <2>2, <2>4 DEF IInv, TypeOK, ReqType, quartz, settings, data, ghosts
  <2>6. JobFollowsStatus'
    BY <1>1, <2>4 DEF IInv, JobFollowsStatus, quartz
  <2>7. OpsFit'
    BY <2>2 DEF IInv, OpsFit
  <2>8. Owned'
    BY <1>1, <2>2, OwnedStays
  <2>9. Exclusive'
    <3>1. \A q \in Request : q # NoOne
      BY HarvestAssumption DEF Actor
    <3> QED
      BY <1>1, <2>1, <2>2, <2>3, <3>1 DEF IInv, Exclusive
  <2>10. TakenOut'
    BY <1>1, <2>1, <2>2, <2>3 DEF IInv, TakenOut
  <2>11. InvokesAlone'
    BY <1>1, <2>2, <2>3, <2>4 DEF IInv, InvokesAlone, quartz
  <2>12. BornFirst'
    BY <1>1, <1>4, <2>3, <2>4 DEF IInv, BornFirst, quartz, settings, data, ghosts
  <2>13. Fresh'
    BY <1>1, <1>4, <2>3, <2>4 DEF IInv, Fresh, quartz, data
  <2>14. Hides'
    BY <1>1, <1>4, <2>3 DEF IInv, Hides, data
  <2> QED
    BY <2>5, <2>6, <2>7, <2>8, <2>9, <2>10, <2>11, <2>12, <2>13, <2>14 DEF IInv
<1> QED
  BY <1>3, <1>4

-----------------------------------------------------------------------------
(* Requests begin and add *)

LEMMA ListsType == \A ids \in Lists : ids \in Seq(Harvester) /\ ids # <<>>
                     /\ (Len(ids) = 1 => Tail(ids) = <<>>) /\ ToSet(ids) \subseteq Harvester
                     /\ Head(ids) \in ToSet(ids)
<1>1. ASSUME NEW h \in Harvester
      PROVE  /\ <<h>> \in Seq(Harvester) /\ <<h>> # <<>> /\ Tail(<<h>>) = <<>>
             /\ ToSet(<<h>>) \subseteq Harvester /\ Head(<<h>>) \in ToSet(<<h>>)
  BY DEF ToSet
<1>2. ASSUME NEW g \in Harvester, NEW h \in Harvester
      PROVE  /\ <<g, h>> \in Seq(Harvester) /\ <<g, h>> # <<>> /\ Len(<<g, h>>) = 2
             /\ ToSet(<<g, h>>) \subseteq Harvester /\ Head(<<g, h>>) \in ToSet(<<g, h>>)
  BY DEF ToSet
<1> SUFFICES ASSUME NEW ids \in Lists
             PROVE  /\ ids \in Seq(Harvester) /\ ids # <<>>
                    /\ (Len(ids) = 1 => Tail(ids) = <<>>) /\ ToSet(ids) \subseteq Harvester
                    /\ Head(ids) \in ToSet(ids)
  OBVIOUS
<1>3. (\E h \in Harvester : ids = <<h>>) \/ \E g, h \in Harvester : ids = <<g, h>>
  BY DEF Lists
<1>4. ASSUME NEW h \in Harvester, ids = <<h>>
      PROVE  /\ ids \in Seq(Harvester) /\ ids # <<>>
             /\ (Len(ids) = 1 => Tail(ids) = <<>>) /\ ToSet(ids) \subseteq Harvester
             /\ Head(ids) \in ToSet(ids)
  BY <1>1, <1>4
<1>5. ASSUME NEW g \in Harvester, NEW h \in Harvester, ids = <<g, h>>
      PROVE  /\ ids \in Seq(Harvester) /\ ids # <<>>
             /\ (Len(ids) = 1 => Tail(ids) = <<>>) /\ ToSet(ids) \subseteq Harvester
             /\ Head(ids) \in ToSet(ids)
  <2>1. /\ <<g, h>> \in Seq(Harvester) /\ <<g, h>> # <<>> /\ Len(<<g, h>>) # 1
        /\ ToSet(<<g, h>>) \subseteq Harvester /\ Head(<<g, h>>) \in ToSet(<<g, h>>)
    BY <1>2
  <2> QED
    BY <2>1, <1>5
<1> QED
  BY <1>3, <1>4, <1>5

LEMMA BeginStep ==
  ASSUME IInv, NEW r \in Request, Begin(r)
  PROVE  IInv'
<1>1. PICK op \in ListOps \cup {"add", "update", "invoke"}, ids \in Lists :
        /\ op \notin ListOps => Len(ids) = 1
        /\ \A n \in DOMAIN ids : op = "add" => ids[n] \notin born
        /\ req' = [req EXCEPT ![r] = [pc |-> "next", op |-> op, ids |-> ids,
                                      named |-> ToSet(ids)]]
        /\ born' = IF op = "add" THEN born \cup ToSet(ids) ELSE born
  BY DEF Begin
<1>2. /\ req[r] = Idle
      /\ UNCHANGED <<memory, monitors, quartz, settings, data, doomed,
                     spoiled, overlapped, restarts>>
  BY DEF Begin
<1>3. /\ ids \in Seq(Harvester) /\ ids # <<>> /\ ToSet(ids) \subseteq Harvester
      /\ op = "add" => Tail(ids) = <<>> /\ Len(ids) = 1
      /\ Head(ids) \in ToSet(ids) /\ Head(ids) = ids[1]
  BY <1>1, ListsType DEF ListOps
<1>4. op = "add" => Head(ids) \notin born
  <2>1. 1 \in DOMAIN ids
    BY <1>3
  <2> QED
    BY <1>1, <1>3, <2>1
<1>5. req \in [Request -> ReqType]
  BY DEF IInv, TypeOK, ReqType
<1>6. /\ req'[r] = [pc |-> "next", op |-> op, ids |-> ids, named |-> ToSet(ids)]
      /\ \A q \in Request \ {r} : req'[q] = req[q]
  BY <1>1, <1>5
<1>7. req' \in [Request -> ReqType]
  <2>1. op \in Ops
    BY DEF Ops
  <2>2. [pc |-> "next", op |-> op, ids |-> ids, named |-> ToSet(ids)] \in ReqType
    BY <1>3, <2>1 DEF ReqType, Pcs
  <2> QED
    BY <1>1, <1>5, <2>2
<1>8. born \subseteq born' /\ born' \subseteq Harvester
  BY <1>1, <1>3 DEF IInv, TypeOK
<1>9. \A h \in Harvester :
        /\ ~Found(r, h)' /\ ~Removing(r, h)'
        /\ Adding(r, h)' => op = "add" /\ h = Head(ids)
        /\ \A q \in Request \ {r} : /\ Found(q, h)' <=> Found(q, h)
                                    /\ Adding(q, h)' <=> Adding(q, h)
                                    /\ Removing(q, h)' <=> Removing(q, h)
  BY <1>6 DEF Found, Adding, Removing, At, Id
<1>10. TypeOK'
  BY <1>2, <1>7, <1>8 DEF IInv, TypeOK, ReqType, memory, monitors, quartz, settings, data
<1>11. JobFollowsStatus'
  BY <1>2 DEF IInv, JobFollowsStatus, memory, monitors, quartz
<1>12. OpsFit'
  BY <1>3, <1>6 DEF IInv, OpsFit
<1>13. Owned'
  <2>1. req[r].pc = "idle"
    BY <1>2 DEF Idle
  <2> QED
    BY <1>2, <1>6, <2>1, OwnedStays DEF monitors
<1>14. Exclusive' /\ TakenOut' /\ InvokesAlone'
  BY <1>2, <1>6, <1>9 DEF IInv, Exclusive, TakenOut, InvokesAlone, memory, monitors, quartz
<1>15. BornFirst'
  <2>1. op = "add" => Head(ids) \in born'
    BY <1>1, <1>3
  <2> QED
    BY <1>2, <1>8, <1>9, <2>1 DEF IInv, BornFirst, memory, quartz, settings, data
<1>16. Fresh'
  BY <1>2, <1>4, <1>9 DEF IInv, Fresh, BornFirst, memory, quartz, data
<1>17. Hides'
  BY <1>2, <1>9 DEF IInv, Hides, memory, data
<1> QED
  BY <1>10, <1>11, <1>12, <1>13, <1>14, <1>15, <1>16, <1>17 DEF IInv

LEMMA AddStep ==
  ASSUME IInv, NEW r \in Request, Add(r)
  PROVE  IInv'
<1> DEFINE new == Id(r)
<1>1. /\ req[r].pc = "next" /\ req[r].op = "add" /\ req[r].ids # <<>> /\ Answers(r)
      /\ pend' = [pend EXCEPT ![r][new] = "INACTIVE"]
      /\ tasks' = [tasks EXCEPT ![r][new] = "INACTIVE"]
      /\ status' = [status EXCEPT ![new] = "INACTIVE"]
      /\ hmHarvesters' = hmHarvesters \cup {new}
      /\ hmHarvestLookup' = hmHarvestLookup \cup {new}
      /\ UNCHANGED <<running, monitors, quartz, table, tree, data, doomed, ghosts>>
  BY DEF Add, Does, At
<1>2. new \in Harvester /\ r \in Actor
  BY <1>1, IdType DEF IInv, Actor
<1>3. Adding(r, new)
  BY <1>1 DEF Adding, At
<1> HIDE DEF new
<1>4. /\ new \in born /\ new \notin jobs
      /\ \A q \in Request : ~Found(q, new) /\ hiding[q][new] = 0
      /\ \A q \in Request \ {r} : ~Adding(q, new)
  BY <1>2, <1>3 DEF IInv, Fresh, BornFirst
<1>5. /\ Quieter /\ OpsFit' /\ req' \in [Request -> ReqType]
      /\ \A h \in Harvester : ~Found(r, h)' /\ ~Adding(r, h)'
      /\ \A q \in Request \ {r} : req'[q] = req[q]
      /\ req'[r].pc = "next"
  BY <1>1, AnswersFacts DEF IInv
<1>6. \A h \in Harvester : \A q \in Request :
        /\ Found(q, h)' => Found(q, h) /\ req'[q] = req[q]
        /\ Removing(q, h)' => Removing(q, h)
        /\ Adding(q, h)' => Adding(q, h) /\ h # new
  BY <1>4, <1>5 DEF Quieter, Removing
<1>7. /\ pend' \in [Actor -> [Harvester -> Status \cup {Absent, Unset}]]
      /\ tasks' \in [Actor -> [Harvester -> Status \cup {Absent, Unset}]]
      /\ status' \in [Harvester -> Status]
      /\ \A x \in Actor : \A h \in Harvester : pend'[x][h] # Unset => pend[x][h] # Unset \/ h = new
  BY <1>1, <1>2 DEF IInv, TypeOK, Status
<1>8. TypeOK'
  BY <1>1, <1>2, <1>5, <1>7 DEF IInv, TypeOK, ReqType, monitors, quartz, data, ghosts
<1>9. JobFollowsStatus'
  BY <1>1, <1>2, <1>4 DEF IInv, TypeOK, JobFollowsStatus, monitors, quartz
<1>10. Owned'
  BY <1>1, <1>5, OwnedStays DEF monitors
<1>11. Exclusive'
  BY <1>1, <1>6 DEF IInv, Exclusive, monitors
<1>12. TakenOut'
  BY <1>1, <1>4, <1>6 DEF IInv, TakenOut, Removing
<1>13. InvokesAlone'
  BY <1>1, <1>4, <1>6 DEF IInv, InvokesAlone, quartz
<1>14. BornFirst'
  BY <1>1, <1>4, <1>6, <1>7 DEF IInv, BornFirst, quartz, data, ghosts
<1>15. Fresh'
  BY <1>1, <1>6 DEF IInv, Fresh, quartz, data
<1>16. Hides'
  BY <1>1, <1>4, <1>6 DEF IInv, Hides, data
<1> QED
  BY <1>5, <1>8, <1>9, <1>10, <1>11, <1>12, <1>13, <1>14, <1>15, <1>16 DEF IInv

-----------------------------------------------------------------------------
(* Invocations *)

LEMMA InvokeBeginStep ==
  ASSUME IInv, NEW r \in Request, InvokeBegin(r)
  PROVE  IInv'
<1> DEFINE i == Id(r)
<1>1. /\ req[r].pc = "called" /\ req[r].ids # <<>> /\ req[r].op = "invoke"
      /\ monitor[i] = NoOne /\ status[i] = "INACTIVE"
      /\ monitor' = [monitor EXCEPT ![i] = r]
      /\ status' = [status EXCEPT ![i] = "ACTIVE"]
      /\ Goes(r, "invoking")
      /\ overlapped' = overlapped \cup ({i} \ hmHarvestLookup)
      /\ UNCHANGED <<hmHarvesters, hmHarvestLookup, running, manager, quartz, settings,
                     data, doomed, born, spoiled, restarts>>
  BY DEF InvokeBegin, Calls, Does, At
<1>2. i \in Harvester /\ Found(r, i)
  BY <1>1, IdType DEF IInv, Found
<1>3. \A h \in Harvester : Found(r, h) <=> h = i
  BY <1>1 DEF Found
<1> HIDE DEF i
<1>4. /\ req' \in [Request -> ReqType]
      /\ req'[r].pc = "invoking" /\ req'[r].op = req[r].op /\ req'[r].ids = req[r].ids
      /\ \A q \in Request \ {r} : req'[q] = req[q]
  BY <1>1, GoesFacts DEF IInv, Pcs
<1>5. \A h \in Harvester : \A q \in Request :
        /\ Found(q, h)' <=> Found(q, h)
        /\ Adding(q, h)' <=> Adding(q, h)
        /\ Removing(q, h)' <=> Removing(q, h)
  BY <1>1, <1>4 DEF Found, Adding, Removing, At, Id
<1>6. monitor \in [Harvester -> Request \cup {NoOne}] /\ r # NoOne
  BY HarvestAssumption DEF IInv, TypeOK, Actor
<1>7. TypeOK'
  <2>1. /\ monitor' \in [Harvester -> Request \cup {NoOne}] /\ status' \in [Harvester -> Status]
        /\ overlapped' \subseteq Harvester
    BY <1>1, <1>2 DEF IInv, TypeOK, Status
  <2> QED
    BY <1>1, <1>4, <2>1 DEF IInv, TypeOK, ReqType, quartz, settings, data
<1>8. JobFollowsStatus'
  BY <1>1, <1>2, <1>6 DEF IInv, TypeOK, JobFollowsStatus, quartz
<1>9. OpsFit'
  BY <1>4, <1>1 DEF IInv, OpsFit
<1>10. Owned'
  <2> SUFFICES ASSUME NEW q \in Request, NEW h \in Harvester
               PROVE  monitor'[h] = q <=> Found(q, h)' /\ req'[q].pc \in {"destroying", "invoking"}
    BY DEF Owned
  <2>1. monitor[h] = q <=> Found(q, h) /\ req[q].pc \in {"destroying", "invoking"}
    BY DEF IInv, Owned
  <2>2. monitor'[h] = IF h = i THEN r ELSE monitor[h]
    BY <1>1, <1>6
  <2>3. q # NoOne
    BY HarvestAssumption DEF Actor
  <2>4. CASE q = r
    BY <2>1, <2>2, <2>4, <1>1, <1>3, <1>4, <1>5
  <2>5. CASE q # r
    <3>1. h = i => monitor[h] # q
      BY <2>3, <1>1
    <3> QED
      BY <2>1, <2>2, <2>5, <3>1, <1>4, <1>5
  <2> QED
    BY <2>4, <2>5
<1>11. Exclusive'
  BY <1>1, <1>4, <1>5 DEF IInv, Exclusive
<1>12. TakenOut'
  BY <1>1, <1>4, <1>5 DEF IInv, TakenOut
<1>13. InvokesAlone'
  <2>1. i \in hmHarvesters \cap hmHarvestLookup => i \notin jobs
    BY <1>1, <1>2 DEF IInv, JobFollowsStatus
  <2> QED
    BY <1>1, <1>3, <1>4, <1>5, <2>1 DEF IInv, InvokesAlone, quartz
<1>14. BornFirst' /\ Fresh' /\ Hides'
  BY <1>1, <1>5 DEF IInv, BornFirst, Fresh, Hides, quartz, settings, data
<1> QED
  BY <1>7, <1>8, <1>9, <1>10, <1>11, <1>12, <1>13, <1>14 DEF IInv

\* Monitors that request r leaves while it stops owning any
LEMMA OwnedLeft ==
  ASSUME IInv, NEW r \in Request, \A q \in Request \ {r} : req'[q] = req[q],
         req'[r].pc \notin {"destroying", "invoking"},
         \A h \in Harvester : monitor'[h] = IF monitor[h] = r THEN NoOne ELSE monitor[h]
  PROVE  Owned'
<1> SUFFICES ASSUME NEW q \in Request, NEW h \in Harvester
             PROVE  monitor'[h] = q <=> Found(q, h)' /\ req'[q].pc \in {"destroying", "invoking"}
  BY DEF Owned
<1>1. monitor[h] = q <=> Found(q, h) /\ req[q].pc \in {"destroying", "invoking"}
  BY DEF IInv, Owned
<1>2. q # NoOne
  BY HarvestAssumption DEF Actor
<1>3. CASE q = r
  BY <1>2, <1>3
<1>4. CASE q # r
  <2>1. req'[q] = req[q] /\ (monitor'[h] = q <=> monitor[h] = q)
    BY <1>2, <1>4
  <2> QED
    BY <1>1, <2>1 DEF Found, Id
<1> QED
  BY <1>3, <1>4

LEMMA InvokeEndStep ==
  ASSUME IInv, NEW r \in Request, InvokeEnd(r)
  PROVE  IInv'
<1> DEFINE i == Id(r)
<1>1. /\ req[r].pc = "invoking" /\ req[r].ids # <<>> /\ Answers(r)
      /\ monitor' = [monitor EXCEPT ![i] = NoOne]
      /\ status' = [status EXCEPT ![i] = "INACTIVE"]
      /\ UNCHANGED <<hmHarvesters, hmHarvestLookup, running, manager, quartz, settings,
                     data, doomed, ghosts>>
  BY DEF InvokeEnd, At
<1>2. i \in Harvester /\ Found(r, i)
  BY <1>1, IdType DEF IInv, Found
<1>3. \A h \in Harvester : Found(r, h) <=> h = i
  BY <1>1 DEF Found
<1> HIDE DEF i
<1>4. /\ Quieter /\ OpsFit' /\ req' \in [Request -> ReqType]
      /\ \A h \in Harvester : ~Found(r, h)'
      /\ \A q \in Request \ {r} : req'[q] = req[q]
      /\ req'[r].pc = "next"
  BY <1>1, AnswersFacts DEF IInv
<1>5. /\ monitor \in [Harvester -> Request \cup {NoOne}] /\ r # NoOne
      /\ monitor[i] = r /\ \A h \in Harvester : monitor[h] = r => h = i
  <2>1. monitor[i] = r
    BY <1>1, <1>2 DEF IInv, Owned
  <2>2. \A h \in Harvester : monitor[h] = r => h = i
    BY <1>3, HarvestAssumption DEF IInv, Owned, Actor
  <2> QED
    BY <2>1, <2>2, HarvestAssumption DEF IInv, TypeOK, Actor
<1>6. TypeOK'
  <2>1. monitor' \in [Harvester -> Request \cup {NoOne}] /\ status' \in [Harvester -> Status]
    BY <1>1 DEF IInv, TypeOK, Status
  <2> QED
    BY <1>1, <1>4, <2>1 DEF IInv, TypeOK, ReqType, quartz, settings, data, ghosts
<1>7. JobFollowsStatus'
  <2>1. i \in hmHarvesters \cap hmHarvestLookup => i \notin jobs
    BY <1>1, <1>2 DEF IInv, InvokesAlone
  <2> QED
    BY <1>1, <1>2, <2>1 DEF IInv, TypeOK, JobFollowsStatus, quartz
<1>8. Owned'
  <2>1. \A h \in Harvester : monitor'[h] = IF monitor[h] = r THEN NoOne ELSE monitor[h]
    BY <1>1, <1>2, <1>5
  <2> QED
    BY <1>4, <2>1, OwnedLeft
<1>9. Exclusive' /\ TakenOut' /\ BornFirst' /\ Fresh' /\ Hides' /\ InvokesAlone'
  <2>1. history \in [Harvester -> Nat] /\ jobs \subseteq Harvester
    BY DEF IInv, TypeOK
  <2> QED
    BY <1>1, <1>4, <2>1, QuietParts DEF IInv, BornFirst, quartz, settings, data, ghosts
<1> QED
  BY <1>4, <1>6, <1>7, <1>8, <1>9 DEF IInv

-----------------------------------------------------------------------------
(* Removals *)

LEMMA DestroyBeginStep ==
  ASSUME IInv, NEW r \in Request, DestroyBegin(r)
  PROVE  IInv'
<1> DEFINE i == Id(r)
<1>1. /\ req[r].pc = "called" /\ req[r].ids # <<>> /\ req[r].op = "remove"
      /\ monitor[i] = NoOne
      /\ monitor' = [monitor EXCEPT ![i] = r]
      /\ jobs' = jobs \ {i} /\ due' = [due EXCEPT ![i] = 0]
      /\ doomed' = [doomed EXCEPT ![r] = records[i]]
      /\ Goes(r, "destroying")
      /\ overlapped' = IF exec[i] # "idle" THEN overlapped \cup {i} ELSE overlapped
      /\ UNCHANGED <<memory, manager, exec, firings, settings, data, born, spoiled, restarts>>
  BY DEF DestroyBegin, Calls, Does, At
<1>2. i \in Harvester /\ Found(r, i)
  BY <1>1, IdType DEF IInv, Found
<1>3. \A h \in Harvester : Found(r, h) <=> h = i
  BY <1>1 DEF Found
<1> HIDE DEF i
<1>4. /\ req' \in [Request -> ReqType]
      /\ req'[r].pc = "destroying" /\ req'[r].op = req[r].op /\ req'[r].ids = req[r].ids
      /\ \A q \in Request \ {r} : req'[q] = req[q]
  BY <1>1, GoesFacts DEF IInv, Pcs
<1>5. \A h \in Harvester : \A q \in Request :
        /\ Found(q, h)' <=> Found(q, h)
        /\ Adding(q, h)' <=> Adding(q, h)
        /\ Removing(q, h)' <=> Removing(q, h)
  BY <1>1, <1>4 DEF Found, Adding, Removing, At, Id
<1>6. monitor \in [Harvester -> Request \cup {NoOne}] /\ r # NoOne
  BY HarvestAssumption DEF IInv, TypeOK, Actor
<1>7. TypeOK'
  <2>1. /\ monitor' \in [Harvester -> Request \cup {NoOne}] /\ jobs' \subseteq Harvester
        /\ due' \in [Harvester -> Nat] /\ doomed' \in [Request -> SUBSET Record]
        /\ overlapped' \subseteq Harvester
    BY <1>1, <1>2 DEF IInv, TypeOK
  <2> QED
    BY <1>1, <1>4, <2>1 DEF IInv, TypeOK, ReqType, memory, settings, data
<1>8. JobFollowsStatus'
  BY <1>1, <1>2, <1>6 DEF IInv, TypeOK, JobFollowsStatus, memory
<1>9. OpsFit'
  BY <1>4, <1>1 DEF IInv, OpsFit
<1>10. Owned'
  <2> SUFFICES ASSUME NEW q \in Request, NEW h \in Harvester
               PROVE  monitor'[h] = q <=> Found(q, h)' /\ req'[q].pc \in {"destroying", "invoking"}
    BY DEF Owned
  <2>1. monitor[h] = q <=> Found(q, h) /\ req[q].pc \in {"destroying", "invoking"}
    BY DEF IInv, Owned
  <2>2. monitor'[h] = IF h = i THEN r ELSE monitor[h]
    BY <1>1, <1>6
  <2>3. q # NoOne
    BY HarvestAssumption DEF Actor
  <2>4. CASE q = r
    BY <2>1, <2>2, <2>4, <1>1, <1>3, <1>4, <1>5
  <2>5. CASE q # r
    <3>1. h = i => monitor[h] # q
      BY <2>3, <1>1
    <3> QED
      BY <2>1, <2>2, <2>5, <3>1, <1>4, <1>5
  <2> QED
    BY <2>4, <2>5
<1>11. Exclusive'
  BY <1>1, <1>4, <1>5 DEF IInv, Exclusive
<1>12. TakenOut'
  BY <1>1, <1>4, <1>5 DEF IInv, TakenOut, memory
<1>13. InvokesAlone'
  BY <1>1, <1>4, <1>5 DEF IInv, InvokesAlone, memory
<1>14. BornFirst' /\ Fresh' /\ Hides'
  BY <1>1, <1>5 DEF IInv, BornFirst, Fresh, Hides, memory, settings, data
<1> QED
  BY <1>7, <1>8, <1>9, <1>10, <1>11, <1>12, <1>13, <1>14 DEF IInv

\* A commit of r: what it hid is gone, and nobody else hides rows of the same harvester
LEMMA ShowFacts ==
  ASSUME IInv, NEW r \in Request, ShowHistory(r)
  PROVE  /\ history' \in [Harvester -> Nat] /\ hiding' \in [Request -> [Harvester -> Nat]]
         /\ \A q \in Request : \A h \in Harvester :
              hiding'[q][h] # 0 => hiding'[q][h] = hiding[q][h] /\ history'[h] >= history[h]
<1>1. /\ history' = [h \in Harvester |-> history[h] - hiding[r][h]]
      /\ hiding' = [hiding EXCEPT ![r] = NoRows]
      /\ history \in [Harvester -> Nat] /\ hiding \in [Request -> [Harvester -> Nat]]
  BY DEF ShowHistory, IInv, TypeOK
<1>2. NoRows \in [Harvester -> Nat] /\ \A h \in Harvester : NoRows[h] = 0
  BY DEF NoRows
<1>3. \A h \in Harvester : hiding[r][h] <= history[h]
  BY <1>1 DEF IInv, Hides
<1>4. \A h \in Harvester : history[h] - hiding[r][h] \in Nat
  BY <1>1, <1>3
<1>5. history' \in [Harvester -> Nat] /\ hiding' \in [Request -> [Harvester -> Nat]]
  BY <1>1, <1>2, <1>4
<1>6. ASSUME NEW q \in Request, NEW h \in Harvester, hiding'[q][h] # 0
      PROVE  hiding'[q][h] = hiding[q][h] /\ history'[h] >= history[h]
  <2>1. q # r /\ hiding'[q][h] = hiding[q][h]
    BY <1>1, <1>2, <1>6
  <2>2. hiding[r][h] = 0
    BY <1>6, <2>1 DEF IInv, Hides
  <2> QED
    BY <1>1, <2>1, <2>2
<1> QED
  BY <1>5, <1>6

LEMMA DestroyRecordStep ==
  ASSUME IInv, NEW r \in Request, DestroyRecord(r)
  PROVE  IInv'
<1>1. /\ CommitRows(r) /\ ShowHistory(r)
      /\ UNCHANGED <<memory, monitors, quartz, tree, tasks, req, ghosts>>
  BY DEF DestroyRecord
<1>2. records' \in [Harvester -> SUBSET Record] /\ doomed' \in [Request -> SUBSET Record]
  <2>1. PICK k \in doomed[r] \cap records[Id(r)] :
          /\ doomed' = [doomed EXCEPT ![r] = doomed[r] \ {k}]
          /\ records' = [records EXCEPT ![Id(r)] = records[Id(r)] \ {k}]
    BY DEF DestroyRecord
  <2>2. Id(r) \in Harvester
    BY IdType DEF DestroyRecord, At, IInv
  <2> QED
    BY <2>1, <2>2 DEF IInv, TypeOK
<1>3. r \in Actor
  BY DEF Actor
<1>4. /\ pend' \in [Actor -> [Harvester -> Status \cup {Absent, Unset}]]
      /\ table' \in [Harvester -> Status \cup {Absent}]
      /\ \A y \in Actor : \A g \in Harvester : pend'[y][g] # Unset => pend[y][g] # Unset
      /\ \A g \in Harvester : table'[g] # Absent => table[g] # Absent \/ pend[r][g] # Unset
  BY <1>1, <1>3, CommitFacts DEF IInv
<1>5. /\ history' \in [Harvester -> Nat] /\ hiding' \in [Request -> [Harvester -> Nat]]
      /\ \A q \in Request : \A h \in Harvester :
           hiding'[q][h] # 0 => hiding'[q][h] = hiding[q][h] /\ history'[h] >= history[h]
  BY <1>1, ShowFacts
<1>6. TypeOK'
  BY <1>1, <1>2, <1>4, <1>5 DEF IInv, TypeOK, memory, monitors, quartz, ghosts
<1>7. JobFollowsStatus' /\ OpsFit'
  BY <1>1 DEF IInv, JobFollowsStatus, OpsFit, memory, monitors, quartz
<1>8. Owned'
  BY <1>1, OwnedStays DEF monitors
<1>9. Quieter
  BY <1>1 DEF Quieter, Found, Adding, At, Id
<1>10. Exclusive' /\ TakenOut' /\ BornFirst' /\ Fresh' /\ Hides' /\ InvokesAlone'
  <2>1. jobs' = jobs /\ jobs \subseteq Harvester /\ manager' = manager /\ exec' = exec
        /\ born' = born
    BY <1>1 DEF quartz, monitors, ghosts, IInv, TypeOK
  <2>2. /\ \A h \in Harvester : table'[h] # Absent \/ exec'[h] # "idle" => h \in born
        /\ \A x \in Actor : \A h \in Harvester : pend'[x][h] # Unset => h \in born
    BY <1>3, <1>4, <2>1 DEF IInv, BornFirst
  <2> QED
    BY <1>1, <1>5, <1>9, <2>1, <2>2, QuietParts DEF memory
<1> QED
  BY <1>6, <1>7, <1>8, <1>10 DEF IInv

LEMMA DestroyEndStep ==
  ASSUME IInv, NEW r \in Request, DestroyEnd(r)
  PROVE  IInv'
<1> DEFINE i == Id(r)
<1>1. /\ req[r].pc = "destroying" /\ req[r].ids # <<>>
      /\ monitor' = [monitor EXCEPT ![i] = NoOne]
      /\ hmHarvesters' = hmHarvesters \ {i}
      /\ Goes(r, "removing")
      /\ UNCHANGED <<hmHarvestLookup, status, running, manager, quartz, settings, data,
                     doomed, ghosts>>
  BY DEF DestroyEnd, At
<1>2. i \in Harvester /\ Found(r, i) /\ req[r].op = "remove"
  BY <1>1, IdType DEF IInv, Found, OpsFit
<1>3. \A h \in Harvester : Found(r, h) <=> h = i
  BY <1>1 DEF Found
<1>4. i \notin hmHarvestLookup
  BY <1>2 DEF IInv, TakenOut, Removing
<1> HIDE DEF i
<1>5. /\ req' \in [Request -> ReqType]
      /\ req'[r].pc = "removing" /\ req'[r].op = req[r].op /\ req'[r].ids = req[r].ids
      /\ \A q \in Request \ {r} : req'[q] = req[q]
  BY <1>1, GoesFacts DEF IInv, Pcs
<1>6. \A h \in Harvester : \A q \in Request :
        /\ Found(q, h)' <=> Found(q, h)
        /\ Adding(q, h)' <=> Adding(q, h)
        /\ Removing(q, h)' <=> Removing(q, h)
  BY <1>1, <1>5 DEF Found, Adding, Removing, At, Id
<1>7. /\ monitor \in [Harvester -> Request \cup {NoOne}] /\ r # NoOne
      /\ monitor[i] = r /\ \A h \in Harvester : monitor[h] = r => h = i
  <2>1. monitor[i] = r
    BY <1>1, <1>2 DEF IInv, Owned
  <2>2. \A h \in Harvester : monitor[h] = r => h = i
    BY <1>3 DEF IInv, Owned
  <2> QED
    BY <2>1, <2>2, HarvestAssumption DEF IInv, TypeOK, Actor
<1>8. TypeOK'
  <2>1. monitor' \in [Harvester -> Request \cup {NoOne}] /\ hmHarvesters' \subseteq Harvester
    BY <1>1 DEF IInv, TypeOK
  <2> QED
    BY <1>1, <1>5, <2>1 DEF IInv, TypeOK, ReqType, quartz, settings, data, ghosts
<1>9. JobFollowsStatus'
  <2> SUFFICES ASSUME NEW h \in hmHarvesters' \cap hmHarvestLookup', monitor'[h] = NoOne
               PROVE  h \in jobs' <=> status'[h] = "ACTIVE"
    BY DEF JobFollowsStatus
  <2>1. h \in hmHarvesters \cap hmHarvestLookup /\ h # i /\ monitor[h] = NoOne
    BY <1>1, <1>2, <1>7
  <2> QED
    BY <1>1, <2>1 DEF IInv, JobFollowsStatus, quartz
<1>10. OpsFit'
  BY <1>2, <1>5 DEF IInv, OpsFit
<1>11. Owned'
  <2>1. \A h \in Harvester : monitor'[h] = IF monitor[h] = r THEN NoOne ELSE monitor[h]
    BY <1>1, <1>2, <1>7
  <2> QED
    BY <1>5, <2>1, OwnedLeft
<1>12. Exclusive'
  BY <1>1, <1>5, <1>6 DEF IInv, Exclusive
<1>13. TakenOut'
  <2>1. \A h \in Harvester : Removing(r, h) => h = i
    BY <1>3 DEF Removing
  <2> QED
    BY <1>1, <1>5, <1>6, <2>1 DEF IInv, TakenOut
<1>14. InvokesAlone'
  BY <1>1, <1>5, <1>6 DEF IInv, InvokesAlone, quartz
<1>15. BornFirst' /\ Fresh' /\ Hides'
  BY <1>1, <1>6 DEF IInv, BornFirst, Fresh, Hides, quartz, settings, data, ghosts
<1> QED
  BY <1>8, <1>9, <1>10, <1>11, <1>12, <1>13, <1>14, <1>15 DEF IInv

LEMMA RemoveEntryStep ==
  ASSUME IInv, NEW r \in Request, RemoveEntry(r)
  PROVE  IInv'
<1> DEFINE i == Id(r)
<1>1. /\ req[r].pc = "removing" /\ req[r].ids # <<>> /\ Answers(r)
      /\ SetStatus(r, i, Absent)
      /\ hiding' = [hiding EXCEPT ![r][i] = history[i]]
      /\ manager' = NoOne
      /\ UNCHANGED <<memory, monitor, quartz, table, tree, records, history, doomed, ghosts>>
  BY DEF RemoveEntry, At
<1>2. i \in Harvester /\ Found(r, i) /\ req[r].op = "remove" /\ r \in Actor
  BY <1>1, IdType DEF IInv, Found, OpsFit, Actor
<1>3. /\ manager = r /\ i \in born /\ i \notin hmHarvesters
  BY <1>1, <1>2 DEF IInv, Exclusive, BornFirst, TakenOut, Removing
<1> HIDE DEF i
<1>4. /\ Quieter /\ OpsFit' /\ req' \in [Request -> ReqType]
      /\ \A h \in Harvester : ~Found(r, h)'
      /\ \A q \in Request \ {r} : req'[q] = req[q]
      /\ req'[r].pc = "next"
  BY <1>1, AnswersFacts DEF IInv
<1>5. /\ pend' \in [Actor -> [Harvester -> Status \cup {Absent, Unset}]]
      /\ tasks' \in [Actor -> [Harvester -> Status \cup {Absent, Unset}]]
      /\ \A y \in Actor : \A g \in Harvester :
           pend'[y][g] # Unset => pend[y][g] # Unset \/ g = i
  BY <1>1, <1>2, SetStatusFacts DEF IInv
<1>6. history \in [Harvester -> Nat] /\ hiding \in [Request -> [Harvester -> Nat]]
  BY DEF IInv, TypeOK
<1>7. /\ hiding' \in [Request -> [Harvester -> Nat]]
      /\ \A q \in Request : \A h \in Harvester :
           hiding'[q][h] = IF q = r /\ h = i THEN history[i] ELSE hiding[q][h]
  BY <1>1, <1>2, <1>6
<1>8. TypeOK'
  BY <1>1, <1>4, <1>5, <1>7 DEF IInv, TypeOK, ReqType, memory, quartz, ghosts
<1>9. JobFollowsStatus'
  BY <1>1 DEF IInv, JobFollowsStatus, memory, quartz
<1>10. Owned'
  BY <1>1, <1>4, OwnedStays
<1>11. \A q \in Request \ {r} : \A h \in Harvester :
         Found(q, h) => req[q].op \notin {"update", "remove"}
  BY <1>3 DEF IInv, Exclusive
<1>12. Exclusive'
  BY <1>4, <1>11 DEF Exclusive, Quieter
<1>13. \A q \in Request : \A h \in Harvester : ~Removing(q, h)'
  BY <1>4, <1>11 DEF Removing, Quieter
<1>14. TakenOut'
  BY <1>13 DEF TakenOut
<1>15. InvokesAlone'
  BY <1>1, <1>4 DEF IInv, InvokesAlone, Quieter, memory, quartz
<1>16. BornFirst'
  BY <1>1, <1>3, <1>4, <1>5, <1>7 DEF IInv, BornFirst, Quieter, memory, quartz, ghosts
<1>17. Fresh'
  <2> SUFFICES ASSUME NEW q \in Request, NEW h \in Harvester, Adding(q, h)'
               PROVE  /\ h \notin hmHarvesters' \cup hmHarvestLookup' \cup jobs'
                      /\ \A p \in Request : /\ ~Found(p, h)' /\ hiding'[p][h] = 0
                                            /\ p # q => ~Adding(p, h)'
    BY DEF Fresh
  <2>1. Adding(q, h)
    BY <1>4 DEF Quieter
  <2>2. /\ h \notin hmHarvesters \cup hmHarvestLookup \cup jobs
        /\ \A p \in Request : /\ ~Found(p, h) /\ hiding[p][h] = 0
                              /\ p # q => ~Adding(p, h)
    BY <2>1 DEF IInv, Fresh
  <2>3. h # i
    BY <1>2, <2>2
  <2> QED
    BY <1>1, <1>4, <1>7, <2>2, <2>3 DEF Quieter, memory, quartz
<1>18. Hides'
  <2> SUFFICES ASSUME NEW q \in Request, NEW h \in Harvester, hiding'[q][h] # 0
               PROVE  /\ hiding'[q][h] <= history'[h] /\ h \notin hmHarvesters'
                      /\ \A p \in Request : ~Removing(p, h)' /\ (p # q => hiding'[p][h] = 0)
    BY DEF Hides
  <2>1. history' = history /\ hmHarvesters' = hmHarvesters
    BY <1>1 DEF memory
  <2>2. CASE h = i
    <3>1. \A p \in Request : hiding[p][i] = 0
      BY <1>2 DEF IInv, Hides, Removing
    <3>2. q = r /\ hiding'[q][h] = history[i]
      BY <1>7, <2>2, <3>1
    <3> QED
      BY <1>2, <1>3, <1>6, <1>7, <1>13, <2>1, <2>2, <3>1, <3>2
  <2>3. CASE h # i
    <3>1. hiding[q][h] # 0 /\ hiding'[q][h] = hiding[q][h]
      BY <1>7, <2>3
    <3>2. /\ hiding[q][h] <= history[h] /\ h \notin hmHarvesters
          /\ \A p \in Request : p # q => hiding[p][h] = 0
      BY <3>1 DEF IInv, Hides
    <3> QED
      BY <1>7, <1>13, <2>1, <2>3, <3>1, <3>2
  <2> QED
    BY <2>2, <2>3
<1> QED
  BY <1>4, <1>8, <1>9, <1>10, <1>12, <1>14, <1>15, <1>16, <1>17, <1>18 DEF IInv

-----------------------------------------------------------------------------
(* Requests fail and end; the server restarts *)

LEMMA FailStep ==
  ASSUME IInv, NEW r \in Request, Fail(r)
  PROVE  IInv'
<1>1. /\ req[r].pc \in {"called", "destroying", "removing"} /\ req[r].ids # <<>>
      /\ manager' = IF manager = r THEN NoOne ELSE manager
      /\ monitor' = [h \in Harvester |-> IF monitor[h] = r THEN NoOne ELSE monitor[h]]
      /\ doomed' = [doomed EXCEPT ![r] = {}] /\ Goes(r, "failed")
      /\ UNCHANGED <<memory, quartz, settings, data, ghosts>>
  BY DEF Fail, Releases, Does, At
<1>2. /\ Quieter /\ OpsFit' /\ req' \in [Request -> ReqType]
      /\ \A h \in Harvester : ~Found(r, h)'
      /\ \A q \in Request \ {r} : req'[q] = req[q]
      /\ req'[r].pc = "failed"
  BY <1>1, GoesFacts, GoesQuiet DEF IInv, Pcs
<1>3. TypeOK'
  <2>1. /\ manager' \in Request \cup {NoOne}
        /\ monitor' \in [Harvester -> Request \cup {NoOne}]
        /\ doomed' \in [Request -> SUBSET Record]
    BY <1>1 DEF IInv, TypeOK
  <2> QED
    BY <1>1, <1>2, <2>1 DEF IInv, TypeOK, ReqType, memory, quartz, settings, data, ghosts
<1>4. JobFollowsStatus'
  <2> SUFFICES ASSUME NEW h \in hmHarvesters' \cap hmHarvestLookup', monitor'[h] = NoOne
               PROVE  h \in jobs' <=> status'[h] = "ACTIVE"
    BY DEF JobFollowsStatus
  <2>1. h \in hmHarvesters \cap hmHarvestLookup /\ h \in Harvester
    BY <1>1 DEF memory, IInv, TypeOK
  <2>2. monitor[h] # r
    <3>1. monitor[h] = r => Removing(r, h)
      BY <1>1, <2>1 DEF IInv, Owned, OpsFit, Removing
    <3> QED
      BY <2>1, <3>1 DEF IInv, TakenOut
  <2> QED
    BY <1>1, <2>1, <2>2 DEF IInv, JobFollowsStatus, memory, quartz
<1>5. Owned'
  BY <1>1, <1>2, OwnedLeft
<1>6. Exclusive' /\ TakenOut' /\ BornFirst' /\ Fresh' /\ Hides' /\ InvokesAlone'
  <2>1. /\ history' = history /\ hiding' = hiding /\ history \in [Harvester -> Nat]
        /\ jobs' = jobs /\ jobs \subseteq Harvester
    BY <1>1 DEF IInv, TypeOK, data, quartz
  <2>2. \A q \in Request : \A h \in Harvester : Found(q, h)' => manager' = manager \/ manager # q
    BY <1>1, <1>2
  <2> QED
    BY <1>1, <1>2, <2>1, <2>2, QuietParts
       DEF IInv, BornFirst, memory, quartz, settings, ghosts
<1> QED
  BY <1>2, <1>3, <1>4, <1>5, <1>6 DEF IInv

LEMMA AbortStep ==
  ASSUME IInv, NEW r \in Request, Abort(r)
  PROVE  IInv'
<1>1. /\ req[r].pc = "failed"
      /\ pend' = [pend EXCEPT ![r] = Nothing] /\ tasks' = [tasks EXCEPT ![r] = Nothing]
      /\ hiding' = [hiding EXCEPT ![r] = NoRows]
      /\ req' = [req EXCEPT ![r].pc = "ended", ![r].ids = <<>>]
      /\ spoiled' = spoiled \cup req[r].named
      /\ UNCHANGED <<memory, monitors, quartz, table, tree, records, history, doomed,
                     born, overlapped, restarts>>
  BY DEF Abort, Rollback
<1>2. req \in [Request -> ReqType]
  BY DEF IInv, TypeOK, ReqType
<1>3. /\ req'[r] = [pc |-> "ended", op |-> req[r].op, ids |-> <<>>, named |-> req[r].named]
      /\ \A q \in Request \ {r} : req'[q] = req[q]
  BY <1>1, <1>2 DEF ReqType
<1>4. req' \in [Request -> ReqType]
  <2>1. req'[r] \in ReqType
    BY <1>2, <1>3 DEF ReqType, Pcs
  <2>2. req' = [q \in Request |-> req'[q]]
    BY <1>1, <1>2
  <2> QED
    BY <1>2, <1>3, <2>1, <2>2
<1>5. Quieter
  BY <1>3 DEF Quieter, Found, Adding, At, Id
<1>6. OpsFit'
  BY <1>3 DEF IInv, OpsFit
<1>7. /\ pend' \in [Actor -> [Harvester -> Status \cup {Absent, Unset}]]
      /\ tasks' \in [Actor -> [Harvester -> Status \cup {Absent, Unset}]]
      /\ \A x \in Actor : \A h \in Harvester : pend'[x][h] # Unset => pend[x][h] # Unset
  <2>1. Nothing \in [Harvester -> Status \cup {Absent, Unset}]
        /\ \A h \in Harvester : Nothing[h] = Unset
    BY DEF Nothing
  <2> QED
    BY <1>1, <2>1 DEF IInv, TypeOK
<1>8. /\ hiding' \in [Request -> [Harvester -> Nat]]
      /\ \A q \in Request : \A h \in Harvester : hiding'[q][h] # 0 => hiding'[q][h] = hiding[q][h]
  <2>1. NoRows \in [Harvester -> Nat] /\ \A h \in Harvester : NoRows[h] = 0
    BY DEF NoRows
  <2> QED
    BY <1>1, <2>1 DEF IInv, TypeOK
<1>9. TypeOK'
  <2>1. spoiled' \subseteq Harvester
    BY <1>1, <1>2 DEF ReqType, IInv, TypeOK
  <2> QED
    BY <1>1, <1>4, <1>7, <1>8, <2>1 DEF IInv, TypeOK, ReqType, memory, monitors, quartz
<1>10. JobFollowsStatus'
  BY <1>1 DEF IInv, JobFollowsStatus, memory, monitors, quartz
<1>11. Owned'
  <2>1. monitor' = monitor /\ req[r].pc = "failed" /\ req'[r].pc = "ended"
    BY <1>1, <1>3 DEF monitors
  <2>2. \A q \in Request : q # r => req'[q] = req[q]
    BY <1>3
  <2> QED
    BY <2>1, <2>2, OwnedStays
<1>12. Exclusive' /\ TakenOut' /\ BornFirst' /\ Fresh' /\ Hides' /\ InvokesAlone'
  <2>1. /\ history' = history /\ history \in [Harvester -> Nat]
        /\ jobs' = jobs /\ jobs \subseteq Harvester /\ manager' = manager
    BY <1>1 DEF IInv, TypeOK, quartz, monitors
  <2>2. \A q \in Request : \A h \in Harvester : hiding'[q][h] # 0 =>
          hiding'[q][h] = hiding[q][h] /\ history'[h] >= history[h]
    BY <1>8, <2>1
  <2> QED
    BY <1>1, <1>5, <1>7, <2>1, <2>2, QuietParts DEF IInv, BornFirst, memory, quartz
<1> QED
  BY <1>6, <1>9, <1>10, <1>11, <1>12 DEF IInv

LEMMA CloseStep ==
  ASSUME IInv, NEW r \in Request, Close(r)
  PROVE  IInv'
<1>1. /\ req[r].pc = "next" /\ CommitAndFlush(r) /\ ShowHistory(r) /\ Goes(r, "ended")
      /\ UNCHANGED <<memory, monitors, quartz, records, doomed, ghosts>>
  BY DEF Close
<1>2. r \in Actor
  BY DEF Actor
<1>3. /\ Quieter /\ OpsFit' /\ req' \in [Request -> ReqType]
      /\ \A q \in Request \ {r} : req'[q] = req[q]
      /\ req'[r].pc = "ended"
  BY <1>1, GoesFacts, GoesQuiet DEF IInv, Pcs
<1>4. /\ tree' \in [Harvester -> Status \cup {Absent}]
      /\ tasks' \in [Actor -> [Harvester -> Status \cup {Absent, Unset}]]
      /\ pend' \in [Actor -> [Harvester -> Status \cup {Absent, Unset}]]
      /\ table' \in [Harvester -> Status \cup {Absent}]
      /\ \A y \in Actor : \A g \in Harvester : pend'[y][g] # Unset => pend[y][g] # Unset
      /\ \A g \in Harvester : table'[g] # Absent => table[g] # Absent \/ pend[r][g] # Unset
  BY <1>1, <1>2, FlushFacts, CommitFacts DEF IInv
<1>5. /\ history' \in [Harvester -> Nat] /\ hiding' \in [Request -> [Harvester -> Nat]]
      /\ \A q \in Request : \A h \in Harvester :
           hiding'[q][h] # 0 => hiding'[q][h] = hiding[q][h] /\ history'[h] >= history[h]
  BY <1>1, ShowFacts
<1>6. TypeOK'
  BY <1>1, <1>3, <1>4, <1>5 DEF IInv, TypeOK, ReqType, memory, monitors, quartz, ghosts
<1>7. JobFollowsStatus'
  BY <1>1 DEF IInv, JobFollowsStatus, memory, monitors, quartz
<1>8. Owned'
  BY <1>1, <1>3, OwnedStays DEF monitors
<1>9. Exclusive' /\ TakenOut' /\ BornFirst' /\ Fresh' /\ Hides' /\ InvokesAlone'
  <2>1. jobs' = jobs /\ jobs \subseteq Harvester /\ manager' = manager /\ exec' = exec
        /\ born' = born
    BY <1>1 DEF quartz, monitors, ghosts, IInv, TypeOK
  <2>2. /\ \A h \in Harvester : table'[h] # Absent \/ exec'[h] # "idle" => h \in born
        /\ \A x \in Actor : \A h \in Harvester : pend'[x][h] # Unset => h \in born
    BY <1>2, <1>4, <2>1 DEF IInv, BornFirst
  <2> QED
    BY <1>1, <1>3, <1>5, <2>1, <2>2, QuietParts DEF memory
<1> QED
  BY <1>3, <1>6, <1>7, <1>8, <1>9 DEF IInv

LEMMA RestartStep ==
  ASSUME IInv, Restart
  PROVE  IInv'
<1>1. /\ restarts < MaxRestarts /\ restarts' = restarts + 1 /\ tree' = table
      /\ hmHarvesters' = {h \in Harvester : table[h] # Absent}
      /\ hmHarvestLookup' = hmHarvesters'
      /\ status' = [h \in Harvester |-> IF table[h] = Absent THEN "INACTIVE" ELSE table[h]]
      /\ jobs' = {h \in Harvester : table[h] = "ACTIVE"}
      /\ running' = [h \in Harvester |-> FALSE]
      /\ manager' = NoOne /\ monitor' = [h \in Harvester |-> NoOne]
      /\ due' = [h \in Harvester |-> 0] /\ exec' = [h \in Harvester |-> "idle"]
      /\ spoiled' = {}
      /\ UNCHANGED <<firings, table, records, history, born, overlapped>>
  BY DEF Restart
<1>2. /\ pend' = [x \in Actor |-> Nothing] /\ tasks' = [x \in Actor |-> Nothing]
      /\ hiding' = [r \in Request |-> NoRows] /\ doomed' = [r \in Request |-> {}]
  BY DEF Restart
<1>3. /\ Nothing \in [Harvester -> Status \cup {Absent, Unset}]
      /\ \A h \in Harvester : Nothing[h] = Unset
      /\ NoRows \in [Harvester -> Nat] /\ \A h \in Harvester : NoRows[h] = 0
  BY DEF Nothing, NoRows
<1>4. /\ \A x \in Actor : \A h \in Harvester : pend'[x][h] = Unset
      /\ \A r \in Request : \A h \in Harvester : hiding'[r][h] = 0
  BY <1>2, <1>3
<1>5. req' = [r \in Request |-> IF req[r] = Idle THEN Idle
                ELSE [req[r] EXCEPT !.pc = "ended", !.ids = <<>>]]
  BY DEF Restart
<1>6. \A r \in Request : /\ req'[r] \in ReqType /\ req'[r].pc \in {"idle", "ended"}
                         /\ req'[r].ids = <<>>
  <2> TAKE r \in Request
  <2>1. req[r] \in ReqType
    BY DEF IInv, TypeOK, ReqType
  <2>2. CASE req[r] = Idle
    BY <1>5, <2>1, <2>2 DEF Idle
  <2>3. CASE req[r] # Idle
    <3>1. req'[r] = [pc |-> "ended", op |-> req[r].op, ids |-> <<>>, named |-> req[r].named]
      BY <1>5, <2>1, <2>3 DEF ReqType
    <3> QED
      BY <2>1, <3>1 DEF ReqType, Pcs
  <2> QED
    BY <2>2, <2>3
<1>7. req' \in [Request -> ReqType]
  BY <1>5, <1>6
<1>8. \A r \in Request : \A h \in Harvester : ~Found(r, h)' /\ ~Adding(r, h)'
  BY <1>6 DEF Found, Adding, At
<1>9. TypeOK'
  <2>1. /\ pend' \in [Actor -> [Harvester -> Status \cup {Absent, Unset}]]
        /\ tasks' \in [Actor -> [Harvester -> Status \cup {Absent, Unset}]]
        /\ hiding' \in [Request -> [Harvester -> Nat]]
        /\ doomed' \in [Request -> SUBSET Record]
    BY <1>2, <1>3
  <2>2. /\ status' \in [Harvester -> Status] /\ tree' \in [Harvester -> Status \cup {Absent}]
        /\ restarts' \in 0 .. MaxRestarts
    BY <1>1, HarvestAssumption DEF IInv, TypeOK, Status
  <2>3. /\ running' \in [Harvester -> BOOLEAN] /\ due' \in [Harvester -> Nat]
        /\ exec' \in [Harvester -> Execs] /\ monitor' \in [Harvester -> Request \cup {NoOne}]
    BY <1>1 DEF Execs
  <2> QED
    BY <1>1, <1>7, <2>1, <2>2, <2>3 DEF IInv, TypeOK, ReqType
<1>10. JobFollowsStatus'
  <2>1. \A h \in hmHarvesters' : h \in Harvester /\ table[h] # Absent /\ status'[h] = table[h]
    BY <1>1
  <2> QED
    BY <1>1, <2>1 DEF JobFollowsStatus
<1>11. OpsFit'
  BY <1>6 DEF OpsFit
<1>12. Owned'
  BY <1>1, <1>8, HarvestAssumption DEF Owned, Actor
<1>13. Exclusive' /\ TakenOut' /\ InvokesAlone' /\ Fresh'
  BY <1>8 DEF Exclusive, TakenOut, Removing, InvokesAlone, Fresh
<1>14. Hides'
  BY <1>4 DEF Hides
<1>15. BornFirst'
  <2>1. hmHarvesters' \cup hmHarvestLookup' \cup jobs' \subseteq born'
    BY <1>1, HarvestAssumption DEF IInv, BornFirst, Status
  <2>2. \A h \in Harvester : table'[h] # Absent \/ exec'[h] # "idle" => h \in born'
    BY <1>1 DEF IInv, BornFirst
  <2> QED
    BY <1>4, <1>8, <2>1, <2>2 DEF BornFirst
<1> QED
  BY <1>9, <1>10, <1>11, <1>12, <1>13, <1>14, <1>15 DEF IInv

-----------------------------------------------------------------------------
(* The theorems *)

LEMMA InitInv == Init => IInv
<1> SUFFICES ASSUME Init PROVE IInv
  OBVIOUS
<1>1. PICK s \in [Harvester -> Status \cup {Absent}] : InitialSettings(s)
  BY DEF Init
<1>2. /\ table = s /\ tree = s
      /\ status = [h \in Harvester |-> IF s[h] = Absent THEN "INACTIVE" ELSE s[h]]
      /\ hmHarvesters = {h \in Harvester : s[h] # Absent}
      /\ hmHarvestLookup = hmHarvesters
      /\ jobs = {h \in Harvester : s[h] = "ACTIVE"} /\ born = hmHarvesters
  BY <1>1 DEF InitialSettings
<1>3. /\ Nothing \in [Harvester -> Status \cup {Absent, Unset}]
      /\ \A h \in Harvester : Nothing[h] = Unset
      /\ NoRows \in [Harvester -> Nat] /\ \A h \in Harvester : NoRows[h] = 0
      /\ Idle \in ReqType
  BY DEF Nothing, NoRows, Idle, ReqType, Pcs, Ops
<1>4. \A r \in Request : req[r].pc = "idle" /\ req[r].op = "none" /\ req[r].ids = <<>>
  BY DEF Init, Idle
<1>5. \A r \in Request : \A h \in Harvester : ~Found(r, h) /\ ~Adding(r, h) /\ hiding[r][h] = 0
  BY <1>3, <1>4 DEF Init, Found, Adding, At
<1>6. TypeOK
  <2>1. /\ hmHarvesters \subseteq Harvester /\ hmHarvestLookup \subseteq Harvester
        /\ status \in [Harvester -> Status] /\ jobs \subseteq Harvester /\ born \subseteq Harvester
        /\ table \in [Harvester -> Status \cup {Absent}]
        /\ tree \in [Harvester -> Status \cup {Absent}]
    BY <1>2 DEF Status
  <2>2. /\ pend \in [Actor -> [Harvester -> Status \cup {Absent, Unset}]]
        /\ tasks \in [Actor -> [Harvester -> Status \cup {Absent, Unset}]]
        /\ history \in [Harvester -> Nat] /\ hiding \in [Request -> [Harvester -> Nat]]
        /\ req \in [Request -> ReqType]
    BY <1>3 DEF Init
  <2>3. /\ running \in [Harvester -> BOOLEAN] /\ manager \in Request \cup {NoOne}
        /\ monitor \in [Harvester -> Request \cup {NoOne}] /\ due \in [Harvester -> Nat]
        /\ exec \in [Harvester -> Execs] /\ firings \in [Harvester -> 0 .. MaxFirings]
        /\ records \in [Harvester -> SUBSET Record] /\ doomed \in [Request -> SUBSET Record]
        /\ spoiled \subseteq Harvester /\ overlapped \subseteq Harvester
        /\ restarts \in 0 .. MaxRestarts
    BY HarvestAssumption DEF Init, Execs
  <2> QED
    BY <2>1, <2>2, <2>3 DEF TypeOK, ReqType
<1>7. JobFollowsStatus
  BY <1>2 DEF JobFollowsStatus
<1>8. OpsFit
  BY <1>4 DEF OpsFit
<1>9. Owned
  BY <1>5, HarvestAssumption DEF Init, Owned, Actor
<1>10. Exclusive /\ TakenOut /\ Fresh /\ Hides /\ InvokesAlone
  BY <1>5 DEF Exclusive, TakenOut, Removing, Fresh, Hides, InvokesAlone
<1>11. BornFirst
  <2>1. hmHarvesters \cup hmHarvestLookup \cup jobs \subseteq born
    BY <1>2, HarvestAssumption DEF Status
  <2>2. \A h \in Harvester : table[h] # Absent \/ exec[h] # "idle" => h \in born
    BY <1>2 DEF Init
  <2>3. \A x \in Actor : \A h \in Harvester : pend[x][h] = Unset
    BY <1>3 DEF Init
  <2> QED
    BY <1>5, <2>1, <2>2, <2>3 DEF BornFirst
<1> QED
  BY <1>6, <1>7, <1>8, <1>9, <1>10, <1>11 DEF IInv

LEMMA StutterStep ==
  ASSUME IInv, UNCHANGED vars
  PROVE  IInv'
<1>1. UNCHANGED <<memory, monitors, quartz, settings, data, req, doomed, ghosts>>
  BY DEF vars
<1>2. TypeOK' /\ JobFollowsStatus' /\ OpsFit'
  BY <1>1 DEF IInv, TypeOK, JobFollowsStatus, OpsFit, memory, monitors, quartz, settings,
              data, ghosts
<1>3. \A q \in Request : \A h \in Harvester :
        /\ Found(q, h)' <=> Found(q, h)
        /\ Adding(q, h)' <=> Adding(q, h)
        /\ Removing(q, h)' <=> Removing(q, h)
  BY <1>1 DEF Found, Adding, Removing, At, Id
<1>4. Owned' /\ Exclusive' /\ TakenOut' /\ InvokesAlone'
  BY <1>1, <1>3 DEF IInv, Owned, Exclusive, TakenOut, InvokesAlone, memory, monitors, quartz
<1>5. BornFirst' /\ Fresh' /\ Hides'
  BY <1>1, <1>3 DEF IInv, BornFirst, Fresh, Hides, memory, quartz, settings, data, ghosts
<1> QED
  BY <1>2, <1>4, <1>5 DEF IInv

LEMMA InvStep == IInv /\ [Next]_vars => IInv'
<1> SUFFICES ASSUME IInv, [Next]_vars PROVE IInv'
  OBVIOUS
<1>1. CASE UNCHANGED vars
  BY <1>1, StutterStep
<1>2. ASSUME NEW r \in Request, Begin(r) \/ Finding(r) PROVE IInv'
  BY <1>2, BeginStep, AddStep, FindStep, FindAloneStep DEF Finding
<1>3. ASSUME NEW r \in Request, Operation(r) PROVE IInv'
  BY <1>3, AlreadyDoneStep, StartStep, StopStep, RunStep, UpdateStep, InvokeBeginStep,
     DestroyBeginStep DEF Operation
<1>4. ASSUME NEW r \in Request, Removal(r) \/ Fail(r) PROVE IInv'
  BY <1>4, DestroyRecordStep, DestroyEndStep, RemoveEntryStep, FailStep DEF Removal
<1>5. ASSUME NEW r \in Request, Ending(r) PROVE IInv'
  BY <1>5, InvokeEndStep, AbortStep, CloseStep DEF Ending
<1>6. ASSUME NEW h \in Harvester, Fire(h) \/ Align(h) PROVE IInv'
  BY <1>6, FireStep, AlignStep
<1>7. ASSUME NEW h \in Harvester, Harvest(h) PROVE IInv'
  BY <1>7, HarvestMoves, StopItselfStep, CloseHarvestStep, RecordHistoryStep DEF Harvest
<1>8. CASE Restart
  BY <1>8, RestartStep
<1>9. CASE Waits
  BY <1>9, StutterStep DEF Waits
<1> QED
  BY <1>1, <1>2, <1>3, <1>4, <1>5, <1>6, <1>7, <1>8, <1>9 DEF Next

\* Every reachable state satisfies the inductive invariant: the maps, the
\* monitors, the scheduler and the requests of HarvestManager stay in step.
THEOREM Invariant == Spec => []IInv
<1>1. Init => IInv
  BY InitInv
<1>2. IInv /\ [Next]_vars => IInv'
  BY InvStep
<1> QED
  BY <1>1, <1>2, PTL DEF Spec

\* Every variable keeps its type; in particular no count of history rows goes
\* below zero, and no count of pending triggers.
THEOREM TypeCorrect == Spec => []TypeOK
<1>1. IInv => TypeOK
  BY DEF IInv
<1> QED
  BY <1>1, Invariant, PTL

\* The scheduler has a job for a harvester nobody is inside of exactly when the
\* status field of that harvester is active, however requests, harvests that
\* stop themselves, failures and crashes interleave.
THEOREM JobsFollow == Spec => []JobFollowsStatus
<1>1. IInv => JobFollowsStatus
  BY DEF IInv
<1> QED
  BY <1>1, Invariant, PTL
=============================================================================
