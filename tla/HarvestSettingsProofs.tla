------------------------- MODULE HarvestSettingsProofs -------------------------
(***************************************************************************)
(* Proofs about what HarvestManager and the settings know of a harvester,  *)
(* for any harvesters, requests and records.                               *)
(*                                                                         *)
(* Of a harvester in the map, the tree and the table say the same, and at  *)
(* most one transaction has written it, the same value to both (SoleWriter,*)
(* Together).  So the status field, which is changed at once, is the value *)
(* that transaction will commit, or else the committed one (Follows).      *)
(* A removal takes the harvester out of the map before it writes the       *)
(* settings, which is why a commit in the middle of the removal of another *)
(* harvester of the same request does no harm (NamesFit), and why a node   *)
(* without harvester has somebody who is about to remove it (Leaving).     *)
(***************************************************************************)
EXTENDS HarvestManagerProofs

-----------------------------------------------------------------------------
(* The inductive invariant *)

Wrote(x, h) == pend[x][h] # Unset

\* A request about harvester h, which the settings showed when it began
Knows(q, h) == req[q].op # "add" /\ h \in req[q].named

Acting(r) == req[r].pc \notin {"idle", "ended"}

Midway == {"called", "destroying", "removing", "invoking", "failed"}

NamesFit ==
  \A r \in Request :
    /\ \A n \in DOMAIN req[r].ids : req[r].ids[n] \in req[r].named
    /\ req[r].pc \in Midway => req[r].op # "add"
    /\ \A h \in Harvester : Wrote(r, h) \/ tasks[r][h] # Unset => h \in req[r].named
    /\ req[r].op = "remove" => \A h \in hmHarvesters : ~Wrote(r, h)

SoleWriter ==
  \A h \in Harvester : \A x, y \in Actor : Wrote(x, h) /\ Wrote(y, h) => x = y

Used(h) == (\E q \in Request : Knows(q, h)) \/ h \in jobs \/ exec[h] # "idle"

Together ==
  \A h \in hmHarvesters :
    /\ tree[h] = table[h]
    /\ \A x \in Actor : /\ tasks[x][h] = pend[x][h] /\ pend[x][h] # Absent
                        /\ tree[h] = Absent /\ Wrote(x, h) => Adds(x)
    /\ Used(h) => tree[h] # Absent

\* An id that is not given out, or not stored yet
Unstored(h) == h \notin born \/ \E r \in Request : Adding(r, h)

Unborn ==
  \A h \in Harvester : Unstored(h) =>
    /\ tree[h] = Absent /\ table[h] = Absent /\ exec[h] = "idle"
    /\ \A x \in Actor : pend[x][h] = Unset /\ tasks[x][h] = Unset
    /\ \A q \in Request : ~Knows(q, h)

AddsPending ==
  \A r \in Request : \A h \in Harvester :
    Adds(r) /\ tasks[r][h] # Unset => h \in hmHarvesters /\ tree[h] = Absent

\* invoke() sets the field for as long as it harvests
Settled(h) == IF Invoking(h) THEN "INACTIVE" ELSE status[h]

Follows ==
  \A h \in hmHarvesters \ spoiled :
    /\ \A x \in Actor : Wrote(x, h) => pend[x][h] = Settled(h)
    /\ (\A x \in Actor : ~Wrote(x, h)) => table[h] = Settled(h)

\* On the way from the map to the settings, or to an abort
Takes(r, h) == \/ req[r].pc = "removing" /\ req[r].ids # <<>> /\ Id(r) = h
               \/ req[r].pc = "failed"

Removes(r, h) == Acting(r) /\ req[r].op = "remove" /\ h \in req[r].named

Leaving ==
  \A h \in Harvester : tree[h] # Absent /\ h \notin hmHarvesters \cup spoiled =>
    \E r \in Request : Removes(r, h) /\ (Takes(r, h) \/ tasks[r][h] = Absent)

SInv == /\ NamesFit /\ SoleWriter /\ Together /\ Unborn /\ AddsPending /\ Follows
        /\ Leaving

-----------------------------------------------------------------------------
(* Steps of requests *)

\* A step in which requests keep what they are about
Steady ==
  \A q \in Request :
    /\ req'[q].op = req[q].op /\ req'[q].named = req[q].named
    /\ \A n \in DOMAIN req'[q].ids : req'[q].ids[n] \in req[q].named
    /\ req'[q].pc \in Midway => req[q].op # "add"
    /\ \A h \in Harvester : Adding(q, h)' => Adding(q, h)

LEMMA NextId ==
  ASSUME IInv, SInv, NEW r \in Request, req[r].ids # <<>>
  PROVE  /\ Id(r) \in Harvester /\ Id(r) \in req[r].named
         /\ Tail(req[r].ids) \in Seq(Harvester)
         /\ \A n \in DOMAIN Tail(req[r].ids) : Tail(req[r].ids)[n] \in req[r].named
<1>1. req[r].ids \in Seq(Harvester)
  BY DEF IInv, TypeOK
<1>2. \A n \in DOMAIN req[r].ids : req[r].ids[n] \in req[r].named
  BY DEF SInv, NamesFit
<1>3. Id(r) = req[r].ids[1] /\ 1 \in DOMAIN req[r].ids
  BY <1>1 DEF Id
<1>4. /\ Tail(req[r].ids) \in Seq(Harvester) /\ Id(r) \in Harvester
      /\ Len(Tail(req[r].ids)) = Len(req[r].ids) - 1
      /\ \A n \in 1 .. Len(Tail(req[r].ids)) : Tail(req[r].ids)[n] = req[r].ids[n + 1]
  BY <1>1, HeadTailProperties, IdType DEF IInv
<1>5. \A n \in DOMAIN Tail(req[r].ids) : Tail(req[r].ids)[n] \in req[r].named
  <2> TAKE n \in DOMAIN Tail(req[r].ids)
  <2>1. n \in 1 .. Len(Tail(req[r].ids)) /\ n + 1 \in DOMAIN req[r].ids
    BY <1>1, <1>4
  <2> QED
    BY <1>2, <1>4, <2>1
<1> QED
  BY <1>2, <1>3, <1>4, <1>5

LEMMA AnswersSteady ==
  ASSUME IInv, SInv, NEW r \in Request, req[r].ids # <<>>, Answers(r)
  PROVE  /\ Steady
         /\ \A q \in Request \ {r} : req'[q] = req[q]
         /\ req'[r].pc = "next"
<1>1. req \in [Request -> ReqType]
  BY DEF IInv, TypeOK, ReqType
<1>2. /\ req'[r] = [pc |-> "next", op |-> req[r].op, ids |-> Tail(req[r].ids),
                    named |-> req[r].named]
      /\ \A q \in Request \ {r} : req'[q] = req[q]
  BY <1>1 DEF Answers, ReqType
<1>3. \A h \in Harvester : \A q \in Request : Adding(q, h)' => Adding(q, h)
  BY <1>2, AnswersFacts DEF IInv, Quieter
<1>4. \A n \in DOMAIN req'[r].ids : req'[r].ids[n] \in req[r].named
  BY <1>2, NextId
<1>5. \A q \in Request \ {r} :
        /\ \A n \in DOMAIN req[q].ids : req[q].ids[n] \in req[q].named
        /\ req[q].pc \in Midway => req[q].op # "add"
  BY DEF SInv, NamesFit
<1>6. "next" \notin Midway
  BY DEF Midway
<1> QED
  BY <1>2, <1>3, <1>4, <1>5, <1>6 DEF Steady

LEMMA GoesSteady ==
  ASSUME IInv, SInv, NEW r \in Request, NEW pc \in Pcs, Goes(r, pc), pc # "next",
         pc \in Midway => req[r].op # "add"
  PROVE  /\ Steady
         /\ \A q \in Request \ {r} : req'[q] = req[q]
         /\ req'[r].pc = pc /\ req'[r].ids = req[r].ids
         /\ req'[r].op = req[r].op /\ req'[r].named = req[r].named
<1>1. req \in [Request -> ReqType]
  BY DEF IInv, TypeOK, ReqType
<1>2. /\ req'[r] = [pc |-> pc, op |-> req[r].op, ids |-> req[r].ids,
                    named |-> req[r].named]
      /\ \A q \in Request \ {r} : req'[q] = req[q]
  BY <1>1 DEF Goes, ReqType
<1>3. \A h \in Harvester : \A q \in Request : Adding(q, h)' => Adding(q, h)
  BY <1>2 DEF Adding, At, Id
<1> QED
  BY <1>2, <1>3 DEF Steady, SInv, NamesFit, Midway

LEMMA StillSteady ==
  ASSUME SInv, UNCHANGED req
  PROVE  Steady
BY DEF Steady, SInv, NamesFit, Adding, At, Id

\* A request in the middle of a call names what it calls
LEMMA CallerKnows ==
  ASSUME IInv, SInv, NEW r \in Request, req[r].pc \in Midway, req[r].ids # <<>>
  PROVE  Id(r) \in Harvester /\ Knows(r, Id(r)) /\ Acting(r)
BY NextId DEF SInv, NamesFit, Knows, Acting, Midway

-----------------------------------------------------------------------------
(* Steps that leave the settings alone *)

LEMMA Frame ==
  ASSUME IInv, SInv, Steady,
         UNCHANGED <<table, tree, pend, tasks, born, spoiled>>,
         hmHarvesters' \subseteq hmHarvesters,
         \A h \in hmHarvesters \ hmHarvesters' : \E r \in Request : Removes(r, h)' /\ Takes(r, h)',
         \A q \in Request : /\ Acting(q) => Acting(q)'
                            /\ \A h \in Harvester : Takes(q, h) => Takes(q, h)',
         jobs' \subseteq jobs,
         \A h \in Harvester : exec'[h] # "idle" => exec[h] # "idle" \/ h \in jobs,
         \A h \in hmHarvesters : Settled(h)' = Settled(h)
  PROVE  SInv'
<1>1. \A q \in Request : \A h \in Harvester :
        /\ Knows(q, h)' <=> Knows(q, h)
        /\ Removes(q, h) => Removes(q, h)'
  BY DEF Steady, Knows, Removes
<1>2. \A x \in Actor : /\ Adds(x)' <=> Adds(x)
                       /\ \A h \in Harvester : Wrote(x, h)' <=> Wrote(x, h)
  BY DEF Steady, Adds, Wrote
<1>3. hmHarvesters \subseteq Harvester /\ Request \subseteq Actor
  BY DEF IInv, TypeOK, Actor
<1>4. NamesFit'
  BY <1>2, <1>3 DEF SInv, NamesFit, Steady
<1>5. SoleWriter'
  BY <1>2 DEF SInv, SoleWriter
<1>6. Together'
  BY <1>1, <1>2, <1>3 DEF SInv, Together, Used
<1>7. Unborn'
  BY <1>1 DEF SInv, Unborn, Unstored, Steady, IInv, BornFirst, Fresh
<1>8. AddsPending'
  <2> SUFFICES ASSUME NEW r \in Request, NEW h \in Harvester, Adds(r), tasks[r][h] # Unset
               PROVE  h \in hmHarvesters' /\ tree[h] = Absent
    BY <1>2, <1>3 DEF AddsPending
  <2>1. h \in hmHarvesters /\ tree[h] = Absent
    BY DEF SInv, AddsPending
  <2>2. CASE h \notin hmHarvesters'
    <3>1. PICK q \in Request : Removes(q, h)'
      BY <2>1, <2>2
    <3>2. Knows(q, h)
      BY <1>1, <3>1 DEF Removes, Knows
    <3> QED
      BY <2>1, <3>2 DEF SInv, Together, Used
  <2> QED
    BY <2>1, <2>2
<1>9. Follows'
  BY <1>2, <1>3 DEF SInv, Follows
<1>10. Leaving'
  <2> SUFFICES ASSUME NEW h \in Harvester, tree[h] # Absent,
                      h \notin hmHarvesters' \cup spoiled
               PROVE  \E r \in Request :
                        Removes(r, h)' /\ (Takes(r, h)' \/ tasks[r][h] = Absent)
    BY DEF Leaving
  <2>1. CASE h \in hmHarvesters
    BY <2>1
  <2>2. CASE h \notin hmHarvesters
    BY <1>1, <2>2 DEF SInv, Leaving
  <2> QED
    BY <2>1, <2>2
<1> QED
  BY <1>4, <1>5, <1>6, <1>7, <1>8, <1>9, <1>10 DEF SInv

-----------------------------------------------------------------------------
(* What the field means while nobody, or somebody, invokes the harvester *)

LEMMA SameInvokers ==
  ASSUME \A q \in Request : req[q].pc = "invoking" \/ req'[q].pc = "invoking"
                              => req'[q] = req[q]
  PROVE  \A h \in Harvester : Invoking(h)' <=> Invoking(h)
BY DEF Invoking, At, Id

LEMMA SettledStays ==
  ASSUME status' = status,
         \A q \in Request : req[q].pc = "invoking" \/ req'[q].pc = "invoking"
                              => req'[q] = req[q]
  PROVE  \A h \in Harvester : Settled(h)' = Settled(h)
BY SameInvokers DEF Settled

LEMMA Uninvoked ==
  ASSUME IInv, NEW h \in Harvester, monitor[h] = NoOne
  PROVE  ~Invoking(h)
<1> SUFFICES ASSUME NEW r \in Request, At(r, "invoking"), Id(r) = h PROVE FALSE
  BY DEF Invoking
<1>1. monitor[h] = r
  BY DEF IInv, Owned, Found, At
<1> QED
  BY <1>1, HarvestAssumption DEF Actor

LEMMA SettledSet ==
  ASSUME IInv, NEW g \in Harvester, NEW s \in Status, monitor[g] = NoOne,
         status' = [status EXCEPT ![g] = s],
         \A q \in Request : req[q].pc = "invoking" \/ req'[q].pc = "invoking"
                              => req'[q] = req[q]
  PROVE  \A h \in Harvester : Settled(h)' = IF h = g THEN s ELSE Settled(h)
<1>1. \A h \in Harvester : status'[h] = IF h = g THEN s ELSE status[h]
  BY DEF IInv, TypeOK
<1>2. \A h \in Harvester : Invoking(h)' <=> Invoking(h)
  BY SameInvokers
<1> QED
  BY <1>1, <1>2, Uninvoked DEF Settled

-----------------------------------------------------------------------------
(* A step that writes the status of g to the settings *)

LEMMA Sets ==
  ASSUME IInv, SInv, NEW x \in Actor, NEW g \in Harvester, NEW s \in Status \cup {Absent},
         SetStatus(x, g, s), Steady,
         UNCHANGED <<table, tree, born, spoiled, hmHarvesters>>,
         Used(g), jobs' \subseteq jobs \cup {g},
         \A h \in Harvester : exec'[h] # "idle" => exec[h] # "idle",
         \A q \in Request :
            /\ Acting(q) => Acting(q)'
            /\ \A h \in Harvester : Takes(q, h) => Takes(q, h)' \/ (q = x /\ h = g /\ s = Absent),
         x \in Request => Knows(x, g) /\ (req[x].op = "remove" => s = Absent),
         s = Absent => x \in Request /\ g \notin hmHarvesters,
         ~Unstored(g),
         \A h \in hmHarvesters : Settled(h)' = IF h = g THEN s ELSE Settled(h)
  PROVE  SInv'
<1>1. \A q \in Request : \A h \in Harvester :
        /\ Knows(q, h)' <=> Knows(q, h)
        /\ Removes(q, h) => Removes(q, h)'
  BY DEF Steady, Knows, Removes
<1>2. \A y \in Actor : Adds(y)' <=> Adds(y)
  BY DEF Steady, Adds
<1>3. hmHarvesters \subseteq Harvester /\ Request \subseteq Actor
  BY DEF IInv, TypeOK, Actor
<1>4. /\ pend \in [Actor -> [Harvester -> Status \cup {Absent, Unset}]]
      /\ tasks \in [Actor -> [Harvester -> Status \cup {Absent, Unset}]]
      /\ table \in [Harvester -> Status \cup {Absent}]
  BY DEF IInv, TypeOK
<1>5. s # Unset
  BY HarvestAssumption
\* what is written
<1>6. \A y \in Actor : \A h \in Harvester : y # x \/ h # g =>
        pend'[y][h] = pend[y][h] /\ tasks'[y][h] = tasks[y][h]
  BY <1>4 DEF SetStatus
<1>7. CASE tree[g] = Absent
  <2>1. pend' = pend /\ tasks' = tasks
    BY <1>7 DEF SetStatus
  <2>2. g \notin hmHarvesters
    BY <1>7 DEF SInv, Together
  <2>3. NamesFit'
    BY <1>3, <2>1 DEF SInv, NamesFit, Steady, Wrote
  <2>4. SoleWriter' /\ AddsPending'
    BY <1>2, <1>3, <2>1 DEF SInv, SoleWriter, AddsPending, Wrote
  <2>5. Together'
    BY <1>1, <1>2, <1>3, <2>1, <2>2 DEF SInv, Together, Used, Wrote
  <2>6. Unborn'
    BY <1>1, <2>1 DEF SInv, Unborn, Unstored, Steady
  <2>7. Follows'
    BY <1>3, <2>1, <2>2 DEF SInv, Follows, Wrote
  <2>8. Leaving'
    <3> SUFFICES ASSUME NEW h \in Harvester, tree[h] # Absent, h \notin hmHarvesters \cup spoiled
                 PROVE  \E r \in Request : Removes(r, h)' /\ (Takes(r, h)' \/ tasks[r][h] = Absent)
      BY <2>1 DEF Leaving
    <3>1. h # g
      BY <1>7
    <3> QED
      BY <1>1, <3>1 DEF SInv, Leaving
  <2> QED
    BY <2>3, <2>4, <2>5, <2>6, <2>7, <2>8 DEF SInv
<1>8. CASE tree[g] # Absent
  <2>1. /\ tasks'[x][g] = s
        /\ pend'[x][g] = IF Seen(x, g) = Absent THEN pend[x][g] ELSE s
        /\ \A y \in Actor \ {x} : ~Wrote(y, g)
    BY <1>4, <1>8 DEF SetStatus, Blocked, Wrote
  <2>2. g \in hmHarvesters => /\ pend'[x][g] = s /\ s # Absent
                              /\ table[g] # Absent
    BY <1>8, <2>1 DEF SInv, Together, Seen
  <2>3. NamesFit'
    <3> SUFFICES ASSUME NEW r \in Request
                 PROVE  /\ \A h \in Harvester : pend'[r][h] # Unset \/ tasks'[r][h] # Unset
                              => h \in req[r].named
                        /\ req[r].op = "remove" => \A h \in hmHarvesters : pend'[r][h] = Unset
      BY <1>3 DEF NamesFit, Steady, Wrote
    <3>1. \A h \in Harvester : pend[r][h] # Unset \/ tasks[r][h] # Unset => h \in req[r].named
      BY <1>3 DEF SInv, NamesFit, Wrote
    <3>2. r = x => g \in req[r].named /\ (req[r].op = "remove" => g \notin hmHarvesters)
      BY DEF Knows
    <3>3. req[r].op = "remove" => \A h \in hmHarvesters : pend[r][h] = Unset
      BY DEF SInv, NamesFit, Wrote
    <3> QED
      BY <1>3, <1>6, <3>1, <3>2, <3>3
  <2>4. SoleWriter'
    BY <1>6, <2>1 DEF SInv, SoleWriter, Wrote
  <2>5. Together'
    <3> SUFFICES ASSUME NEW h \in hmHarvesters
                 PROVE  /\ tree[h] = table[h]
                        /\ \A y \in Actor :
                             /\ tasks'[y][h] = pend'[y][h] /\ pend'[y][h] # Absent
                             /\ tree[h] = Absent /\ pend'[y][h] # Unset => Adds(y)
                        /\ Used(h)' => tree[h] # Absent
      BY <1>2 DEF Together, Wrote
    <3>1. h \in Harvester
      BY <1>3
    <3>2. CASE h # g
      <4>1. Used(h)' => Used(h)
        BY <1>1, <3>1, <3>2 DEF Used
      <4> QED
        BY <1>6, <3>1, <3>2, <4>1 DEF SInv, Together, Wrote
    <3>3. CASE h = g
      BY <1>6, <1>8, <2>1, <2>2, <3>3 DEF SInv, Together, Wrote
    <3> QED
      BY <3>2, <3>3
  <2>6. Unborn'
    <3> SUFFICES ASSUME NEW h \in Harvester, Unstored(h)
                 PROVE  /\ tree[h] = Absent /\ table[h] = Absent /\ exec'[h] = "idle"
                        /\ \A y \in Actor : pend'[y][h] = Unset /\ tasks'[y][h] = Unset
                        /\ \A q \in Request : ~Knows(q, h)
      BY <1>1 DEF Unborn, Unstored, Steady
    <3>1. h # g
      OBVIOUS
    <3> QED
      BY <1>6, <3>1 DEF SInv, Unborn
  <2>7. AddsPending'
    BY <1>2, <1>3, <1>6 DEF SInv, AddsPending, Adds, Knows
  <2>8. Follows'
    <3> SUFFICES ASSUME NEW h \in hmHarvesters \ spoiled
                 PROVE  /\ \A y \in Actor : pend'[y][h] # Unset => pend'[y][h] = Settled(h)'
                        /\ (\A y \in Actor : pend'[y][h] = Unset) => table[h] = Settled(h)'
      BY DEF Follows, Wrote
    <3>1. h \in Harvester
      BY <1>3
    <3>2. CASE h # g
      BY <1>6, <3>1, <3>2 DEF SInv, Follows, Wrote
    <3>3. CASE h = g
      BY <1>5, <1>6, <2>1, <2>2, <3>3 DEF Wrote
    <3> QED
      BY <3>2, <3>3
  <2>9. Leaving'
    <3> SUFFICES ASSUME NEW h \in Harvester, tree[h] # Absent, h \notin hmHarvesters \cup spoiled
                 PROVE  \E r \in Request : Removes(r, h)' /\ (Takes(r, h)' \/ tasks'[r][h] = Absent)
      BY DEF Leaving
    <3>1. PICK r \in Request : Removes(r, h) /\ (Takes(r, h) \/ tasks[r][h] = Absent)
      BY DEF SInv, Leaving
    <3>2. CASE r = x /\ h = g
      BY <1>1, <2>1, <3>1, <3>2 DEF Removes
    <3>3. CASE ~(r = x /\ h = g)
      BY <1>1, <1>3, <1>6, <3>1, <3>3
    <3> QED
      BY <3>2, <3>3
  <2> QED
    BY <2>3, <2>4, <2>5, <2>6, <2>7, <2>8, <2>9 DEF SInv
<1> QED
  BY <1>7, <1>8

-----------------------------------------------------------------------------
(* The operations in the monitor of the harvester *)

\* What requests other than r do not notice of a step of r
LEMMA OthersStay ==
  ASSUME NEW r \in Request, \A q \in Request \ {r} : req'[q] = req[q],
         Acting(r) => Acting(r)',
         \A h \in Harvester : Takes(r, h) => Takes(r, h)'
  PROVE  \A q \in Request : /\ Acting(q) => Acting(q)'
                            /\ \A h \in Harvester : Takes(q, h) => Takes(q, h)'
BY DEF Acting, Takes, Id

LEMMA CallKnows ==
  ASSUME IInv, SInv, NEW r \in Request, NEW op, Calls(r, op)
  PROVE  /\ Id(r) \in Harvester /\ Knows(r, Id(r)) /\ Used(Id(r)) /\ ~Unstored(Id(r))
         /\ req[r].ids # <<>> /\ req[r].pc = "called" /\ req[r].op = op
         /\ monitor[Id(r)] = NoOne
<1>1. /\ req[r].ids # <<>> /\ req[r].pc = "called" /\ req[r].op = op
      /\ monitor[Id(r)] = NoOne
  BY DEF Calls, Does, At
<1>2. Id(r) \in Harvester /\ Knows(r, Id(r))
  BY <1>1, CallerKnows DEF Midway
<1> QED
  BY <1>1, <1>2 DEF Used, SInv, Unborn

LEMMA CallAnswers ==
  ASSUME IInv, SInv, NEW r \in Request, NEW op, Calls(r, op), Answers(r)
  PROVE  /\ Steady
         /\ \A q \in Request : /\ Acting(q) => Acting(q)'
                               /\ \A h \in Harvester : Takes(q, h) => Takes(q, h)'
         /\ \A q \in Request : req[q].pc = "invoking" \/ req'[q].pc = "invoking"
                              => req'[q] = req[q]
<1>1. /\ Steady /\ \A q \in Request \ {r} : req'[q] = req[q]
      /\ req'[r].pc = "next" /\ req[r].pc = "called"
  BY CallKnows, AnswersSteady
<1>2. \A q \in Request : /\ Acting(q) => Acting(q)'
                         /\ \A h \in Harvester : Takes(q, h) => Takes(q, h)'
  BY <1>1, OthersStay DEF Acting, Takes
<1> QED
  BY <1>1, <1>2

LEMMA AlreadyDoneSettings ==
  ASSUME IInv, SInv, NEW r \in Request, AlreadyDone(r)
  PROVE  SInv'
<1>1. PICK op : Calls(r, op) /\ Answers(r)
  BY DEF AlreadyDone
<1>2. UNCHANGED <<memory, quartz, settings, ghosts>>
  BY DEF AlreadyDone
<1>3. \A h \in Harvester : Settled(h)' = Settled(h)
  BY <1>1, <1>2, CallAnswers, SettledStays DEF memory
<1>4. hmHarvesters' = hmHarvesters /\ hmHarvesters \subseteq Harvester
      /\ UNCHANGED <<table, tree, pend, tasks, born, spoiled, jobs, exec>>
  BY <1>2 DEF memory, quartz, settings, ghosts, IInv, TypeOK
<1> QED
  BY <1>1, <1>3, <1>4, CallAnswers, Frame

\* The settings get what the field gets
LEMMA CallSets ==
  ASSUME IInv, SInv, NEW r \in Request, NEW op \in {"start", "stop", "run", "update"},
         Calls(r, op), Answers(r), NEW s \in Status, SetStatus(r, Id(r), s),
         status' = [status EXCEPT ![Id(r)] = s],
         UNCHANGED <<table, tree, born, spoiled, hmHarvesters, exec>>,
         jobs' \subseteq jobs \cup {Id(r)}
  PROVE  SInv'
<1>1. /\ Id(r) \in Harvester /\ Knows(r, Id(r)) /\ Used(Id(r)) /\ ~Unstored(Id(r))
      /\ monitor[Id(r)] = NoOne /\ req[r].op # "remove"
  BY CallKnows
<1>2. \A h \in Harvester : Settled(h)' = IF h = Id(r) THEN s ELSE Settled(h)
  BY <1>1, CallAnswers, SettledSet
<1>3. hmHarvesters \subseteq Harvester /\ s # Absent /\ r \in Actor
  BY HarvestAssumption DEF IInv, TypeOK, Actor
<1>4. /\ Steady
      /\ \A q \in Request : /\ Acting(q) => Acting(q)'
                            /\ \A h \in Harvester : Takes(q, h) => Takes(q, h)'
  BY CallAnswers
<1>5. PICK g \in Harvester : g = Id(r)
  BY <1>1
<1>6. /\ SetStatus(r, g, s) /\ Used(g) /\ ~Unstored(g) /\ jobs' \subseteq jobs \cup {g}
      /\ Knows(r, g)
      /\ \A h \in hmHarvesters : Settled(h)' = IF h = g THEN s ELSE Settled(h)
  BY <1>1, <1>2, <1>3, <1>5
<1>7. s \in Status \cup {Absent} /\ \A h \in Harvester : exec'[h] # "idle" => exec[h] # "idle"
  OBVIOUS
<1>8. /\ \A q \in Request :
            /\ Acting(q) => Acting(q)'
            /\ \A h \in Harvester : Takes(q, h) => Takes(q, h)' \/ (q = r /\ h = g /\ s = Absent)
      /\ r \in Request => Knows(r, g) /\ (req[r].op = "remove" => s = Absent)
      /\ s = Absent => r \in Request /\ g \notin hmHarvesters
      /\ UNCHANGED <<table, tree, born, spoiled, hmHarvesters>>
  BY <1>1, <1>3, <1>4, <1>6
<1>9. r \in Actor
  BY <1>3
<1> HIDE <1>5
<1> QED
  BY <1>4, <1>6, <1>7, <1>8, <1>9, Sets

LEMMA StartSettings ==
  ASSUME IInv, SInv, NEW r \in Request, Start(r)
  PROVE  SInv'
<1>1. /\ Calls(r, "start") /\ Answers(r) /\ SetStatus(r, Id(r), "ACTIVE")
      /\ status' = [status EXCEPT ![Id(r)] = "ACTIVE"] /\ jobs' = jobs \cup {Id(r)}
      /\ UNCHANGED <<table, tree, born, spoiled, hmHarvesters, exec>>
  BY DEF Start, Activate, ghosts
<1> QED
  BY <1>1, CallSets DEF Status

LEMMA StopSettings ==
  ASSUME IInv, SInv, NEW r \in Request, Stop(r)
  PROVE  SInv'
<1>1. /\ Calls(r, "stop") /\ Answers(r) /\ SetStatus(r, Id(r), "INACTIVE")
      /\ status' = [status EXCEPT ![Id(r)] = "INACTIVE"] /\ jobs' = jobs \ {Id(r)}
      /\ UNCHANGED <<table, tree, born, spoiled, hmHarvesters, exec>>
  BY DEF Stop, Deactivate, ghosts
<1> QED
  BY <1>1, CallSets DEF Status

LEMMA RunSettings ==
  ASSUME IInv, SInv, NEW r \in Request, Run(r)
  PROVE  SInv'
<1>1. /\ Calls(r, "run") /\ Answers(r)
      /\ UNCHANGED <<table, tree, born, spoiled, hmHarvesters, exec>>
  BY DEF Run, ghosts
<1>2. CASE Activate(r)
  BY <1>1, <1>2, CallSets DEF Activate, Status
<1>3. CASE UNCHANGED <<pend, tasks, status, jobs>>
  <2>1. \A h \in Harvester : Settled(h)' = Settled(h)
    BY <1>1, <1>3, CallAnswers, SettledStays
  <2>2. hmHarvesters \subseteq Harvester
    BY DEF IInv, TypeOK
  <2> QED
    BY <1>1, <1>3, <2>1, <2>2, CallAnswers, Frame
<1> QED
  BY <1>2, <1>3 DEF Run

LEMMA UpdateSettings ==
  ASSUME IInv, SInv, NEW r \in Request, Update(r)
  PROVE  SInv'
<1>1. /\ Calls(r, "update") /\ Answers(r) /\ SetStatus(r, Id(r), status[Id(r)])
      /\ UNCHANGED <<table, tree, born, spoiled, hmHarvesters, exec, status>>
      /\ jobs' \subseteq jobs \cup {Id(r)}
  BY DEF Update, ghosts, memory
<1>2. Id(r) \in Harvester
  BY <1>1, CallKnows
<1>3. status[Id(r)] \in Status /\ status' = [status EXCEPT ![Id(r)] = status[Id(r)]]
  BY <1>1, <1>2 DEF IInv, TypeOK
<1> QED
  BY <1>1, <1>3, CallSets

LEMMA FindSettings ==
  ASSUME IInv, SInv, NEW r \in Request, Find(r) \/ FindAlone(r)
  PROVE  SInv'
<1>1. /\ req[r].ids # <<>> /\ req[r].pc = "next"
      /\ req[r].op \in {"start", "stop", "run", "invoke", "update", "remove"}
      /\ Goes(r, "called") \/ Answers(r)
  BY DEF Find, FindAlone, Does, At
<1>2. Steady /\ (\A q \in Request \ {r} : req'[q] = req[q]) /\ req'[r].pc \in {"called", "next"}
  BY <1>1, AnswersSteady, GoesSteady DEF Pcs
<1>3. \A q \in Request : /\ Acting(q) => Acting(q)'
                         /\ \A h \in Harvester : Takes(q, h) => Takes(q, h)'
  BY <1>1, <1>2, OthersStay DEF Acting, Takes
<1>4. /\ UNCHANGED <<table, tree, pend, tasks, born, spoiled, jobs, exec, hmHarvesters, status>>
      /\ hmHarvesters \subseteq Harvester
  BY DEF Find, FindAlone, memory, quartz, settings, ghosts, IInv, TypeOK
<1>5. \A h \in Harvester : Settled(h)' = Settled(h)
  BY <1>1, <1>2, <1>4, SettledStays
<1> QED
  BY <1>2, <1>3, <1>4, <1>5, Frame

-----------------------------------------------------------------------------
(* invoke() *)

LEMMA InvokeBeginSettings ==
  ASSUME IInv, SInv, NEW r \in Request, InvokeBegin(r)
  PROVE  SInv'
<1>1. /\ Calls(r, "invoke") /\ status[Id(r)] = "INACTIVE" /\ Goes(r, "invoking")
      /\ status' = [status EXCEPT ![Id(r)] = "ACTIVE"]
      /\ UNCHANGED <<hmHarvesters, table, tree, pend, tasks, born, spoiled, jobs, exec>>
  BY DEF InvokeBegin, quartz, settings
<1>2. /\ Id(r) \in Harvester /\ monitor[Id(r)] = NoOne
      /\ req[r].pc = "called" /\ req[r].op = "invoke" /\ req[r].ids # <<>>
  BY <1>1, CallKnows
<1>3. /\ Steady /\ (\A q \in Request \ {r} : req'[q] = req[q])
      /\ req'[r].pc = "invoking" /\ req'[r].ids = req[r].ids
  BY <1>1, <1>2, GoesSteady DEF Pcs
<1>4. \A q \in Request : /\ Acting(q) => Acting(q)'
                         /\ \A h \in Harvester : Takes(q, h) => Takes(q, h)'
  BY <1>2, <1>3, OthersStay DEF Acting, Takes
<1>5. Invoking(Id(r))' /\ ~Invoking(Id(r))
  BY <1>2, <1>3, Uninvoked DEF Invoking, At, Id
<1>6. ASSUME NEW h \in Harvester PROVE Settled(h)' = Settled(h)
  <2>1. CASE h = Id(r)
    <3>1. Invoking(h)' /\ ~Invoking(h) /\ status[h] = "INACTIVE"
      <4>1. Invoking(h)'
        BY <1>2, <1>3, <2>1 DEF Invoking, At, Id
      <4> QED
        BY <1>1, <1>5, <2>1, <4>1
    <3> QED
      BY <3>1 DEF Settled
  <2>2. CASE h # Id(r)
    <3>1. status'[h] = status[h]
      BY <1>1, <2>2 DEF IInv, TypeOK
    <3>2. Invoking(h)' <=> Invoking(h)
      BY <1>2, <1>3, <2>2 DEF Invoking, At, Id
    <3> QED
      BY <3>1, <3>2 DEF Settled
  <2> QED
    BY <2>1, <2>2
<1>7. hmHarvesters \subseteq Harvester
  BY DEF IInv, TypeOK
<1> QED
  BY <1>1, <1>3, <1>4, <1>6, <1>7, Frame

LEMMA InvokeEndSettings ==
  ASSUME IInv, SInv, NEW r \in Request, InvokeEnd(r)
  PROVE  SInv'
<1>1. /\ req[r].pc = "invoking" /\ req[r].ids # <<>> /\ Answers(r)
      /\ status' = [status EXCEPT ![Id(r)] = "INACTIVE"]
      /\ UNCHANGED <<hmHarvesters, table, tree, pend, tasks, born, spoiled, jobs, exec>>
  BY DEF InvokeEnd, At, quartz, settings, ghosts
<1>2. Id(r) \in Harvester
  BY <1>1, NextId
<1>3. /\ Steady /\ (\A q \in Request \ {r} : req'[q] = req[q]) /\ req'[r].pc = "next"
  BY <1>1, AnswersSteady
<1>4. \A q \in Request : /\ Acting(q) => Acting(q)'
                         /\ \A h \in Harvester : Takes(q, h) => Takes(q, h)'
  BY <1>1, <1>3, OthersStay DEF Acting, Takes
<1>5. ASSUME NEW h \in Harvester PROVE Settled(h)' = Settled(h)
  <2>1. CASE h = Id(r)
    <3>1. Invoking(h)
      BY <1>1, <2>1 DEF Invoking, At
    <3>2. status'[h] = "INACTIVE"
      BY <1>1, <2>1 DEF IInv, TypeOK
    <3> QED
      BY <3>1, <3>2 DEF Settled
  <2>2. CASE h # Id(r)
    <3>1. status'[h] = status[h]
      BY <1>1, <2>2 DEF IInv, TypeOK
    <3>2. Invoking(h)' <=> Invoking(h)
      BY <1>1, <1>3, <2>2 DEF Invoking, At, Id
    <3> QED
      BY <3>1, <3>2 DEF Settled
  <2> QED
    BY <2>1, <2>2
<1>6. hmHarvesters \subseteq Harvester
  BY DEF IInv, TypeOK
<1> QED
  BY <1>1, <1>3, <1>4, <1>5, <1>6, Frame

-----------------------------------------------------------------------------
(* Removals *)

LEMMA DestroyBeginSettings ==
  ASSUME IInv, SInv, NEW r \in Request, DestroyBegin(r)
  PROVE  SInv'
<1>1. /\ Calls(r, "remove") /\ Goes(r, "destroying") /\ jobs' \subseteq jobs
      /\ UNCHANGED <<hmHarvesters, status, table, tree, pend, tasks, born, spoiled, exec>>
  BY DEF DestroyBegin, memory, settings
<1>2. req[r].pc = "called" /\ req[r].op = "remove"
  BY <1>1, CallKnows
<1>3. /\ Steady /\ (\A q \in Request \ {r} : req'[q] = req[q]) /\ req'[r].pc = "destroying"
  BY <1>1, <1>2, GoesSteady DEF Pcs
<1>4. \A q \in Request : /\ Acting(q) => Acting(q)'
                         /\ \A h \in Harvester : Takes(q, h) => Takes(q, h)'
  BY <1>2, <1>3, OthersStay DEF Acting, Takes
<1>5. \A h \in Harvester : Settled(h)' = Settled(h)
  BY <1>1, <1>2, <1>3, SettledStays
<1>6. hmHarvesters \subseteq Harvester
  BY DEF IInv, TypeOK
<1> QED
  BY <1>1, <1>3, <1>4, <1>5, <1>6, Frame

LEMMA DestroyEndSettings ==
  ASSUME IInv, SInv, NEW r \in Request, DestroyEnd(r)
  PROVE  SInv'
<1>1. /\ req[r].pc = "destroying" /\ req[r].ids # <<>> /\ Goes(r, "removing")
      /\ hmHarvesters' = hmHarvesters \ {Id(r)}
      /\ UNCHANGED <<status, table, tree, pend, tasks, born, spoiled, jobs, exec>>
  BY DEF DestroyEnd, At, quartz, settings, ghosts
<1>2. Id(r) \in Harvester /\ Id(r) \in req[r].named /\ req[r].op = "remove"
  BY <1>1, NextId DEF IInv, OpsFit
<1>3. /\ Steady /\ (\A q \in Request \ {r} : req'[q] = req[q])
      /\ req'[r].pc = "removing" /\ req'[r].ids = req[r].ids
      /\ req'[r].op = req[r].op /\ req'[r].named = req[r].named
  BY <1>1, <1>2, GoesSteady DEF Pcs
<1>4. \A q \in Request : /\ Acting(q) => Acting(q)'
                         /\ \A h \in Harvester : Takes(q, h) => Takes(q, h)'
  BY <1>1, <1>3, OthersStay DEF Acting, Takes
<1>5. \A h \in Harvester : Settled(h)' = Settled(h)
  BY <1>1, <1>3, SettledStays
<1>6. \A h \in hmHarvesters \ hmHarvesters' : Removes(r, h)' /\ Takes(r, h)'
  BY <1>1, <1>2, <1>3 DEF Removes, Takes, Acting, Id
<1>7. hmHarvesters \subseteq Harvester /\ hmHarvesters' \subseteq hmHarvesters
  BY <1>1 DEF IInv, TypeOK
<1> QED
  BY <1>1, <1>3, <1>4, <1>5, <1>6, <1>7, Frame

LEMMA RemoveEntrySettings ==
  ASSUME IInv, SInv, NEW r \in Request, RemoveEntry(r)
  PROVE  SInv'
<1>1. /\ req[r].pc = "removing" /\ req[r].ids # <<>> /\ Answers(r)
      /\ SetStatus(r, Id(r), Absent)
      /\ UNCHANGED <<status, table, tree, born, spoiled, hmHarvesters, jobs, exec>>
  BY DEF RemoveEntry, At, memory, quartz, ghosts
<1>2. PICK g \in Harvester : g = Id(r)
  BY <1>1, NextId
<1>3. /\ Knows(r, g) /\ req[r].op = "remove" /\ Used(g) /\ ~Unstored(g)
      /\ g \notin hmHarvesters
  <2>1. Knows(r, g) /\ req[r].op = "remove"
    BY <1>1, <1>2, CallerKnows DEF Midway, IInv, OpsFit
  <2>2. g \notin hmHarvesters
    BY <1>1, <1>2, <2>1 DEF IInv, TakenOut, Removing, Found
  <2> QED
    BY <2>1, <2>2 DEF Used, SInv, Unborn
<1>4. /\ Steady /\ (\A q \in Request \ {r} : req'[q] = req[q]) /\ req'[r].pc = "next"
  BY <1>1, AnswersSteady
<1>5. \A q \in Request :
        /\ Acting(q) => Acting(q)'
        /\ \A h \in Harvester : Takes(q, h) => Takes(q, h)' \/ (q = r /\ h = g /\ Absent = Absent)
  <2> TAKE q \in Request
  <2>1. CASE q = r
    BY <1>1, <1>2, <1>4, <2>1 DEF Acting, Takes
  <2>2. CASE q # r
    BY <1>4, <2>2 DEF Acting, Takes, Id
  <2> QED
    BY <2>1, <2>2
<1>6. \A h \in Harvester : Settled(h)' = Settled(h)
  BY <1>1, <1>4, SettledStays
<1>7. /\ r \in Actor /\ hmHarvesters \subseteq Harvester /\ Absent \in Status \cup {Absent}
      /\ SetStatus(r, g, Absent)
      /\ \A h \in hmHarvesters : Settled(h)' = IF h = g THEN Absent ELSE Settled(h)
  BY <1>1, <1>2, <1>3, <1>6 DEF Actor, IInv, TypeOK
<1> QED
  BY <1>1, <1>3, <1>4, <1>5, <1>7, Sets

LEMMA FailSettings ==
  ASSUME IInv, SInv, NEW r \in Request, Fail(r)
  PROVE  SInv'
<1>1. /\ req[r].pc \in {"called", "destroying", "removing"} /\ Goes(r, "failed")
      /\ UNCHANGED <<hmHarvesters, status, jobs, exec, table, tree, pend, tasks, born, spoiled>>
  BY DEF Fail, Does, At, memory, quartz, settings, ghosts
<1>2. req[r].op # "add"
  BY <1>1 DEF SInv, NamesFit, Midway
<1>3. /\ Steady /\ (\A q \in Request \ {r} : req'[q] = req[q]) /\ req'[r].pc = "failed"
  BY <1>1, <1>2, GoesSteady DEF Pcs
<1>4. \A q \in Request : /\ Acting(q) => Acting(q)'
                         /\ \A h \in Harvester : Takes(q, h) => Takes(q, h)'
  BY <1>1, <1>3, OthersStay DEF Acting, Takes
<1>5. \A h \in Harvester : Settled(h)' = Settled(h)
  BY <1>1, <1>3, SettledStays
<1>6. hmHarvesters \subseteq Harvester
  BY DEF IInv, TypeOK
<1> QED
  BY <1>1, <1>3, <1>4, <1>5, <1>6, Frame

-----------------------------------------------------------------------------
(* Jobs *)

\* Requests do not notice what a job does
LEMMA JobFrame ==
  ASSUME IInv, SInv,
         UNCHANGED <<req, hmHarvesters, status, table, tree, pend, tasks, born, spoiled, jobs>>,
         \A h \in Harvester : exec'[h] # "idle" => exec[h] # "idle" \/ h \in jobs
  PROVE  SInv'
<1>1. \A q \in Request : /\ Acting(q) => Acting(q)'
                         /\ \A h \in Harvester : Takes(q, h) => Takes(q, h)'
  BY DEF Acting, Takes, Id
<1>2. \A h \in Harvester : Settled(h)' = Settled(h)
  BY SettledStays
<1>3. hmHarvesters \subseteq Harvester
  BY DEF IInv, TypeOK
<1> QED
  BY <1>1, <1>2, <1>3, StillSteady, Frame

LEMMA JobMoves ==
  ASSUME IInv, SInv, NEW h \in Harvester,
         Fire(h) \/ Align(h) \/ Harvested(h) \/ HarvestFails(h) \/ RecordHistory(h)
  PROVE  SInv'
<1>1. exec \in [Harvester -> Execs]
  BY DEF IInv, TypeOK
<1>2. CASE Fire(h)
  <2>1. \A g \in Harvester : exec'[g] # "idle" => exec[g] # "idle" \/ g \in jobs
    BY <1>1, <1>2 DEF Fire
  <2> QED
    BY <1>2, <2>1, JobFrame DEF Fire, settings, ghosts
<1>3. CASE Align(h)
  BY <1>3, JobFrame DEF Align, memory, quartz, settings, ghosts
<1>4. CASE Harvested(h) \/ HarvestFails(h)
  <2>1. \A g \in Harvester : exec'[g] # "idle" => exec[g] # "idle"
    BY <1>1, <1>4 DEF Harvested, HarvestFails
  <2> QED
    BY <1>4, <2>1, JobFrame DEF Harvested, HarvestFails, memory, settings, ghosts
<1>5. CASE RecordHistory(h)
  <2>1. \A g \in Harvester : exec'[g] # "idle" => exec[g] # "idle"
    BY <1>1, <1>5 DEF RecordHistory
  <2> QED
    BY <1>5, <2>1, JobFrame DEF RecordHistory, settings, ghosts
<1> QED
  BY <1>2, <1>3, <1>4, <1>5

LEMMA StopItselfSettings ==
  ASSUME IInv, SInv, NEW g \in Harvester, StopItself(g)
  PROVE  SInv'
<1>1. /\ exec[g] = "stopping" /\ monitor[g] = NoOne /\ exec' = [exec EXCEPT ![g] = "closing"]
      /\ UNCHANGED <<hmHarvesters, table, tree, req, born, spoiled>>
  BY DEF StopItself, ghosts
<1>2. \A h \in Harvester : exec'[h] # "idle" => exec[h] # "idle"
  BY <1>1 DEF IInv, TypeOK
<1>3. CASE Deactivate(g, g)
  <2>1. /\ SetStatus(g, g, "INACTIVE") /\ jobs' \subseteq jobs \cup {g}
        /\ status' = [status EXCEPT ![g] = "INACTIVE"]
    BY <1>3 DEF Deactivate
  <2>2. /\ "INACTIVE" \in Status \cup {Absent} /\ "INACTIVE" # Absent
        /\ g \in Actor /\ g \notin Request /\ hmHarvesters \subseteq Harvester
    BY HarvestAssumption DEF Status, Actor, IInv, TypeOK
  <2>3. \A h \in Harvester : Settled(h)' = IF h = g THEN "INACTIVE" ELSE Settled(h)
    BY <1>1, <2>1, SettledSet DEF Status
  <2>4. Used(g) /\ ~Unstored(g)
    BY <1>1 DEF Used, SInv, Unborn
  <2>5. \A q \in Request :
          /\ Acting(q) => Acting(q)'
          /\ \A h \in Harvester :
               Takes(q, h) => Takes(q, h)' \/ (q = g /\ h = g /\ "INACTIVE" = Absent)
    BY <1>1 DEF Acting, Takes, Id
  <2> QED
    BY <1>1, <1>2, <2>1, <2>2, <2>3, <2>4, <2>5, StillSteady, Sets
<1>4. CASE UNCHANGED <<pend, tasks, jobs, status>>
  BY <1>1, <1>2, <1>4, JobFrame
<1> QED
  BY <1>3, <1>4 DEF StopItself

-----------------------------------------------------------------------------
(* Commits and rollbacks *)

LEMMA Forgets ==
  ASSUME IInv, NEW x \in Actor, pend' = [pend EXCEPT ![x] = Nothing]
  PROVE  \A y \in Actor : \A h \in Harvester :
           pend'[y][h] = IF y = x THEN Unset ELSE pend[y][h]
BY DEF IInv, TypeOK, Nothing

LEMMA ForgetsTasks ==
  ASSUME IInv, NEW x \in Actor, tasks' = [tasks EXCEPT ![x] = Nothing]
  PROVE  \A y \in Actor : \A h \in Harvester :
           tasks'[y][h] = IF y = x THEN Unset ELSE tasks[y][h]
BY DEF IInv, TypeOK, Nothing

\* The commit inside destroy() changes the rows of removed harvesters only
LEMMA DestroyRecordSettings ==
  ASSUME IInv, SInv, NEW r \in Request, DestroyRecord(r)
  PROVE  SInv'
<1>1. /\ req[r].pc = "destroying" /\ CommitRows(r)
      /\ UNCHANGED <<hmHarvesters, status, jobs, exec, tree, tasks, req, born, spoiled>>
  BY DEF DestroyRecord, At, memory, quartz, ghosts
<1>2. r \in Actor /\ hmHarvesters \subseteq Harvester /\ req[r].op = "remove"
  BY <1>1 DEF Actor, IInv, TypeOK, OpsFit
<1>3. /\ \A y \in Actor : \A h \in Harvester :
           pend'[y][h] = IF y = r THEN Unset ELSE pend[y][h]
      /\ \A h \in Harvester : table'[h] = IF pend[r][h] # Unset THEN pend[r][h] ELSE table[h]
  BY <1>1, <1>2, Forgets DEF CommitRows, Seen
<1>4. \A h \in hmHarvesters : /\ table'[h] = table[h]
                              /\ \A y \in Actor : pend'[y][h] = pend[y][h]
  BY <1>2, <1>3 DEF SInv, NamesFit, Wrote
<1>5. /\ \A h \in Harvester : /\ Settled(h)' = Settled(h) /\ (Used(h)' <=> Used(h))
                              /\ Unstored(h)' <=> Unstored(h)
      /\ \A q \in Request : \A h \in Harvester :
           (Removes(q, h)' <=> Removes(q, h)) /\ (Takes(q, h)' <=> Takes(q, h))
           /\ (Knows(q, h)' <=> Knows(q, h))
      /\ \A y \in Actor : Adds(y)' <=> Adds(y)
  BY <1>1 DEF Settled, Invoking, At, Id, Used, Knows, Unstored, Adding, Removes, Acting, Takes, Adds
<1>6. NamesFit'
  <2>1. Request \subseteq Actor
    BY DEF Actor
  <2> QED
    BY <1>1, <1>2, <1>3, <2>1 DEF SInv, NamesFit, Wrote
<1>7. SoleWriter'
  BY <1>3 DEF SInv, SoleWriter, Wrote
<1>8. Together'
  BY <1>1, <1>4, <1>5 DEF SInv, Together, Wrote, IInv, TypeOK
<1>9. Unborn'
  BY <1>1, <1>2, <1>3, <1>5 DEF SInv, Unborn
<1>10. AddsPending'
  BY <1>1, <1>5 DEF SInv, AddsPending, Actor
<1>11. Follows'
  BY <1>1, <1>2, <1>4, <1>5 DEF SInv, Follows, Wrote
<1>12. Leaving'
  BY <1>1, <1>5 DEF SInv, Leaving
<1> QED
  BY <1>6, <1>7, <1>8, <1>9, <1>10, <1>11, <1>12 DEF SInv

LEMMA Commits ==
  ASSUME IInv, SInv, NEW x \in Actor, CommitAndFlush(x), Steady,
         UNCHANGED <<hmHarvesters, status, born, spoiled, jobs>>,
         \A h \in Harvester : exec'[h] # "idle" => exec[h] # "idle",
         \A q \in Request : q # x =>
            /\ Acting(q) => Acting(q)'
            /\ \A h \in Harvester : Takes(q, h) => Takes(q, h)',
         x \in Request => \A h \in Harvester : ~Takes(x, h),
         \A h \in Harvester : Settled(h)' = Settled(h)
  PROVE  SInv'
<1>1. Request \subseteq Actor /\ hmHarvesters \subseteq Harvester
  BY DEF Actor, IInv, TypeOK
<1>2. /\ \A y \in Actor : \A h \in Harvester :
           /\ pend'[y][h] = IF y = x THEN Unset ELSE pend[y][h]
           /\ tasks'[y][h] = IF y = x THEN Unset ELSE tasks[y][h]
      /\ \A h \in Harvester :
           /\ table'[h] = IF pend[x][h] # Unset THEN pend[x][h] ELSE table[h]
           /\ tree'[h] = IF tasks[x][h] = Unset \/ (tree[h] = Absent /\ ~Adds(x))
                         THEN tree[h] ELSE tasks[x][h]
  BY Forgets, ForgetsTasks DEF CommitAndFlush, CommitRows, Seen
<1>3. /\ \A y \in Actor : Adds(y)' <=> Adds(y)
      /\ \A q \in Request : \A h \in Harvester : Knows(q, h)' <=> Knows(q, h)
      /\ \A h \in Harvester : Used(h)' => Used(h)
  BY DEF Steady, Adds, Knows, Used
<1>4. \A h \in hmHarvesters :
        /\ tree'[h] = table'[h] /\ (tree'[h] = Absent => tree[h] = Absent)
        /\ pend[x][h] = tasks[x][h]
  BY <1>1, <1>2 DEF SInv, Together, Wrote
<1>5. NamesFit'
  BY <1>1, <1>2 DEF SInv, NamesFit, Wrote, Steady
<1>6. SoleWriter'
  BY <1>2 DEF SInv, SoleWriter, Wrote
<1>7. Together'
  <2> SUFFICES ASSUME NEW h \in hmHarvesters
               PROVE  /\ tree'[h] = table'[h]
                      /\ \A y \in Actor :
                           /\ tasks'[y][h] = pend'[y][h] /\ pend'[y][h] # Absent
                           /\ tree'[h] = Absent /\ pend'[y][h] # Unset => Adds(y)
                      /\ Used(h)' => tree'[h] # Absent
    BY <1>3 DEF Together, Wrote
  <2>1. /\ \A y \in Actor : /\ tasks[y][h] = pend[y][h] /\ pend[y][h] # Absent
                            /\ tree[h] = Absent /\ pend[y][h] # Unset => Adds(y)
        /\ Used(h) => tree[h] # Absent
    BY DEF SInv, Together, Wrote
  <2> QED
    BY <1>1, <1>2, <1>3, <1>4, <2>1, HarvestAssumption
<1>8. Unborn'
  <2> SUFFICES ASSUME NEW h \in Harvester, Unstored(h)
               PROVE  /\ tree'[h] = Absent /\ table'[h] = Absent /\ exec'[h] = "idle"
                      /\ \A y \in Actor : pend'[y][h] = Unset /\ tasks'[y][h] = Unset
                      /\ \A q \in Request : ~Knows(q, h)
    BY <1>3 DEF Unborn, Unstored, Steady
  <2> QED
    BY <1>2 DEF SInv, Unborn
<1>9. AddsPending'
  <2> SUFFICES ASSUME NEW r \in Request, NEW h \in Harvester, Adds(r), tasks'[r][h] # Unset
               PROVE  h \in hmHarvesters /\ tree'[h] = Absent
    BY <1>1, <1>3 DEF AddsPending
  <2>1. r # x /\ tasks[r][h] # Unset
    BY <1>1, <1>2
  <2>2. h \in hmHarvesters /\ tree[h] = Absent
    BY <2>1 DEF SInv, AddsPending
  <2>3. Wrote(r, h) /\ r \in Actor
    BY <1>1, <2>1, <2>2 DEF SInv, Together, Wrote
  <2>4. ~Wrote(x, h)
    BY <2>1, <2>3 DEF SInv, SoleWriter
  <2> QED
    BY <1>2, <1>4, <2>2, <2>4 DEF Wrote
<1>10. Follows'
  <2> SUFFICES ASSUME NEW h \in hmHarvesters \ spoiled
               PROVE  /\ \A y \in Actor : pend'[y][h] # Unset => pend'[y][h] = Settled(h)
                      /\ (\A y \in Actor : pend'[y][h] = Unset) => table'[h] = Settled(h)
    BY <1>1 DEF Follows, Wrote
  <2>1. /\ \A y \in Actor : pend[y][h] # Unset => pend[y][h] = Settled(h)
        /\ (\A y \in Actor : pend[y][h] = Unset) => table[h] = Settled(h)
    BY DEF SInv, Follows, Wrote
  <2>2. h \in Harvester
    BY <1>1
  <2> QED
    BY <1>2, <2>1, <2>2
<1>11. Leaving'
  <2> SUFFICES ASSUME NEW h \in Harvester, tree'[h] # Absent, h \notin hmHarvesters \cup spoiled
               PROVE  \E r \in Request : Removes(r, h)' /\ (Takes(r, h)' \/ tasks'[r][h] = Absent)
    BY DEF Leaving
  <2>1. tree[h] # Absent
    <3>1. CASE tree[h] = Absent
      <4>1. Adds(x) /\ tasks[x][h] # Unset /\ x \in Request
        BY <1>2, <3>1 DEF Adds
      <4> QED
        BY <4>1 DEF SInv, AddsPending
    <3> QED
      BY <3>1
  <2>2. PICK r \in Request : Removes(r, h) /\ (Takes(r, h) \/ tasks[r][h] = Absent)
    BY <2>1 DEF SInv, Leaving
  <2>3. CASE r = x
    BY <1>2, <2>1, <2>2, <2>3, HarvestAssumption
  <2>4. CASE r # x
    <3>1. Removes(r, h)'
      BY <2>2, <2>4 DEF Removes, Steady
    <3>2. Takes(r, h) => Takes(r, h)'
      BY <2>4
    <3>3. tasks'[r][h] = tasks[r][h]
      BY <1>1, <1>2, <2>4
    <3> QED
      BY <2>2, <3>1, <3>2, <3>3
  <2> QED
    BY <2>3, <2>4
<1> QED
  BY <1>5, <1>6, <1>7, <1>8, <1>9, <1>10, <1>11 DEF SInv

LEMMA CloseSettings ==
  ASSUME IInv, SInv, NEW r \in Request, Close(r)
  PROVE  SInv'
<1>1. /\ req[r].pc = "next" /\ Goes(r, "ended") /\ CommitAndFlush(r)
      /\ UNCHANGED <<hmHarvesters, status, born, spoiled, jobs, exec>>
  BY DEF Close, memory, quartz, ghosts
<1>2. /\ Steady /\ (\A q \in Request \ {r} : req'[q] = req[q]) /\ req'[r].pc = "ended"
  BY <1>1, GoesSteady DEF Pcs, Midway
<1>3. \A q \in Request : q # r => /\ Acting(q) => Acting(q)'
                                  /\ \A h \in Harvester : Takes(q, h) => Takes(q, h)'
  BY <1>2 DEF Acting, Takes, Id
<1>4. \A h \in Harvester : ~Takes(r, h)
  BY <1>1 DEF Takes
<1>5. \A h \in Harvester : Settled(h)' = Settled(h)
  BY <1>1, <1>2, SettledStays
<1>6. r \in Actor
  BY DEF Actor
<1> QED
  BY <1>1, <1>2, <1>3, <1>4, <1>5, <1>6, Commits

LEMMA CloseHarvestSettings ==
  ASSUME IInv, SInv, NEW g \in Harvester, CloseHarvest(g)
  PROVE  SInv'
<1>1. /\ exec[g] = "closing" /\ CommitAndFlush(g) /\ exec' = [exec EXCEPT ![g] = "recording"]
      /\ UNCHANGED <<hmHarvesters, status, born, spoiled, jobs, req>>
  BY DEF CloseHarvest, memory, ghosts
<1>2. \A h \in Harvester : exec'[h] # "idle" => exec[h] # "idle"
  BY <1>1 DEF IInv, TypeOK
<1>3. \A q \in Request : /\ Acting(q) => Acting(q)'
                         /\ \A h \in Harvester : Takes(q, h) => Takes(q, h)'
  BY <1>1 DEF Acting, Takes, Id
<1>4. g \in Actor /\ g \notin Request
  BY HarvestAssumption DEF Actor
<1>5. \A h \in Harvester : Settled(h)' = Settled(h)
  BY <1>1, SettledStays
<1> QED
  BY <1>1, <1>2, <1>3, <1>4, <1>5, StillSteady, Commits

LEMMA AbortSettings ==
  ASSUME IInv, SInv, NEW r \in Request, Abort(r)
  PROVE  SInv'
<1>1. /\ req[r].pc = "failed" /\ Rollback(r) /\ spoiled' = spoiled \cup req[r].named
      /\ req' = [req EXCEPT ![r].pc = "ended", ![r].ids = <<>>]
      /\ UNCHANGED <<hmHarvesters, status, jobs, exec, table, tree, born>>
  BY DEF Abort, memory, quartz
<1>2. /\ Request \subseteq Actor /\ hmHarvesters \subseteq Harvester
      /\ req \in [Request -> ReqType]
  BY DEF Actor, IInv, TypeOK, ReqType
<1>3. /\ req'[r] = [pc |-> "ended", op |-> req[r].op, ids |-> <<>>, named |-> req[r].named]
      /\ \A q \in Request \ {r} : req'[q] = req[q]
  BY <1>1, <1>2 DEF ReqType
<1>4. \A y \in Actor : \A h \in Harvester :
        /\ pend'[y][h] = IF y = r THEN Unset ELSE pend[y][h]
        /\ tasks'[y][h] = IF y = r THEN Unset ELSE tasks[y][h]
  <2>1. /\ r \in Actor
        /\ pend' = [pend EXCEPT ![r] = Nothing] /\ tasks' = [tasks EXCEPT ![r] = Nothing]
    BY <1>1, <1>2 DEF Rollback
  <2> QED
    BY <2>1, Forgets, ForgetsTasks
<1>5. /\ \A y \in Actor : Adds(y)' <=> Adds(y)
      /\ \A q \in Request : \A h \in Harvester : /\ Knows(q, h)' <=> Knows(q, h)
                                                 /\ Adding(q, h)' => Adding(q, h)
      /\ \A h \in Harvester : (Used(h)' <=> Used(h)) /\ (Unstored(h)' => Unstored(h))
  <2>1. \A q \in Request : /\ req'[q].op = req[q].op /\ req'[q].named = req[q].named
                           /\ \A h \in Harvester : Adding(q, h)' => Adding(q, h)
    BY <1>3 DEF Adding, At, Id
  <2>2. \A q \in Request : \A h \in Harvester : Knows(q, h)' <=> Knows(q, h)
    BY <2>1 DEF Knows
  <2>3. \A y \in Actor : Adds(y)' <=> Adds(y)
    BY <2>1 DEF Adds
  <2> QED
    BY <1>1, <2>1, <2>2, <2>3 DEF Used, Unstored
<1>6. \A h \in Harvester : Settled(h)' = Settled(h)
  <2>1. \A q \in Request : req[q].pc = "invoking" \/ req'[q].pc = "invoking"
                              => req'[q] = req[q]
    <3>1. req'[r].pc = "ended" /\ req[r].pc = "failed"
      BY <1>1, <1>3
    <3> QED
      BY <1>3, <3>1
  <2> QED
    BY <1>1, <2>1, SettledStays
<1>7. NamesFit'
  <2> SUFFICES ASSUME NEW q \in Request
               PROVE  /\ \A n \in DOMAIN req'[q].ids : req'[q].ids[n] \in req'[q].named
                      /\ req'[q].pc \in Midway => req'[q].op # "add"
                      /\ \A h \in Harvester : pend'[q][h] # Unset \/ tasks'[q][h] # Unset
                           => h \in req'[q].named
                      /\ req'[q].op = "remove" => \A h \in hmHarvesters : pend'[q][h] = Unset
    BY <1>1 DEF NamesFit, Wrote
  <2>1. CASE q = r
    BY <1>2, <1>3, <1>4, <2>1 DEF Midway
  <2>2. CASE q # r
    BY <1>2, <1>3, <1>4, <2>2 DEF SInv, NamesFit, Wrote
  <2> QED
    BY <2>1, <2>2
<1>8. SoleWriter'
  BY <1>4 DEF SInv, SoleWriter, Wrote
<1>9. Together'
  BY <1>1, <1>2, <1>4, <1>5, HarvestAssumption DEF SInv, Together, Wrote
<1>10. Unborn'
  BY <1>1, <1>4, <1>5 DEF SInv, Unborn
<1>11. AddsPending'
  BY <1>1, <1>2, <1>4, <1>5 DEF SInv, AddsPending
<1>12. Follows'
  <2> SUFFICES ASSUME NEW h \in hmHarvesters \ spoiled, h \notin req[r].named
               PROVE  /\ \A y \in Actor : pend'[y][h] # Unset => pend'[y][h] = Settled(h)
                      /\ (\A y \in Actor : pend'[y][h] = Unset) => table[h] = Settled(h)
    BY <1>1, <1>2, <1>6 DEF Follows, Wrote
  <2>1. /\ \A y \in Actor : pend[y][h] # Unset => pend[y][h] = Settled(h)
        /\ (\A y \in Actor : pend[y][h] = Unset) => table[h] = Settled(h)
    BY DEF SInv, Follows, Wrote
  <2>2. h \in Harvester /\ pend[r][h] = Unset
    BY <1>2 DEF SInv, NamesFit, Wrote
  <2> QED
    BY <1>4, <2>1, <2>2
<1>13. Leaving'
  <2> SUFFICES ASSUME NEW h \in Harvester, tree[h] # Absent,
                      h \notin hmHarvesters \cup spoiled, h \notin req[r].named
               PROVE  \E q \in Request : Removes(q, h)' /\ (Takes(q, h)' \/ tasks'[q][h] = Absent)
    BY <1>1 DEF Leaving
  <2>1. PICK q \in Request : Removes(q, h) /\ (Takes(q, h) \/ tasks[q][h] = Absent)
    BY DEF SInv, Leaving
  <2>2. q # r /\ req'[q] = req[q]
    BY <1>3, <2>1 DEF Removes
  <2>3. Removes(q, h)' /\ (Takes(q, h) => Takes(q, h)') /\ tasks'[q][h] = tasks[q][h]
    BY <1>2, <1>4, <2>1, <2>2 DEF Removes, Acting, Takes, Id
  <2> QED
    BY <2>1, <2>3
<1> QED
  BY <1>7, <1>8, <1>9, <1>10, <1>11, <1>12, <1>13 DEF SInv

-----------------------------------------------------------------------------
(* Requests begin and add *)

LEMMA BeginSettings ==
  ASSUME IInv, SInv, NEW r \in Request, Begin(r)
  PROVE  SInv'
<1>1. PICK op \in ListOps \cup {"add", "update", "invoke"}, ids \in Lists :
        /\ \A n \in DOMAIN ids : IF op = "add" THEN ids[n] \notin born
                                 ELSE tree[ids[n]] # Absent
        /\ req' = [req EXCEPT ![r] = [pc |-> "next", op |-> op, ids |-> ids,
                                      named |-> ToSet(ids)]]
        /\ born' = IF op = "add" THEN born \cup ToSet(ids) ELSE born
  BY DEF Begin
<1>2. /\ req[r] = Idle
      /\ UNCHANGED <<hmHarvesters, status, jobs, exec, table, tree, pend, tasks, spoiled>>
  BY DEF Begin, memory, quartz, settings
<1>3. /\ Request \subseteq Actor /\ hmHarvesters \subseteq Harvester
      /\ req \in [Request -> ReqType]
  BY DEF Actor, IInv, TypeOK, ReqType
<1>4. /\ req'[r] = [pc |-> "next", op |-> op, ids |-> ids, named |-> ToSet(ids)]
      /\ \A q \in Request \ {r} : req'[q] = req[q]
  BY <1>1, <1>3
<1>5. /\ ToSet(ids) = {ids[n] : n \in DOMAIN ids}
      /\ ids \in Seq(Harvester) /\ ids # <<>> /\ Head(ids) = ids[1] /\ 1 \in DOMAIN ids
  BY ListsType DEF ToSet
<1>6. \A h \in Harvester : pend[r][h] = Unset /\ tasks[r][h] = Unset
  BY <1>2 DEF SInv, NamesFit, Wrote, Idle
<1>7. \A h \in Harvester :
        /\ Knows(r, h)' => tree[h] # Absent
        /\ \A q \in Request \ {r} : /\ Knows(q, h)' <=> Knows(q, h)
                                    /\ Adding(q, h)' <=> Adding(q, h)
        /\ Adding(r, h)' => h \notin born /\ ~Knows(r, h)'
        /\ Unstored(h)' => Unstored(h)
  <2> TAKE h \in Harvester
  <2>1. Knows(r, h)' => tree[h] # Absent
    BY <1>1, <1>4, <1>5 DEF Knows
  <2>2. \A q \in Request \ {r} : /\ Knows(q, h)' <=> Knows(q, h)
                                 /\ Adding(q, h)' <=> Adding(q, h)
    BY <1>4 DEF Knows, Adding, At, Id
  <2>3. Adding(r, h)' => h \notin born /\ ~Knows(r, h)'
    BY <1>1, <1>4, <1>5 DEF Knows, Adding, At, Id
  <2>4. born \subseteq born'
    BY <1>1
  <2>5. Unstored(h)' => Unstored(h)
    BY <2>2, <2>3, <2>4 DEF Unstored
  <2> QED
    BY <2>1, <2>2, <2>3, <2>5
<1>8. \A y \in Actor : y # r => (Adds(y)' <=> Adds(y))
  BY <1>4 DEF Adds
<1>9. NamesFit'
  <2> SUFFICES ASSUME NEW q \in Request
               PROVE  /\ \A n \in DOMAIN req'[q].ids : req'[q].ids[n] \in req'[q].named
                      /\ req'[q].pc \in Midway => req'[q].op # "add"
                      /\ \A h \in Harvester : pend[q][h] # Unset \/ tasks[q][h] # Unset
                           => h \in req'[q].named
                      /\ req'[q].op = "remove" => \A h \in hmHarvesters : pend[q][h] = Unset
    BY <1>2 DEF NamesFit, Wrote
  <2>1. CASE q = r
    BY <1>3, <1>4, <1>5, <1>6, <2>1 DEF Midway
  <2>2. CASE q # r
    BY <1>4, <2>2 DEF SInv, NamesFit, Wrote
  <2> QED
    BY <2>1, <2>2
<1>10. SoleWriter'
  BY <1>2 DEF SInv, SoleWriter, Wrote
<1>11. Together'
  <2> SUFFICES ASSUME NEW h \in hmHarvesters
               PROVE  /\ tree[h] = table[h]
                      /\ \A x \in Actor : /\ tasks[x][h] = pend[x][h] /\ pend[x][h] # Absent
                                          /\ tree[h] = Absent /\ pend[x][h] # Unset => Adds(x)'
                      /\ Used(h)' => tree[h] # Absent
    BY <1>2 DEF Together, Wrote
  <2>1. /\ tree[h] = table[h]
        /\ \A x \in Actor : /\ tasks[x][h] = pend[x][h] /\ pend[x][h] # Absent
                            /\ tree[h] = Absent /\ pend[x][h] # Unset => Adds(x)
        /\ Used(h) => tree[h] # Absent
    BY DEF SInv, Together, Wrote
  <2>2. Used(h)' => tree[h] # Absent
    BY <1>2, <1>3, <1>7, <2>1 DEF Used
  <2> QED
    BY <1>3, <1>6, <1>8, <2>1, <2>2
<1>12. Unborn'
  <2> SUFFICES ASSUME NEW h \in Harvester, Unstored(h)
               PROVE  /\ tree[h] = Absent /\ table[h] = Absent /\ exec[h] = "idle"
                      /\ \A x \in Actor : pend[x][h] = Unset /\ tasks[x][h] = Unset
                      /\ \A q \in Request : ~Knows(q, h)'
    BY <1>2, <1>7 DEF Unborn
  <2>1. /\ tree[h] = Absent /\ table[h] = Absent /\ exec[h] = "idle"
        /\ \A x \in Actor : pend[x][h] = Unset /\ tasks[x][h] = Unset
        /\ \A q \in Request : ~Knows(q, h)
    BY DEF SInv, Unborn
  <2> QED
    BY <1>7, <2>1
<1>13. AddsPending'
  BY <1>2, <1>3, <1>6, <1>8 DEF SInv, AddsPending
<1>14. Follows'
  <2>1. \A h \in Harvester : Settled(h)' = Settled(h)
    BY <1>2, <1>4, SettledStays DEF Idle
  <2> QED
    BY <1>2, <1>3, <2>1 DEF SInv, Follows, Wrote
<1>15. Leaving'
  <2> SUFFICES ASSUME NEW h \in Harvester, tree[h] # Absent, h \notin hmHarvesters \cup spoiled
               PROVE  \E q \in Request : Removes(q, h)' /\ (Takes(q, h)' \/ tasks[q][h] = Absent)
    BY <1>2 DEF Leaving
  <2>1. PICK q \in Request : Removes(q, h) /\ (Takes(q, h) \/ tasks[q][h] = Absent)
    BY DEF SInv, Leaving
  <2>2. q # r
    BY <1>2, <2>1 DEF Removes, Acting, Idle
  <2>3. Removes(q, h)' /\ (Takes(q, h) => Takes(q, h)')
    BY <1>4, <2>1, <2>2 DEF Removes, Acting, Takes, Id
  <2> QED
    BY <2>1, <2>3
<1> QED
  BY <1>9, <1>10, <1>11, <1>12, <1>13, <1>14, <1>15 DEF SInv

LEMMA AddSettings ==
  ASSUME IInv, SInv, NEW r \in Request, Add(r)
  PROVE  SInv'
<1>1. PICK new : new = Id(r)
  OBVIOUS
<1>2. /\ req[r].pc = "next" /\ req[r].op = "add" /\ req[r].ids # <<>> /\ Answers(r)
      /\ pend' = [pend EXCEPT ![r][new] = "INACTIVE"]
      /\ tasks' = [tasks EXCEPT ![r][new] = "INACTIVE"]
      /\ status' = [status EXCEPT ![new] = "INACTIVE"]
      /\ hmHarvesters' = hmHarvesters \cup {new}
      /\ UNCHANGED <<jobs, exec, table, tree, born, spoiled>>
  BY <1>1 DEF Add, Does, At, quartz, ghosts
<1>3. new \in Harvester /\ new \in req[r].named /\ Adding(r, new)
  BY <1>1, <1>2, NextId DEF Adding, At
<1>4. /\ Steady /\ (\A q \in Request \ {r} : req'[q] = req[q]) /\ req'[r].pc = "next"
      /\ \A h \in Harvester : ~Adding(r, h)'
  BY <1>2, AnswersSteady, AnswersFacts DEF IInv
<1>5. /\ Request \subseteq Actor /\ hmHarvesters \subseteq Harvester /\ r \in Actor
  BY DEF Actor, IInv, TypeOK
<1>6. /\ \A y \in Actor : \A h \in Harvester : y # r \/ h # new =>
           pend'[y][h] = pend[y][h] /\ tasks'[y][h] = tasks[y][h]
      /\ pend'[r][new] = "INACTIVE" /\ tasks'[r][new] = "INACTIVE"
      /\ status'[new] = "INACTIVE"
      /\ \A h \in Harvester : h # new => status'[h] = status[h]
  BY <1>2, <1>3, <1>5 DEF IInv, TypeOK
<1>7. /\ tree[new] = Absent /\ table[new] = Absent /\ exec[new] = "idle" /\ new \notin jobs
      /\ \A x \in Actor : pend[x][new] = Unset /\ tasks[x][new] = Unset
      /\ \A q \in Request : ~Knows(q, new) /\ (q # r => ~Adding(q, new))
      /\ new \in born
  BY <1>3 DEF SInv, Unborn, Unstored, IInv, Fresh, BornFirst
<1>8. /\ \A y \in Actor : Adds(y)' <=> Adds(y)
      /\ \A q \in Request : \A h \in Harvester : Knows(q, h)' <=> Knows(q, h)
      /\ \A h \in Harvester : Used(h)' <=> Used(h)
      /\ \A h \in Harvester : Unstored(h)' => Unstored(h) /\ h # new
      /\ "INACTIVE" # Unset /\ "INACTIVE" # Absent
  <2>1. "INACTIVE" # Unset /\ "INACTIVE" # Absent
    BY HarvestAssumption DEF Status
  <2>2. \A h \in Harvester : Unstored(h)' => Unstored(h) /\ h # new
    BY <1>2, <1>4, <1>7 DEF Unstored, Steady
  <2> QED
    BY <1>2, <1>4, <2>1, <2>2 DEF Adds, Knows, Used, Steady
<1>9. NamesFit'
  <2> SUFFICES ASSUME NEW q \in Request
               PROVE  /\ \A h \in Harvester : pend'[q][h] # Unset \/ tasks'[q][h] # Unset
                           => h \in req[q].named
                      /\ req[q].op = "remove" => \A h \in hmHarvesters' : pend'[q][h] = Unset
    BY <1>4 DEF NamesFit, Steady, Wrote
  <2>1. /\ \A h \in Harvester : pend[q][h] # Unset \/ tasks[q][h] # Unset => h \in req[q].named
        /\ req[q].op = "remove" => \A h \in hmHarvesters : pend[q][h] = Unset
    BY DEF SInv, NamesFit, Wrote
  <2>2. CASE q = r
    BY <1>2, <1>3, <1>5, <1>6, <2>1, <2>2
  <2>3. CASE q # r
    BY <1>2, <1>3, <1>5, <1>6, <1>7, <2>1, <2>3
  <2> QED
    BY <2>2, <2>3
<1>10. SoleWriter'
  BY <1>6, <1>7 DEF SInv, SoleWriter, Wrote
<1>11. Together'
  <2> SUFFICES ASSUME NEW h \in hmHarvesters'
               PROVE  /\ tree[h] = table[h]
                      /\ \A x \in Actor : /\ tasks'[x][h] = pend'[x][h] /\ pend'[x][h] # Absent
                                          /\ tree[h] = Absent /\ pend'[x][h] # Unset => Adds(x)
                      /\ Used(h) => tree[h] # Absent
    BY <1>2, <1>3, <1>5, <1>8 DEF Together, Wrote
  <2>1. CASE h = new
    <3>1. Adds(r) /\ ~Used(new) /\ Absent # Unset
      BY <1>2, <1>7, HarvestAssumption DEF Adds, Used
    <3>2. ASSUME NEW x \in Actor
          PROVE  /\ tasks'[x][new] = pend'[x][new] /\ pend'[x][new] # Absent
                 /\ pend'[x][new] # Unset => Adds(x)
      <4>1. CASE x = r
        BY <1>6, <1>8, <3>1, <4>1
      <4>2. CASE x # r
        BY <1>3, <1>6, <1>7, <3>1, <4>2
      <4> QED
        BY <4>1, <4>2
    <3> QED
      BY <1>7, <2>1, <3>1, <3>2
  <2>2. CASE h # new
    BY <1>2, <1>5, <1>6, <2>2 DEF SInv, Together, Wrote
  <2> QED
    BY <2>1, <2>2
<1>12. Unborn'
  BY <1>2, <1>6, <1>8 DEF SInv, Unborn
<1>13. AddsPending'
  BY <1>2, <1>5, <1>6, <1>7, <1>8 DEF SInv, AddsPending
<1>14. Follows'
  <2>1. \A h \in Harvester : Invoking(h)' <=> Invoking(h)
    BY <1>2, <1>4, SameInvokers
  <2>2. \A h \in Harvester : Settled(h)' = IF h = new THEN "INACTIVE" ELSE Settled(h)
    BY <1>6, <2>1 DEF Settled
  <2>3. \A h \in hmHarvesters' : h = new \/ h \in hmHarvesters
    BY <1>2
  <2> SUFFICES ASSUME NEW h \in hmHarvesters' \ spoiled
               PROVE  /\ \A x \in Actor : pend'[x][h] # Unset => pend'[x][h] = Settled(h)'
                      /\ (\A x \in Actor : pend'[x][h] = Unset) => table[h] = Settled(h)'
    BY <1>2 DEF Follows, Wrote
  <2>4. CASE h = new
    BY <1>3, <1>5, <1>6, <1>7, <1>8, <2>2, <2>4
  <2>5. CASE h # new
    <3>1. h \in hmHarvesters \ spoiled /\ h \in Harvester
      BY <1>5, <2>3, <2>5
    <3> QED
      BY <1>6, <2>2, <2>5, <3>1 DEF SInv, Follows, Wrote
  <2> QED
    BY <2>4, <2>5
<1>15. Leaving'
  <2> SUFFICES ASSUME NEW h \in Harvester, tree[h] # Absent, h \notin hmHarvesters \cup spoiled
               PROVE  \E q \in Request : Removes(q, h)' /\ (Takes(q, h)' \/ tasks'[q][h] = Absent)
    BY <1>2 DEF Leaving
  <2>1. PICK q \in Request : Removes(q, h) /\ (Takes(q, h) \/ tasks[q][h] = Absent)
    BY DEF SInv, Leaving
  <2>2. q # r
    BY <1>2, <2>1 DEF Removes
  <2>3. Removes(q, h)' /\ (Takes(q, h) => Takes(q, h)') /\ tasks'[q][h] = tasks[q][h]
    BY <1>4, <1>5, <1>6, <2>1, <2>2 DEF Removes, Acting, Takes, Id
  <2> QED
    BY <2>1, <2>3
<1> QED
  BY <1>9, <1>10, <1>11, <1>12, <1>13, <1>14, <1>15 DEF SInv

-----------------------------------------------------------------------------
(* Restarts *)

LEMMA RestartSettings ==
  ASSUME IInv, SInv, Restart
  PROVE  SInv'
<1>1. /\ tree' = table
      /\ hmHarvesters' = {h \in Harvester : table[h] # Absent}
      /\ status' = [h \in Harvester |-> IF table[h] = Absent THEN "INACTIVE" ELSE table[h]]
      /\ jobs' = {h \in Harvester : table[h] = "ACTIVE"}
      /\ exec' = [h \in Harvester |-> "idle"]
      /\ pend' = [x \in Actor |-> Nothing] /\ tasks' = [x \in Actor |-> Nothing]
      /\ UNCHANGED <<table, born>>
  BY DEF Restart
<1>2. \A x \in Actor : \A h \in Harvester : pend'[x][h] = Unset /\ tasks'[x][h] = Unset
  BY <1>1 DEF Nothing
<1>3. \A r \in Request : /\ req'[r].pc \in {"idle", "ended"} /\ req'[r].ids = <<>>
                         /\ req'[r].op = req[r].op /\ req'[r].named = req[r].named
  <2> TAKE r \in Request
  <2>1. req[r] \in ReqType
    BY DEF IInv, TypeOK, ReqType
  <2>2. req'[r] = IF req[r] = Idle THEN Idle
                  ELSE [req[r] EXCEPT !.pc = "ended", !.ids = <<>>]
    BY DEF Restart
  <2>3. CASE req[r] = Idle
    BY <2>2, <2>3 DEF Idle
  <2>4. CASE req[r] # Idle
    <3>1. req'[r] = [pc |-> "ended", op |-> req[r].op, ids |-> <<>>, named |-> req[r].named]
      BY <2>1, <2>2, <2>4 DEF ReqType
    <3> QED
      BY <3>1
  <2> QED
    BY <2>3, <2>4
<1>4. \A r \in Request : \A h \in Harvester :
        /\ ~Adding(r, h)' /\ (Knows(r, h)' <=> Knows(r, h))
  BY <1>3 DEF Adding, At, Knows
<1>5. Request \subseteq Actor
  BY DEF Actor
<1>6. \A h \in Harvester : Settled(h)' = status'[h]
  BY <1>3 DEF Settled, Invoking, At
<1>7. NamesFit'
  <2>1. \A r \in Request : DOMAIN req'[r].ids = {} /\ req'[r].pc \notin Midway
    BY <1>3 DEF Midway
  <2>2. hmHarvesters' \subseteq Harvester
    BY <1>1
  <2> QED
    BY <1>2, <1>5, <2>1, <2>2 DEF NamesFit, Wrote
<1>8. SoleWriter' /\ AddsPending'
  BY <1>2, <1>5 DEF SoleWriter, AddsPending, Wrote
<1>9. Together'
  BY <1>1, <1>2, HarvestAssumption DEF Together, Wrote
<1>10. Unborn'
  <2>1. \A h \in Harvester : Unstored(h)' => h \notin born
    BY <1>1, <1>4 DEF Unstored
  <2> QED
    BY <1>1, <1>2, <1>4, <2>1 DEF SInv, Unborn, Unstored
<1>11. Follows'
  <2>1. \A h \in hmHarvesters' : h \in Harvester /\ status'[h] = table[h]
    BY <1>1
  <2> QED
    BY <1>1, <1>2, <1>6, <2>1 DEF Follows, Wrote
<1>12. Leaving'
  BY <1>1 DEF Leaving
<1> QED
  BY <1>7, <1>8, <1>9, <1>10, <1>11, <1>12 DEF SInv

-----------------------------------------------------------------------------
(* The invariant holds *)

LEMMA InitSettings == Init => SInv
<1> SUFFICES ASSUME Init PROVE SInv
  OBVIOUS
<1>1. PICK s \in [Harvester -> Status \cup {Absent}] : InitialSettings(s)
  BY DEF Init
<1>2. /\ table = s /\ tree = s
      /\ status = [h \in Harvester |-> IF s[h] = Absent THEN "INACTIVE" ELSE s[h]]
      /\ hmHarvesters = {h \in Harvester : s[h] # Absent}
      /\ jobs = {h \in Harvester : s[h] = "ACTIVE"}
      /\ born = hmHarvesters
  BY <1>1 DEF InitialSettings
<1>3. /\ \A x \in Actor : \A h \in Harvester : pend[x][h] = Unset /\ tasks[x][h] = Unset
      /\ \A h \in Harvester : exec[h] = "idle"
  BY DEF Init, Nothing
<1>4. \A r \in Request : /\ req[r].pc = "idle" /\ req[r].op = "none"
                         /\ req[r].ids = <<>> /\ req[r].named = {}
  BY DEF Init, Idle
<1>5. Request \subseteq Actor /\ hmHarvesters \subseteq Harvester
  BY <1>2 DEF Actor
<1>6. NamesFit
  <2>1. \A r \in Request : DOMAIN req[r].ids = {} /\ req[r].pc \notin Midway
    BY <1>4 DEF Midway
  <2> QED
    BY <1>3, <1>4, <1>5, <2>1 DEF NamesFit, Wrote
<1>7. SoleWriter /\ AddsPending
  BY <1>3, <1>5 DEF SoleWriter, AddsPending, Wrote
<1>8. Together
  BY <1>2, <1>3, HarvestAssumption DEF Together, Wrote
<1>9. Unborn
  BY <1>2, <1>3, <1>4 DEF Unborn, Unstored, Adding, At, Knows
<1>10. Follows
  <2>1. \A h \in Harvester : ~Invoking(h)
    BY <1>4 DEF Invoking, At
  <2>2. \A h \in hmHarvesters : h \in Harvester /\ status[h] = table[h]
    BY <1>2
  <2> QED
    BY <1>3, <2>1, <2>2 DEF Follows, Settled, Wrote
<1>11. Leaving
  BY <1>2 DEF Leaving
<1> QED
  BY <1>6, <1>7, <1>8, <1>9, <1>10, <1>11 DEF SInv

LEMMA StutterSettings ==
  ASSUME IInv, SInv, UNCHANGED vars
  PROVE  SInv'
<1>1. UNCHANGED <<req, hmHarvesters, status, table, tree, pend, tasks, born, spoiled, jobs, exec>>
  BY DEF vars, memory, quartz, settings, ghosts
<1> QED
  BY <1>1, JobFrame

LEMMA SettingsStep == IInv /\ SInv /\ [Next]_vars => SInv'
<1> SUFFICES ASSUME IInv, SInv, [Next]_vars PROVE SInv'
  OBVIOUS
<1>1. CASE UNCHANGED vars
  BY <1>1, StutterSettings
<1>2. ASSUME NEW r \in Request, Begin(r) \/ Finding(r) PROVE SInv'
  BY <1>2, BeginSettings, AddSettings, FindSettings DEF Finding
<1>3. ASSUME NEW r \in Request, Operation(r) PROVE SInv'
  BY <1>3, AlreadyDoneSettings, StartSettings, StopSettings, RunSettings, UpdateSettings,
     InvokeBeginSettings, DestroyBeginSettings DEF Operation
<1>4. ASSUME NEW r \in Request, Removal(r) \/ Fail(r) PROVE SInv'
  BY <1>4, DestroyRecordSettings, DestroyEndSettings, RemoveEntrySettings, FailSettings
     DEF Removal
<1>5. ASSUME NEW r \in Request, Ending(r) PROVE SInv'
  BY <1>5, InvokeEndSettings, AbortSettings, CloseSettings DEF Ending
<1>6. ASSUME NEW h \in Harvester, Fire(h) \/ Align(h) \/ Harvest(h) PROVE SInv'
  BY <1>6, JobMoves, StopItselfSettings, CloseHarvestSettings DEF Harvest
<1>7. CASE Restart
  BY <1>7, RestartSettings
<1>8. CASE Waits
  BY <1>8, StutterSettings DEF Waits
<1> QED
  BY <1>1, <1>2, <1>3, <1>4, <1>5, <1>6, <1>7, <1>8 DEF Next

\* Of a harvester in the map, tree and table say the same, at most one
\* transaction has written it, and the field is what that transaction will
\* commit (SettingManager.setValue, AbstractHarvester.start, stop, update).
THEOREM SettingsInvariant == Spec => []SInv
<1>1. Init => SInv
  BY InitSettings
<1>2. IInv /\ SInv /\ [Next]_vars => SInv'
  BY SettingsStep
<1> QED
  BY <1>1, <1>2, Invariant, PTL DEF Spec

\* The status field, the settings tree and the table agree on every harvester
\* no transaction has to do with, unless a request that named it was aborted.
THEOREM FieldsSurvive == Spec => []StatusSurvives
<1>1. IInv /\ SInv => StatusSurvives
  <2> SUFFICES ASSUME IInv, SInv, NEW h \in hmHarvesters \ spoiled, Untouched(h),
                      monitor[h] = NoOne
               PROVE  status[h] = table[h] /\ tree[h] = table[h]
    BY DEF StatusSurvives
  <2>1. h \in Harvester
    BY DEF IInv, TypeOK
  <2>2. Settled(h) = status[h]
    BY <2>1, Uninvoked DEF Settled
  <2>3. tree[h] = table[h]
    BY DEF SInv, Together
  <2>4. table[h] = Settled(h)
    BY DEF SInv, Follows, Untouched, Wrote
  <2> QED
    BY <2>2, <2>3, <2>4
<1> QED
  BY <1>1, Invariant, SettingsInvariant, PTL

\* Every node of the settings has its harvester in the map, but for those a
\* request is removing, or was aborted while it did (HarvestManager.get, remove).
THEOREM NodesAreManaged == Spec => []VisibleIsManaged
<1>1. SInv => VisibleIsManaged
  BY DEF SInv, Leaving, Removes, Acting, VisibleIsManaged
<1> QED
  BY <1>1, SettingsInvariant, PTL

-----------------------------------------------------------------------------
(***************************************************************************)
(* Proof that the removal of a harvester leaves nothing of it behind       *)
(* (HarvestManager.remove, AbstractHarvester.destroy), for any harvesters, *)
(* requests and records.                                                   *)
(*                                                                         *)
(* Nobody can harvest into a harvester that is being destroyed or is gone, *)
(* unless it was harvesting before or is invoked (overlapped): the         *)
(* listener of a job that somebody schedules all the same does not find it *)
(* in the map by uuid.  So what destroy() has selected is what there is,   *)
(* and the history rows that the removal hides are all there are when it   *)
(* commits.  All this holds at every commit in the middle of a request     *)
(* too, and hence after a crash.                                           *)
(***************************************************************************)

-----------------------------------------------------------------------------
(* The inductive invariant *)

Destroys(r, h) == At(r, "destroying") /\ Id(r) = h

Gone(h) == h \in born \ hmHarvesters /\ \A r \in Request : ~Adding(r, h)

Clean(h) ==
  /\ table[h] = Absent => records[h] = {} /\ history[h] = 0
  /\ \A r \in Request : Destroys(r, h) => exec[h] = "idle" /\ records[h] = doomed[r]
  /\ Gone(h) => /\ exec[h] = "idle" /\ h \notin hmHarvestLookup /\ ~Invoking(h)
                /\ records[h] = {}
  /\ \A x \in Actor : pend[x][h] = Absent => x \in Request /\ hiding[x][h] = history[h]

CInv == \A h \in Harvester \ overlapped : Clean(h)

-----------------------------------------------------------------------------
(* Consequences of the other invariants *)

LEMMA DestroyerOwns ==
  ASSUME IInv, NEW h \in Harvester, NEW r \in Request, Destroys(r, h)
  PROVE  /\ monitor[h] = r /\ h \notin hmHarvestLookup /\ ~Invoking(h)
         /\ \A q \in Request : Destroys(q, h) => q = r
<1>1. Found(r, h) /\ req[r].pc = "destroying" /\ Removing(r, h)
  BY DEF Destroys, At, Found, Removing, IInv, OpsFit
<1>2. monitor[h] = r /\ h \notin hmHarvestLookup
  BY <1>1 DEF IInv, Owned, TakenOut
<1>3. \A q \in Request : Destroys(q, h) => q = r
  BY <1>2 DEF Destroys, At, Found, IInv, Owned
<1>4. \A q \in Request : ~(At(q, "invoking") /\ Id(q) = h)
  <2> SUFFICES ASSUME NEW q \in Request, At(q, "invoking"), Id(q) = h PROVE FALSE
    OBVIOUS
  <2>1. monitor[h] = q
    BY DEF At, Found, IInv, Owned
  <2> QED
    BY <1>1, <1>2, <2>1 DEF At
<1> QED
  BY <1>2, <1>3, <1>4 DEF Invoking

LEMMA Harvesting ==
  ASSUME IInv, SInv, CInv, NEW h \in Harvester \ overlapped, exec[h] # "idle" \/ Invoking(h)
  PROVE  /\ table[h] # Absent /\ ~Gone(h)
         /\ \A r \in Request : ~Destroys(r, h)
<1>1. ~Gone(h)
  BY DEF CInv, Clean
<1>2. \A r \in Request : ~Destroys(r, h)
  BY DestroyerOwns DEF CInv, Clean
<1>3. Used(h)
  <2>1. CASE exec[h] # "idle"
    BY <2>1 DEF Used
  <2>2. CASE Invoking(h)
    <3>1. PICK q \in Request : At(q, "invoking") /\ Id(q) = h
      BY <2>2 DEF Invoking
    <3>2. Knows(q, h)
      BY <3>1, CallerKnows DEF At, Midway
    <3> QED
      BY <3>2 DEF Used
  <2> QED
    BY <2>1, <2>2
<1>4. ~Unstored(h)
  <2>1. CASE exec[h] # "idle"
    BY <2>1 DEF SInv, Unborn
  <2>2. CASE Invoking(h)
    <3>1. PICK q \in Request : At(q, "invoking") /\ Id(q) = h
      BY <2>2 DEF Invoking
    <3>2. Knows(q, h)
      BY <3>1, CallerKnows DEF At, Midway
    <3> QED
      BY <3>2 DEF SInv, Unborn
  <2> QED
    BY <2>1, <2>2
<1>5. h \in hmHarvesters
  BY <1>1, <1>4 DEF Gone, Unstored
<1>6. table[h] # Absent
  BY <1>3, <1>5 DEF SInv, Together
<1> QED
  BY <1>1, <1>2, <1>6

LEMMA RemovedRow ==
  ASSUME IInv, SInv, NEW h \in Harvester, NEW x \in Actor, pend[x][h] = Absent
  PROVE  Gone(h)
<1>1. h \notin hmHarvesters
  BY DEF SInv, Together
<1>2. ~Unstored(h)
  BY HarvestAssumption DEF SInv, Unborn
<1> QED
  BY <1>1, <1>2 DEF Gone, Unstored

-----------------------------------------------------------------------------
(* Steps that leave records, history and rows alone *)

LEMMA CleanFrame ==
  ASSUME IInv, SInv, CInv, overlapped \subseteq overlapped',
         UNCHANGED <<records, history>>,
         \A h \in Harvester \ overlapped' : table'[h] = Absent => table[h] = Absent,
         \A r \in Request : \A h \in Harvester :
            Destroys(r, h)' => Destroys(r, h) /\ doomed'[r] = doomed[r],
         \A h \in Harvester : exec'[h] # "idle" => exec[h] # "idle" \/ h \in hmHarvestLookup,
         \A h \in Harvester \ overlapped' : /\ Gone(h)' => Gone(h)
                                            /\ Invoking(h)' => Invoking(h) \/ h \in hmHarvestLookup,
         \A h \in Harvester : Gone(h)' => (h \in hmHarvestLookup' => h \in hmHarvestLookup),
         \A x \in Actor : \A h \in Harvester : pend'[x][h] = Absent =>
            pend[x][h] = Absent /\ (x \in Request => hiding'[x][h] = hiding[x][h])
  PROVE  CInv'
<1> SUFFICES ASSUME NEW h \in Harvester \ overlapped' PROVE Clean(h)'
  BY DEF CInv
<1>1. Clean(h)
  BY DEF CInv
<1>2. table'[h] = Absent => records'[h] = {} /\ history'[h] = 0
  BY <1>1 DEF Clean
<1>3. \A r \in Request : Destroys(r, h)' => exec'[h] = "idle" /\ records'[h] = doomed'[r]
  BY <1>1, DestroyerOwns DEF Clean
<1>4. Gone(h)' => /\ exec'[h] = "idle" /\ h \notin hmHarvestLookup' /\ ~Invoking(h)'
                  /\ records'[h] = {}
  BY <1>1 DEF Clean
<1>5. \A x \in Actor : pend'[x][h] = Absent => x \in Request /\ hiding'[x][h] = history'[h]
  BY <1>1 DEF Clean
<1> QED
  BY <1>2, <1>3, <1>4, <1>5 DEF Clean

\* What a request does not disturb when it goes on to something else
LEMMA Onwards ==
  ASSUME NEW r \in Request, \A q \in Request \ {r} : req'[q] = req[q],
         req'[r].pc \notin {"destroying", "invoking"}
  PROVE  /\ \A q \in Request : \A h \in Harvester :
              Destroys(q, h)' => Destroys(q, h) /\ q # r
         /\ \A h \in Harvester : Invoking(h)' => Invoking(h)
BY DEF Destroys, Invoking, At, Id

LEMMA StaysGone ==
  ASSUME UNCHANGED <<born, hmHarvesters>>,
         \A q \in Request : \A h \in Harvester : Adding(q, h) => Adding(q, h)'
  PROVE  \A h \in Harvester : Gone(h)' => Gone(h)
BY DEF Gone

\* A request that was not about to add
LEMMA OthersAdd ==
  ASSUME NEW r \in Request, \A q \in Request \ {r} : req'[q] = req[q],
         req[r].op # "add" \/ req[r].pc # "next" \/ req[r].ids = <<>>
  PROVE  \A q \in Request : \A h \in Harvester : Adding(q, h) => Adding(q, h)'
BY DEF Adding, At, Id

\* A request that answers, or fails, and does not touch the records
LEMMA Passes ==
  ASSUME IInv, SInv, CInv, NEW r \in Request, req[r].op # "add" \/ req[r].pc # "next",
         \A q \in Request \ {r} : req'[q] = req[q],
         req'[r].pc \notin {"destroying", "invoking"},
         UNCHANGED <<table, records, history, overlapped, born, hmHarvesters, exec>>,
         hmHarvestLookup' \subseteq hmHarvestLookup,
         \A q \in Request \ {r} : doomed'[q] = doomed[q],
         \A x \in Actor : \A h \in Harvester : pend'[x][h] = Absent =>
            pend[x][h] = Absent /\ (x \in Request => hiding'[x][h] = hiding[x][h])
  PROVE  CInv'
<1>1. \A q \in Request : \A h \in Harvester :
        Destroys(q, h)' => Destroys(q, h) /\ doomed'[q] = doomed[q]
  BY Onwards
<1>2. \A h \in Harvester : Gone(h)' => Gone(h)
  BY OthersAdd, StaysGone
<1>3. \A h \in Harvester : Invoking(h)' => Invoking(h)
  BY Onwards
<1> QED
  BY <1>1, <1>2, <1>3, CleanFrame

LEMMA SetKeepsRows ==
  ASSUME IInv, NEW x \in Actor, NEW g \in Harvester, NEW s \in Status, SetStatus(x, g, s)
  PROVE  \A y \in Actor : \A h \in Harvester : pend'[y][h] = Absent => pend[y][h] = Absent
<1>1. s # Absent
  BY HarvestAssumption
<1>2. pend' = pend \/ pend' = [pend EXCEPT ![x][g] = s]
  BY DEF SetStatus
<1>3. pend \in [Actor -> [Harvester -> Status \cup {Absent, Unset}]]
  BY DEF IInv, TypeOK
<1>4. CASE pend' = pend
  BY <1>4
<1>5. CASE pend' = [pend EXCEPT ![x][g] = s]
  BY <1>1, <1>3, <1>5
<1> QED
  BY <1>2, <1>4, <1>5

LEMMA CallClean ==
  ASSUME IInv, SInv, CInv, NEW r \in Request,
         AlreadyDone(r) \/ Start(r) \/ Stop(r) \/ Run(r) \/ Update(r)
  PROVE  CInv'
<1>1. PICK op : Calls(r, op) /\ Answers(r)
  BY DEF AlreadyDone, Start, Stop, Run, Update
<1>2. /\ req[r].pc = "called" /\ Id(r) \in Harvester
      /\ \A q \in Request \ {r} : req'[q] = req[q]
      /\ req'[r].pc = "next"
  BY <1>1, CallKnows, AnswersSteady
<1>3. /\ UNCHANGED <<table, records, history, overlapped, born, hmHarvesters, exec,
                     hmHarvestLookup, doomed, hiding>>
  BY DEF AlreadyDone, Start, Stop, Run, Update, memory, quartz, settings, data, ghosts
<1>4. \A y \in Actor : \A h \in Harvester : pend'[y][h] = Absent => pend[y][h] = Absent
  <2>1. r \in Actor /\ status[Id(r)] \in Status /\ {"ACTIVE", "INACTIVE"} \subseteq Status
    BY <1>2 DEF Actor, IInv, TypeOK, Status
  <2>2. CASE pend' = pend
    BY <2>2
  <2>3. CASE \E s \in Status : SetStatus(r, Id(r), s)
    BY <1>2, <2>1, <2>3, SetKeepsRows
  <2>4. pend' = pend \/ \E s \in Status : SetStatus(r, Id(r), s)
    BY <2>1 DEF AlreadyDone, Start, Stop, Run, Update, Activate, Deactivate, settings
  <2> QED
    BY <2>2, <2>3, <2>4
<1> QED
  BY <1>2, <1>3, <1>4, Passes

LEMMA FindClean ==
  ASSUME IInv, SInv, CInv, NEW r \in Request, Find(r) \/ FindAlone(r)
  PROVE  CInv'
<1>1. /\ req[r].ids # <<>> /\ req[r].pc = "next" /\ req[r].op # "add"
      /\ Goes(r, "called") \/ Answers(r)
  BY DEF Find, FindAlone, Does, At
<1>2. (\A q \in Request \ {r} : req'[q] = req[q]) /\ req'[r].pc \in {"called", "next"}
  BY <1>1, AnswersSteady, GoesSteady DEF Pcs
<1>3. /\ UNCHANGED <<table, pend, records, history, overlapped, born, hmHarvesters, exec,
                     doomed, hiding>>
      /\ hmHarvestLookup' \subseteq hmHarvestLookup
  BY DEF Find, FindAlone, memory, quartz, settings, data, ghosts
<1> QED
  BY <1>1, <1>2, <1>3, Passes

LEMMA InvokeEndClean ==
  ASSUME IInv, SInv, CInv, NEW r \in Request, InvokeEnd(r)
  PROVE  CInv'
<1>1. /\ req[r].ids # <<>> /\ req[r].pc = "invoking" /\ Answers(r)
      /\ UNCHANGED <<table, pend, records, history, overlapped, born, hmHarvesters, exec,
                     doomed, hiding, hmHarvestLookup>>
  BY DEF InvokeEnd, At, quartz, settings, data, ghosts
<1>2. (\A q \in Request \ {r} : req'[q] = req[q]) /\ req'[r].pc = "next"
  BY <1>1, AnswersSteady
<1> QED
  BY <1>1, <1>2, Passes

LEMMA FailClean ==
  ASSUME IInv, SInv, CInv, NEW r \in Request, Fail(r)
  PROVE  CInv'
<1>1. /\ req[r].pc \in {"called", "destroying", "removing"} /\ Goes(r, "failed")
      /\ doomed' = [doomed EXCEPT ![r] = {}]
      /\ UNCHANGED <<table, pend, records, history, overlapped, born, hmHarvesters, exec,
                     hiding, hmHarvestLookup>>
  BY DEF Fail, Does, At, memory, quartz, settings, data, ghosts
<1>2. (\A q \in Request \ {r} : req'[q] = req[q]) /\ req'[r].pc = "failed"
  BY <1>1, GoesFacts DEF IInv, Pcs
<1>3. \A q \in Request \ {r} : doomed'[q] = doomed[q]
  BY <1>1 DEF IInv, TypeOK
<1> QED
  BY <1>1, <1>2, <1>3, Passes

LEMMA AbortClean ==
  ASSUME IInv, SInv, CInv, NEW r \in Request, Abort(r)
  PROVE  CInv'
<1>1. /\ req[r].pc = "failed" /\ Rollback(r) /\ hiding' = [hiding EXCEPT ![r] = NoRows]
      /\ req' = [req EXCEPT ![r].pc = "ended", ![r].ids = <<>>]
      /\ UNCHANGED <<table, records, history, overlapped, born, hmHarvesters, exec,
                     doomed, hmHarvestLookup>>
  BY DEF Abort, memory, quartz
<1>2. (\A q \in Request \ {r} : req'[q] = req[q]) /\ req'[r].pc = "ended"
  <2>1. req \in [Request -> ReqType]
    BY DEF IInv, TypeOK, ReqType
  <2>2. req'[r] = [pc |-> "ended", op |-> req[r].op, ids |-> <<>>, named |-> req[r].named]
    BY <1>1, <2>1 DEF ReqType
  <2> QED
    BY <1>1, <2>1, <2>2
<1>3. r \in Actor /\ pend' = [pend EXCEPT ![r] = Nothing]
  BY <1>1 DEF Actor, Rollback
<1>4. \A y \in Actor : \A h \in Harvester : pend'[y][h] = Absent => y # r /\ pend[y][h] = Absent
  <2>1. \A y \in Actor : \A h \in Harvester : pend'[y][h] = IF y = r THEN Unset ELSE pend[y][h]
    BY <1>3, Forgets
  <2>2. Unset # Absent
    BY HarvestAssumption
  <2> QED
    BY <2>1, <2>2
<1>5. \A q \in Request : q # r => hiding'[q] = hiding[q]
  BY <1>1 DEF IInv, TypeOK
<1> QED
  BY <1>1, <1>2, <1>4, <1>5, Passes

LEMMA InvokeBeginClean ==
  ASSUME IInv, SInv, CInv, NEW r \in Request, InvokeBegin(r)
  PROVE  CInv'
<1>1. /\ Calls(r, "invoke") /\ Goes(r, "invoking")
      /\ overlapped' = overlapped \cup ({Id(r)} \ hmHarvestLookup)
      /\ UNCHANGED <<table, pend, records, history, born, hmHarvesters, exec,
                     doomed, hiding, hmHarvestLookup>>
  BY DEF InvokeBegin, quartz, settings, data
<1>2. /\ req[r].pc = "called" /\ (\A q \in Request \ {r} : req'[q] = req[q])
      /\ req'[r].pc = "invoking" /\ req'[r].ids = req[r].ids
  BY <1>1, CallKnows, GoesFacts DEF IInv, Pcs
<1>3. \A q \in Request : \A h \in Harvester : Destroys(q, h)' => Destroys(q, h)
  BY <1>2 DEF Destroys, At, Id
<1>4. \A h \in Harvester : Gone(h)' => Gone(h)
  BY <1>1, <1>2, OthersAdd, StaysGone
<1>5. \A h \in Harvester \ overlapped' : Invoking(h)' => Invoking(h) \/ h \in hmHarvestLookup
  <2> SUFFICES ASSUME NEW h \in Harvester \ overlapped', NEW q \in Request,
                      At(q, "invoking")', Id(q)' = h
               PROVE  Invoking(h) \/ h \in hmHarvestLookup
    BY DEF Invoking
  <2>1. CASE q = r
    BY <1>1, <1>2, <2>1 DEF Id
  <2>2. CASE q # r
    BY <1>2, <2>2 DEF Invoking, At, Id
  <2> QED
    BY <2>1, <2>2
<1> QED
  BY <1>1, <1>3, <1>4, <1>5, CleanFrame

-----------------------------------------------------------------------------
(* Jobs *)

LEMMA JobClean ==
  ASSUME IInv, SInv, CInv, NEW g \in Harvester,
         Fire(g) \/ Harvested(g) \/ HarvestFails(g) \/ StopItself(g)
  PROVE  CInv'
<1>1. UNCHANGED <<table, records, history, overlapped, born, hmHarvesters, hmHarvestLookup,
                  doomed, hiding, req>>
  BY DEF Fire, Harvested, HarvestFails, StopItself, memory, settings, data, ghosts
<1>2. \A h \in Harvester : exec'[h] # "idle" => exec[h] # "idle" \/ h \in hmHarvestLookup
  BY DEF Fire, Harvested, HarvestFails, StopItself, IInv, TypeOK
<1>3. \A y \in Actor : \A h \in Harvester : pend'[y][h] = Absent => pend[y][h] = Absent
  <2>1. g \in Actor /\ "INACTIVE" \in Status
    BY DEF Actor, Status
  <2>2. pend' = pend \/ SetStatus(g, g, "INACTIVE")
    BY DEF Fire, Harvested, HarvestFails, StopItself, Deactivate, settings
  <2>3. CASE pend' = pend
    BY <2>3
  <2>4. CASE SetStatus(g, g, "INACTIVE")
    BY <2>1, <2>4, SetKeepsRows
  <2> QED
    BY <2>2, <2>3, <2>4
<1>4. /\ \A r \in Request : \A h \in Harvester : Destroys(r, h)' => Destroys(r, h)
      /\ \A h \in Harvester : (Gone(h)' => Gone(h)) /\ (Invoking(h)' => Invoking(h))
  BY <1>1 DEF Destroys, Gone, Invoking, Adding, At, Id
<1> QED
  BY <1>1, <1>2, <1>3, <1>4, CleanFrame

\* Nobody harvests into what is gone
LEMMA AlignClean ==
  ASSUME IInv, SInv, CInv, NEW g \in Harvester, Align(g)
  PROVE  CInv'
<1>1. /\ exec[g] = "harvesting" \/ Invoking(g)
      /\ \A h \in Harvester : h # g => records'[h] = records[h]
      /\ UNCHANGED <<table, pend, history, overlapped, born, hmHarvesters, hmHarvestLookup,
                     doomed, hiding, req, exec>>
  BY DEF Align, memory, quartz, settings, ghosts, IInv, TypeOK
<1>2. /\ \A r \in Request : \A h \in Harvester : Destroys(r, h)' <=> Destroys(r, h)
      /\ \A h \in Harvester : (Gone(h)' <=> Gone(h)) /\ (Invoking(h)' <=> Invoking(h))
  BY <1>1 DEF Destroys, Gone, Invoking, Adding, At, Id
<1> SUFFICES ASSUME NEW h \in Harvester \ overlapped PROVE Clean(h)'
  BY <1>1 DEF CInv
<1>3. Clean(h)
  BY DEF CInv
<1>4. CASE h = g
  <2>1. table[h] # Absent /\ ~Gone(h) /\ \A r \in Request : ~Destroys(r, h)
    BY <1>1, <1>4, Harvesting
  <2> QED
    BY <1>1, <1>2, <1>3, <2>1 DEF Clean
<1>5. CASE h # g
  BY <1>1, <1>2, <1>3, <1>5 DEF Clean
<1> QED
  BY <1>4, <1>5

LEMMA RecordHistoryClean ==
  ASSUME IInv, SInv, CInv, NEW g \in Harvester, RecordHistory(g)
  PROVE  CInv'
<1>1. /\ exec[g] = "recording" /\ exec' = [exec EXCEPT ![g] = "idle"]
      /\ \A h \in Harvester : h # g => history'[h] = history[h]
      /\ UNCHANGED <<table, pend, records, overlapped, born, hmHarvesters, hmHarvestLookup,
                     doomed, hiding, req>>
  BY DEF RecordHistory, settings, ghosts, IInv, TypeOK
<1>2. \A h \in Harvester : exec'[h] # "idle" => exec[h] # "idle"
  BY <1>1 DEF IInv, TypeOK
<1>3. /\ \A r \in Request : \A h \in Harvester : Destroys(r, h)' <=> Destroys(r, h)
      /\ \A h \in Harvester : (Gone(h)' <=> Gone(h)) /\ (Invoking(h)' <=> Invoking(h))
  BY <1>1 DEF Destroys, Gone, Invoking, Adding, At, Id
<1> SUFFICES ASSUME NEW h \in Harvester \ overlapped PROVE Clean(h)'
  BY <1>1 DEF CInv
<1>4. Clean(h)
  BY DEF CInv
<1>5. CASE h = g
  <2>1. /\ table[h] # Absent /\ ~Gone(h) /\ \A r \in Request : ~Destroys(r, h)
    BY <1>1, <1>5, Harvesting
  <2>2. \A x \in Actor : pend[x][h] # Absent
    BY <2>1, RemovedRow
  <2> QED
    BY <1>1, <1>3, <2>1, <2>2 DEF Clean
<1>6. CASE h # g
  BY <1>1, <1>2, <1>3, <1>4, <1>6 DEF Clean
<1> QED
  BY <1>5, <1>6

LEMMA CloseHarvestClean ==
  ASSUME IInv, SInv, CInv, NEW g \in Harvester, CloseHarvest(g)
  PROVE  CInv'
<1>1. /\ exec[g] = "closing" /\ CommitRows(g) /\ exec' = [exec EXCEPT ![g] = "recording"]
      /\ UNCHANGED <<records, history, overlapped, born, hmHarvesters, hmHarvestLookup,
                     doomed, hiding, req>>
  BY DEF CloseHarvest, CommitAndFlush, memory, data, ghosts
<1>2. g \in Actor /\ g \notin Request /\ Unset # Absent
  BY HarvestAssumption DEF Actor
<1>3. /\ \A y \in Actor : \A h \in Harvester :
           pend'[y][h] = IF y = g THEN Unset ELSE pend[y][h]
      /\ \A h \in Harvester : table'[h] = IF pend[g][h] # Unset THEN pend[g][h] ELSE table[h]
  BY <1>1, <1>2, Forgets DEF CommitRows, Seen
<1>4. \A h \in Harvester \ overlapped : pend[g][h] # Absent
  BY <1>2 DEF CInv, Clean
<1>5. \A h \in Harvester \ overlapped' : table'[h] = Absent => table[h] = Absent
  BY <1>1, <1>3, <1>4
<1>6. \A y \in Actor : \A h \in Harvester : pend'[y][h] = Absent => pend[y][h] = Absent
  BY <1>2, <1>3
<1>7. \A h \in Harvester : exec'[h] # "idle" => exec[h] # "idle"
  BY <1>1 DEF IInv, TypeOK
<1>8. /\ \A r \in Request : \A h \in Harvester : Destroys(r, h)' <=> Destroys(r, h)
      /\ \A h \in Harvester : (Gone(h)' <=> Gone(h)) /\ (Invoking(h)' <=> Invoking(h))
  BY <1>1 DEF Destroys, Gone, Invoking, Adding, At, Id
<1> QED
  BY <1>1, <1>5, <1>6, <1>7, <1>8, CleanFrame

-----------------------------------------------------------------------------
(* Removals *)

\* What a request commits: with the row of a harvester its history goes
LEMMA CommitClean ==
  ASSUME IInv, SInv, CInv, NEW r \in Request, CommitRows(r), ShowHistory(r),
         UNCHANGED <<overlapped, born, hmHarvesters, hmHarvestLookup, exec>>,
         \A h \in Harvester : /\ records'[h] \subseteq records[h]
                              /\ Gone(h)' => Gone(h)
                              /\ Invoking(h)' => Invoking(h),
         \A q \in Request : \A h \in Harvester : Destroys(q, h)' =>
            Destroys(q, h) /\ (records[h] = doomed[q] => records'[h] = doomed'[q])
  PROVE  CInv'
<1>1. r \in Actor /\ Unset # Absent
  BY HarvestAssumption DEF Actor
<1>2. /\ \A y \in Actor : \A h \in Harvester :
           pend'[y][h] = IF y = r THEN Unset ELSE pend[y][h]
      /\ \A h \in Harvester : table'[h] = IF pend[r][h] # Unset THEN pend[r][h] ELSE table[h]
  BY <1>1, Forgets DEF CommitRows, Seen
<1>3. /\ \A h \in Harvester : history'[h] = history[h] - hiding[r][h]
      /\ \A q \in Request : q # r => hiding'[q] = hiding[q]
      /\ \A h \in Harvester : history[h] \in Nat /\ \A q \in Request : hiding[q][h] \in Nat
  BY DEF ShowHistory, IInv, TypeOK
<1> SUFFICES ASSUME NEW h \in Harvester \ overlapped PROVE Clean(h)'
  BY DEF CInv
<1>4. Clean(h)
  BY DEF CInv
<1>5. hiding[r][h] # 0 => /\ hiding[r][h] <= history[h]
                          /\ \A q \in Request : q # r => hiding[q][h] = 0
  BY DEF IInv, Hides
<1>6. table'[h] = Absent => records'[h] = {} /\ history'[h] = 0
  <2> SUFFICES ASSUME table'[h] = Absent PROVE records'[h] = {} /\ history'[h] = 0
    OBVIOUS
  <2>1. CASE pend[r][h] = Absent
    <3>1. records[h] = {}
      BY <1>1, <1>4, <2>1, RemovedRow DEF Clean
    <3>2. hiding[r][h] = history[h]
      BY <1>1, <1>4, <2>1 DEF Clean
    <3> QED
      BY <1>3, <3>1, <3>2
  <2>2. CASE pend[r][h] # Absent
    <3>1. table[h] = Absent
      BY <1>2, <2>2
    <3>2. records[h] = {} /\ history[h] = 0
      BY <1>4, <3>1 DEF Clean
    <3>3. hiding[r][h] = 0
      BY <1>3, <1>5, <3>2
    <3> QED
      BY <1>3, <3>2, <3>3
  <2> QED
    BY <2>1, <2>2
<1>7. \A q \in Request : Destroys(q, h)' => exec'[h] = "idle" /\ records'[h] = doomed'[q]
  BY <1>4 DEF Clean
<1>8. Gone(h)' => /\ exec'[h] = "idle" /\ h \notin hmHarvestLookup' /\ ~Invoking(h)'
                  /\ records'[h] = {}
  BY <1>4 DEF Clean
<1>9. \A x \in Actor : pend'[x][h] = Absent => x \in Request /\ hiding'[x][h] = history'[h]
  <2> SUFFICES ASSUME NEW x \in Actor, pend'[x][h] = Absent
               PROVE  x \in Request /\ hiding'[x][h] = history'[h]
    OBVIOUS
  <2>1. x # r /\ pend[x][h] = Absent
    BY <1>1, <1>2
  <2>2. x \in Request /\ hiding[x][h] = history[h]
    BY <1>4, <2>1 DEF Clean
  <2>3. hiding[r][h] = 0
    BY <1>3, <1>5, <2>1, <2>2
  <2> QED
    BY <1>3, <2>1, <2>2, <2>3
<1> QED
  BY <1>6, <1>7, <1>8, <1>9 DEF Clean

LEMMA DestroyRecordClean ==
  ASSUME IInv, SInv, CInv, NEW r \in Request, DestroyRecord(r)
  PROVE  CInv'
<1>1. PICK g : g = Id(r)
  OBVIOUS
<1>2. PICK k \in doomed[r] \cap records[g] :
        /\ doomed' = [doomed EXCEPT ![r] = @ \ {k}]
        /\ records' = [records EXCEPT ![g] = @ \ {k}]
  BY <1>1 DEF DestroyRecord
<1>3. /\ At(r, "destroying") /\ CommitRows(r) /\ ShowHistory(r)
      /\ UNCHANGED <<overlapped, born, hmHarvesters, hmHarvestLookup, exec, req>>
  BY DEF DestroyRecord, memory, quartz, ghosts
<1>4. g \in Harvester /\ Destroys(r, g)
  BY <1>1, <1>3, NextId DEF Destroys, At
<1>5. /\ \A h \in Harvester : records'[h] = IF h = g THEN records[g] \ {k} ELSE records[h]
      /\ \A q \in Request : doomed'[q] = IF q = r THEN doomed[r] \ {k} ELSE doomed[q]
  BY <1>2, <1>4 DEF IInv, TypeOK
<1>6. /\ \A q \in Request : \A h \in Harvester : Destroys(q, h)' <=> Destroys(q, h)
      /\ \A h \in Harvester : (Gone(h)' <=> Gone(h)) /\ (Invoking(h)' <=> Invoking(h))
  BY <1>3 DEF Destroys, Gone, Invoking, Adding, At, Id
<1>7. \A q \in Request : \A h \in Harvester : Destroys(q, h)' =>
        Destroys(q, h) /\ (records[h] = doomed[q] => records'[h] = doomed'[q])
  <2> SUFFICES ASSUME NEW q \in Request, NEW h \in Harvester, Destroys(q, h),
                      records[h] = doomed[q]
               PROVE  records'[h] = doomed'[q]
    BY <1>6
  <2>1. q = r <=> h = g
    BY <1>4, DestroyerOwns DEF Destroys
  <2> QED
    BY <1>5, <2>1
<1>8. \A h \in Harvester : records'[h] \subseteq records[h]
  BY <1>5
<1> QED
  BY <1>3, <1>6, <1>7, <1>8, CommitClean

LEMMA CloseClean ==
  ASSUME IInv, SInv, CInv, NEW r \in Request, Close(r)
  PROVE  CInv'
<1>1. /\ req[r].pc = "next" /\ req[r].ids = <<>> /\ Goes(r, "ended")
      /\ CommitRows(r) /\ ShowHistory(r)
      /\ UNCHANGED <<overlapped, born, hmHarvesters, hmHarvestLookup, exec, records, doomed>>
  BY DEF Close, CommitAndFlush, memory, quartz, ghosts
<1>2. (\A q \in Request \ {r} : req'[q] = req[q]) /\ req'[r].pc = "ended"
  BY <1>1, GoesFacts DEF IInv, Pcs
<1>3. /\ \A q \in Request : \A h \in Harvester : Destroys(q, h)' => Destroys(q, h)
      /\ \A h \in Harvester : Invoking(h)' => Invoking(h)
  BY <1>2, Onwards
<1>4. \A h \in Harvester : Gone(h)' => Gone(h)
  BY <1>1, <1>2, OthersAdd, StaysGone
<1> QED
  BY <1>1, <1>3, <1>4, CommitClean

LEMMA DestroyBeginClean ==
  ASSUME IInv, SInv, CInv, NEW r \in Request, DestroyBegin(r)
  PROVE  CInv'
<1>1. PICK g : g = Id(r)
  OBVIOUS
<1>2. /\ Calls(r, "remove") /\ Goes(r, "destroying")
      /\ doomed' = [doomed EXCEPT ![r] = records[g]]
      /\ overlapped' = IF exec[g] # "idle" THEN overlapped \cup {g} ELSE overlapped
      /\ UNCHANGED <<table, pend, records, history, born, hmHarvesters, hmHarvestLookup,
                     exec, hiding>>
  BY <1>1 DEF DestroyBegin, memory, settings, data
<1>3. /\ req[r].pc = "called" /\ (\A q \in Request \ {r} : req'[q] = req[q])
      /\ req'[r].pc = "destroying" /\ req'[r].ids = req[r].ids
  BY <1>2, CallKnows, GoesFacts DEF IInv, Pcs
<1>4. \A q \in Request : doomed'[q] = IF q = r THEN records[g] ELSE doomed[q]
  BY <1>2 DEF IInv, TypeOK
<1>5. \A q \in Request : \A h \in Harvester :
        Destroys(q, h)' => (q = r /\ h = g) \/ (q # r /\ Destroys(q, h))
  BY <1>1, <1>3 DEF Destroys, At, Id
<1>6. \A h \in Harvester : /\ Gone(h)' => Gone(h)
                           /\ Invoking(h)' => Invoking(h)
  <2>1. \A h \in Harvester : Gone(h)' => Gone(h)
    BY <1>2, <1>3, OthersAdd, StaysGone
  <2>2. \A h \in Harvester : Invoking(h)' => Invoking(h)
    BY <1>3 DEF Invoking, At, Id
  <2> QED
    BY <2>1, <2>2
<1> SUFFICES ASSUME NEW h \in Harvester \ overlapped' PROVE Clean(h)'
  BY DEF CInv
<1>7. Clean(h) /\ (h = g => exec[h] = "idle")
  BY <1>2 DEF CInv
<1>8. \A q \in Request : Destroys(q, h)' => exec'[h] = "idle" /\ records'[h] = doomed'[q]
  BY <1>2, <1>4, <1>5, <1>7 DEF Clean
<1> QED
  BY <1>2, <1>6, <1>7, <1>8 DEF Clean

LEMMA DestroyEndClean ==
  ASSUME IInv, SInv, CInv, NEW r \in Request, DestroyEnd(r)
  PROVE  CInv'
<1>1. PICK g : g = Id(r)
  OBVIOUS
<1>2. /\ At(r, "destroying") /\ Goes(r, "removing") /\ doomed[r] = {}
      /\ hmHarvesters' = hmHarvesters \ {g}
      /\ UNCHANGED <<table, pend, records, history, overlapped, born, hmHarvestLookup,
                     exec, hiding, doomed>>
  BY <1>1 DEF DestroyEnd, quartz, settings, data, ghosts
<1>3. /\ req[r].pc = "destroying" /\ (\A q \in Request \ {r} : req'[q] = req[q])
      /\ req'[r].pc = "removing"
  BY <1>2, GoesFacts DEF IInv, Pcs, At
<1>4. g \in Harvester /\ Destroys(r, g)
  BY <1>1, <1>2, NextId DEF Destroys, At
<1>5. /\ \A q \in Request : \A h \in Harvester : Destroys(q, h)' => Destroys(q, h)
      /\ \A h \in Harvester : Invoking(h)' => Invoking(h)
  BY <1>3, Onwards
<1>6. \A q \in Request : \A h \in Harvester : Adding(q, h) => Adding(q, h)'
  BY <1>3, OthersAdd
<1>7. \A h \in Harvester : Gone(h)' => Gone(h) \/ h = g
  BY <1>2, <1>6 DEF Gone
<1> SUFFICES ASSUME NEW h \in Harvester \ overlapped PROVE Clean(h)'
  BY <1>2 DEF CInv
<1>8. Clean(h)
  BY DEF CInv
<1>9. h = g => /\ exec[h] = "idle" /\ h \notin hmHarvestLookup /\ ~Invoking(h)
               /\ records[h] = {}
  BY <1>2, <1>4, <1>8, DestroyerOwns DEF Clean
<1> QED
  BY <1>2, <1>5, <1>7, <1>8, <1>9 DEF Clean

LEMMA RemoveEntryClean ==
  ASSUME IInv, SInv, CInv, NEW r \in Request, RemoveEntry(r)
  PROVE  CInv'
<1>1. PICK g : g = Id(r)
  OBVIOUS
<1>2. /\ req[r].pc = "removing" /\ req[r].ids # <<>> /\ Answers(r)
      /\ SetStatus(r, g, Absent)
      /\ hiding' = [hiding EXCEPT ![r][g] = history[g]]
      /\ UNCHANGED <<table, records, history, overlapped, born, hmHarvesters,
                     hmHarvestLookup, exec, doomed>>
  BY <1>1 DEF RemoveEntry, At, memory, quartz, ghosts
<1>3. g \in Harvester /\ r \in Actor
  BY <1>1, <1>2, NextId DEF Actor
<1>4. (\A q \in Request \ {r} : req'[q] = req[q]) /\ req'[r].pc = "next"
  BY <1>2, AnswersSteady
<1>5. /\ \A q \in Request : \A h \in Harvester : Destroys(q, h)' => Destroys(q, h)
      /\ \A h \in Harvester : Invoking(h)' => Invoking(h)
  BY <1>4, Onwards
<1>6. \A h \in Harvester : Gone(h)' => Gone(h)
  BY <1>2, <1>4, OthersAdd, StaysGone
<1>7. /\ \A y \in Actor : \A h \in Harvester : y # r \/ h # g => pend'[y][h] = pend[y][h]
      /\ \A q \in Request : \A h \in Harvester :
           hiding'[q][h] = IF q = r /\ h = g THEN history[g] ELSE hiding[q][h]
  <2>1. \A q \in Request : \A h \in Harvester :
          hiding'[q][h] = IF q = r /\ h = g THEN history[g] ELSE hiding[q][h]
    BY <1>2, <1>3 DEF IInv, TypeOK
  <2>2. pend' = pend \/ pend' = [pend EXCEPT ![r][g] = Absent]
    BY <1>2 DEF SetStatus
  <2>3. pend \in [Actor -> [Harvester -> Status \cup {Absent, Unset}]]
    BY DEF IInv, TypeOK
  <2> QED
    BY <1>3, <2>1, <2>2, <2>3
<1> SUFFICES ASSUME NEW h \in Harvester \ overlapped PROVE Clean(h)'
  BY <1>2 DEF CInv
<1>8. Clean(h)
  BY DEF CInv
<1>9. \A x \in Actor : pend'[x][h] = Absent => x \in Request /\ hiding'[x][h] = history'[h]
  <2> SUFFICES ASSUME NEW x \in Actor, pend'[x][h] = Absent
               PROVE  x \in Request /\ hiding'[x][h] = history[h]
    BY <1>2
  <2>1. CASE x = r /\ h = g
    BY <1>7, <2>1
  <2>2. CASE x # r \/ h # g
    <3>1. pend[x][h] = Absent
      BY <1>7, <2>2
    <3>2. x \in Request /\ hiding[x][h] = history[h]
      BY <1>8, <3>1 DEF Clean
    <3> QED
      BY <1>7, <2>2, <3>2
  <2> QED
    BY <2>1, <2>2
<1> QED
  BY <1>2, <1>5, <1>6, <1>8, <1>9 DEF Clean

-----------------------------------------------------------------------------
(* New requests, new harvesters, restarts *)

LEMMA BeginClean ==
  ASSUME IInv, SInv, CInv, NEW r \in Request, Begin(r)
  PROVE  CInv'
<1>1. PICK op \in ListOps \cup {"add", "update", "invoke"}, ids \in Lists :
        /\ op \notin ListOps => Len(ids) = 1
        /\ req' = [req EXCEPT ![r] = [pc |-> "next", op |-> op, ids |-> ids,
                                      named |-> ToSet(ids)]]
        /\ born' = IF op = "add" THEN born \cup ToSet(ids) ELSE born
  BY DEF Begin
<1>2. /\ req[r] = Idle
      /\ UNCHANGED <<table, pend, records, history, overlapped, hmHarvesters, hmHarvestLookup,
                     exec, hiding, doomed>>
  BY DEF Begin, memory, quartz, settings, data
<1>3. /\ req'[r] = [pc |-> "next", op |-> op, ids |-> ids, named |-> ToSet(ids)]
      /\ \A q \in Request \ {r} : req'[q] = req[q]
  BY <1>1 DEF IInv, TypeOK
<1>4. /\ \A q \in Request : \A h \in Harvester : Destroys(q, h)' => Destroys(q, h)
      /\ \A h \in Harvester : Invoking(h)' => Invoking(h)
  BY <1>3, Onwards
<1>5. \A q \in Request : \A h \in Harvester : Adding(q, h) => Adding(q, h)'
  BY <1>2, <1>3, OthersAdd DEF Idle
<1>6. \A h \in Harvester : h \in born' \ born => Adding(r, h)'
  <2> SUFFICES ASSUME NEW h \in Harvester, h \in born' \ born PROVE Adding(r, h)'
    OBVIOUS
  <2>1. op = "add" /\ h \in ToSet(ids)
    BY <1>1
  <2>2. ids \in Seq(Harvester) /\ ids # <<>> /\ Len(ids) = 1
    BY <1>1, <2>1, ListsType DEF ListOps
  <2>3. h = Head(ids)
    BY <2>1, <2>2 DEF ToSet
  <2> QED
    BY <1>3, <2>1, <2>2, <2>3 DEF Adding, At, Id
<1>7. \A h \in Harvester : Gone(h)' => Gone(h)
  BY <1>2, <1>5, <1>6 DEF Gone
<1> QED
  BY <1>2, <1>4, <1>7, CleanFrame

LEMMA AddClean ==
  ASSUME IInv, SInv, CInv, NEW r \in Request, Add(r)
  PROVE  CInv'
<1>1. PICK new : new = Id(r)
  OBVIOUS
<1>2. /\ req[r].pc = "next" /\ req[r].ids # <<>> /\ Answers(r)
      /\ pend' = [pend EXCEPT ![r][new] = "INACTIVE"]
      /\ hmHarvesters' = hmHarvesters \cup {new}
      /\ hmHarvestLookup' = hmHarvestLookup \cup {new}
      /\ UNCHANGED <<table, records, history, overlapped, born, exec, hiding, doomed>>
  BY <1>1 DEF Add, Does, At, quartz, data, ghosts
<1>3. new \in Harvester /\ r \in Actor /\ "INACTIVE" # Absent
  BY <1>1, <1>2, NextId, HarvestAssumption DEF Actor, Status
<1>4. (\A q \in Request \ {r} : req'[q] = req[q]) /\ req'[r].pc = "next"
  BY <1>2, AnswersSteady
<1>5. /\ \A q \in Request : \A h \in Harvester : Destroys(q, h)' => Destroys(q, h)
      /\ \A h \in Harvester : Invoking(h)' => Invoking(h)
  BY <1>4, Onwards
<1>6. \A h \in Harvester : Gone(h)' => Gone(h) /\ h # new
  <2>1. \A q \in Request : \A h \in Harvester : h # new /\ Adding(q, h) => Adding(q, h)'
    BY <1>1, <1>4 DEF Adding, At, Id
  <2> QED
    BY <1>2, <2>1 DEF Gone
<1>7. \A x \in Actor : \A h \in Harvester : pend'[x][h] = Absent => pend[x][h] = Absent
  BY <1>2, <1>3 DEF IInv, TypeOK
<1> QED
  BY <1>2, <1>5, <1>6, <1>7, CleanFrame

LEMMA RestartClean ==
  ASSUME IInv, SInv, CInv, Restart
  PROVE  CInv'
<1>1. /\ hmHarvesters' = {h \in Harvester : table[h] # Absent}
      /\ hmHarvestLookup' = hmHarvesters'
      /\ exec' = [h \in Harvester |-> "idle"]
      /\ pend' = [x \in Actor |-> Nothing]
      /\ UNCHANGED <<table, records, history, overlapped>>
  BY DEF Restart
<1>2. \A x \in Actor : \A h \in Harvester : pend'[x][h] # Absent
  BY <1>1, HarvestAssumption DEF Nothing
<1>3. \A r \in Request : req'[r].ids = <<>>
  <2> TAKE r \in Request
  <2>1. req[r] \in ReqType
    BY DEF IInv, TypeOK, ReqType
  <2>2. req'[r] = IF req[r] = Idle THEN Idle
                  ELSE [req[r] EXCEPT !.pc = "ended", !.ids = <<>>]
    BY DEF Restart
  <2> QED
    BY <2>1, <2>2 DEF Idle, ReqType
<1>4. \A r \in Request : \A h \in Harvester : ~Destroys(r, h)' /\ ~Invoking(h)'
  BY <1>3 DEF Destroys, Invoking, At
<1> SUFFICES ASSUME NEW h \in Harvester \ overlapped PROVE Clean(h)'
  BY <1>1 DEF CInv
<1>5. table[h] = Absent => records[h] = {} /\ history[h] = 0
  BY DEF CInv, Clean
<1>6. ~Invoking(h)'
  BY <1>3 DEF Invoking, At
<1>7. Gone(h)' => table[h] = Absent
  BY <1>1 DEF Gone
<1> QED
  BY <1>1, <1>2, <1>4, <1>5, <1>6, <1>7 DEF Clean

-----------------------------------------------------------------------------
(* The invariant holds *)

LEMMA InitClean == Init => CInv
<1> SUFFICES ASSUME Init, NEW h \in Harvester \ overlapped PROVE Clean(h)
  BY DEF CInv
<1>1. born = hmHarvesters
  BY DEF Init, InitialSettings
<1>2. /\ \A x \in Actor : pend[x][h] = Unset
      /\ records[h] = {} /\ history[h] = 0
      /\ \A r \in Request : req[r].ids = <<>>
  BY DEF Init, Nothing, NoRows, Idle
<1> QED
  BY <1>1, <1>2, HarvestAssumption DEF Clean, Gone, Destroys, At

LEMMA StutterClean ==
  ASSUME IInv, SInv, CInv, UNCHANGED vars
  PROVE  CInv'
<1>1. UNCHANGED <<table, pend, records, history, overlapped, born, hmHarvesters,
                  hmHarvestLookup, exec, hiding, doomed, req>>
  BY DEF vars, memory, quartz, settings, data, ghosts
<1>2. /\ \A q \in Request : \A h \in Harvester : Destroys(q, h)' <=> Destroys(q, h)
      /\ \A h \in Harvester : (Gone(h)' <=> Gone(h)) /\ (Invoking(h)' <=> Invoking(h))
  BY <1>1 DEF Destroys, Gone, Invoking, Adding, At, Id
<1> QED
  BY <1>1, <1>2, CleanFrame

LEMMA CleanStep == IInv /\ SInv /\ CInv /\ [Next]_vars => CInv'
<1> SUFFICES ASSUME IInv, SInv, CInv, [Next]_vars PROVE CInv'
  OBVIOUS
<1>1. CASE UNCHANGED vars
  BY <1>1, StutterClean
<1>2. ASSUME NEW r \in Request, Begin(r) \/ Finding(r) PROVE CInv'
  BY <1>2, BeginClean, AddClean, FindClean DEF Finding
<1>3. ASSUME NEW r \in Request, Operation(r) PROVE CInv'
  BY <1>3, CallClean, InvokeBeginClean, DestroyBeginClean DEF Operation
<1>4. ASSUME NEW r \in Request, Removal(r) \/ Fail(r) PROVE CInv'
  BY <1>4, DestroyRecordClean, DestroyEndClean, RemoveEntryClean, FailClean DEF Removal
<1>5. ASSUME NEW r \in Request, Ending(r) PROVE CInv'
  BY <1>5, InvokeEndClean, AbortClean, CloseClean DEF Ending
<1>6. ASSUME NEW h \in Harvester, Fire(h) \/ Align(h) \/ Harvest(h) PROVE CInv'
  BY <1>6, JobClean, AlignClean, CloseHarvestClean, RecordHistoryClean DEF Harvest
<1>7. CASE Restart
  BY <1>7, RestartClean
<1>8. CASE Waits
  BY <1>8, StutterClean DEF Waits
<1> QED
  BY <1>1, <1>2, <1>3, <1>4, <1>5, <1>6, <1>7, <1>8 DEF Next

\* A removed harvester leaves no record and no visible history row behind,
\* unless it harvested while its removal began or was invoked after it
\* (HarvestManager.remove, AbstractHarvester.destroy).
THEOREM RemovalIsComplete == Spec => []NothingRemains
<1>1. Init => CInv
  BY InitClean
<1>2. IInv /\ SInv /\ CInv /\ [Next]_vars => CInv'
  BY CleanStep
<1>3. CInv => NothingRemains
  BY DEF CInv, Clean, NothingRemains, Removed
<1> QED
  BY <1>1, <1>2, <1>3, Invariant, SettingsInvariant, PTL DEF Spec
=============================================================================
