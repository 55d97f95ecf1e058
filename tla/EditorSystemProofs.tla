-------------------------- MODULE EditorSystemProofs --------------------------
(***************************************************************************)
(* What the version of a form protects, for any number of windows,         *)
(* sessions, requests, values and elements: LossNeedsRace.                 *)
(*                                                                         *)
(* The version a record was opened under is carried by one thing at a      *)
(* time: by the request that opens it, by the panel that renders the       *)
(* answer, then by the save that is made from the panel.  Whoever carries  *)
(* the current version shows, or writes, every committed value, unless     *)
(* the version was handed out in a race.                                   *)
(***************************************************************************)
EXTENDS EditorSystem, SequenceTheorems, TLAPS

-----------------------------------------------------------------------------
(* The inductive invariant *)

PanelType == [form : BOOLEAN, version : Nat, shows : Client!Content,
              open : BOOLEAN, toolbar : BOOLEAN]

RequestType == [stage : {"idle", "sent", "locked", "checked", "applied", "reading",
                         "read", "bumped", "taken", "ok", "error"},
                window : Window \cup {NoWindow},
                kind : Client!Reloads \cup Client!Closes \cup Client!ElementCalls,
                version : Nat, fields : SUBSET Edit, elem : SUBSET Element,
                md : Client!Content, opened : Nat, holds : Nat,
                listening : BOOLEAN]

DocType == [content : Client!Content, version : Nat, refs : BOOLEAN,
            info : BOOLEAN]

\* The types without their bounds
Typing == /\ panel \in [Window -> PanelType]
          /\ req \in [Slot -> RequestType]
          /\ \A s \in Slot : req[s].stage # "idle" => req[s].window \in Window
          /\ \A s \in Slot : req[s].stage = "taken" => req[s].holds \in 1 .. Len(doc)
          /\ \A s \in Slot : req[s].stage = "bumped" => req[s].holds \in 1 .. Len(doc)
          /\ sent \in Nat /\ typed \subseteq Edit
          /\ sessionOf \in [Window -> Session]
          /\ record \in Client!Content
          /\ version \in Nat \ {0}
          /\ doc \in Seq(DocType)
          /\ copy \in [Session -> 0 .. Len(doc)]

\* The stages of a save under the row lock, and those after its check
Locked(s)  == req[s].stage \in {"locked", "checked", "applied"}
Checked(s) == req[s].stage \in {"checked", "applied"}

\* A request with the fields of a form, and one with a record that was opened
Saving(s)  == \/ req[s].stage = "sent" /\ req[s].kind \in Server!Saves
              \/ Locked(s)
Opening(s) == \/ req[s].stage = "bumped"
              \/ req[s].stage = "ok" /\ req[s].kind \in Client!Reloads

\* The version a request carries, if any, and the values that come with it
Carried(s) == IF Saving(s) THEN req[s].version
              ELSE IF Opening(s) THEN req[s].opened ELSE 0
Values(s)  == IF Saving(s) THEN req[s].fields ELSE req[s].md.values

\* Only saves are locked, one at a time
OneLocked == \A s \in Slot : Locked(s) => rowLock = s /\ req[s].kind \in Server!Saves

\* Only additions and deletions hold a copy that is being changed
TakenIsElement ==
    \A s \in Slot : req[s].stage = "taken" => req[s].kind \in Client!ElementCalls

\* No version is from the future
Bounded == /\ \A w \in Window : panel[w].version <= version
           /\ \A s \in Slot : Carried(s) <= version

\* The current version is carried once
CarriedOnce ==
    /\ \A w, x \in Window : panel[w].version = version /\ panel[x].version = version
                               => w = x
    /\ \A s, r \in Slot : Carried(s) = version /\ Carried(r) = version => s = r
    /\ \A w \in Window, s \in Slot : ~(panel[w].version = version /\ Carried(s) = version)

\* Who carries it has every committed value
Fresh ==
    version \notin raced =>
       /\ \A w \in Window : panel[w].version = version
                               => record.values \subseteq panel[w].shows.values
       /\ \A s \in Slot : Carried(s) = version => record.values \subseteq Values(s)

\* A save past its check was made from the current form, and has every value
SaveIsCurrent == \A s \in Slot : Checked(s) /\ version \notin raced
                                    => req[s].version = version
SaveIsFresh == \A s \in Slot : Checked(s) /\ req[s].version \notin raced
                                  => record.values \subseteq req[s].fields

Forms == Bounded /\ CarriedOnce /\ Fresh
SaveInv == OneLocked /\ TakenIsElement /\ SaveIsCurrent /\ SaveIsFresh
Inv == Typing /\ Forms /\ SaveInv

-----------------------------------------------------------------------------
(* The types *)

LEMMA InitTyping == Init => Typing
BY DEF Init, Typing, Client!ClientInit, Server!ServerInit, PanelType, RequestType,
       DocType, Client!IdleRequest, Client!NoContent, Client!Content,
       Client!NoVersion, Client!Reloads, Server!NoContent, Server!NoCopy

\* A request that is sent from a form or from nothing, and an empty slot
LEMMA RequestTypes ==
  ASSUME Typing, NEW w \in Window,
         NEW k \in Client!Reloads \cup Client!Closes \cup Client!ElementCalls
  PROVE  /\ Client!FormRequest(w, k) \in RequestType
         /\ \A x \in SUBSET Element :
               [Client!IdleRequest EXCEPT !.stage = "sent", !.window = w, !.kind = k,
                          !.elem = x, !.version = panel[w].version] \in RequestType
BY DEF Typing, Client!FormRequest, Client!IdleRequest, RequestType, PanelType,
       Client!Content, Client!NoContent, Client!NoVersion

LEMMA IdleType == Client!IdleRequest \in RequestType
BY DEF Client!IdleRequest, RequestType, Client!Content, Client!NoContent,
       Client!NoVersion, Client!Reloads

LEMMA WipedType ==
  ASSUME NEW p \in PanelType
  PROVE  Client!Wiped(p) \in PanelType
BY DEF Client!Wiped, PanelType, Client!Content, Client!NoContent, Client!NoVersion

\* A slot is filled with a request of a window, or emptied
LEMMA SlotTyping ==
  ASSUME Typing, NEW s \in Slot, NEW q \in RequestType,
         req' = [req EXCEPT ![s] = q],
         q.stage # "idle" => q.window \in Window,
         q.stage \notin {"taken", "bumped"} \/ (q.stage = req[s].stage /\ q.holds = req[s].holds),
         panel' \in [Window -> PanelType], sent' \in Nat, typed' \subseteq Edit,
         UNCHANGED <<sessionOf, record, version, doc, copy>>
  PROVE  Typing'
BY DEF Typing

\* Records whose fields are changed one by one
LEMMA RequestExcept ==
  ASSUME NEW q \in RequestType
  PROVE  /\ \A v \in BOOLEAN : [q EXCEPT !.listening = v] \in RequestType
         /\ \A c \in Client!Content : [q EXCEPT !.md = c] \in RequestType
         /\ \A n \in Nat : /\ [q EXCEPT !.holds = n] \in RequestType
                           /\ [q EXCEPT !.opened = n] \in RequestType
BY DEF RequestType

Stage == {"idle", "sent", "locked", "checked", "applied", "reading", "read",
          "bumped", "taken", "ok", "error"}

LEMMA RequestStage ==
  ASSUME NEW q \in RequestType, NEW g \in Stage
  PROVE  /\ [q EXCEPT !.stage = g] \in RequestType
         /\ [q EXCEPT !.stage = g].stage = g
         /\ [q EXCEPT !.stage = g].window = q.window
         /\ [q EXCEPT !.stage = g].kind = q.kind
         /\ [q EXCEPT !.stage = g].opened = q.opened
         /\ [q EXCEPT !.stage = g].md = q.md
BY DEF RequestType, Stage

LEMMA RequestHolds ==
  ASSUME NEW q \in RequestType, NEW n \in Nat
  PROVE  /\ [q EXCEPT !.holds = n] \in RequestType
         /\ [q EXCEPT !.holds = n].window = q.window
         /\ [q EXCEPT !.holds = n].holds = n
BY DEF RequestType

LEMMA RequestOpened ==
  ASSUME NEW q \in RequestType, NEW v \in Nat
  PROVE  /\ [q EXCEPT !.opened = v] \in RequestType
         /\ [q EXCEPT !.opened = v].window = q.window
         /\ [q EXCEPT !.opened = v].holds = q.holds
BY DEF RequestType

LEMMA PanelExcept ==
  ASSUME NEW p \in PanelType
  PROVE  /\ \A b \in BOOLEAN : /\ [p EXCEPT !.toolbar = b] \in PanelType
                               /\ [p EXCEPT !.open = b] \in PanelType
                               /\ [p EXCEPT !.form = b] \in PanelType
         /\ \A c \in Client!Content : [p EXCEPT !.shows = c] \in PanelType
         /\ \A v \in SUBSET Edit : [p EXCEPT !.shows.values = v] \in PanelType
         /\ \A x \in SUBSET Element : [p EXCEPT !.shows.elems = x] \in PanelType
<1>1. \A v \in SUBSET Edit : [p.shows EXCEPT !.values = v] \in Client!Content
  BY DEF PanelType, Client!Content
<1>2. \A x \in SUBSET Element : [p.shows EXCEPT !.elems = x] \in Client!Content
  BY DEF PanelType, Client!Content
<1> QED
  BY <1>1, <1>2 DEF PanelType

\* The steps of the client keep the types
LEMMA ClientTyping ==
  ASSUME Typing, ByClient, UNCHANGED sessionOf
  PROVE  Typing'
<1> USE DEF serverVars
<1>1. ASSUME NEW w \in Window, Client!Type(w) PROVE Typing'
  <2>1. PICK e \in Edit :
          panel' = [panel EXCEPT ![w] = [panel[w] EXCEPT !.shows.values = @ \cup {e}]]
    BY <1>1 DEF Client!Type
  <2>2. panel[w] \in PanelType /\ panel[w].shows.values \subseteq Edit
    BY DEF Typing, PanelType, Client!Content
  <2>3. panel' \in [Window -> PanelType]
    BY <2>1, <2>2, PanelExcept DEF Typing
  <2> QED
    BY <1>1, <2>3 DEF Client!Type, Typing, ByClient
<1>2. ASSUME NEW w \in Window, NEW s \in Slot, Client!Send(w, s) PROVE Typing'
  <2>1. ASSUME NEW k \in Client!Reloads \cup Client!Closes, NEW p \in PanelType,
               Client!LoadUrl(w, s, k, p)
        PROVE  Typing'
    <3>1. Client!FormRequest(w, k) \in RequestType
      BY RequestTypes
    <3>2. /\ Client!FormRequest(w, k).stage = "sent"
          /\ Client!FormRequest(w, k).window \in Window
      BY DEF Client!FormRequest, Client!IdleRequest
    <3>3. panel' \in [Window -> PanelType]
      BY <2>1, WipedType DEF Client!LoadUrl, Typing
    <3> QED
      BY <2>1, <3>1, <3>2, <3>3, SlotTyping DEF Client!LoadUrl, Typing, ByClient
  <2>2. ASSUME NEW k \in Client!ElementCalls, NEW x \in SUBSET Element,
               Client!ElementRequest(w, s, k, x)
        PROVE  Typing'
    <3> DEFINE q == [Client!IdleRequest EXCEPT !.stage = "sent", !.window = w,
                       !.kind = k, !.elem = x, !.version = panel[w].version]
    <3>1. q \in RequestType
      BY RequestTypes
    <3>2. q.stage = "sent" /\ q.window \in Window
      BY DEF Client!IdleRequest
    <3>3. req' = [req EXCEPT ![s] = q]
      BY <2>2 DEF Client!ElementRequest
    <3> HIDE DEF q
    <3> QED
      BY <2>2, <3>1, <3>2, <3>3, SlotTyping
      DEF Client!ElementRequest, Typing, ByClient
  <2>3. /\ panel[w] \in PanelType
        /\ [panel[w] EXCEPT !.open = TRUE] \in PanelType
    BY DEF Typing, PanelType
  <2>4. panel[w].shows.elems \subseteq Element
    BY <2>3 DEF PanelType, Client!Content
  <2>5. CASE Client!Open(w, s) \/ Client!Save(w, s) \/ Client!Finish(w, s)
               \/ Client!Reset(w, s) \/ Client!Cancel(w, s)
    <3>1. \E k \in Client!Reloads \cup Client!Closes, p \in PanelType :
             Client!LoadUrl(w, s, k, p)
      BY <2>5, <2>3
      DEF Client!Open, Client!Save, Client!Finish, Client!Reset, Client!Cancel,
          Client!FromToolbar, Client!Reloads, Client!Closes
    <3> QED
      BY <2>1, <3>1
  <2>6. CASE Client!AddElement(w, s) \/ Client!AddAttribute(w, s)
               \/ Client!RemoveElement(w, s)
    <3>1. \E k \in Client!ElementCalls, x \in SUBSET Element :
             Client!ElementRequest(w, s, k, x)
      BY <2>6, <2>4
      DEF Client!AddElement, Client!AddAttribute, Client!RemoveElement,
          Client!ElementCalls
    <3> QED
      BY <2>2, <3>1
  <2> QED
    BY <1>2, <2>5, <2>6 DEF Client!Send
<1>3. ASSUME NEW s \in Slot, Client!Receive(s) PROVE Typing'
  <2>0. /\ req[s] \in RequestType
        /\ req[s].stage # "idle"
        /\ req[s].window \in Window
        /\ panel[req[s].window] \in PanelType
    BY <1>3 DEF Client!Receive, Client!Loaded, Client!LoadFailed, Client!Closed,
                Client!ElementAnswered, Client!AttributeAnswered,
                Client!Dropped, Typing
  <2>1. ASSUME Client!Clear(s), panel' \in [Window -> PanelType],
               UNCHANGED <<sent, typed>>
        PROVE  Typing'
    <3>1. Client!IdleRequest.stage = "idle"
      BY DEF Client!IdleRequest
    <3> QED
      BY <2>1, <3>1, IdleType, SlotTyping DEF Client!Clear, Typing, ByClient
  <2>2. CASE Client!Loaded(s)
    <3>1. panel' \in [Window -> PanelType]
      BY <2>2, <2>0 DEF Client!Loaded, Typing, PanelType, RequestType
    <3> QED
      BY <2>2, <2>1, <3>1 DEF Client!Loaded
  <2>3. CASE Client!LoadFailed(s)
    <3>1. PICK b \in BOOLEAN :
            panel' = [panel EXCEPT ![req[s].window] =
                        [panel[req[s].window] EXCEPT !.open = b, !.toolbar = TRUE]]
      BY <2>3, <2>0 DEF Client!LoadFailed, PanelType
    <3>2. panel' \in [Window -> PanelType]
      BY <3>1, <2>0, PanelExcept DEF Typing
    <3> QED
      BY <2>3, <2>1, <3>2 DEF Client!LoadFailed
  <2>4. CASE Client!Closed(s)
    <3> DEFINE w == req[s].window
               left == IF req[s].stage = "ok" THEN Client!Wiped(panel[w]) ELSE panel[w]
               p2 == [left EXCEPT !.open = FALSE, !.toolbar = TRUE]
    <3>1. left \in PanelType
      BY <2>0, WipedType
    <3>2. p2 \in PanelType
      BY <3>1 DEF PanelType
    <3>3. panel' = [panel EXCEPT ![w] = p2]
      BY <2>4 DEF Client!Closed
    <3> HIDE DEF p2
    <3>4. panel' \in [Window -> PanelType]
      BY <2>0, <3>2, <3>3 DEF Typing
    <3> QED
      BY <2>4, <2>1, <3>4 DEF Client!Closed
  <2>5. CASE Client!ElementAnswered(s)
    <3>1. panel' \in [Window -> PanelType]
      BY <2>5, <2>0 DEF Client!ElementAnswered, Typing, PanelType, RequestType,
                        Client!Content
    <3> QED
      BY <2>5, <2>1, <3>1 DEF Client!ElementAnswered
  <2>6. CASE Client!AttributeAnswered(s)
    <3> DEFINE w == req[s].window
    <3>1. /\ Client!FormRequest(w, "save") \in RequestType
          /\ Client!FormRequest(w, "save").stage = "sent"
          /\ Client!FormRequest(w, "save").window \in Window
      BY <2>0, RequestTypes DEF Client!FormRequest, Client!IdleRequest, Client!Reloads
    <3>2. [panel EXCEPT ![w] = Client!Wiped(@)] \in [Window -> PanelType]
      BY <2>0, WipedType DEF Typing
    <3>3. CASE req' = [req EXCEPT ![s] = Client!FormRequest(w, "save")]
               /\ panel' = [panel EXCEPT ![w] = Client!Wiped(@)]
               /\ sent' = sent + 1 /\ UNCHANGED typed
      BY <3>1, <3>2, <3>3, SlotTyping DEF Typing, ByClient
    <3>4. CASE Client!Clear(s) /\ UNCHANGED <<panel, sent, typed>>
      BY <2>1, <3>4 DEF Typing
    <3> QED
      BY <2>6, <3>3, <3>4 DEF Client!AttributeAnswered
  <2>7. CASE Client!Dropped(s)
    BY <2>7, <2>1 DEF Client!Dropped, Typing
  <2> QED
    BY <1>3, <2>2, <2>3, <2>4, <2>5, <2>6, <2>7 DEF Client!Receive
<1>4. ASSUME NEW s \in Slot, Client!Timeout(s) PROVE Typing'
  <2>1. /\ req[s] \in RequestType /\ req[s].window \in Window
        /\ panel[req[s].window] \in PanelType
    BY <1>4 DEF Client!Timeout, Typing
  <2>2. panel' \in [Window -> PanelType]
    <3> DEFINE w == req[s].window
    <3>1. \/ panel' = [panel EXCEPT ![w].toolbar = TRUE]
          \/ panel' = [panel EXCEPT ![w].toolbar = TRUE, ![w].open = FALSE]
          \/ panel' = panel
      BY <1>4 DEF Client!Timeout
    <3>2. [panel EXCEPT ![w].toolbar = TRUE] \in [Window -> PanelType]
      BY <2>1, PanelExcept DEF Typing
    <3>3. [panel EXCEPT ![w].toolbar = TRUE, ![w].open = FALSE] \in [Window -> PanelType]
      BY <2>1, <3>2, PanelExcept DEF Typing
    <3> HIDE DEF w
    <3> QED
      BY <3>1, <3>2, <3>3 DEF Typing
  <2>3. /\ [req[s] EXCEPT !.listening = FALSE] \in RequestType
        /\ req' = [req EXCEPT ![s] = [req[s] EXCEPT !.listening = FALSE]]
    BY <1>4, <2>1, RequestExcept DEF Client!Timeout
  <2>4. LET q == [req[s] EXCEPT !.listening = FALSE] IN
        /\ q.stage = req[s].stage /\ q.holds = req[s].holds
        /\ q.window \in Window
    BY <2>1 DEF RequestType
  <2> QED
    BY <1>4, <2>2, <2>3, <2>4, SlotTyping DEF Client!Timeout, Typing, ByClient
<1> QED
  BY <1>1, <1>2, <1>3, <1>4 DEF ByClient, Client!ClientNext

\* A slot goes on at the server
LEMMA ServedTyping ==
  ASSUME Typing, NEW s \in Slot, NEW q \in RequestType,
         req' = [req EXCEPT ![s] = q],
         req[s].stage # "idle", q.window = req[s].window,
         UNCHANGED <<panel, sent, typed, sessionOf>>,
         record' \in Client!Content, version' \in Nat \ {0},
         doc' \in Seq(DocType), Len(doc) <= Len(doc'),
         copy' \in [Session -> 0 .. Len(doc')],
         q.stage \in {"taken", "bumped"} => q.holds \in 1 .. Len(doc')
  PROVE  Typing'
<1>1. Len(doc) \in Nat /\ Len(doc') \in Nat
  BY LenProperties DEF Typing
<1>2. req' \in [Slot -> RequestType]
  BY DEF Typing
<1>3. \A r \in Slot : r # s => req'[r] = req[r]
  BY DEF Typing
<1>4. req'[s] = q
  BY DEF Typing
<1>5. \A r \in Slot : /\ req'[r].stage # "idle" => req'[r].window \in Window
                      /\ req'[r].stage = "taken" => req'[r].holds \in 1 .. Len(doc')
                      /\ req'[r].stage = "bumped" => req'[r].holds \in 1 .. Len(doc')
  <2> TAKE r \in Slot
  <2>1. CASE r = s
    BY <1>4, <2>1 DEF Typing
  <2>2. CASE r # s
    BY <1>1, <1>3, <2>2 DEF Typing
  <2> QED
    BY <2>1, <2>2
<1> QED
  BY <1>2, <1>5 DEF Typing

\* The trees stay trees when one is changed and when one is added
LEMMA DocTyping ==
  ASSUME NEW d \in Seq(DocType), NEW t \in DocType
  PROVE  /\ Append(d, t) \in Seq(DocType) /\ Len(Append(d, t)) = Len(d) + 1
         /\ \A i \in 1 .. Len(d) : /\ [d EXCEPT ![i] = t] \in Seq(DocType)
                                   /\ Len([d EXCEPT ![i] = t]) = Len(d)
<1>1. Append(d, t) \in Seq(DocType) /\ Len(Append(d, t)) = Len(d) + 1
  BY AppendProperties
<1>2. \A i \in 1 .. Len(d) : /\ [d EXCEPT ![i] = t] \in Seq(DocType)
                             /\ Len([d EXCEPT ![i] = t]) = Len(d)
  BY ExceptSeq
<1> QED
  BY <1>1, <1>2

\* The steps of the server keep the types
LEMMA ServerTyping ==
  ASSUME Typing, ByServer, UNCHANGED sessionOf
  PROVE  Typing'
<1> PICK s \in Slot : Server!ServerStep(s)
  BY DEF ByServer, Server!ServerNext
<1> DEFINE u == sessionOf[req[s].window]
<1>1. /\ req[s] \in RequestType
      /\ req[s].stage \notin {"idle", "ok", "error"}
      /\ req[s].window \in Window
      /\ u \in Session
  <2>1. req[s].stage \notin {"idle", "ok", "error"}
    BY DEF Server!ServerStep, Server!Serve, Server!NoParameters, Server!Lock,
           Server!LockTimeout, Server!Check, Server!Apply, Server!Write,
           Server!WriteFails, Server!Forget, Server!Read, Server!Bump,
           Server!Store, Server!Take, Server!Put, Server!At
  <2> QED
    BY <2>1 DEF Typing
<1>2. /\ Len(doc) \in Nat
      /\ \A i \in 1 .. Len(doc) : doc[i] \in DocType
      /\ copy[u] \in 0 .. Len(doc)
      /\ UNCHANGED <<panel, sent, typed>>
  BY <1>1, LenProperties, ElementOfSeq DEF Typing, ByServer
<1> DEFINE Stages == {"locked", "checked", "reading", "read", "ok", "error"}
<1>3. ASSUME NEW g \in Stages, Server!Go(s, g), UNCHANGED <<version, doc>>,
             record' \in Client!Content, copy' \in [Session -> 0 .. Len(doc)]
      PROVE  Typing'
  <2>1. /\ [req[s] EXCEPT !.stage = g] \in RequestType
        /\ [req[s] EXCEPT !.stage = g].stage = g
        /\ [req[s] EXCEPT !.stage = g].window = req[s].window
    <3>1. g \in Stage
      BY DEF Stage
    <3> QED
      BY <1>1, <3>1, RequestStage
  <2>2. req' = [req EXCEPT ![s] = [req[s] EXCEPT !.stage = g]]
    BY <1>3 DEF Server!Go
  <2> QED
    BY <1>1, <1>2, <1>3, <2>1, <2>2, ServedTyping DEF Typing
<1>4. CASE \/ Server!NoParameters(s) \/ Server!Lock(s) \/ Server!LockTimeout(s)
           \/ Server!Check(s) \/ Server!WriteFails(s)
  <2>1. /\ UNCHANGED <<record, version, doc, copy>>
        /\ \E g \in Stages : Server!Go(s, g)
    BY <1>4 DEF Server!NoParameters, Server!Lock, Server!LockTimeout,
                Server!Check, Server!WriteFails, Server!serverVars
  <2> QED
    BY <1>3, <2>1 DEF Typing
<1>5. CASE Server!Apply(s)
  <2> DEFINE i == copy[u]
             applied == IF doc[i].refs
                        THEN [doc[i].content EXCEPT !.values = req[s].fields]
                        ELSE doc[i].content
  <2>1. CASE i = 0
    <3>1. Server!Go(s, "error") /\ UNCHANGED <<record, version, doc, copy>>
      BY <1>5, <2>1 DEF Server!Apply, Server!NoCopy
    <3> QED
      BY <1>3, <3>1 DEF Typing
  <2>2. CASE i # 0
    <3>1. i \in 1 .. Len(doc)
      BY <1>2, <2>2
    <3>2. doc[i] \in DocType
      BY <1>2, <3>1
    <3>3. applied \in Client!Content
      BY <1>1, <3>2 DEF DocType, Client!Content, RequestType
    <3> DEFINE q == [req[s] EXCEPT !.stage = "applied", !.md = applied]
               d == [doc[i] EXCEPT !.content = applied, !.refs = FALSE, !.info = FALSE]
    <3>4. /\ req' = [req EXCEPT ![s] = q]
          /\ doc' = [doc EXCEPT ![i] = d]
          /\ UNCHANGED <<record, version, copy>>
      BY <1>5, <2>2 DEF Server!Apply, Server!NoCopy
    <3>5. d \in DocType
      BY <3>2, <3>3 DEF DocType
    <3>6. q \in RequestType /\ q.window = req[s].window /\ q.stage = "applied"
      BY <1>1, <3>3 DEF RequestType
    <3> HIDE DEF q, d
    <3>7. doc' \in Seq(DocType) /\ Len(doc') = Len(doc)
      BY <3>1, <3>4, <3>5, DocTyping DEF Typing
    <3> QED
      BY <1>1, <1>2, <3>4, <3>6, <3>7, ServedTyping DEF Typing
  <2> QED
    BY <2>1, <2>2
<1>6. CASE Server!Write(s)
  <2>1. req[s].md \in Client!Content
    BY <1>1 DEF RequestType
  <2>2. /\ UNCHANGED <<version, doc>>
        /\ record' \in Client!Content
        /\ copy' \in [Session -> 0 .. Len(doc)]
        /\ \E g \in Stages : Server!Go(s, g)
    BY <1>2, <1>6, <2>1 DEF Server!Write, Typing, Server!NoCopy
  <2> QED
    BY <1>3, <2>2
<1>7. CASE Server!Forget(s)
  <2>1. /\ UNCHANGED <<version, doc, record>>
        /\ Server!Go(s, "ok")
        /\ copy' = [copy EXCEPT ![u] = 0]
    BY <1>7 DEF Server!Forget, Server!NoCopy
  <2>2. copy' \in [Session -> 0 .. Len(doc)]
    <3>1. 0 \in 0 .. Len(doc)
      BY <1>2
    <3>2. copy \in [Session -> 0 .. Len(doc)]
      BY DEF Typing
    <3> HIDE DEF u
    <3> QED
      BY <2>1, <3>1, <3>2
  <2> QED
    BY <1>3, <2>1, <2>2 DEF Typing
<1>8. CASE Server!Read(s)
  <2> DEFINE q == [req[s] EXCEPT !.stage = "read", !.md = record]
  <2>1. q \in RequestType /\ q.window = req[s].window /\ q.stage = "read"
    BY <1>1 DEF RequestType, Typing
  <2>2. req' = [req EXCEPT ![s] = q] /\ UNCHANGED <<record, version, doc, copy>>
    BY <1>8 DEF Server!Read, Server!serverVars
  <2> HIDE DEF q
  <2> QED
    BY <1>1, <1>2, <2>1, <2>2, ServedTyping DEF Typing
<1>9. CASE Server!Bump(s)
  <2> DEFINE d == [content |-> req[s].md, version |-> version',
                   refs |-> TRUE, info |-> TRUE]
             q == [req[s] EXCEPT !.stage = "bumped", !.holds = Len(doc'),
                                 !.opened = version']
  <2>1. version' = version + 1 /\ version' \in Nat \ {0}
    BY <1>9 DEF Server!Bump, Typing
  <2>2. d \in DocType
    BY <1>1, <2>1 DEF DocType, RequestType
  <2>3. /\ doc' = Append(doc, d) /\ req' = [req EXCEPT ![s] = q]
        /\ UNCHANGED <<record, copy>>
    BY <1>9 DEF Server!Bump
  <2> HIDE DEF d
  <2>4. doc' \in Seq(DocType) /\ Len(doc') = Len(doc) + 1
    BY <2>2, <2>3, DocTyping DEF Typing
  <2>5. /\ q \in RequestType /\ q.window = req[s].window
        /\ q.holds = Len(doc')
    <3>1. Len(doc') \in Nat /\ version' \in Nat /\ "bumped" \in Stage
      BY <1>2, <2>1, <2>4 DEF Stage
    <3> DEFINE q1 == [req[s] EXCEPT !.stage = "bumped"]
               q2 == [q1 EXCEPT !.holds = Len(doc')]
    <3>2. q1 \in RequestType /\ q1.window = req[s].window
      BY <1>1, <3>1, RequestStage
    <3>3. q = [q2 EXCEPT !.opened = version']
      OBVIOUS
    <3> HIDE DEF q1
    <3>4. q2 \in RequestType /\ q2.window = q1.window /\ q2.holds = Len(doc')
      BY <3>1, <3>2, RequestHolds
    <3> HIDE DEF q2, q
    <3> QED
      BY <3>1, <3>2, <3>3, <3>4, RequestOpened
  <2>6. Len(doc') \in 1 .. Len(doc') /\ Len(doc) <= Len(doc')
    BY <1>2, <2>4
  <2>7. copy' \in [Session -> 0 .. Len(doc')]
    BY <1>2, <2>3, <2>4 DEF Typing
  <2> HIDE DEF q
  <2> QED
    BY <1>1, <1>2, <2>1, <2>3, <2>4, <2>5, <2>6, <2>7, ServedTyping DEF Typing
<1>10. CASE Server!Store(s)
  <2>1. /\ UNCHANGED <<version, doc, record>>
        /\ copy' \in [Session -> 0 .. Len(doc)]
        /\ \E g \in Stages : Server!Go(s, g)
    <3>1. req[s].holds \in 0 .. Len(doc)
      BY <1>2, <1>10 DEF Server!Store, Typing
    <3> QED
      BY <1>10, <3>1 DEF Server!Store, Typing
  <2> QED
    BY <1>3, <2>1 DEF Typing
<1>11. CASE Server!Take(s)
  <2> DEFINE i == copy[u]
             k == req[s].kind
             x == req[s].elem
             found == doc[i].refs /\ (k = "delete" => x \subseteq doc[i].content.elems)
             elems == IF ~found THEN doc[i].content.elems
                      ELSE IF k = "delete" THEN doc[i].content.elems \ x
                                           ELSE doc[i].content.elems \cup x
             d == [[doc[i] EXCEPT !.info = FALSE] EXCEPT !.content.elems = elems]
  <2>1. CASE i = 0 \/ ~doc[i].info
    <3>1. Server!Go(s, "error") /\ UNCHANGED <<record, version, doc, copy>>
      BY <1>11, <2>1 DEF Server!Take, Server!NoCopy
    <3> QED
      BY <1>3, <3>1 DEF Typing
  <2>2. CASE i # 0 /\ doc[i].info
    <3>1. i \in 1 .. Len(doc) /\ doc[i] \in DocType
      BY <1>2, <2>2
    <3>2. elems \subseteq Element
      BY <1>1, <3>1 DEF DocType, Client!Content, RequestType
    <3>3. d \in DocType
      <4>1. [doc[i].content EXCEPT !.elems = elems] \in Client!Content
        BY <3>1, <3>2 DEF DocType, Client!Content
      <4> QED
        BY <3>1, <4>1 DEF DocType
    <3>4. /\ UNCHANGED <<record, version, copy>>
          /\ doc' = doc \/ doc' = [doc EXCEPT ![i].info = FALSE, ![i].content.elems = elems]
          /\ IF found
             THEN req' = [req EXCEPT ![s].stage = "taken", ![s].holds = i]
             ELSE Server!Go(s, "error")
      BY <1>11, <2>2 DEF Server!Take, Server!NoCopy
    <3>5. [doc EXCEPT ![i].info = FALSE, ![i].content.elems = elems] = [doc EXCEPT ![i] = d]
      BY <3>1, LenProperties DEF Typing
    <3>6. doc' \in Seq(DocType) /\ Len(doc') = Len(doc)
      <4>1. doc \in Seq(DocType)
        BY DEF Typing
      <4> HIDE DEF d, i, elems
      <4>2. doc' = doc \/ doc' = [doc EXCEPT ![i] = d]
        BY <3>4, <3>5
      <4> QED
        BY <3>1, <3>3, <4>1, <4>2, DocTyping
    <3>7. CASE ~found
      <4> DEFINE q == [req[s] EXCEPT !.stage = "error"]
      <4>1. req' = [req EXCEPT ![s] = q]
        BY <3>4, <3>7 DEF Server!Go
      <4>2. q \in RequestType /\ q.window = req[s].window /\ q.stage = "error"
        <5>1. "error" \in Stage
          BY DEF Stage
        <5> QED
          BY <1>1, <5>1, RequestStage
      <4> HIDE DEF q, found
      <4> QED
        BY <1>1, <1>2, <3>4, <3>6, <4>1, <4>2, ServedTyping DEF Typing
    <3>8. CASE found
      <4> DEFINE q == [req[s] EXCEPT !.stage = "taken", !.holds = i]
      <4>1. req' = [req EXCEPT ![s] = q]
        BY <3>4, <3>8
      <4>2. q \in RequestType /\ q.window = req[s].window /\ q.holds = i
        <5>1. i \in Nat /\ "taken" \in Stage
          BY <1>2, <3>1 DEF Stage
        <5> DEFINE q1 == [req[s] EXCEPT !.stage = "taken"]
        <5>2. q1 \in RequestType /\ q1.window = req[s].window
          BY <1>1, <5>1, RequestStage
        <5>3. q = [q1 EXCEPT !.holds = i]
          BY DEF q
        <5> HIDE DEF q1, q
        <5> QED
          BY <5>1, <5>2, <5>3, RequestHolds
      <4> HIDE DEF q, found
      <4> QED
        BY <1>1, <1>2, <3>1, <3>4, <3>6, <4>1, <4>2, ServedTyping DEF Typing
    <3> QED
      BY <3>7, <3>8
  <2> QED
    BY <2>1, <2>2
<1>12. CASE Server!Put(s)
  <2> DEFINE i == req[s].holds
             whole == [doc[i] EXCEPT !.info = TRUE]
             q == [req[s] EXCEPT !.stage = "ok"]
  <2>1. i \in 1 .. Len(doc) /\ doc[i] \in DocType
    BY <1>2, <1>12 DEF Server!Put, Typing
  <2>2. whole \in DocType
    BY <2>1 DEF DocType
  <2>3. /\ doc' = Append([doc EXCEPT ![i] = whole], whole)
        /\ copy' = [copy EXCEPT ![u] = Len(doc')]
        /\ req' = [req EXCEPT ![s] = q]
        /\ UNCHANGED <<record, version>>
    BY <1>12 DEF Server!Put, Server!Go
  <2> HIDE DEF whole
  <2>4. doc' \in Seq(DocType) /\ Len(doc') = Len(doc) + 1
    <3>1. /\ [doc EXCEPT ![i] = whole] \in Seq(DocType)
          /\ Len([doc EXCEPT ![i] = whole]) = Len(doc)
      BY <2>1, <2>2, DocTyping DEF Typing
    <3> QED
      BY <2>2, <2>3, <3>1, DocTyping
  <2>5. copy' \in [Session -> 0 .. Len(doc')]
    <3>1. \A n \in 0 .. Len(doc) : n \in 0 .. Len(doc')
      BY <1>2, <2>4
    <3>2. Len(doc') \in 0 .. Len(doc')
      BY <1>2, <2>4
    <3>3. copy \in [Session -> 0 .. Len(doc)]
      BY DEF Typing
    <3>4. copy \in [Session -> 0 .. Len(doc')]
      BY <3>1, <3>3
    <3> QED
      BY <2>3, <3>2, <3>4
  <2>6. q \in RequestType /\ q.window = req[s].window /\ q.stage = "ok"
    <3>1. "ok" \in Stage
      BY DEF Stage
    <3> QED
      BY <1>1, <3>1, RequestStage
  <2>7. Len(doc) <= Len(doc')
    BY <1>2, <2>4
  <2> HIDE DEF q
  <2> QED
    BY <1>1, <1>2, <2>3, <2>4, <2>5, <2>6, <2>7, ServedTyping DEF Typing
<1> QED
  BY <1>4, <1>5, <1>6, <1>7, <1>8, <1>9, <1>10, <1>11, <1>12
  DEF Server!ServerStep, Server!Serve

LEMMA TypingStep == Typing /\ [Next]_vars => Typing'
<1>1. Typing /\ UNCHANGED vars => Typing'
  BY DEF Typing, vars
<1> QED
  BY <1>1, ClientTyping, ServerTyping DEF Next

-----------------------------------------------------------------------------
(* The forms *)

\* In a step of slot s and window w the panel keeps its form, or loses it
KeepsForm(w) ==
    \/ panel'[w].version = 0
    \/ /\ panel'[w].version = panel[w].version
       /\ panel[w].shows.values \subseteq panel'[w].shows.values

\* What slot s carries stays, ends, comes from the panel or goes to the panel
Handed(w, s) ==
    \/ /\ KeepsForm(w)
       /\ \/ Carried(s)' = 0
          \/ Carried(s)' = Carried(s) /\ Values(s)' = Values(s)
    \/ /\ panel'[w].version = 0
       /\ Carried(s)' = panel[w].version
       /\ Values(s)' = panel[w].shows.values
    \/ /\ Carried(s)' = 0
       /\ panel'[w].version = Carried(s)
       /\ panel'[w].shows.values = Values(s)

LEMMA CarriedType ==
  ASSUME Typing, NEW s \in Slot
  PROVE  Carried(s) \in Nat
BY DEF Typing, Carried, RequestType

\* Handing a version on keeps it carried once
LEMMA HandedForms ==
  ASSUME Typing, Typing', Forms, NEW w \in Window, NEW s \in Slot,
         UNCHANGED <<record, version, raced>>,
         \A r \in Slot \ {s} : req'[r] = req[r],
         \A x \in Window \ {w} : panel'[x] = panel[x],
         Handed(w, s)
  PROVE  Forms'
<1>1. \A r \in Slot \ {s} : Carried(r)' = Carried(r) /\ Values(r)' = Values(r)
  BY DEF Carried, Values, Saving, Opening, Locked
<1>2. /\ version \in Nat \ {0}
      /\ \A x \in Window : panel[x].version \in Nat
      /\ \A r \in Slot : Carried(r) \in Nat
  BY CarriedType DEF Typing, PanelType
<1>3. Bounded'
  BY <1>1, <1>2 DEF Handed, KeepsForm, Forms, Bounded
<1>4. CarriedOnce'
  <2>1. CASE /\ KeepsForm(w)
             /\ \/ Carried(s)' = 0
                \/ Carried(s)' = Carried(s)
    BY <1>1, <1>2, <2>1 DEF KeepsForm, Forms, CarriedOnce
  <2>2. CASE panel'[w].version = 0 /\ Carried(s)' = panel[w].version
    BY <1>1, <1>2, <2>2 DEF Forms, CarriedOnce
  <2>3. CASE Carried(s)' = 0 /\ panel'[w].version = Carried(s)
    BY <1>1, <1>2, <2>3 DEF Forms, CarriedOnce
  <2> QED
    BY <2>1, <2>2, <2>3 DEF Handed
<1>5. Fresh'
  BY <1>1, <1>2 DEF Handed, KeepsForm, Forms, Fresh
<1> QED
  BY <1>3, <1>4, <1>5 DEF Forms

\* A step in which no record is given its version adds no race
LEMMA NotRaced ==
  ASSUME History, \A s \in Slot : ~Opener(s)
  PROVE  raced' = raced
BY DEF History

SameRequest(s) ==
    /\ req'[s].stage = req[s].stage /\ req'[s].kind = req[s].kind
    /\ req'[s].version = req[s].version /\ req'[s].opened = req[s].opened
    /\ req'[s].fields = req[s].fields /\ req'[s].md = req[s].md

\* A request that was not served yet, and an empty slot
AtClient(s) == req[s].stage \in {"idle", "sent"}

LEMMA SameCarries ==
  ASSUME NEW s \in Slot, SameRequest(s)
  PROVE  /\ Carried(s)' = Carried(s) /\ Values(s)' = Values(s)
         /\ Locked(s)' = Locked(s) /\ Checked(s)' = Checked(s)
BY DEF SameRequest, Carried, Values, Saving, Opening, Locked, Checked

\* A step that leaves the record, the version and the saves that are not ended
\* alone keeps what is known of the saves
LEMMA SavesKept ==
  ASSUME Typing, SaveInv, UNCHANGED <<record, version, raced, rowLock>>,
         \A r \in Slot : AtClient(r)' \/ SameRequest(r)
  PROVE  SaveInv'
<1>1. \A r \in Slot : Locked(r)' => Locked(r) /\ Checked(r)' = Checked(r) /\ SameRequest(r)
  BY SameCarries DEF AtClient, Locked
<1>2. \A r \in Slot : Checked(r)' => Locked(r)'
  BY DEF Checked, Locked
<1>3. OneLocked' /\ SaveIsCurrent' /\ SaveIsFresh'
  BY <1>1, <1>2 DEF SaveInv, OneLocked, SaveIsCurrent, SaveIsFresh, SameRequest
<1>4. TakenIsElement'
  BY DEF AtClient, SameRequest, SaveInv, TakenIsElement
<1> QED
  BY <1>3, <1>4 DEF SaveInv

\* The request that is sent with the form of a panel that loses it
LEMMA SentHands ==
  ASSUME Typing, NEW w \in Window, NEW s \in Slot,
         NEW k \in Client!Reloads \cup Client!Closes, NEW p \in PanelType,
         req' = [req EXCEPT ![s] = Client!FormRequest(w, k)],
         panel' = [panel EXCEPT ![w] = Client!Wiped(p)]
  PROVE  Handed(w, s) /\ AtClient(s)' /\ ~Opener(s)
<1>1. /\ req'[s].stage = "sent"
      /\ req'[s].version = panel[w].version
      /\ req'[s].fields = panel[w].shows.values
  BY DEF Typing, Client!FormRequest, Client!IdleRequest
<1>2. panel'[w].version = 0
  BY DEF Typing, Client!Wiped, Client!NoVersion, PanelType
<1> QED
  BY <1>1, <1>2
  DEF Handed, KeepsForm, Carried, Values, Saving, Opening, Locked, Opener, AtClient

\* A slot that is emptied
LEMMA ClearHands ==
  ASSUME Typing, NEW s \in Slot, Client!Clear(s)
  PROVE  Carried(s)' = 0 /\ AtClient(s)' /\ ~Opener(s)
<1>1. req'[s].stage = "idle"
  BY DEF Typing, Client!Clear, Client!IdleRequest
<1> QED
  BY <1>1 DEF Carried, Saving, Opening, Locked, Opener, AtClient

\* A step of slot s and window w that hands at most one version on
HandsOn(w, s) ==
    /\ \A r \in Slot \ {s} : req'[r] = req[r]
    /\ \A x \in Window \ {w} : panel'[x] = panel[x]
    /\ Handed(w, s) /\ ~Opener(s)
    /\ AtClient(s)' \/ SameRequest(s)

\* Sending a request
LEMMA SendHands ==
  ASSUME Typing, NEW w \in Window, NEW s \in Slot, Client!Send(w, s)
  PROVE  HandsOn(w, s)
<1>1. ASSUME NEW k \in Client!Reloads \cup Client!Closes, NEW p \in PanelType,
             Client!LoadUrl(w, s, k, p)
      PROVE  HandsOn(w, s)
  <2>1. Handed(w, s) /\ AtClient(s)' /\ ~Opener(s)
    BY <1>1, SentHands DEF Client!LoadUrl
  <2>2. /\ \A r \in Slot \ {s} : req'[r] = req[r]
        /\ \A x \in Window \ {w} : panel'[x] = panel[x]
    BY <1>1 DEF Client!LoadUrl, Typing
  <2> QED
    BY <2>1, <2>2 DEF HandsOn
<1>2. ASSUME NEW k \in Client!ElementCalls, NEW x \in SUBSET Element,
             Client!ElementRequest(w, s, k, x)
      PROVE  HandsOn(w, s)
  <2>1. req'[s].stage = "sent" /\ req'[s].kind = k /\ panel' = panel
    BY <1>2 DEF Typing, Client!ElementRequest, Client!IdleRequest
  <2>2. Carried(s)' = 0 /\ AtClient(s)' /\ ~Opener(s)
    BY <2>1 DEF Carried, Saving, Opening, Locked, Opener, AtClient,
                Client!ElementCalls, Server!Saves
  <2>3. \A r \in Slot \ {s} : req'[r] = req[r]
    BY <1>2 DEF Client!ElementRequest, Typing
  <2>4. Handed(w, s)
    BY <2>1, <2>2 DEF Handed, KeepsForm
  <2> QED
    BY <2>1, <2>2, <2>3, <2>4 DEF HandsOn
<1>3. panel[w] \in PanelType /\ [panel[w] EXCEPT !.open = TRUE] \in PanelType
  BY PanelExcept DEF Typing
<1>4. CASE Client!Open(w, s) \/ Client!Save(w, s) \/ Client!Finish(w, s)
             \/ Client!Reset(w, s) \/ Client!Cancel(w, s)
  <2>1. \E k \in Client!Reloads \cup Client!Closes, p \in PanelType :
           Client!LoadUrl(w, s, k, p)
    BY <1>3, <1>4
    DEF Client!Open, Client!Save, Client!Finish, Client!Reset, Client!Cancel,
        Client!FromToolbar, Client!Reloads, Client!Closes
  <2> QED
    BY <1>1, <2>1
<1>5. CASE Client!AddElement(w, s) \/ Client!AddAttribute(w, s)
             \/ Client!RemoveElement(w, s)
  <2>1. panel[w].shows.elems \subseteq Element
    BY <1>3 DEF PanelType, Client!Content
  <2>2. \E k \in Client!ElementCalls, x \in SUBSET Element :
           Client!ElementRequest(w, s, k, x)
    BY <1>5, <2>1
    DEF Client!AddElement, Client!AddAttribute, Client!RemoveElement,
        Client!ElementCalls
  <2> QED
    BY <1>2, <2>2
<1> QED
  BY <1>4, <1>5 DEF Client!Send

\* Rendering an answer, dropping it, or giving up
LEMMA ReceiveHands ==
  ASSUME Typing, NEW s \in Slot, Client!Receive(s) \/ Client!Timeout(s)
  PROVE  req[s].window \in Window /\ HandsOn(req[s].window, s)
<1> DEFINE w == req[s].window
<1>1. /\ w \in Window /\ panel[w] \in PanelType /\ panel \in [Window -> PanelType]
      /\ req[s] \in RequestType /\ req \in [Slot -> RequestType]
  BY DEF Client!Receive, Client!Loaded, Client!LoadFailed, Client!Closed,
         Client!ElementAnswered, Client!AttributeAnswered, Client!Dropped,
         Client!Timeout, Typing
<1>2. ASSUME Client!Clear(s), \A x \in Window \ {w} : panel'[x] = panel[x],
             KeepsForm(w) \/ (/\ panel'[w].version = Carried(s)
                             /\ panel'[w].shows.values = Values(s))
      PROVE  HandsOn(w, s)
  <2>1. Carried(s)' = 0 /\ AtClient(s)' /\ ~Opener(s)
    BY <1>2, ClearHands
  <2>2. \A r \in Slot \ {s} : req'[r] = req[r]
    BY <1>1, <1>2 DEF Client!Clear
  <2> HIDE DEF w
  <2> QED
    BY <1>2, <2>1, <2>2 DEF HandsOn, Handed
<1>3. CASE Client!Loaded(s)
  <2>1. /\ panel'[w].version = req[s].opened /\ panel'[w].shows = req[s].md
        /\ \A x \in Window \ {w} : panel'[x] = panel[x]
    BY <1>1, <1>3 DEF Client!Loaded, PanelType
  <2>2. Carried(s) = req[s].opened /\ Values(s) = req[s].md.values
    BY <1>3 DEF Client!Loaded, Carried, Values, Saving, Opening, Locked
  <2> QED
    BY <1>1, <1>2, <1>3, <2>1, <2>2 DEF Client!Loaded
<1>4. CASE Client!LoadFailed(s)
  <2>1. KeepsForm(w) /\ \A x \in Window \ {w} : panel'[x] = panel[x]
    BY <1>1, <1>4 DEF Client!LoadFailed, PanelType, KeepsForm
  <2> QED
    BY <1>1, <1>2, <1>4, <2>1 DEF Client!LoadFailed
<1>5. CASE Client!Closed(s)
  <2>1. KeepsForm(w) /\ \A x \in Window \ {w} : panel'[x] = panel[x]
    BY <1>1, <1>5 DEF Client!Closed, Client!Wiped, Client!NoVersion, PanelType, KeepsForm
  <2> QED
    BY <1>1, <1>2, <1>5, <2>1 DEF Client!Closed
<1>6. CASE Client!ElementAnswered(s)
  <2>1. KeepsForm(w) /\ \A x \in Window \ {w} : panel'[x] = panel[x]
    BY <1>1, <1>6 DEF Client!ElementAnswered, PanelType, Client!Content, KeepsForm
  <2> QED
    BY <1>1, <1>2, <1>6, <2>1 DEF Client!ElementAnswered
<1>7. CASE Client!AttributeAnswered(s)
  <2>1. CASE /\ req' = [req EXCEPT ![s] = Client!FormRequest(w, "save")]
             /\ panel' = [panel EXCEPT ![w] = Client!Wiped(@)]
    <3>1. Handed(w, s) /\ AtClient(s)' /\ ~Opener(s)
      <4>1. "save" \in Client!Reloads \cup Client!Closes
        BY DEF Client!Reloads
      <4>2. panel' = [panel EXCEPT ![w] = Client!Wiped(panel[w])]
        BY <2>1
      <4> HIDE DEF w
      <4> QED
        BY <1>1, <2>1, <4>1, <4>2, SentHands
    <3>2. /\ \A r \in Slot \ {s} : req'[r] = req[r]
          /\ \A x \in Window \ {w} : panel'[x] = panel[x]
      BY <1>1, <2>1
    <3> QED
      BY <1>1, <3>1, <3>2 DEF HandsOn
  <2>2. CASE Client!Clear(s) /\ UNCHANGED panel
    BY <1>1, <1>2, <2>2 DEF KeepsForm
  <2> QED
    BY <1>7, <2>1, <2>2 DEF Client!AttributeAnswered
<1>8. CASE Client!Dropped(s)
  BY <1>1, <1>2, <1>8 DEF Client!Dropped, KeepsForm
<1>9. CASE Client!Timeout(s)
  <2>1. KeepsForm(w) /\ \A x \in Window \ {w} : panel'[x] = panel[x]
    BY <1>1, <1>9 DEF Client!Timeout, PanelType, KeepsForm
  <2>2. /\ SameRequest(s) /\ req'[s].stage = req[s].stage
        /\ \A r \in Slot \ {s} : req'[r] = req[r]
    BY <1>1, <1>9 DEF Client!Timeout, RequestType, SameRequest
  <2>3. ~Opener(s)
    BY <2>2 DEF Opener
  <2>4. Carried(s)' = Carried(s) /\ Values(s)' = Values(s)
    BY <2>2, SameCarries
  <2>5. Handed(w, s)
    BY <2>1, <2>4 DEF Handed
  <2> QED
    BY <1>1, <2>1, <2>2, <2>3, <2>5 DEF HandsOn
<1> QED
  BY <1>1, <1>3, <1>4, <1>5, <1>6, <1>7, <1>8, <1>9 DEF Client!Receive

-----------------------------------------------------------------------------
(* The steps keep the invariant *)

LEMMA InitInv == Init => Inv
<1> SUFFICES ASSUME Init PROVE Inv
  OBVIOUS
<1>1. Typing
  BY InitTyping
<1>2. /\ \A w \in Window : panel[w].version = 0
      /\ \A s \in Slot : req[s].stage = "idle"
      /\ version = 1
  BY DEF Init, Client!ClientInit, Server!ServerInit, Client!IdleRequest,
         Client!NoVersion
<1>3. \A s \in Slot : Carried(s) = 0 /\ ~Locked(s) /\ ~Checked(s)
  BY <1>2 DEF Carried, Saving, Opening, Locked, Checked
<1>4. Forms
  BY <1>2, <1>3 DEF Forms, Bounded, CarriedOnce, Fresh
<1>5. SaveInv
  BY <1>2, <1>3 DEF SaveInv, OneLocked, TakenIsElement, SaveIsCurrent, SaveIsFresh
<1> QED
  BY <1>1, <1>4, <1>5 DEF Inv

LEMMA ClientStep ==
  ASSUME Inv, Typing', ByClient, History
  PROVE  Forms' /\ SaveInv'
<1>1. ASSUME NEW w \in Window, NEW s \in Slot, HandsOn(w, s)
      PROVE  Forms' /\ SaveInv'
  <2>1. \A r \in Slot : ~Opener(r)
    BY <1>1 DEF HandsOn, Opener
  <2>2. UNCHANGED <<record, version, raced, rowLock>>
    BY <2>1, NotRaced DEF ByClient, serverVars
  <2>3. \A r \in Slot : AtClient(r)' \/ SameRequest(r)
    BY <1>1 DEF HandsOn, SameRequest
  <2>4. Forms'
    BY <1>1, <2>2, HandedForms DEF Inv, HandsOn
  <2>5. SaveInv'
    BY <2>2, <2>3, SavesKept DEF Inv
  <2> QED
    BY <2>4, <2>5
<1>2. ASSUME NEW w \in Window, Client!Type(w)
      PROVE  Forms' /\ SaveInv'
  <2>1. \A s \in Slot : SameRequest(s) /\ ~Opener(s)
    BY <1>2 DEF Client!Type, SameRequest, Opener
  <2>2. UNCHANGED <<record, version, raced, rowLock>>
    BY <2>1, NotRaced DEF ByClient, serverVars
  <2>3. \A x \in Window : /\ panel'[x].version = panel[x].version
                          /\ panel[x].shows.values \subseteq panel'[x].shows.values
    BY <1>2 DEF Client!Type, Inv, Typing, PanelType, Client!Content
  <2>4. \A s \in Slot : Carried(s)' = Carried(s) /\ Values(s)' = Values(s)
    BY <2>1, SameCarries
  <2>5. Forms'
    BY <2>2, <2>3, <2>4 DEF Inv, Forms, Bounded, CarriedOnce, Fresh
  <2>6. SaveInv'
    BY <2>1, <2>2, SavesKept DEF Inv
  <2> QED
    BY <2>5, <2>6
<1>3. Typing
  BY DEF Inv
<1> QED
  BY <1>1, <1>2, <1>3, SendHands, ReceiveHands DEF ByClient, Client!ClientNext

\* A step of the server that neither writes nor opens a record
Quiet(s) ==
    /\ \A r \in Slot \ {s} : req'[r] = req[r]
    /\ UNCHANGED <<panel, record, version>>
    /\ \/ Carried(s)' = 0
       \/ Carried(s)' = Carried(s) /\ Values(s)' = Values(s)
    /\ ~Opener(s)

LEMMA QuietForms ==
  ASSUME Inv, Typing', History, NEW s \in Slot, Quiet(s)
  PROVE  Forms' /\ UNCHANGED <<record, version, raced>>
<1>1. UNCHANGED <<record, version, raced>>
  BY NotRaced DEF Quiet, Opener
<1>2. \A r \in Slot \ {s} : Carried(r)' = Carried(r) /\ Values(r)' = Values(r)
  BY DEF Quiet, Carried, Values, Saving, Opening, Locked
<1>3. /\ version \in Nat \ {0}
      /\ \A r \in Slot : Carried(r) \in Nat
  BY CarriedType DEF Inv, Typing
<1>4. Bounded' /\ CarriedOnce' /\ Fresh'
  BY <1>1, <1>2, <1>3 DEF Quiet, Inv, Forms, Bounded, CarriedOnce, Fresh
<1> QED
  BY <1>1, <1>4 DEF Forms

\* A quiet step after which slot s is not under the lock; the lock it had is
\* released or kept
LEMMA QuietSaves ==
  ASSUME Inv, Typing', History, NEW s \in Slot, Quiet(s), ~Locked(s)',
         req'[s].stage = "taken" => req'[s].kind \in Client!ElementCalls,
         rowLock' = rowLock \/ Locked(s)
  PROVE  Forms' /\ SaveInv'
<1>1. Forms' /\ UNCHANGED <<record, version, raced>>
  BY QuietForms
<1>2. \A r \in Slot : Locked(r)' => r # s /\ req'[r] = req[r] /\ Locked(r)
  BY DEF Quiet, Locked
<1>3. OneLocked'
  BY <1>2 DEF Inv, SaveInv, OneLocked
<1>4. SaveIsCurrent' /\ SaveIsFresh'
  <2>1. \A r \in Slot : Checked(r)' => req'[r] = req[r] /\ Checked(r)
    BY <1>2 DEF Checked, Locked
  <2> QED
    BY <1>1, <2>1 DEF Inv, SaveInv, SaveIsCurrent, SaveIsFresh
<1>5. TakenIsElement'
  BY DEF Inv, SaveInv, TakenIsElement, Quiet
<1> QED
  BY <1>1, <1>3, <1>4, <1>5 DEF SaveInv

LEMMA ServerStep ==
  ASSUME Inv, Typing', ByServer, History
  PROVE  Forms' /\ SaveInv'
<1> PICK s \in Slot : Server!ServerStep(s)
  BY DEF ByServer, Server!ServerNext
<1>1. /\ UNCHANGED panel
      /\ req \in [Slot -> RequestType] /\ req[s] \in RequestType
      /\ version \in Nat \ {0}
      /\ \A r \in Slot : Carried(r) \in Nat
      /\ \A w \in Window : panel[w].version \in Nat
  BY CarriedType DEF ByServer, Inv, Typing, PanelType
<1>2. ASSUME NEW g \in {"reading", "read", "ok", "error"}, Server!Go(s, g),
             g = "ok" => \/ req[s].kind \notin Client!Reloads
                         \/ req[s].stage = "bumped",
             UNCHANGED <<record, version>>,
             rowLock' = rowLock \/ Locked(s)
      PROVE  Forms' /\ SaveInv'
  <2>1. /\ req'[s].stage = g /\ req'[s].kind = req[s].kind
        /\ req'[s].opened = req[s].opened /\ req'[s].md = req[s].md
        /\ \A r \in Slot \ {s} : req'[r] = req[r]
    <3>1. req' = [req EXCEPT ![s] = [req[s] EXCEPT !.stage = g]]
      BY <1>2 DEF Server!Go
    <3> DEFINE q == [req[s] EXCEPT !.stage = g]
    <3>2. /\ q.stage = g /\ q.kind = req[s].kind
          /\ q.opened = req[s].opened /\ q.md = req[s].md
      <4>1. g \in Stage
        BY DEF Stage
      <4> QED
        BY <1>1, <4>1, RequestStage
    <3> HIDE DEF q
    <3>3. req' = [req EXCEPT ![s] = q]
      BY <3>1 DEF q
    <3>4. req'[s] = q /\ \A r \in Slot \ {s} : req'[r] = req[r]
      BY <1>1, <3>3
    <3> QED
      BY <3>2, <3>4
  <2>2. \/ Carried(s)' = 0
        \/ Carried(s)' = Carried(s) /\ Values(s)' = Values(s)
    <3>1. ~Saving(s)'
      BY <2>1 DEF Saving, Locked
    <3>2. Opening(s)' => g = "ok" /\ req[s].kind \in Client!Reloads
      BY <2>1 DEF Opening
    <3>3. Opening(s)' => req[s].stage = "bumped"
      BY <1>2, <3>2
    <3>4. Opening(s)' => Opening(s) /\ ~Saving(s)
      BY <3>3 DEF Opening, Saving, Locked
    <3> QED
      BY <2>1, <3>1, <3>4 DEF Carried, Values
  <2>3. ~Locked(s)' /\ ~Opener(s) /\ req'[s].stage # "taken"
    BY <2>1 DEF Locked, Opener
  <2>4. Quiet(s)
    BY <1>1, <1>2, <2>1, <2>2, <2>3 DEF Quiet
  <2> QED
    BY <1>2, <2>3, <2>4, QuietSaves
<1>3. CASE Server!NoParameters(s) \/ Server!LockTimeout(s)
  BY <1>2, <1>3 DEF Server!NoParameters, Server!LockTimeout, Server!serverVars
<1>4. CASE Server!WriteFails(s)
  BY <1>2, <1>4 DEF Server!WriteFails, Server!At, Locked
<1>5. CASE Server!Forget(s)
  BY <1>2, <1>5 DEF Server!Forget, Server!At, Client!Reloads
<1>6. CASE Server!Store(s)
  BY <1>2, <1>6 DEF Server!Store
<1>7. CASE Server!Put(s)
  <2>1. req[s].kind \notin Client!Reloads
    BY <1>7 DEF Server!Put, Inv, SaveInv, TakenIsElement, Client!ElementCalls,
                Client!Reloads
  <2> QED
    BY <1>2, <1>7, <2>1 DEF Server!Put
<1>8. ASSUME req'[s].stage \in {"read", "taken"},
             req'[s].stage = "taken" => req'[s].kind \in Client!ElementCalls,
             \A r \in Slot \ {s} : req'[r] = req[r],
             UNCHANGED <<record, version, rowLock>>
      PROVE  Forms' /\ SaveInv'
  <2>1. Carried(s)' = 0 /\ ~Locked(s)' /\ ~Opener(s)
    BY <1>8 DEF Carried, Saving, Opening, Locked, Opener
  <2>2. Quiet(s)
    BY <1>1, <1>8, <2>1 DEF Quiet
  <2> QED
    BY <1>8, <2>1, <2>2, QuietSaves
<1>9. CASE Server!Read(s)
  <2>1. /\ req'[s].stage = "read"
        /\ \A r \in Slot \ {s} : req'[r] = req[r]
        /\ UNCHANGED <<record, version, rowLock>>
    <3>1. req' = [req EXCEPT ![s].stage = "read", ![s].md = record]
      BY <1>9 DEF Server!Read
    <3> QED
      BY <1>1, <1>9, <3>1 DEF Server!Read, Server!serverVars, RequestType
  <2> QED
    BY <1>8, <2>1
<1>10. CASE Server!Take(s)
  <2>1. /\ req[s].kind \in Client!ElementCalls
        /\ UNCHANGED <<record, version, rowLock>>
    BY <1>10 DEF Server!Take, Server!At, Client!ElementCalls, Server!ElementCalls
  <2>2. CASE Server!Go(s, "error")
    BY <1>2, <2>1, <2>2
  <2>3. CASE req' = [req EXCEPT ![s].stage = "taken",
                                ![s].holds = copy[sessionOf[req[s].window]]]
    <3>1. /\ req'[s].stage = "taken" /\ req'[s].kind = req[s].kind
          /\ \A r \in Slot \ {s} : req'[r] = req[r]
      BY <1>1, <2>3 DEF RequestType
    <3> QED
      BY <1>8, <2>1, <3>1
  <2> QED
    BY <1>10, <2>2, <2>3 DEF Server!Take
<1>11. CASE Server!Lock(s)
  <2>1. /\ req'[s] = [req[s] EXCEPT !.stage = "locked"]
        /\ \A r \in Slot \ {s} : req'[r] = req[r]
        /\ UNCHANGED <<record, version>>
        /\ rowLock = NoRequest /\ rowLock' = s
        /\ req[s].stage = "sent" /\ req[s].kind \in Server!Saves
    BY <1>1, <1>11 DEF Server!Lock, Server!Go, Server!At
  <2>2. /\ req'[s].stage = "locked" /\ req'[s].kind = req[s].kind
        /\ req'[s].version = req[s].version /\ req'[s].fields = req[s].fields
    BY <1>1, <2>1 DEF RequestType
  <2>3. Quiet(s)
    BY <1>1, <2>1, <2>2 DEF Quiet, Carried, Values, Saving, Locked, Opener
  <2>4. Forms' /\ UNCHANGED <<record, version, raced>>
    BY <2>3, QuietForms
  <2>5. \A r \in Slot : ~Locked(r)
    BY <2>1, NoRequestAssumption DEF Inv, SaveInv, OneLocked
  <2>6. \A r \in Slot : ~Checked(r)' /\ (Locked(r)' => r = s)
    BY <2>1, <2>2, <2>5 DEF Checked, Locked
  <2>7. OneLocked' /\ SaveIsCurrent' /\ SaveIsFresh'
    BY <2>1, <2>2, <2>6 DEF OneLocked, SaveIsCurrent, SaveIsFresh
  <2>8. TakenIsElement'
    BY <2>1, <2>2 DEF Inv, SaveInv, TakenIsElement
  <2> QED
    BY <2>4, <2>7, <2>8 DEF SaveInv
<1>12. CASE Server!Check(s)
  <2>1. CASE Server!Go(s, "error")
    BY <1>2, <1>12, <2>1 DEF Server!Check, Server!At, Server!Release, Locked
  <2>2. CASE Server!Go(s, "checked") /\ req[s].version = version /\ UNCHANGED rowLock
    <3>1. /\ req'[s] = [req[s] EXCEPT !.stage = "checked"]
          /\ \A r \in Slot \ {s} : req'[r] = req[r]
          /\ UNCHANGED <<record, version, rowLock>>
          /\ req[s].stage = "locked" /\ req[s].kind \in Server!Saves
      BY <1>1, <1>12, <2>2 DEF Server!Check, Server!Go, Server!At
    <3>2. /\ req'[s].stage = "checked" /\ req'[s].kind = req[s].kind
          /\ req'[s].version = req[s].version /\ req'[s].fields = req[s].fields
      BY <1>1, <3>1 DEF RequestType
    <3>3. /\ Quiet(s)
          /\ Carried(s) = version /\ Values(s) = req[s].fields
      BY <1>1, <2>2, <3>1, <3>2 DEF Quiet, Carried, Values, Saving, Locked, Opener
    <3>4. Forms' /\ UNCHANGED <<record, version, raced>>
      BY <3>3, QuietForms
    <3>5. OneLocked'
      BY <3>1, <3>2 DEF Inv, SaveInv, OneLocked, Locked
    <3>6. SaveIsCurrent'
      BY <2>2, <3>1, <3>2, <3>4 DEF Inv, SaveInv, SaveIsCurrent, Checked
    <3>7. version \notin raced => record.values \subseteq req[s].fields
      BY <3>3 DEF Inv, Forms, Fresh
    <3>8. SaveIsFresh'
      BY <2>2, <3>1, <3>2, <3>4, <3>7 DEF Inv, SaveInv, SaveIsFresh, Checked
    <3>9. TakenIsElement'
      BY <3>1, <3>2 DEF Inv, SaveInv, TakenIsElement
    <3> QED
      BY <3>4, <3>5, <3>6, <3>8, <3>9 DEF SaveInv
  <2> QED
    BY <1>12, <2>1, <2>2 DEF Server!Check
<1>13. CASE Server!Apply(s)
  <2>1. CASE Server!Go(s, "error") /\ Server!Release
    BY <1>2, <1>13, <2>1 DEF Server!Apply, Server!At, Server!Release, Locked
  <2>2. CASE /\ UNCHANGED rowLock
             /\ \E c \in Client!Content :
                   req' = [req EXCEPT ![s].stage = "applied", ![s].md = c]
    <3>1. /\ \A r \in Slot \ {s} : req'[r] = req[r]
          /\ UNCHANGED <<record, version, rowLock>>
          /\ req[s].stage = "checked" /\ req[s].kind \in Server!Saves
      BY <1>1, <1>13, <2>2 DEF Server!Apply, Server!At
    <3>2. /\ req'[s].stage = "applied" /\ req'[s].kind = req[s].kind
          /\ req'[s].version = req[s].version /\ req'[s].fields = req[s].fields
      BY <1>1, <2>2 DEF RequestType
    <3>3. Quiet(s)
      BY <1>1, <3>1, <3>2 DEF Quiet, Carried, Values, Saving, Locked, Opener
    <3>4. Forms' /\ UNCHANGED <<record, version, raced>>
      BY <3>3, QuietForms
    <3>5. \A r \in Slot : /\ Locked(r)' = Locked(r) /\ Checked(r)' = Checked(r)
                          /\ req'[r].kind = req[r].kind
                          /\ req'[r].version = req[r].version
                          /\ req'[r].fields = req[r].fields
      BY <3>1, <3>2 DEF Locked, Checked
    <3>6. OneLocked' /\ SaveIsCurrent' /\ SaveIsFresh'
      BY <3>1, <3>4, <3>5 DEF Inv, SaveInv, OneLocked, SaveIsCurrent, SaveIsFresh
    <3>7. TakenIsElement'
      BY <3>1, <3>2 DEF Inv, SaveInv, TakenIsElement
    <3> QED
      BY <3>4, <3>6, <3>7 DEF SaveInv
  <2>3. \/ Server!Go(s, "error") /\ Server!Release
        \/ /\ UNCHANGED rowLock
           /\ \E c : req' = [req EXCEPT ![s].stage = "applied", ![s].md = c]
    BY <1>13 DEF Server!Apply
  <2>4. ASSUME NEW c, req' = [req EXCEPT ![s].stage = "applied", ![s].md = c]
        PROVE  c \in Client!Content
    <3>1. req'[s].md = c
      BY <1>1, <2>4 DEF RequestType
    <3>2. req'[s] \in RequestType
      BY DEF Typing
    <3> QED
      BY <3>1, <3>2 DEF RequestType
  <2> QED
    BY <2>1, <2>2, <2>3, <2>4
<1>14. CASE Server!Write(s)
  <2>1. /\ req[s].stage = "applied" /\ UNCHANGED version
        /\ \A r \in Slot \ {s} : req'[r] = req[r]
        /\ req'[s].kind = req[s].kind
        /\ \/ req'[s].stage = "ok" /\ req[s].kind = "finish"
           \/ req'[s].stage = "reading"
    BY <1>1, <1>14 DEF Server!Write, Server!Go, Server!At, RequestType
  <2>2. Carried(s)' = 0 /\ ~Opener(s) /\ ~Locked(s)'
    BY <2>1 DEF Carried, Saving, Opening, Locked, Opener, Client!Reloads
  <2>3. UNCHANGED raced
    BY <2>1, <2>2, NotRaced DEF Opener
  <2>4. \A r \in Slot \ {s} : Carried(r)' = Carried(r)
    BY <2>1 DEF Carried, Saving, Opening, Locked
  <2>5. Bounded' /\ CarriedOnce'
    BY <1>1, <2>1, <2>2, <2>4 DEF Inv, Forms, Bounded, CarriedOnce
  <2>6. Fresh'
    <3>1. version \notin raced => Carried(s) = version
      BY <2>1 DEF Inv, SaveInv, SaveIsCurrent, Checked, Carried, Saving, Locked
    <3>2. version \notin raced =>
            /\ \A w \in Window : panel[w].version # version
            /\ \A r \in Slot : Carried(r)' # version
      BY <1>1, <2>2, <2>4, <3>1 DEF Inv, Forms, CarriedOnce
    <3> QED
      BY <1>1, <2>1, <2>3, <3>2 DEF Fresh
  <2>7. \A r \in Slot : ~Locked(r)' /\ ~Checked(r)'
    BY <2>1, <2>2 DEF Inv, SaveInv, OneLocked, Locked, Checked
  <2>8. TakenIsElement'
    BY <2>1 DEF Inv, SaveInv, TakenIsElement
  <2> QED
    BY <2>5, <2>6, <2>7, <2>8
    DEF Forms, SaveInv, OneLocked, SaveIsCurrent, SaveIsFresh
<1>15. CASE Server!Bump(s)
  <2>1. /\ req[s].stage = "read" /\ version' = version + 1 /\ UNCHANGED record
        /\ \A r \in Slot \ {s} : req'[r] = req[r]
        /\ UNCHANGED rowLock
    BY <1>1, <1>15 DEF Server!Bump
  <2>2. /\ req'[s].stage = "bumped" /\ req'[s].kind = req[s].kind
        /\ req'[s].opened = version' /\ req'[s].md = req[s].md
    <3>1. req' = [req EXCEPT ![s].stage = "bumped", ![s].holds = Len(doc'),
                             ![s].opened = version']
      BY <1>15 DEF Server!Bump
    <3> QED
      BY <1>1, <3>1 DEF RequestType
  <2>3. Carried(s)' = version + 1 /\ Values(s)' = req[s].md.values /\ ~Locked(s)'
    BY <2>1, <2>2 DEF Carried, Values, Saving, Opening, Locked
  <2>4. \A r \in Slot \ {s} : Carried(r)' = Carried(r) /\ Carried(r) <= version
    BY <2>1 DEF Carried, Saving, Opening, Locked, Inv, Forms, Bounded
  <2>5. \A w \in Window : panel'[w].version <= version
    BY <1>1 DEF Inv, Forms, Bounded
  <2>6. Bounded' /\ CarriedOnce'
    BY <1>1, <2>1, <2>3, <2>4, <2>5 DEF Bounded, CarriedOnce
  <2>7. /\ raced \subseteq raced'
        /\ PastCheck \/ req[s].md # record => version' \in raced'
    BY <2>1, <2>2 DEF History, Opener
  <2>8. Fresh'
    <3>1. version' \notin raced' => Values(s)' = record.values
      BY <2>3, <2>7
    <3>2. /\ \A w \in Window : panel'[w].version # version'
          /\ \A r \in Slot \ {s} : Carried(r)' # version'
      BY <1>1, <2>1, <2>4, <2>5
    <3> QED
      BY <2>1, <3>1, <3>2 DEF Fresh
  <2>9. \A r \in Slot : Locked(r)' => r # s /\ req'[r] = req[r] /\ Locked(r)
    BY <2>1, <2>3 DEF Locked
  <2>10. \A r \in Slot : Checked(r)' => req'[r] = req[r] /\ Checked(r)
    BY <2>9 DEF Checked, Locked
  <2>11. OneLocked'
    BY <2>1, <2>9 DEF Inv, SaveInv, OneLocked
  <2>12. SaveIsCurrent'
    BY <2>7, <2>10 DEF SaveIsCurrent, PastCheck, Checked
  <2>13. SaveIsFresh'
    BY <2>1, <2>7, <2>10 DEF Inv, SaveInv, SaveIsFresh
  <2>14. TakenIsElement'
    BY <2>1, <2>2 DEF Inv, SaveInv, TakenIsElement
  <2> QED
    BY <2>6, <2>8, <2>11, <2>12, <2>13, <2>14 DEF Forms, SaveInv
<1> QED
  BY <1>3, <1>4, <1>5, <1>6, <1>7, <1>9, <1>10, <1>11, <1>12, <1>13, <1>14, <1>15
  DEF Server!ServerStep, Server!Serve

LEMMA InvStep == Inv /\ [Next]_vars => Inv'
<1> SUFFICES ASSUME Inv, [Next]_vars PROVE Inv'
  OBVIOUS
<1>1. Typing'
  BY TypingStep DEF Inv
<1>2. CASE UNCHANGED vars
  BY <1>1, <1>2
  DEF vars, Inv, Forms, Bounded, CarriedOnce, Fresh, SaveInv, OneLocked,
      TakenIsElement, SaveIsCurrent, SaveIsFresh, Carried, Values, Saving,
      Opening, Locked, Checked
<1>3. CASE Next
  BY <1>1, <1>3, ClientStep, ServerStep DEF Next, Inv
<1> QED
  BY <1>2, <1>3

\* The invariant holds in every state
THEOREM Invariant == Spec => []Inv
<1> QED
  BY InitInv, InvStep, PTL DEF Spec

\* Whatever the windows, the sessions and the requests in flight, a save that
\* writes all its fields drops a committed value only when its form was given its
\* version in a race: LossNeedsRace
THEOREM LossOnlyInRace == Spec => LossNeedsRace
<1> DEFINE Lost(s) == /\ req[s].stage = "applied"
                      /\ req'[s].stage # "applied"
                      /\ \/ req[s].version \in raced
                         \/ ~(req[s].fields \subseteq req[s].md.values)
           A == record.values \subseteq record'.values \/ \E s \in Slot : Lost(s)
<1>1. Inv /\ [Next]_vars => [A]_vars
  <2> SUFFICES ASSUME Inv, Next PROVE A
    OBVIOUS
  <2>1. CASE UNCHANGED record
    BY <2>1
  <2>2. ASSUME NEW s \in Slot, Server!Write(s)
        PROVE  A
    <3>1. /\ req[s].stage = "applied" /\ record' = req[s].md
          /\ req'[s].stage # "applied"
      BY <2>2 DEF Server!Write, Server!At, Server!Go, Inv, Typing, RequestType
    <3>2. req[s].version \notin raced => record.values \subseteq req[s].fields
      BY <3>1 DEF Inv, SaveInv, SaveIsFresh, Checked
    <3> QED
      BY <3>1, <3>2
  <2>3. UNCHANGED record \/ \E s \in Slot : Server!Write(s)
    BY DEF Next, ByClient, ByServer, serverVars, Server!ServerNext,
           Server!ServerStep, Server!Serve, Server!NoParameters, Server!Lock,
           Server!LockTimeout, Server!Check, Server!Apply, Server!WriteFails,
           Server!Forget, Server!Read, Server!Bump, Server!Store, Server!Take,
           Server!Put, Server!serverVars
  <2> QED
    BY <2>1, <2>2, <2>3
<1> QED
  BY <1>1, Invariant, PTL DEF Spec, LossNeedsRace
=============================================================================
