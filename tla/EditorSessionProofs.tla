------------------------- MODULE EditorSessionProofs --------------------------
(***************************************************************************)
(* What a session can rely on as long as its requests come one at a time   *)
(* and are waited for, for any number of windows, sessions, requests,      *)
(* values and elements: AppliedIsComplete and QuietSessionAgrees.          *)
(*                                                                         *)
(* Trees are not shared by sessions (Owned), and the request of a session  *)
(* is the only thing that changes its tree.  So it suffices to follow that *)
(* one request: the tree has its references whenever a save may pass the   *)
(* check (Complete), and with one window, form and tree show the same      *)
(* between requests and differ by what is under way within one (Agrees).   *)
(* At the end, the bounds of the types, which count requests and trees.    *)
(***************************************************************************)
EXTENDS EditorSystemProofs, FiniteSetTheorems

-----------------------------------------------------------------------------
(* The inductive invariant *)

User(s) == sessionOf[req[s].window]

\* Two requests at once, or one nobody waits for, are remembered
Tracked == \A u \in Session : Disturbs(u) => u \in disturbed

Shapes ==
  \A s \in Slot :
    /\ req[s].kind \in Client!ElementCalls
         => req[s].stage \in {"idle", "sent", "taken", "ok", "error"}
    /\ req[s].kind = "attribute" => req[s].elem = {}

\* The trees a session may change
Owns(u, i) == \/ copy[u] = i
              \/ \E s \in Slot : /\ req[s].stage \in {"taken", "bumped"}
                                 /\ User(s) = u /\ req[s].holds = i

Owned == \A i \in 1 .. Len(doc) : \A u, x \in Session : Owns(u, i) /\ Owns(x, i) => u = x

Usable(u) == copy[u] # 0 => doc[copy[u]].refs

\* A save finds the references of its form; a tree that is being stored has its own
Ready(u, s) ==
  /\ /\ req[s].stage \in {"sent", "locked"} /\ req[s].kind \in Server!Saves
     /\ req[s].version = version
     => Usable(u)
  /\ req[s].stage = "checked" =>
       /\ Usable(u)
       /\ \A w \in Window : sessionOf[w] = u => panel[w].version # version
  /\ req[s].stage = "applied" => req[s].fields \subseteq req[s].md.values
  /\ req[s].stage \in {"taken", "bumped"} => doc[req[s].holds].refs
  /\ req[s].stage = "ok" /\ req[s].kind \in Client!Reloads => Usable(u)

\* Who has the current version will find the references of the form
Complete(u) ==
  /\ \A w \in Window : sessionOf[w] = u /\ panel[w].version = version => Usable(u)
  /\ \A s \in Of(u) : Ready(u, s)

Alone(w) == \A o \in Window \ {w} : sessionOf[o] # sessionOf[w]

Matches(d, v, elems) == /\ d.version = v /\ d.refs /\ d.info
                        /\ d.content.elems = elems

Holds(u, v, elems) == copy[u] # 0 /\ Matches(doc[copy[u]], v, elems)

Shown(w) == Holds(sessionOf[w], panel[w].version, panel[w].shows.elems)

\* What the form will show when the element request is answered
After(s, w) == IF req[s].kind = "delete" THEN panel[w].shows.elems \ req[s].elem
                                         ELSE panel[w].shows.elems \cup req[s].elem

ElementAgrees(s, w) ==
  /\ panel[w].form /\ req[s].version = panel[w].version
  /\ req[s].kind = "delete" => req[s].elem \subseteq panel[w].shows.elems
  /\ req[s].stage \in {"sent", "error"} => Shown(w)
  /\ req[s].stage = "taken" =>
       /\ copy[sessionOf[w]] = req[s].holds
       /\ Matches([doc[req[s].holds] EXCEPT !.info = TRUE], panel[w].version, After(s, w))
  /\ req[s].stage = "ok" => Holds(sessionOf[w], panel[w].version, After(s, w))

FormAgrees(s, w) ==
  /\ ~panel[w].form
  /\ req[s].stage = "bumped"
       => Matches(doc[req[s].holds], req[s].opened, req[s].md.elems)
  /\ req[s].stage = "ok" /\ req[s].kind \in Client!Reloads
       => Holds(sessionOf[w], req[s].opened, req[s].md.elems)

Agrees(w) ==
  /\ Of(sessionOf[w]) = {} /\ panel[w].form => Shown(w)
  /\ \A s \in Of(sessionOf[w]) :
       IF req[s].kind \in Client!ElementCalls THEN ElementAgrees(s, w) ELSE FormAgrees(s, w)

Calm(u) == /\ Complete(u)
           /\ \A w \in Window : sessionOf[w] = u /\ Alone(w) => Agrees(w)

AllCalm == \A u \in Session \ disturbed : Calm(u)

UInv == Tracked /\ Shapes /\ Owned /\ AllCalm

-----------------------------------------------------------------------------
(* The requests of a session that is not disturbed *)

LEMMA AtMostOne ==
  ASSUME NEW S, S \subseteq Slot, ~(Cardinality(S) > 1)
  PROVE  \A a, b \in S : a = b
<1> SUFFICES ASSUME NEW a \in S, NEW b \in S, a # b PROVE FALSE
  OBVIOUS
<1>1. IsFiniteSet(S)
  BY SlotAssumption, FS_Subset
<1>2. IsFiniteSet({a}) /\ Cardinality({a}) = 1
  BY FS_Singleton
<1>3. IsFiniteSet({a} \cup {b}) /\ Cardinality({a} \cup {b}) = 2
  <2>1. /\ IsFiniteSet({a} \cup {b})
        /\ Cardinality({a} \cup {b}) = IF b \in {a} THEN Cardinality({a})
                                                    ELSE Cardinality({a}) + 1
    BY <1>2, FS_AddElement
  <2>2. b \notin {a}
    OBVIOUS
  <2> QED
    BY <1>2, <2>1, <2>2
<1>4. {a} \cup {b} \subseteq S
  OBVIOUS
<1>5. Cardinality({a} \cup {b}) <= Cardinality(S) /\ Cardinality(S) \in Nat
  BY <1>1, <1>4, FS_Subset, FS_CardinalityType
<1> QED
  BY <1>3, <1>5

LEMMA OneRequest ==
  ASSUME Tracked, NEW u \in Session \ disturbed
  PROVE  \A s, r \in Of(u) : s = r /\ req[s].listening
<1>1. ~Disturbs(u)
  BY DEF Tracked
<1>2. Of(u) \subseteq Slot
  BY DEF Of
<1> QED
  BY <1>1, <1>2, AtMostOne DEF Disturbs

\* ... and the same after a step
LEMMA OneRequestNext ==
  ASSUME History, NEW u \in Session \ disturbed', UNCHANGED sessionOf
  PROVE  /\ u \notin disturbed
         /\ \A s, r \in Slot : /\ req'[s].stage # "idle" /\ User(s)' = u
                               /\ req'[r].stage # "idle" /\ User(r)' = u
                               => s = r /\ req'[s].listening
<1>1. ~Disturbs(u)' /\ u \notin disturbed
  BY DEF History
<1>2. Of(u)' \subseteq Slot
  BY DEF Of
<1>3. \A s, r \in Of(u)' : s = r
  BY <1>1, <1>2, AtMostOne DEF Disturbs
<1>4. \A s \in Of(u)' : req'[s].listening
  BY <1>1 DEF Disturbs
<1> QED
  BY <1>1, <1>3, <1>4 DEF Of, Busy, User

LEMMA TrackedStep == History => Tracked'
BY DEF History, Tracked

-----------------------------------------------------------------------------
(* A session nobody acts for *)

LEMMA Elsewhere ==
  ASSUME Inv, Owned, NEW u \in Session, Calm(u), UNCHANGED sessionOf,
         \A w \in Window : sessionOf[w] = u =>
            /\ panel'[w].form = panel[w].form /\ panel'[w].version = panel[w].version
            /\ panel'[w].shows.elems = panel[w].shows.elems,
         \A r \in Slot : (r \in Of(u) \/ r \in Of(u)') => req'[r] = req[r],
         copy'[u] = copy[u],
         \A i \in 1 .. Len(doc) : Owns(u, i) => doc'[i] = doc[i],
         version' = version \/ version' = version + 1
  PROVE  Calm(u)'
<1>1. Of(u)' = Of(u) /\ \A s \in Of(u) : req'[s] = req[s] /\ s \in Slot
  BY DEF Of, Busy, User
<1>2. copy[u] # 0 => doc'[copy[u]] = doc[copy[u]]
  <2>1. copy[u] \in 0 .. Len(doc) /\ Len(doc) \in Nat
    BY LenProperties DEF Inv, Typing
  <2>2. Owns(u, copy[u])
    BY DEF Owns
  <2> QED
    BY <2>1, <2>2
<1>3. \A s \in Of(u) : req[s].stage \in {"taken", "bumped"}
         => doc'[req[s].holds] = doc[req[s].holds]
  <2> SUFFICES ASSUME NEW s \in Of(u), req[s].stage \in {"taken", "bumped"}
               PROVE  doc'[req[s].holds] = doc[req[s].holds]
    OBVIOUS
  <2>1. s \in Slot /\ User(s) = u /\ req[s].holds \in 1 .. Len(doc)
    BY <1>1 DEF Of, User, Inv, Typing
  <2>2. Owns(u, req[s].holds)
    BY <2>1 DEF Owns
  <2> QED
    BY <2>1, <2>2
<1>4. \A w \in Window : sessionOf[w] = u /\ panel[w].version = version'
         => version' = version
  <2>1. \A w \in Window : panel[w].version <= version
    BY DEF Inv, Forms, Bounded
  <2>2. version \in Nat /\ \A w \in Window : panel[w].version \in Nat
    BY DEF Inv, Typing, PanelType
  <2> QED
    BY <2>1, <2>2
<1>5. Usable(u)' <=> Usable(u)
  BY <1>2 DEF Usable
<1>6. \A s \in Of(u) : /\ req[s].stage \in {"sent", "locked"} /\ req[s].kind \in Server!Saves
                       /\ req[s].version = version'
                       => version' = version
  <2> SUFFICES ASSUME NEW s \in Of(u), req[s].stage \in {"sent", "locked"},
                      req[s].kind \in Server!Saves, req[s].version = version'
               PROVE  version' = version
    OBVIOUS
  <2>1. s \in Slot /\ Carried(s) = req[s].version
    BY <1>1 DEF Carried, Saving, Locked
  <2>2. Carried(s) <= version
    BY <2>1 DEF Inv, Forms, Bounded
  <2> QED
    BY <2>1, <2>2 DEF Inv, Typing
<1>7. Complete(u)'
  <2>1. \A w \in Window : sessionOf[w] = u /\ panel'[w].version = version' => Usable(u)'
    BY <1>4, <1>5 DEF Calm, Complete
  <2>2. ASSUME NEW s \in Of(u) PROVE Ready(u, s)'
    BY <1>1, <1>3, <1>4, <1>5, <1>6 DEF Calm, Complete, Ready
  <2> QED
    BY <1>1, <2>1, <2>2 DEF Complete
<1>8. ASSUME NEW w \in Window, sessionOf[w] = u, Alone(w)' PROVE Agrees(w)'
  <2>1. Agrees(w)
    BY <1>8 DEF Calm, Alone
  <2>2. \A v, e : Holds(u, v, e)' <=> Holds(u, v, e)
    BY <1>2 DEF Holds, Matches
  <2>3. Shown(w)' <=> Shown(w)
    BY <1>8, <2>2 DEF Shown
  <2>4. ASSUME NEW s \in Of(u)
        PROVE  /\ ElementAgrees(s, w) => ElementAgrees(s, w)'
               /\ FormAgrees(s, w) => FormAgrees(s, w)'
    <3>1. req'[s] = req[s] /\ After(s, w)' = After(s, w)
      BY <1>1, <1>8 DEF After
    <3>2. ElementAgrees(s, w) => ElementAgrees(s, w)'
      BY <1>3, <1>8, <2>2, <2>3, <3>1 DEF ElementAgrees, Matches
    <3>3. FormAgrees(s, w) => FormAgrees(s, w)'
      BY <1>3, <1>8, <2>2, <3>1 DEF FormAgrees, Matches
    <3> QED
      BY <3>2, <3>3
  <2> QED
    BY <1>1, <1>8, <2>1, <2>3, <2>4 DEF Agrees
<1> QED
  BY <1>7, <1>8 DEF Calm

-----------------------------------------------------------------------------
(* Steps of the client *)

\* A request that is sent or answered for window w in slot s leaves the other
\* sessions alone
LEMMA ClientElsewhere ==
  ASSUME Inv, UInv, Next, NEW s \in Slot, NEW w \in Window,
         NEW u \in Session \ disturbed', u # sessionOf[w],
         \A x \in Window : sessionOf[x] = u =>
            /\ panel'[x].form = panel[x].form /\ panel'[x].version = panel[x].version
            /\ panel'[x].shows.elems = panel[x].shows.elems,
         \A r \in Slot \ {s} : req'[r] = req[r],
         req[s].stage = "idle" \/ req[s].window = w,
         req'[s].stage = "idle" \/ req'[s].window = w,
         UNCHANGED serverVars
  PROVE  Calm(u)'
<1>1. UNCHANGED sessionOf /\ u \in Session \ disturbed
  BY DEF Next, History
<1>2. Calm(u)
  BY <1>1 DEF UInv, AllCalm
<1>3. \A r \in Slot : (r \in Of(u) \/ r \in Of(u)') => req'[r] = req[r]
  BY <1>1 DEF Of, Busy
<1>4. copy' = copy /\ doc' = doc /\ version' = version
  BY DEF serverVars
<1> QED
  BY <1>1, <1>2, <1>3, <1>4, Elsewhere DEF UInv

\* The user types
LEMMA TypeCalm ==
  ASSUME Inv, UInv, Next, NEW w \in Window, Client!Type(w), UNCHANGED serverVars
  PROVE  AllCalm'
<1> SUFFICES ASSUME NEW u \in Session \ disturbed' PROVE Calm(u)'
  BY DEF AllCalm
<1>1. UNCHANGED sessionOf /\ u \in Session \ disturbed
  BY DEF Next, History
<1>2. Calm(u)
  BY <1>1 DEF UInv, AllCalm
<1>3. UNCHANGED req /\ \E e : panel' = [panel EXCEPT ![w].shows.values = @ \cup {e}]
  BY DEF Client!Type
<1>4. \A x \in Window :
        /\ panel'[x].form = panel[x].form /\ panel'[x].version = panel[x].version
        /\ panel'[x].shows.elems = panel[x].shows.elems
  BY <1>3 DEF Inv, Typing, PanelType, Client!Content
<1>5. copy' = copy /\ doc' = doc /\ version' = version
  BY DEF serverVars
<1> QED
  BY <1>1, <1>2, <1>3, <1>4, <1>5, Elsewhere DEF UInv

\* A request that times out disturbs its session
LEMMA TimeoutCalm ==
  ASSUME Inv, UInv, Next, NEW s \in Slot, Client!Timeout(s), UNCHANGED serverVars
  PROVE  AllCalm'
<1> SUFFICES ASSUME NEW u \in Session \ disturbed' PROVE Calm(u)'
  BY DEF AllCalm
<1>1. PICK w \in Window : w = req[s].window
  BY DEF Client!Timeout, Inv, Typing
<1>2. /\ req' = [req EXCEPT ![s].listening = FALSE] /\ req[s].stage # "idle"
      /\ panel' \in {panel, [panel EXCEPT ![w].toolbar = TRUE],
                     [panel EXCEPT ![w].toolbar = TRUE, ![w].open = FALSE]}
  BY <1>1 DEF Client!Timeout
<1>3. /\ \A r \in Slot \ {s} : req'[r] = req[r]
      /\ req'[s].stage # "idle" /\ req'[s].window = w /\ ~req'[s].listening
  BY <1>1, <1>2 DEF Inv, Typing, RequestType
<1>4. \A x \in Window :
        /\ panel'[x].form = panel[x].form /\ panel'[x].version = panel[x].version
        /\ panel'[x].shows.elems = panel[x].shows.elems
  <2>1. panel \in [Window -> PanelType]
    BY DEF Inv, Typing
  <2>2. \A x \in Window \ {w} : panel'[x] = panel[x]
    BY <1>2, <2>1
  <2>3. panel'[w] \in {panel[w], [panel[w] EXCEPT !.toolbar = TRUE],
                       [panel[w] EXCEPT !.toolbar = TRUE, !.open = FALSE]}
    BY <1>2, <2>1
  <2>4. panel[w] \in PanelType
    BY <2>1
  <2>5. /\ panel'[w].form = panel[w].form /\ panel'[w].version = panel[w].version
        /\ panel'[w].shows = panel[w].shows
    BY <2>3, <2>4 DEF PanelType
  <2> QED
    BY <2>2, <2>5
<1>5. u # sessionOf[w]
  BY <1>3, OneRequestNext DEF Next, User
<1> QED
  BY <1>1, <1>3, <1>4, <1>5, ClientElsewhere

\* The session whose window sends had no request in flight, and has one now
LEMMA SenderAlone ==
  ASSUME Inv, UInv, Next, NEW s \in Slot, NEW w \in Window, sessionOf[w] \notin disturbed',
         req[s].stage = "idle", req'[s].stage # "idle", req'[s].window = w,
         \A r \in Slot \ {s} : req'[r] = req[r]
  PROVE  Of(sessionOf[w]) = {} /\ Of(sessionOf[w])' = {s}
<1>1. UNCHANGED sessionOf /\ sessionOf[w] \in Session \ disturbed'
  BY DEF Next, Inv, Typing
<1>2. \A r, q \in Slot : /\ req'[r].stage # "idle" /\ User(r)' = sessionOf[w]
                         /\ req'[q].stage # "idle" /\ User(q)' = sessionOf[w]
                         => r = q
  BY <1>1, OneRequestNext DEF Next
<1>3. req'[s].stage # "idle" /\ User(s)' = sessionOf[w]
  BY <1>1 DEF User
<1>4. \A r \in Slot \ {s} : req[r].stage # "idle" => User(r) # sessionOf[w]
  BY <1>1, <1>2, <1>3 DEF User
<1> QED
  BY <1>1, <1>3, <1>4 DEF Of, Busy, User

\* A request of the form, or for the form
LEMMA LoadUrlCalm ==
  ASSUME Inv, UInv, Next, NEW s \in Slot, NEW w \in Window, NEW p,
         NEW k \in Client!Reloads \cup Client!Closes,
         p.form \in BOOLEAN, panel' = [panel EXCEPT ![w] = Client!Wiped(p)], p \in PanelType,
         req' = [req EXCEPT ![s] = Client!FormRequest(w, k)],
         \/ req[s].stage = "idle"
         \/ req[s].window = w /\ (sessionOf[w] \notin disturbed' => Of(sessionOf[w]) = {s}),
         UNCHANGED serverVars
  PROVE  AllCalm'
<1> SUFFICES ASSUME NEW u \in Session \ disturbed' PROVE Calm(u)'
  BY DEF AllCalm
<1>1. UNCHANGED sessionOf /\ u \in Session \ disturbed /\ Calm(u)
  BY DEF Next, History, UInv, AllCalm
<1>2. copy' = copy /\ doc' = doc /\ version' = version
  BY DEF serverVars
<1>3. /\ \A r \in Slot \ {s} : req'[r] = req[r]
      /\ req'[s].stage = "sent" /\ req'[s].window = w /\ req'[s].kind = k
      /\ req'[s].version = panel[w].version
  BY DEF Client!FormRequest, Client!IdleRequest, Inv, Typing
<1>4. /\ \A x \in Window \ {w} : panel'[x] = panel[x]
      /\ ~panel'[w].form /\ panel'[w].version = 0
  BY DEF Client!Wiped, Client!NoVersion, Inv, Typing, PanelType
<1>5. CASE u # sessionOf[w]
  <2>1. \A x \in Window : sessionOf[x] = u => panel'[x] = panel[x]
    BY <1>4, <1>5
  <2> QED
    BY <1>3, <1>5, <2>1, ClientElsewhere
<1>6. CASE u = sessionOf[w]
  <2>1. Of(u)' = {s}
    <3>1. CASE req[s].stage = "idle"
      <4>1. sessionOf[w] \notin disturbed' /\ req'[s].stage # "idle"
        BY <1>3, <1>6
      <4>2. Of(sessionOf[w])' = {s}
        BY <1>3, <3>1, <4>1, SenderAlone
      <4> QED
        BY <1>1, <1>6, <4>2 DEF Of
    <3>2. CASE Of(u) = {s}
      BY <1>1, <1>3, <1>6, <3>2 DEF Of, Busy
    <3> QED
      BY <1>6, <3>1, <3>2
  <2>2. version # 0
    BY DEF Inv, Typing
  <2>3. Usable(u)' <=> Usable(u)
    BY <1>2 DEF Usable
  <2>4. \A x \in Window : sessionOf[x] = u /\ panel'[x].version = version'
          => panel[x].version = version
    BY <1>2, <1>4, <2>2
  <2>5. Complete(u)'
    BY <1>1, <1>2, <1>3, <1>6, <2>1, <2>3, <2>4 DEF Calm, Complete, Ready
  <2>6. ASSUME NEW x \in Window, sessionOf[x] = u, Alone(x)' PROVE Agrees(x)'
    <3>1. x = w
      BY <1>1, <1>6, <2>6 DEF Alone
    <3>2. k \notin Client!ElementCalls
      BY DEF Client!Reloads, Client!Closes, Client!ElementCalls
    <3> QED
      BY <1>1, <1>3, <1>4, <1>6, <2>1, <3>1, <3>2 DEF Agrees, FormAgrees
  <2> QED
    BY <1>1, <2>5, <2>6 DEF Calm
<1> QED
  BY <1>5, <1>6

\* A request for an element
LEMMA ElementRequestCalm ==
  ASSUME Inv, UInv, Next, NEW s \in Slot, NEW w \in Window, NEW k \in Client!ElementCalls,
         NEW x \in SUBSET Element, k = "delete" => x \subseteq panel[w].shows.elems,
         Client!ElementRequest(w, s, k, x), UNCHANGED serverVars
  PROVE  AllCalm'
<1> SUFFICES ASSUME NEW u \in Session \ disturbed' PROVE Calm(u)'
  BY DEF AllCalm
<1>1. UNCHANGED sessionOf /\ u \in Session \ disturbed /\ Calm(u)
  BY DEF Next, History, UInv, AllCalm
<1>2. copy' = copy /\ doc' = doc /\ version' = version /\ panel' = panel
  BY DEF serverVars, Client!ElementRequest
<1>3. /\ \A r \in Slot \ {s} : req'[r] = req[r]
      /\ req'[s].stage = "sent" /\ req'[s].window = w /\ req'[s].kind = k
      /\ req'[s].version = panel[w].version /\ req'[s].elem = x
      /\ req[s].stage = "idle" /\ panel[w].form
  BY DEF Client!ElementRequest, Client!Free, Client!IdleRequest, Inv, Typing
<1>4. CASE u # sessionOf[w]
  BY <1>2, <1>3, <1>4, ClientElsewhere
<1>5. CASE u = sessionOf[w]
  <2>1. Of(u) = {} /\ Of(u)' = {s}
    <3>1. sessionOf[w] \notin disturbed' /\ req'[s].stage # "idle"
      BY <1>3, <1>5
    <3>2. Of(sessionOf[w]) = {} /\ Of(sessionOf[w])' = {s}
      BY <1>3, <3>1, SenderAlone
    <3> QED
      BY <1>1, <1>5, <3>2 DEF Of
  <2>2. Usable(u)' <=> Usable(u)
    BY <1>2 DEF Usable
  <2>3. k \notin Server!Saves
    BY DEF Server!Saves, Client!ElementCalls
  <2>4. Complete(u)'
    BY <1>1, <1>2, <1>3, <2>1, <2>2, <2>3 DEF Calm, Complete, Ready
  <2>5. ASSUME NEW y \in Window, sessionOf[y] = u, Alone(y)' PROVE Agrees(y)'
    <3>1. y = w /\ Alone(w)
      BY <1>1, <1>5, <2>5 DEF Alone
    <3>2. Shown(w)
      BY <1>1, <1>3, <1>5, <2>1, <3>1 DEF Calm, Agrees
    <3>3. Shown(w)'
      BY <1>1, <1>2, <3>2 DEF Shown, Holds, Matches
    <3> QED
      BY <1>1, <1>2, <1>3, <1>5, <2>1, <3>1, <3>3 DEF Agrees, ElementAgrees
  <2> QED
    BY <1>1, <2>4, <2>5 DEF Calm
<1> QED
  BY <1>4, <1>5

LEMMA SendCalm ==
  ASSUME Inv, UInv, Next, NEW s \in Slot, NEW w \in Window, Client!Send(w, s),
         UNCHANGED serverVars
  PROVE  AllCalm'
<1>1. ASSUME NEW k \in Client!Reloads \cup Client!Closes, NEW p \in PanelType,
             Client!LoadUrl(w, s, k, p)
      PROVE  AllCalm'
  <2>1. /\ panel' = [panel EXCEPT ![w] = Client!Wiped(p)]
        /\ req' = [req EXCEPT ![s] = Client!FormRequest(w, k)]
        /\ req[s].stage = "idle" /\ p.form \in BOOLEAN
    BY <1>1 DEF Client!LoadUrl, Client!Free, PanelType
  <2> QED
    BY <2>1, LoadUrlCalm
<1>2. panel[w] \in PanelType /\ [panel[w] EXCEPT !.open = TRUE] \in PanelType
  BY DEF Inv, Typing, PanelType
<1>3. CASE Client!Open(w, s) \/ Client!Save(w, s) \/ Client!Finish(w, s)
             \/ Client!Reset(w, s) \/ Client!Cancel(w, s)
  <2>1. \E k \in Client!Reloads \cup Client!Closes, p \in PanelType :
           Client!LoadUrl(w, s, k, p)
    BY <1>2, <1>3
    DEF Client!Open, Client!Save, Client!Finish, Client!Reset, Client!Cancel,
        Client!FromToolbar, Client!Reloads, Client!Closes
  <2> QED
    BY <1>1, <2>1
<1>4. CASE Client!AddElement(w, s) \/ Client!AddAttribute(w, s)
             \/ Client!RemoveElement(w, s)
  <2>1. panel[w].shows.elems \subseteq Element
    BY <1>2 DEF PanelType, Client!Content
  <2>2. ASSUME NEW k \in Client!ElementCalls, NEW x \in SUBSET Element,
               Client!ElementRequest(w, s, k, x),
               k = "delete" => x \subseteq panel[w].shows.elems
        PROVE  AllCalm'
    BY <2>2, ElementRequestCalm
  <2>3. {} \in SUBSET Element /\ \A x \in Element : {x} \in SUBSET Element
    OBVIOUS
  <2>4. /\ "add" \in Client!ElementCalls /\ "attribute" \in Client!ElementCalls
        /\ "delete" \in Client!ElementCalls
    BY DEF Client!ElementCalls
  <2>5. CASE Client!AddElement(w, s)
    <3>1. PICK x \in Element : Client!ElementRequest(w, s, "add", {x})
      BY <2>5 DEF Client!AddElement
    <3> QED
      BY <2>2, <2>3, <2>4, <3>1
  <2>6. CASE Client!AddAttribute(w, s)
    BY <2>2, <2>3, <2>4, <2>6 DEF Client!AddAttribute
  <2>7. CASE Client!RemoveElement(w, s)
    <3>1. PICK x \in panel[w].shows.elems : Client!ElementRequest(w, s, "delete", {x})
      BY <2>7 DEF Client!RemoveElement
    <3>2. {x} \in SUBSET Element /\ {x} \subseteq panel[w].shows.elems
      BY <2>1
    <3> QED
      BY <2>2, <2>4, <3>1, <3>2
  <2> QED
    BY <1>4, <2>5, <2>6, <2>7
<1> QED
  BY <1>3, <1>4 DEF Client!Send

\* The session whose request is answered waits for nothing else
LEMMA Answering ==
  ASSUME Inv, UInv, Next, NEW s \in Slot, NEW w \in Window, w = req[s].window,
         req[s].stage # "idle", sessionOf[w] \notin disturbed'
  PROVE  /\ Of(sessionOf[w]) = {s} /\ req[s].listening /\ Complete(sessionOf[w])
         /\ Alone(w) => IF req[s].kind \in Client!ElementCalls THEN ElementAgrees(s, w)
                                                               ELSE FormAgrees(s, w)
<1>1. sessionOf[w] \in Session \ disturbed
  BY DEF Next, History, Inv, Typing
<1>2. s \in Of(sessionOf[w])
  BY DEF Of, Busy
<1>3. Of(sessionOf[w]) = {s} /\ req[s].listening
  BY <1>1, <1>2, OneRequest DEF UInv
<1>4. Calm(sessionOf[w])
  BY <1>1 DEF UInv, AllCalm
<1> QED
  BY <1>3, <1>4 DEF Calm, Agrees

LEMMA AnsweredCalm ==
  ASSUME Inv, UInv, Next, NEW s \in Slot, NEW w \in Window, w = req[s].window,
         req[s].stage # "idle", Client!Clear(s), UNCHANGED serverVars,
         \A x \in Window \ {w} : panel'[x] = panel[x],
         sessionOf[w] \notin disturbed' =>
           /\ panel'[w].version = version => Usable(sessionOf[w])
           /\ Alone(w) /\ panel'[w].form =>
                Holds(sessionOf[w], panel'[w].version, panel'[w].shows.elems)
  PROVE  AllCalm'
<1> SUFFICES ASSUME NEW u \in Session \ disturbed' PROVE Calm(u)'
  BY DEF AllCalm
<1>1. UNCHANGED sessionOf /\ u \in Session \ disturbed /\ Calm(u)
  BY DEF Next, History, UInv, AllCalm
<1>2. copy' = copy /\ doc' = doc /\ version' = version
  BY DEF serverVars
<1>3. (\A r \in Slot \ {s} : req'[r] = req[r]) /\ req'[s].stage = "idle"
  BY DEF Client!Clear, Client!IdleRequest, Inv, Typing
<1>4. CASE u # sessionOf[w]
  BY <1>3, <1>4, ClientElsewhere
<1>5. CASE u = sessionOf[w]
  <2>1. Of(u) = {s}
    BY <1>5, Answering
  <2>2. Of(u)' = {}
    BY <1>1, <1>3, <2>1 DEF Of, Busy
  <2>3. Usable(u)' <=> Usable(u)
    BY <1>2 DEF Usable
  <2>4. \A x \in Window : sessionOf[x] = u /\ panel'[x].version = version => Usable(u)
    BY <1>1, <1>5 DEF Calm, Complete
  <2>5. Complete(u)'
    BY <1>1, <1>2, <2>2, <2>3, <2>4 DEF Complete, Ready
  <2>6. ASSUME NEW x \in Window, sessionOf[x] = u, Alone(x)' PROVE Agrees(x)'
    <3>1. x = w /\ Alone(w)
      BY <1>1, <1>5, <2>6 DEF Alone
    <3>2. panel'[w].form => Shown(w)'
      BY <1>1, <1>2, <1>5, <3>1 DEF Shown, Holds, Matches
    <3> QED
      BY <1>1, <1>5, <2>2, <3>1, <3>2 DEF Agrees
  <2> QED
    BY <1>1, <2>5, <2>6 DEF Calm
<1> QED
  BY <1>4, <1>5

LEMMA ReceiveCalm ==
  ASSUME Inv, UInv, Next, NEW s \in Slot, Client!Receive(s), UNCHANGED serverVars
  PROVE  AllCalm'
<1>1. PICK w : w = req[s].window
  OBVIOUS
<1>2. /\ req[s].stage \in {"ok", "error"}
      /\ w \in Window /\ panel[w] \in PanelType /\ panel \in [Window -> PanelType]
  BY <1>1 DEF Client!Receive, Client!Loaded, Client!LoadFailed, Client!Closed,
              Client!ElementAnswered, Client!AttributeAnswered,
              Client!Dropped, Inv, Typing
<1> DEFINE u == sessionOf[w]
           Waiting == u \notin disturbed'
<1>3. Waiting => /\ Of(u) = {s} /\ req[s].listening /\ Complete(u)
                 /\ Alone(w) => IF req[s].kind \in Client!ElementCalls
                                THEN ElementAgrees(s, w) ELSE FormAgrees(s, w)
  BY <1>1, <1>2, Answering
<1>4. u \in Session /\ s \in Slot
  BY <1>2 DEF Inv, Typing
\* A version that is not new is already the concern of Complete
<1>5. Waiting /\ panel[w].version = version => Usable(u)
  BY <1>2, <1>3 DEF Complete
<1>6. CASE Client!Loaded(s)
  <2>1. /\ req[s].kind \in Client!Reloads /\ req[s].stage = "ok" /\ Client!Clear(s)
        /\ panel' = [panel EXCEPT ![w] = [@ EXCEPT !.form = TRUE, !.version = req[s].opened,
                                                   !.shows = req[s].md, !.toolbar = TRUE]]
    BY <1>1, <1>6 DEF Client!Loaded
  <2>2. /\ panel'[w].version = req[s].opened /\ panel'[w].shows = req[s].md
        /\ \A x \in Window \ {w} : panel'[x] = panel[x]
    BY <1>2, <2>1 DEF PanelType
  <2>3. Waiting => Usable(u)
    BY <1>3, <2>1 DEF Complete, Ready
  <2>4. req[s].kind \notin Client!ElementCalls
    BY <2>1 DEF Client!Reloads, Client!ElementCalls
  <2>5. Waiting /\ Alone(w) => Holds(u, panel'[w].version, panel'[w].shows.elems)
    BY <1>3, <2>1, <2>2, <2>4 DEF FormAgrees
  <2> QED
    BY <1>1, <1>2, <2>1, <2>2, <2>3, <2>5, AnsweredCalm
<1>7. CASE Client!LoadFailed(s) \/ Client!Closed(s)
  <2>1. /\ req[s].kind \in Client!Reloads \cup Client!Closes /\ Client!Clear(s)
    BY <1>7 DEF Client!LoadFailed, Client!Closed
  <2>2. \E p \in {panel[w], Client!Wiped(panel[w])}, b \in BOOLEAN :
           panel' = [panel EXCEPT ![w] = [p EXCEPT !.open = b, !.toolbar = TRUE]]
    BY <1>1, <1>2, <1>7 DEF Client!LoadFailed, Client!Closed, PanelType
  <2>3. PICK p \in {panel[w], Client!Wiped(panel[w])}, b \in BOOLEAN :
           panel' = [panel EXCEPT ![w] = [p EXCEPT !.open = b, !.toolbar = TRUE]]
    BY <2>2
  <2>4. p \in PanelType
    BY <1>2, WipedType
  <2>5. /\ panel'[w].version = p.version /\ panel'[w].form = p.form
        /\ \A x \in Window \ {w} : panel'[x] = panel[x]
    BY <1>2, <2>3, <2>4 DEF PanelType
  <2>6. p = panel[w] \/ (p.version = 0 /\ ~p.form)
    BY <1>2 DEF Client!Wiped, Client!NoVersion, PanelType
  <2>7. req[s].kind \notin Client!ElementCalls /\ version # 0
    BY <2>1 DEF Client!Reloads, Client!Closes, Client!ElementCalls, Inv, Typing
  <2>8. Waiting /\ Alone(w) => ~panel'[w].form
    BY <1>3, <2>5, <2>6, <2>7 DEF FormAgrees
  <2>9. Waiting /\ panel'[w].version = version => Usable(u)
    BY <1>5, <2>5, <2>6, <2>7
  <2> QED
    BY <1>1, <1>2, <2>1, <2>5, <2>8, <2>9, AnsweredCalm
<1>8. CASE Client!ElementAnswered(s)
  <2>1. /\ req[s].kind \in {"add", "delete"} /\ Client!Clear(s)
        /\ panel' = IF req[s].stage = "ok" /\ panel[w].form /\ panel[w].version = req[s].version
                    THEN [panel EXCEPT ![w].shows.elems = After(s, w)]
                    ELSE panel
    BY <1>1, <1>8 DEF Client!ElementAnswered, Client!StillThere, After
  <2>2. panel' = panel \/ panel' = [panel EXCEPT ![w].shows.elems = After(s, w)]
    BY <2>1
  <2>3. \A x \in Window \ {w} : panel'[x] = panel[x]
    BY <1>2, <2>2
  <2>4. panel'[w].version = panel[w].version
    BY <1>2, <2>2 DEF PanelType
  <2>5. req[s].kind \in Client!ElementCalls
    BY <2>1 DEF Client!ElementCalls
  <2>6. Waiting /\ Alone(w) => Holds(u, panel'[w].version, panel'[w].shows.elems)
    <3> SUFFICES ASSUME Waiting, Alone(w)
                 PROVE  Holds(u, panel'[w].version, panel'[w].shows.elems)
      OBVIOUS
    <3>1. ElementAgrees(s, w)
      BY <1>3, <2>5
    <3>2. CASE req[s].stage = "ok"
      <4>1. panel' = [panel EXCEPT ![w].shows.elems = After(s, w)]
        BY <2>1, <3>1, <3>2 DEF ElementAgrees
      <4>2. panel'[w].shows.elems = After(s, w)
        BY <1>2, <4>1 DEF PanelType, Client!Content
      <4> QED
        BY <2>4, <3>1, <3>2, <4>2 DEF ElementAgrees
    <3>3. CASE req[s].stage = "error"
      BY <2>1, <3>1, <3>3 DEF ElementAgrees, Shown
    <3> QED
      BY <1>2, <3>2, <3>3
  <2>7. Waiting /\ panel'[w].version = version => Usable(u)
    BY <1>5, <2>4
  <2> QED
    BY <1>1, <1>2, <2>1, <2>3, <2>6, <2>7, AnsweredCalm
<1>9. CASE Client!AttributeAnswered(s)
  <2>1. req[s].kind = "attribute" /\ req[s].kind \in Client!ElementCalls
    BY <1>9 DEF Client!AttributeAnswered, Client!ElementCalls
  <2>2. CASE Client!Clear(s) /\ UNCHANGED panel
    <3>1. After(s, w) = panel[w].shows.elems
      BY <2>1 DEF After, UInv, Shapes
    <3>2. Waiting /\ Alone(w) => Holds(u, panel'[w].version, panel'[w].shows.elems)
      BY <1>2, <1>3, <2>1, <2>2, <3>1 DEF ElementAgrees, Shown
    <3> QED
      BY <1>1, <1>2, <1>5, <2>2, <3>2, AnsweredCalm
  <2>3. CASE /\ req' = [req EXCEPT ![s] = Client!FormRequest(w, "save")]
             /\ panel' = [panel EXCEPT ![w] = Client!Wiped(@)]
    <3>1. /\ panel' = [panel EXCEPT ![w] = Client!Wiped(panel[w])]
          /\ "save" \in Client!Reloads \cup Client!Closes
          /\ panel[w].form \in BOOLEAN
      BY <1>2, <2>3 DEF Client!Reloads, PanelType
    <3> QED
      BY <1>1, <1>2, <1>3, <2>3, <3>1, LoadUrlCalm
  <2> QED
    BY <1>1, <1>9, <2>2, <2>3 DEF Client!AttributeAnswered
<1>10. CASE Client!Dropped(s)
  <2>1. Client!Clear(s) /\ UNCHANGED panel /\ ~req[s].listening
    BY <1>10 DEF Client!Dropped
  <2> QED
    BY <1>1, <1>2, <1>3, <2>1, AnsweredCalm
<1> QED
  BY <1>6, <1>7, <1>8, <1>9, <1>10 DEF Client!Receive

-----------------------------------------------------------------------------
(* Steps of the server *)

\* None, one the session may change already, or a new one
Had(u, i) == i = 0 \/ Owns(u, i) \/ i > Len(doc)

\* A step for the request in slot s, of its session and nobody else
Serves(s) ==
  /\ req[s].stage # "idle" /\ req'[s].stage # "idle"
  /\ \A r \in Slot \ {s} : req'[r] = req[r]
  /\ req'[s].window = req[s].window /\ req'[s].kind = req[s].kind
  /\ req'[s].version = req[s].version /\ req'[s].elem = req[s].elem
  /\ req[s].kind \in Client!ElementCalls => req'[s].stage \in {"taken", "ok", "error"}
  /\ UNCHANGED <<panel, sessionOf>>
  /\ \A u \in Session \ {User(s)} : copy'[u] = copy[u]
  /\ Had(User(s), copy'[User(s)])
  /\ req'[s].stage \in {"taken", "bumped"} => Had(User(s), req'[s].holds)
  /\ \A i \in 1 .. Len(doc) : doc'[i] = doc[i] \/ Owns(User(s), i)
  /\ version' = version \/ version' = version + 1

LEMMA OwnedStep ==
  ASSUME Inv, Typing', Owned, NEW s \in Slot, Serves(s)
  PROVE  Owned'
<1>1. /\ \A r \in Slot : User(r)' = User(r)
      /\ Len(doc) \in Nat /\ Len(doc') \in Nat
  BY LenProperties DEF Serves, User, Inv, Typing
<1>2. User(s) \in Session
  BY DEF Serves, User, Inv, Typing
<1>3. ASSUME NEW i \in 1 .. Len(doc'), NEW u \in Session \ {User(s)}, Owns(u, i)'
      PROVE  Owns(u, i) /\ i \in 1 .. Len(doc)
  <2>1. CASE copy'[u] = i
    <3>1. copy[u] = i /\ copy[u] \in 0 .. Len(doc)
      BY <1>3, <2>1 DEF Serves, Inv, Typing
    <3> QED
      BY <1>1, <3>1 DEF Owns
  <2>2. ASSUME NEW r \in Slot, req'[r].stage \in {"taken", "bumped"}, User(r)' = u,
               req'[r].holds = i
        PROVE  Owns(u, i) /\ i \in 1 .. Len(doc)
    <3>1. r # s /\ User(r) = u
      BY <1>1, <1>3, <2>2
    <3>2. req'[r] = req[r]
      BY <3>1 DEF Serves
    <3> QED
      BY <2>2, <3>1, <3>2 DEF Owns, Inv, Typing
  <2> QED
    BY <1>3, <2>1, <2>2 DEF Owns
<1>4. ASSUME NEW i \in 1 .. Len(doc), Owns(User(s), i)'
      PROVE  Owns(User(s), i)
  <2>1. CASE copy'[User(s)] = i
    BY <1>1, <1>4, <2>1 DEF Serves, Had
  <2>2. ASSUME NEW r \in Slot, req'[r].stage \in {"taken", "bumped"}, User(r) = User(s),
               req'[r].holds = i
        PROVE  Owns(User(s), i)
    <3>1. CASE r = s
      BY <1>1, <1>4, <2>2, <3>1 DEF Serves, Had
    <3>2. CASE r # s
      BY <2>2, <3>2 DEF Serves, Owns
    <3> QED
      BY <3>1, <3>2
  <2> QED
    BY <1>1, <1>4, <2>1, <2>2 DEF Owns
<1> SUFFICES ASSUME NEW i \in 1 .. Len(doc'), NEW u \in Session, NEW x \in Session,
                    Owns(u, i)', Owns(x, i)', u # x
             PROVE  FALSE
  BY DEF Owned
<1>5. CASE u # User(s) /\ x # User(s)
  BY <1>3, <1>5 DEF Owned
<1>6. ASSUME NEW y \in Session \ {User(s)}, NEW z \in Session, z = User(s),
             Owns(y, i)', Owns(z, i)'
      PROVE  FALSE
  <2>1. Owns(y, i) /\ i \in 1 .. Len(doc)
    BY <1>3, <1>6
  <2>2. Owns(User(s), i)'
    BY <1>1, <1>6 DEF Owns
  <2>3. Owns(z, i)
    BY <1>4, <1>6, <2>1, <2>2
  <2> QED
    BY <1>6, <2>1, <2>3 DEF Owned
<1> QED
  BY <1>2, <1>5, <1>6

\* What a step owes the session it is made for, and only while it is not disturbed
Own(s, w) ==
  /\ \A x \in Window : sessionOf[x] = User(s) /\ panel[x].version = version'
                         => Usable(User(s))'
  /\ Ready(User(s), s)'
  /\ Alone(w) => IF req[s].kind \in Client!ElementCalls THEN ElementAgrees(s, w)'
                                                        ELSE FormAgrees(s, w)'

LEMMA ServedCalm ==
  ASSUME Inv, UInv, Next, NEW s \in Slot, Serves(s), NEW w \in Window, w = req[s].window,
         sessionOf[w] \notin disturbed' => Own(s, w)
  PROVE  AllCalm'
<1> SUFFICES ASSUME NEW u \in Session \ disturbed' PROVE Calm(u)'
  BY DEF AllCalm
<1>1. UNCHANGED sessionOf /\ u \in Session \ disturbed /\ Calm(u)
  BY DEF Next, History, UInv, AllCalm
<1>2. User(s) = sessionOf[w] /\ User(s)' = sessionOf[w] /\ sessionOf[w] \in Session
  BY <1>1 DEF User, Serves, Inv, Typing
<1>3. UNCHANGED panel /\ req[s].stage # "idle"
      /\ req'[s].kind = req[s].kind /\ (version' = version \/ version' = version + 1)
  BY DEF Serves
<1>4. CASE u # sessionOf[w]
  <2>1. \A r \in Slot : (r \in Of(u) \/ r \in Of(u)') => req'[r] = req[r]
    <3>1. s \notin Of(u) /\ s \notin Of(u)'
      BY <1>2, <1>4 DEF Of, User
    <3> QED
      BY <3>1 DEF Serves
  <2>2. \A i \in 1 .. Len(doc) : Owns(u, i) => doc'[i] = doc[i]
    BY <1>1, <1>2, <1>4 DEF Serves, UInv, Owned
  <2>3. copy'[u] = copy[u]
    BY <1>1, <1>2, <1>4 DEF Serves
  <2>4. Owned
    BY DEF UInv
  <2> QED
    BY <1>1, <1>3, <2>1, <2>2, <2>3, <2>4, Elsewhere
<1>5. CASE u = sessionOf[w]
  <2>1. Of(u) = {s}
    BY <1>3, <1>5, Answering
  <2>2. Of(u)' = {s}
    BY <1>1, <1>2, <1>5, <2>1 DEF Of, Busy, Serves, User
  <2>3. Own(s, w)
    BY <1>5
  <2>4. Complete(u)'
    BY <1>1, <1>2, <1>3, <1>5, <2>2, <2>3 DEF Own, Complete
  <2>5. ASSUME NEW x \in Window, sessionOf[x] = u, Alone(x)' PROVE Agrees(x)'
    <3>1. x = w /\ Alone(w)
      BY <1>1, <1>5, <2>5 DEF Alone
    <3> QED
      BY <1>1, <1>3, <1>5, <2>2, <2>3, <3>1 DEF Own, Agrees
  <2> QED
    BY <1>1, <2>4, <2>5 DEF Calm
<1> QED
  BY <1>4, <1>5

LEMMA ServedStep ==
  ASSUME Inv, UInv, Typing', Next, NEW s \in Slot, Serves(s), NEW w \in Window,
         w = req[s].window, sessionOf[w] \notin disturbed' => Own(s, w)
  PROVE  UInv'
<1>1. Tracked'
  BY TrackedStep DEF Next
<1>2. Shapes'
  BY DEF Serves, UInv, Shapes
<1>3. Owned'
  BY OwnedStep DEF UInv
<1>4. AllCalm'
  BY ServedCalm
<1> QED
  BY <1>1, <1>2, <1>3, <1>4 DEF UInv

\* The request of a step goes on
Moves(s) ==
  /\ req[s].stage # "idle" /\ req'[s].stage # "idle"
  /\ \A r \in Slot \ {s} : req'[r] = req[r]
  /\ req'[s].window = req[s].window /\ req'[s].kind = req[s].kind
  /\ req'[s].version = req[s].version /\ req'[s].elem = req[s].elem

LEMMA GoMoves ==
  ASSUME Inv, NEW s \in Slot, NEW g \in Stage \ {"idle"}, Server!Go(s, g),
         req[s].stage # "idle"
  PROVE  /\ Moves(s) /\ req'[s].stage = g /\ req'[s].opened = req[s].opened
         /\ req'[s].md = req[s].md /\ req'[s].holds = req[s].holds
<1>1. req \in [Slot -> RequestType] /\ req[s] \in RequestType
  BY DEF Inv, Typing
<1> DEFINE q == [req[s] EXCEPT !.stage = g]
<1>2. req' = [req EXCEPT ![s] = q]
  BY DEF Server!Go
<1>3. /\ q.stage = g /\ q.window = req[s].window /\ q.kind = req[s].kind
      /\ q.version = req[s].version /\ q.elem = req[s].elem
      /\ q.opened = req[s].opened /\ q.md = req[s].md /\ q.holds = req[s].holds
  BY <1>1 DEF RequestType
<1> HIDE DEF q
<1>4. req'[s] = q /\ \A r \in Slot \ {s} : req'[r] = req[r]
  BY <1>1, <1>2
<1> QED
  BY <1>3, <1>4 DEF Moves

\* A request of the form that touches no tree; a session may give up its own
LEMMA QuietCalm ==
  ASSUME Inv, UInv, Typing', Next, NEW s \in Slot, Moves(s),
         UNCHANGED <<panel, sessionOf, doc, version>>,
         copy' = copy \/ copy' = [copy EXCEPT ![User(s)] = 0],
         req[s].kind \notin Client!ElementCalls,
         req'[s].stage \in {"locked", "checked", "reading", "read", "ok", "error"},
         req'[s].stage = "ok" => req[s].kind \notin Client!Reloads,
         req'[s].stage = "locked" => req[s].stage = "sent",
         req'[s].stage = "checked" => /\ req[s].stage = "locked"
                                      /\ req[s].kind \in Server!Saves
                                      /\ req[s].version = version
  PROVE  UInv'
<1>1. PICK w \in Window : w = req[s].window
  BY DEF Moves, Inv, Typing
<1>2. User(s) = sessionOf[w] /\ User(s) \in Session /\ copy \in [Session -> 0 .. Len(doc)]
      /\ version # 0
  BY <1>1 DEF User, Inv, Typing
<1>3. /\ \A u \in Session \ {User(s)} : copy'[u] = copy[u]
      /\ copy'[User(s)] \in {0, copy[User(s)]}
  BY <1>2
<1>4. Serves(s)
  BY <1>3 DEF Serves, Moves, Had, Owns
<1>5. Usable(User(s)) => Usable(User(s))'
  <2>1. User(s)' = User(s)
    BY DEF User, Moves
  <2> QED
    BY <1>3, <2>1 DEF Usable
<1>6. ASSUME sessionOf[w] \notin disturbed' PROVE Own(s, w)
  <2>1. /\ Of(sessionOf[w]) = {s} /\ Complete(sessionOf[w])
        /\ Alone(w) => FormAgrees(s, w)
    BY <1>1, <1>6, Answering DEF Moves
  <2>2. \A x \in Window : sessionOf[x] = User(s) /\ panel[x].version = version'
                            => Usable(User(s))'
    BY <1>2, <1>5, <2>1 DEF Complete
  <2>3. Ready(User(s), s) /\ User(s)' = User(s)
    BY <1>2, <2>1 DEF Complete, User, Moves
  <2>4. req'[s].stage = "checked" =>
          \A x \in Window : panel[x].version # version
    <3>1. req'[s].stage = "checked" => Carried(s) = version
      BY DEF Carried, Saving, Locked
    <3> QED
      BY <3>1 DEF Inv, Forms, CarriedOnce
  <2>5. Ready(User(s), s)'
    BY <1>5, <2>3, <2>4 DEF Ready, Moves
  <2>6. FormAgrees(s, w) => FormAgrees(s, w)'
    BY DEF FormAgrees, Moves
  <2> QED
    BY <2>1, <2>2, <2>5, <2>6 DEF Own
<1> QED
  BY <1>1, <1>4, <1>6, ServedStep

LEMMA QuietActions ==
  ASSUME Inv, UInv, Typing', Next, UNCHANGED <<panel, sessionOf>>, NEW s \in Slot,
         \/ Server!NoParameters(s) \/ Server!Lock(s) \/ Server!LockTimeout(s)
         \/ Server!Check(s) \/ Server!Write(s) \/ Server!WriteFails(s)
         \/ Server!Forget(s) \/ Server!Read(s)
  PROVE  UInv'
<1>1. req \in [Slot -> RequestType] /\ req[s] \in RequestType
  BY DEF Inv, Typing
<1>2. req[s].stage # "idle" /\ req[s].kind \notin Client!ElementCalls
  BY DEF Server!NoParameters, Server!Lock, Server!LockTimeout, Server!Check,
         Server!Write, Server!WriteFails, Server!Forget, Server!Read, Server!At,
         Server!Updates, Server!Saves, Client!ElementCalls
<1>3. UNCHANGED <<doc, version>>
  BY DEF Server!NoParameters, Server!Lock, Server!LockTimeout, Server!Check,
         Server!Write, Server!WriteFails, Server!Forget, Server!Read,
         Server!serverVars
<1>4. copy' = copy \/ copy' = [copy EXCEPT ![User(s)] = 0]
  BY DEF Server!NoParameters, Server!Lock, Server!LockTimeout, Server!Check,
         Server!Write, Server!WriteFails, Server!Forget, Server!Read,
         Server!serverVars, Server!NoCopy, User
<1>5. ASSUME NEW g \in {"locked", "checked", "reading", "ok", "error"}, Server!Go(s, g),
             g = "ok" => req[s].kind \notin Client!Reloads,
             g = "locked" => req[s].stage = "sent",
             g = "checked" => /\ req[s].stage = "locked" /\ req[s].kind \in Server!Saves
                              /\ req[s].version = version
      PROVE  UInv'
  <2>1. g \in Stage \ {"idle"}
    BY <1>5 DEF Stage
  <2>2. Moves(s) /\ req'[s].stage = g
    BY <1>2, <1>5, <2>1, GoMoves
  <2> QED
    BY <1>2, <1>3, <1>4, <1>5, <2>2, QuietCalm
<1>6. CASE Server!NoParameters(s) \/ Server!LockTimeout(s) \/ Server!WriteFails(s)
  BY <1>5, <1>6 DEF Server!NoParameters, Server!LockTimeout, Server!WriteFails
<1>7. CASE Server!Lock(s)
  BY <1>5, <1>7 DEF Server!Lock, Server!At
<1>8. CASE Server!Check(s)
  BY <1>5, <1>8 DEF Server!Check, Server!At
<1>9. CASE Server!Write(s)
  BY <1>5, <1>9 DEF Server!Write, Client!Reloads
<1>10. CASE Server!Forget(s)
  BY <1>5, <1>10 DEF Server!Forget, Server!At, Client!Reloads
<1>11. CASE Server!Read(s)
  <2> DEFINE q == [req[s] EXCEPT !.stage = "read", !.md = record]
  <2>1. /\ q.stage = "read" /\ q.window = req[s].window /\ q.kind = req[s].kind
        /\ q.version = req[s].version /\ q.elem = req[s].elem
    BY <1>1 DEF RequestType
  <2>2. req' = [req EXCEPT ![s] = q]
    BY <1>11 DEF Server!Read
  <2> HIDE DEF q
  <2>3. Moves(s) /\ req'[s].stage = "read"
    BY <1>1, <1>2, <2>1, <2>2 DEF Moves
  <2> QED
    BY <1>2, <1>3, <1>4, <2>3, QuietCalm
<1> QED
  BY <1>6, <1>7, <1>8, <1>9, <1>10, <1>11

\* The fields are applied to the tree of the session
LEMMA ApplyCalm ==
  ASSUME Inv, UInv, Typing', Next, UNCHANGED <<panel, sessionOf>>, NEW s \in Slot,
         Server!Apply(s)
  PROVE  UInv'
<1>1. PICK w \in Window : w = req[s].window
  BY DEF Server!Apply, Server!At, Inv, Typing
<1>2. /\ req \in [Slot -> RequestType] /\ req[s] \in RequestType
      /\ req[s].stage = "checked" /\ req[s].kind \in Server!Saves
      /\ UNCHANGED <<version, copy>>
  BY DEF Server!Apply, Server!At, Inv, Typing
<1>3. /\ User(s) = sessionOf[w] /\ User(s) \in Session /\ Len(doc) \in Nat
      /\ copy[User(s)] \in 0 .. Len(doc) /\ \A i \in 1 .. Len(doc) : doc[i] \in DocType
  BY <1>1, LenProperties, ElementOfSeq DEF User, Inv, Typing
<1>4. req[s].kind \notin Client!ElementCalls /\ req[s].stage # "idle"
  BY <1>2 DEF Server!Saves, Client!ElementCalls
<1> DEFINE i == copy[User(s)]
           applied == IF doc[i].refs
                      THEN [doc[i].content EXCEPT !.values = req[s].fields]
                      ELSE doc[i].content
<1>5. CASE i = 0
  <2>1. Server!Go(s, "error") /\ UNCHANGED doc
    BY <1>5 DEF Server!Apply, Server!NoCopy, User
  <2>2. "error" \in Stage \ {"idle"}
    BY DEF Stage
  <2>3. Moves(s) /\ req'[s].stage = "error"
    BY <1>4, <2>1, <2>2, GoMoves
  <2> QED
    BY <1>2, <1>4, <2>1, <2>3, QuietCalm
<1>6. CASE i # 0
  <2>1. i \in 1 .. Len(doc) /\ doc[i] \in DocType
    BY <1>3, <1>6
  <2> DEFINE q == [req[s] EXCEPT !.stage = "applied", !.md = applied]
  <2>2. req' = [req EXCEPT ![s] = q] /\ \A j \in 1 .. Len(doc) \ {i} : doc'[j] = doc[j]
    BY <1>6, LenProperties DEF Server!Apply, Server!NoCopy, User, Inv, Typing
  <2>3. /\ q.stage = "applied" /\ q.window = req[s].window /\ q.kind = req[s].kind
        /\ q.version = req[s].version /\ q.elem = req[s].elem
        /\ q.fields = req[s].fields /\ q.md = applied
    BY <1>2 DEF RequestType
  <2> HIDE DEF q
  <2>4. Moves(s) /\ req'[s] = q
    BY <1>2, <2>2, <2>3 DEF Moves
  <2>5. Owns(User(s), i)
    BY DEF Owns
  <2>6. Serves(s)
    BY <1>2, <1>4, <2>2, <2>3, <2>4, <2>5 DEF Serves, Moves, Had
  <2>7. ASSUME sessionOf[w] \notin disturbed' PROVE Own(s, w)
    <3>1. /\ Of(sessionOf[w]) = {s} /\ Complete(sessionOf[w])
          /\ Alone(w) => FormAgrees(s, w)
      BY <1>1, <1>4, <2>7, Answering
    <3>2. Ready(User(s), s)
      BY <1>3, <3>1 DEF Complete
    <3>3. \A x \in Window : sessionOf[x] = User(s) => panel[x].version # version
      BY <1>2, <3>2 DEF Ready
    <3>4. doc[i].refs
      BY <1>2, <1>6, <3>2 DEF Ready, Usable
    <3>5. q.fields \subseteq q.md.values
      BY <2>1, <2>3, <3>4 DEF DocType, Client!Content
    <3>6. Ready(User(s), s)'
      BY <2>3, <2>4, <3>5 DEF Ready
    <3>7. FormAgrees(s, w) => FormAgrees(s, w)'
      BY <2>3, <2>4 DEF FormAgrees
    <3> QED
      BY <1>2, <1>4, <3>1, <3>3, <3>6, <3>7 DEF Own
  <2> QED
    BY <1>1, <2>6, <2>7, ServedStep
<1> QED
  BY <1>5, <1>6

\* The record that was read is given its version, and a tree of its own
LEMMA BumpCalm ==
  ASSUME Inv, UInv, Typing', Next, UNCHANGED <<panel, sessionOf>>, NEW s \in Slot,
         Server!Bump(s)
  PROVE  UInv'
<1>1. PICK w \in Window : w = req[s].window
  BY DEF Server!Bump, Inv, Typing
<1>2. /\ req \in [Slot -> RequestType] /\ req[s] \in RequestType
      /\ req[s].stage = "read" /\ version' = version + 1 /\ UNCHANGED copy
  BY DEF Server!Bump, Inv, Typing
<1>3. /\ User(s) = sessionOf[w] /\ User(s) \in Session /\ Len(doc) \in Nat
      /\ version \in Nat \ {0}
  BY <1>1, LenProperties DEF User, Inv, Typing
<1>4. req[s].kind \notin Client!ElementCalls
  BY <1>2 DEF UInv, Shapes
<1> DEFINE d == [content |-> req[s].md, version |-> version', refs |-> TRUE,
                 info |-> TRUE]
           n == Len(doc) + 1
<1>5. /\ \A i \in 1 .. Len(doc) : doc'[i] = doc[i]
      /\ Len(doc') = n /\ doc'[n] = d
  <2>1. d \in DocType /\ doc \in Seq(DocType)
    BY <1>2, <1>3 DEF DocType, RequestType, Inv, Typing
  <2>2. doc' = Append(doc, d)
    BY DEF Server!Bump
  <2> HIDE DEF d
  <2> QED
    BY <2>1, <2>2, AppendProperties
<1> DEFINE q == [req[s] EXCEPT !.stage = "bumped", !.holds = n, !.opened = version']
<1>6. req' = [req EXCEPT ![s] = q]
  BY <1>5 DEF Server!Bump
<1>7. /\ q.stage = "bumped" /\ q.window = req[s].window /\ q.kind = req[s].kind
      /\ q.version = req[s].version /\ q.elem = req[s].elem /\ q.md = req[s].md
      /\ q.holds = n /\ q.opened = version'
  BY <1>2 DEF RequestType
<1>8. d.refs /\ d.info /\ d.version = version' /\ d.content = req[s].md
  OBVIOUS
<1> HIDE DEF q, d
<1>9. Moves(s) /\ req'[s] = q
  BY <1>2, <1>6, <1>7 DEF Moves
<1>10. Had(User(s), copy[User(s)]) /\ Had(User(s), n)
  BY <1>3 DEF Had, Owns
<1>11. Serves(s)
  BY <1>2, <1>4, <1>5, <1>7, <1>9, <1>10 DEF Serves, Moves
<1>12. ASSUME sessionOf[w] \notin disturbed' PROVE Own(s, w)
  <2>1. Alone(w) => FormAgrees(s, w)
    BY <1>1, <1>2, <1>4, <1>12, Answering
  <2>2. \A x \in Window : panel[x].version # version'
    BY <1>2, <1>3 DEF Inv, Forms, Bounded, Typing, PanelType
  <2>3. Ready(User(s), s)'
    BY <1>5, <1>7, <1>8, <1>9 DEF Ready
  <2>4. FormAgrees(s, w) => FormAgrees(s, w)'
    BY <1>5, <1>7, <1>8, <1>9 DEF FormAgrees, Matches
  <2> QED
    BY <1>2, <1>4, <2>1, <2>2, <2>3, <2>4 DEF Own
<1> QED
  BY <1>1, <1>11, <1>12, ServedStep

\* ... which becomes the tree of the session
LEMMA StoreCalm ==
  ASSUME Inv, UInv, Typing', Next, UNCHANGED <<panel, sessionOf>>, NEW s \in Slot,
         Server!Store(s)
  PROVE  UInv'
<1>1. PICK w \in Window : w = req[s].window
  BY DEF Server!Store, Inv, Typing
<1>2. /\ req[s].stage = "bumped" /\ UNCHANGED <<doc, version>>
      /\ req[s].holds \in 1 .. Len(doc) /\ copy \in [Session -> 0 .. Len(doc)]
  BY DEF Server!Store, Inv, Typing
<1>3. /\ User(s) = sessionOf[w] /\ User(s) \in Session /\ Len(doc) \in Nat
  BY <1>1, LenProperties DEF User, Inv, Typing
<1>4. req[s].kind \notin Client!ElementCalls
  BY <1>2 DEF UInv, Shapes
<1>5. /\ Moves(s) /\ req'[s].stage = "ok"
      /\ req'[s].opened = req[s].opened /\ req'[s].md = req[s].md
  <2>1. "ok" \in Stage \ {"idle"}
    BY DEF Stage
  <2> QED
    BY <1>2, <2>1, GoMoves DEF Server!Store
<1>6. /\ copy'[User(s)] = req[s].holds
      /\ \A u \in Session \ {User(s)} : copy'[u] = copy[u]
  BY <1>2, <1>3 DEF Server!Store, User
<1>7. Serves(s)
  <2>1. Owns(User(s), req[s].holds)
    BY <1>2 DEF Owns
  <2> QED
    BY <1>2, <1>4, <1>5, <1>6, <2>1 DEF Serves, Moves, Had
<1>8. ASSUME sessionOf[w] \notin disturbed' PROVE Own(s, w)
  <2>1. /\ Of(sessionOf[w]) = {s} /\ Complete(sessionOf[w])
        /\ Alone(w) => FormAgrees(s, w)
    BY <1>1, <1>2, <1>4, <1>8, Answering
  <2>2. doc[req[s].holds].refs
    BY <1>2, <1>3, <2>1 DEF Complete, Ready
  <2>3. Usable(User(s))'
    <3>1. User(s)' = User(s)
      BY <1>5 DEF User, Moves
    <3> QED
      BY <1>2, <1>6, <2>2, <3>1 DEF Usable
  <2>4. Ready(User(s), s)'
    BY <1>5, <2>3 DEF Ready
  <2>5. FormAgrees(s, w) => FormAgrees(s, w)'
    <3>1. req[s].holds # 0
      BY <1>2
    <3> QED
      BY <1>2, <1>3, <1>5, <1>6, <3>1 DEF FormAgrees, Matches, Holds
  <2> QED
    BY <1>2, <1>4, <2>1, <2>3, <2>4, <2>5 DEF Own
<1> QED
  BY <1>1, <1>7, <1>8, ServedStep

\* An element request changes the tree of its session, or fails
LEMMA TakeCalm ==
  ASSUME Inv, UInv, Typing', Next, UNCHANGED <<panel, sessionOf>>, NEW s \in Slot,
         Server!Take(s)
  PROVE  UInv'
<1>1. PICK w \in Window : w = req[s].window
  BY DEF Server!Take, Server!At, Inv, Typing
<1>2. /\ req \in [Slot -> RequestType] /\ req[s] \in RequestType
      /\ req[s].stage = "sent" /\ req[s].kind \in Client!ElementCalls
      /\ UNCHANGED <<version, copy>>
  BY DEF Server!Take, Server!At, Server!ElementCalls, Client!ElementCalls, Inv, Typing
<1>3. /\ User(s) = sessionOf[w] /\ User(s) \in Session /\ Len(doc) \in Nat
      /\ copy[User(s)] \in 0 .. Len(doc) /\ \A j \in 1 .. Len(doc) : doc[j] \in DocType
  BY <1>1, LenProperties, ElementOfSeq DEF User, Inv, Typing
<1> DEFINE i == copy[User(s)]
           k == req[s].kind
           x == req[s].elem
           found == doc[i].refs /\ (k = "delete" => x \subseteq doc[i].content.elems)
           elems == IF ~found THEN doc[i].content.elems
                    ELSE IF k = "delete" THEN doc[i].content.elems \ x
                                         ELSE doc[i].content.elems \cup x
           d == [[doc[i] EXCEPT !.info = FALSE] EXCEPT !.content.elems = elems]
<1>4. Owns(User(s), i)
  BY DEF Owns
<1>5. ASSUME sessionOf[w] \notin disturbed'
      PROVE  /\ Complete(User(s))
             /\ Alone(w) => /\ ElementAgrees(s, w) /\ Shown(w)
                            /\ i # 0 /\ doc[i].info /\ found
  <2>1. /\ Complete(sessionOf[w])
        /\ Alone(w) => ElementAgrees(s, w)
    BY <1>1, <1>2, <1>5, Answering
  <2>2. ElementAgrees(s, w) => Shown(w) /\ (k = "delete" => x \subseteq panel[w].shows.elems)
    BY <1>2 DEF ElementAgrees
  <2> QED
    BY <1>3, <2>1, <2>2 DEF Shown, Holds, Matches
<1>6. ASSUME Server!Go(s, "error"), i = 0 \/ ~doc[i].info \/ ~found,
             \A j \in 1 .. Len(doc) : doc'[j] = doc[j] \/ j = i,
             i # 0 => doc'[i].refs = doc[i].refs
      PROVE  UInv'
  <2>1. Moves(s) /\ req'[s].stage = "error"
    <3>1. "error" \in Stage \ {"idle"}
      BY DEF Stage
    <3> QED
      BY <1>2, <1>6, <3>1, GoMoves
  <2>2. Serves(s)
    BY <1>2, <1>4, <1>6, <2>1 DEF Serves, Moves, Had
  <2>3. ASSUME sessionOf[w] \notin disturbed' PROVE Own(s, w)
    <3>1. Usable(User(s)) => Usable(User(s))'
      <4>1. User(s)' = User(s)
        BY <2>1 DEF User, Moves
      <4> QED
        BY <1>2, <1>6, <4>1 DEF Usable
    <3>2. \A y \in Window : sessionOf[y] = User(s) /\ panel[y].version = version'
                              => Usable(User(s))'
      BY <1>2, <1>5, <2>3, <3>1 DEF Complete
    <3>3. Ready(User(s), s)'
      BY <2>1 DEF Ready
    <3> QED
      BY <1>5, <1>6, <2>3, <3>2, <3>3 DEF Own
  <2> QED
    BY <1>1, <2>2, <2>3, ServedStep
<1>7. CASE i = 0 \/ ~doc[i].info
  <2>1. Server!Go(s, "error") /\ UNCHANGED doc
    BY <1>7 DEF Server!Take, Server!NoCopy, User
  <2> QED
    BY <1>6, <1>7, <2>1
<1>8. CASE i # 0 /\ doc[i].info
  <2>1. i \in 1 .. Len(doc) /\ doc[i] \in DocType
    BY <1>3, <1>8
  <2>2. /\ doc' = IF k = "delete" \/ found
                  THEN [doc EXCEPT ![i].info = FALSE, ![i].content.elems = elems]
                  ELSE doc
        /\ IF found
           THEN req' = [req EXCEPT ![s].stage = "taken", ![s].holds = i]
           ELSE Server!Go(s, "error")
    BY <1>8 DEF Server!Take, Server!NoCopy, User
  <2>3. [doc EXCEPT ![i].info = FALSE, ![i].content.elems = elems] = [doc EXCEPT ![i] = d]
    BY <2>1, LenProperties DEF Inv, Typing
  <2>4. /\ d.refs = doc[i].refs /\ d.version = doc[i].version
        /\ d.content.elems = elems
    BY <2>1 DEF DocType, Client!Content
  <2>5. /\ \A j \in 1 .. Len(doc) : [doc EXCEPT ![i] = d][j] = doc[j] \/ j = i
        /\ [doc EXCEPT ![i] = d][i] = d
    BY <2>1, LenProperties DEF Inv, Typing
  <2>6. CASE ~found
    <3>1. Server!Go(s, "error") /\ (doc' = doc \/ doc' = [doc EXCEPT ![i] = d])
      BY <2>2, <2>3, <2>6
    <3> HIDE DEF d, found, i
    <3>2. /\ \A j \in 1 .. Len(doc) : doc'[j] = doc[j] \/ j = i
          /\ doc'[i].refs = doc[i].refs
      BY <2>4, <2>5, <3>1
    <3> QED
      BY <1>6, <2>6, <3>1, <3>2
  <2>7. CASE found
    <3> DEFINE q == [req[s] EXCEPT !.stage = "taken", !.holds = i]
    <3>1. req' = [req EXCEPT ![s] = q] /\ doc' = [doc EXCEPT ![i] = d]
      BY <2>2, <2>3, <2>7
    <3>2. /\ q.stage = "taken" /\ q.window = req[s].window /\ q.kind = req[s].kind
          /\ q.version = req[s].version /\ q.elem = req[s].elem /\ q.holds = i
      BY <1>2 DEF RequestType
    <3> HIDE DEF q
    <3>3. Moves(s) /\ req'[s] = q
      BY <1>2, <3>1, <3>2 DEF Moves
    <3>4. doc'[i] = d /\ \A j \in 1 .. Len(doc) : doc'[j] = doc[j] \/ j = i
      BY <2>5, <3>1
    <3>5. Serves(s)
      BY <1>2, <1>4, <3>2, <3>3, <3>4 DEF Serves, Moves, Had
    <3>6. ASSUME sessionOf[w] \notin disturbed' PROVE Own(s, w)
      <4>1. Usable(User(s))'
        <5>1. User(s)' = User(s)
          BY <3>3 DEF User, Moves
        <5> QED
          BY <1>2, <2>4, <2>7, <3>4, <5>1 DEF Usable
      <4>2. Ready(User(s), s)'
        BY <2>4, <2>7, <3>2, <3>3, <3>4 DEF Ready
      <4>3. Alone(w) => ElementAgrees(s, w)'
        <5> SUFFICES ASSUME Alone(w) PROVE ElementAgrees(s, w)'
          OBVIOUS
        <5>1. /\ ElementAgrees(s, w)
              /\ Matches(doc[i], panel[w].version, panel[w].shows.elems)
          BY <1>3, <1>5, <3>6 DEF Shown, Holds
        <5>2. elems = After(s, w)
          BY <2>7, <5>1 DEF After, Matches
        <5>3. After(s, w)' = After(s, w)
          BY <3>2, <3>3 DEF After
        <5>4. d \in DocType
          <6>1. elems \in SUBSET Element
            BY <1>2, <2>1 DEF DocType, Client!Content, RequestType
          <6>2. [doc[i].content EXCEPT !.elems = elems] \in Client!Content
            BY <2>1, <6>1 DEF DocType, Client!Content
          <6> QED
            BY <2>1, <6>2 DEF DocType
        <5>5. Matches([d EXCEPT !.info = TRUE], panel[w].version, After(s, w))
          <6> HIDE DEF d, elems
          <6> QED
            BY <2>4, <2>7, <5>1, <5>2, <5>4 DEF Matches, DocType
        <5> HIDE DEF d, i
        <5>6. copy'[sessionOf'[w]] = req'[s].holds
          BY <1>2, <1>3, <3>2, <3>3 DEF i
        <5>7. Matches([doc'[req'[s].holds] EXCEPT !.info = TRUE],
                      panel[w].version, After(s, w))
          BY <3>2, <3>3, <3>4, <5>5
        <5> QED
          BY <3>2, <3>3, <5>1, <5>3, <5>6, <5>7 DEF ElementAgrees, Matches
      <4> QED
        BY <1>2, <4>1, <4>2, <4>3 DEF Own
    <3> QED
      BY <1>1, <3>5, <3>6, ServedStep
  <2> QED
    BY <2>6, <2>7
<1> QED
  BY <1>7, <1>8

\* ... and a clone of the tree is stored with its info element
LEMMA PutCalm ==
  ASSUME Inv, UInv, Typing', Next, UNCHANGED <<panel, sessionOf>>, NEW s \in Slot,
         Server!Put(s)
  PROVE  UInv'
<1>1. PICK w \in Window : w = req[s].window
  BY DEF Server!Put, Inv, Typing
<1>2. /\ req[s].stage = "taken" /\ req[s].kind \in Client!ElementCalls
      /\ UNCHANGED version /\ copy \in [Session -> 0 .. Len(doc)]
      /\ doc \in Seq(DocType)
  BY DEF Server!Put, Inv, SaveInv, TakenIsElement, Typing
<1> DEFINE i == req[s].holds
           n == Len(doc) + 1
           whole == [doc[i] EXCEPT !.info = TRUE]
<1>3. /\ User(s) = sessionOf[w] /\ User(s) \in Session /\ Len(doc) \in Nat
      /\ i \in 1 .. Len(doc) /\ doc[i] \in DocType
  BY <1>1, <1>2, LenProperties, ElementOfSeq DEF User, Inv, Typing
<1>4. /\ Moves(s) /\ req'[s].stage = "ok"
  <2>1. "ok" \in Stage \ {"idle"}
    BY DEF Stage
  <2> QED
    BY <1>2, <2>1, GoMoves DEF Server!Put
<1>5. whole \in DocType /\ whole.refs = doc[i].refs
  BY <1>3 DEF DocType
<1>6. doc' = Append([doc EXCEPT ![i] = whole], whole)
  BY DEF Server!Put
<1>7. /\ \A j \in 1 .. Len(doc) : doc'[j] = doc[j] \/ j = i
      /\ Len(doc') = n /\ doc'[n] = whole
  <2> DEFINE e == [doc EXCEPT ![i] = whole]
  <2> HIDE DEF whole, i
  <2>1. /\ e \in Seq(DocType) /\ Len(e) = Len(doc)
        /\ \A j \in 1 .. Len(doc) : e[j] = doc[j] \/ j = i
    BY <1>2, <1>3, <1>5, ExceptSeq
  <2>2. doc' = Append(e, whole)
    BY <1>6
  <2> HIDE DEF e
  <2> QED
    BY <1>3, <1>5, <2>1, <2>2, AppendProperties
<1>8. /\ copy'[User(s)] = n
      /\ \A u \in Session \ {User(s)} : copy'[u] = copy[u]
  <2>1. copy' = [copy EXCEPT ![User(s)] = Len(doc')]
    BY DEF Server!Put, User
  <2> QED
    BY <1>2, <1>3, <1>7, <2>1
<1>9. Serves(s)
  <2>1. Owns(User(s), i)
    BY <1>2 DEF Owns
  <2>2. Had(User(s), n)
    BY <1>3 DEF Had
  <2> HIDE DEF i, n
  <2> QED
    BY <1>2, <1>4, <1>7, <1>8, <2>1, <2>2 DEF Serves, Moves
<1>10. ASSUME sessionOf[w] \notin disturbed' PROVE Own(s, w)
  <2>1. /\ Of(sessionOf[w]) = {s} /\ Complete(sessionOf[w])
        /\ Alone(w) => ElementAgrees(s, w)
    BY <1>1, <1>2, <1>10, Answering
  <2>2. whole.refs
    BY <1>2, <1>3, <1>5, <2>1 DEF Complete, Ready
  <2> HIDE DEF whole
  <2>3. Usable(User(s))'
    <3>1. User(s)' = User(s)
      BY <1>4 DEF User, Moves
    <3> QED
      BY <1>7, <1>8, <2>2, <3>1 DEF Usable
  <2>4. Ready(User(s), s)'
    BY <1>4, <2>3 DEF Ready
  <2>5. ElementAgrees(s, w) => ElementAgrees(s, w)'
    <3> SUFFICES ASSUME ElementAgrees(s, w) PROVE ElementAgrees(s, w)'
      OBVIOUS
    <3>1. Matches(whole, panel[w].version, After(s, w))
      BY <1>2 DEF ElementAgrees, whole
    <3>2. After(s, w)' = After(s, w) /\ panel' = panel
      BY <1>4 DEF After, Moves
    <3>3. copy'[sessionOf'[w]] = n /\ n # 0
      BY <1>3, <1>8
    <3> HIDE DEF n
    <3> QED
      BY <1>4, <1>7, <3>1, <3>2, <3>3 DEF ElementAgrees, Holds, Matches, Moves
  <2> QED
    BY <1>2, <2>1, <2>3, <2>4, <2>5 DEF Own
<1> QED
  BY <1>1, <1>9, <1>10, ServedStep

-----------------------------------------------------------------------------
(* Every step keeps the invariant *)

LEMMA InitUInv == Init => UInv
<1> SUFFICES ASSUME Init PROVE UInv
  OBVIOUS
<1>1. /\ \A s \in Slot : req[s].stage = "idle" /\ req[s].kind = "edit"
      /\ \A w \in Window : ~panel[w].form /\ panel[w].version = 0
      /\ version = 1 /\ doc = <<>> /\ copy = [u \in Session |-> 0]
      /\ sessionOf \in [Window -> Session]
  BY DEF Init, Client!ClientInit, Server!ServerInit, Client!IdleRequest,
         Client!NoVersion, Server!NoCopy
<1>2. \A u \in Session : Of(u) = {}
  BY <1>1 DEF Of, Busy
<1>3. Tracked
  <2>1. Cardinality({}) = 0
    BY FS_EmptySet
  <2> QED
    BY <1>2, <2>1 DEF Tracked, Disturbs
<1>4. Shapes
  BY <1>1 DEF Shapes, Client!ElementCalls
<1>5. Owned
  <2>1. Len(doc) = 0
    BY <1>1
  <2> QED
    BY <2>1 DEF Owned
<1>6. AllCalm
  BY <1>1, <1>2 DEF AllCalm, Calm, Complete, Agrees
<1> QED
  BY <1>3, <1>4, <1>5, <1>6 DEF UInv

\* A request the client sends carries no more than the version of a form
Filled(q) == /\ q.stage = "sent" /\ q.opened = 0 /\ q.holds = 0
             /\ q.kind = "attribute" => q.elem = {}
             /\ \E w \in Window : q.version = panel[w].version

\* Another listener, at most
SamePlace(q, p) == /\ q.stage = p.stage /\ q.window = p.window /\ q.kind = p.kind
                   /\ q.elem = p.elem /\ q.holds = p.holds
                   /\ q.version = p.version /\ q.opened = p.opened

\* A step of the client leaves a slot at its place, fills it or empties it
ClientMoves(s) ==
  /\ \A r \in Slot \ {s} : req'[r] = req[r]
  /\ \/ SamePlace(req'[s], req[s]) /\ sent' = sent
     \/ req'[s] = Client!IdleRequest /\ sent' = sent
     \/ Filled(req'[s]) /\ sent < MaxRequests /\ sent' = sent + 1

LEMMA ClientSlots ==
  ASSUME Inv, Client!ClientNext
  PROVE  UNCHANGED <<req, sent>> \/ \E s \in Slot : ClientMoves(s)
<1>1. req \in [Slot -> RequestType] /\ \A s \in Slot : req[s] \in RequestType
  BY DEF Inv, Typing
<1>2. ASSUME NEW s \in Slot, NEW q, req' = [req EXCEPT ![s] = q], Filled(q),
             sent < MaxRequests, sent' = sent + 1
      PROVE  ClientMoves(s)
  BY <1>1, <1>2 DEF ClientMoves
<1>3. ASSUME NEW s \in Slot, req' = [req EXCEPT ![s] = Client!IdleRequest], sent' = sent
      PROVE  ClientMoves(s)
  BY <1>1, <1>3 DEF ClientMoves
<1>4. \A w \in Window : \A k \in Client!Reloads \cup Client!Closes :
         Filled(Client!FormRequest(w, k))
  BY DEF Client!FormRequest, Client!IdleRequest, Client!NoVersion, Filled,
         Client!Reloads, Client!Closes
<1>5. \A w \in Window : \A k, x :
         (k = "attribute" => x = {}) =>
            Filled([Client!IdleRequest EXCEPT !.stage = "sent", !.window = w, !.kind = k,
                       !.elem = x, !.version = panel[w].version])
  BY DEF Client!IdleRequest, Client!NoVersion, Filled
<1>6. ASSUME NEW w \in Window, Client!Type(w) PROVE UNCHANGED <<req, sent>>
  BY <1>6 DEF Client!Type
<1>7. ASSUME NEW s \in Slot, Client!Timeout(s) PROVE ClientMoves(s)
  <2> DEFINE q == [req[s] EXCEPT !.listening = FALSE]
  <2>1. req' = [req EXCEPT ![s] = q] /\ sent' = sent
    BY <1>7 DEF Client!Timeout
  <2>2. SamePlace(q, req[s])
    BY <1>1 DEF SamePlace, RequestType
  <2> HIDE DEF q
  <2>3. req'[s] = q /\ \A r \in Slot \ {s} : req'[r] = req[r]
    BY <1>1, <2>1
  <2> QED
    BY <2>1, <2>2, <2>3 DEF ClientMoves
<1>8. ASSUME NEW s \in Slot, Client!Receive(s) PROVE ClientMoves(s)
  <2>1. \/ req' = [req EXCEPT ![s] = Client!IdleRequest] /\ sent' = sent
        \/ /\ req[s].stage \in {"ok", "error"}
           /\ req' = [req EXCEPT ![s] = Client!FormRequest(req[s].window, "save")]
           /\ sent < MaxRequests /\ sent' = sent + 1
    BY <1>8 DEF Client!Receive, Client!Loaded, Client!LoadFailed, Client!Closed,
                Client!ElementAnswered, Client!AttributeAnswered, Client!Dropped,
                Client!Clear
  <2>2. req[s].stage \in {"ok", "error"} => req[s].window \in Window
    BY DEF Inv, Typing
  <2>3. "save" \in Client!Reloads \cup Client!Closes
    BY DEF Client!Reloads
  <2> QED
    BY <1>2, <1>3, <1>4, <2>1, <2>2, <2>3
<1>9. ASSUME NEW w \in Window, NEW s \in Slot, Client!Send(w, s) PROVE ClientMoves(s)
  <2>1. ASSUME NEW k \in Client!Reloads \cup Client!Closes, NEW p, Client!LoadUrl(w, s, k, p)
        PROVE  ClientMoves(s)
    BY <1>2, <1>4, <2>1 DEF Client!LoadUrl, Client!Free
  <2>2. ASSUME NEW k, NEW x, k = "attribute" => x = {}, Client!ElementRequest(w, s, k, x)
        PROVE  ClientMoves(s)
    BY <1>2, <1>5, <2>2 DEF Client!ElementRequest, Client!Free
  <2>3. CASE \/ Client!Open(w, s) \/ Client!Save(w, s) \/ Client!Finish(w, s)
             \/ Client!Reset(w, s) \/ Client!Cancel(w, s)
    BY <2>1, <2>3 DEF Client!Open, Client!Save, Client!Finish, Client!Reset,
                      Client!Cancel, Client!FromToolbar, Client!Reloads, Client!Closes
  <2>4. CASE Client!AddElement(w, s) \/ Client!AddAttribute(w, s)
               \/ Client!RemoveElement(w, s)
    BY <2>2, <2>4 DEF Client!AddElement, Client!AddAttribute, Client!RemoveElement
  <2> QED
    BY <1>9, <2>3, <2>4 DEF Client!Send
<1> QED
  BY <1>6, <1>7, <1>8, <1>9 DEF Client!ClientNext

LEMMA ClientShapes ==
  ASSUME Inv, UInv, Typing', Next, ByClient
  PROVE  Shapes' /\ Owned'
<1>1. /\ UNCHANGED <<doc, copy, sessionOf>>
      /\ \A r \in Slot : \/ SamePlace(req'[r], req[r])
                         \/ /\ req'[r].stage \in {"idle", "sent"}
                            /\ req'[r].kind = "attribute" => req'[r].elem = {}
  <2>1. Client!IdleRequest.stage = "idle" /\ Client!IdleRequest.kind = "edit"
    BY DEF Client!IdleRequest
  <2> QED
    BY <2>1, ClientSlots
    DEF ClientMoves, Filled, SamePlace, ByClient, Next, serverVars
<1>2. Shapes'
  BY <1>1 DEF UInv, Shapes, SamePlace
<1>3. ASSUME NEW u \in Session, NEW i, Owns(u, i)' PROVE Owns(u, i)
  <2>1. CASE copy'[u] = i
    BY <1>1, <2>1 DEF Owns
  <2>2. CASE copy'[u] # i
    <3>1. PICK r \in Slot : /\ req'[r].stage \in {"taken", "bumped"} /\ User(r)' = u
                            /\ req'[r].holds = i
      BY <1>3, <2>2 DEF Owns
    <3>2. /\ req[r].stage \in {"taken", "bumped"} /\ User(r) = u
          /\ req[r].holds = i
      BY <1>1, <3>1 DEF User, SamePlace
    <3> QED
      BY <3>2 DEF Owns
  <2> QED
    BY <2>1, <2>2
<1>4. Owned'
  BY <1>1, <1>3 DEF UInv, Owned
<1> QED
  BY <1>2, <1>4

LEMMA ClientUStep ==
  ASSUME Inv, UInv, Typing', Next, ByClient
  PROVE  UInv'
<1>1. UNCHANGED serverVars
  BY DEF ByClient
<1>2. ASSUME NEW w \in Window, Client!Type(w) PROVE AllCalm'
  BY <1>1, <1>2, TypeCalm
<1>3. ASSUME NEW w \in Window, NEW s \in Slot, Client!Send(w, s) PROVE AllCalm'
  BY <1>1, <1>3, SendCalm
<1>4. ASSUME NEW s \in Slot, Client!Receive(s) PROVE AllCalm'
  BY <1>1, <1>4, ReceiveCalm
<1>5. ASSUME NEW s \in Slot, Client!Timeout(s) PROVE AllCalm'
  BY <1>1, <1>5, TimeoutCalm
<1>6. AllCalm'
  BY <1>2, <1>3, <1>4, <1>5 DEF ByClient, Client!ClientNext
<1>7. Tracked'
  BY TrackedStep DEF Next
<1> QED
  BY <1>6, <1>7, ClientShapes DEF UInv

LEMMA ServerUStep ==
  ASSUME Inv, UInv, Typing', Next, ByServer
  PROVE  UInv'
<1> PICK s \in Slot : Server!ServerStep(s)
  BY DEF ByServer, Server!ServerNext
<1>1. UNCHANGED <<panel, sessionOf>>
  BY DEF ByServer, Next
<1>2. CASE \/ Server!NoParameters(s) \/ Server!Lock(s) \/ Server!LockTimeout(s)
           \/ Server!Check(s) \/ Server!Write(s) \/ Server!WriteFails(s)
           \/ Server!Forget(s) \/ Server!Read(s)
  BY <1>1, <1>2, QuietActions
<1>3. CASE Server!Apply(s)
  BY <1>1, <1>3, ApplyCalm
<1>4. CASE Server!Bump(s)
  BY <1>1, <1>4, BumpCalm
<1>5. CASE Server!Store(s)
  BY <1>1, <1>5, StoreCalm
<1>6. CASE Server!Take(s)
  BY <1>1, <1>6, TakeCalm
<1>7. CASE Server!Put(s)
  BY <1>1, <1>7, PutCalm
<1> QED
  BY <1>2, <1>3, <1>4, <1>5, <1>6, <1>7 DEF Server!ServerStep, Server!Serve

LEMMA UStep == Inv /\ Inv' /\ UInv /\ [Next]_vars => UInv'
<1> SUFFICES ASSUME Inv, Inv', UInv, [Next]_vars PROVE UInv'
  OBVIOUS
<1>1. Typing'
  BY DEF Inv
<1>2. CASE Next
  BY <1>1, <1>2, ClientUStep, ServerUStep DEF Next
<1>3. CASE UNCHANGED vars
  <2>1. \A u \in Session : Of(u)' = Of(u) /\ (Disturbs(u)' <=> Disturbs(u))
    BY <1>3 DEF vars, Of, Busy, Disturbs
  <2>2. Tracked'
    BY <1>3, <2>1 DEF vars, UInv, Tracked
  <2>3. Shapes'
    BY <1>3 DEF vars, UInv, Shapes
  <2>4. Owned'
    BY <1>3 DEF vars, UInv, Owned, Owns, User
  <2>5. Owned /\ AllCalm
    BY DEF UInv
  <2>6. ASSUME NEW u \in Session \ disturbed PROVE Calm(u)'
    <3>1. Calm(u)
      BY <2>5 DEF AllCalm
    <3> QED
      BY <1>3, <2>5, <3>1, Elsewhere DEF vars
  <2>7. AllCalm'
    BY <1>3, <2>6 DEF vars, AllCalm
  <2> QED
    BY <2>2, <2>3, <2>4, <2>7 DEF UInv
<1> QED
  BY <1>2, <1>3

-----------------------------------------------------------------------------
(* The bounds of the types: a request makes at most one tree, and a version *)
(* comes with a tree                                                        *)

\* May still make a tree
Pending(s) == req[s].stage \in {"sent", "locked", "checked", "applied", "reading",
                                "read", "taken"}
Makers == {s \in Slot : Pending(s)}

Counted == /\ Len(doc) + Cardinality(Makers) <= sent
           /\ sent <= MaxRequests
           /\ version <= Len(doc) + 1

Known == /\ \A s \in Slot : /\ req[s].version <= version /\ req[s].opened <= version
                            /\ req[s].holds <= Len(doc)
         /\ \A i \in 1 .. Len(doc) : doc[i].version \in 1 .. version

Named == /\ rowLock \in {NoRequest} \cup Slot
         /\ disturbed \subseteq Session /\ raced \subseteq 1 .. version

BInv == Counted /\ Known /\ Named

LEMMA MakersStep ==
  ASSUME NEW s \in Slot, \A r \in Slot \ {s} : req'[r] = req[r]
  PROVE  /\ Cardinality(Makers) \in Nat /\ Cardinality(Makers)' \in Nat
         /\ Cardinality(Makers)' <= Cardinality(Makers) + 1
         /\ (Pending(s)' => Pending(s)) => Cardinality(Makers)' <= Cardinality(Makers)
         /\ Pending(s) /\ ~Pending(s)' => Cardinality(Makers)' <= Cardinality(Makers) - 1
<1>1. IsFiniteSet(Makers) /\ IsFiniteSet(Makers')
  BY SlotAssumption, FS_Subset DEF Makers
<1>2. \A r \in Slot \ {s} : Pending(r)' <=> Pending(r)
  BY DEF Pending
<1>3. Cardinality(Makers) \in Nat /\ Cardinality(Makers') \in Nat
  BY <1>1, FS_CardinalityType
<1>4. Cardinality(Makers') <= Cardinality(Makers) + 1
  <2>1. Makers' \subseteq Makers \cup {s}
    BY <1>2 DEF Makers
  <2>2. /\ IsFiniteSet(Makers \cup {s})
        /\ Cardinality(Makers \cup {s}) = IF s \in Makers THEN Cardinality(Makers)
                                                          ELSE Cardinality(Makers) + 1
    BY <1>1, FS_AddElement
  <2>3. Cardinality(Makers') <= Cardinality(Makers \cup {s})
    BY <2>1, <2>2, FS_Subset
  <2> QED
    BY <1>3, <2>2, <2>3
<1>5. ASSUME Pending(s)' => Pending(s) PROVE Cardinality(Makers') <= Cardinality(Makers)
  <2>1. Makers' \subseteq Makers
    BY <1>2, <1>5 DEF Makers
  <2> QED
    BY <1>1, <2>1, FS_Subset
<1>6. ASSUME Pending(s), ~Pending(s)'
      PROVE  Cardinality(Makers') <= Cardinality(Makers) - 1
  <2>1. Makers' \subseteq Makers \ {s} /\ s \in Makers
    BY <1>2, <1>6 DEF Makers
  <2>2. /\ IsFiniteSet(Makers \ {s})
        /\ Cardinality(Makers \ {s}) = IF s \in Makers THEN Cardinality(Makers) - 1
                                                       ELSE Cardinality(Makers)
    BY <1>1, FS_RemoveElement
  <2>3. Cardinality(Makers') <= Cardinality(Makers \ {s})
    BY <2>1, <2>2, FS_Subset
  <2> QED
    BY <2>1, <2>2, <2>3
<1> QED
  BY <1>3, <1>4, <1>5, <1>6

LEMMA InitBInv == Init => BInv
<1> SUFFICES ASSUME Init PROVE BInv
  OBVIOUS
<1>1. /\ \A s \in Slot : /\ req[s].stage = "idle" /\ req[s].version = 0
                         /\ req[s].opened = 0 /\ req[s].holds = 0
      /\ sent = 0 /\ version = 1 /\ doc = <<>> /\ rowLock = NoRequest
      /\ disturbed = {} /\ raced = {}
  BY DEF Init, Client!ClientInit, Server!ServerInit, Client!IdleRequest,
         Client!NoVersion
<1>2. Makers = {} /\ Cardinality({}) = 0 /\ Len(doc) = 0
  BY <1>1, FS_EmptySet DEF Makers, Pending
<1> QED
  BY <1>1, <1>2, RequestsAssumption DEF BInv, Counted, Known, Named

LEMMA ClientBStep ==
  ASSUME Inv, BInv, Next, ByClient
  PROVE  Counted' /\ Known'
<1>1. /\ UNCHANGED <<version, doc, rowLock>>
      /\ sent \in Nat /\ version \in Nat \ {0} /\ Len(doc) \in Nat
      /\ \A w \in Window : panel[w].version <= version
  BY LenProperties DEF ByClient, serverVars, Inv, Forms, Bounded, Typing
<1>2. CASE UNCHANGED <<req, sent>>
  BY <1>1, <1>2 DEF BInv, Counted, Known, Makers, Pending
<1>3. ASSUME NEW s \in Slot, ClientMoves(s) PROVE Counted' /\ Known'
  <2>1. /\ Client!IdleRequest.stage = "idle" /\ Client!IdleRequest.version = 0
        /\ Client!IdleRequest.opened = 0 /\ Client!IdleRequest.holds = 0
    BY DEF Client!IdleRequest, Client!NoVersion
  <2>2. /\ req'[s].version <= version /\ req'[s].opened <= version
        /\ req'[s].holds <= Len(doc)
    BY <1>1, <1>3, <2>1 DEF ClientMoves, SamePlace, Filled, BInv, Known
  <2>3. Known'
    BY <1>1, <1>3, <2>2 DEF ClientMoves, BInv, Known
  <2>4. \/ sent' = sent /\ (Pending(s)' => Pending(s))
        \/ sent' = sent + 1 /\ sent < MaxRequests
    BY <1>3, <2>1 DEF ClientMoves, SamePlace, Pending
  <2>5. /\ Cardinality(Makers) \in Nat /\ Cardinality(Makers)' \in Nat
        /\ Cardinality(Makers)' <= Cardinality(Makers) + 1
        /\ (Pending(s)' => Pending(s)) => Cardinality(Makers)' <= Cardinality(Makers)
    BY <1>3, MakersStep DEF ClientMoves
  <2>6. Counted'
    BY <1>1, <2>4, <2>5, RequestsAssumption DEF BInv, Counted
  <2> QED
    BY <2>3, <2>6
<1> QED
  BY <1>2, <1>3, ClientSlots DEF ByClient

\* A step of the server that makes no tree
LEMMA KeepsCount ==
  ASSUME Inv, BInv, NEW s \in Slot, UNCHANGED <<sent, version>>,
         Len(doc') = Len(doc), \A i \in 1 .. Len(doc) : doc'[i].version = doc[i].version,
         Moves(s), req'[s].opened = req[s].opened,
         req'[s].holds \in Nat, req'[s].holds <= Len(doc),
         Pending(s)' => Pending(s)
  PROVE  Counted' /\ Known'
<1>1. Known'
  BY DEF Moves, BInv, Known
<1>2. /\ Cardinality(Makers) \in Nat /\ Cardinality(Makers)' \in Nat
      /\ Cardinality(Makers)' <= Cardinality(Makers)
  BY MakersStep DEF Moves
<1>3. Len(doc) \in Nat /\ sent \in Nat
  BY LenProperties DEF Inv, Typing
<1>4. Counted'
  BY <1>2, <1>3 DEF BInv, Counted
<1> QED
  BY <1>1, <1>4

\* ... and one that makes one
LEMMA MakesOne ==
  ASSUME Inv, BInv, NEW s \in Slot, UNCHANGED sent, version' \in {version, version + 1},
         Len(doc') = Len(doc) + 1,
         \A i \in 1 .. Len(doc) : doc'[i].version = doc[i].version,
         doc'[Len(doc) + 1].version \in 1 .. version',
         Moves(s), req'[s].opened <= version', req'[s].holds <= Len(doc'),
         Pending(s), ~Pending(s)'
  PROVE  Counted' /\ Known'
<1>1. /\ Len(doc) \in Nat /\ sent \in Nat /\ version \in Nat \ {0}
      /\ \A r \in Slot : /\ req[r].version \in Nat /\ req[r].opened \in Nat
                         /\ req[r].holds \in Nat
  BY LenProperties DEF Inv, Typing, RequestType
<1>2. Known'
  <2>1. \A r \in Slot : /\ req'[r].version <= version' /\ req'[r].opened <= version'
                        /\ req'[r].holds <= Len(doc')
    BY <1>1 DEF Moves, BInv, Known
  <2>2. \A i \in 1 .. Len(doc') : doc'[i].version \in 1 .. version'
    BY <1>1 DEF BInv, Known
  <2> QED
    BY <2>1, <2>2 DEF Known
<1>3. /\ Cardinality(Makers) \in Nat /\ Cardinality(Makers)' \in Nat
      /\ Cardinality(Makers)' <= Cardinality(Makers) - 1
  BY MakersStep DEF Moves
<1>4. Counted'
  BY <1>1, <1>3 DEF BInv, Counted
<1> QED
  BY <1>2, <1>4

LEMMA ServerBStep ==
  ASSUME Inv, Inv', BInv, Next, ByServer
  PROVE  Counted' /\ Known'
<1> PICK s \in Slot : Server!ServerStep(s)
  BY DEF ByServer, Server!ServerNext
<1>1. /\ UNCHANGED sent
      /\ req \in [Slot -> RequestType] /\ req[s] \in RequestType
      /\ Len(doc) \in Nat /\ DOMAIN doc = 1 .. Len(doc) /\ doc \in Seq(DocType)
      /\ Len(doc') \in Nat /\ DOMAIN doc' = 1 .. Len(doc')
      /\ \A i \in 1 .. Len(doc) : doc[i] \in DocType
      /\ version \in Nat \ {0}
      /\ req[s].holds \in Nat /\ req[s].holds <= Len(doc)
  BY LenProperties, ElementOfSeq DEF ByServer, Inv, Typing, RequestType, BInv, Known
<1>2. ASSUME NEW g \in Stage \ {"idle"}, Server!Go(s, g), UNCHANGED version,
             req[s].stage # "idle", Pending(s) \/ g \in {"ok", "error"},
             Len(doc') = Len(doc),
             \A i \in 1 .. Len(doc) : doc'[i].version = doc[i].version
      PROVE  Counted' /\ Known'
  <2>1. /\ Moves(s) /\ req'[s].stage = g /\ req'[s].opened = req[s].opened
        /\ req'[s].holds = req[s].holds
    BY <1>2, GoMoves
  <2>2. Pending(s)' => Pending(s)
    BY <1>2, <2>1 DEF Pending
  <2> QED
    BY <1>1, <1>2, <2>1, <2>2, KeepsCount
<1>3. CASE \/ Server!NoParameters(s) \/ Server!Lock(s) \/ Server!LockTimeout(s)
           \/ Server!Check(s) \/ Server!Write(s) \/ Server!WriteFails(s)
           \/ Server!Forget(s) \/ Server!Store(s)
  <2>1. UNCHANGED <<doc, version>> /\ req[s].stage # "idle"
    BY <1>3 DEF Server!NoParameters, Server!Lock, Server!LockTimeout, Server!Check,
                Server!Write, Server!WriteFails, Server!Forget, Server!Store,
                Server!At, Server!serverVars
  <2>2. \E g \in Stage \ {"idle"} :
           Server!Go(s, g) /\ (Pending(s) \/ g \in {"ok", "error"})
    BY <1>3 DEF Server!NoParameters, Server!Lock, Server!LockTimeout, Server!Check,
                Server!Write, Server!WriteFails, Server!Forget, Server!Store,
                Server!At, Pending, Stage
  <2> QED
    BY <1>2, <2>1, <2>2
<1>4. CASE Server!Read(s)
  <2> DEFINE q == [req[s] EXCEPT !.stage = "read", !.md = record]
  <2>1. req' = [req EXCEPT ![s] = q] /\ UNCHANGED <<doc, version>> /\ Pending(s)
    BY <1>4 DEF Server!Read, Server!At, Server!serverVars, Pending
  <2>2. /\ q.stage = "read" /\ q.window = req[s].window /\ q.kind = req[s].kind
        /\ q.version = req[s].version /\ q.elem = req[s].elem
        /\ q.opened = req[s].opened /\ q.holds = req[s].holds
    BY <1>1 DEF RequestType
  <2> HIDE DEF q
  <2>3. Moves(s) /\ req'[s] = q
    BY <1>1, <2>1, <2>2 DEF Moves, Pending
  <2> QED
    BY <1>1, <2>1, <2>2, <2>3, KeepsCount
<1>5. CASE Server!Apply(s)
  <2>1. /\ req[s].stage = "checked" /\ Pending(s) /\ UNCHANGED version
        /\ \/ Server!Go(s, "error") /\ UNCHANGED doc
           \/ \E i, c :
                 /\ req' = [req EXCEPT ![s].stage = "applied", ![s].md = c]
                 /\ doc' = [doc EXCEPT ![i].content = c, ![i].refs = FALSE,
                                       ![i].info = FALSE]
    BY <1>5 DEF Server!Apply, Server!At, Pending
  <2>2. CASE Server!Go(s, "error") /\ UNCHANGED doc
    BY <1>2, <2>1, <2>2 DEF Stage
  <2>3. ASSUME NEW i, NEW c,
               req' = [req EXCEPT ![s].stage = "applied", ![s].md = c],
               doc' = [doc EXCEPT ![i].content = c, ![i].refs = FALSE, ![i].info = FALSE]
        PROVE  Counted' /\ Known'
    <3> DEFINE q == [req[s] EXCEPT !.stage = "applied", !.md = c]
    <3>1. /\ q.stage = "applied" /\ q.window = req[s].window /\ q.kind = req[s].kind
          /\ q.version = req[s].version /\ q.elem = req[s].elem
          /\ q.opened = req[s].opened /\ q.holds = req[s].holds
      BY <1>1 DEF RequestType
    <3>2. req' = [req EXCEPT ![s] = q]
      BY <2>3
    <3> HIDE DEF q
    <3>3. Moves(s) /\ req'[s] = q
      BY <1>1, <2>1, <3>1, <3>2 DEF Moves
    <3>4. Len(doc') = Len(doc)
      BY <1>1, <2>3
    <3>5. \A j \in 1 .. Len(doc) : doc'[j].version = doc[j].version
      BY <1>1, <2>3 DEF DocType
    <3> QED
      BY <1>1, <2>1, <3>1, <3>3, <3>4, <3>5, KeepsCount
  <2> QED
    BY <2>1, <2>2, <2>3
<1>6. CASE Server!Take(s)
  <2> DEFINE i == copy[sessionOf[req[s].window]]
  <2>1. /\ req[s].stage = "sent" /\ Pending(s) /\ UNCHANGED version
        /\ \/ UNCHANGED doc
           \/ \E x : doc' = [doc EXCEPT ![i].info = FALSE, ![i].content.elems = x]
        /\ \/ Server!Go(s, "error")
           \/ req' = [req EXCEPT ![s].stage = "taken", ![s].holds = i]
    BY <1>6 DEF Server!Take, Server!At, Pending
  <2>2. i \in 0 .. Len(doc)
    BY <2>1 DEF Inv, Typing
  <2>3. /\ Len(doc') = Len(doc)
        /\ \A j \in 1 .. Len(doc) : doc'[j].version = doc[j].version
    <3>1. CASE UNCHANGED doc
      BY <3>1
    <3>2. ASSUME NEW x, doc' = [doc EXCEPT ![i].info = FALSE, ![i].content.elems = x]
          PROVE  /\ Len(doc') = Len(doc)
                 /\ \A j \in 1 .. Len(doc) : doc'[j].version = doc[j].version
      <4>1. Len(doc') = Len(doc)
        BY <1>1, <3>2
      <4> HIDE DEF i
      <4>2. \A j \in 1 .. Len(doc) : doc'[j].version = doc[j].version
        BY <1>1, <3>2 DEF DocType
      <4> QED
        BY <4>1, <4>2
    <3> QED
      BY <2>1, <3>1, <3>2
  <2>4. CASE Server!Go(s, "error")
    BY <1>2, <2>1, <2>3, <2>4 DEF Stage
  <2>5. CASE req' = [req EXCEPT ![s].stage = "taken", ![s].holds = i]
    <3> DEFINE q == [req[s] EXCEPT !.stage = "taken", !.holds = i]
    <3>1. /\ q.stage = "taken" /\ q.window = req[s].window /\ q.kind = req[s].kind
          /\ q.version = req[s].version /\ q.elem = req[s].elem
          /\ q.opened = req[s].opened /\ q.holds = i
      BY <1>1 DEF RequestType
    <3>2. req' = [req EXCEPT ![s] = q]
      BY <2>5
    <3> HIDE DEF q, i
    <3>3. Moves(s) /\ req'[s] = q
      BY <1>1, <2>1, <3>1, <3>2 DEF Moves
    <3>4. i \in Nat /\ i <= Len(doc)
      BY <1>1, <2>2
    <3> QED
      BY <1>1, <2>1, <2>3, <3>1, <3>3, <3>4, KeepsCount
  <2> QED
    BY <2>1, <2>4, <2>5
<1>7. CASE Server!Bump(s)
  <2> DEFINE d == [content |-> req[s].md, version |-> version', refs |-> TRUE,
                   info |-> TRUE]
             n == Len(doc) + 1
             q == [req[s] EXCEPT !.stage = "bumped", !.holds = n, !.opened = version']
  <2>1. version' = version + 1 /\ req[s].stage = "read"
    BY <1>7 DEF Server!Bump
  <2>2. /\ \A j \in 1 .. Len(doc) : doc'[j] = doc[j]
        /\ Len(doc') = n /\ doc'[n] = d
    <3>1. d \in DocType /\ doc' = Append(doc, d)
      BY <1>1, <1>7, <2>1 DEF Server!Bump, DocType, RequestType
    <3> HIDE DEF d
    <3> QED
      BY <1>1, <3>1, AppendProperties
  <2>3. req' = [req EXCEPT ![s] = q]
    BY <1>7, <2>2 DEF Server!Bump
  <2>4. /\ q.stage = "bumped" /\ q.window = req[s].window /\ q.kind = req[s].kind
        /\ q.version = req[s].version /\ q.elem = req[s].elem
        /\ q.holds = n /\ q.opened = version'
    BY <1>1 DEF RequestType
  <2>5. d.version \in 1 .. version'
    BY <1>1, <2>1
  <2> HIDE DEF q, d
  <2>6. Moves(s) /\ req'[s] = q
    BY <1>1, <2>1, <2>3, <2>4 DEF Moves
  <2>7. /\ version' \in {version, version + 1} /\ doc'[Len(doc) + 1].version \in 1 .. version'
        /\ req'[s].opened <= version' /\ req'[s].holds <= Len(doc')
    BY <1>1, <2>1, <2>2, <2>4, <2>5, <2>6
  <2>8. Pending(s) /\ ~Pending(s)'
    BY <2>1, <2>4, <2>6 DEF Pending
  <2> QED
    BY <1>1, <2>2, <2>6, <2>7, <2>8, MakesOne
<1>8. CASE Server!Put(s)
  <2> DEFINE i == req[s].holds
             whole == [doc[i] EXCEPT !.info = TRUE]
             e == [doc EXCEPT ![i] = whole]
  <2>1. /\ i \in 1 .. Len(doc) /\ req[s].stage = "taken" /\ UNCHANGED version
        /\ doc' = Append(e, whole) /\ Server!Go(s, "ok")
    BY <1>8 DEF Server!Put, Inv, Typing
  <2>2. whole \in DocType /\ whole.version = doc[i].version
    BY <1>1, <2>1 DEF DocType
  <2> HIDE DEF whole, i
  <2>3. /\ e \in Seq(DocType) /\ Len(e) = Len(doc)
        /\ \A j \in 1 .. Len(doc) : e[j] = IF j = i THEN whole ELSE doc[j]
    BY <1>1, <2>1, <2>2, ExceptSeq
  <2> HIDE DEF e
  <2>4. /\ Len(doc') = Len(doc) + 1 /\ doc'[Len(doc) + 1] = whole
        /\ \A j \in 1 .. Len(doc) : doc'[j] = e[j]
    BY <2>1, <2>2, <2>3, AppendProperties
  <2>5. \A j \in 1 .. Len(doc) : doc'[j].version = doc[j].version
    BY <2>2, <2>3, <2>4
  <2>6. doc'[Len(doc) + 1].version \in 1 .. version'
    BY <2>1, <2>2, <2>4 DEF BInv, Known
  <2>7. /\ Moves(s) /\ req'[s].stage = "ok"
        /\ req'[s].opened = req[s].opened /\ req'[s].holds = req[s].holds
    BY <2>1, GoMoves DEF Stage
  <2>8. Pending(s) /\ ~Pending(s)'
    BY <2>1, <2>7 DEF Pending
  <2>9. req'[s].opened <= version' /\ req'[s].holds <= Len(doc')
    BY <1>1, <2>1, <2>4, <2>7 DEF BInv, Known, RequestType
  <2> QED
    BY <1>1, <2>1, <2>4, <2>5, <2>6, <2>7, <2>8, <2>9, MakesOne
<1> QED
  BY <1>3, <1>4, <1>5, <1>6, <1>7, <1>8 DEF Server!ServerStep, Server!Serve

LEMMA BStep == Inv /\ Inv' /\ BInv /\ [Next]_vars => BInv'
<1> SUFFICES ASSUME Inv, Inv', BInv, [Next]_vars PROVE BInv'
  OBVIOUS
<1>1. CASE UNCHANGED vars
  BY <1>1 DEF vars, BInv, Counted, Known, Named, Makers, Pending
<1>2. CASE Next
  <2>1. Counted' /\ Known'
    BY <1>2, ClientBStep, ServerBStep DEF Next
  <2>2. rowLock' \in {NoRequest} \cup Slot
    BY <1>2 DEF BInv, Named, Next, ByClient, ByServer, serverVars, Server!ServerNext,
                Server!ServerStep, Server!Serve, Server!NoParameters, Server!Lock,
                Server!LockTimeout, Server!Check, Server!Apply, Server!Write,
                Server!WriteFails, Server!Forget, Server!Read, Server!Bump,
                Server!Store, Server!Take, Server!Put, Server!Release,
                Server!serverVars
  <2>3. version' = version \/ version' = version + 1
    BY <1>2 DEF Next, ByClient, ByServer, serverVars, Server!ServerNext,
                Server!ServerStep, Server!Serve, Server!NoParameters, Server!Lock,
                Server!LockTimeout, Server!Check, Server!Apply, Server!Write,
                Server!WriteFails, Server!Forget, Server!Read, Server!Bump,
                Server!Store, Server!Take, Server!Put, Server!serverVars
  <2>4. version \in Nat \ {0} /\ version' \in Nat \ {0}
    BY DEF Inv, Typing
  <2>5. raced' \subseteq 1 .. version'
    <3>1. raced' \subseteq raced \cup {version'}
      BY <1>2 DEF Next, History
    <3>2. \A v \in 1 .. version : v \in 1 .. version'
      BY <2>3, <2>4
    <3>3. version' \in 1 .. version'
      BY <2>4
    <3> QED
      BY <3>1, <3>2, <3>3 DEF BInv, Named
  <2>6. disturbed' \subseteq Session
    BY <1>2 DEF Next, History, BInv, Named
  <2> QED
    BY <2>1, <2>2, <2>5, <2>6 DEF BInv, Named
<1> QED
  BY <1>1, <1>2

LEMMA TypesBounded == Inv /\ BInv => TypeOK
<1> SUFFICES ASSUME Inv, BInv PROVE TypeOK
  OBVIOUS
<1>1. /\ version \in Nat \ {0} /\ sent \in Nat /\ Len(doc) \in Nat
      /\ Cardinality(Makers) \in Nat
  <2>1. IsFiniteSet(Makers)
    BY SlotAssumption, FS_Subset DEF Makers
  <2> QED
    BY <2>1, FS_CardinalityType, LenProperties DEF Inv, Typing
<1>2. /\ sent \in 0 .. MaxRequests /\ Len(doc) \in 0 .. MaxRequests
      /\ version \in 1 .. (MaxRequests + 1)
  BY <1>1, RequestsAssumption DEF BInv, Counted
<1>3. \A n \in Nat : n <= version => n \in 0 .. (MaxRequests + 1)
  BY <1>1, <1>2, RequestsAssumption
<1>4. \A n \in Nat : n <= Len(doc) => n \in 0 .. MaxRequests
  BY <1>1, <1>2, RequestsAssumption
<1>5. panel \in [Window -> Client!Panel]
  <2>1. \A w \in Window : panel[w] \in PanelType /\ panel[w].version <= version
    BY DEF Inv, Forms, Bounded, Typing
  <2>2. \A w \in Window : panel[w] \in Client!Panel
    BY <1>3, <2>1 DEF PanelType, Client!Panel, Client!Version
  <2> QED
    BY <2>2 DEF Inv, Typing
<1>6. req \in [Slot -> Client!Request]
  <2>1. \A s \in Slot : /\ req[s] \in RequestType
                        /\ req[s].version <= version /\ req[s].opened <= version
                        /\ req[s].holds <= Len(doc)
    BY DEF Inv, Typing, BInv, Known
  <2>2. \A s \in Slot : req[s] \in Client!Request
    BY <1>3, <1>4, <2>1 DEF RequestType, Client!Request, Client!Version
  <2> QED
    BY <2>2 DEF Inv, Typing
<1>7. \A i \in 1 .. Len(doc) : doc[i] \in Server!Copy
  <2>1. \A i \in 1 .. Len(doc) : doc[i] \in DocType /\ doc[i].version \in 1 .. version
    BY ElementOfSeq DEF Inv, Typing, BInv, Known
  <2>2. \A v \in 1 .. version : v \in Server!Version
    BY <1>1, <1>2, RequestsAssumption DEF Server!Version
  <2>3. Client!Content = Server!Content
    BY DEF Client!Content, Server!Content
  <2> QED
    BY <2>1, <2>2, <2>3 DEF DocType, Server!Copy
<1>8. Client!ClientTypeOK
  BY <1>2, <1>5, <1>6 DEF Client!ClientTypeOK, Inv, Typing
<1>9. raced \subseteq Server!Version
  BY <1>1, <1>2, RequestsAssumption DEF BInv, Named, Server!Version
<1>10. Server!ServerTypeOK
  BY <1>2, <1>7
  DEF Server!ServerTypeOK, Server!Version, Server!Ids, Inv, Typing, BInv, Named,
      Client!Content, Server!Content
<1> QED
  BY <1>8, <1>9, <1>10 DEF TypeOK, BInv, Named

-----------------------------------------------------------------------------
(* The theorems *)

\* The two invariants hold in every state
THEOREM SessionInvariant == Spec => [](Inv /\ UInv)
<1> QED
  BY InitInv, InvStep, InitUInv, UStep, PTL DEF Spec

\* Whatever the windows, the sessions and the requests in flight, a save of a
\* session whose requests come one at a time has written every field of its form
\* once it is applied: AppliedIsComplete
THEOREM AppliedComplete == Spec => []AppliedIsComplete
<1>1. Inv /\ UInv => AppliedIsComplete
  <2> SUFFICES ASSUME Inv, UInv, NEW s \in Slot, req[s].stage = "applied",
                      sessionOf[req[s].window] \notin disturbed
               PROVE  req[s].fields \subseteq req[s].md.values
    BY DEF AppliedIsComplete
  <2> DEFINE u == sessionOf[req[s].window]
  <2>1. u \in Session \ disturbed
    BY DEF Inv, Typing
  <2>2. s \in Of(u)
    BY DEF Of, Busy
  <2>3. Ready(u, s)
    BY <2>1, <2>2 DEF UInv, AllCalm, Calm, Complete
  <2> QED
    BY <2>3 DEF Ready
<1> QED
  BY <1>1, SessionInvariant, PTL

\* ... and between its requests a form that is alone in its session and could
\* still be saved is the picture of the tree the session holds, whatever the
\* other sessions do: QuietSessionAgrees
THEOREM QuietFormsAgree == Spec => []QuietSessionAgrees
<1>1. Inv /\ UInv => QuietSessionAgrees
  <2> SUFFICES ASSUME Inv, UInv, NEW w \in Window, panel[w].form,
                      sessionOf[w] \notin disturbed, Alone(w), Of(sessionOf[w]) = {}
               PROVE  Shown(w)
    BY DEF QuietSessionAgrees, Shown, Holds, Matches, Alone, Server!NoCopy
  <2>1. sessionOf[w] \in Session \ disturbed
    BY DEF Inv, Typing
  <2> QED
    BY <2>1 DEF UInv, AllCalm, Calm, Agrees
<1> QED
  BY <1>1, SessionInvariant, PTL

\* Type correctness of client, server and history.  That versions and trees stay
\* within their bounds says that a request, whatever becomes of it, makes at most one
\* tree, and a version only with it: TypeOK
THEOREM TypeCorrect == Spec => []TypeOK
<1> QED
  BY InitInv, InvStep, InitBInv, BStep, TypesBounded, PTL DEF Spec
=============================================================================
