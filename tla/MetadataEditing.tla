--------------------------- MODULE MetadataEditing ---------------------------
(***************************************************************************)
(* The editing services of the server (GetEditableData, Update,            *)
(* AddElement, DeleteElement over AjaxEditUtils, EditLib and DataManager), *)
(* for one record that several sessions may edit.                          *)
(*                                                                         *)
(* A record is opened in three steps: it is read, the version EditLib      *)
(* keeps of it is increased, and the copy with the editing information is  *)
(* stored in the user's session.  A save carries the version of the form:  *)
(* it is compared with the current one, the fields are applied to the copy *)
(* of the session, which loses its editing information on the way, and the *)
(* copy is written.  The write does not change the version; the forward to *)
(* the service "edit", which opens the record again, does.                 *)
(*                                                                         *)
(* The requests are those of EditorPanel.  A copy is a tree that several   *)
(* requests of a session may hold and change at once: doc[i] is the i-th   *)
(* tree that was made, by opening the record or by cloning another tree.   *)
(***************************************************************************)
EXTENDS Naturals, Sequences

CONSTANTS Window, Slot, Session, Edit, Element, MaxRequests, NoRequest

VARIABLES
    sessionOf,    \* the HTTP session of each window
    req,          \* the requests, shared with the client
    record,       \* the committed record
    version,      \* EditLib.htVersions for the record
    doc,          \* the trees made so far
    copy,         \* copy[u]: the tree session u holds, or NoCopy
    rowLock       \* the request that updated the row and has not committed

serverVars == <<record, version, doc, copy, rowLock>>

NoCopy == 0
Content == [values : SUBSET Edit, elems : SUBSET Element]
NoContent == [values |-> {}, elems |-> {}]
Version == 1 .. (MaxRequests + 1)

\* refs: the elements still carry the references the form names them with;
\* info: the geonet:info element is in its place
Copy == [content : Content, version : Version, refs : BOOLEAN,
         info : BOOLEAN]

Ids == 0 .. MaxRequests

ServerInit ==
    /\ sessionOf \in [Window -> Session]
    /\ record = NoContent
    /\ version = 1
    /\ doc = <<>>
    /\ copy = [u \in Session |-> NoCopy]
    /\ rowLock = NoRequest

-----------------------------------------------------------------------------
At(s, stage, kinds) == /\ req[s].stage = stage
                          /\ req[s].kind \in kinds

Go(s, stage) == req' = [req EXCEPT ![s].stage = stage]

Saves == {"save", "finish"}
Updates == Saves \cup {"forget", "cancel"}
ElementCalls == {"add", "attribute", "delete"}

Release == rowLock' = NoRequest

\* Update without the fields of the form: there is no id to look up
NoParameters(s) ==
    /\ At(s, "sent", Updates)
    /\ req[s].version = 0
    /\ Go(s, "error")
    /\ UNCHANGED serverVars

\* Update of a save begins with setTemplateExt: the row is locked until the
\* transaction ends
Lock(s) ==
    /\ At(s, "sent", Saves)
    /\ req[s].version # 0
    /\ rowLock = NoRequest
    /\ rowLock' = s
    /\ Go(s, "locked")
    /\ UNCHANGED <<record, version, doc, copy>>

\* The database does not let the request wait for the row any longer
LockTimeout(s) ==
    /\ At(s, "sent", Saves)
    /\ req[s].version # 0
    /\ rowLock \notin {NoRequest, s}
    /\ Go(s, "error")
    /\ UNCHANGED serverVars

\* A mutant: the version of the form is not compared
Check_Any(s) ==
    /\ At(s, "locked", Saves)
    /\ Go(s, "checked")
    /\ UNCHANGED serverVars

\* applyChangesEmbedded: a version that is not the current one is refused with
\* ConcurrentUpdateEx, and the transaction aborted
Check(s) ==
    /\ At(s, "locked", Saves)
    /\ IF req[s].version = version
       THEN Go(s, "checked") /\ UNCHANGED rowLock
       ELSE Go(s, "error") /\ Release
    /\ UNCHANGED <<record, version, doc, copy>>

\* ... then the fields are applied to the copy of the session, as far as their
\* references are found, and its editing information is removed
Apply(s) ==
    LET i == copy[sessionOf[req[s].window]]
        applied == IF doc[i].refs
                   THEN [doc[i].content EXCEPT !.values = req[s].fields]
                   ELSE doc[i].content
    IN
    /\ At(s, "checked", Saves)
    /\ IF i = NoCopy
       THEN Go(s, "error") /\ Release /\ UNCHANGED doc
       ELSE /\ req' = [req EXCEPT ![s].stage = "applied",
                                  ![s].md = applied]
            /\ doc' = [doc EXCEPT ![i].content = applied,
                                  ![i].refs = FALSE, ![i].info = FALSE]
            /\ UNCHANGED rowLock
    /\ UNCHANGED <<record, version, copy>>

\* DataManager.updateMetadata writes the copy and the service commits; a
\* finished session forgets its copy, a save is forwarded to "edit"
Write(s) ==
    /\ At(s, "applied", Saves)
    /\ record' = req[s].md
    /\ IF req[s].kind = "finish"
       THEN /\ Go(s, "ok")
            /\ copy' = [copy EXCEPT ![sessionOf[req[s].window]] = NoCopy]
       ELSE Go(s, "reading") /\ UNCHANGED copy
    /\ Release
    /\ UNCHANGED <<version, doc>>

\* ... or the update fails and the service aborts
WriteFails(s) ==
    /\ At(s, "applied", Saves)
    /\ Go(s, "error")
    /\ Release
    /\ UNCHANGED <<record, version, doc, copy>>

\* metadata.update.forgetandfinish
Forget(s) ==
    /\ At(s, "sent", {"cancel"})
    /\ req[s].version # 0
    /\ copy' = [copy EXCEPT ![sessionOf[req[s].window]] = NoCopy]
    /\ Go(s, "ok")
    /\ UNCHANGED <<record, version, doc, rowLock>>

-----------------------------------------------------------------------------
(* getMetadataEmbedded: a request for "edit", a reset, or the forward of a  *)
(* save                                                                     *)

Read(s) ==
    /\ \/ At(s, "sent", {"edit"})
       \/ At(s, "sent", {"forget"}) /\ req[s].version # 0
       \/ At(s, "reading", {"save"})
    /\ req' = [req EXCEPT ![s].stage = "read", ![s].md = record]
    /\ UNCHANGED serverVars

\* A mutant: the version is increased once more when it is read
Bump_Twice(s) ==
    /\ req[s].stage = "read"
    /\ version' = version + 2
    /\ doc' = Append(doc, [content |-> req[s].md, version |-> version',
                           refs |-> TRUE, info |-> TRUE])
    /\ req' = [req EXCEPT ![s].stage = "bumped", ![s].holds = Len(doc'),
                          ![s].opened = version']
    /\ UNCHANGED <<record, copy, rowLock>>

\* getVersionForEditing: the next version, and the references of the copy
Bump(s) ==
    /\ req[s].stage = "read"
    /\ version' = version + 1
    /\ doc' = Append(doc, [content |-> req[s].md, version |-> version',
                           refs |-> TRUE, info |-> TRUE])
    /\ req' = [req EXCEPT ![s].stage = "bumped", ![s].holds = Len(doc'),
                          ![s].opened = version']
    /\ UNCHANGED <<record, copy, rowLock>>

\* setMetadataIntoSession
Store(s) ==
    /\ req[s].stage = "bumped"
    /\ copy' = [copy EXCEPT ![sessionOf[req[s].window]] = req[s].holds]
    /\ Go(s, "ok")
    /\ UNCHANGED <<record, version, doc, rowLock>>

-----------------------------------------------------------------------------
(* addElementEmbedded and deleteElementEmbedded: the copy of the session is *)
(* changed in place, without a look at the version of the form, and a clone *)
(* of it is stored.  Meanwhile its geonet:info element is taken out.        *)

\* A missing copy, reference or info element ends the request with an
\* exception.  A deletion has taken out the info element by the time it looks
\* for the element to delete.
Take(s) ==
    LET q == req[s]
        i == copy[sessionOf[q.window]]
        found == doc[i].refs /\ (q.kind = "delete" =>
                                   q.elem \subseteq doc[i].content.elems)
    IN
    /\ At(s, "sent", ElementCalls)
    /\ IF i = NoCopy \/ ~doc[i].info
       THEN Go(s, "error") /\ UNCHANGED doc
       ELSE /\ doc' = IF q.kind = "delete" \/ found
                      THEN [doc EXCEPT ![i].info = FALSE,
                              ![i].content.elems =
                                 IF ~found THEN @
                                 ELSE IF q.kind = "delete" THEN @ \ q.elem
                                                           ELSE @ \cup q.elem]
                      ELSE doc
            /\ IF found
               THEN req' = [req EXCEPT ![s].stage = "taken", ![s].holds = i]
               ELSE Go(s, "error")
    /\ UNCHANGED <<record, version, copy, rowLock>>

\* A mutant: the info element is not put back
Put_Bare(s) ==
    /\ req[s].stage = "taken"
    /\ doc' = Append(doc, doc[req[s].holds])
    /\ copy' = [copy EXCEPT ![sessionOf[req[s].window]] = Len(doc')]
    /\ Go(s, "ok")
    /\ UNCHANGED <<record, version, rowLock>>

\* The info element is put back and a clone is stored
Put(s) ==
    LET i == req[s].holds
        whole == [doc[i] EXCEPT !.info = TRUE]
    IN
    /\ req[s].stage = "taken"
    /\ doc' = Append([doc EXCEPT ![i] = whole], whole)
    /\ copy' = [copy EXCEPT ![sessionOf[req[s].window]] = Len(doc')]
    /\ Go(s, "ok")
    /\ UNCHANGED <<record, version, rowLock>>

-----------------------------------------------------------------------------
\* What the server does on its own, apart from failing
Serve(s) == \/ NoParameters(s) \/ Lock(s) \/ Check(s)
               \/ Apply(s) \/ Write(s) \/ Forget(s)
               \/ Read(s) \/ Bump(s) \/ Store(s)
               \/ Take(s) \/ Put(s)

ServerStep(s) == Serve(s) \/ LockTimeout(s) \/ WriteFails(s)

ServerNext == \E s \in Slot : ServerStep(s)

ServerTypeOK ==
    /\ sessionOf \in [Window -> Session]
    /\ record \in Content
    /\ version \in Version
    /\ Len(doc) \in Ids /\ \A i \in 1 .. Len(doc) : doc[i] \in Copy
    /\ copy \in [Session -> 0 .. Len(doc)]
    /\ rowLock \in {NoRequest} \cup Slot
=============================================================================
