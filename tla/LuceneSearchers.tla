---------------------------- MODULE LuceneSearchers ----------------------------
(***************************************************************************)
(* Searches that span several requests read one state of the Lucene        *)
(* indexes: kernel/search/index/{LuceneIndexLanguageTracker,               *)
(* GeonetworkNRTManager, SearcherVersionTracker, TaxonomyIndexTracker}.    *)
(*                                                                         *)
(* There is an index for each language and one taxonomy for all of them.   *)
(* A search gets a token that stands for one version of every index; when  *)
(* it goes on with the token (the next page, the documents of a page) it   *)
(* is to read the same versions, as long as they are kept.                 *)
(*                                                                         *)
(* External: Lucene 4.1.  NRTManager has a current searcher, replaced by   *)
(* its reopen thread (useNRTManagerReopenThread, the default);             *)
(* SearcherLifetimeManager keeps searchers by the version of their index.  *)
(* The tracker is synchronized, so its methods are single steps; the       *)
(* reopen thread and the release of a reader are not, and come between.    *)
(***************************************************************************)
EXTENDS Integers

CONSTANTS
  Language,         (* languages that may get an index                     *)
  DefaultLanguage,  (* the one createDefaultLocale() opens                 *)
  Session,          (* searchers, each kept in the session of a user       *)
  MaxVersion,       (* bound on the changes of each index                  *)
  MaxCategories,    (* bound on the categories of the taxonomy             *)
  MaxToken,         (* bound on the registered tokens                      *)
  MaxRefs,          (* bound on the references to one searcher             *)
  MaxResets         (* bound on the rebuilds of the index                  *)

ASSUME LuceneAssumption ==
  /\ DefaultLanguage \in Language
  /\ MaxVersion \in Nat \ {0, 1} /\ MaxToken \in Nat \ {0} /\ MaxCategories \in Nat
  /\ MaxRefs \in Nat \ {0, 1} /\ MaxResets \in Nat

VARIABLES
  langs,      (* languages with a GeonetworkNRTManager                     *)
  indexed,    (* version of what the writer of each index holds            *)
  current,    (* version of the current searcher of each NRTManager        *)
  recorded,   (* versions each SearcherLifetimeManager keeps               *)
  refs,       (* references to the searcher of each version                *)
  need,       (* categories the documents of each version refer to         *)
  taxWriter,  (* categories in the taxonomy                                *)
  taxReader,  (* categories the taxonomy reader knows                      *)
  version,    (* SearcherVersionTracker.version: the last token            *)
  mapping,    (* SearcherVersionTracker.mapping: what each token stands for *)
  token,      (* _versionToken of each session                             *)
  page,       (* the versions the session read last                        *)
  held,       (* whether the session still has the reader                  *)
  taxonomy,   (* categories the taxonomy reader it was given knows         *)
  confused,   (* history: a search went on with a partly expired token     *)
  resets

indexes == <<langs, indexed, need, taxWriter>>
searchers == <<current, recorded, refs>>
tokens == <<version, mapping>>
sessions == <<token, page, held, taxonomy>>
vars == <<indexes, searchers, taxReader, tokens, sessions, confused, resets>>

Versions == 1 .. MaxVersion
None == -1
NoPage == [l \in {} |-> None]

One(condition) == IF condition THEN 1 ELSE 0

-----------------------------------------------------------------------------
\* the indexes found at the start, and the first acquire() of setupIndex()
Init ==
  /\ langs \in SUBSET Language
  /\ indexed = [l \in Language |-> 1] /\ current = indexed
  /\ need = [l \in Language |-> [v \in Versions |-> 0]]
  /\ recorded = [l \in Language |-> IF l \in langs THEN {1} ELSE {}]
  /\ refs = [l \in Language |-> [v \in Versions |->
               IF l \in langs /\ v = 1 THEN 2 ELSE 0]]
  /\ taxWriter = 0 /\ taxReader = 0
  /\ version = One(langs # {})
  /\ mapping = [t \in 1 .. version |-> [l \in langs |-> 1]]
  /\ token = [s \in Session |-> None] /\ page = [s \in Session |-> NoPage]
  /\ held = [s \in Session |-> FALSE] /\ taxonomy = [s \in Session |-> None]
  /\ confused = FALSE /\ resets = 0

-----------------------------------------------------------------------------
(* Writing *)

\* addDocument() opens the index of its language and commits the categories
\* before the document is added
AddDocument(l) ==
  LET v == indexed[l] + 1
  IN /\ v \in Versions
     /\ indexed' = [indexed EXCEPT ![l] = v]
     /\ \E n \in {0, 1} :
          /\ taxWriter' = taxWriter + n /\ taxWriter' <= MaxCategories
          /\ need' = [need EXCEPT ![l][v] = IF n = 1 THEN taxWriter' ELSE need[l][v - 1]]
     /\ langs' = langs \cup {l}
     /\ refs' = [refs EXCEPT ![l][1] = IF l \in langs THEN @ ELSE 1]
     /\ UNCHANGED <<current, recorded, taxReader, tokens, sessions, confused, resets>>

\* deleteDocuments() goes to every writer; some have documents to delete
DeleteDocuments ==
  /\ \E hit \in SUBSET langs \ {{}} :
       /\ \A l \in hit : indexed[l] + 1 \in Versions
       /\ indexed' = [l \in Language |-> indexed[l] + One(l \in hit)]
       /\ need' = [l \in Language |-> IF l \in hit
                     THEN [need[l] EXCEPT ![indexed[l] + 1] = need[l][indexed[l]]]
                     ELSE need[l]]
  /\ UNCHANGED <<langs, taxWriter, searchers, taxReader, tokens, sessions, confused, resets>>

\* the reopen thread of a language, which leaves the taxonomy reader alone
Refresh(l) ==
  /\ l \in langs /\ current[l] < indexed[l]
  /\ current' = [current EXCEPT ![l] = indexed[l]]
  /\ refs' = [refs EXCEPT ![l] = [v \in Versions |->
                refs[l][v] - One(v = current[l]) + One(v = indexed[l])]]
  /\ UNCHANGED <<indexes, recorded, taxReader, tokens, sessions, confused, resets>>

-----------------------------------------------------------------------------
(* GeonetworkNRTManager.acquire *)

\* SearcherVersionTracker.get
Named(t, l) ==
  IF t \in DOMAIN mapping /\ l \in DOMAIN mapping[t] THEN mapping[t][l] ELSE None

Found(t, l) == Named(t, l) \in recorded[l]

Snapshot(t, l) == IF Found(t, l) THEN Named(t, l) ELSE current[l]

\* AcquireResult.version: of a searcher that was found, the token of the caller
ResultVersion(t, l) == IF Found(t, l) THEN t ELSE current[l]

NewSearcher(t, l) == ResultVersion(t, l) # t

LastVersionUpToDate(t, l) == ~Found(t, l) /\ Named(version, l) = current[l]

\* Mutant: when both are the same searcher both references are given back
Acquired_Twice(t, l) ==
  [v \in Versions |->
     refs[l][v] + One(v = Snapshot(t, l)) - One(LastVersionUpToDate(t, l) /\ v = current[l])
       + One(~Found(t, l) /\ v = current[l] /\ v \notin recorded[l])]

\* the references after acquire(): the reader's, the lifetime manager's, and
\* that to the searcher of the last token, given back only if it is the same
Acquired(t, l) ==
  [v \in Versions |->
     refs[l][v] + One(v = Snapshot(t, l))
       + One(~Found(t, l) /\ v = current[l] /\ v \notin recorded[l])
       + One(~Found(t, l) /\ v \in recorded[l] \ {current[l]} /\ v = Named(version, l))]

-----------------------------------------------------------------------------
(* LuceneIndexLanguageTracker.acquire *)

TokenExpired(t) == \E l \in langs : NewSearcher(t, l)

\* Mutant: it is enough that the last token is up to date for some language
UpToDate_Some(t) == \E l \in langs : LastVersionUpToDate(t, l)

UpToDate(t) == \A l \in langs : LastVersionUpToDate(t, l)

\* Mutant: the taxonomy reader is not refreshed for a new token
Register_Stale(t) ==
  /\ version < MaxToken /\ version' = version + 1
  /\ mapping' = [u \in DOMAIN mapping \cup {version'} |->
                  IF u = version' THEN [l \in langs |-> ResultVersion(t, l)] ELSE mapping[u]]
  /\ taxReader' = IF taxReader = None THEN taxWriter ELSE taxReader

\* a new token, and a taxonomy reader that knows every category of the readers
Register(t) ==
  /\ version < MaxToken /\ version' = version + 1
  /\ mapping' = [u \in DOMAIN mapping \cup {version'} |->
                  IF u = version' THEN [l \in langs |-> ResultVersion(t, l)] ELSE mapping[u]]
  /\ taxReader' = taxWriter

\* the token was answered for some indexes only, or its number is by chance
\* the version of every index
Confuses(t) ==
  /\ \E l \in langs : ~Found(t, l)
  /\ \/ \E l \in langs : Found(t, l)
     \/ \A l \in langs : current[l] = t

Acquire(s, t) ==
  /\ ~held[s]
  /\ \A l \in langs : \A v \in Versions : Acquired(t, l)[v] <= MaxRefs
  /\ recorded' = [l \in Language |->
                   IF l \notin langs \/ Found(t, l) THEN recorded[l]
                   ELSE recorded[l] \cup {current[l]}]
  /\ refs' = [l \in Language |-> IF l \in langs THEN Acquired(t, l) ELSE refs[l]]
  /\ IF TokenExpired(t) /\ ~UpToDate(t)
     THEN Register(t)
     ELSE UNCHANGED tokens
            /\ taxReader' = IF taxReader = None THEN taxWriter ELSE taxReader
  /\ token' = [token EXCEPT ![s] = IF TokenExpired(t) THEN version' ELSE t]
  /\ page' = [page EXCEPT ![s] = [l \in langs |-> Snapshot(t, l)]]
  /\ held' = [held EXCEPT ![s] = TRUE]
  /\ taxonomy' = [taxonomy EXCEPT ![s] = taxReader']
  /\ confused' = (confused \/ Confuses(t))
  /\ UNCHANGED <<indexes, current, resets>>

\* a new search; a search that goes on
Search(s) == Acquire(s, None)
Continue(s) == token[s] # None /\ Acquire(s, token[s])

\* Mutant: the reader is released twice
Release_Twice(s) ==
  /\ held[s] /\ held' = [held EXCEPT ![s] = FALSE]
  /\ taxonomy' = [taxonomy EXCEPT ![s] = None]
  /\ refs' = [l \in Language |-> [v \in Versions |->
               refs[l][v] - 2 * One(l \in DOMAIN page[s] /\ page[s][l] = v)]]
  /\ UNCHANGED <<indexes, current, recorded, taxReader, tokens, token, page,
                 confused, resets>>

\* releaseToNRTManager()
Release(s) ==
  /\ held[s] /\ held' = [held EXCEPT ![s] = FALSE]
  /\ taxonomy' = [taxonomy EXCEPT ![s] = None]
  /\ refs' = [l \in Language |-> [v \in Versions |->
               refs[l][v] - One(l \in DOMAIN page[s] /\ page[s][l] = v)]]
  /\ UNCHANGED <<indexes, current, recorded, taxReader, tokens, token, page,
                 confused, resets>>

-----------------------------------------------------------------------------
\* PurgeExpiredSearchersTask: of each language the searchers that were
\* replaced long enough ago, then the tokens that lost one
Purge ==
  /\ \E oldest \in [langs -> Versions] :
       recorded' = [l \in Language |-> {v \in recorded[l] :
                     l \in langs => v >= oldest[l] \/ \A w \in recorded[l] : w <= v}]
  /\ refs' = [l \in Language |-> [v \in Versions |->
               refs[l][v] - One(v \in recorded[l] \ recorded'[l])]]
  /\ LET kept == {t \in DOMAIN mapping : \A l \in langs :
                    l \in DOMAIN mapping[t] /\ mapping[t][l] \in recorded'[l]}
     IN  mapping' = [t \in kept |-> mapping[t]]
  /\ recorded' # recorded
  /\ UNCHANGED <<indexes, current, taxReader, version, sessions, confused, resets>>

\* setupIndex(true): reset(), then createDefaultLocale(); the tokens and their
\* counter stay.  Readers still held belong to managers that are closed.
Reset ==
  /\ resets < MaxResets /\ resets' = resets + 1
  /\ langs' = {DefaultLanguage}
  /\ indexed' = [l \in Language |-> 1] /\ current' = indexed'
  /\ need' = [l \in Language |-> [v \in Versions |-> 0]]
  /\ recorded' = [l \in Language |-> {}]
  /\ refs' = [l \in Language |-> [v \in Versions |->
               One(l = DefaultLanguage /\ v = 1)]]
  /\ taxWriter' = 0 /\ taxReader' = None
  /\ held' = [s \in Session |-> FALSE] /\ page' = [s \in Session |-> NoPage]
  /\ taxonomy' = [s \in Session |-> None]
  /\ UNCHANGED <<tokens, token, confused>>

Next ==
  \/ \E l \in Language : AddDocument(l) \/ Refresh(l)
  \/ DeleteDocuments
  \/ \E s \in Session : Search(s) \/ Continue(s) \/ Release(s)
  \/ Purge
  \/ Reset

Spec == Init /\ [][Next]_vars

-----------------------------------------------------------------------------
(* Properties *)

Page == UNION {[L -> Versions] : L \in SUBSET Language}

TypeOK ==
  /\ langs \subseteq Language
  /\ indexed \in [Language -> Versions] /\ current \in [Language -> Versions]
  /\ recorded \in [Language -> SUBSET Versions]
  /\ refs \in [Language -> [Versions -> 0 .. MaxRefs]]
  /\ need \in [Language -> [Versions -> 0 .. taxWriter]]
  /\ taxWriter \in Nat /\ taxReader \in 0 .. taxWriter \cup {None}
  /\ version \in 0 .. MaxToken
  /\ DOMAIN mapping \subseteq 1 .. version
  /\ \A t \in DOMAIN mapping :
       mapping[t] \in UNION {[L -> 1 .. MaxVersion + MaxToken] : L \in SUBSET Language}
  /\ token \in [Session -> 1 .. version \cup {None}]
  /\ page \in [Session -> Page] /\ held \in [Session -> BOOLEAN]
  /\ taxonomy \in [Session -> Nat \cup {None}]
  /\ confused \in BOOLEAN /\ resets \in 0 .. MaxResets

\* A searcher is not closed while the reader of a session uses it, whatever is
\* refreshed, purged, acquired and released meanwhile.
HeldIsOpen ==
  \A s \in Session : held[s] => \A l \in DOMAIN page[s] : refs[l][page[s][l]] > 0

\* every version the session read is still kept, for every index there is
Kept(s) ==
  /\ page[s] # NoPage
  /\ \A l \in langs : l \in DOMAIN page[s] /\ page[s][l] \in recorded[l]

NamesPage(s) == \A l \in langs : Named(token[s], l) = page[s][l]

\* A search that goes on reads the versions it read before, as long as they
\* are kept: its documents are numbered as in its hits.  Not so after a search
\* went on with a token that was answered for some languages only.
TokenKept == ~confused => \A s \in Session : Kept(s) => NamesPage(s)

\* The taxonomy reader handed out with a reader knows every category of its
\* documents, although the reopen thread refreshes one and not the other.  Not
\* so after a rebuild: the last token from before it may be up to date by chance.
TaxonomyCovers ==
  ~confused /\ resets = 0 => \A s \in Session : held[s] =>
    \A l \in DOMAIN page[s] : need[l][page[s][l]] <= taxonomy[s]

\* "a new version will be returned which will have to be later registered with
\* the single versionToken for the entire set of searchers"
\* (GeonetworkNRTManager lines 69-71): a token is registered with the versions
\* of the searchers it was returned with.
TokenNamesPage == \A s \in Session : Kept(s) => NamesPage(s)
=============================================================================
