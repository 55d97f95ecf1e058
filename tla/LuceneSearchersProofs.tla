------------------------- MODULE LuceneSearchersProofs -------------------------
(***************************************************************************)
(* Proofs about LuceneSearchers, for any languages and sessions, also      *)
(* infinitely many, and any bounds.                                        *)
(*                                                                         *)
(* A searcher stays open because its references are counted: at least one  *)
(* for each of those who use it (Counted).  A token keeps naming the page  *)
(* of its session because a version that was dropped never comes back      *)
(* (Pages), and the taxonomy reader covers a page because a token that is  *)
(* still known was registered with a reader at least as old (Covered).     *)
(***************************************************************************)
EXTENDS LuceneSearchers, FiniteSetTheorems, TLAPS

-----------------------------------------------------------------------------
(* The inductive invariant *)

Users(l, v) == {s \in Session : held[s] /\ l \in DOMAIN page[s] /\ page[s][l] = v}

\* what counts as a use: being current, being recorded, each reader
Uses(l, v) == One(l \in langs /\ v = current[l]) + One(v \in recorded[l])
                + Cardinality(Users(l, v))

\* The searchers of an index are at most as new as the current one
Ordered ==
  \A l \in Language :
    /\ current[l] <= indexed[l]
    /\ \A v \in recorded[l] : v <= current[l]
    /\ \A v \in Versions : v > current[l] => refs[l][v] = 0
    /\ l \notin langs => current[l] = 1 /\ recorded[l] = {}

\* A session read the current version only if it is recorded
Pages ==
  \A s \in Session : \A l \in DOMAIN page[s] :
    /\ l \in langs /\ page[s][l] <= current[l]
    /\ page[s][l] = current[l] => current[l] \in recorded[l]

Counted ==
  \A l \in Language : \A v \in Versions :
    IsFiniteSet(Users(l, v)) /\ refs[l][v] >= Uses(l, v)

\* The taxonomy reader knows the categories of every version a token stands for
TokensCovered ==
  ~confused /\ resets = 0 =>
    /\ taxReader # None
    /\ \A t \in DOMAIN mapping : \A l \in DOMAIN mapping[t] :
         /\ mapping[t][l] \in Versions /\ mapping[t][l] <= indexed[l]
         /\ need[l][mapping[t][l]] <= taxReader

Covered == TokensCovered /\ TaxonomyCovers

IInv == TypeOK /\ Ordered /\ Pages /\ Counted /\ TokenKept /\ Covered

-----------------------------------------------------------------------------
(* What the operators of the model return *)

LEMMA VersionsType == 1 \in Versions /\ \A v \in Versions : v \in Nat /\ v \in Int /\ v >= 1
BY LuceneAssumption DEF Versions

LEMMA PageType ==
  ASSUME TypeOK, NEW s \in Session
  PROVE  /\ DOMAIN page[s] \subseteq Language
         /\ \A l \in DOMAIN page[s] : page[s][l] \in Versions
BY DEF TypeOK, Page

LEMMA FoundFacts ==
  ASSUME TypeOK, NEW l \in Language, NEW t \in 1 .. version \cup {None}
  PROVE  /\ Found(t, l) => /\ t \in DOMAIN mapping /\ l \in DOMAIN mapping[t]
                           /\ Named(t, l) = mapping[t][l]
                           /\ Named(t, l) \in recorded[l] /\ t \in 1 .. version
         /\ Snapshot(t, l) \in Versions
         /\ Snapshot(t, l) \in recorded[l] \cup {current[l]}
         /\ ResultVersion(t, l) \in 1 .. MaxVersion + MaxToken
<1>1. /\ recorded[l] \subseteq Versions /\ current[l] \in Versions
      /\ version \in 0 .. MaxToken
  BY DEF TypeOK
<1>2. Found(t, l) => t \in DOMAIN mapping /\ l \in DOMAIN mapping[t]
  BY <1>1, VersionsType DEF Found, Named, None
<1>3. DOMAIN mapping \subseteq 1 .. version
  BY DEF TypeOK
<1>4. ResultVersion(t, l) \in 1 .. MaxVersion + MaxToken
  BY <1>1, <1>2, <1>3, LuceneAssumption DEF ResultVersion, Versions
<1> QED
  BY <1>1, <1>2, <1>3, <1>4 DEF Found, Named, Snapshot

\* what acquire() leaves of the references
LEMMA AcquiredFacts ==
  ASSUME TypeOK, NEW l \in Language, NEW t, NEW v \in Versions
  PROVE  /\ Acquired(t, l)[v] \in Nat
         /\ Acquired(t, l)[v] >= refs[l][v] + One(v = Snapshot(t, l))
              + One(~Found(t, l) /\ v = current[l] /\ v \notin recorded[l])
         /\ /\ v # Snapshot(t, l) /\ v # current[l]
            /\ v \notin recorded[l] /\ refs[l][v] = 0
            => Acquired(t, l)[v] = 0
BY DEF TypeOK, Acquired, One

-----------------------------------------------------------------------------
THEOREM InitInv == Init => IInv
<1> SUFFICES ASSUME Init PROVE IInv
  OBVIOUS
<1> USE DEF Init
<1>1. TypeOK
  <2>1. version \in 0 .. MaxToken /\ version \in {0, 1}
    BY LuceneAssumption DEF One
  <2>2. DOMAIN mapping = 1 .. version /\ \A t \in DOMAIN mapping : mapping[t] = [l \in langs |-> 1]
    OBVIOUS
  <2>3. [l \in langs |-> 1] \in [langs -> 1 .. MaxVersion + MaxToken] /\ langs \in SUBSET Language
    BY LuceneAssumption
  <2>4. \A t \in DOMAIN mapping :
          mapping[t] \in UNION {[L -> 1 .. MaxVersion + MaxToken] : L \in SUBSET Language}
    BY <2>2, <2>3
  <2>5. NoPage \in [{} -> Versions] /\ {} \in SUBSET Language
    BY DEF NoPage
  <2>6. page \in [Session -> Page]
    BY <2>5 DEF Page
  <2>7. refs \in [Language -> [Versions -> 0 .. MaxRefs]]
    BY LuceneAssumption
  <2>8. need \in [Language -> [Versions -> 0 .. taxWriter]]
    OBVIOUS
  <2>9. recorded \in [Language -> SUBSET Versions] /\ indexed \in [Language -> Versions]
    BY VersionsType
  <2>10. langs \subseteq Language /\ current \in [Language -> Versions] /\ confused \in BOOLEAN
    BY VersionsType
  <2>12. taxWriter \in Nat /\ taxReader \in 0 .. taxWriter \cup {None} /\ resets \in 0 .. MaxResets
    BY LuceneAssumption
  <2>11. /\ token \in [Session -> 1 .. version \cup {None}] /\ held \in [Session -> BOOLEAN]
         /\ taxonomy \in [Session -> Nat \cup {None}]
    OBVIOUS
  <2> HIDE DEF Init
  <2> QED
    BY <2>1, <2>2, <2>4, <2>6, <2>7, <2>8, <2>9, <2>10, <2>11, <2>12 DEF TypeOK
<1>2. Ordered
  <2> SUFFICES ASSUME NEW l \in Language
               PROVE  /\ current[l] <= indexed[l]
                      /\ \A v \in recorded[l] : v <= current[l]
                      /\ \A v \in Versions : v > current[l] => refs[l][v] = 0
                      /\ l \notin langs => current[l] = 1 /\ recorded[l] = {}
    BY DEF Ordered
  <2>1. current[l] = 1 /\ indexed[l] = 1 /\ recorded[l] \subseteq {1}
    OBVIOUS
  <2>2. \A v \in Versions : v > 1 => refs[l][v] = 0
    BY VersionsType
  <2> QED
    BY <2>1, <2>2
<1>3. Pages
  BY DEF Pages, NoPage
<1>4. Counted
  <2> SUFFICES ASSUME NEW l \in Language, NEW v \in Versions
               PROVE  IsFiniteSet(Users(l, v)) /\ refs[l][v] >= Uses(l, v)
    BY DEF Counted
  <2>1. Users(l, v) = {}
    BY DEF Users
  <2>2. Cardinality(Users(l, v)) = 0 /\ IsFiniteSet(Users(l, v))
    BY <2>1, FS_EmptySet
  <2> QED
    BY <2>2 DEF Uses, One
<1>5. TokenKept
  BY DEF TokenKept, Kept
<1>6. Covered
  <2>1. TaxonomyCovers
    BY DEF TaxonomyCovers
  <2>2. TokensCovered
    BY VersionsType DEF TokensCovered, None
  <2> QED
    BY <2>1, <2>2 DEF Covered
<1> QED
  BY <1>1, <1>2, <1>3, <1>4, <1>5, <1>6 DEF IInv

-----------------------------------------------------------------------------
(* Writing and refreshing *)

\* What covers the pages and the tokens goes on to cover them while categories
\* and versions are only added
LEMMA CoveredStays ==
  ASSUME IInv, TypeOK', resets' = resets, confused' = confused, mapping' = mapping,
         taxReader' = taxReader, UNCHANGED sessions,
         \A l \in Language :
           /\ indexed[l] <= indexed'[l]
           /\ \A v \in Versions : v <= indexed[l] => need'[l][v] = need[l][v]
  PROVE  Covered'
<1>1. TokensCovered'
  <2> SUFFICES ASSUME ~confused /\ resets = 0, NEW t \in DOMAIN mapping,
                      NEW l \in DOMAIN mapping[t]
               PROVE  /\ mapping[t][l] \in Versions /\ mapping[t][l] <= indexed'[l]
                      /\ need'[l][mapping[t][l]] <= taxReader
    BY DEF TokensCovered, IInv, Covered
  <2>1. l \in Language
    BY DEF IInv, TypeOK
  <2>2. /\ mapping[t][l] \in Versions /\ mapping[t][l] <= indexed[l]
        /\ need[l][mapping[t][l]] <= taxReader
    BY DEF TokensCovered, IInv, Covered
  <2>3. indexed[l] \in Nat /\ indexed'[l] \in Nat
    BY <2>1, VersionsType DEF IInv, TypeOK
  <2>4. need'[l][mapping[t][l]] = need[l][mapping[t][l]]
    BY <2>1, <2>2
  <2> QED
    BY <2>1, <2>2, <2>3, <2>4, VersionsType
<1>2. TaxonomyCovers'
  <2> SUFFICES ASSUME ~confused /\ resets = 0, NEW s \in Session, held[s],
                      NEW l \in DOMAIN page[s]
               PROVE  need'[l][page[s][l]] <= taxonomy[s]
    BY DEF TaxonomyCovers, sessions
  <2>1. l \in Language /\ page[s][l] \in Versions
    BY PageType DEF IInv
  <2>2. page[s][l] <= current[l] /\ current[l] <= indexed[l]
    BY <2>1 DEF IInv, Pages, Ordered
  <2>3. indexed[l] \in Nat /\ current[l] \in Nat
    BY <2>1, VersionsType DEF IInv, TypeOK
  <2>4. page[s][l] <= indexed[l]
    BY <2>1, <2>2, <2>3, VersionsType
  <2> QED
    BY <2>1, <2>4 DEF IInv, Covered, TaxonomyCovers
<1> QED
  BY <1>1, <1>2 DEF Covered

\* A session that kept its page before kept it if nothing was recorded anew
LEMMA TokensStay ==
  ASSUME IInv, confused' = confused, mapping' = mapping, token' = token, page' = page,
         recorded' = recorded, langs \subseteq langs'
  PROVE  TokenKept'
<1> SUFFICES ASSUME ~confused, NEW s \in Session, Kept(s)'
             PROVE  NamesPage(s)'
  BY DEF TokenKept
<1>1. langs' = langs
  BY DEF Kept, IInv, Pages
<1>2. Kept(s)
  BY <1>1 DEF Kept
<1>3. NamesPage(s)
  BY <1>2 DEF IInv, TokenKept
<1> QED
  BY <1>1, <1>3 DEF NamesPage, Named

LEMMA AddDocumentStep ==
  ASSUME IInv, NEW l \in Language, AddDocument(l)
  PROVE  IInv'
<1> DEFINE v == indexed[l] + 1
<1>1. /\ v \in Versions /\ indexed' = [indexed EXCEPT ![l] = v] /\ langs' = langs \cup {l}
      /\ refs' = [refs EXCEPT ![l][1] = IF l \in langs THEN refs[l][1] ELSE 1]
      /\ UNCHANGED <<current, recorded, taxReader, tokens, sessions, confused, resets>>
  BY DEF AddDocument
<1>2. PICK n \in {0, 1} :
        /\ taxWriter' = taxWriter + n /\ taxWriter' <= MaxCategories
        /\ need' = [need EXCEPT ![l][v] = IF n = 1 THEN taxWriter' ELSE need[l][v - 1]]
  BY DEF AddDocument
<1>3. /\ refs \in [Language -> [Versions -> 0 .. MaxRefs]] /\ 1 \in 0 .. MaxRefs
      /\ indexed \in [Language -> Versions] /\ taxWriter \in Nat
      /\ need \in [Language -> [Versions -> 0 .. taxWriter]]
      /\ taxReader \in 0 .. taxWriter \cup {None} /\ langs \subseteq Language
      /\ current \in [Language -> Versions] /\ recorded \in [Language -> SUBSET Versions]
  BY LuceneAssumption DEF IInv, TypeOK
<1>4. refs' \in [Language -> [Versions -> 0 .. MaxRefs]]
  BY <1>1, <1>3, VersionsType
<1>5. need' \in [Language -> [Versions -> 0 .. taxWriter']] /\ taxWriter' \in Nat
      /\ taxReader' \in 0 .. taxWriter' \cup {None}
  <2>1. v - 1 \in Versions /\ v - 1 = indexed[l]
    BY <1>3, VersionsType
  <2>2. 0 .. taxWriter \subseteq 0 .. taxWriter' /\ taxWriter' \in 0 .. taxWriter'
    BY <1>2, <1>3
  <2>3. (IF n = 1 THEN taxWriter' ELSE need[l][v - 1]) \in 0 .. taxWriter'
    BY <2>1, <2>2, <1>3
  <2>4. need \in [Language -> [Versions -> 0 .. taxWriter']]
    BY <2>2, <1>3
  <2> HIDE DEF v
  <2>5. need' \in [Language -> [Versions -> 0 .. taxWriter']]
    BY <2>3, <2>4, <1>1, <1>2
  <2> QED
    BY <2>2, <2>5, <1>1, <1>2, <1>3
<1>6. TypeOK'
  BY <1>1, <1>3, <1>4, <1>5 DEF IInv, TypeOK, tokens, sessions, Page, Versions
<1>7. Ordered'
  <2> SUFFICES ASSUME NEW k \in Language
               PROVE  /\ current[k] <= indexed'[k]
                      /\ \A w \in recorded[k] : w <= current[k]
                      /\ \A w \in Versions : w > current[k] => refs'[k][w] = 0
                      /\ k \notin langs' => current[k] = 1 /\ recorded[k] = {}
    BY <1>1 DEF Ordered
  <2>1. /\ current[k] <= indexed[k]
        /\ \A w \in recorded[k] : w <= current[k]
        /\ \A w \in Versions : w > current[k] => refs[k][w] = 0
        /\ k \notin langs => current[k] = 1 /\ recorded[k] = {}
    BY DEF IInv, Ordered
  <2>2. current[k] \in Nat \ {0} /\ indexed[k] \in Nat
    BY <1>3, VersionsType
  <2>3. \A w \in Versions : w # 1 => refs'[k][w] = refs[k][w]
    BY <1>1, <1>3
  <2>4. \A w \in Versions : w > current[k] => refs'[k][w] = 0
    BY <2>1, <2>2, <2>3, VersionsType
  <2> QED
    BY <2>1, <2>2, <2>4, <1>1, <1>3
<1>8. Pages'
  BY <1>1 DEF IInv, Pages, sessions
<1>9. Counted'
  <2> SUFFICES ASSUME NEW k \in Language, NEW w \in Versions
               PROVE  IsFiniteSet(Users(k, w)') /\ refs'[k][w] >= Uses(k, w)'
    BY DEF Counted
  <2>1. Users(k, w)' = Users(k, w)
    BY <1>1 DEF Users, sessions
  <2>2. IsFiniteSet(Users(k, w)) /\ refs[k][w] >= Uses(k, w)
    BY DEF IInv, Counted
  <2>3. CASE k \in langs \/ k # l
    <3>1. Uses(k, w)' = Uses(k, w)
      BY <2>1, <2>3, <1>1 DEF Uses, One
    <3>2. refs'[k][w] = refs[k][w]
      BY <2>3, <1>1, <1>3
    <3> QED
      BY <2>1, <2>2, <3>1, <3>2
  <2>4. CASE k \notin langs /\ k = l
    <3>1. Users(k, w) = {}
      BY <2>4 DEF Users, IInv, Pages
    <3>2. current[k] = 1 /\ recorded[k] = {}
      BY <2>4 DEF IInv, Ordered
    <3>3. Cardinality(Users(k, w)) = 0
      BY <3>1, FS_EmptySet
    <3>4. Uses(k, w)' = One(w = 1)
      BY <2>1, <2>4, <3>2, <3>3, <1>1 DEF Uses, One
    <3>5. refs'[k][w] >= One(w = 1)
      BY <2>4, <1>1, <1>3 DEF One
    <3> QED
      BY <2>1, <2>2, <3>4, <3>5
  <2> QED
    BY <2>3, <2>4
<1>10. TokenKept'
  BY <1>1, TokensStay DEF tokens, sessions
<1>11. Covered'
  <2>1. \A k \in Language : indexed[k] <= indexed'[k]
    BY <1>1, <1>3, VersionsType
  <2>2. \A k \in Language : \A w \in Versions : w <= indexed[k] => need'[k][w] = need[k][w]
    <3> SUFFICES ASSUME NEW k \in Language, NEW w \in Versions, w <= indexed[k]
                 PROVE  need'[k][w] = need[k][w]
      OBVIOUS
    <3>1. k = l => w # v
      BY <1>3, VersionsType
    <3> HIDE DEF v
    <3> QED
      BY <3>1, <1>2, <1>3
  <2> QED
    BY <1>1, <1>6, <2>1, <2>2, CoveredStays DEF tokens
<1> QED
  BY <1>6, <1>7, <1>8, <1>9, <1>10, <1>11 DEF IInv

\* Deletions change no reference
LEMMA DeleteStep ==
  ASSUME IInv, DeleteDocuments
  PROVE  IInv'
<1>1. PICK hit \in SUBSET langs \ {{}} :
        /\ \A l \in hit : indexed[l] + 1 \in Versions
        /\ indexed' = [l \in Language |-> indexed[l] + One(l \in hit)]
        /\ need' = [l \in Language |-> IF l \in hit
                      THEN [need[l] EXCEPT ![indexed[l] + 1] = need[l][indexed[l]]]
                      ELSE need[l]]
  BY DEF DeleteDocuments
<1>2. UNCHANGED <<langs, taxWriter, searchers, taxReader, tokens, sessions, confused, resets>>
  BY DEF DeleteDocuments
<1>3. /\ indexed \in [Language -> Versions] /\ need \in [Language -> [Versions -> 0 .. taxWriter]]
      /\ current \in [Language -> Versions]
  BY DEF IInv, TypeOK
<1>4. indexed' \in [Language -> Versions] /\ \A l \in Language : indexed[l] <= indexed'[l]
  BY <1>1, <1>3, VersionsType DEF One
<1>5. need' \in [Language -> [Versions -> 0 .. taxWriter]]
  BY <1>1, <1>3
<1>6. TypeOK'
  BY <1>2, <1>4, <1>5 DEF IInv, TypeOK, searchers, tokens, sessions, Page, Versions
<1>7. Ordered'
  <2>1. \A l \in Language : current[l] <= indexed'[l]
    BY <1>3, <1>4, VersionsType DEF IInv, Ordered
  <2> QED
    BY <2>1, <1>2 DEF IInv, Ordered, searchers
<1>8. Pages'
  BY <1>2 DEF IInv, Pages, sessions, searchers
<1>9. Counted'
  BY <1>2 DEF IInv, Counted, Uses, Users, sessions, searchers, One
<1>10. TokenKept'
  BY <1>2, TokensStay DEF tokens, sessions, searchers
<1>11. Covered'
  <2>1. ASSUME NEW l \in Language, NEW v \in Versions, v <= indexed[l]
        PROVE  need'[l][v] = need[l][v]
    <3>1. v # indexed[l] + 1
      BY <2>1, <1>3, VersionsType
    <3> QED
      BY <3>1, <1>1, <1>3
  <2> QED
    BY <1>2, <1>4, <1>6, <2>1, CoveredStays DEF tokens
<1> QED
  BY <1>6, <1>7, <1>8, <1>9, <1>10, <1>11 DEF IInv

\* The current searcher is replaced: nobody read the new version yet
LEMMA RefreshStep ==
  ASSUME IInv, NEW l \in Language, Refresh(l)
  PROVE  IInv'
<1>1. /\ l \in langs /\ current[l] < indexed[l]
      /\ current' = [current EXCEPT ![l] = indexed[l]]
      /\ refs' = [refs EXCEPT ![l] = [v \in Versions |->
                    refs[l][v] - One(v = current[l]) + One(v = indexed[l])]]
      /\ UNCHANGED <<indexes, recorded, taxReader, tokens, sessions, confused, resets>>
  BY DEF Refresh
<1>2. /\ indexed \in [Language -> Versions] /\ current \in [Language -> Versions]
      /\ refs \in [Language -> [Versions -> 0 .. MaxRefs]] /\ MaxRefs \in Nat \ {0, 1}
      /\ recorded \in [Language -> SUBSET Versions]
  BY LuceneAssumption DEF IInv, TypeOK
<1>3. /\ indexed[l] \in Versions /\ current[l] \in Versions /\ indexed[l] # current[l]
  BY <1>1, <1>2, VersionsType
<1>4. /\ refs[l][indexed[l]] = 0
      /\ \A v \in Versions : IsFiniteSet(Users(l, v)) /\ refs[l][v] >= Uses(l, v)
  BY <1>1, <1>3 DEF IInv, Ordered, Counted
<1>5. \A v \in Versions : Cardinality(Users(l, v)) \in Nat
  BY <1>4, FS_CardinalityType
<1>6. /\ refs[l][current[l]] >= 1
      /\ \A v \in Versions : refs[l][v] \in 0 .. MaxRefs
  BY <1>1, <1>2, <1>3, <1>4, <1>5 DEF Uses, One
<1>7. \A v \in Versions : refs[l][v] - One(v = current[l]) + One(v = indexed[l]) \in 0 .. MaxRefs
  BY <1>2, <1>3, <1>4, <1>6 DEF One
<1>8. refs' \in [Language -> [Versions -> 0 .. MaxRefs]]
  BY <1>1, <1>2, <1>7
<1>9. TypeOK'
  BY <1>1, <1>2, <1>8 DEF IInv, TypeOK, indexes, tokens, sessions, Page, Versions
<1>10. \A k \in Language : current[k] <= current'[k]
  BY <1>1, <1>2, VersionsType
<1>11. Ordered'
  <2> SUFFICES ASSUME NEW k \in Language
               PROVE  /\ current'[k] <= indexed[k]
                      /\ \A w \in recorded[k] : w <= current'[k]
                      /\ \A w \in Versions : w > current'[k] => refs'[k][w] = 0
                      /\ k \notin langs => current'[k] = 1 /\ recorded[k] = {}
    BY <1>1 DEF Ordered, indexes
  <2>1. /\ current[k] <= indexed[k]
        /\ \A w \in recorded[k] : w <= current[k]
        /\ \A w \in Versions : w > current[k] => refs[k][w] = 0
        /\ k \notin langs => current[k] = 1 /\ recorded[k] = {}
    BY DEF IInv, Ordered
  <2>2. CASE k = l
    <3>1. \A w \in recorded[k] : w <= current'[k]
      BY <2>1, <2>2, <1>2, <1>10, VersionsType, <1>1
    <3>2. \A w \in Versions : w > current'[k] => refs'[k][w] = 0
      BY <2>1, <2>2, <1>1, <1>2, VersionsType DEF One
    <3> QED
      BY <3>1, <3>2, <2>1, <2>2, <1>1, <1>2, VersionsType
  <2>3. CASE k # l
    BY <2>1, <2>3, <1>1, <1>2
  <2> QED
    BY <2>2, <2>3
<1>12. Pages'
  <2> SUFFICES ASSUME NEW s \in Session, NEW k \in DOMAIN page[s]
               PROVE  /\ k \in langs /\ page[s][k] <= current'[k]
                      /\ page[s][k] = current'[k] => current'[k] \in recorded[k]
    BY <1>1 DEF Pages, sessions, indexes
  <2>1. /\ k \in langs /\ page[s][k] <= current[k]
        /\ page[s][k] = current[k] => current[k] \in recorded[k]
    BY DEF IInv, Pages
  <2>2. k \in Language /\ page[s][k] \in Versions
    BY PageType DEF IInv
  <2> QED
    BY <2>1, <2>2, <1>1, <1>2, VersionsType
<1>13. Counted'
  <2> SUFFICES ASSUME NEW k \in Language, NEW w \in Versions
               PROVE  IsFiniteSet(Users(k, w)') /\ refs'[k][w] >= Uses(k, w)'
    BY DEF Counted
  <2>1. Users(k, w)' = Users(k, w)
    BY <1>1 DEF Users, sessions
  <2>2. IsFiniteSet(Users(k, w)) /\ refs[k][w] >= Uses(k, w)
    BY DEF IInv, Counted
  <2>3. CASE k # l
    BY <2>1, <2>2, <2>3, <1>1, <1>2 DEF Uses, One, indexes
  <2>4. CASE k = l
    <3>1. Cardinality(Users(k, w)) \in Nat /\ refs[k][w] \in Nat
      BY <2>4, <1>5, <1>6
    <3>2. Uses(k, w)' = One(w = indexed[l]) + One(w \in recorded[l]) + Cardinality(Users(k, w))
      BY <2>1, <2>4, <1>1, <1>2 DEF Uses, One, indexes
    <3>3. Uses(k, w) = One(w = current[l]) + One(w \in recorded[l]) + Cardinality(Users(k, w))
      BY <2>4, <1>1 DEF Uses, One
    <3>4. refs'[k][w] = refs[k][w] - One(w = current[l]) + One(w = indexed[l])
      BY <2>4, <1>1, <1>2
    <3> QED
      BY <2>1, <2>2, <3>1, <3>2, <3>3, <3>4 DEF One
  <2> QED
    BY <2>3, <2>4
<1>14. TokenKept'
  BY <1>1, TokensStay DEF tokens, sessions, indexes
<1>15. Covered'
  BY <1>1, <1>2, <1>9, CoveredStays, VersionsType DEF tokens, indexes
<1> QED
  BY <1>9, <1>11, <1>12, <1>13, <1>14, <1>15 DEF IInv

-----------------------------------------------------------------------------
(* Releasing, purging, rebuilding *)

\* A reader gives back one reference to each of its searchers, which it has
LEMMA ReleaseStep ==
  ASSUME IInv, NEW s \in Session, Release(s)
  PROVE  IInv'
<1>1. /\ held[s] /\ held' = [held EXCEPT ![s] = FALSE]
      /\ taxonomy' = [taxonomy EXCEPT ![s] = None]
      /\ refs' = [l \in Language |-> [v \in Versions |->
                   refs[l][v] - One(l \in DOMAIN page[s] /\ page[s][l] = v)]]
      /\ UNCHANGED <<indexes, current, recorded, taxReader, tokens, token, page, confused, resets>>
  BY DEF Release
<1>2. /\ refs \in [Language -> [Versions -> 0 .. MaxRefs]] /\ MaxRefs \in Nat
      /\ held \in [Session -> BOOLEAN] /\ current \in [Language -> Versions]
  BY LuceneAssumption DEF IInv, TypeOK
<1>3. ASSUME NEW l \in Language, NEW v \in Versions
      PROVE  /\ IsFiniteSet(Users(l, v)') /\ refs'[l][v] >= Uses(l, v)'
             /\ refs'[l][v] \in 0 .. refs[l][v]
  <2> DEFINE mine == l \in DOMAIN page[s] /\ page[s][l] = v
  <2>1. IsFiniteSet(Users(l, v)) /\ refs[l][v] >= Uses(l, v)
    BY DEF IInv, Counted
  <2>2. Users(l, v)' = Users(l, v) \ {s} /\ (s \in Users(l, v) <=> mine)
    BY <1>1, <1>2 DEF Users
  <2>3. /\ IsFiniteSet(Users(l, v)') /\ Cardinality(Users(l, v)) \in Nat
        /\ Cardinality(Users(l, v)') = IF mine THEN Cardinality(Users(l, v)) - 1
                                                ELSE Cardinality(Users(l, v))
        /\ Cardinality(Users(l, v)') \in Nat
    BY <2>1, <2>2, FS_RemoveElement, FS_CardinalityType
  <2>4. Uses(l, v)' = One(l \in langs /\ v = current[l]) + One(v \in recorded[l])
                        + Cardinality(Users(l, v)')
    BY <1>1 DEF Uses, indexes
  <2>5. refs'[l][v] = refs[l][v] - One(mine) /\ refs[l][v] \in Nat
    BY <1>1, <1>2
  <2> HIDE DEF mine
  <2> QED
    BY <2>1, <2>3, <2>4, <2>5 DEF Uses, One
<1>4. refs' \in [Language -> [Versions -> 0 .. MaxRefs]]
  <2>1. \A l \in Language, v \in Versions : refs'[l][v] \in 0 .. MaxRefs
    BY <1>2, <1>3
  <2> QED
    BY <1>1, <2>1
<1>5. TypeOK'
  <2>1. held' \in [Session -> BOOLEAN]
    BY <1>1, <1>2
  <2>2. taxonomy' \in [Session -> Nat \cup {None}]
    BY <1>1 DEF IInv, TypeOK
  <2> QED
    BY <1>1, <1>4, <2>1, <2>2 DEF IInv, TypeOK, indexes, tokens, Page, Versions
<1>6. Ordered'
  <2>1. \A l \in Language : \A v \in Versions : refs[l][v] = 0 => refs'[l][v] = 0
    BY <1>3, <1>2
  <2> QED
    BY <2>1, <1>1 DEF IInv, Ordered, indexes
<1>7. Pages'
  BY <1>1 DEF IInv, Pages, indexes
<1>8. Counted'
  BY <1>3 DEF Counted
<1>9. TokenKept'
  BY <1>1, TokensStay DEF tokens, indexes
<1>10. Covered'
  BY <1>1, <1>2 DEF IInv, Covered, TokensCovered, TaxonomyCovers, tokens, indexes
<1> QED
  BY <1>5, <1>6, <1>7, <1>8, <1>9, <1>10 DEF IInv

\* The newest recorded searcher is kept, and with it the current one; a token
\* that lost a searcher named a page that is not kept any more
LEMMA PurgeStep ==
  ASSUME IInv, Purge
  PROVE  IInv'
<1> DEFINE kept == {t \in DOMAIN mapping : \A l \in langs :
                     l \in DOMAIN mapping[t] /\ mapping[t][l] \in recorded'[l]}
<1>1. PICK oldest \in [langs -> Versions] :
        recorded' = [l \in Language |-> {v \in recorded[l] :
                      l \in langs => v >= oldest[l] \/ \A w \in recorded[l] : w <= v}]
  BY DEF Purge
<1>2. /\ refs' = [l \in Language |-> [v \in Versions |->
                   refs[l][v] - One(v \in recorded[l] \ recorded'[l])]]
      /\ mapping' = [t \in kept |-> mapping[t]]
      /\ UNCHANGED <<indexes, current, taxReader, version, sessions, confused, resets>>
  BY DEF Purge
<1>3. /\ refs \in [Language -> [Versions -> 0 .. MaxRefs]] /\ MaxRefs \in Nat
      /\ current \in [Language -> Versions] /\ recorded \in [Language -> SUBSET Versions]
  BY LuceneAssumption DEF IInv, TypeOK
<1>4. \A l \in Language : /\ recorded'[l] \subseteq recorded[l]
                          /\ current[l] \in recorded[l] => current[l] \in recorded'[l]
  BY <1>1 DEF IInv, Ordered
<1>5. ASSUME NEW l \in Language, NEW v \in Versions
      PROVE  /\ IsFiniteSet(Users(l, v)') /\ refs'[l][v] >= Uses(l, v)'
             /\ refs'[l][v] \in 0 .. refs[l][v]
  <2>1. IsFiniteSet(Users(l, v)) /\ refs[l][v] >= Uses(l, v)
    BY DEF IInv, Counted
  <2>2. Users(l, v)' = Users(l, v)
    BY <1>2 DEF Users, sessions
  <2>3. Cardinality(Users(l, v)) \in Nat /\ refs[l][v] \in Nat
    BY <2>1, <1>3, FS_CardinalityType
  <2>4. refs'[l][v] = refs[l][v] - One(v \in recorded[l] \ recorded'[l])
    BY <1>2
  <2>5. Uses(l, v)' = One(l \in langs /\ v = current[l]) + One(v \in recorded'[l])
                        + Cardinality(Users(l, v))
    BY <2>2, <1>2 DEF Uses, indexes
  <2> QED
    BY <2>1, <2>2, <2>3, <2>4, <2>5, <1>4 DEF Uses, One
<1>6. refs' \in [Language -> [Versions -> 0 .. MaxRefs]]
  <2>1. \A l \in Language, v \in Versions : refs'[l][v] \in 0 .. MaxRefs
    BY <1>3, <1>5
  <2> QED
    BY <1>2, <2>1
<1>7. recorded' \in [Language -> SUBSET Versions]
  BY <1>1, <1>3
<1>8. kept \subseteq DOMAIN mapping /\ DOMAIN mapping' = kept
      /\ \A t \in kept : mapping'[t] = mapping[t]
  BY <1>2
<1>9. TypeOK'
  <2>1. /\ DOMAIN mapping' \subseteq 1 .. version
        /\ \A t \in DOMAIN mapping' :
             mapping'[t] \in UNION {[L -> 1 .. MaxVersion + MaxToken] : L \in SUBSET Language}
    BY <1>8 DEF IInv, TypeOK
  <2> HIDE DEF kept
  <2> QED
    BY <1>2, <1>6, <1>7, <2>1 DEF IInv, TypeOK, indexes, sessions, Page, Versions
<1>10. Ordered'
  <2>1. \A l \in Language : \A v \in Versions : refs[l][v] = 0 => refs'[l][v] = 0
    BY <1>3, <1>5
  <2>2. \A l \in Language : \A v \in recorded'[l] : v <= current[l]
    BY <1>4 DEF IInv, Ordered
  <2> HIDE DEF kept
  <2> QED
    BY <2>1, <2>2, <1>2, <1>4 DEF IInv, Ordered, indexes
<1>11. Pages'
  <2>1. \A s \in Session : DOMAIN page[s] \subseteq Language
    BY PageType DEF IInv
  <2> HIDE DEF kept
  <2> QED
    BY <1>2, <1>4, <2>1 DEF IInv, Pages, indexes, sessions
<1>12. Counted'
  BY <1>5 DEF Counted
<1>13. TokenKept'
  <2> SUFFICES ASSUME ~confused, NEW s \in Session, Kept(s)'
               PROVE  NamesPage(s)'
    BY <1>2 DEF TokenKept
  <2>1. /\ page[s] # NoPage /\ langs \subseteq Language
        /\ \A l \in langs : l \in DOMAIN page[s] /\ page[s][l] \in recorded'[l]
    BY <1>2 DEF Kept, indexes, sessions, IInv, TypeOK
  <2>2. Kept(s)
    BY <2>1, <1>4 DEF Kept
  <2>3. \A l \in langs : Named(token[s], l) = page[s][l]
    BY <2>2 DEF IInv, TokenKept, NamesPage
  <2>4. \A l \in langs : page[s][l] # None
    BY <2>1, PageType, VersionsType DEF IInv, None
  <2>5. \A l \in langs : /\ token[s] \in DOMAIN mapping /\ l \in DOMAIN mapping[token[s]]
                         /\ mapping[token[s]][l] = page[s][l]
    BY <2>3, <2>4 DEF Named
  <2>6. \A l \in langs : token[s] \in kept
    BY <2>1, <2>5
  <2> HIDE DEF kept
  <2>7. \A l \in langs : Named(token[s], l)' = page[s][l]
    BY <2>5, <2>6, <1>2, <1>8 DEF Named, sessions
  <2> QED
    BY <2>7, <1>2 DEF NamesPage, indexes, sessions
<1>14. Covered'
  <2> HIDE DEF kept
  <2>1. TaxonomyCovers'
    BY <1>2 DEF IInv, Covered, TaxonomyCovers, sessions, indexes
  <2>2. TokensCovered'
    BY <1>2, <1>8 DEF IInv, Covered, TokensCovered, indexes
  <2> QED
    BY <2>1, <2>2 DEF Covered
<1> QED
  BY <1>9, <1>10, <1>11, <1>12, <1>13, <1>14 DEF IInv

\* A rebuild leaves no searcher, page or reader of before
LEMMA ResetStep ==
  ASSUME IInv, Reset
  PROVE  IInv'
<1>1. /\ resets < MaxResets /\ resets' = resets + 1
      /\ langs' = {DefaultLanguage}
      /\ indexed' = [l \in Language |-> 1] /\ current' = indexed'
      /\ need' = [l \in Language |-> [v \in Versions |-> 0]]
      /\ recorded' = [l \in Language |-> {}]
      /\ refs' = [l \in Language |-> [v \in Versions |-> One(l = DefaultLanguage /\ v = 1)]]
      /\ taxWriter' = 0 /\ taxReader' = None
      /\ held' = [s \in Session |-> FALSE] /\ page' = [s \in Session |-> NoPage]
      /\ taxonomy' = [s \in Session |-> None]
      /\ UNCHANGED <<tokens, token, confused>>
  BY DEF Reset
<1>2. resets \in 0 .. MaxResets /\ MaxResets \in Nat /\ DefaultLanguage \in Language
      /\ MaxRefs \in Nat \ {0, 1}
  BY LuceneAssumption DEF IInv, TypeOK
<1>3. TypeOK'
  <2>1. NoPage \in Page
    BY DEF NoPage, Page
  <2>2. page' \in [Session -> Page] /\ held' \in [Session -> BOOLEAN]
    BY <1>1, <2>1
  <2>3. Page' = Page
    BY DEF Page, Versions
  <2>4. resets' \in 0 .. MaxResets
    BY <1>1, <1>2
  <2>5. refs' \in [Language -> [Versions -> 0 .. MaxRefs]]
    BY <1>1, <1>2 DEF One
  <2>6. /\ indexed' \in [Language -> Versions] /\ current' \in [Language -> Versions]
        /\ recorded' \in [Language -> SUBSET Versions] /\ langs' \subseteq Language
    BY <1>1, <1>2, VersionsType
  <2>7. /\ need' \in [Language -> [Versions -> 0 .. taxWriter']]
        /\ taxWriter' \in Nat /\ taxReader' \in 0 .. taxWriter' \cup {None}
        /\ taxonomy' \in [Session -> Nat \cup {None}]
    BY <1>1
  <2>8. /\ version' \in 0 .. MaxToken /\ DOMAIN mapping' \subseteq 1 .. version'
        /\ token' \in [Session -> 1 .. version' \cup {None}] /\ confused' \in BOOLEAN
        /\ \A t \in DOMAIN mapping' :
             mapping'[t] \in UNION {[L -> 1 .. MaxVersion + MaxToken] : L \in SUBSET Language}
    BY <1>1 DEF IInv, TypeOK, tokens
  <2> QED
    BY <2>2, <2>3, <2>4, <2>5, <2>6, <2>7, <2>8 DEF TypeOK
<1>4. Ordered'
  <2> SUFFICES ASSUME NEW l \in Language
               PROVE  /\ current'[l] <= indexed'[l]
                      /\ \A v \in recorded'[l] : v <= current'[l]
                      /\ \A v \in Versions : v > current'[l] => refs'[l][v] = 0
                      /\ l \notin langs' => current'[l] = 1 /\ recorded'[l] = {}
    BY DEF Ordered
  <2>1. current'[l] = 1 /\ indexed'[l] = 1 /\ recorded'[l] = {}
    BY <1>1
  <2>2. \A v \in Versions : v > 1 => refs'[l][v] = 0
    BY <1>1, VersionsType DEF One
  <2> QED
    BY <2>1, <2>2
<1>5. Pages'
  BY <1>1 DEF Pages, NoPage
<1>6. Counted'
  <2> SUFFICES ASSUME NEW l \in Language, NEW v \in Versions
               PROVE  IsFiniteSet(Users(l, v)') /\ refs'[l][v] >= Uses(l, v)'
    BY DEF Counted
  <2>1. Users(l, v)' = {}
    BY <1>1 DEF Users
  <2>2. IsFiniteSet(Users(l, v)') /\ Cardinality(Users(l, v)') = 0
    BY <2>1, FS_EmptySet
  <2>3. refs'[l][v] = One(l \in langs' /\ v = current'[l]) /\ v \notin recorded'[l]
    BY <1>1 DEF One
  <2> QED
    BY <2>2, <2>3 DEF Uses, One
<1>7. TokenKept'
  BY <1>1 DEF TokenKept, Kept
<1>8. Covered'
  BY <1>1, <1>2 DEF Covered, TokensCovered, TaxonomyCovers
<1> QED
  BY <1>3, <1>4, <1>5, <1>6, <1>7, <1>8 DEF IInv

-----------------------------------------------------------------------------
(* Acquiring *)

\* Unless it confuses, a token is answered either for every index, and then it is
\* the token returned, or for none, and then a new one may be registered
LEMMA Unconfused ==
  ASSUME TypeOK, NEW t \in 1 .. version \cup {None}, ~Confuses(t)
  PROVE  \/ /\ \A l \in langs : Found(t, l) /\ Snapshot(t, l) = Named(t, l)
            /\ ~TokenExpired(t)
         \/ /\ \A l \in langs : /\ ~Found(t, l) /\ Snapshot(t, l) = current[l]
                                /\ ResultVersion(t, l) = current[l]
            /\ TokenExpired(t)
<1>1. CASE \A l \in langs : Found(t, l)
  BY <1>1 DEF Snapshot, TokenExpired, NewSearcher, ResultVersion
<1>2. CASE \E l \in langs : ~Found(t, l)
  <2>1. \A l \in langs : ~Found(t, l)
    BY <1>2 DEF Confuses
  <2>2. \E l \in langs : current[l] # t
    BY <1>2 DEF Confuses
  <2> QED
    BY <2>1, <2>2 DEF Snapshot, TokenExpired, NewSearcher, ResultVersion
<1> QED
  BY <1>1, <1>2

\* An up to date token is known and names the current version of every index
LEMMA UpToDateFacts ==
  ASSUME TypeOK, NEW t, UpToDate(t)
  PROVE  \A l \in langs : /\ version \in DOMAIN mapping /\ l \in DOMAIN mapping[version]
                          /\ mapping[version][l] = current[l] /\ Named(version, l) = current[l]
BY VersionsType DEF TypeOK, UpToDate, LastVersionUpToDate, Named, None

LEMMA AcquireStep ==
  ASSUME IInv, NEW s \in Session, NEW t \in 1 .. version \cup {None}, Acquire(s, t)
  PROVE  IInv'
<1> DEFINE new == TokenExpired(t) /\ ~UpToDate(t)
<1>1. /\ ~held[s]
      /\ \A l \in langs : \A v \in Versions : Acquired(t, l)[v] <= MaxRefs
      /\ recorded' = [l \in Language |->
                       IF l \notin langs \/ Found(t, l) THEN recorded[l]
                       ELSE recorded[l] \cup {current[l]}]
      /\ refs' = [l \in Language |-> IF l \in langs THEN Acquired(t, l) ELSE refs[l]]
      /\ token' = [token EXCEPT ![s] = IF TokenExpired(t) THEN version' ELSE t]
      /\ page' = [page EXCEPT ![s] = [l \in langs |-> Snapshot(t, l)]]
      /\ held' = [held EXCEPT ![s] = TRUE]
      /\ taxonomy' = [taxonomy EXCEPT ![s] = taxReader']
      /\ confused' = (confused \/ Confuses(t))
      /\ UNCHANGED <<indexes, current, resets>>
  BY DEF Acquire
<1>2. new => /\ version < MaxToken /\ version' = version + 1
             /\ mapping' = [u \in DOMAIN mapping \cup {version'} |->
                  IF u = version' THEN [l \in langs |-> ResultVersion(t, l)] ELSE mapping[u]]
             /\ taxReader' = taxWriter
  BY DEF Acquire, Register
<1>3. ~new => /\ version' = version /\ mapping' = mapping
              /\ taxReader' = IF taxReader = None THEN taxWriter ELSE taxReader
  BY DEF Acquire, tokens
<1> HIDE DEF new
<1>4. /\ langs \subseteq Language /\ current \in [Language -> Versions]
      /\ recorded \in [Language -> SUBSET Versions]
      /\ refs \in [Language -> [Versions -> 0 .. MaxRefs]] /\ MaxRefs \in Nat
      /\ version \in 0 .. MaxToken /\ MaxToken \in Nat /\ DOMAIN mapping \subseteq 1 .. version
      /\ taxWriter \in Nat /\ taxReader \in 0 .. taxWriter \cup {None}
      /\ token \in [Session -> 1 .. version \cup {None}]
      /\ page \in [Session -> Page] /\ held \in [Session -> BOOLEAN]
      /\ need \in [Language -> [Versions -> 0 .. taxWriter]]
  BY LuceneAssumption DEF IInv, TypeOK
<1>5. \A l \in langs : /\ Snapshot(t, l) \in Versions
                       /\ Snapshot(t, l) \in recorded[l] \cup {current[l]}
                       /\ ResultVersion(t, l) \in 1 .. MaxVersion + MaxToken
                       /\ Found(t, l) => Named(t, l) \in recorded[l]
  BY <1>4, FoundFacts DEF IInv
<1>6. DOMAIN mapping \subseteq DOMAIN mapping'
      /\ \A u \in DOMAIN mapping : u # version + 1 /\ mapping'[u] = mapping[u]
  BY <1>2, <1>3, <1>4
<1>7. version' \in version .. MaxToken
  BY <1>2, <1>3, <1>4
<1>8. TypeOK'
  <2>1. /\ DOMAIN mapping' \subseteq 1 .. version'
        /\ \A u \in DOMAIN mapping' :
             mapping'[u] \in UNION {[L -> 1 .. MaxVersion + MaxToken] : L \in SUBSET Language}
    <3>1. CASE ~new
      BY <3>1, <1>3 DEF IInv, TypeOK
    <3>2. CASE new
      <4>1. [l \in langs |-> ResultVersion(t, l)] \in [langs -> 1 .. MaxVersion + MaxToken]
        BY <1>5
      <4>2. [l \in langs |-> ResultVersion(t, l)]
              \in UNION {[L -> 1 .. MaxVersion + MaxToken] : L \in SUBSET Language}
        BY <4>1, <1>4
      <4>3. \A u \in DOMAIN mapping :
              mapping[u] \in UNION {[L -> 1 .. MaxVersion + MaxToken] : L \in SUBSET Language}
        BY DEF IInv, TypeOK
      <4>4. DOMAIN mapping' = DOMAIN mapping \cup {version'} /\ version' = version + 1
            /\ mapping'[version'] = [l \in langs |-> ResultVersion(t, l)]
        BY <3>2, <1>2
      <4>5. DOMAIN mapping' \subseteq 1 .. version'
        BY <4>4, <1>4
      <4> QED
        BY <4>2, <4>3, <4>4, <4>5, <1>6
    <3> QED
      BY <3>1, <3>2
  <2>2. (IF TokenExpired(t) THEN version' ELSE t) \in 1 .. version' \cup {None}
    <3>1. CASE new
      BY <3>1, <1>2, <1>4
    <3>2. CASE ~new /\ TokenExpired(t)
      <4>1. \A l \in langs : version \in DOMAIN mapping
        BY <3>2, UpToDateFacts DEF new, IInv
      <4>2. version \in DOMAIN mapping
        BY <4>1, <3>2 DEF TokenExpired
      <4> QED
        BY <4>2, <3>2, <1>3, <1>4
    <3>3. CASE ~new /\ ~TokenExpired(t)
      BY <3>3, <1>3
    <3> QED
      BY <3>1, <3>2, <3>3
  <2>3. token' \in [Session -> 1 .. version' \cup {None}]
    <3>1. 1 .. version \subseteq 1 .. version'
      BY <1>4, <1>7
    <3> QED
      BY <2>2, <3>1, <1>1, <1>4
  <2>4. page' \in [Session -> Page]
    <3>1. [l \in langs |-> Snapshot(t, l)] \in [langs -> Versions]
      BY <1>5
    <3>2. [l \in langs |-> Snapshot(t, l)] \in Page
      BY <3>1, <1>4 DEF Page
    <3> QED
      BY <3>2, <1>1, <1>4
  <2>5. refs' \in [Language -> [Versions -> 0 .. MaxRefs]]
    <3>1. ASSUME NEW l \in langs
          PROVE  Acquired(t, l) \in [Versions -> 0 .. MaxRefs]
      <4>1. \A v \in Versions : Acquired(t, l)[v] \in 0 .. MaxRefs
        BY <1>1, <1>4, AcquiredFacts DEF IInv
      <4>2. DOMAIN Acquired(t, l) = Versions
            /\ Acquired(t, l) = [v \in Versions |-> Acquired(t, l)[v]]
        BY DEF Acquired
      <4> QED
        BY <4>1, <4>2
    <3> QED
      BY <3>1, <1>1, <1>4
  <2>6. recorded' \in [Language -> SUBSET Versions] /\ held' \in [Session -> BOOLEAN]
    BY <1>1, <1>4
  <2>7. taxReader' \in 0 .. taxWriter \cup {None}
    BY <1>2, <1>3, <1>4
  <2>8. taxonomy' \in [Session -> Nat \cup {None}]
    BY <2>7, <1>1, <1>4 DEF IInv, TypeOK
  <2>9. confused' \in BOOLEAN /\ version' \in 0 .. MaxToken
    BY <1>1, <1>4, <1>7
  <2> QED
    BY <1>1, <2>1, <2>3, <2>4, <2>5, <2>6, <2>7, <2>8, <2>9
       DEF IInv, TypeOK, indexes, Page, Versions
<1>9. Ordered'
  <2> SUFFICES ASSUME NEW l \in Language
               PROVE  /\ current[l] <= indexed[l]
                      /\ \A v \in recorded'[l] : v <= current[l]
                      /\ \A v \in Versions : v > current[l] => refs'[l][v] = 0
                      /\ l \notin langs => current[l] = 1 /\ recorded'[l] = {}
    BY <1>1 DEF Ordered, indexes
  <2>1. /\ current[l] <= indexed[l]
        /\ \A v \in recorded[l] : v <= current[l]
        /\ \A v \in Versions : v > current[l] => refs[l][v] = 0
        /\ l \notin langs => current[l] = 1 /\ recorded[l] = {}
    BY DEF IInv, Ordered
  <2>2. \A v \in recorded'[l] : v <= current[l]
    BY <2>1, <1>1, <1>4, VersionsType
  <2>3. ASSUME NEW v \in Versions, v > current[l], l \in langs
        PROVE  refs'[l][v] = 0
    <3>1. v # current[l] /\ v \notin recorded[l]
      BY <2>1, <2>3, <1>4, VersionsType
    <3>2. v # Snapshot(t, l)
      BY <3>1, <2>3, <1>5
    <3>3. Acquired(t, l)[v] = 0
      BY <3>1, <3>2, <2>1, <2>3, AcquiredFacts DEF IInv
    <3> QED
      BY <3>3, <2>3, <1>1
  <2>4. \A v \in Versions : v > current[l] => refs'[l][v] = 0
    BY <2>1, <2>3, <1>1
  <2> QED
    BY <2>1, <2>2, <2>4, <1>1
<1>10. Pages'
  <2> SUFFICES ASSUME NEW o \in Session, NEW l \in DOMAIN page'[o]
               PROVE  /\ l \in langs /\ page'[o][l] <= current[l]
                      /\ page'[o][l] = current[l] => current[l] \in recorded'[l]
    BY <1>1 DEF Pages, indexes
  <2>1. CASE o = s
    <3>1. l \in langs /\ page'[o][l] = Snapshot(t, l)
      BY <2>1, <1>1, <1>4
    <3>2. Snapshot(t, l) \in recorded'[l]
      BY <3>1, <1>1, <1>4, <1>5 DEF Snapshot
    <3>3. Snapshot(t, l) <= current[l]
      BY <3>1, <1>4, <1>5, VersionsType DEF IInv, Ordered
    <3> QED
      BY <3>1, <3>2, <3>3
  <2>2. CASE o # s
    <3>1. page'[o] = page[o]
      BY <2>2, <1>1, <1>4
    <3>2. l \in Language /\ recorded[l] \subseteq recorded'[l]
      BY <3>1, PageType, <1>1 DEF IInv
    <3> QED
      BY <3>1, <3>2 DEF IInv, Pages
  <2> QED
    BY <2>1, <2>2
<1>11. Counted'
  <2> SUFFICES ASSUME NEW l \in Language, NEW v \in Versions
               PROVE  IsFiniteSet(Users(l, v)') /\ refs'[l][v] >= Uses(l, v)'
    BY DEF Counted
  <2>1. IsFiniteSet(Users(l, v)) /\ refs[l][v] >= Uses(l, v)
    BY DEF IInv, Counted
  <2>2. Cardinality(Users(l, v)) \in Nat /\ refs[l][v] \in Nat
    BY <2>1, <1>4, FS_CardinalityType
  <2>3. Uses(l, v)' = One(l \in langs /\ v = current[l]) + One(v \in recorded'[l])
                        + Cardinality(Users(l, v)')
    BY <1>1 DEF Uses, indexes
  <2>4. s \notin Users(l, v)
    BY <1>1 DEF Users
  <2>5. CASE l \in langs
    <3>1. Users(l, v)' = IF v = Snapshot(t, l) THEN Users(l, v) \cup {s} ELSE Users(l, v)
      <4>1. held'[s] /\ l \in DOMAIN page'[s] /\ page'[s][l] = Snapshot(t, l)
        BY <2>5, <1>1, <1>4
      <4>2. \A o \in Session \ {s} : held'[o] = held[o] /\ page'[o] = page[o]
        BY <1>1, <1>4
      <4>3. s \in Users(l, v)' <=> v = Snapshot(t, l)
        BY <4>1 DEF Users
      <4>4. \A o \in Session \ {s} : o \in Users(l, v)' <=> o \in Users(l, v)
        BY <4>2 DEF Users
      <4>5. Users(l, v)' \subseteq Session /\ Users(l, v) \subseteq Session
        BY DEF Users
      <4> QED
        BY <2>4, <4>3, <4>4, <4>5
    <3>2. /\ IsFiniteSet(Users(l, v)')
          /\ Cardinality(Users(l, v)') = Cardinality(Users(l, v)) + One(v = Snapshot(t, l))
      <4>1. IsFiniteSet(Users(l, v) \cup {s})
            /\ Cardinality(Users(l, v) \cup {s}) = Cardinality(Users(l, v)) + 1
        BY <2>1, <2>4, FS_AddElement
      <4>2. CASE v = Snapshot(t, l)
        BY <3>1, <4>1, <4>2 DEF One
      <4>3. CASE v # Snapshot(t, l)
        BY <2>1, <2>2, <3>1, <4>3 DEF One
      <4> QED
        BY <4>2, <4>3
    <3>3. /\ refs'[l][v] = Acquired(t, l)[v] /\ Acquired(t, l)[v] \in Nat
          /\ Acquired(t, l)[v] >= refs[l][v] + One(v = Snapshot(t, l))
               + One(~Found(t, l) /\ v = current[l] /\ v \notin recorded[l])
      BY <2>5, <1>1, AcquiredFacts DEF IInv
    <3>4. v \in recorded'[l] <=> \/ v \in recorded[l]
                                 \/ ~Found(t, l) /\ v = current[l]
      BY <2>5, <1>1
    <3> QED
      BY <2>1, <2>2, <2>3, <3>2, <3>3, <3>4 DEF Uses, One
  <2>6. CASE l \notin langs
    <3>1. l \notin DOMAIN page[s] /\ l \notin DOMAIN page'[s]
      BY <2>6, <1>1, <1>4 DEF IInv, Pages
    <3>2. Users(l, v)' = Users(l, v)
      BY <3>1, <1>1, <1>4 DEF Users
    <3>3. refs'[l][v] = refs[l][v] /\ recorded'[l] = recorded[l]
      BY <2>6, <1>1
    <3> QED
      BY <2>1, <2>3, <3>2, <3>3 DEF Uses
  <2> QED
    BY <2>5, <2>6
<1>12. TokenKept'
  <2> SUFFICES ASSUME ~confused, ~Confuses(t), NEW o \in Session, Kept(o)'
               PROVE  NamesPage(o)'
    BY <1>1 DEF TokenKept
  <2> SUFFICES ASSUME NEW l \in langs
               PROVE  Named(token[o], l)' = page'[o][l]
    BY <1>1 DEF NamesPage, indexes
  <2>1. CASE o # s
    <3>1. page'[o] = page[o] /\ token'[o] = token[o]
      BY <2>1, <1>1, <1>4
    <3>2. page[o] # NoPage /\ \A k \in langs : k \in DOMAIN page[o] /\ page[o][k] \in recorded'[k]
      BY <3>1, <1>1 DEF Kept, indexes
    <3>3. Kept(o)
      BY <3>2, <1>1, <1>4 DEF Kept, IInv, Pages
    <3>4. Named(token[o], l) = page[o][l]
      BY <3>3 DEF IInv, TokenKept, NamesPage
    <3>5. page[o][l] # None
      BY <3>2, PageType, VersionsType DEF IInv, None
    <3>6. /\ token[o] \in DOMAIN mapping /\ l \in DOMAIN mapping[token[o]]
          /\ mapping[token[o]][l] = page[o][l]
      BY <3>4, <3>5 DEF Named
    <3> QED
      BY <3>1, <3>6, <1>6 DEF Named
  <2>2. CASE o = s
    <3>1. page'[s][l] = Snapshot(t, l) /\ token'[s] = IF TokenExpired(t) THEN version' ELSE t
      BY <1>1, <1>4
    <3>2. \/ ~TokenExpired(t) /\ Found(t, l) /\ Snapshot(t, l) = Named(t, l)
          \/ /\ TokenExpired(t) /\ Snapshot(t, l) = current[l]
             /\ ResultVersion(t, l) = current[l]
      BY Unconfused DEF IInv
    <3>3. CASE ~TokenExpired(t)
      <4>1. mapping' = mapping
        BY <3>3, <1>3 DEF new
      <4> QED
        BY <2>2, <3>1, <3>2, <3>3, <4>1 DEF Named
    <3>4. CASE TokenExpired(t) /\ ~new
      <4>1. mapping' = mapping /\ version' = version /\ UpToDate(t)
        BY <3>4, <1>3 DEF new
      <4>2. Named(version, l) = current[l]
        BY <4>1, UpToDateFacts DEF IInv
      <4> QED
        BY <2>2, <3>1, <3>2, <3>4, <4>1, <4>2 DEF Named
    <3>5. CASE TokenExpired(t) /\ new
      <4>1. /\ version' \in DOMAIN mapping' /\ l \in DOMAIN mapping'[version']
            /\ mapping'[version'][l] = ResultVersion(t, l)
        BY <3>5, <1>2
      <4> QED
        BY <2>2, <3>1, <3>2, <3>5, <4>1 DEF Named
    <3> QED
      BY <3>3, <3>4, <3>5
  <2> QED
    BY <2>1, <2>2
<1>13. Covered'
  <2> SUFFICES ASSUME ~confused, ~Confuses(t), resets = 0
               PROVE  Covered'
    BY <1>1 DEF Covered, TokensCovered, TaxonomyCovers
  <2>1. /\ taxReader # None /\ TaxonomyCovers
        /\ \A u \in DOMAIN mapping : \A l \in DOMAIN mapping[u] :
             /\ mapping[u][l] \in Versions /\ mapping[u][l] <= indexed[l]
             /\ need[l][mapping[u][l]] <= taxReader
    BY DEF IInv, Covered, TokensCovered
  <2>2. /\ taxReader \in 0 .. taxWriter /\ taxReader' \in taxReader .. taxWriter
        /\ new => taxReader' = taxWriter
        /\ ~new => taxReader' = taxReader
    BY <2>1, <1>2, <1>3, <1>4
  <2>3. \A l \in Language : \A v \in Versions : need[l][v] \in 0 .. taxWriter
    BY <1>4
  <2>4. \A u \in DOMAIN mapping : DOMAIN mapping[u] \subseteq Language
    BY DEF IInv, TypeOK
  <2>5. TokensCovered'
    <3> SUFFICES ASSUME NEW u \in DOMAIN mapping', NEW l \in DOMAIN mapping'[u]
                 PROVE  /\ mapping'[u][l] \in Versions /\ mapping'[u][l] <= indexed[l]
                        /\ need[l][mapping'[u][l]] <= taxReader'
      BY <2>2, <1>1 DEF TokensCovered, indexes, None
    <3>1. CASE u \in DOMAIN mapping
      <4>1. mapping'[u] = mapping[u] /\ l \in Language
        BY <3>1, <2>4, <1>6
      <4> QED
        BY <3>1, <4>1, <2>1, <2>2, <2>3
    <3>2. CASE u \notin DOMAIN mapping
      <4>1. new /\ mapping'[u] = [k \in langs |-> ResultVersion(t, k)] /\ l \in langs
        BY <3>2, <1>2, <1>3
      <4>2. mapping'[u][l] = current[l]
        BY <4>1, Unconfused DEF IInv, new
      <4>3. current[l] <= indexed[l] /\ current[l] \in Versions /\ l \in Language
        BY <4>1, <1>4 DEF IInv, Ordered
      <4> QED
        BY <4>1, <4>2, <4>3, <2>2, <2>3
    <3> QED
      BY <3>1, <3>2
  <2>6. ASSUME NEW l \in langs
        PROVE  need[l][Snapshot(t, l)] <= taxReader'
    <3>1. CASE new
      BY <3>1, <2>2, <2>3, <1>4, <1>5
    <3>2. CASE ~new /\ TokenExpired(t)
      <4>1. UpToDate(t)
        BY <3>2 DEF new
      <4>2. /\ version \in DOMAIN mapping /\ l \in DOMAIN mapping[version]
            /\ mapping[version][l] = current[l]
        BY <4>1, UpToDateFacts DEF IInv
      <4>3. Snapshot(t, l) = current[l]
        BY <3>2, Unconfused DEF IInv
      <4> QED
        BY <3>2, <4>2, <4>3, <2>1, <2>2
    <3>3. CASE ~TokenExpired(t)
      <4>1. Found(t, l) /\ Snapshot(t, l) = Named(t, l)
        BY <3>3, Unconfused DEF IInv
      <4>2. t \in DOMAIN mapping /\ l \in DOMAIN mapping[t] /\ Named(t, l) = mapping[t][l]
        BY <4>1, <1>4, FoundFacts DEF IInv
      <4>3. ~new
        BY <3>3 DEF new
      <4> QED
        BY <4>1, <4>2, <4>3, <2>1, <2>2
    <3> QED
      BY <3>1, <3>2, <3>3
  <2>7. TaxonomyCovers'
    <3> SUFFICES ASSUME NEW o \in Session, held'[o], NEW l \in DOMAIN page'[o]
                 PROVE  need[l][page'[o][l]] <= taxonomy'[o]
      BY <1>1 DEF TaxonomyCovers, indexes
    <3>1. CASE o = s
      <4>1. l \in langs /\ page'[o][l] = Snapshot(t, l)
        BY <3>1, <1>1, <1>4
      <4>2. taxonomy'[o] = taxReader'
        BY <3>1, <1>1 DEF IInv, TypeOK
      <4> QED
        BY <4>1, <4>2, <2>6
    <3>2. CASE o # s
      BY <3>2, <2>1, <1>1, <1>4 DEF TaxonomyCovers
    <3> QED
      BY <3>1, <3>2
  <2> QED
    BY <2>5, <2>7 DEF Covered
<1> QED
  BY <1>8, <1>9, <1>10, <1>11, <1>12, <1>13 DEF IInv

-----------------------------------------------------------------------------
LEMMA InvStep == IInv /\ [Next]_vars => IInv'
<1> SUFFICES ASSUME IInv, [Next]_vars PROVE IInv'
  OBVIOUS
<1>1. ASSUME NEW l \in Language, AddDocument(l) PROVE IInv'
  BY <1>1, AddDocumentStep
<1>2. ASSUME NEW l \in Language, Refresh(l) PROVE IInv'
  BY <1>2, RefreshStep
<1>3. CASE DeleteDocuments
  BY <1>3, DeleteStep
<1>4. ASSUME NEW s \in Session, Search(s) PROVE IInv'
  BY <1>4, AcquireStep DEF Search
<1>5. ASSUME NEW s \in Session, Continue(s) PROVE IInv'
  <2>1. token[s] \in 1 .. version \cup {None}
    BY DEF IInv, TypeOK
  <2> QED
    BY <1>5, <2>1, AcquireStep DEF Continue
<1>6. ASSUME NEW s \in Session, Release(s) PROVE IInv'
  BY <1>6, ReleaseStep
<1>7. CASE Purge
  BY <1>7, PurgeStep
<1>8. CASE Reset
  BY <1>8, ResetStep
<1>9. CASE UNCHANGED vars
  <2>1. UNCHANGED <<langs, indexed, need, taxWriter, current, recorded, refs, taxReader,
                    version, mapping, token, page, held, taxonomy, confused, resets>>
    BY <1>9 DEF vars, indexes, searchers, tokens, sessions
  <2>2. TypeOK' /\ Ordered' /\ Pages'
    BY <2>1 DEF IInv, TypeOK, Page, Versions, Ordered, Pages
  <2>3. Counted'
    BY <2>1 DEF IInv, Counted, Uses, Users, One
  <2>4. TokenKept' /\ Covered'
    BY <2>1 DEF IInv, TokenKept, Kept, NamesPage, Named, Covered, TokensCovered, TaxonomyCovers
  <2> QED
    BY <2>2, <2>3, <2>4 DEF IInv
<1> QED
  BY <1>1, <1>2, <1>3, <1>4, <1>5, <1>6, <1>7, <1>8, <1>9 DEF Next

\* The invariant holds in every state, of the indexes and of the searches
THEOREM Invariant == Spec => []IInv
<1> QED
  BY InitInv, InvStep, PTL DEF Spec

\* Type correctness
THEOREM TypeCorrect == Spec => []TypeOK
<1>1. IInv => TypeOK
  BY DEF IInv
<1> QED
  BY <1>1, Invariant, PTL

\* A searcher in use has a reference: its reader's own is counted
THEOREM NoUseAfterClose == Spec => []HeldIsOpen
<1>1. IInv => HeldIsOpen
  <2> SUFFICES ASSUME IInv, NEW s \in Session, held[s], NEW l \in DOMAIN page[s]
               PROVE  refs[l][page[s][l]] > 0
    BY DEF HeldIsOpen
  <2> DEFINE v == page[s][l]
  <2>1. l \in Language /\ v \in Versions
    BY PageType DEF IInv
  <2>2. s \in Users(l, v)
    BY DEF Users
  <2> HIDE DEF v
  <2>3. IsFiniteSet(Users(l, v)) /\ refs[l][v] >= Uses(l, v) /\ refs[l][v] \in Nat
    BY <2>1 DEF IInv, Counted, TypeOK
  <2>4. Cardinality(Users(l, v)) \in Nat /\ Cardinality(Users(l, v)) # 0
    BY <2>2, <2>3, FS_CardinalityType, FS_EmptySet
  <2>5. refs[l][v] > 0
    BY <2>3, <2>4 DEF Uses, One
  <2> QED
    BY <2>5 DEF v
<1> QED
  BY <1>1, Invariant, PTL

\* A search that goes on reads the versions it read before while they are kept
THEOREM TokensName == Spec => []TokenKept
<1>1. IInv => TokenKept
  BY DEF IInv
<1> QED
  BY <1>1, Invariant, PTL

\* The taxonomy reader of a search knows every category of its documents
THEOREM TaxonomyKnows == Spec => []TaxonomyCovers
<1>1. IInv => TaxonomyCovers
  BY DEF IInv, Covered
<1> QED
  BY <1>1, Invariant, PTL
=============================================================================
