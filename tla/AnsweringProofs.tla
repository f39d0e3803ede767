-------------------------- MODULE AnsweringProofs --------------------------
(***************************************************************************)
(* Proofs about Answering, for any number of request threads, bases,       *)
(* documents and settings requests, and any cap on the cache. The          *)
(* inductive invariant IInv relates the three things a question joins:     *)
(* the base it reads, whose passages only grow while it exists             *)
(* (CorpusInv); the cache, where what is built or given is made from what  *)
(* was wanted (Served); and the question's own place, which says what was  *)
(* already established for it (Founded, WantsOK). CorpusInv is what makes  *)
(* a lookup sound: the fingerprint compares the number of passages and the *)
(* two ends only, and two corpora of one base with one length are equal    *)
(* because both begin the same growing list.                               *)
(***************************************************************************)
EXTENDS Answering, SequenceTheorems, TLAPS

-----------------------------------------------------------------------------
(* The settings. Their invariant, SettingsInv, says that the rows have     *)
(* their types and that what an open request read when it began is still   *)
(* there: a credential it names, the preference and the catalogue rows it  *)
(* saw. Rows are rewritten and deactivated by other requests meanwhile,    *)
(* and never taken away.                                                   *)

CredRows  == [key : Keys, status : Statuses, active : BOOLEAN]
ModelRows == [source : {"seed", "provider_api"}, active : BOOLEAN]
PrefRows  == [model : Models, tuning : Tuning, on : BOOLEAN]

KeyArgs    == [key : Keys, refresh : BOOLEAN]
PreferArgs == [model : Models, tuning : Tuning \cup {NotSent}, on : BOOLEAN \cup {NotSent}]
Catalogues == [Models -> ModelRows \cup {NoRow}]
Kinds      == {"save", "remove", "test", "list", "refresh", "due", "prefer"}
Requests   == [kind : Kinds, cred : CredIds \cup {NoRow}, sawPref : PrefRows \cup {NoRow},
               sawCatalogue : Catalogues,
               arg : KeyArgs \cup PreferArgs \cup BOOLEAN \cup {NoRow}]

RowsTyped ==
  /\ creds \in [CredIds -> CredRows \cup {NoRow}]
  /\ catalogue \in Catalogues
  /\ pref \in PrefRows \cup {NoRow}
  /\ expired \in BOOLEAN
  /\ begun \in 0 .. MaxSettings

\* What a request goes by is still there: rows are deactivated and rewritten,
\* never taken away.
Argued(q) == /\ q.kind = "save"   => q.arg \in KeyArgs
             /\ q.kind = "prefer" => q.arg \in PreferArgs
HasCred(q, owned) ==
  q.kind \in {"remove", "test", "refresh", "due"} \/ q.cred # NoRow
    => q.cred \in CredIds /\ owned[q.cred] \in CredRows
SawRows(q, models, p) == /\ q.sawPref # NoRow => p \in PrefRows
                         /\ \A m \in Models : q.sawCatalogue[m] # NoRow => models[m] \in ModelRows

RequestsTyped == req \in [SettingReqs -> Requests \cup {NoRow}]
RequestsOK == \A r \in SettingReqs :
                req[r] # NoRow => Argued(req[r]) /\ HasCred(req[r], creds) /\ SawRows(req[r], catalogue, pref)

SettingsInv == RowsTyped /\ RequestsTyped /\ RequestsOK

\* No step takes a row away.
RowsStay == /\ \A c \in CredIds : creds[c] \in CredRows => creds'[c] \in CredRows
            /\ \A m \in Models : catalogue[m] \in ModelRows => catalogue'[m] \in ModelRows
            /\ pref \in PrefRows => pref' \in PrefRows

-----------------------------------------------------------------------------
\* A refresh that merges an old reading keeps every row, and keeps it a row.
LEMMA RefreshedType ==
  ASSUME RowsTyped, NEW seen \in Catalogues, NEW fetched \in Listings,
         \A m \in Models : seen[m] # NoRow => catalogue[m] \in ModelRows
  PROVE  /\ Refreshed(seen, fetched) \in Catalogues
         /\ \A m \in Models : catalogue[m] \in ModelRows => Refreshed(seen, fetched)[m] \in ModelRows
<1> DEFINE at(m) == CASE m \in fetched -> IF seen[m] # NoRow /\ seen[m].active /\ catalogue[m] # NoRow
                           THEN [source |-> "provider_api", active |-> catalogue[m].active]
                           ELSE [source |-> "provider_api", active |-> TRUE]
       [] m \notin fetched /\ seen[m] # NoRow /\ seen[m].source = "provider_api" /\ seen[m].active
                        -> [catalogue[m] EXCEPT !.active = FALSE]
       [] OTHER -> catalogue[m]
<1>1. ASSUME NEW m \in Models
      PROVE  at(m) \in ModelRows \cup {NoRow} /\ (catalogue[m] \in ModelRows => at(m) \in ModelRows)
  <2>1. catalogue[m] \in ModelRows \/ catalogue[m] = NoRow
    BY DEF RowsTyped, Catalogues
  <2>2. CASE m \in fetched
    BY <2>1, <2>2 DEF ModelRows
  <2>3. CASE m \notin fetched /\ seen[m] # NoRow /\ seen[m].source = "provider_api" /\ seen[m].active
    <3>1. PICK x \in ModelRows : x = catalogue[m]
      BY <2>3
    <3>2. [x EXCEPT !.active = FALSE] \in ModelRows
      BY DEF ModelRows
    <3> QED BY <2>3, <3>1, <3>2
  <2>4. CASE m \notin fetched /\ ~ (seen[m] # NoRow /\ seen[m].source = "provider_api" /\ seen[m].active)
    BY <2>1, <2>4
  <2> QED BY <2>2, <2>3, <2>4
<1>2. Refreshed(seen, fetched) = [m \in Models |-> at(m)]
  BY DEF Refreshed
<1> HIDE DEF at
<1> QED BY <1>1, <1>2 DEF Catalogues

LEMMA WithSeedsType ==
  ASSUME NEW listed \in Catalogues
  PROVE  /\ WithSeeds(listed) \in Catalogues
         /\ \A m \in Models : listed[m] \in ModelRows => WithSeeds(listed)[m] \in ModelRows
BY DEF WithSeeds, Catalogues, ModelRows

LEMMA SomeCredType ==
  ASSUME RowsTyped, NEW c \in SomeCred(creds)
  PROVE  /\ c \in CredIds \cup {NoRow}
         /\ ActiveCreds(creds) # {} => c \in CredIds /\ creds[c] \in CredRows
         /\ c # NoRow => c \in CredIds /\ creds[c] \in CredRows
BY DEF SomeCred, ActiveCreds, RowsTyped

LEMMA UntunedType == Untuned \in Tuning
BY DEF Untuned, Tuning

LEMMA InitSettings == ASSUME SettingsInit PROVE SettingsInv
<1>1. creds \in [CredIds -> CredRows \cup {NoRow}] /\ expired \in BOOLEAN /\ begun \in 0 .. MaxSettings
  <2>1. creds = [c \in CredIds |-> NoRow] /\ expired = FALSE /\ begun \in {0, MaxSettings}
    BY DEF SettingsInit
  <2>2. begun \in 0 .. MaxSettings
    BY <2>1, SettingsAssumption
  <2>3. creds \in [CredIds -> CredRows \cup {NoRow}] /\ expired \in BOOLEAN
    BY <2>1
  <2> QED BY <2>2, <2>3
<1>2. catalogue \in Catalogues /\ pref \in PrefRows \cup {NoRow}
  <2>1. CASE pref = NoRow /\ catalogue = [m \in Models |-> NoRow]
    BY <2>1 DEF Catalogues
  <2>2. CASE /\ pref \in [model : Seeds, tuning : {Untuned}, on : {TRUE}]
             /\ catalogue = [m \in Models |-> IF m \in Seeds THEN [source |-> "seed", active |-> TRUE]
                                               ELSE NoRow]
    <3>1. pref \in PrefRows
      BY <2>2, UntunedType, SeedsAssumption DEF PrefRows
    <3>2. catalogue \in Catalogues
      BY <2>2 DEF Catalogues, ModelRows
    <3> QED BY <3>1, <3>2
  <2> QED BY <2>1, <2>2 DEF SettingsInit
<1>3. RequestsTyped /\ RequestsOK
  BY DEF SettingsInit, RequestsTyped, RequestsOK
<1> QED BY <1>1, <1>2, <1>3 DEF SettingsInv, RowsTyped

\* The requests a step leaves alone, and those it closes.
LEMMA OthersStay ==
  ASSUME SettingsInv, RowsStay, RowsTyped', NEW r \in SettingReqs,
         req' = [req EXCEPT ![r] = NoRow] \/ UNCHANGED req
  PROVE  SettingsInv'
<1>1. RequestsTyped'
  BY DEF SettingsInv, RequestsTyped
<1>2. ASSUME NEW s \in SettingReqs, req'[s] # NoRow
      PROVE  Argued(req'[s]) /\ HasCred(req'[s], creds') /\ SawRows(req'[s], catalogue', pref')
  <2>1. req'[s] = req[s]
    BY <1>2 DEF SettingsInv, RequestsTyped
  <2>2. Argued(req[s]) /\ HasCred(req[s], creds) /\ SawRows(req[s], catalogue, pref)
    BY <1>2, <2>1 DEF SettingsInv, RequestsOK
  <2> QED BY <2>1, <2>2 DEF HasCred, SawRows, RowsStay
<1> QED BY <1>1, <1>2 DEF SettingsInv, RequestsOK

\* A request that begins reads rows that are there.
LEMMA BeginKeeps ==
  ASSUME SettingsInv, NEW r \in SettingReqs, NEW kind \in Kinds, NEW extra,
         BeginRequest(r, kind, extra),
         extra \in KeyArgs \cup PreferArgs \cup BOOLEAN \cup {NoRow},
         kind = "save" => extra \in KeyArgs,
         kind = "prefer" => extra \in PreferArgs,
         kind \in {"remove", "test", "refresh", "due"} => ActiveCreds(creds) # {}
  PROVE  SettingsInv'
<1>1. RowsTyped' 
  BY SettingsAssumption DEF BeginRequest, SettingsInv, RowsTyped
<1>2. PICK c \in SomeCred(creds) :
        req' = [req EXCEPT ![r] = [kind |-> kind, cred |-> c, sawPref |-> pref,
                                   sawCatalogue |-> catalogue, arg |-> extra]]
  BY DEF BeginRequest
<1>3. c \in CredIds \cup {NoRow} /\ (ActiveCreds(creds) # {} => c \in CredIds /\ creds[c] \in CredRows)
       /\ (c # NoRow => c \in CredIds /\ creds[c] \in CredRows)
  BY SomeCredType DEF SettingsInv
<1>4. creds' = creds /\ catalogue' = catalogue /\ pref' = pref
  BY DEF BeginRequest
<1> DEFINE q == [kind |-> kind, cred |-> c, sawPref |-> pref, sawCatalogue |-> catalogue, arg |-> extra]
<1>5. q \in Requests
  BY <1>3 DEF Requests, SettingsInv, RowsTyped
<1>6. Argued(q) /\ HasCred(q, creds') /\ SawRows(q, catalogue', pref')
  <2>1. Argued(q)
    BY DEF Argued
  <2>2. HasCred(q, creds')
    BY <1>3, <1>4 DEF HasCred
  <2>3. SawRows(q, catalogue', pref')
    BY <1>4 DEF SawRows, SettingsInv, RowsTyped, Catalogues
  <2> QED BY <2>1, <2>2, <2>3
<1>7. req' = [req EXCEPT ![r] = q]
  BY <1>2
<1> HIDE DEF q
<1>8. RequestsTyped'
  BY <1>5, <1>7 DEF SettingsInv, RequestsTyped
<1>9. ASSUME NEW s \in SettingReqs, req'[s] # NoRow
      PROVE  Argued(req'[s]) /\ HasCred(req'[s], creds') /\ SawRows(req'[s], catalogue', pref')
  <2>1. CASE s = r
    BY <2>1, <1>6, <1>7 DEF SettingsInv, RequestsTyped
  <2>2. CASE s # r
    <3>1. req'[s] = req[s]
      BY <2>2, <1>7 DEF SettingsInv, RequestsTyped
    <3> QED BY <1>4, <1>9, <3>1 DEF SettingsInv, RequestsOK, HasCred, SawRows
  <2> QED BY <2>1, <2>2
<1> QED BY <1>1, <1>8, <1>9 DEF SettingsInv, RequestsOK

LEMMA BeginsKeep ==
  ASSUME SettingsInv, NEW r \in SettingReqs,
         \/ BeginSaveKey(r) \/ BeginRemoveKey(r) \/ BeginTestKey(r) \/ BeginListModels(r)
         \/ BeginRefresh(r) \/ BeginDue(r) \/ BeginPrefer(r)
  PROVE  SettingsInv'
<1>1. CASE BeginSaveKey(r)
  <2>1. PICK k \in Keys, refresh \in BOOLEAN : BeginRequest(r, "save", [key |-> k, refresh |-> refresh])
    BY <1>1 DEF BeginSaveKey
  <2>2. [key |-> k, refresh |-> refresh] \in KeyArgs
    BY DEF KeyArgs
  <2> DEFINE extra == [key |-> k, refresh |-> refresh]
  <2> HIDE DEF extra
  <2>3. extra \in KeyArgs /\ BeginRequest(r, "save", extra)
    BY <2>1, <2>2 DEF extra
  <2> QED BY <2>3, BeginKeeps DEF Kinds
<1>2. CASE BeginRemoveKey(r) \/ BeginTestKey(r) \/ BeginDue(r)
  <2>1. ActiveCreds(creds) # {}
    BY <1>2 DEF BeginRemoveKey, BeginTestKey, BeginDue
  <2>2. PICK kind \in {"remove", "test", "due"} : BeginRequest(r, kind, NoRow)
    BY <1>2 DEF BeginRemoveKey, BeginTestKey, BeginDue
  <2> QED BY <2>1, <2>2, BeginKeeps DEF Kinds
<1>3. CASE BeginListModels(r)
  BY <1>3, BeginKeeps DEF BeginListModels, Kinds
<1>4. CASE BeginRefresh(r)
  BY <1>4, BeginKeeps DEF BeginRefresh, Kinds
<1>5. CASE BeginPrefer(r)
  <2>1. PICK m \in Models, t \in Tuning \cup {NotSent}, on \in BOOLEAN \cup {NotSent} :
          BeginRequest(r, "prefer", [model |-> m, tuning |-> t, on |-> on])
    BY <1>5 DEF BeginPrefer, ActiveModels
  <2> DEFINE extra == [model |-> m, tuning |-> t, on |-> on]
  <2>2. extra \in PreferArgs
    BY DEF PreferArgs
  <2> HIDE DEF extra
  <2>3. extra \in PreferArgs /\ BeginRequest(r, "prefer", extra)
    BY <2>1, <2>2 DEF extra
  <2> QED BY <2>3, BeginKeeps DEF Kinds
<1> QED BY <1>1, <1>2, <1>3, <1>4, <1>5

\* What is known of an open request.
LEMMA OpenRequest ==
  ASSUME SettingsInv, NEW r \in SettingReqs, NEW kind, At(r, kind)
  PROVE  /\ req[r] \in Requests /\ req[r].kind = kind
         /\ Argued(req[r]) /\ HasCred(req[r], creds) /\ SawRows(req[r], catalogue, pref)
BY DEF At, SettingsInv, RequestsTyped, RequestsOK

\* The row a refresh of the request's own snapshot leaves.
LEMMA RefreshKeepsRows ==
  ASSUME SettingsInv, NEW r \in SettingReqs, NEW kind, At(r, kind), NEW fetched \in Listings,
         catalogue' = Refreshed(req[r].sawCatalogue, fetched)
  PROVE  /\ catalogue' \in Catalogues
         /\ \A m \in Models : catalogue[m] \in ModelRows => catalogue'[m] \in ModelRows
<1>1. RowsTyped /\ req[r].sawCatalogue \in Catalogues
  BY OpenRequest DEF SettingsInv, Requests
<1>2. \A m \in Models : req[r].sawCatalogue[m] # NoRow => catalogue[m] \in ModelRows
  BY OpenRequest DEF SawRows
<1> QED BY <1>1, <1>2, RefreshedType

\* A credential's row after one of its columns has been written.
LEMMA CredRowWritten ==
  ASSUME RowsTyped, NEW c \in CredIds, creds[c] \in CredRows,
         NEW status \in Statuses,
         \/ creds' = [creds EXCEPT ![c].status = status]
         \/ creds' = [creds EXCEPT ![c].active = FALSE]
  PROVE  /\ creds' \in [CredIds -> CredRows \cup {NoRow}]
         /\ \A x \in CredIds : creds[x] \in CredRows => creds'[x] \in CredRows
<1>1. PICK row \in CredRows : row = creds[c]
  OBVIOUS
<1>2. [row EXCEPT !.status = status] \in CredRows /\ [row EXCEPT !.active = FALSE] \in CredRows
  BY DEF CredRows
<1>3. PICK new \in CredRows : creds' = [creds EXCEPT ![c] = new]
  BY <1>1, <1>2
<1> QED BY <1>3 DEF RowsTyped

LEMMA SaveKeeps ==
  ASSUME SettingsInv, NEW r \in SettingReqs, CommitSaveKey(r)
  PROVE  SettingsInv'
<1>1. At(r, "save") /\ req' = [req EXCEPT ![r] = NoRow] /\ begun' = begun /\ pref' = pref
  BY DEF CommitSaveKey, Done
<1>2. req[r].arg \in KeyArgs /\ (req[r].cred # NoRow => req[r].cred \in CredIds /\ creds[req[r].cred] \in CredRows)
  BY <1>1, OpenRequest DEF Argued, HasCred
<1>3. PICK c \in IF req[r].cred = NoRow THEN {x \in CredIds : creds[x] = NoRow} ELSE {req[r].cred},
           status \in Statuses :
         /\ creds' = [creds EXCEPT ![c] = [key |-> req[r].arg.key, status |-> status,
                                           active |-> req[r].cred = NoRow \/ creds[c].active]]
         /\ \/ UNCHANGED <<catalogue, expired>>
            \/ /\ \E fetched \in Listings : catalogue' = Refreshed(req[r].sawCatalogue, fetched)
               /\ expired' = FALSE
  BY DEF CommitSaveKey, Statuses
<1>4. c \in CredIds /\ [key |-> req[r].arg.key, status |-> status,
                        active |-> req[r].cred = NoRow \/ creds[c].active] \in CredRows
  BY <1>2, <1>3 DEF KeyArgs, CredRows
<1>5. PICK new \in CredRows : creds' = [creds EXCEPT ![c] = new]
  BY <1>3, <1>4
<1>6. /\ creds' \in [CredIds -> CredRows \cup {NoRow}]
      /\ \A x \in CredIds : creds[x] \in CredRows => creds'[x] \in CredRows
  BY <1>4, <1>5 DEF SettingsInv, RowsTyped
<1>7. /\ catalogue' \in Catalogues /\ expired' \in BOOLEAN
      /\ \A m \in Models : catalogue[m] \in ModelRows => catalogue'[m] \in ModelRows
  BY <1>1, <1>3, RefreshKeepsRows DEF SettingsInv, RowsTyped
<1>8. RowsTyped' /\ RowsStay
  BY <1>1, <1>6, <1>7 DEF SettingsInv, RowsTyped, RowsStay
<1> QED BY <1>1, <1>8, OthersStay

LEMMA RemoveAndTestKeep ==
  ASSUME SettingsInv, NEW r \in SettingReqs, CommitRemoveKey(r) \/ CommitTestKey(r)
  PROVE  SettingsInv'
<1>1. /\ req' = [req EXCEPT ![r] = NoRow] /\ UNCHANGED <<begun, catalogue, expired, pref>>
      /\ At(r, "remove") \/ At(r, "test")
  BY DEF CommitRemoveKey, CommitTestKey, Done
<1>2. req[r].cred \in CredIds /\ creds[req[r].cred] \in CredRows
  BY <1>1, OpenRequest DEF HasCred
<1>3. \E status \in Statuses : \/ creds' = [creds EXCEPT ![req[r].cred].status = status]
                               \/ creds' = [creds EXCEPT ![req[r].cred].active = FALSE]
  BY DEF CommitRemoveKey, CommitTestKey, Statuses
<1>4. /\ creds' \in [CredIds -> CredRows \cup {NoRow}]
      /\ \A x \in CredIds : creds[x] \in CredRows => creds'[x] \in CredRows
  BY <1>2, <1>3, CredRowWritten DEF SettingsInv
<1>5. RowsTyped' /\ RowsStay
  BY <1>1, <1>4 DEF SettingsInv, RowsTyped, RowsStay
<1> QED BY <1>1, <1>5, OthersStay

LEMMA RefreshesKeep ==
  ASSUME SettingsInv, NEW r \in SettingReqs, CommitRefresh(r) \/ CommitDue(r)
  PROVE  SettingsInv'
<1>1. /\ req' = [req EXCEPT ![r] = NoRow] /\ UNCHANGED <<begun, pref>>
      /\ At(r, "refresh") \/ At(r, "due")
  BY DEF CommitRefresh, CommitDue, Done
<1>2. req[r].cred \in CredIds /\ creds[req[r].cred] \in CredRows
  BY <1>1, OpenRequest DEF HasCred
<1>3. /\ \/ UNCHANGED <<catalogue, expired>>
         \/ /\ \E fetched \in Listings : catalogue' = Refreshed(req[r].sawCatalogue, fetched)
            /\ expired' = FALSE
      /\ \/ UNCHANGED creds
         \/ \E status \in Statuses : creds' = [creds EXCEPT ![req[r].cred].status = status]
  BY DEF CommitRefresh, CommitDue, Statuses
<1>4. /\ catalogue' \in Catalogues /\ expired' \in BOOLEAN
      /\ \A m \in Models : catalogue[m] \in ModelRows => catalogue'[m] \in ModelRows
  BY <1>1, <1>3, RefreshKeepsRows DEF SettingsInv, RowsTyped
<1>5. /\ creds' \in [CredIds -> CredRows \cup {NoRow}]
      /\ \A x \in CredIds : creds[x] \in CredRows => creds'[x] \in CredRows
  BY <1>2, <1>3, CredRowWritten DEF SettingsInv, RowsTyped
<1>6. RowsTyped' /\ RowsStay
  BY <1>1, <1>4, <1>5 DEF SettingsInv, RowsTyped, RowsStay
<1> QED BY <1>1, <1>6, OthersStay

LEMMA SeedKeeps ==
  ASSUME SettingsInv, NEW r \in SettingReqs, SeedCatalogue(r)
  PROVE  SettingsInv'
<1>1. At(r, "list") /\ UNCHANGED <<creds, expired, pref, begun>>
  BY DEF SeedCatalogue
<1>2. /\ catalogue' \in Catalogues
      /\ \A m \in Models : catalogue[m] \in ModelRows => catalogue'[m] \in ModelRows
  BY WithSeedsType DEF SeedCatalogue, SettingsInv, RowsTyped
<1>3. RowsTyped' /\ RowsStay
  BY <1>1, <1>2 DEF SettingsInv, RowsTyped, RowsStay
<1>4. PICK c \in SomeCred(creds) :
        \/ req' = [req EXCEPT ![r] = NoRow]
        \/ /\ c # NoRow
           /\ req' = [req EXCEPT ![r] = [req[r] EXCEPT !.kind = "refresh", !.cred = c,
                                                       !.sawCatalogue = catalogue']]
  BY DEF SeedCatalogue, SettingsInv, RequestsTyped
<1>5. CASE req' = [req EXCEPT ![r] = NoRow]
  BY <1>3, <1>5, OthersStay
<1>6. CASE /\ c # NoRow
           /\ req' = [req EXCEPT ![r] = [req[r] EXCEPT !.kind = "refresh", !.cred = c,
                                                       !.sawCatalogue = catalogue']]
  <2>1. c \in CredIds /\ creds[c] \in CredRows
    BY <1>6, SomeCredType DEF SettingsInv
  <2>2. PICK old \in Requests : old = req[r] /\ SawRows(old, catalogue, pref)
    BY <1>1, OpenRequest
  <2>3. PICK seeded \in Catalogues : seeded = catalogue'
    BY <1>2
  <2>4. PICK q \in Requests : q = [old EXCEPT !.kind = "refresh", !.cred = c, !.sawCatalogue = seeded]
    BY <2>1, <2>3 DEF Requests, Kinds
  <2>5. q.kind = "refresh" /\ q.cred = c /\ q.sawCatalogue = seeded /\ q.sawPref = old.sawPref
    BY <2>4 DEF Requests
  <2>6. Argued(q)
    BY <2>5 DEF Argued
  <2>7. HasCred(q, creds')
    BY <1>1, <2>1, <2>5 DEF HasCred
  <2>8. SawRows(q, catalogue', pref')
    BY <1>1, <2>2, <2>3, <2>5 DEF SawRows, Catalogues
  <2>9. req' = [req EXCEPT ![r] = q]
    BY <1>6, <2>2, <2>3, <2>4
  <2>10. RequestsTyped'
    BY <2>9 DEF SettingsInv, RequestsTyped
  <2>11. ASSUME NEW s \in SettingReqs, req'[s] # NoRow
         PROVE  Argued(req'[s]) /\ HasCred(req'[s], creds') /\ SawRows(req'[s], catalogue', pref')
    <3>1. CASE s = r
      BY <3>1, <2>6, <2>7, <2>8, <2>9 DEF SettingsInv, RequestsTyped
    <3>2. CASE s # r
      <4>1. req'[s] = req[s]
        BY <3>2, <2>9 DEF SettingsInv, RequestsTyped
      <4>2. Argued(req[s]) /\ HasCred(req[s], creds) /\ SawRows(req[s], catalogue, pref)
        BY <2>11, <4>1 DEF SettingsInv, RequestsOK
      <4> QED BY <1>3, <4>1, <4>2 DEF HasCred, SawRows, RowsStay
    <3> QED BY <3>1, <3>2
  <2> QED BY <1>3, <2>10, <2>11 DEF SettingsInv, RequestsOK
<1> QED BY <1>4, <1>5, <1>6

LEMMA PreferKeeps ==
  ASSUME SettingsInv, NEW r \in SettingReqs, CommitPrefer(r)
  PROVE  SettingsInv'
<1>1. At(r, "prefer") /\ req' = [req EXCEPT ![r] = NoRow] /\ UNCHANGED <<begun, creds, expired>>
  BY DEF CommitPrefer, Done
<1>2. /\ catalogue' \in Catalogues
      /\ \A m \in Models : catalogue[m] \in ModelRows => catalogue'[m] \in ModelRows
  BY WithSeedsType DEF CommitPrefer, SettingsInv, RowsTyped
<1>3. PICK sent \in PreferArgs, seen \in PrefRows \cup {NoRow} :
        sent = req[r].arg /\ seen = req[r].sawPref /\ (seen # NoRow => pref \in PrefRows)
  BY <1>1, OpenRequest DEF Argued, SawRows, Requests
<1>4. pref' = Written(seen, PreferenceSet(seen, sent), pref)
  BY <1>3 DEF CommitPrefer
<1>5. PreferenceSet(seen, sent) \in PrefRows
  BY <1>3, UntunedType DEF PreferenceSet, PrefRows, PreferArgs
<1>6. pref' \in PrefRows
  <2>1. PICK new \in PrefRows : new = PreferenceSet(seen, sent)
    BY <1>5
  <2>2. Written(seen, new, pref) \in PrefRows
    <3>1. CASE seen = NoRow
      BY <3>1 DEF Written
    <3>2. CASE seen # NoRow
      <4>1. seen \in PrefRows /\ pref \in PrefRows
        BY <1>3, <3>2
      <4>2. PICK tuned : tuned = [p \in Params |-> Column(seen.tuning[p], new.tuning[p], pref.tuning[p])]
        OBVIOUS
      <4>3. tuned \in Tuning
        BY <4>1, <4>2 DEF Column, PrefRows, Tuning
      <4>4. Column(seen.model, new.model, pref.model) \in Models /\ Column(seen.on, new.on, pref.on) \in BOOLEAN
        BY <4>1 DEF Column, PrefRows
      <4> QED BY <3>2, <4>2, <4>3, <4>4 DEF Written, PrefRows
    <3> QED BY <3>1, <3>2
  <2> QED BY <1>4, <2>1, <2>2
<1>7. RowsTyped' /\ RowsStay
  BY <1>1, <1>2, <1>6 DEF SettingsInv, RowsTyped, RowsStay
<1> QED BY <1>1, <1>7, OthersStay

\* One step of the settings keeps their invariant.
LEMMA SettingsKept ==
  ASSUME SettingsInv, [SettingsNext]_settingVars
  PROVE  SettingsInv'
<1>1. CASE UNCHANGED settingVars \/ Expire
  <2>1. /\ UNCHANGED <<creds, catalogue, pref, req, begun>>
        /\ expired' \in BOOLEAN
    BY <1>1 DEF settingVars, Expire, SettingsInv, RowsTyped
  <2>2. SettingsInv' <=> RowsTyped' /\ RequestsTyped' /\ RequestsOK'
    BY DEF SettingsInv
  <2> QED BY <2>1, <2>2 DEF SettingsInv, RowsTyped, RequestsTyped, RequestsOK
<1>2. ASSUME NEW r \in SettingReqs, SettingStep(r)
      PROVE  SettingsInv'
  <2>1. CASE Rollback(r)
    <3>1. req' = [req EXCEPT ![r] = NoRow] /\ UNCHANGED <<creds, catalogue, expired, pref, begun>>
      BY <2>1 DEF Rollback, Done
    <3>2. RowsTyped' /\ RowsStay
      BY <3>1 DEF SettingsInv, RowsTyped, RowsStay
    <3> QED BY <3>1, <3>2, OthersStay
  <2> QED BY <1>2, <2>1, BeginsKeep, SaveKeeps, RemoveAndTestKeep, RefreshesKeep, SeedKeeps,
             PreferKeeps DEF SettingStep
<1> QED BY <1>1, <1>2 DEF SettingsNext

LEMMA SettingsInvTypes == ASSUME SettingsInv PROVE SettingsTypeOK
BY DEF SettingsInv, SettingsTypeOK, RowsTyped, Catalogues, CredRows, ModelRows, PrefRows

\* The preference moves only by a request that said so.
LEMMA PreferenceMoves ==
  ASSUME SettingsInv, [SettingsNext]_settingVars
  PROVE  \/ pref' = pref \/ pref = NoRow
         \/ \E r \in SettingReqs :
              /\ At(r, "prefer") /\ req'[r] = NoRow
              /\ pref'.on # pref.on => req[r].arg.on = pref'.on
              /\ \A p \in Params : pref'.tuning[p] # pref.tuning[p] =>
                   req[r].arg.tuning # NotSent /\ req[r].arg.tuning[p] = pref'.tuning[p]
<1>1. CASE \E r \in SettingReqs : CommitPrefer(r)
  <2>1. PICK r \in SettingReqs : CommitPrefer(r)
    BY <1>1
  <2>2. At(r, "prefer") /\ req'[r] = NoRow
    BY <2>1 DEF CommitPrefer, Done, SettingsInv, RequestsTyped
  <2>3. req[r].sawPref = NoRow => pref = NoRow
    BY <2>1 DEF CommitPrefer
  <2>4. ASSUME req[r].sawPref # NoRow
        PROVE  /\ pref'.on # pref.on => req[r].arg.on = pref'.on
               /\ \A p \in Params : pref'.tuning[p] # pref.tuning[p] =>
                    req[r].arg.tuning # NotSent /\ req[r].arg.tuning[p] = pref'.tuning[p]
    <3> DEFINE seen == req[r].sawPref
               sent == req[r].arg
               new  == PreferenceSet(seen, sent)
    <3>1. pref' = Written(seen, new, pref)
      BY <2>1 DEF CommitPrefer
    <3>2. /\ new.on = IF sent.on = NotSent THEN seen.on ELSE sent.on
          /\ new.tuning = IF sent.tuning = NotSent THEN seen.tuning ELSE sent.tuning
      BY <2>4 DEF PreferenceSet
    <3> HIDE DEF new
    <3>3. /\ pref'.on = IF new.on = seen.on THEN pref.on ELSE new.on
          /\ \A p \in Params : pref'.tuning[p] =
               IF new.tuning[p] = seen.tuning[p] THEN pref.tuning[p] ELSE new.tuning[p]
      BY <2>4, <3>1, <3>2 DEF Written, Column
    <3> QED BY <3>2, <3>3
  <2> QED BY <2>2, <2>3, <2>4
<1>2. CASE ~ \E r \in SettingReqs : CommitPrefer(r)
  <2>1. pref' = pref
    BY <1>2 DEF SettingsNext, settingVars, Expire, SettingStep, BeginSaveKey, CommitSaveKey,
         BeginRemoveKey, CommitRemoveKey, BeginTestKey, CommitTestKey, BeginListModels,
         SeedCatalogue, BeginRefresh, CommitRefresh, BeginDue, CommitDue, BeginPrefer, Rollback,
         BeginRequest
  <2> QED BY <2>1
<1> QED BY <1>1, <1>2

-----------------------------------------------------------------------------
(* The cache as a sequence of indexes with one index for a base.           *)

Indexes == {BuildIndex(b, of, g) : b \in Bases, of \in Corpora, g \in Groups}

OnePerBase(c) == \A i, j \in DOMAIN c : c[i].fingerprint.base = c[j].fingerprint.base => i = j
IsCache(c) == c \in Seq(Indexes) /\ OnePerBase(c)
\* Every entry of c is one of d.
Within(c, d) == \A i \in DOMAIN c : \E j \in DOMAIN d : c[i] = d[j]

\* What an index says of the corpus it was made from.
LEMMA IndexFacts ==
  ASSUME NEW b \in Bases, NEW of \in Corpora, NEW g \in Groups
  PROVE  /\ BuildIndex(b, of, g) \in Indexes
         /\ BuildIndex(b, of, g).of = of /\ BuildIndex(b, of, g).group = g
         /\ BuildIndex(b, of, g).fingerprint = FingerprintOf(b, of, g)
         /\ FingerprintOf(b, of, g).base = b /\ FingerprintOf(b, of, g).group = g
         /\ FingerprintOf(b, of, g).count = Len(of)
BY DEF BuildIndex, FingerprintOf, Indexes, Corpora

LEMMA EntryFacts ==
  ASSUME NEW e \in Indexes
  PROVE  /\ e.of \in Corpora /\ e.group \in Groups /\ e.fingerprint.base \in Bases
         /\ e.fingerprint.count = Len(e.of) /\ e.fingerprint.group = e.group
<1>1. PICK b \in Bases, of \in Corpora, g \in Groups : e = BuildIndex(b, of, g)
  BY DEF Indexes
<1> QED BY <1>1, IndexFacts

LEMMA RemoveAtFacts ==
  ASSUME NEW S, NEW s \in Seq(S), NEW k \in 1 .. Len(s)
  PROVE  /\ RemoveAt(s, k) \in Seq(S) /\ Len(RemoveAt(s, k)) = Len(s) - 1
         /\ \A i \in 1 .. Len(RemoveAt(s, k)) : RemoveAt(s, k)[i] = s[IF i < k THEN i ELSE i + 1]
<1> DEFINE x == SubSeq(s, 1, k - 1)
           y == SubSeq(s, k + 1, Len(s))
           n == Len(s)
<1>1. n \in Nat /\ k \in Nat /\ 1 <= k /\ k <= n
  OBVIOUS
<1>2. \A i \in 1 .. n : s[i] \in S
  OBVIOUS
<1>3. x \in Seq(S) /\ Len(x) = k - 1 /\ \A i \in 1 .. k - 1 : x[i] = s[i]
  <2>1. \A i \in 1 .. k - 1 : s[i] \in S
    BY <1>1, <1>2
  <2>2. /\ x \in Seq(S) /\ Len(x) = (IF 1 <= k - 1 THEN k - 1 - 1 + 1 ELSE 0)
        /\ \A i \in 1 .. k - 1 - 1 + 1 : x[i] = s[1 + i - 1]
    BY <1>1, <2>1, SubSeqProperties
  <2> HIDE DEF x
  <2> QED BY <1>1, <2>2
<1>4. y \in Seq(S) /\ Len(y) = n - k /\ \A i \in 1 .. n - k : y[i] = s[k + i]
  <2>1. \A i \in k + 1 .. n : s[i] \in S
    BY <1>1, <1>2
  <2>2. /\ y \in Seq(S) /\ Len(y) = (IF k + 1 <= n THEN n - (k + 1) + 1 ELSE 0)
        /\ \A i \in 1 .. n - (k + 1) + 1 : y[i] = s[k + 1 + i - 1]
    BY <1>1, <2>1, SubSeqProperties
  <2> HIDE DEF y
  <2> QED BY <1>1, <2>2
<1>5. RemoveAt(s, k) = x \o y
  BY DEF RemoveAt
<1> HIDE DEF x, y, n
<1>6. /\ x \o y \in Seq(S) /\ Len(x \o y) = Len(x) + Len(y)
      /\ \A i \in 1 .. Len(x) + Len(y) : (x \o y)[i] = IF i <= Len(x) THEN x[i] ELSE y[i - Len(x)]
  BY <1>3, <1>4, ConcatProperties
<1>7. Len(x \o y) = n - 1
  BY <1>1, <1>3, <1>4, <1>6
<1>8. ASSUME NEW i \in 1 .. n - 1
      PROVE  (x \o y)[i] = s[IF i < k THEN i ELSE i + 1]
  <2>1. (x \o y)[i] = IF i <= k - 1 THEN x[i] ELSE y[i - (k - 1)]
    BY <1>1, <1>3, <1>4, <1>6, <1>8
  <2>2. CASE i < k
    BY <1>1, <1>3, <2>1, <2>2
  <2>3. CASE ~ i < k
    <3>1. i - (k - 1) \in 1 .. n - k /\ k + (i - (k - 1)) = i + 1
      BY <1>1, <1>8, <2>3
    <3>2. y[i - (k - 1)] = s[i + 1]
      BY <1>4, <3>1
    <3> QED BY <1>1, <2>1, <2>3, <3>2
  <2> QED BY <2>2, <2>3
<1> QED BY <1>1, <1>5, <1>6, <1>7, <1>8 DEF n

\* Dropping a base's entry drops that entry and no other.
LEMMA WithoutFacts ==
  ASSUME IsCache(cache), NEW b
  PROVE  /\ IsCache(Without(b)) /\ Within(Without(b), cache)
         /\ Len(Without(b)) <= Len(cache)
         /\ Slots(b) # {} => Len(Without(b)) = Len(cache) - 1
         /\ \A i \in DOMAIN Without(b) : Without(b)[i].fingerprint.base # b
<1>0. cache \in Seq(Indexes) /\ OnePerBase(cache)
  BY DEF IsCache
<1>1. CASE Slots(b) = {}
  BY <1>0, <1>1 DEF Without, Within, Slots, IsCache
<1>2. CASE Slots(b) # {}
  <2>1. PICK k \in DOMAIN cache :
          /\ cache[k].fingerprint.base = b
          /\ Without(b) = SubSeq(cache, 1, k - 1) \o SubSeq(cache, k + 1, Len(cache))
    BY <1>2 DEF Without, Slots, RemoveAt
  <2> DEFINE w == Without(b)
             at(i) == IF i < k THEN i ELSE i + 1
  <2>2. /\ w \in Seq(Indexes) /\ Len(w) = Len(cache) - 1
        /\ \A i \in 1 .. Len(w) : w[i] = cache[at(i)]
    <3>1. k \in 1 .. Len(cache) /\ w = RemoveAt(cache, k)
      BY <1>0, <2>1 DEF RemoveAt
    <3> QED BY <1>0, <3>1, RemoveAtFacts
  <2>3. k \in 1 .. Len(cache) /\ DOMAIN w = 1 .. Len(w) /\ DOMAIN cache = 1 .. Len(cache)
        /\ Len(cache) \in Nat
    BY <1>0, <2>1, <2>2
  <2>4. \A i \in DOMAIN w : at(i) \in DOMAIN cache /\ at(i) # k
    BY <2>2, <2>3
  <2>5. \A i, j \in DOMAIN w : at(i) = at(j) => i = j
    BY <2>3
  <2> HIDE DEF w, at
  <2>6. \A i \in DOMAIN w : w[i].fingerprint.base # b
    BY <1>0, <2>1, <2>2, <2>3, <2>4 DEF OnePerBase
  <2>7. OnePerBase(w)
    BY <1>0, <2>2, <2>3, <2>4, <2>5 DEF OnePerBase
  <2>8. Within(w, cache)
    BY <2>2, <2>3, <2>4 DEF Within
  <2>9. Len(w) <= Len(cache)
    BY <2>2, <2>3
  <2> QED BY <2>2, <2>6, <2>7, <2>8, <2>9 DEF w, IsCache
<1> QED BY <1>1, <1>2

LEMMA AppendFacts ==
  ASSUME NEW w, IsCache(w), NEW e \in Indexes,
         \A i \in DOMAIN w : w[i].fingerprint.base # e.fingerprint.base
  PROVE  /\ IsCache(Append(w, e)) /\ Len(Append(w, e)) = Len(w) + 1
         /\ \A i \in DOMAIN Append(w, e) : Append(w, e)[i] = e \/ \E j \in DOMAIN w : Append(w, e)[i] = w[j]
<1>1. w \in Seq(Indexes) /\ OnePerBase(w)
  BY DEF IsCache
<1> DEFINE c == Append(w, e)
<1>2. /\ c \in Seq(Indexes) /\ Len(c) = Len(w) + 1 /\ DOMAIN c = 1 .. Len(w) + 1
      /\ c[Len(w) + 1] = e /\ \A i \in 1 .. Len(w) : c[i] = w[i]
      /\ DOMAIN w = 1 .. Len(w) /\ Len(w) \in Nat
  BY <1>1
<1> HIDE DEF c
<1>3. \A i \in DOMAIN c : i = Len(w) + 1 \/ i \in DOMAIN w
  BY <1>2
<1>4. \A i \in DOMAIN c : c[i] = e \/ \E j \in DOMAIN w : c[i] = w[j]
  BY <1>2, <1>3
<1>5. OnePerBase(c)
  BY <1>1, <1>2, <1>3 DEF OnePerBase
<1> QED BY <1>2, <1>4, <1>5 DEF c, IsCache

\* Eviction keeps the newest entries, as many as the cap.
LEMMA EvictedFacts ==
  ASSUME NEW c, IsCache(c)
  PROVE  IsCache(Evicted(c)) /\ Within(Evicted(c), c) /\ Len(Evicted(c)) <= CacheCap
<1>1. c \in Seq(Indexes) /\ OnePerBase(c) /\ Len(c) \in Nat /\ DOMAIN c = 1 .. Len(c)
  BY DEF IsCache
<1>2. CASE ~ Len(c) > CacheCap
  BY <1>1, <1>2, CacheCapAssumption DEF Evicted, IsCache, Within
<1>3. CASE Len(c) > CacheCap
  <2> DEFINE d == Evicted(c)
             k == Len(c) - CacheCap
  <2>1. d = SubSeq(c, k + 1, Len(c)) /\ k \in Nat /\ k <= Len(c)
    BY <1>1, <1>3, CacheCapAssumption DEF Evicted
  <2>2. /\ d \in Seq(Indexes) /\ Len(d) = CacheCap /\ DOMAIN d = 1 .. CacheCap
        /\ \A i \in 1 .. CacheCap : i + k \in DOMAIN c /\ d[i] = c[i + k]
    BY <1>1, <2>1, CacheCapAssumption
  <2>3. \A i, j \in 1 .. CacheCap : i + k = j + k => i = j
    BY <2>1, CacheCapAssumption
  <2> HIDE DEF d, k
  <2>4. OnePerBase(d)
    BY <1>1, <2>2, <2>3 DEF OnePerBase
  <2>5. Within(d, c)
    BY <2>2 DEF Within
  <2>6. Len(d) <= CacheCap
    BY <2>2, CacheCapAssumption
  <2> QED BY <2>2, <2>4, <2>5, <2>6 DEF d, IsCache
<1> QED BY <1>2, <1>3

-----------------------------------------------------------------------------
(* The inductive invariant.                                                *)

Views == [of : Corpora, group : Groups, objectsOf : Askers]
IndexFor(w) == BuildIndex(w.base, w.rows, w.group)

BaseTyped == /\ rows \in [Bases -> Corpora]
             /\ left \in [Bases -> 0 .. Documents]
             /\ state \in [Bases -> {"indexing", "ready", "gone"}]
             /\ nextId \in Nat
             /\ pending \in [Bases -> Corpora \cup {Nobody}]
BasesOK == \A b \in Bases : /\ state[b] = "ready" => left[b] = 0
                            /\ pending[b] # Nobody => /\ state[b] = "indexing" /\ left[b] > 0
                                                      /\ pending[b] \in Corpora

AskTyped == /\ ask \in [Askers -> Questions \cup {Nobody}]
            /\ pc \in [Askers -> Steps]
            /\ \A a \in Askers : ask[a] = Nobody <=> pc[a] \in {"idle", "away"}
\* What a question's place in the answering says of what was read for it.
Founded(q, step) ==
  /\ q.ready => q.left = 0
  /\ q.trace => q.precise
  /\ ~ q.trace => q.group = DefaultGroup
  /\ step \in {"embedding call", "indexing", "ranked", "guarded call", "grounded call"} \cup Citing
       => q.trace \/ q.ready
  /\ step \in {"embedding call", "indexing", "ranked", "grounded call"} \cup Citing
       => q.trace \/ q.rows # << >>
  /\ step \in {"ranked", "guarded call", "grounded call"} \cup Citing => ~ q.trace
  /\ step = "ranked" => ~ q.precise
  /\ step \in {"guarded call", "grounded call"} => q.on /\ q.llm
AsksOK == \A a \in Askers : ask[a] # Nobody => Founded(ask[a], pc[a])

CacheTyped == /\ IsCache(cache) /\ Len(cache) <= CacheCap
              /\ want \in [Askers -> Wants \cup {Nobody}]
              /\ built \in [Askers -> Indexes \cup {NoIndex}]
              /\ view \in [Askers -> Views \cup {NoIndex}]
\* What a thread has built, or was given, is what it wants.
Served == \A a \in Askers :
  /\ built[a] # NoIndex => want[a] # Nobody /\ view[a] = NoIndex /\ built[a] = IndexFor(want[a])
  /\ view[a] # NoIndex => /\ want[a] # Nobody
                          /\ view[a] = [of |-> want[a].rows, group |-> want[a].group, objectsOf |-> a]

\* A thread wants an index for its question, from the time it needs one.
Fits(q, w) == q.base = w.base /\ q.rows = w.rows /\ q.group = w.group
WantsOK == \A a \in Askers :
  /\ want[a] # Nobody => /\ ask[a] # Nobody /\ Fits(ask[a], want[a])
                         /\ view[a] # NoIndex \/ pc[a] = "indexing"
  /\ pc[a] = "indexing" => want[a] # Nobody
  /\ pc[a] = "embedding call" => want[a] = Nobody
  /\ pc[a] \in {"grounded call"} \cup Citing /\ ask[a].precise => view[a] # NoIndex

\* A base's passages only grow while it exists: whatever corpus of it a question
\* read or an entry was made from is the beginning of one list, the passages
\* the base has now. So two of them of one length are the same.
PartOf(x, y) == Len(x) <= Len(y) /\ \A i \in 1 .. Len(x) : x[i] = y[i]
Beginnings(b, s) ==
  /\ state[b] # "gone" => s = rows[b]
  /\ \A a \in Askers : ask[a] # Nobody /\ ask[a].base = b => PartOf(ask[a].rows, s)
  /\ \A i \in DOMAIN cache : cache[i].fingerprint.base = b => PartOf(cache[i].of, s)
CorpusInv == \A b \in Bases : \E s \in Corpora : Beginnings(b, s)

CacheInv == CacheTyped /\ Served
IInv == /\ BaseTyped /\ BasesOK /\ AskTyped /\ AsksOK /\ CacheInv /\ WantsOK /\ CorpusInv
        /\ SettingsInv

-----------------------------------------------------------------------------
(* Corpora.                                                                *)

\* Two beginnings of one list with one length are equal.
LEMMA SameCorpus ==
  ASSUME NEW s \in Corpora, NEW x \in Corpora, NEW y \in Corpora,
         PartOf(x, s), PartOf(y, s), Len(x) = Len(y)
  PROVE  x = y
<1>1. \A i \in 1 .. Len(x) : x[i] = y[i]
  BY DEF PartOf
<1> QED BY <1>1 DEF Corpora

LEMMA PartOfParts ==
  ASSUME NEW x \in Corpora, NEW y \in Corpora, NEW z \in Corpora, PartOf(x, y), PartOf(y, z)
  PROVE  PartOf(x, z)
BY DEF PartOf, Corpora

\* The lookup accepts only an entry made from the passages the caller loaded.
LEMMA HitIsFresh ==
  ASSUME CacheInv, CorpusInv, WantsOK, NEW a \in Askers, want[a] # Nobody, NEW entry \in EntryOf(want[a].base),
         entry.fingerprint = FingerprintOf(want[a].base, want[a].rows, want[a].group)
  PROVE  entry \in Indexes /\ entry.of = want[a].rows /\ entry.group = want[a].group
<1>1. want[a] \in Wants
  BY DEF CacheInv, CacheTyped
<1>2. PICK b \in Bases, mine \in Corpora, g \in Groups :
        b = want[a].base /\ mine = want[a].rows /\ g = want[a].group
  BY <1>1 DEF Wants
<1>3. PICK i \in DOMAIN cache : entry = cache[i] /\ entry.fingerprint.base = b
  BY <1>2 DEF EntryOf, Slots
<1>4. entry \in Indexes
  BY <1>3 DEF CacheInv, CacheTyped, IsCache
<1>5. PICK s \in Corpora : Beginnings(b, s)
  BY DEF CorpusInv
<1>6. PartOf(mine, s) /\ PartOf(entry.of, s)
  BY <1>2, <1>3, <1>5 DEF Beginnings, WantsOK, Fits
<1>7. entry.of \in Corpora /\ Len(entry.of) = Len(mine) /\ entry.group = g
  BY <1>2, <1>4, EntryFacts, IndexFacts
<1> QED BY <1>2, <1>4, <1>6, <1>7, SameCorpus

\* What a step may do to the cache, the wants and the bases for that to last.
Fed == \A i \in DOMAIN cache' :
         \/ \E j \in DOMAIN cache : cache'[i] = cache[j]
         \/ \E a \in Askers : want[a] # Nobody /\ cache'[i] = IndexFor(want[a])
AsksLoaded == \A a \in Askers : ask'[a] # Nobody =>
                \/ ask'[a] = ask[a]
                \/ state[ask'[a].base] # "gone" /\ ask'[a].rows = rows[ask'[a].base]
RowsGrow == \A b \in Bases : state'[b] # "gone" => state[b] # "gone" /\ PartOf(rows[b], rows'[b])

LEMMA PartOfItself == ASSUME NEW x \in Corpora PROVE PartOf(x, x)
BY DEF PartOf, Corpora

LEMMA CorpusKept ==
  ASSUME BaseTyped, BaseTyped', AskTyped, CacheTyped, CacheTyped', WantsOK, CorpusInv,
         Fed, AsksLoaded, RowsGrow
  PROVE  CorpusInv'
<1> SUFFICES ASSUME NEW b \in Bases PROVE (\E s \in Corpora : Beginnings(b, s))'
  BY DEF CorpusInv
<1>1. PICK s \in Corpora : Beginnings(b, s)
  BY DEF CorpusInv
<1>2. PICK t \in Corpora : t = IF state'[b] = "gone" THEN s ELSE rows'[b]
  BY DEF BaseTyped
<1>3. PartOf(s, t)
  BY <1>1, <1>2, PartOfItself DEF Beginnings, RowsGrow
<1>4. ASSUME NEW a \in Askers, ask[a] # Nobody, ask[a].base = b
      PROVE  ask[a].rows \in Corpora /\ PartOf(ask[a].rows, t)
  <2>1. ask[a].rows \in Corpora
    BY <1>4 DEF AskTyped, Questions
  <2>2. PartOf(ask[a].rows, s)
    BY <1>1, <1>4 DEF Beginnings
  <2> QED BY <1>3, <2>1, <2>2, PartOfParts
<1>5. ASSUME NEW a \in Askers, ask'[a] # Nobody, ask'[a].base = b
      PROVE  PartOf(ask'[a].rows, t)
  <2>1. CASE ask'[a] = ask[a]
    BY <1>4, <1>5, <2>1
  <2>2. CASE state[b] # "gone" /\ ask'[a].rows = rows[b]
    BY <1>1, <1>3, <2>2 DEF Beginnings
  <2> QED BY <1>5, <2>1, <2>2 DEF AsksLoaded
<1>6. ASSUME NEW i \in DOMAIN cache', cache'[i].fingerprint.base = b
      PROVE  PartOf(cache'[i].of, t)
  <2>1. CASE \E j \in DOMAIN cache : cache'[i] = cache[j]
    <3>1. PICK j \in DOMAIN cache : cache'[i] = cache[j]
      BY <2>1
    <3>2. cache[j].of \in Corpora /\ PartOf(cache[j].of, s)
      BY <1>1, <1>6, <3>1, EntryFacts DEF Beginnings, CacheTyped, IsCache
    <3> QED BY <1>3, <3>1, <3>2, PartOfParts
  <2>2. CASE \E a \in Askers : want[a] # Nobody /\ cache'[i] = IndexFor(want[a])
    <3>1. PICK a \in Askers : want[a] # Nobody /\ cache'[i] = IndexFor(want[a])
      BY <2>2
    <3>2. want[a].base \in Bases /\ want[a].rows \in Corpora /\ want[a].group \in Groups
      BY <3>1 DEF CacheTyped, Wants
    <3>3. cache'[i].of = want[a].rows /\ want[a].base = b
      BY <1>6, <3>1, <3>2, IndexFacts DEF IndexFor
    <3>4. ask[a] # Nobody /\ ask[a].base = b /\ ask[a].rows = want[a].rows
      BY <3>1, <3>3 DEF WantsOK, Fits
    <3> QED BY <1>4, <3>3, <3>4
  <2> QED BY <2>1, <2>2 DEF Fed
<1>7. state'[b] # "gone" => t = rows'[b]
  BY <1>2
<1> QED BY <1>5, <1>6, <1>7 DEF Beginnings

LEMMA InitInv == ASSUME Init PROVE IInv
<1>1. BaseTyped
  <2>1. rows \in [Bases -> Corpora]
    BY DEF Init, Corpora
  <2>2. left \in [Bases -> 0 .. Documents]
    <3>1. 0 \in 0 .. Documents /\ Documents \in 0 .. Documents
      BY BoundsAssumption
    <3>2. left = [b \in Bases |-> IF b \in Legacy THEN 0 ELSE Documents]
      BY DEF Init
    <3> QED BY <3>1, <3>2
  <2> QED BY <2>1, <2>2 DEF BaseTyped, Init
<1>2. BasesOK
  BY DEF Init, BasesOK
<1>3. AskTyped
  <2>1. pc \in [Askers -> Steps]
    BY DEF Init, Steps
  <2>2. ask \in [Askers -> Questions \cup {Nobody}]
    BY DEF Init
  <2> QED BY <2>1, <2>2 DEF Init, AskTyped
<1>4. AsksOK
  BY DEF Init, AsksOK
<1>5. cache = << >> /\ want = [a \in Askers |-> Nobody] /\ built = [a \in Askers |-> NoIndex]
      /\ view = [a \in Askers |-> NoIndex]
  BY DEF Init, CacheInit
<1>6. CacheInv
  <2>1. IsCache(cache) /\ Len(cache) <= CacheCap
    BY <1>5, CacheCapAssumption DEF IsCache, OnePerBase
  <2>2. want \in [Askers -> Wants \cup {Nobody}] /\ built \in [Askers -> Indexes \cup {NoIndex}]
        /\ view \in [Askers -> Views \cup {NoIndex}]
    BY <1>5
  <2>3. Served
    BY <1>5 DEF Served
  <2> QED BY <2>1, <2>2, <2>3 DEF CacheInv, CacheTyped
<1>7. WantsOK
  <2>1. \A a \in Askers : pc[a] \in {"idle", "away"}
    BY DEF Init
  <2> QED BY <1>5, <2>1 DEF WantsOK, Citing
<1>8. CorpusInv
  <2> SUFFICES ASSUME NEW b \in Bases PROVE \E s \in Corpora : Beginnings(b, s)
    BY DEF CorpusInv
  <2>1. rows[b] \in Corpora
    BY <1>1 DEF BaseTyped
  <2>2. Beginnings(b, rows[b])
    BY <1>5 DEF Init, Beginnings
  <2> QED BY <2>1, <2>2
<1>9. SettingsInv
  BY InitSettings DEF Init
<1> QED BY <1>1, <1>2, <1>3, <1>4, <1>6, <1>7, <1>8, <1>9 DEF IInv

-----------------------------------------------------------------------------
(* The bases' steps.                                                       *)

LEMMA CorporaJoin ==
  ASSUME NEW x \in Corpora, NEW y \in Corpora
  PROVE  x \o y \in Corpora /\ PartOf(x, x \o y)
BY ConcatProperties DEF Corpora, PartOf

LEMMA FreshIdsType ==
  ASSUME NEW n \in Nat, NEW k \in Nat
  PROVE  [i \in 1 .. n |-> k + i - 1] \in Corpora
<1>1. \A i \in 1 .. n : k + i - 1 \in Nat
  OBVIOUS
<1>2. PICK ids : ids = [i \in 1 .. n |-> k + i - 1]
  OBVIOUS
<1>3. ids \in [1 .. n -> Nat]
  BY <1>1, <1>2
<1>4. ids \in Seq(Nat)
  BY <1>3
<1> QED BY <1>2, <1>4 DEF Corpora

\* What a step of a base leaves to the questions.
LEMMA BaseFrame ==
  ASSUME IInv, BaseTyped', BasesOK', CacheTyped', Fed, RowsGrow,
         UNCHANGED <<ask, pc, want, built, view>>, UNCHANGED settingVars
  PROVE  IInv'
<1>1. AskTyped' /\ AsksOK'
  BY DEF IInv, AskTyped, AsksOK
<1>2. Served' /\ WantsOK'
  BY DEF IInv, CacheInv, Served, WantsOK
<1>3. AsksLoaded
  BY DEF AsksLoaded
<1>4. CorpusInv'
  BY <1>3, CorpusKept DEF IInv, CacheInv
<1>5. SettingsInv'
  BY SettingsKept DEF IInv
<1> QED BY <1>1, <1>2, <1>4, <1>5 DEF IInv, CacheInv

LEMMA InvalidateFacts ==
  ASSUME CacheTyped, NEW b, cache' = Without(b), UNCHANGED <<want, built, view>>
  PROVE  CacheTyped' /\ Fed
<1>1. IsCache(cache') /\ Within(cache', cache) /\ Len(cache') <= Len(cache)
  BY WithoutFacts DEF CacheTyped
<1>2. Len(cache') <= CacheCap
  <2>1. Len(cache) \in Nat /\ Len(cache') \in Nat /\ Len(cache) <= CacheCap
    BY <1>1 DEF CacheTyped, IsCache
  <2> QED BY <1>1, <2>1, CacheCapAssumption
<1> QED BY <1>1, <1>2 DEF CacheTyped, Fed, Within

LEMMA SameCacheFacts ==
  ASSUME CacheTyped, UNCHANGED <<cache, want, built, view>>
  PROVE  CacheTyped' /\ Fed
BY DEF CacheTyped, Fed, IsCache, OnePerBase

LEMMA SameRowsGrow ==
  ASSUME BaseTyped, UNCHANGED rows, \A b \in Bases : state'[b] # "gone" => state[b] # "gone"
  PROVE  RowsGrow
BY PartOfItself DEF BaseTyped, RowsGrow

LEMMA BaseKept ==
  ASSUME IInv, NEW b \in Bases, BaseStep(b), UNCHANGED <<askVars, settingVars>>
  PROVE  IInv'
<1>0. /\ BaseTyped /\ BasesOK /\ CacheTyped
      /\ UNCHANGED <<ask, pc>> /\ UNCHANGED settingVars
  BY DEF IInv, CacheInv, askVars
<1>1. CASE FlushDocument(b)
  <2>1. /\ state[b] = "indexing" /\ left[b] > 0 /\ UNCHANGED <<rows, left, state>>
        /\ cache' = Without(b) /\ UNCHANGED <<want, built, view>>
    BY <1>1 DEF FlushDocument, Invalidate
  <2>2. PICK n \in 0 .. MaxChunks : /\ pending' = [pending EXCEPT ![b] = [i \in 1 .. n |-> nextId + i - 1]]
                                    /\ nextId' = nextId + n
    BY <1>1 DEF FlushDocument
  <2>3. n \in Nat /\ nextId \in Nat
    BY <1>0, <2>2, BoundsAssumption DEF BaseTyped
  <2>4. PICK flushed \in Corpora : flushed = [i \in 1 .. n |-> nextId + i - 1]
    BY <2>3, FreshIdsType
  <2>5. nextId' \in Nat /\ pending' = [pending EXCEPT ![b] = flushed]
    BY <2>2, <2>3, <2>4
  <2>6. BaseTyped'
    BY <1>0, <2>1, <2>5 DEF BaseTyped
  <2>7. BasesOK'
    BY <1>0, <2>1, <2>5 DEF BaseTyped, BasesOK
  <2>8. RowsGrow
    BY <1>0, <2>1, SameRowsGrow
  <2>9. CacheTyped' /\ Fed
    BY <1>0, <2>1, InvalidateFacts
  <2> QED BY <1>0, <2>1, <2>6, <2>7, <2>8, <2>9, BaseFrame
<1>2. CASE CommitDocument(b)
  <2>1. /\ pending[b] # Nobody /\ UNCHANGED <<state, nextId>> /\ UNCHANGED <<cache, want, built, view>>
        /\ rows' = [rows EXCEPT ![b] = @ \o pending[b]]
        /\ left' = [left EXCEPT ![b] = @ - 1]
        /\ pending' = [pending EXCEPT ![b] = Nobody]
    BY <1>2 DEF CommitDocument, cacheVars
  <2>2. state[b] = "indexing" /\ left[b] > 0 /\ pending[b] \in Corpora /\ rows[b] \in Corpora
    BY <1>0, <2>1 DEF BasesOK, BaseTyped
  <2>3. PICK joined \in Corpora : joined = rows[b] \o pending[b] /\ PartOf(rows[b], joined)
    BY <2>2, CorporaJoin
  <2>4. left[b] - 1 \in 0 .. Documents
    <3>1. left[b] \in 0 .. Documents
      BY <1>0 DEF BaseTyped
    <3> QED BY <2>2, <3>1, BoundsAssumption
  <2>5. rows' = [rows EXCEPT ![b] = joined]
    BY <1>0, <2>1, <2>3 DEF BaseTyped
  <2>6. PICK fewer \in 0 .. Documents : left' = [left EXCEPT ![b] = fewer]
    BY <1>0, <2>1, <2>4 DEF BaseTyped
  <2>7. BaseTyped'
    BY <1>0, <2>1, <2>5, <2>6 DEF BaseTyped
  <2>8. BasesOK'
    BY <1>0, <2>1, <2>2, <2>6 DEF BaseTyped, BasesOK
  <2>9. RowsGrow
    BY <1>0, <2>1, <2>3, <2>5, PartOfItself DEF BaseTyped, RowsGrow
  <2>10. CacheTyped' /\ Fed
    BY <1>0, <2>1, SameCacheFacts
  <2> QED BY <1>0, <2>1, <2>7, <2>8, <2>9, <2>10, BaseFrame
<1>3. CASE Publish(b)
  <2>1. /\ state[b] = "indexing" /\ left[b] = 0 /\ UNCHANGED <<rows, left, nextId, pending>>
        /\ UNCHANGED <<cache, want, built, view>>
        /\ state' = [state EXCEPT ![b] = "ready"]
    BY <1>3 DEF Publish, cacheVars
  <2>2. BaseTyped'
    BY <1>0, <2>1 DEF BaseTyped
  <2>3. BasesOK'
    BY <1>0, <2>1 DEF BaseTyped, BasesOK
  <2>4. RowsGrow
    BY <1>0, <2>1, SameRowsGrow DEF BaseTyped
  <2>5. CacheTyped' /\ Fed
    BY <1>0, <2>1, SameCacheFacts
  <2> QED BY <1>0, <2>1, <2>2, <2>3, <2>4, <2>5, BaseFrame
<1>4. CASE BeginPurge(b)
  <2>1. /\ UNCHANGED <<rows, left, state, nextId, pending>>
        /\ cache' = Without(b) /\ UNCHANGED <<want, built, view>>
    BY <1>4 DEF BeginPurge, Invalidate, baseVars
  <2>2. BaseTyped' /\ BasesOK'
    BY <1>0, <2>1 DEF BaseTyped, BasesOK
  <2>3. RowsGrow
    BY <1>0, <2>1, SameRowsGrow
  <2>4. CacheTyped' /\ Fed
    BY <1>0, <2>1, InvalidateFacts
  <2> QED BY <1>0, <2>1, <2>2, <2>3, <2>4, BaseFrame
<1>5. CASE CommitPurge(b)
  <2>1. /\ pending[b] = Nobody /\ UNCHANGED <<left, nextId, pending>>
        /\ UNCHANGED <<cache, want, built, view>>
        /\ state' = [state EXCEPT ![b] = "gone"]
        /\ rows' = [rows EXCEPT ![b] = << >>]
    BY <1>5 DEF CommitPurge, cacheVars
  <2>2. BaseTyped'
    BY <1>0, <2>1 DEF BaseTyped, Corpora
  <2>3. BasesOK'
    BY <1>0, <2>1 DEF BaseTyped, BasesOK
  <2>4. RowsGrow
    BY <1>0, <2>1, PartOfItself DEF BaseTyped, RowsGrow
  <2>5. CacheTyped' /\ Fed
    BY <1>0, <2>1, SameCacheFacts
  <2> QED BY <1>0, <2>1, <2>2, <2>3, <2>4, <2>5, BaseFrame
<1> QED BY <1>1, <1>2, <1>3, <1>4, <1>5 DEF BaseStep

-----------------------------------------------------------------------------
(* The lookup, the build and the store of get_index.                       *)

\* What a step of get_index leaves to the rest.
LEMMA IndexFrame ==
  ASSUME IInv, NEW a \in Askers, want[a] # Nobody, view[a] = NoIndex,
         CacheTyped', Served', Fed, \A x \in Askers \ {a} : view'[x] = view[x],
         UNCHANGED <<want, ask, pc>>, UNCHANGED <<rows, left, state, nextId, pending>>,
         UNCHANGED settingVars
  PROVE  IInv'
<1>1. BaseTyped' /\ BasesOK' /\ AskTyped' /\ AsksOK'
  BY DEF IInv, BaseTyped, BasesOK, AskTyped, AsksOK
<1>2. WantsOK'
  <2>1. pc[a] = "indexing"
    BY DEF IInv, WantsOK
  <2>2. pc[a] \notin {"grounded call"} \cup Citing
    BY <2>1 DEF Citing
  <2> QED BY <2>1, <2>2 DEF IInv, WantsOK
<1>3. AsksLoaded /\ RowsGrow
  BY SameRowsGrow DEF AsksLoaded, IInv
<1>4. CorpusInv'
  BY <1>1, <1>3, CorpusKept DEF IInv, CacheInv
<1>5. SettingsInv'
  BY SettingsKept DEF IInv
<1> QED BY <1>1, <1>2, <1>4, <1>5 DEF IInv, CacheInv

\* An entry put at the recent end of what is left of the cache.
LEMMA PutFacts ==
  ASSUME CacheTyped, NEW e \in Indexes
  PROVE  /\ IsCache(Append(Without(e.fingerprint.base), e))
         /\ Len(Append(Without(e.fingerprint.base), e)) = Len(Without(e.fingerprint.base)) + 1
         /\ \A i \in DOMAIN Append(Without(e.fingerprint.base), e) :
              \/ Append(Without(e.fingerprint.base), e)[i] = e
              \/ \E j \in DOMAIN cache : Append(Without(e.fingerprint.base), e)[i] = cache[j]
<1> DEFINE b == e.fingerprint.base
           w == Without(b)
<1>1. IsCache(w) /\ Within(w, cache) /\ \A i \in DOMAIN w : w[i].fingerprint.base # b
  BY WithoutFacts DEF CacheTyped
<1> HIDE DEF w
<1>2. /\ IsCache(Append(w, e)) /\ Len(Append(w, e)) = Len(w) + 1
      /\ \A i \in DOMAIN Append(w, e) : Append(w, e)[i] = e \/ \E j \in DOMAIN w : Append(w, e)[i] = w[j]
  BY <1>1, AppendFacts
<1> QED BY <1>1, <1>2 DEF w, Within

LEMMA GivenServes ==
  ASSUME CacheInv, NEW a \in Askers, want[a] # Nobody, UNCHANGED want,
         view' = [view EXCEPT ![a] = [of |-> want[a].rows, group |-> want[a].group, objectsOf |-> a]],
         built' = [built EXCEPT ![a] = NoIndex]
  PROVE  /\ Served' /\ view' \in [Askers -> Views \cup {NoIndex}]
         /\ built' \in [Askers -> Indexes \cup {NoIndex}]
         /\ want' \in [Askers -> Wants \cup {Nobody}]
<1>1. want[a] \in Wants
  BY DEF CacheInv, CacheTyped
<1>2. PICK v \in Views : v = [of |-> want[a].rows, group |-> want[a].group, objectsOf |-> a]
  BY <1>1 DEF Wants, Views
<1>3. view' = [view EXCEPT ![a] = v]
  BY <1>2
<1>4. /\ view' \in [Askers -> Views \cup {NoIndex}] /\ built' \in [Askers -> Indexes \cup {NoIndex}]
      /\ want' \in [Askers -> Wants \cup {Nobody}]
  BY <1>3 DEF CacheInv, CacheTyped
<1>5. Served'
  BY <1>2, <1>3 DEF CacheInv, CacheTyped, Served
<1> QED BY <1>4, <1>5

LEMMA HitKept ==
  ASSUME IInv, NEW a \in Askers, Hit(a), UNCHANGED <<ask, pc>>,
         UNCHANGED <<rows, left, state, nextId, pending>>, UNCHANGED settingVars
  PROVE  IInv' /\ view' = [view EXCEPT ![a] = [of |-> want[a].rows, group |-> want[a].group, objectsOf |-> a]]
<1>1. want[a] # Nobody /\ view[a] = NoIndex /\ built[a] = NoIndex /\ UNCHANGED <<want, built>>
  BY DEF Hit, Unserved
<1>2. PICK entry \in EntryOf(want[a].base) :
        /\ entry.fingerprint = FingerprintOf(want[a].base, want[a].rows, want[a].group)
        /\ cache' = Append(Without(want[a].base), entry)
        /\ view' = [view EXCEPT ![a] = Rebind(entry, a)]
  BY DEF Hit
<1>3. entry \in Indexes /\ entry.of = want[a].rows /\ entry.group = want[a].group
  BY <1>1, <1>2, HitIsFresh DEF IInv
<1>4. view' = [view EXCEPT ![a] = [of |-> want[a].rows, group |-> want[a].group, objectsOf |-> a]]
  BY <1>2, <1>3 DEF Rebind
<1>5. want[a] \in Wants
  BY <1>1 DEF IInv, CacheInv, CacheTyped
<1>6. entry.fingerprint.base = want[a].base /\ Slots(want[a].base) # {}
      /\ \E j \in DOMAIN cache : entry = cache[j]
  BY <1>2, <1>5, IndexFacts DEF EntryOf, Slots, Wants
<1>7. IsCache(cache') /\ Fed /\ Len(cache') = Len(Without(want[a].base)) + 1
  BY <1>2, <1>3, <1>6, PutFacts DEF Fed, IInv, CacheInv
<1>8. Len(cache') <= CacheCap
  <2>1. Len(Without(want[a].base)) = Len(cache) - 1 /\ IsCache(Without(want[a].base))
    BY <1>6, WithoutFacts DEF IInv, CacheInv, CacheTyped
  <2>2. Len(cache) <= CacheCap /\ Len(cache) \in Nat /\ Len(Without(want[a].base)) \in Nat
    BY <2>1 DEF IInv, CacheInv, CacheTyped, IsCache
  <2> QED BY <1>7, <2>1, <2>2, CacheCapAssumption
<1>9. built' = [built EXCEPT ![a] = NoIndex]
  BY <1>1 DEF IInv, CacheInv, CacheTyped
<1>10. /\ Served' /\ view' \in [Askers -> Views \cup {NoIndex}]
       /\ built' \in [Askers -> Indexes \cup {NoIndex}] /\ want' \in [Askers -> Wants \cup {Nobody}]
  BY <1>1, <1>4, <1>9, GivenServes DEF IInv
<1>11. CacheTyped'
  BY <1>7, <1>8, <1>10 DEF CacheTyped
<1>12. \A x \in Askers \ {a} : view'[x] = view[x]
  BY <1>4 DEF IInv, CacheInv, CacheTyped
<1> QED BY <1>1, <1>4, <1>7, <1>10, <1>11, <1>12, IndexFrame

LEMMA MissKept ==
  ASSUME IInv, NEW a \in Askers, Miss(a), UNCHANGED <<ask, pc>>,
         UNCHANGED <<rows, left, state, nextId, pending>>, UNCHANGED settingVars
  PROVE  IInv' /\ UNCHANGED <<want, view>>
<1>1. /\ want[a] # Nobody /\ view[a] = NoIndex /\ UNCHANGED <<cache, want, view>>
      /\ built' = [built EXCEPT ![a] = IndexFor(want[a])]
  BY DEF Miss, Unserved, IndexFor
<1>2. want[a] \in Wants
  BY <1>1 DEF IInv, CacheInv, CacheTyped
<1>3. PICK index \in Indexes : index = IndexFor(want[a])
  BY <1>2, IndexFacts DEF IndexFor, Wants
<1>4. CacheTyped' /\ Fed
  BY <1>1, <1>3 DEF IInv, CacheInv, CacheTyped, Fed, IsCache, OnePerBase
<1>5. Served'
  BY <1>1, <1>3 DEF IInv, CacheInv, CacheTyped, Served
<1> QED BY <1>1, <1>4, <1>5, IndexFrame

LEMMA StoreKept ==
  ASSUME IInv, NEW a \in Askers, Store(a), UNCHANGED <<ask, pc>>,
         UNCHANGED <<rows, left, state, nextId, pending>>, UNCHANGED settingVars
  PROVE  /\ IInv' /\ UNCHANGED want /\ want[a] # Nobody /\ view[a] = NoIndex
         /\ view' = [view EXCEPT ![a] = [of |-> want[a].rows, group |-> want[a].group, objectsOf |-> a]]
<1>1. /\ built[a] # NoIndex /\ UNCHANGED want
      /\ cache' = Evicted(Append(Without(want[a].base), built[a]))
      /\ view' = [view EXCEPT ![a] = Rebind(built[a], a)]
      /\ built' = [built EXCEPT ![a] = NoIndex]
  BY DEF Store
<1>2. want[a] # Nobody /\ view[a] = NoIndex /\ built[a] = IndexFor(want[a])
  BY <1>1 DEF IInv, CacheInv, Served
<1>3. want[a] \in Wants
  BY <1>2 DEF IInv, CacheInv, CacheTyped
<1>4. /\ built[a] \in Indexes /\ built[a].of = want[a].rows /\ built[a].group = want[a].group
      /\ built[a].fingerprint.base = want[a].base
  BY <1>2, <1>3, IndexFacts DEF IndexFor, Wants
<1>5. view' = [view EXCEPT ![a] = [of |-> want[a].rows, group |-> want[a].group, objectsOf |-> a]]
  BY <1>1, <1>4 DEF Rebind
<1> DEFINE c == Append(Without(want[a].base), built[a])
<1>6. /\ IsCache(c)
      /\ \A i \in DOMAIN c : c[i] = built[a] \/ \E j \in DOMAIN cache : c[i] = cache[j]
  BY <1>4, PutFacts DEF IInv, CacheInv
<1>7. cache' = Evicted(c)
  BY <1>1
<1> HIDE DEF c
<1>8. IsCache(cache') /\ Within(cache', c) /\ Len(cache') <= CacheCap
  BY <1>6, <1>7, EvictedFacts
<1>9. Fed
  BY <1>2, <1>6, <1>8 DEF Within, Fed
<1>10. /\ Served' /\ view' \in [Askers -> Views \cup {NoIndex}]
       /\ built' \in [Askers -> Indexes \cup {NoIndex}] /\ want' \in [Askers -> Wants \cup {Nobody}]
  BY <1>1, <1>2, <1>5, GivenServes DEF IInv
<1>11. CacheTyped'
  BY <1>8, <1>10 DEF CacheTyped
<1>12. \A x \in Askers \ {a} : view'[x] = view[x]
  BY <1>5 DEF IInv, CacheInv, CacheTyped
<1> QED BY <1>1, <1>2, <1>5, <1>9, <1>10, <1>11, <1>12, IndexFrame

-----------------------------------------------------------------------------
(* The question's own steps.                                               *)

\* A step that moves one thread and leaves the bases, the cache and the settings.
LEMMA QuestionFrame ==
  ASSUME IInv, NEW a \in Askers, NEW q \in Questions \cup {Nobody}, NEW step \in Steps,
         ask' = [ask EXCEPT ![a] = q], pc' = [pc EXCEPT ![a] = step],
         q = Nobody <=> step \in {"idle", "away"},
         q # Nobody => Founded(q, step),
         UNCHANGED <<cache, built>>, UNCHANGED <<rows, left, state, nextId, pending>>,
         UNCHANGED settingVars, AsksLoaded,
         want' \in [Askers -> Wants \cup {Nobody}], view' \in [Askers -> Views \cup {NoIndex}],
         \A x \in Askers \ {a} : want'[x] = want[x] /\ view'[x] = view[x],
         built[a] # NoIndex => want'[a] = want[a] /\ view'[a] = view[a],
         view'[a] # NoIndex => want'[a] = want[a] /\ view'[a] = view[a],
         want'[a] # Nobody => /\ q # Nobody /\ Fits(q, want'[a])
                              /\ view'[a] # NoIndex \/ step = "indexing",
         step = "indexing" => want'[a] # Nobody,
         step = "embedding call" => want'[a] = Nobody,
         step \in {"grounded call"} \cup Citing /\ q.precise => view'[a] # NoIndex
  PROVE  IInv'
<1>1. BaseTyped' /\ BasesOK'
  BY DEF IInv, BaseTyped, BasesOK
<1>2. AskTyped'
  BY DEF IInv, AskTyped
<1>3. AsksOK'
  BY DEF IInv, AskTyped, AsksOK
<1>4. CacheTyped'
  BY DEF IInv, CacheInv, CacheTyped, IsCache, OnePerBase
<1>5. Served'
  <2> SUFFICES ASSUME NEW x \in Askers
               PROVE  /\ built[x] # NoIndex => want'[x] # Nobody /\ view'[x] = NoIndex /\ built[x] = IndexFor(want'[x])
                      /\ view'[x] # NoIndex => /\ want'[x] # Nobody
                           /\ view'[x] = [of |-> want'[x].rows, group |-> want'[x].group, objectsOf |-> x]
    BY DEF Served
  <2>1. /\ built[x] # NoIndex => want[x] # Nobody /\ view[x] = NoIndex /\ built[x] = IndexFor(want[x])
        /\ view[x] # NoIndex => /\ want[x] # Nobody
                          /\ view[x] = [of |-> want[x].rows, group |-> want[x].group, objectsOf |-> x]
    BY DEF IInv, CacheInv, Served
  <2>2. CASE x # a
    <3>1. want'[x] = want[x] /\ view'[x] = view[x]
      BY <2>2
    <3> QED BY <2>1, <3>1
  <2>3. CASE x = a
    <3>1. CASE built[a] # NoIndex \/ view'[a] # NoIndex
      <4>1. want'[a] = want[a] /\ view'[a] = view[a]
        BY <3>1
      <4> QED BY <2>1, <2>3, <4>1
    <3>2. CASE ~ (built[a] # NoIndex \/ view'[a] # NoIndex)
      BY <2>3, <3>2
    <3> QED BY <3>1, <3>2
  <2> QED BY <2>2, <2>3
<1>6. WantsOK'
  <2>1. \A x \in Askers \ {a} : ask'[x] = ask[x] /\ pc'[x] = pc[x]
    BY DEF IInv, AskTyped
  <2>2. ask'[a] = q /\ pc'[a] = step
    BY DEF IInv, AskTyped
  <2> SUFFICES ASSUME NEW x \in Askers
               PROVE  /\ want'[x] # Nobody => /\ ask'[x] # Nobody /\ Fits(ask'[x], want'[x])
                                              /\ view'[x] # NoIndex \/ pc'[x] = "indexing"
                      /\ pc'[x] = "indexing" => want'[x] # Nobody
                      /\ pc'[x] = "embedding call" => want'[x] = Nobody
                      /\ pc'[x] \in {"grounded call"} \cup Citing /\ ask'[x].precise => view'[x] # NoIndex
    BY DEF WantsOK, Fits
  <2>3. CASE x # a
    <3>1. want'[x] = want[x] /\ view'[x] = view[x] /\ ask'[x] = ask[x] /\ pc'[x] = pc[x]
      BY <2>1, <2>3
    <3>2. /\ want[x] # Nobody => /\ ask[x] # Nobody /\ Fits(ask[x], want[x])
                                 /\ view[x] # NoIndex \/ pc[x] = "indexing"
          /\ pc[x] = "indexing" => want[x] # Nobody
          /\ pc[x] = "embedding call" => want[x] = Nobody
          /\ pc[x] \in {"grounded call"} \cup Citing /\ ask[x].precise => view[x] # NoIndex
      BY DEF IInv, WantsOK
    <3> QED BY <3>1, <3>2
  <2>4. CASE x = a
    BY <2>2, <2>4
  <2> QED BY <2>3, <2>4
<1>7. Fed
  BY DEF Fed
<1>8. RowsGrow
  BY SameRowsGrow DEF IInv
<1>9. CorpusInv'
  BY <1>1, <1>4, <1>7, <1>8, CorpusKept DEF IInv, CacheInv
<1>10. SettingsInv'
  BY SettingsKept DEF IInv
<1> QED BY <1>1, <1>2, <1>3, <1>4, <1>5, <1>6, <1>9, <1>10 DEF IInv, CacheInv

LEMMA PlannedFacts ==
  ASSUME NEW q \in Questions, NEW step \in Planned(q),
         q.ready => q.left = 0, q.trace => q.precise, ~ q.trace => q.group = DefaultGroup
  PROVE  /\ step \in Steps \ ({"idle", "away", "grounded call"} \cup Citing)
         /\ Founded(q, step)
<1>1. /\ step \in {"embedding call", "indexing", "not ready", "no passages", "ranked", "guarded call",
                   "fixed wording"}
      /\ step \in {"embedding call", "indexing", "ranked"} => q.trace \/ (q.ready /\ q.rows # << >>)
      /\ step = "ranked" => ~ q.trace /\ ~ q.precise
      /\ step = "guarded call" => ~ q.trace /\ q.ready /\ q.on /\ q.llm
  BY DEF Planned, Considered, Searched, Retrieval, Guarded, MayUseModel
<1>2. step \in Steps \ ({"idle", "away", "grounded call"} \cup Citing)
  BY <1>1 DEF Steps, Replies, Citing
<1> QED BY <1>1, <1>2 DEF Founded

LEMMA JudgedFacts ==
  ASSUME NEW q \in Questions, NEW old \in {"ranked", "indexing"}, NEW step \in Judged(q),
         Founded(q, old)
  PROVE  /\ step \in Steps \ {"idle", "away", "embedding call", "indexing"}
         /\ Founded(q, step)
<1>1. /\ step \in {"trace", "guarded call", "fixed wording", "extract", "grounded call", "extract and note"}
      /\ step # "trace" => ~ q.trace
      /\ step \in {"guarded call", "grounded call"} => q.on /\ q.llm
  BY DEF Judged, Guarded, MayUseModel
<1>2. step \in Steps \ {"idle", "away", "embedding call", "indexing"} /\ step # "ranked"
  BY <1>1 DEF Steps, Replies, Citing
<1>3. /\ q.ready => q.left = 0
      /\ q.trace => q.precise
      /\ ~ q.trace => q.group = DefaultGroup
      /\ q.trace \/ q.ready
      /\ q.trace \/ q.rows # << >>
  BY DEF Founded
<1>4. step \in {"ranked", "guarded call", "grounded call"} \cup Citing => ~ q.trace
  BY <1>1 DEF Citing
<1> QED BY <1>1, <1>2, <1>3, <1>4 DEF Founded

QuestionOf(b, trace, precise, llm, g) ==
  [base |-> b, trace |-> trace, precise |-> precise, llm |-> llm, group |-> g,
   ready |-> state[b] = "ready", rows |-> rows[b], left |-> left[b],
   on |-> SynthesisOn(pref), key |-> ActiveCreds(creds) # {}]

LEMMA AskKept ==
  ASSUME IInv, NEW a \in Askers, Ask(a),
         UNCHANGED <<rows, left, state, nextId, pending>>, UNCHANGED settingVars
  PROVE  /\ IInv' /\ want[a] = Nobody /\ UNCHANGED view
         /\ want' = want \/ /\ want'[a] \in Wants /\ \A x \in Askers \ {a} : want'[x] = want[x]
<1>1. PICK b \in Bases, trace \in BOOLEAN, precise \in BOOLEAN, llm \in BOOLEAN, g \in Groups :
        /\ state[b] # "gone"
        /\ IF trace THEN precise /\ ~ llm ELSE g = DefaultGroup
        /\ ask' = [ask EXCEPT ![a] = QuestionOf(b, trace, precise, llm, g)]
        /\ \E step \in Planned(QuestionOf(b, trace, precise, llm, g)) :
             /\ pc' = [pc EXCEPT ![a] = step]
             /\ IF step = "indexing" THEN Want(a, b, rows[b], g) ELSE UNCHANGED cacheVars
  <2>1. PICK b \in {x \in Bases : state[x] # "gone"}, trace \in BOOLEAN, precise \in BOOLEAN,
             llm \in BOOLEAN, g \in Groups :
        /\ IF trace THEN precise /\ ~ llm ELSE g = DefaultGroup
        /\ ask' = [ask EXCEPT ![a] = QuestionOf(b, trace, precise, llm, g)]
        /\ \E step \in Planned(QuestionOf(b, trace, precise, llm, g)) :
             /\ pc' = [pc EXCEPT ![a] = step]
             /\ IF step = "indexing" THEN Want(a, b, rows[b], g) ELSE UNCHANGED cacheVars
    BY Zenon DEF Ask, QuestionOf
  <2>2. b \in Bases /\ state[b] # "gone"
    OBVIOUS
  <2> QED BY <2>1, <2>2
<1> DEFINE q == QuestionOf(b, trace, precise, llm, g)
<1>2. rows[b] \in Corpora /\ left[b] \in 0 .. Documents /\ (state[b] = "ready" => left[b] = 0)
  BY DEF IInv, BaseTyped, BasesOK
<1>3. SynthesisOn(pref) \in BOOLEAN
  BY DEF SynthesisOn
<1>4. q \in Questions
  BY <1>2, <1>3 DEF Questions, QuestionOf
<1>5. /\ q.ready => q.left = 0
      /\ q.trace => q.precise
      /\ ~ q.trace => q.group = DefaultGroup
      /\ q.base = b /\ q.rows = rows[b] /\ q.group = g
  BY <1>1, <1>2 DEF QuestionOf
<1>6. PICK step \in Planned(q) :
        /\ pc' = [pc EXCEPT ![a] = step]
        /\ IF step = "indexing" THEN Want(a, b, rows[b], g) ELSE UNCHANGED cacheVars
  BY <1>1
<1>7. ask' = [ask EXCEPT ![a] = q]
  BY <1>1
<1> HIDE DEF q
<1>8. /\ step \in Steps \ ({"idle", "away", "grounded call"} \cup Citing)
      /\ Founded(q, step) /\ q # Nobody
  BY <1>4, <1>5, <1>6, PlannedFacts, QuestionsAssumption
<1>9. want[a] = Nobody /\ view[a] = NoIndex /\ built[a] = NoIndex
  <2>1. ask[a] = Nobody
    BY DEF Ask, IInv, AskTyped
  <2>2. want[a] = Nobody
    BY <2>1 DEF IInv, WantsOK
  <2> QED BY <2>2 DEF IInv, CacheInv, Served
<1>10. UNCHANGED <<cache, built, view>>
  BY <1>6 DEF Want, cacheVars
<1>11. PICK w \in Wants : w = [base |-> b, rows |-> rows[b], group |-> g]
  BY <1>2 DEF Wants
<1>12. \/ step = "indexing" /\ want' = [want EXCEPT ![a] = w]
       \/ step # "indexing" /\ want' = want
  BY <1>6, <1>11 DEF Want, cacheVars
<1>13. want \in [Askers -> Wants \cup {Nobody}] /\ view \in [Askers -> Views \cup {NoIndex}] /\ Nobody \notin Wants
  BY NobodyAssumption DEF IInv, CacheInv, CacheTyped
<1>14. /\ want' \in [Askers -> Wants \cup {Nobody}] /\ view' \in [Askers -> Views \cup {NoIndex}]
       /\ \A x \in Askers \ {a} : want'[x] = want[x] /\ view'[x] = view[x]
       /\ want' = want \/ /\ want'[a] \in Wants /\ \A x \in Askers \ {a} : want'[x] = want[x]
  BY <1>10, <1>12, <1>13
<1>15. AsksLoaded
  BY <1>1, <1>4, <1>5, <1>7 DEF AsksLoaded, IInv, AskTyped
<1>16. /\ want'[a] # Nobody => step = "indexing" /\ want'[a] = w
       /\ step = "indexing" => want'[a] # Nobody
       /\ step = "embedding call" => want'[a] = Nobody
       /\ view'[a] = NoIndex
  BY <1>9, <1>10, <1>12, <1>13
<1>17. want'[a] # Nobody => Fits(q, want'[a])
  <2>1. Fits(q, w)
    BY <1>5, <1>11 DEF Fits
  <2> QED BY <1>16, <2>1
<1>18. step \notin {"grounded call"} \cup Citing /\ step \notin {"idle", "away"} /\ step \in Steps
  BY <1>8
<1>19. built[a] # NoIndex => want'[a] = want[a] /\ view'[a] = view[a]
  BY <1>9
<1>20. IInv'
  BY <1>4, <1>6, <1>7, <1>8, <1>10, <1>14, <1>15, <1>16, <1>17, <1>18, <1>19, QuestionFrame
<1> QED BY <1>9, <1>10, <1>14, <1>20

\* A step that moves the question on and leaves what it has.
LEMMA MoveKept ==
  ASSUME IInv, NEW a \in Askers, NEW q \in Questions, q = ask[a], NEW step \in Steps,
         pc' = [pc EXCEPT ![a] = step], UNCHANGED ask,
         step \notin {"idle", "away", "embedding call", "indexing"}, Founded(q, step),
         UNCHANGED <<cache, want, built, view>>,
         UNCHANGED <<rows, left, state, nextId, pending>>, UNCHANGED settingVars,
         view[a] # NoIndex \/ pc[a] # "indexing",
         step \in {"grounded call"} \cup Citing /\ q.precise => view[a] # NoIndex
  PROVE  IInv'
<1>1. ask' = [ask EXCEPT ![a] = q]
  BY DEF IInv, AskTyped
<1>2. q # Nobody
  BY QuestionsAssumption
<1>3. AsksLoaded
  BY DEF AsksLoaded
<1>4. want' \in [Askers -> Wants \cup {Nobody}] /\ view' \in [Askers -> Views \cup {NoIndex}]
  BY DEF IInv, CacheInv, CacheTyped
<1>5. want[a] # Nobody => Fits(q, want[a]) /\ (view[a] # NoIndex \/ pc[a] = "indexing")
  BY DEF IInv, WantsOK
<1> QED BY <1>1, <1>2, <1>3, <1>4, <1>5, QuestionFrame

\* After the embedding call the question goes on as it was read before it: the index
\* it now wants is over passages that base and cache may have moved past.
LEMMA EmbedKept ==
  ASSUME IInv, NEW a \in Askers, EmbedQuestion(a),
         UNCHANGED <<rows, left, state, nextId, pending>>, UNCHANGED settingVars
  PROVE  /\ IInv' /\ want[a] = Nobody /\ UNCHANGED view
         /\ want' = want \/ /\ want'[a] \in Wants /\ \A x \in Askers \ {a} : want'[x] = want[x]
<1>1. pc[a] = "embedding call" /\ UNCHANGED ask /\ UNCHANGED <<cache, built, view>>
  BY DEF EmbedQuestion, Want, cacheVars
<1>2. PICK q \in Questions : q = ask[a] /\ Founded(q, "embedding call")
  BY <1>1 DEF IInv, AskTyped, AsksOK
<1>3. want[a] = Nobody /\ view[a] = NoIndex /\ built[a] = NoIndex
  <2>1. want[a] = Nobody
    BY <1>1 DEF IInv, WantsOK
  <2> QED BY <2>1 DEF IInv, CacheInv, Served
<1>4. PICK w \in Wants : w = [base |-> q.base, rows |-> q.rows, group |-> q.group]
  BY DEF Wants, Questions
<1>5. PICK step : step = Retrieval(q) /\ pc' = [pc EXCEPT ![a] = step]
  BY <1>2 DEF EmbedQuestion
<1>6. step \in {"indexing", "ranked"} /\ (step = "indexing" <=> q.precise)
  BY <1>5 DEF Retrieval
<1>7. \/ step = "indexing" /\ want' = [want EXCEPT ![a] = w]
      \/ step = "ranked" /\ want' = want
  BY <1>2, <1>4, <1>6 DEF EmbedQuestion, Want, cacheVars
<1>8. step \in Steps /\ step \notin {"idle", "away", "embedding call", "grounded call"} \cup Citing
  BY <1>6 DEF Steps, Citing
<1>9. Founded(q, step)
  BY <1>2, <1>6, <1>8 DEF Founded
<1>10. want \in [Askers -> Wants \cup {Nobody}] /\ view \in [Askers -> Views \cup {NoIndex}] /\ Nobody \notin Wants
  BY NobodyAssumption DEF IInv, CacheInv, CacheTyped
<1>11. /\ want' \in [Askers -> Wants \cup {Nobody}] /\ view' \in [Askers -> Views \cup {NoIndex}]
       /\ \A x \in Askers \ {a} : want'[x] = want[x] /\ view'[x] = view[x]
       /\ want' = want \/ /\ want'[a] \in Wants /\ \A x \in Askers \ {a} : want'[x] = want[x]
  BY <1>1, <1>7, <1>10
<1>12. /\ want'[a] # Nobody => step = "indexing" /\ want'[a] = w
       /\ step = "indexing" => want'[a] # Nobody
       /\ view'[a] = NoIndex
  BY <1>1, <1>3, <1>6, <1>7, <1>10
<1>13. want'[a] # Nobody => Fits(q, want'[a])
  BY <1>4, <1>12 DEF Fits
<1>14. AsksLoaded /\ ask' = [ask EXCEPT ![a] = q] /\ q # Nobody
  BY <1>1, <1>2, QuestionsAssumption DEF AsksLoaded, IInv, AskTyped
<1>15. built[a] # NoIndex => want'[a] = want[a] /\ view'[a] = view[a]
  BY <1>3
<1>16. IInv'
  BY <1>1, <1>5, <1>8, <1>9, <1>11, <1>12, <1>13, <1>14, <1>15, QuestionFrame
<1> QED BY <1>1, <1>3, <1>11, <1>16

LEMMA JudgeKept ==
  ASSUME IInv, NEW a \in Askers, Judge(a),
         UNCHANGED <<rows, left, state, nextId, pending>>, UNCHANGED settingVars
  PROVE  IInv'
<1>1. /\ pc[a] \in {"ranked", "indexing"}
      /\ pc[a] = "ranked" \/ view[a] # NoIndex
      /\ UNCHANGED ask /\ UNCHANGED <<cache, want, built, view>>
  BY DEF Judge, cacheVars
<1>2. PICK q \in Questions : q = ask[a] /\ Founded(q, pc[a])
  BY <1>1 DEF IInv, AskTyped, AsksOK
<1>3. PICK step \in Judged(q) : pc' = [pc EXCEPT ![a] = step]
  BY <1>2 DEF Judge
<1>4. step \in Steps /\ step \notin {"idle", "away", "embedding call", "indexing"} /\ Founded(q, step)
  BY <1>1, <1>2, <1>3, JudgedFacts
<1>5. q.precise => view[a] # NoIndex
  BY <1>1, <1>2 DEF Founded
<1>6. view[a] # NoIndex \/ pc[a] # "indexing"
  BY <1>1
<1> QED BY <1>1, <1>2, <1>3, <1>4, <1>5, <1>6, MoveKept

LEMMA ModelKept ==
  ASSUME IInv, NEW a \in Askers, ModelAnswers(a) \/ ModelFails(a),
         UNCHANGED <<rows, left, state, nextId, pending>>, UNCHANGED settingVars
  PROVE  IInv'
<1>1. /\ pc[a] \in {"guarded call", "grounded call"}
      /\ UNCHANGED ask /\ UNCHANGED <<cache, want, built, view>>
  BY DEF ModelAnswers, ModelFails, cacheVars
<1>2. PICK q \in Questions : q = ask[a] /\ Founded(q, pc[a])
  BY <1>1 DEF IInv, AskTyped, AsksOK
<1>3. PICK step : /\ pc' = [pc EXCEPT ![a] = step]
                  /\ step \in {"guarded answer", "synthesis", "fixed wording", "extract and note"}
                  /\ step \in Citing => pc[a] = "grounded call"
  <2>1. CASE pc[a] = "guarded call"
    <3>1. \/ pc' = [pc EXCEPT ![a] = "guarded answer"]
          \/ pc' = [pc EXCEPT ![a] = "fixed wording"]
      BY <2>1 DEF ModelAnswers, ModelFails, IInv, AskTyped
    <3> QED BY <3>1 DEF Citing
  <2>2. CASE pc[a] = "grounded call"
    <3>1. \/ pc' = [pc EXCEPT ![a] = "synthesis"]
          \/ pc' = [pc EXCEPT ![a] = "extract and note"]
      BY <2>2 DEF ModelAnswers, ModelFails, IInv, AskTyped
    <3> QED BY <2>2, <3>1
  <2> QED BY <1>1, <2>1, <2>2
<1>4. step \in Steps /\ step \notin {"idle", "away", "embedding call", "indexing", "ranked",
                                     "guarded call", "grounded call"}
  BY <1>3 DEF Steps, Replies, Citing
<1>5. Founded(q, step)
  BY <1>1, <1>2, <1>3, <1>4 DEF Founded
<1>6. step \in {"grounded call"} \cup Citing /\ q.precise => view[a] # NoIndex
  BY <1>2, <1>3, <1>4 DEF IInv, WantsOK
<1>7. view[a] # NoIndex \/ pc[a] # "indexing"
  BY <1>1
<1> QED BY <1>1, <1>2, <1>3, <1>4, <1>5, <1>6, <1>7, MoveKept

LEMMA EndAskKept ==
  ASSUME IInv, NEW a \in Askers, EndAsk(a),
         UNCHANGED <<rows, left, state, nextId, pending>>, UNCHANGED settingVars
  PROVE  /\ IInv'
         /\ \/ UNCHANGED <<want, view>>
            \/ /\ view[a] # NoIndex /\ want' = [want EXCEPT ![a] = Nobody]
               /\ view' = [view EXCEPT ![a] = NoIndex]
<1>1. /\ pc[a] \in Replies /\ pc' = [pc EXCEPT ![a] = "idle"] /\ ask' = [ask EXCEPT ![a] = Nobody]
      /\ UNCHANGED <<cache, built>>
      /\ \/ view[a] = NoIndex /\ UNCHANGED <<want, view>>
         \/ /\ view[a] # NoIndex /\ want' = [want EXCEPT ![a] = Nobody]
            /\ view' = [view EXCEPT ![a] = NoIndex]
  BY DEF EndAsk, Release, cacheVars
<1>2. pc[a] # "indexing"
  BY <1>1 DEF Replies, Citing
<1>3. want[a] # Nobody => view[a] # NoIndex
  BY <1>2 DEF IInv, WantsOK
<1>4. want \in [Askers -> Wants \cup {Nobody}] /\ view \in [Askers -> Views \cup {NoIndex}]
  BY DEF IInv, CacheInv, CacheTyped
<1>5. /\ want' \in [Askers -> Wants \cup {Nobody}] /\ view' \in [Askers -> Views \cup {NoIndex}]
      /\ \A x \in Askers \ {a} : want'[x] = want[x] /\ view'[x] = view[x]
      /\ want'[a] = Nobody /\ view'[a] = NoIndex
  BY <1>1, <1>3, <1>4
<1>6. AsksLoaded
  BY <1>1 DEF AsksLoaded, IInv, AskTyped
<1>7. built[a] # NoIndex => want'[a] = want[a] /\ view'[a] = view[a]
  BY <1>3, <1>5 DEF IInv, CacheInv, Served
<1>8. "idle" \in Steps /\ "idle" \notin {"grounded call"} \cup Citing
  BY DEF Steps, Citing
<1>9. IInv'
  BY <1>1, <1>5, <1>6, <1>7, <1>8, QuestionFrame
<1> QED BY <1>1, <1>9

-----------------------------------------------------------------------------
(* Every step keeps the invariant.                                         *)

\* What a step does to what each thread asked for and was given.
AsksNow(a)   == /\ want[a] = Nobody /\ want'[a] \in Wants /\ UNCHANGED view
                /\ \A x \in Askers \ {a} : want'[x] = want[x]
GivesNow(a)  == /\ want[a] # Nobody /\ view[a] = NoIndex /\ UNCHANGED want
                /\ view' = [view EXCEPT ![a] = [of |-> want[a].rows, group |-> want[a].group, objectsOf |-> a]]
RetiresNow(a) == /\ view[a] # NoIndex /\ want' = [want EXCEPT ![a] = Nobody]
                 /\ view' = [view EXCEPT ![a] = NoIndex]
IndexMoves == \/ UNCHANGED <<want, view>>
              \/ \E a \in Askers : AsksNow(a) \/ GivesNow(a) \/ RetiresNow(a)

LEMMA NextKeeps ==
  ASSUME IInv, [Next]_vars
  PROVE  IInv' /\ IndexMoves
<1>1. CASE UNCHANGED vars
  <2>1. /\ UNCHANGED <<rows, left, state, nextId, pending>> /\ UNCHANGED <<ask, pc>>
        /\ UNCHANGED <<cache, want, built, view>> /\ UNCHANGED settingVars
    BY <1>1 DEF vars, baseVars, askVars, cacheVars
  <2>2. BaseTyped' /\ BasesOK'
    BY <2>1 DEF IInv, BaseTyped, BasesOK
  <2>3. CacheTyped' /\ Fed
    BY <2>1, SameCacheFacts DEF IInv, CacheInv
  <2>4. RowsGrow
    BY <2>1, SameRowsGrow DEF IInv
  <2> QED BY <2>1, <2>2, <2>3, <2>4, BaseFrame DEF IndexMoves
<1>2. CASE \E b \in Bases : BaseStep(b) /\ UNCHANGED <<askVars, settingVars>>
  <2>1. PICK b \in Bases : BaseStep(b) /\ UNCHANGED <<askVars, settingVars>>
    BY <1>2
  <2>2. UNCHANGED <<want, view>>
    BY <2>1 DEF BaseStep, FlushDocument, CommitDocument, Publish, BeginPurge, CommitPurge,
         Invalidate, cacheVars
  <2> QED BY <2>1, <2>2, BaseKept DEF IndexMoves
<1>3. ASSUME NEW a \in Askers, Ask(a) \/ QuestionStep(a) \/ IndexStep(a),
             UNCHANGED <<baseVars, settingVars>>
      PROVE  IInv' /\ IndexMoves
  <2>0. UNCHANGED <<rows, left, state, nextId, pending>> /\ UNCHANGED settingVars
    BY <1>3 DEF baseVars
  <2>1. CASE Ask(a)
    BY <2>0, <2>1, AskKept DEF IndexMoves, AsksNow
  <2>6. CASE EmbedQuestion(a)
    BY <2>0, <2>6, EmbedKept DEF IndexMoves, AsksNow
  <2>2. CASE Judge(a)
    BY <2>0, <2>2, JudgeKept DEF IndexMoves, Judge, cacheVars
  <2>3. CASE ModelAnswers(a) \/ ModelFails(a)
    BY <2>0, <2>3, ModelKept DEF IndexMoves, ModelAnswers, ModelFails, cacheVars
  <2>4. CASE EndAsk(a)
    BY <2>0, <2>4, EndAskKept DEF IndexMoves, RetiresNow
  <2>5. CASE IndexStep(a)
    <3>1. UNCHANGED <<ask, pc>> /\ (Hit(a) \/ Miss(a) \/ Store(a))
      BY <2>5 DEF IndexStep, GetIndex, askVars
    <3>2. CASE Hit(a)
      <4>1. want[a] # Nobody /\ view[a] = NoIndex /\ UNCHANGED want
        BY <3>2 DEF Hit, Unserved
      <4> QED BY <2>0, <3>1, <3>2, <4>1, HitKept DEF IndexMoves, GivesNow
    <3>3. CASE Miss(a)
      BY <2>0, <3>1, <3>3, MissKept DEF IndexMoves
    <3>4. CASE Store(a)
      BY <2>0, <3>1, <3>4, StoreKept DEF IndexMoves, GivesNow
    <3> QED BY <3>1, <3>2, <3>3, <3>4
  <2> QED BY <1>3, <2>1, <2>2, <2>3, <2>4, <2>5, <2>6 DEF QuestionStep
<1>4. CASE SettingsNext /\ UNCHANGED <<baseVars, askVars, cacheVars>>
  <2>1. /\ UNCHANGED <<rows, left, state, nextId, pending>> /\ UNCHANGED <<ask, pc>>
        /\ UNCHANGED <<cache, want, built, view>> /\ SettingsNext
    BY <1>4 DEF baseVars, askVars, cacheVars
  <2>2. BaseTyped' /\ BasesOK' /\ AskTyped' /\ AsksOK'
    BY <2>1 DEF IInv, BaseTyped, BasesOK, AskTyped, AsksOK
  <2>3. CacheTyped' /\ Fed
    BY <2>1, SameCacheFacts DEF IInv, CacheInv
  <2>4. Served' /\ WantsOK'
    BY <2>1 DEF IInv, CacheInv, Served, WantsOK
  <2>5. RowsGrow /\ AsksLoaded
    BY <2>1, SameRowsGrow DEF IInv, AsksLoaded
  <2>6. CorpusInv'
    BY <2>2, <2>3, <2>5, CorpusKept DEF IInv, CacheInv
  <2>7. SettingsInv'
    BY <2>1, SettingsKept DEF IInv
  <2> QED BY <2>1, <2>2, <2>3, <2>4, <2>6, <2>7 DEF IInv, CacheInv, IndexMoves
<1> QED BY <1>1, <1>2, <1>3, <1>4 DEF Next

\* The invariant holds in every reachable state.
LEMMA Invariance == Spec => []IInv
<1>1. Init => IInv
  BY InitInv
<1>2. IInv /\ [Next]_vars => IInv'
  BY NextKeeps
<1> QED BY <1>1, <1>2, PTL DEF Spec

-----------------------------------------------------------------------------
(* The theorems.                                                           *)

\* The variables keep their types, the cache its cap and one entry for a base, and
\* a thread holds an index only while it wants one.
THEOREM TypeCorrect == Spec => []TypeOK
<1>1. IInv => TypeOK
  <2> SUFFICES ASSUME IInv PROVE TypeOK
    OBVIOUS
  <2>1. \A b \in Bases : state[b] \in {"indexing", "ready", "gone"} /\ left[b] \in 0 .. Documents
    BY DEF IInv, BaseTyped
  <2>2. \A a \in Askers : /\ pc[a] \in Steps
                          /\ (ask[a] = Nobody) <=> (pc[a] \in {"idle", "away"})
                          /\ want[a] # Nobody => ask[a] # Nobody
    BY DEF IInv, AskTyped, WantsOK
  <2>3. Len(cache) \in 0 .. CacheCap
    BY CacheCapAssumption DEF IInv, CacheInv, CacheTyped, IsCache
  <2>4. \A i, j \in DOMAIN cache : cache[i].fingerprint.base = cache[j].fingerprint.base => i = j
    BY DEF IInv, CacheInv, CacheTyped, IsCache, OnePerBase
  <2>5. \A i \in DOMAIN cache : cache[i].fingerprint.base \in Bases /\ cache[i].group \in Groups
    BY EntryFacts DEF IInv, CacheInv, CacheTyped, IsCache
  <2>6. \A a \in Askers : (built[a] # NoIndex \/ view[a] # NoIndex) => want[a] # Nobody
    BY DEF IInv, CacheInv, Served
  <2>7. SettingsTypeOK
    BY SettingsInvTypes DEF IInv
  <2> QED BY <2>1, <2>2, <2>3, <2>4, <2>5, <2>6, <2>7 DEF TypeOK, CacheTypeOK
<1> QED BY <1>1, Invariance, PTL

\* The index a question was given is of the passages it read.
LEMMA ViewIsOfTheQuestion ==
  ASSUME IInv, NEW a \in Askers, view[a] # NoIndex
  PROVE  view[a].of = ask[a].rows /\ view[a].group = ask[a].group
<1>1. /\ want[a] # Nobody
      /\ view[a] = [of |-> want[a].rows, group |-> want[a].group, objectsOf |-> a]
  BY DEF IInv, CacheInv, Served
<1>2. ask[a].rows = want[a].rows /\ ask[a].group = want[a].group
  BY <1>1 DEF IInv, WantsOK, Fits
<1> QED BY <1>1, <1>2

\* A question that cites, or that has its passages written about, has the whole base
\* before it.
LEMMA TheWholeBase ==
  ASSUME IInv, NEW a \in Askers, pc[a] \in {"grounded call"} \cup Citing
  PROVE  HasTheWholeBase(a)
<1>1. ask[a] # Nobody /\ Founded(ask[a], pc[a])
  BY DEF IInv, AskTyped, AsksOK, Citing
<1>2. ask[a].left = 0 /\ ask[a].rows # << >> /\ ask[a].group = DefaultGroup
  BY <1>1 DEF Founded
<1>3. ask[a].precise => view[a] # NoIndex
  BY DEF IInv, WantsOK
<1> QED BY <1>2, <1>3, ViewIsOfTheQuestion DEF HasTheWholeBase

\* An answer that cites passages was drawn from the whole base, and in the
\* high-precision mode from an index over exactly the base's passages, however the
\* index came out of the cache and whatever happened while the question was being
\* embedded (src/rag/service.py:1004-1009, 2509-2546).
THEOREM WholeBaseIsCited == Spec => []CitesTheWholeBase
<1>1. IInv => CitesTheWholeBase
  BY TheWholeBase DEF CitesTheWholeBase
<1> QED BY <1>1, Invariance, PTL

\* A model that writes is sent passages only of a base the question has the whole of,
\* and is asked for anything only by a question that named one with the switch on.
\* The embedding call, which no switch stops, comes before and changes none of it
\* (src/rag/service.py:1011-1017, 1056-1069, 1140-1147).
THEOREM PassagesAreSentBySwitch == Spec => []PassagesLeaveBySwitch
<1>1. IInv => PassagesLeaveBySwitch
  <2> SUFFICES ASSUME IInv, NEW a \in Askers
               PROVE  /\ pc[a] \in {"guarded call", "grounded call"} =>
                            ask[a].llm /\ ask[a].on /\ ask[a].ready
                      /\ pc[a] = "grounded call" => HasTheWholeBase(a)
    BY DEF PassagesLeaveBySwitch
  <2>1. ASSUME pc[a] \in {"guarded call", "grounded call"}
        PROVE  ask[a].llm /\ ask[a].on /\ ask[a].ready
    <3>1. ask[a] # Nobody /\ Founded(ask[a], pc[a])
      BY <2>1 DEF IInv, AskTyped, AsksOK
    <3> QED BY <2>1, <3>1 DEF Founded
  <2>2. pc[a] = "grounded call" => HasTheWholeBase(a)
    BY TheWholeBase
  <2> QED BY <2>1, <2>2
<1> QED BY <1>1, Invariance, PTL

\* The switch and each parameter of a stored preference change only by the commit of
\* a request that sent that value (src/services/llm_provider.py:541-551).
THEOREM PreferencesMoveWhenSaid == Spec => SettingsMoveOnlyWhenSaid
<1> DEFINE Said == \/ pref' = pref \/ pref = NoRow
                   \/ \E r \in SettingReqs :
                        /\ At(r, "prefer") /\ req'[r] = NoRow
                        /\ pref'.on # pref.on => req[r].arg.on = pref'.on
                        /\ \A p \in Params : pref'.tuning[p] # pref.tuning[p] =>
                             req[r].arg.tuning # NotSent /\ req[r].arg.tuning[p] = pref'.tuning[p]
<1>1. IInv /\ [Next]_vars => [Said]_settingVars
  <2> SUFFICES ASSUME IInv, [Next]_vars PROVE [Said]_settingVars
    OBVIOUS
  <2>1. [SettingsNext]_settingVars
    BY DEF Next, vars, BaseStep
  <2> QED BY <2>1, PreferenceMoves DEF IInv
<1> QED BY <1>1, Invariance, PTL DEF Spec, SettingsMoveOnlyWhenSaid

\* Every step of the cache, under any interleaving of lookups, builds, late stores,
\* evictions and invalidations, is a step of FreshIndex or a stutter: an index is
\* given once to whoever asked, and is made from the passages and the group size it
\* asked with (src/rag/precision/index.py:225-254). That one is given in the end is
\* FreshIndex's fairness, checked by the run answering.
THEOREM IndexGivenIsFresh == Spec => Fresh!Init /\ [][Fresh!Next]_(Fresh!freshVars)
<1>1. Init => Fresh!Init
  BY DEF Init, CacheInit, Fresh!Init
<1>2. IInv /\ [Next]_vars => [Fresh!Next]_(Fresh!freshVars)
  <2> SUFFICES ASSUME IInv, IndexMoves PROVE [Fresh!Next]_(Fresh!freshVars)
    BY NextKeeps
  <2>0. /\ want \in [Askers -> Wants \cup {Nobody}] /\ view \in [Askers -> Views \cup {NoIndex}]
    BY DEF IInv, CacheInv, CacheTyped
  <2>1. CASE UNCHANGED <<want, view>>
    BY <2>1 DEF Fresh!freshVars
  <2>2. ASSUME NEW a \in Askers, AsksNow(a)
        PROVE  Fresh!Ask(a)
    BY <2>0, <2>2, NobodyAssumption DEF Fresh!Ask, AsksNow, Wants
  <2>3. ASSUME NEW a \in Askers, GivesNow(a)
        PROVE  Fresh!Give(a)
    <3> DEFINE asked == [x \in Askers |-> IF want[x] = Nobody THEN Nobody
                                          ELSE [rows |-> want[x].rows, group |-> want[x].group]]
    <3>1. /\ want[a] # Nobody /\ view[a] = NoIndex /\ want' = want
          /\ view' = [view EXCEPT ![a] = [of |-> want[a].rows, group |-> want[a].group, objectsOf |-> a]]
      BY <2>3 DEF GivesNow
    <3>2. want[a] \in Wants
      BY <2>0, <3>1
    <3>3. /\ asked[a].rows = want[a].rows /\ asked[a].group = want[a].group
          /\ asked[a] \in [rows : Corpora, group : Groups] /\ asked' = asked
      BY <3>1, <3>2 DEF Wants
    <3> HIDE DEF asked
    <3>4. asked[a] # Nobody
      BY <3>3, NobodyAssumption
    <3>5. view' = [view EXCEPT ![a] = [of |-> asked[a].rows, group |-> asked[a].group, objectsOf |-> a]]
      BY <3>1, <3>3
    <3> QED BY <3>1, <3>3, <3>4, <3>5, Zenon DEF Fresh!Give, Fresh!IndexFor, asked
  <2>4. ASSUME NEW a \in Askers, RetiresNow(a)
        PROVE  Fresh!Retire(a)
    BY <2>0, <2>4 DEF Fresh!Retire, RetiresNow
  <2> QED BY <2>1, <2>2, <2>3, <2>4 DEF IndexMoves, Fresh!Next
<1> QED BY <1>1, <1>2, Invariance, PTL DEF Spec
=============================================================================
