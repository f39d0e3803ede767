---------------------------- MODULE LlmSettings ----------------------------
(***************************************************************************)
(* One user's settings for one provider that needs a key: the stored       *)
(* credential, the model catalogue and the preference, src/services/       *)
(* llm_provider.py. A request reads when it begins, from the snapshot its  *)
(* session then holds, may spend a long time on the provider's network,    *)
(* and writes when it commits only the columns it changed, as SQLAlchemy   *)
(* does. Requests overlap freely.                                          *)
(***************************************************************************)
EXTENDS Naturals, FiniteSets

CONSTANTS SettingReqs,   \* requests that may be open at once
          CredIds,       \* ids of credential rows: bounds the rows ever inserted
          Keys,          \* api keys a user may paste
          Models, Seeds, \* model ids of the provider; those SEED_MODELS names
          Params,        \* the columns temperature, max_tokens and top_p
          Tunings,       \* values a user may give one of them
          MaxSettings,   \* bound on the requests begun
          NoRow

ASSUME SeedsAssumption    == Seeds \subseteq Models /\ Seeds # {}
ASSUME SettingsAssumption == MaxSettings \in Nat

VARIABLES creds,      \* [CredIds -> row]; a row removed stays, inactive
          catalogue,  \* [Models -> row]
          expired,    \* has the newest expires_at passed
          pref,       \* the user's preference row
          req,        \* the open requests
          begun       \* how many were begun, at most MaxSettings

settingVars == <<creds, catalogue, expired, pref, req, begun>>

Statuses == {"stored", "valid", "invalid", "refresh_failed"}
NotSent == NoRow
\* The generation parameters of a preference; "default" is a column that is NULL.
Tuning == [Params -> Tunings \cup {"default"}]
Untuned == [p \in Params |-> "default"]

\* A user who never opened the settings, or one who once picked a seeded model.
SettingsInit ==
  /\ creds = [c \in CredIds |-> NoRow]
  /\ \/ /\ pref = NoRow
        /\ catalogue = [m \in Models |-> NoRow]
     \/ /\ pref \in [model : Seeds, tuning : {Untuned}, on : {TRUE}]
        /\ catalogue = [m \in Models |-> IF m \in Seeds THEN [source |-> "seed", active |-> TRUE]
                                          ELSE NoRow]
  /\ expired = FALSE
  /\ req = [r \in SettingReqs |-> NoRow]
  /\ begun \in {0, MaxSettings}

\* get_active_credential reads the first active row, and nothing orders them.
ActiveCreds(rows) == {c \in CredIds : rows[c] # NoRow /\ rows[c].active}
SomeCred(rows) == IF ActiveCreds(rows) = {} THEN {NoRow} ELSE ActiveCreds(rows)

ActiveModels(rows) == {m \in Models : rows[m] # NoRow /\ rows[m].active}
WithSeeds(rows) == [m \in Models |-> IF rows[m] = NoRow /\ m \in Seeds
                                     THEN [source |-> "seed", active |-> TRUE] ELSE rows[m]]
\* Two sessions that insert the same row collide on its unique key, and the
\* second commit fails.
SeedsCollide(seen) == \E m \in Seeds : seen[m] = NoRow /\ catalogue[m] # NoRow

\* llm_synthesis_enabled: a user without a preference row has synthesis on.
SynthesisOn(row) == row = NoRow \/ row.on

BeginRequest(r, kind, extra) ==
  /\ req[r] = NoRow /\ begun < MaxSettings
  /\ \E c \in SomeCred(creds) :
       req' = [req EXCEPT ![r] = [kind |-> kind, cred |-> c, sawPref |-> pref,
                                  sawCatalogue |-> catalogue, arg |-> extra]]
  /\ begun' = begun + 1
  /\ UNCHANGED <<creds, catalogue, expired, pref>>

At(r, kind) == req[r] # NoRow /\ req[r].kind = kind
Done(r) == req' = [req EXCEPT ![r] = NoRow] /\ UNCHANGED begun
\* An error raised, or the request's process gone, before the commit.
Rollback(r) == req[r] # NoRow /\ Done(r) /\ UNCHANGED <<creds, catalogue, expired, pref>>

\* refresh_provider_models: what the commit makes of the catalogue the request
\* read before it went to the provider. Only columns that differ from that
\* reading are written.
Refreshed(seen, fetched) ==
  [m \in Models |->
     CASE m \in fetched -> IF seen[m] # NoRow /\ seen[m].active /\ catalogue[m] # NoRow
                           THEN [source |-> "provider_api", active |-> catalogue[m].active]
                           ELSE [source |-> "provider_api", active |-> TRUE]
       [] m \notin fetched /\ seen[m] # NoRow /\ seen[m].source = "provider_api" /\ seen[m].active
                        -> [catalogue[m] EXCEPT !.active = FALSE]
       [] OTHER -> catalogue[m]]
RefreshCollides(seen, fetched) == \E m \in fetched : seen[m] = NoRow /\ catalogue[m] # NoRow
\* The non-empty lists a provider may answer with.
Listings == SUBSET Models \ {{}}

BeginSaveKey(r) == \E k \in Keys, refresh \in BOOLEAN :
                     BeginRequest(r, "save", [key |-> k, refresh |-> refresh])
\* upsert_provider_credential. The row is flushed before the provider is asked,
\* and its key, its status and the refreshed catalogue are committed together:
\* a provider that refuses costs the refresh and not the key.
CommitSaveKey(r) ==
  /\ At(r, "save")
  /\ \E c \in IF req[r].cred = NoRow THEN {x \in CredIds : creds[x] = NoRow} ELSE {req[r].cred} :
     LET saved(status) == [key |-> req[r].arg.key, status |-> status,
                           active |-> req[r].cred = NoRow \/ creds[c].active]
     IN \/ /\ ~ req[r].arg.refresh
           /\ creds' = [creds EXCEPT ![c] = saved("stored")]
           /\ UNCHANGED <<catalogue, expired>>
        \/ /\ req[r].arg.refresh
           /\ creds' = [creds EXCEPT ![c] = saved("refresh_failed")]
           /\ UNCHANGED <<catalogue, expired>>
        \/ /\ req[r].arg.refresh
           /\ \E fetched \in Listings :
                /\ ~ RefreshCollides(req[r].sawCatalogue, fetched)
                /\ catalogue' = Refreshed(req[r].sawCatalogue, fetched)
           /\ creds' = [creds EXCEPT ![c] = saved("valid")]
           /\ expired' = FALSE
  /\ Done(r) /\ UNCHANGED pref

BeginRemoveKey(r) == ActiveCreds(creds) # {} /\ BeginRequest(r, "remove", NoRow)
CommitRemoveKey(r) ==
  /\ At(r, "remove")
  /\ creds' = [creds EXCEPT ![req[r].cred].active = FALSE]
  /\ Done(r) /\ UNCHANGED <<catalogue, expired, pref>>

BeginTestKey(r) == ActiveCreds(creds) # {} /\ BeginRequest(r, "test", NoRow)
\* The outcome is recorded on the row, whose key may have been replaced since it
\* was read and tried.
CommitTestKey(r) ==
  /\ At(r, "test")
  /\ \E status \in {"valid", "invalid"} : creds' = [creds EXCEPT ![req[r].cred].status = status]
  /\ Done(r) /\ UNCHANGED <<catalogue, expired, pref>>

BeginListModels(r) == \E force \in BOOLEAN : BeginRequest(r, "list", force)
\* list_models_for_provider seeds and commits, then goes on in a new snapshot to
\* refresh a catalogue that is empty, expired or asked to be refreshed.
SeedCatalogue(r) ==
  /\ At(r, "list")
  /\ ~ SeedsCollide(req[r].sawCatalogue)
  /\ LET seeded == IF \E m \in Seeds : req[r].sawCatalogue[m] = NoRow
                   THEN WithSeeds(catalogue) ELSE catalogue
         due == req[r].arg \/ expired \/ ActiveModels(seeded) = {}
     IN /\ catalogue' = seeded
        /\ \E c \in SomeCred(creds) :
             req' = [req EXCEPT ![r] = IF due /\ c # NoRow
                                       THEN [@ EXCEPT !.kind = "refresh", !.cred = c,
                                                      !.sawCatalogue = seeded]
                                       ELSE NoRow]
  /\ UNCHANGED <<creds, expired, pref, begun>>

BeginRefresh(r) == ActiveCreds(creds) # {} /\ BeginRequest(r, "refresh", FALSE)
CommitRefresh(r) ==
  /\ At(r, "refresh")
  /\ \E fetched \in Listings :
       /\ ~ RefreshCollides(req[r].sawCatalogue, fetched)
       /\ catalogue' = Refreshed(req[r].sawCatalogue, fetched)
  /\ expired' = FALSE
  /\ Done(r) /\ UNCHANGED <<creds, pref>>

\* refresh_due_model_catalogs, the background loop, for one credential.
BeginDue(r) == /\ ActiveCreds(creds) # {} /\ (expired \/ ActiveModels(catalogue) = {})
               /\ BeginRequest(r, "due", NoRow)
CommitDue(r) ==
  /\ At(r, "due")
  /\ \/ /\ \E fetched \in Listings :
             /\ ~ RefreshCollides(req[r].sawCatalogue, fetched)
             /\ catalogue' = Refreshed(req[r].sawCatalogue, fetched)
        /\ creds' = [creds EXCEPT ![req[r].cred].status = "valid"]
        /\ expired' = FALSE
     \/ /\ creds' = [creds EXCEPT ![req[r].cred].status = "refresh_failed"]
        /\ UNCHANGED <<catalogue, expired>>
  /\ Done(r) /\ UNCHANGED pref

\* set_user_preference refuses a model the seeded catalogue does not offer. A
\* request that names any of the parameters sends them all: those it leaves out
\* arrive as None.
BeginPrefer(r) ==
  \E m \in ActiveModels(WithSeeds(catalogue)), t \in Tuning \cup {NotSent},
     on \in BOOLEAN \cup {NotSent} :
       BeginRequest(r, "prefer", [model |-> m, tuning |-> t, on |-> on])

\* The row the request has in memory once it has set what was sent: a model saved
\* alone leaves the tuning and the switch.
PreferenceSet(seen, sent) ==
  LET old == IF seen = NoRow THEN [model |-> sent.model, tuning |-> Untuned, on |-> TRUE] ELSE seen
  IN [model  |-> sent.model,
      tuning |-> IF sent.tuning = NotSent THEN old.tuning ELSE sent.tuning,
      on     |-> IF sent.on = NotSent THEN old.on ELSE sent.on]

\* The whole row is written back, columns the request never touched included.
WholeRow(seen, new, now) == new

\* A column is written only where the request's row differs from what it read.
Column(seen, new, now) == IF new = seen THEN now ELSE new
Written(seen, new, now) ==
  IF seen = NoRow THEN new
  ELSE [model  |-> Column(seen.model, new.model, now.model),
        tuning |-> [p \in Params |-> Column(seen.tuning[p], new.tuning[p], now.tuning[p])],
        on     |-> Column(seen.on, new.on, now.on)]

CommitPrefer(r) ==
  /\ At(r, "prefer")
  /\ ~ SeedsCollide(req[r].sawCatalogue)
  /\ req[r].sawPref = NoRow => pref = NoRow
  /\ pref' = Written(req[r].sawPref, PreferenceSet(req[r].sawPref, req[r].arg), pref)
  /\ catalogue' = IF \E m \in Seeds : req[r].sawCatalogue[m] = NoRow
                  THEN WithSeeds(catalogue) ELSE catalogue
  /\ Done(r) /\ UNCHANGED <<creds, expired>>

Expire == /\ ~ expired /\ ActiveModels(catalogue) # {}
          /\ expired' = TRUE
          /\ UNCHANGED <<creds, catalogue, pref, req, begun>>

SettingStep(r) ==
  \/ BeginSaveKey(r) \/ CommitSaveKey(r) \/ BeginRemoveKey(r) \/ CommitRemoveKey(r)
  \/ BeginTestKey(r) \/ CommitTestKey(r) \/ BeginListModels(r) \/ SeedCatalogue(r)
  \/ BeginRefresh(r) \/ CommitRefresh(r) \/ BeginDue(r) \/ CommitDue(r)
  \/ BeginPrefer(r) \/ CommitPrefer(r) \/ Rollback(r)

SettingsNext == Expire \/ \E r \in SettingReqs : SettingStep(r)

SettingsTypeOK ==
  /\ \A c \in CredIds : creds[c] = NoRow
        \/ creds[c] \in [key : Keys, status : Statuses, active : BOOLEAN]
  /\ \A m \in Models : catalogue[m] = NoRow
        \/ catalogue[m] \in [source : {"seed", "provider_api"}, active : BOOLEAN]
  /\ pref = NoRow \/ pref \in [model : Models, tuning : Tuning, on : BOOLEAN]
  /\ expired \in BOOLEAN /\ begun \in 0 .. MaxSettings

-----------------------------------------------------------------------------
\* Synthesis is switched, and a parameter set or cleared, only by a request that
\* sent that value: a model picked from the drop-down, committed after another
\* request changed the row it had read, puts nothing back
\* (src/services/llm_provider.py:541-551). One that names only some parameters
\* sends the others as None (src/controllers/llm_controller.py:89-99).
SettingsMoveOnlyWhenSaid ==
  [][pref' = pref \/ pref = NoRow \/
     \E r \in SettingReqs :
        /\ At(r, "prefer") /\ req'[r] = NoRow
        /\ pref'.on # pref.on => req[r].arg.on = pref'.on
        /\ \A p \in Params : pref'.tuning[p] # pref.tuning[p] =>
             req[r].arg.tuning # NotSent /\ req[r].arg.tuning[p] = pref'.tuning[p]]_settingVars
=============================================================================
