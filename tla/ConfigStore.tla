---------------------------- MODULE ConfigStore ----------------------------
(***************************************************************************)
(* The documents administrators edit, and the caches in front of them:      *)
(* tenant settings (tenant_service.py), policy templates                     *)
(* (policy_service.py), identity providers (federation_service.py) and OIDC  *)
(* clients (clients.py), with their routes.                                  *)
(*                                                                           *)
(* All of them are changed by reading the document, merging the fields the   *)
(* request provides and writing the whole document back, without a           *)
(* transaction or a version.  They differ in the cache: settings are cached  *)
(* for 60 seconds and never invalidated, the lists of templates and of       *)
(* providers are deleted from Redis after a write, clients are not cached.   *)
(*                                                                           *)
(* The value a request provides is the request's own name, so that a row     *)
(* tells whose value each field holds.  The model of a section of settings   *)
(* fills in its defaults for the fields the caller leaves out, and the route *)
(* passes all of it on (model_dump).                                         *)
(***************************************************************************)
EXTENDS Naturals, FiniteSets

CONSTANTS
    Host,       \* worker processes
    Request,    \* HTTP requests
    Settings, Template, Provider, Client,  \* documents of the four kinds
    Field,      \* the parts an update may provide separately
    Section,    \* the sections of settings, as sets of fields
    Tokens,     \* the section "tokens"
    Own,        \* the part handled on its own: the roles of a template, the column
                \* client_secret of a client
    Default,    \* the value of a field nobody has set
    NoDoc,      \* a document that is not there
    Miss        \* a Redis key that is not there

Doc == Settings \cup Template \cup Provider \cup Client
Listed == Template \cup Provider
Row == [Field -> Request \cup {Default}]

ASSUME ConfigAssumption ==
    /\ Own \in Field
    /\ Section \subseteq SUBSET Field /\ Tokens \in Section
    /\ Default \notin Request
    /\ NoDoc \notin Row \cup Doc
    /\ \A S \in SUBSET Doc : Miss \notin [S -> Row \cup {NoDoc}]
    /\ Settings \cap (Listed \cup Client) = {}
    /\ Listed \cap Client = {}
    /\ Template \cap Provider = {}

VARIABLES
    life,     \* "new": settings '{}' or a document not created yet, "live", "gone"
    row,      \* content of a live document
    cache,    \* Redis: one key per tenant's settings and one per list
    defaults, \* DEFAULT_SETTINGS["tokens"] of each process
    req,      \* the requests
    wanted,   \* the last value provided for each field
    padded,   \* fields for which a default was passed on since
    raced,    \* documents written from a snapshot that was out of date
    leaked,   \* settings first written by a process with changed defaults
    dirty     \* lists filled from an old SELECT, or whose DEL never happened

configVars == <<life, row, cache, defaults, req, wanted, padded, raced, leaked, dirty>>
ghostVars == <<wanted, padded, raced, leaked, dirty>>

\* The Redis keys: tenant_settings:<t>, policy_templates:<t>, fed_providers:<t>.
Key == {{s} : s \in Settings} \cup {Template, Provider}

Idle == [stage |-> "idle", doc |-> NoDoc, host |-> NoDoc, fields |-> {},
         resets |-> {}, key |-> {}, seen |-> NoDoc, list |-> NoDoc,
         stale |-> FALSE]

OwnDefaults == [f \in Tokens |-> Default]
DefaultRow(w) == [f \in Field |-> IF f \in Tokens THEN defaults[w][f] ELSE Default]

\* What a SELECT shows: settings nobody has written are the defaults of the
\* process that reads them (get_tenant_settings).
View(w, d) ==
    IF life[d] = "live" THEN row[d]
    ELSE IF d \in Settings THEN DefaultRow(w) ELSE NoDoc

ConfigInit ==
    /\ life = [d \in Doc |-> "new"]
    /\ row = [d \in Doc |-> [f \in Field |-> Default]]
    /\ cache = [k \in Key |-> Miss]
    /\ defaults = [w \in Host |-> OwnDefaults]
    /\ req = [r \in Request |-> Idle]
    /\ wanted = [d \in Doc |-> [f \in Field |-> Default]]
    /\ padded = [d \in Doc |-> {}]
    /\ raced = {}
    /\ leaked = {}
    /\ dirty = {}

\* The answer is sent; what the request was about stays on record.
Ended(q) == [Idle EXCEPT !.stage = "done", !.doc = q.doc, !.fields = q.fields,
                         !.resets = q.resets]

At(q, stage) == IF stage = "done" THEN Ended(q) ELSE [q EXCEPT !.stage = stage]
To(r, stage) == req' = [req EXCEPT ![r] = At(@, stage)]

\* The requests that have read d, or a list with d, and have not used it yet.
Holding(d) == {r \in Request : req[r].stage \in {"read", "write", "fill"}
                               /\ (req[r].doc = d \/ d \in req[r].key)}

\* A commit on d by r makes what the others hold out of date.
Commit(r, d, stage) ==
    req' = [q \in Request |->
              IF q = r THEN At(req[q], stage)
              ELSE IF q \in Holding(d) THEN [req[q] EXCEPT !.stale = TRUE]
              ELSE req[q]]

\* Mutant: no DEL after a write.
AfterWriteDone(d) == "done"

AfterWrite(d) == IF d \in Listed THEN "drop" ELSE "done"

-----------------------------------------------------------------------------
(* Reading through a cache: get_tenant_settings, get_tenant_policy_templates *)
(* and list_identity_providers.                                              *)

\* GET: a hit answers the request.
ListCached(r, w, k) ==
    /\ req[r].stage = "idle"
    /\ req' = [req EXCEPT ![r] = At([Idle EXCEPT !.host = w, !.key = k],
                                    IF cache[k] = Miss THEN "select" ELSE "done")]
    /\ UNCHANGED <<life, row, cache, defaults, ghostVars>>

SelectList(r) ==
    /\ req[r].stage = "select"
    /\ req' = [req EXCEPT ![r].stage = "fill",
                          ![r].list = [d \in req[r].key |-> View(req[r].host, d)]]
    /\ UNCHANGED <<life, row, cache, defaults, ghostVars>>

\* SETEX
FillCache(r) ==
    /\ req[r].stage = "fill"
    /\ cache' = [cache EXCEPT ![req[r].key] = req[r].list]
    /\ dirty' = IF req[r].stale THEN dirty \cup {req[r].key} ELSE dirty \ {req[r].key}
    /\ To(r, "done")
    /\ UNCHANGED <<life, row, defaults, wanted, padded, raced, leaked>>

\* The key's TTL.
Lapse(k) ==
    /\ cache[k] # Miss
    /\ cache' = [cache EXCEPT ![k] = Miss]
    /\ dirty' = dirty \ {k}
    /\ UNCHANGED <<life, row, defaults, req, wanted, padded, raced, leaked>>

-----------------------------------------------------------------------------
(* Updating.                                                                 *)

\* What one request provides, fs, and resets, rs.  Whole sections of settings are
\* passed on, with the model's defaults for what the caller leaves out; the other
\* routes pass on what the caller provides.  rotate-secret sets the secret of a
\* client, and its update everything else.
MayProvide(d, fs, rs) ==
    IF d \in Settings
    THEN fs \cap rs = {} /\ \E S \in SUBSET Section : S # {} /\ fs \cup rs = UNION S
    ELSE fs # {} /\ rs = {} /\ (d \in Client => fs = {Own} \/ Own \notin fs)

\* Requests that read the document before the service reads it again: PUT
\* settings/tokens, and a template update that provides any of its policies.
ReadsTwice(d, fs, rs) ==
    \/ d \in Template /\ fs # {Own}
    \/ d \in Settings /\ fs \cup rs = Tokens

\* A role that is not admin is refused before this.  PATCH settings with the
\* section tokens reads once, PUT settings/tokens twice.
StartUpdate(r, w, d, fs, rs) ==
    /\ req[r].stage = "idle"
    /\ d \in Settings \/ life[d] # "new"
    /\ MayProvide(d, fs, rs)
    /\ \E stage \in {"first", "fetch"} :
          /\ stage = "first" => ReadsTwice(d, fs, rs)
          /\ stage = "fetch" => ~ ReadsTwice(d, fs, rs) \/ d \in Settings
          /\ req' = [req EXCEPT ![r] = [Idle EXCEPT !.stage = stage, !.doc = d, !.host = w,
                                                    !.fields = fs, !.resets = rs]]
    /\ UNCHANGED <<life, row, cache, defaults, ghostVars>>

\* The first read.  update_token_settings() assigns into the dictionary it got,
\* which is DEFAULT_SETTINGS["tokens"] itself when the tenant has no settings.
ReadFirst(r) ==
    LET d == req[r].doc  w == req[r].host IN
    /\ req[r].stage = "first"
    /\ req' = [req EXCEPT ![r].stage = "read", ![r].seen = View(w, d)]
    /\ defaults' = IF d \in Settings /\ life[d] # "live"
                   THEN [defaults EXCEPT ![w] =
                            [f \in Tokens |-> IF f \in req[r].fields THEN r ELSE Default]]
                   ELSE defaults
    /\ UNCHANGED <<life, row, cache, ghostVars>>

\* Mutants: the request is merged into the cached document (redis_conn is passed
\* on), or a missing document is not noticed.
ReadAgainCached(r) ==
    LET d == req[r].doc
        hit == {k \in Key : d \in k /\ cache[k] # Miss /\ cache[k][d] # NoDoc}
    IN  /\ req[r].stage \in {"fetch", "read"}
        /\ View(req[r].host, d) # NoDoc
        /\ req' = [req EXCEPT ![r].stage = "write", ![r].stale = FALSE,
                     ![r].seen = IF hit = {} THEN View(req[r].host, d)
                                 ELSE cache[CHOOSE k \in hit : TRUE][d]]
        /\ UNCHANGED <<life, row, cache, defaults, ghostVars>>

ReadAgainUnchecked(r) ==
    /\ req[r].stage \in {"fetch", "read"}
    /\ req' = [req EXCEPT ![r].stage = "write", ![r].seen = View(req[r].host, req[r].doc)]
    /\ UNCHANGED <<life, row, cache, defaults, ghostVars>>

\* The read the service merges into.  A template keeps the policies the route
\* has merged into its own, earlier, read.
ReadAgain(r) ==
    LET d == req[r].doc  now == View(req[r].host, d) IN
    /\ req[r].stage \in {"fetch", "read"}
    /\ IF now = NoDoc
       THEN To(r, "done") /\ UNCHANGED leaked
       ELSE /\ req' = [req EXCEPT
                  ![r].stage = "write",
                  ![r].seen = IF d \in Template /\ req[r].stage = "read"
                              THEN [req[r].seen EXCEPT ![Own] = now[Own]] ELSE now,
                  ![r].stale = @ /\ d \in Template]
            /\ leaked' = IF life[d] # "live" /\ defaults[req[r].host] # OwnDefaults
                         THEN leaked \cup {d} ELSE leaked
    /\ UNCHANGED <<life, row, cache, defaults, wanted, padded, raced, dirty>>

\* The columns the UPDATE sets.
Sets(d, fs) ==
    IF d \in Client THEN IF fs = {Own} THEN {Own} ELSE Field \ {Own}
                    ELSE Field

\* Mutant: every column gets the request's value, provided or not.
WriteBackAll(r) ==
    LET d == req[r].doc IN
    /\ req[r].stage = "write"
    /\ Commit(r, d, AfterWrite(d))
    /\ row' = [row EXCEPT ![d] = [f \in Field |-> r]]
    /\ UNCHANGED <<life, cache, defaults, ghostVars>>

\* The whole document is written back; an UPDATE of a deleted row does nothing.
WriteBack(r) ==
    LET d == req[r].doc  fs == req[r].fields  rs == req[r].resets IN
    /\ req[r].stage = "write"
    /\ IF life[d] = "gone"
       THEN /\ To(r, AfterWrite(d))
            /\ UNCHANGED <<life, row, wanted, padded, raced>>
       ELSE /\ Commit(r, d, AfterWrite(d))
            /\ life' = [life EXCEPT ![d] = "live"]
            /\ row' = [row EXCEPT ![d] = [f \in Field |->
                          IF f \in fs THEN r
                          ELSE IF f \in rs THEN Default
                          ELSE IF f \in Sets(d, fs) THEN req[r].seen[f] ELSE row[d][f]]]
            /\ wanted' = [wanted EXCEPT ![d] = [f \in Field |->
                             IF f \in fs THEN r ELSE wanted[d][f]]]
            /\ padded' = [padded EXCEPT ![d] = (@ \ fs) \cup rs]
            /\ raced' = IF req[r].stale THEN raced \cup {d} ELSE raced
    /\ UNCHANGED <<cache, defaults, leaked, dirty>>

\* redis DEL of the list, the last statement of a write.
DropCache(r) ==
    /\ req[r].stage = "drop"
    /\ \E k \in Key :
          /\ req[r].doc \in k
          /\ cache' = [cache EXCEPT ![k] = Miss]
          /\ dirty' = dirty \ {k}
    /\ To(r, "done")
    /\ UNCHANGED <<life, row, defaults, wanted, padded, raced, leaked>>

\* INSERT of a template, a provider or a client under a new id.
Create(r, w, d) ==
    /\ req[r].stage = "idle"
    /\ d \notin Settings
    /\ life[d] = "new"
    /\ life' = [life EXCEPT ![d] = "live"]
    /\ row' = [row EXCEPT ![d] = [f \in Field |-> r]]
    /\ wanted' = [wanted EXCEPT ![d] = [f \in Field |-> r]]
    /\ req' = [q \in Request |->
                 IF q = r THEN [Idle EXCEPT !.stage = AfterWrite(d), !.doc = d,
                                            !.host = w, !.fields = Field]
                 ELSE IF q \in Holding(d) THEN [req[q] EXCEPT !.stale = TRUE]
                 ELSE req[q]]
    /\ UNCHANGED <<cache, defaults, padded, raced, leaked, dirty>>

\* DELETE.  A template or a client that is not there is a 404; deleting a
\* provider drops the list whether it was there or not.
Delete(r, w, d) ==
    /\ req[r].stage = "idle"
    /\ d \notin Settings
    /\ life[d] # "new"
    /\ life' = [life EXCEPT ![d] = "gone"]
    /\ req' = [q \in Request |->
                 IF q = r THEN [Idle EXCEPT !.doc = d, !.host = w,
                     !.stage = IF life[d] = "live" \/ d \in Provider
                               THEN AfterWrite(d) ELSE "done"]
                 ELSE IF q \in Holding(d) THEN [req[q] EXCEPT !.stale = TRUE]
                 ELSE req[q]]
    /\ UNCHANGED <<row, cache, defaults, ghostVars>>

\* A statement or a Redis command fails, or the client's connection and its task
\* end: what was committed stays, and the DEL after it does not happen.
Abandon(r) ==
    /\ req[r].stage \notin {"idle", "done"}
    /\ dirty' = IF req[r].stage = "drop"
                THEN dirty \cup {k \in Key : req[r].doc \in k} ELSE dirty
    /\ To(r, "done")
    /\ UNCHANGED <<life, row, cache, defaults, wanted, padded, raced, leaked>>

\* A process starts with the defaults of its source.
Restart(w) ==
    /\ defaults' = [defaults EXCEPT ![w] = OwnDefaults]
    /\ \A r \in Request : req[r].host = w => req[r].stage = "done"
    /\ UNCHANGED <<life, row, cache, req, ghostVars>>

-----------------------------------------------------------------------------
ConfigNext ==
    \/ \E r \in Request, w \in Host :
          \/ \E k \in Key : ListCached(r, w, k)
          \/ \E d \in Doc, fs, rs \in SUBSET Field : StartUpdate(r, w, d, fs, rs)
          \/ \E d \in Doc : Create(r, w, d) \/ Delete(r, w, d)
    \/ \E r \in Request :
          \/ SelectList(r) \/ FillCache(r) \/ ReadFirst(r) \/ ReadAgain(r)
          \/ WriteBack(r) \/ DropCache(r) \/ Abandon(r)
    \/ \E k \in Key : Lapse(k)
    \/ \E w \in Host : Restart(w)

ConfigSpec == ConfigInit /\ [][ConfigNext]_configVars
-----------------------------------------------------------------------------
(* Properties.                                                               *)

Stage == {"idle", "select", "fill", "first", "read", "fetch", "write", "drop", "done"}
Snapshot == Row \cup {NoDoc}

\* Every document, cached list and request has a value the code can give it; a
\* request that is to write holds a complete document.
ConfigTypeOK ==
    /\ life \in [Doc -> {"new", "live", "gone"}]
    /\ row \in [Doc -> Row]
    /\ \A k \in Key : cache[k] = Miss \/ cache[k] \in [k -> Snapshot]
    /\ defaults \in [Host -> [Tokens -> Request \cup {Default}]]
    /\ \A r \in Request :
          /\ req[r].stage \in Stage
          /\ req[r].seen \in Snapshot
          /\ req[r].stage = "write" => req[r].seen \in Row /\ req[r].doc \in Doc
          /\ req[r].stage = "fill" => req[r].list \in [req[r].key -> Snapshot]
    /\ wanted \in [Doc -> Row]
    /\ padded \in [Doc -> SUBSET Field]
    /\ raced \subseteq Doc
    /\ leaked \subseteq Settings
    /\ dirty \subseteq Key

\* What a row may hold in a field that nobody has changed since it was provided:
\* its default if a later update of its section left it out, and anything in the
\* section tokens of a tenant whose settings were first written by a process in
\* which PUT settings/tokens had changed the defaults.
Excused(d, f) ==
    \/ f \in padded[d] /\ row[d][f] = Default
    \/ d \in leaked /\ f \in Tokens

\* Updates keep what other updates asked for: in a document whose updates did not
\* overlap, every field holds what the last request that provided it asked for,
\* but for those two cases (update_tenant_settings, update_identity_provider,
\* update_client, update_tenant_policy_template).
FieldsKept ==
    \A d \in Doc, f \in Field :
        life[d] = "live" /\ d \notin raced => row[d][f] = wanted[d][f] \/ Excused(d, f)

\* "Supports partial updates - only provided fields will be updated"
\* (update_current_tenant_settings): without an overlap, and with the defaults of
\* the source, settings hold what was last provided for every field.
OnlyProvidedFieldsChange ==
    \A d \in Settings \ (raced \cup leaked) :
        life[d] = "live" => row[d] = wanted[d]

\* Even when updates overlap, a field never holds a value that was meant for
\* another field or another document, with one exception: a tenant may get the
\* token lifetimes another tenant asked for in PUT settings/tokens, and no other
\* section.
NoForeignValues ==
    \A d \in Doc, f \in Field, v \in Request :
        row[d][f] = v =>
            /\ f \in req[v].fields
            /\ \/ req[v].doc = d
               \/ /\ d \in leaked /\ req[v].doc \in Settings
                  /\ req[v].fields \cup req[v].resets = Tokens

Current(k) == \A d \in k : cache[k][d] = IF life[d] = "live" THEN row[d] ELSE NoDoc

Dropping(k) == \E r \in Request : req[r].stage = "drop" /\ req[r].doc \in k

\* The cached lists of templates and providers are current unless a writer is
\* between its statement and its DEL, died there, or a reader filled the key
\* with a SELECT older than the write (get_tenant_policy_templates,
\* list_identity_providers): DEL after the write closes every other window.
ListsCurrent ==
    \A k \in {Template, Provider} :
        cache[k] = Miss \/ Current(k) \/ Dropping(k) \/ k \in dirty

=============================================================================
