----------------------------- MODULE MCPlatform -----------------------------
(***************************************************************************)
(* Components that share no state, explored in one run: in a behaviour only *)
(* the audit pipeline moves, or only the documents of one kind, so that the  *)
(* state space is the sum of theirs and not the product.                     *)
(***************************************************************************)
EXTENDS AuditPipeline, ConfigStore

VARIABLE focus

platformVars == <<auditVars, configVars, focus>>

PlatformInit ==
    /\ AuditInit
    /\ ConfigInit
    /\ focus \in {{}, Settings, Template, Provider, Client}

\* Every request is about documents in focus.  It provides one section of settings,
\* or half of tokens, or the part handled on its own, the rest of the document, or both.
Provides(q) ==
    IF q.doc \in Settings
    THEN q.fields \cup q.resets \in Section /\ q.fields \in {{Own}} \cup Section
    ELSE q.fields \in {{}, {Own}, Field \ {Own}, Field}
InFocus ==
    \A r \in Request :
        req'[r].doc \in focus \cup {NoDoc} /\ req'[r].key \subseteq focus /\ Provides(req'[r])

\* Requests are interchangeable, and so are log entries and tenants: they are used
\* in one order only.
Nth(S) == CHOOSE f \in [1 .. Cardinality(S) -> S] : \A i, j \in DOMAIN f : f[i] = f[j] => i = j
InTurn(S, used) ==
    \A i \in 1 .. Cardinality(S), j \in 1 .. Cardinality(S) :
        i < j /\ Nth(S)[j] \in used => Nth(S)[i] \in used

PlatformNext ==
    /\ focus' = focus
    /\ \/ focus = {} /\ AuditNext /\ InTurn(Entry, logged') /\ UNCHANGED configVars
       \/ /\ focus # {} /\ ConfigNext /\ InFocus /\ UNCHANGED auditVars
          /\ InTurn(Request, {r \in Request : req'[r].stage # "idle"})
          /\ InTurn(Settings, {req'[r].doc : r \in Request})

PlatformSpec ==
    /\ PlatformInit
    /\ [][PlatformNext]_platformVars
    /\ AuditFairness

\* What the pipeline and the documents hold is what flushes, batches, caches and
\* statements can leave there: a flush is owned by the loop, publish() or stop(), and
\* a request holds fields of the document it is about.
PlatformTypeOK == AuditTypeOK /\ ConfigTypeOK
=============================================================================
