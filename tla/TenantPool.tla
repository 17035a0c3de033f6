----------------------------- MODULE TenantPool -----------------------------
(***************************************************************************)
(* The connections of a worker's pool and the tenant that row-level         *)
(* security reads from them (database/__init__.py).                          *)
(*                                                                           *)
(* get_database_pool() finds the tenant of a request, in its header or       *)
(* through its client, acquires a connection, sets app.tenant_id on it for   *)
(* the session, lends it to the handler, and clears it when the handler has  *)
(* returned: an exception of the handler is raised at the yield and passes   *)
(* the statement that clears.  What puts the session back in order then is   *)
(* the pool, which resets a connection before it takes it back.              *)
(***************************************************************************)
CONSTANTS
    Conn,      \* connections of the pool
    Owner,     \* tenants
    Http,      \* requests
    Nobody     \* no tenant, no request

ASSUME PoolAssumption == Conn # {} /\ Nobody \notin Owner \cup Http

VARIABLES
    setting,   \* app.tenant_id of each connection
    serves,    \* the request that has acquired it
    http       \* stage and tenant of each request

poolVars == <<setting, serves, http>>

Fresh == [stage |-> "new", tenant |-> Nobody]

PoolInit ==
    /\ setting = [c \in Conn |-> Nobody]
    /\ serves = [c \in Conn |-> Nobody]
    /\ http = [r \in Http |-> Fresh]

Goes(r, stage) == http' = [http EXCEPT ![r].stage = stage]

Lend(r, c) ==
    /\ serves[c] = Nobody
    /\ serves' = [serves EXCEPT ![c] = r]
    /\ UNCHANGED setting

Return(r) == serves' = [c \in Conn |-> IF serves[c] = r THEN Nobody ELSE serves[c]]
Unset(r) == setting' = [c \in Conn |-> IF serves[c] = r THEN Nobody ELSE setting[c]]

\* Mutant: the connection goes back as it is.
GiveBackAsIs(r) ==
    /\ Return(r)
    /\ UNCHANGED setting

\* The end of "async with acquire()": the pool resets the session (RESET ALL),
\* or replaces a connection it cannot reset.
GiveBack(r) ==
    /\ Return(r)
    /\ Unset(r)

\* The header names the tenant, or else the query or the form names a client;
\* without either the request is refused.
Arrive(r) ==
    /\ http[r] = Fresh
    /\ \/ \E t \in Owner : http' = [http EXCEPT ![r] = [stage |-> "wait", tenant |-> t]]
       \/ Goes(r, "ask")
       \/ Goes(r, "done")
    /\ UNCHANGED <<setting, serves>>

\* A connection without a tenant, for the lookup only.
TakeForLookup(r, c) ==
    /\ http[r].stage = "ask"
    /\ Lend(r, c)
    /\ Goes(r, "lookup")

\* Mutant: the handler's connection is acquired inside the lookup's block.
LookUpKeeps(r) ==
    /\ http[r].stage = "lookup"
    /\ \E t \in Owner : http' = [http EXCEPT ![r] = [stage |-> "wait", tenant |-> t]]
    /\ UNCHANGED <<setting, serves>>

\* SELECT tenant_id FROM oidc_clients; an unknown client is refused.
LookUp(r) ==
    /\ http[r].stage = "lookup"
    /\ GiveBack(r)
    /\ \/ \E t \in Owner : http' = [http EXCEPT ![r] = [stage |-> "wait", tenant |-> t]]
       \/ Goes(r, "done")

TakeForHandler(r, c) ==
    /\ http[r].stage = "wait"
    /\ Lend(r, c)
    /\ Goes(r, "set")

\* set_config('app.tenant_id', tenant_id, false)
SetTenant(r) ==
    /\ http[r].stage = "set"
    /\ setting' = [c \in Conn |-> IF serves[c] = r THEN http[r].tenant ELSE setting[c]]
    /\ Goes(r, "run")
    /\ UNCHANGED serves

\* The handler returns.
Respond(r) ==
    /\ http[r].stage = "run"
    /\ Goes(r, "clear")
    /\ UNCHANGED <<setting, serves>>

\* set_config('app.tenant_id', '', false), and the end of the block.
Clear(r) ==
    /\ http[r].stage = "clear"
    /\ Unset(r)
    /\ Return(r)
    /\ Goes(r, "done")

\* A statement or the handler raises, or the request is cancelled.
Raise(r) ==
    /\ http[r].stage \notin {"new", "done"}
    /\ GiveBack(r)
    /\ Goes(r, "done")

PoolNext ==
    \E r \in Http :
        \/ Arrive(r) \/ LookUp(r) \/ SetTenant(r) \/ Respond(r) \/ Clear(r) \/ Raise(r)
        \/ \E c \in Conn : TakeForLookup(r, c) \/ TakeForHandler(r, c)

PoolSpec == PoolInit /\ [][PoolNext]_poolVars
-----------------------------------------------------------------------------
(* Properties.                                                               *)

Held(r) == {c \in Conn : serves[c] = r}

\* Connections and requests hold values the code can give them; a request has a
\* connection exactly while it is between acquire() and the end of the block.
PoolTypeOK ==
    /\ setting \in [Conn -> Owner \cup {Nobody}]
    /\ serves \in [Conn -> Http \cup {Nobody}]
    /\ http \in [Http -> [stage : {"new", "ask", "lookup", "wait", "set", "run", "clear", "done"},
                          tenant : Owner \cup {Nobody}]]
    /\ \A r \in Http :
          Held(r) # {} <=> http[r].stage \in {"lookup", "set", "run", "clear"}

\* Whatever handlers raise and in whatever order connections are passed on, the
\* statements of a handler run under its request's tenant, and the statements
\* before it (the lookup of a client, set_config) under none: no setting stays on
\* a connection (get_database_pool).
OwnTenantOnly ==
    \A c \in Conn :
        setting[c] = IF \E r \in Http : serves[c] = r /\ http[r].stage \in {"run", "clear"}
                     THEN http[serves[c]].tenant ELSE Nobody

\* With more requests than connections nobody waits for ever: while a request
\* waits a connection is free, or lent to a request that waits for none and gives
\* it back when its statements are answered (get_database_pool).
WaitersAreServed ==
    (\E r \in Http : http[r].stage \in {"ask", "wait"}) =>
        \E c \in Conn : \A r \in Http : serves[c] = r => http[r].stage \notin {"ask", "wait"}

=============================================================================
