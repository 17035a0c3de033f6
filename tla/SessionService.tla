-------------------------- MODULE SessionService --------------------------
(***************************************************************************)
(* The session registry of app/services/session_service.py, as the routes   *)
(* of app/api/v1/auth.py, app/core/auth.py and the OIDC logout endpoint use *)
(* it.  A session is a row of user_sessions, named by the jti of its token; *)
(* a token is accepted by a worker as long as that worker's Bloom filter    *)
(* does not hold the jti, whatever the row says.  So a revocation is two    *)
(* writes, the row and the revocation manager, in a request that runs over  *)
(* several awaits without a transaction.                                    *)
(*                                                                          *)
(* The revocation manager is used through what it promises: the variables   *)
(* and steps of RevocationService, which TokenRevocation implements.        *)
(***************************************************************************)
EXTENDS RevocationService, Integers, FiniteSets

CONSTANTS
    Request,   \* slots for concurrent requests
    Owner,     \* Owner[j]: the user a token is issued to
    TenantOf,  \* TenantOf[u]: the tenant of a user
    Admin,     \* users whose role is in ADMIN_ROLES
    Ops,       \* which kinds of request are exercised
    Untracked, \* are tokens also issued without a session?
    Faults,    \* may a SQL statement, or the XADD of a revocation, fail?
    MaxTasks,  \* bound: requests ever started
    MaxStops   \* bound: workers stopped

User == {Owner[j] : j \in Jti}

ASSUME OwnerAssumption  == Owner \in [Jti -> User]
ASSUME AdminAssumption  == Admin \subseteq User
ASSUME OpsAssumption    == Ops \subseteq {"logout", "single", "bulk", "all"}
ASSUME UntrackedAssumption == Untracked \in BOOLEAN
ASSUME FaultsAssumption == Faults \in BOOLEAN
ASSUME TaskBoundsAssumption == MaxTasks \in Nat /\ MaxStops \in Nat

VARIABLES
    row,      \* row[j]: "none" (no token yet), "untracked" (a token without a row),
              \* "active" or "revoked" (revoked_at is set)
    task,     \* task[r]: the revoking request that runs in slot r
    dropped,  \* history: jtis whose revocation failed, or died with its worker
    swept,    \* history: jtis that an UPDATE marked and the SELECT before it had not seen
    tasks,    \* history: requests started
    stops     \* history: workers stopped

sessionVars == <<row, task, dropped, swept, tasks, stops>>
allVars == <<serviceVars, sessionVars>>

-----------------------------------------------------------------------------
NoTask == [op |-> "none"]

\* scope: what the WHERE clauses match, revoked rows aside; sel: what the
\* SELECT returned; todo: what is still to be passed to revoke_token(); cur: the
\* jti of the revoke_token() that is running.
Task ==
    [op : {"logout", "single", "bulk", "all"}, at : {"select", "update", "revoke", "await"},
     worker : Worker, scope : SUBSET Jti, sel : SUBSET Jti, todo : SUBSET Jti,
     cur : SUBSET Jti]

SessionsOf(u) == {j \in Jti : Owner[j] = u}
SessionsIn(t) == {j \in Jti : TenantOf[Owner[j]] = t}
Rows(state)   == {j \in Jti : row[j] = state}

\* The middleware: a request is let in with any token that was issued and is
\* not in the worker's own Bloom filter.
Accepts(w, j) == w \in open /\ row[j] # "none" /\ j \notin known[w]

SessionInit ==
    /\ ServiceInit
    /\ row = [j \in Jti |-> "none"]
    /\ task = [r \in Request |-> NoTask]
    /\ dropped = {}
    /\ swept = {}
    /\ tasks = 0
    /\ stops = 0

-----------------------------------------------------------------------------
\* authenticate(): the token is signed, then create_session() inserts its row.
CreateSession(w, j) ==
    /\ w \in open
    /\ row[j] = "none"
    /\ row' = [row EXCEPT ![j] = "active"]
    /\ UNCHANGED <<serviceVars, task, dropped, swept, tasks, stops>>

\* refresh() and the OIDC token endpoint sign access tokens and insert no row.
IssueUntracked(w, j) ==
    /\ Untracked
    /\ w \in open
    /\ row[j] = "none"
    /\ row' = [row EXCEPT ![j] = "untracked"]
    /\ UNCHANGED <<serviceVars, task, dropped, swept, tasks, stops>>

\* The request in slot r goes on as t, or ends.
Goto(r, t) == task' = [task EXCEPT ![r] = t]

\* A route has checked its caller and calls the session service.
Begin(r, w, op, first, scope) ==
    /\ op \in Ops
    /\ task[r] = NoTask
    /\ tasks < MaxTasks
    /\ Goto(r, [op |-> op, at |-> first, worker |-> w, scope |-> scope,
                sel |-> {}, todo |-> {}, cur |-> {}])
    /\ tasks' = tasks + 1
    /\ UNCHANGED <<serviceVars, row, dropped, swept, stops>>

\* logout(): revoke_session() with the caller's own jti.
Logout(r, w, c) ==
    /\ Accepts(w, c)
    /\ Begin(r, w, "logout", "update", {c})

\* DELETE /sessions/{jti}: revoke_session() with one of the caller's sessions.
RevokeSession(r, w, c, j) ==
    /\ Accepts(w, c)
    /\ Begin(r, w, "single", "update", {j} \cap SessionsOf(Owner[c]))

\* admin_revoke_session(): any session of the tenant.  No route calls it yet;
\* the role is the one the other admin routes ask for.
AdminRevokeSession(r, w, c, j) ==
    /\ Accepts(w, c)
    /\ Owner[c] \in Admin
    /\ row[j] \in {"active", "revoked"}
    /\ Begin(r, w, "single", "update", {j} \cap SessionsIn(TenantOf[Owner[c]]))

LogoutAll(r, w, c) ==
    /\ Accepts(w, c)
    /\ Begin(r, w, "all", "select", SessionsOf(Owner[c]))

\* revoke_all_sessions() with exclude_jti: the caller's own session stays.
LogoutOthers(r, w, c) ==
    /\ Accepts(w, c)
    /\ Begin(r, w, "all", "select", SessionsOf(Owner[c]) \ {c})

\* An admin logs a user of the same tenant out, by the revoke-all route or by
\* narrowing or deleting one of the user's policies.
AdminRevokeUser(r, w, c, u) ==
    /\ Accepts(w, c)
    /\ Owner[c] \in Admin
    /\ Begin(r, w, "all", "select", SessionsOf(u) \cap SessionsIn(TenantOf[Owner[c]]))

\* end_session() takes its user from an id_token or a cookie, and is a public
\* path: no Bloom filter is asked.
EndSession(r, w, u) ==
    /\ w \in open
    /\ Begin(r, w, "all", "select", SessionsOf(u))

\* Sessions to revoke are picked from those the admin can list.
AdminBulkRevoke(r, w, c, jtis) ==
    /\ Accepts(w, c)
    /\ Owner[c] \in Admin
    /\ jtis # {}
    /\ \A j \in jtis : row[j] \in {"active", "revoked"}
    /\ Begin(r, w, "bulk", "select", jtis \cap SessionsIn(TenantOf[Owner[c]]))

-----------------------------------------------------------------------------
Hit(r) == task[r].scope \cap Rows("active")

Selected(r, next) == [task[r] EXCEPT !.sel = Hit(r), !.todo = Hit(r), !.at = next]

\* SELECT jti ... WHERE revoked_at IS NULL; no rows end the request.
Select(r) ==
    /\ task[r] # NoTask
    /\ task[r].at = "select"
    /\ Goto(r, IF Hit(r) = {} THEN NoTask
               ELSE Selected(r, IF task[r].op = "all" THEN "revoke" ELSE "update"))
    /\ UNCHANGED <<serviceVars, row, dropped, swept, tasks, stops>>

\* UPDATE user_sessions SET revoked_at ... WHERE revoked_at IS NULL.
UpdateRows(r) ==
    /\ task[r] # NoTask
    /\ task[r].at = "update"
    /\ row' = [j \in Jti |-> IF j \in Hit(r) THEN "revoked" ELSE row[j]]

\* Mutant of UpdateOne: the test for "UPDATE 0" is inverted.
UpdateOneInverted(r) ==
    /\ UpdateRows(r)
    /\ task[r].op \in {"logout", "single"}
    /\ Goto(r, IF Hit(r) # {} THEN NoTask ELSE Selected(r, "revoke"))
    /\ UNCHANGED <<serviceVars, dropped, swept, tasks, stops>>

\* revoke_session(): "UPDATE 0" ends the request, otherwise the broadcast follows.
UpdateOne(r) ==
    /\ UpdateRows(r)
    /\ task[r].op \in {"logout", "single"}
    /\ Goto(r, IF Hit(r) = {} THEN NoTask ELSE Selected(r, "revoke"))
    /\ UNCHANGED <<serviceVars, dropped, swept, tasks, stops>>

\* Mutant of UpdateBulk: it returns after the UPDATE.
UpdateBulkReturns(r) ==
    /\ UpdateRows(r)
    /\ task[r].op = "bulk"
    /\ Goto(r, NoTask)
    /\ UNCHANGED <<serviceVars, dropped, swept, tasks, stops>>

\* admin_bulk_revoke_sessions(): the broadcasts of what was selected follow.
UpdateBulk(r) ==
    /\ UpdateRows(r)
    /\ task[r].op = "bulk"
    /\ Goto(r, [task[r] EXCEPT !.at = "revoke"])
    /\ UNCHANGED <<serviceVars, dropped, swept, tasks, stops>>

\* revoke_all_sessions(): the broadcasts are done, the request ends.
UpdateAll(r) ==
    /\ UpdateRows(r)
    /\ task[r].op = "all"
    /\ Goto(r, NoTask)
    /\ swept' = swept \cup (Hit(r) \ task[r].sel)
    /\ UNCHANGED <<serviceVars, dropped, tasks, stops>>

\* revoke_user_tokens(), revoke_token(): the next jti of the list.
Revoke(r) ==
    /\ task[r] # NoTask
    /\ task[r].at = "revoke"
    /\ \E j \in task[r].todo :
          /\ Ask(task[r].worker, j)
          /\ Goto(r, [task[r] EXCEPT !.at = "await", !.cur = {j}, !.todo = @ \ {j}])
    /\ UNCHANGED <<row, dropped, swept, tasks, stops>>

\* revoke_token() returns: its entry is in the log, or it is not, and the
\* callers do not look at the result.
RevokeReturns(r) ==
    /\ task[r] # NoTask
    /\ task[r].at = "await"
    /\ \/ durable' = durable \cup task[r].cur /\ UNCHANGED dropped
       \/ Faults /\ UNCHANGED durable /\ dropped' = dropped \cup task[r].cur
    /\ Record
    /\ Goto(r, [task[r] EXCEPT !.at = "revoke", !.cur = {}])
    /\ UNCHANGED <<row, swept, tasks, stops>>

\* Mutant of ListDone: the loop may stop before the end of the list.
ListDoneEarly(r) ==
    /\ task[r] # NoTask
    /\ task[r].at = "revoke"
    /\ Goto(r, IF task[r].op = "all" THEN [task[r] EXCEPT !.at = "update"] ELSE NoTask)
    /\ UNCHANGED <<serviceVars, row, dropped, swept, tasks, stops>>

\* The list is done.
ListDone(r) ==
    /\ task[r] # NoTask
    /\ task[r].at = "revoke"
    /\ task[r].todo = {}
    /\ Goto(r, IF task[r].op = "all" THEN [task[r] EXCEPT !.at = "update"] ELSE NoTask)
    /\ UNCHANGED <<serviceVars, row, dropped, swept, tasks, stops>>

\* A statement raises, executed or not, and with it the request ends.
StatementFails(r) ==
    /\ Faults
    /\ task[r] # NoTask
    /\ task[r].at \in {"select", "update"}
    /\ \/ UNCHANGED <<row, dropped>>
       \/ UpdateRows(r) /\ dropped' = dropped \cup Hit(r)
    /\ Goto(r, NoTask)
    /\ UNCHANGED <<serviceVars, swept, tasks, stops>>

-----------------------------------------------------------------------------
TasksOf(w) == {r \in Request : task[r] # NoTask /\ task[r].worker = w}

\* A worker stops and takes the requests it was serving with it.
StopWorker(w) ==
    /\ stops < MaxStops
    /\ w \in open
    /\ Stop(w)
    /\ task' = [r \in Request |-> IF r \in TasksOf(w) THEN NoTask ELSE task[r]]
    /\ dropped' = dropped \cup UNION {task[r].todo \cup task[r].cur : r \in TasksOf(w)}
    /\ stops' = stops + 1
    /\ UNCHANGED <<row, swept, tasks>>

\* Replay, Pub/Sub and the consumer group: see TokenRevocation.
WorkerLearns(w) == Learn(w) /\ UNCHANGED sessionVars
WorkerOpens(w)  == Open(w) /\ UNCHANGED sessionVars

TaskStep(r) ==
    \/ Select(r)
    \/ UpdateOne(r) \/ UpdateBulk(r) \/ UpdateAll(r)
    \/ Revoke(r) \/ RevokeReturns(r) \/ ListDone(r)
    \/ StatementFails(r)

BeginStep(r, w) ==
    \/ \E c, j \in Jti : RevokeSession(r, w, c, j) \/ AdminRevokeSession(r, w, c, j)
    \/ \E c \in Jti : Logout(r, w, c) \/ LogoutAll(r, w, c) \/ LogoutOthers(r, w, c)
    \/ \E c \in Jti, u \in User : AdminRevokeUser(r, w, c, u)
    \/ \E u \in User : EndSession(r, w, u)
    \/ \E c \in Jti, jtis \in SUBSET Jti : AdminBulkRevoke(r, w, c, jtis)

SessionNext ==
    \/ \E w \in Worker, j \in Jti : CreateSession(w, j) \/ IssueUntracked(w, j)
    \/ \E r \in Request, w \in Worker : BeginStep(r, w)
    \/ \E r \in Request : TaskStep(r)
    \/ \E w \in Worker : StopWorker(w) \/ WorkerLearns(w) \/ WorkerOpens(w)

SessionSpec == SessionInit /\ [][SessionNext]_allVars

\* A request that can go on goes on, and ends with an answer or an error.
FairSessionSpec == SessionSpec /\ \A r \in Request : WF_allVars(TaskStep(r))

-----------------------------------------------------------------------------
SessionTypeOK ==
    /\ asked \subseteq Jti
    /\ durable \subseteq Jti
    /\ open \subseteq Worker
    /\ known \in [Worker -> SUBSET Jti]
    /\ row \in [Jti -> {"none", "untracked", "active", "revoked"}]
    /\ task \in [Request -> Task \cup {NoTask}]
    /\ dropped \subseteq Jti
    /\ swept \subseteq Jti
    /\ tasks \in 0 .. MaxTasks
    /\ stops \in 0 .. MaxStops

\* Requests that are passing their list to the revocation manager, and what is
\* left of those lists.
Broadcasting == {r \in Request : task[r] # NoTask /\ task[r].at \in {"revoke", "await"}}
InFlight     == UNION {task[r].todo : r \in Broadcasting}

\* A row that says "revoked" has been handed to the revocation manager, or some
\* running request is handing it over, or the request that owed it failed or
\* died, or revoke_all_sessions() came upon it in its UPDATE.  It is what keeps
\* user_sessions and the Bloom filters together.
RevokedRowIsBroadcast == Rows("revoked") \subseteq asked \cup InFlight \cup dropped \cup swept

\* The same without the last exception ("Revoke all sessions for a user and
\* broadcast to all workers").
SweepIsBroadcast == Rows("revoked") \subseteq asked \cup InFlight \cup dropped

\* A request that ends by doing all it had to do leaves every session it
\* selected refused by the worker that answers, whatever other requests, logins
\* and worker failures came in between.
EndedRequestIsEffective ==
    [][\A r \in Request :
          LET t == task[r]
          IN  /\ t # NoTask
              /\ task'[r] = NoTask
              /\ t.worker \in open'
              /\ t.at = "revoke" \/ (t.op = "all" /\ t.at = "update")
              => t.sel \subseteq asked' \cap known'[t.worker]]_allVars

\* The revocation log catches up with the rows: every session whose row is revoked
\* ends up in it, unless its XADD failed, the worker that was revoking it stopped,
\* or an UPDATE marked it that no SELECT had seen.
RevocationLands == []<>(Rows("revoked") \subseteq durable \cup dropped \cup swept)

\* A logout that answers without an error has handed its own token to the
\* revocation manager ("Invalidate the current session token. The token will be
\* added to the revocation list and cannot be used for further requests").
LogoutInvalidates ==
    [][\A r \in Request :
          LET t == task[r]
          IN  t # NoTask /\ t.op = "logout" /\ task'[r] = NoTask /\ t.worker \in open'
              => t.scope \subseteq asked']_allVars

=============================================================================
