----------------------- MODULE SessionServiceProofs -----------------------
(***************************************************************************)
(* Proofs about SessionService, for any sessions, owners, workers, requests *)
(* and failures.                                                            *)
(***************************************************************************)
EXTENDS SessionService, TLAPS

USE DEF NoTask

-----------------------------------------------------------------------------
LEMMA TaskFields ==
    ASSUME SessionTypeOK, NEW r \in Request, task[r] # NoTask
    PROVE  /\ task[r] \in Task
           /\ task[r].op \in {"logout", "single", "bulk", "all"}
           /\ task[r].at \in {"select", "update", "revoke", "await"}
           /\ task[r].worker \in Worker
           /\ task[r].scope \subseteq Jti
           /\ task[r].sel \subseteq Jti
           /\ task[r].todo \subseteq Jti
           /\ task[r].cur \subseteq Jti
BY DEF SessionTypeOK, Task

\* Every step of a request is a Goto in its own slot.
LEMMA StepIsGoto ==
    ASSUME SessionTypeOK, NEW r \in Request, NEW t, Goto(r, t)
    PROVE  task'[r] = t /\ \A q \in Request : q # r => task'[q] = task[q]
BY DEF Goto, SessionTypeOK

LEMMA SessionTypeInit == SessionInit => SessionTypeOK
BY TaskBoundsAssumption
   DEF TaskBoundsAssumption, SessionInit, ServiceInit, SessionTypeOK

\* A request that goes on as a well-formed request leaves all slots well formed.
LEMMA GotoType ==
    ASSUME SessionTypeOK, NEW r \in Request, NEW t \in Task \cup {NoTask}, Goto(r, t)
    PROVE  task' \in [Request -> Task \cup {NoTask}]
BY DEF SessionTypeOK, Goto

LEMMA HitInJti == ASSUME NEW r PROVE Hit(r) \subseteq Jti
BY DEF Hit, Rows

LEMMA BeginType ==
    ASSUME SessionTypeOK, NEW r \in Request, NEW w \in Worker, NEW op, NEW first,
           NEW scope \in SUBSET Jti,
           op \in {"logout", "single", "bulk", "all"}, first \in {"select", "update"},
           Begin(r, w, op, first, scope)
    PROVE  SessionTypeOK'
<1>1. [op |-> op, at |-> first, worker |-> w, scope |-> scope,
       sel |-> {}, todo |-> {}, cur |-> {}] \in Task
  BY DEF Task
<1>2. task' \in [Request -> Task \cup {NoTask}]
  BY <1>1, GotoType DEF Begin
<1>3. tasks' \in 0 .. MaxTasks
  BY TaskBoundsAssumption DEF TaskBoundsAssumption, Begin, SessionTypeOK
<1> QED
  BY <1>2, <1>3 DEF Begin, serviceVars, SessionTypeOK

\* The request revokes one session.
BeginOne(r, w, scope) == \E op \in {"logout", "single"} : Begin(r, w, op, "update", scope)

\* Each way to begin a request is a Begin with some scope; a bulk revocation
\* names rows that exist.
LEMMA BeginForms ==
    ASSUME NEW r \in Request, NEW w \in Worker, BeginStep(r, w)
    PROVE  \E scope \in SUBSET Jti :
              /\ w \in open
              /\ \/ BeginOne(r, w, scope)
                 \/ Begin(r, w, "all", "select", scope)
                 \/ Begin(r, w, "bulk", "select", scope) /\ \A j \in scope : row[j] # "none"
<1>1. ASSUME NEW u, NEW v PROVE SessionsOf(u) \subseteq Jti /\ SessionsIn(v) \subseteq Jti
  BY DEF SessionsOf, SessionsIn
<1>2. ASSUME NEW c \in Jti, NEW j \in Jti,
             RevokeSession(r, w, c, j) \/ AdminRevokeSession(r, w, c, j)
      PROVE  \E scope \in SUBSET Jti : w \in open /\ BeginOne(r, w, scope)
  BY <1>1, <1>2 DEF RevokeSession, AdminRevokeSession, Accepts, BeginOne
<1>7. ASSUME NEW c \in Jti, Logout(r, w, c)
      PROVE  \E scope \in SUBSET Jti : w \in open /\ BeginOne(r, w, scope)
  BY <1>7 DEF Logout, Accepts, BeginOne
<1>3. ASSUME NEW c \in Jti, LogoutAll(r, w, c) \/ LogoutOthers(r, w, c)
      PROVE  \E scope \in SUBSET Jti : w \in open /\ Begin(r, w, "all", "select", scope)
  BY <1>1, <1>3 DEF LogoutAll, LogoutOthers, Accepts
<1>4. ASSUME NEW c \in Jti, NEW u \in User, AdminRevokeUser(r, w, c, u)
      PROVE  \E scope \in SUBSET Jti : w \in open /\ Begin(r, w, "all", "select", scope)
  BY <1>1, <1>4 DEF AdminRevokeUser, Accepts
<1>5. ASSUME NEW u \in User, EndSession(r, w, u)
      PROVE  \E scope \in SUBSET Jti : w \in open /\ Begin(r, w, "all", "select", scope)
  BY <1>1, <1>5 DEF EndSession
<1>6. ASSUME NEW c \in Jti, NEW jtis \in SUBSET Jti, AdminBulkRevoke(r, w, c, jtis)
      PROVE  \E scope \in SUBSET Jti :
                w \in open /\ Begin(r, w, "bulk", "select", scope)
                  /\ \A j \in scope : row[j] # "none"
  BY <1>1, <1>6 DEF AdminBulkRevoke, Accepts
<1> QED
  BY <1>2, <1>3, <1>4, <1>5, <1>6, <1>7 DEF BeginStep

LEMMA SessionTypeStep == SessionTypeOK /\ [SessionNext]_allVars => SessionTypeOK'
<1> SUFFICES ASSUME SessionTypeOK, [SessionNext]_allVars PROVE SessionTypeOK'
  OBVIOUS
<1>1. ASSUME NEW w \in Worker, NEW j \in Jti, CreateSession(w, j) \/ IssueUntracked(w, j) PROVE SessionTypeOK'
  BY <1>1 DEF CreateSession, IssueUntracked, serviceVars, SessionTypeOK
<1>2. ASSUME NEW r \in Request, NEW w \in Worker, BeginStep(r, w) PROVE SessionTypeOK'
  <2>1. PICK scope \in SUBSET Jti :
              \/ BeginOne(r, w, scope)
              \/ Begin(r, w, "all", "select", scope)
              \/ Begin(r, w, "bulk", "select", scope)
    BY <1>2, BeginForms
  <2> QED
    BY <2>1, BeginType DEF BeginOne
<1>3. ASSUME NEW r \in Request, UpdateRows(r) PROVE row' \in [Jti -> {"none", "untracked", "active", "revoked"}]
  BY <1>3 DEF UpdateRows, SessionTypeOK
<1>4. ASSUME NEW r \in Request, TaskStep(r) PROVE SessionTypeOK'
  <2>1. task[r] # NoTask
    BY <1>4 DEF TaskStep, Select, UpdateOne, UpdateBulk, UpdateAll, UpdateRows, Revoke,
                RevokeReturns, ListDone, StatementFails
  <2>2. task[r] \in Task
    BY <2>1, TaskFields
  <2>3. ASSUME NEW next \in {"revoke", "update"} PROVE Selected(r, next) \in Task
    BY <2>2, HitInJti DEF Selected, Task
  <2>4. CASE Select(r)
    <3>1. task' \in [Request -> Task \cup {NoTask}]
      BY <2>3, <2>4, GotoType DEF Select
    <3> QED
      BY <2>4, <3>1 DEF Select, serviceVars, SessionTypeOK
  <2>5. CASE UpdateOne(r)
    <3>1. task' \in [Request -> Task \cup {NoTask}]
      BY <2>3, <2>5, GotoType DEF UpdateOne
    <3> QED
      BY <1>3, <2>5, <3>1 DEF UpdateOne, serviceVars, SessionTypeOK
  <2>6. CASE UpdateBulk(r)
    <3>1. [task[r] EXCEPT !.at = "revoke"] \in Task
      BY <2>2 DEF Task
    <3>2. task' \in [Request -> Task \cup {NoTask}]
      BY <2>6, <3>1, GotoType DEF UpdateBulk
    <3> QED
      BY <1>3, <2>6, <3>2 DEF UpdateBulk, serviceVars, SessionTypeOK
  <2>7. CASE UpdateAll(r)
    <3>1. task' \in [Request -> Task \cup {NoTask}]
      BY <2>7, GotoType DEF UpdateAll
    <3> QED
      BY <1>3, <2>7, <3>1, HitInJti DEF UpdateAll, serviceVars, SessionTypeOK
  <2>8. CASE Revoke(r)
    <3>1. PICK j \in task[r].todo :
              /\ Ask(task[r].worker, j)
              /\ Goto(r, [task[r] EXCEPT !.at = "await", !.cur = {j}, !.todo = @ \ {j}])
      BY <2>8 DEF Revoke
    <3>2. j \in Jti /\ task[r].worker \in Worker
      BY <2>1, TaskFields
    <3>3. [task[r] EXCEPT !.at = "await", !.cur = {j}, !.todo = @ \ {j}] \in Task
      BY <2>2, <3>2 DEF Task
    <3>4. task' \in [Request -> Task \cup {NoTask}]
      BY <3>1, <3>3, GotoType
    <3> QED
      BY <2>8, <3>1, <3>2, <3>4 DEF Revoke, Ask, SessionTypeOK
  <2>9. CASE RevokeReturns(r)
    <3>1. [task[r] EXCEPT !.at = "revoke", !.cur = {}] \in Task
      BY <2>2 DEF Task
    <3>2. task' \in [Request -> Task \cup {NoTask}]
      BY <2>9, <3>1, GotoType DEF RevokeReturns
    <3> QED
      BY <2>1, <2>9, <3>2, TaskFields DEF RevokeReturns, Record, SessionTypeOK
  <2>10. CASE ListDone(r)
    <3>1. [task[r] EXCEPT !.at = "update"] \in Task
      BY <2>2 DEF Task
    <3>2. task' \in [Request -> Task \cup {NoTask}]
      BY <2>10, <3>1, GotoType DEF ListDone
    <3> QED
      BY <2>10, <3>2 DEF ListDone, serviceVars, SessionTypeOK
  <2>11. CASE StatementFails(r)
    <3>1. task' \in [Request -> Task \cup {NoTask}]
      BY <2>11, GotoType DEF StatementFails
    <3>2. row' \in [Jti -> {"none", "untracked", "active", "revoked"}] /\ dropped' \subseteq Jti
      BY <1>3, <2>11, HitInJti DEF StatementFails, SessionTypeOK
    <3> QED
      BY <2>11, <3>1, <3>2 DEF StatementFails, serviceVars, SessionTypeOK
  <2> QED
    BY <1>4, <2>4, <2>5, <2>6, <2>7, <2>8, <2>9, <2>10, <2>11 DEF TaskStep
<1>5. ASSUME NEW w \in Worker, StopWorker(w) PROVE SessionTypeOK'
  <2>1. task' \in [Request -> Task \cup {NoTask}]
    BY <1>5 DEF StopWorker, SessionTypeOK
  <2>2. UNION {task[r].todo \cup task[r].cur : r \in TasksOf(w)} \subseteq Jti
    BY TaskFields DEF TasksOf
  <2>3. stops' \in 0 .. MaxStops
    BY <1>5, TaskBoundsAssumption DEF TaskBoundsAssumption, StopWorker, SessionTypeOK
  <2> QED
    BY <1>5, <2>1, <2>2, <2>3 DEF StopWorker, Stop, SessionTypeOK
<1>6. ASSUME NEW w \in Worker, WorkerLearns(w) PROVE SessionTypeOK'
  BY <1>6 DEF WorkerLearns, Learn, sessionVars, SessionTypeOK
<1>7. ASSUME NEW w \in Worker, WorkerOpens(w) PROVE SessionTypeOK'
  BY <1>7 DEF WorkerOpens, Open, sessionVars, SessionTypeOK
<1>8. CASE UNCHANGED allVars
  BY <1>8 DEF allVars, serviceVars, sessionVars, SessionTypeOK
<1> QED
  BY <1>1, <1>2, <1>4, <1>5, <1>6, <1>7, <1>8 DEF SessionNext

\* Every reachable state of the registry and its requests is well formed.
THEOREM SessionTypeCorrect == SessionSpec => []SessionTypeOK
BY SessionTypeInit, SessionTypeStep, PTL DEF SessionSpec

-----------------------------------------------------------------------------
(***************************************************************************)
(* What a request has achieved so far: what it selected and has taken off   *)
(* its list is refused by the worker it runs on.                            *)
(***************************************************************************)
Refused(w) == asked \cap known[w]

SlotEffective(r) ==
    task[r] # NoTask =>
        /\ task[r].worker \in open
        /\ task[r].at \in {"revoke", "await"} =>
              task[r].sel \ task[r].todo \subseteq Refused(task[r].worker)
        /\ task[r].at = "update" /\ task[r].op = "bulk" => task[r].sel = task[r].todo
        /\ task[r].at = "update" /\ task[r].op = "all" =>
              task[r].sel \subseteq Refused(task[r].worker)

EffectInv == SessionTypeOK /\ \A r \in Request : SlotEffective(r)

\* Only the end of a worker closes it or empties its filter.
LEMMA RefusedKept ==
    ASSUME SessionTypeOK, [SessionNext]_allVars, NEW w \in open,
           ~StopWorker(w)
    PROVE  w \in open' /\ Refused(w) \subseteq Refused(w)'
<1> USE DEF Refused
<1>0. w \in Worker
  BY DEF SessionTypeOK
<1>1. CASE UNCHANGED serviceVars
  BY <1>1 DEF serviceVars
<1>2. ASSUME NEW v \in Worker, NEW j \in Jti, Ask(v, j)
      PROVE  w \in open' /\ Refused(w) \subseteq Refused(w)'
  BY <1>0, <1>2 DEF Ask, SessionTypeOK
<1>3. ASSUME Record PROVE w \in open' /\ Refused(w) \subseteq Refused(w)'
  BY <1>3 DEF Record
<1>4. ASSUME NEW v \in Worker, Learn(v) \/ Open(v)
      PROVE  w \in open' /\ Refused(w) \subseteq Refused(w)'
  BY <1>0, <1>4 DEF Learn, Open, SessionTypeOK
<1>5. ASSUME NEW v \in Worker, StopWorker(v)
      PROVE  w \in open' /\ Refused(w) \subseteq Refused(w)'
  <2>1. v # w
    BY <1>5
  <2> QED
    BY <1>0, <1>5, <2>1 DEF StopWorker, Stop, SessionTypeOK
<1>6. ASSUME NEW r \in Request, TaskStep(r)
      PROVE  w \in open' /\ Refused(w) \subseteq Refused(w)'
  <2>1. CASE Revoke(r)
    <3>1. PICK j \in task[r].todo : Ask(task[r].worker, j)
      BY <2>1 DEF Revoke
    <3>2. j \in Jti /\ task[r].worker \in Worker
      BY <2>1, TaskFields DEF Revoke
    <3> QED
      BY <1>2, <3>1, <3>2
  <2>2. CASE RevokeReturns(r)
    BY <1>3, <2>2 DEF RevokeReturns
  <2> QED
    BY <1>1, <1>6, <2>1, <2>2 DEF TaskStep, Select, UpdateOne, UpdateBulk, UpdateAll,
                                  ListDone, StatementFails
<1>7. ASSUME NEW r \in Request, NEW v \in Worker, BeginStep(r, v) PROVE UNCHANGED serviceVars
  BY <1>7, BeginForms DEF Begin, BeginOne
<1>8. ASSUME NEW v \in Worker, NEW j \in Jti, CreateSession(v, j) \/ IssueUntracked(v, j) PROVE UNCHANGED serviceVars
  BY <1>8 DEF CreateSession, IssueUntracked
<1>9. CASE UNCHANGED allVars
  BY <1>1, <1>9 DEF allVars
<1> QED
  BY <1>1, <1>4, <1>5, <1>6, <1>7, <1>8, <1>9 DEF SessionNext, WorkerLearns, WorkerOpens

LEMMA EffectiveTaskStep ==
    ASSUME SessionTypeOK, NEW r \in Request, SlotEffective(r), TaskStep(r)
    PROVE  SlotEffective(r)'
<1>1. task[r] # NoTask
  BY DEF TaskStep, Select, UpdateOne, UpdateBulk, UpdateAll, UpdateRows, Revoke,
         RevokeReturns, ListDone, StatementFails
<1>2. task[r] \in Task /\ task[r].worker \in open /\ task[r].worker \in Worker
  BY <1>1, TaskFields DEF SlotEffective
<1>3. ASSUME task'[r] = NoTask PROVE SlotEffective(r)'
  BY <1>3 DEF SlotEffective
<1>4. ASSUME NEW next \in {"update", "revoke"}, task'[r] = Selected(r, next),
             UNCHANGED serviceVars, next = "update" => task[r].op # "all"
      PROVE  SlotEffective(r)'
  <2>1. /\ task'[r].worker = task[r].worker
        /\ task'[r].op = task[r].op
        /\ task'[r].at = next
        /\ task'[r].sel = task'[r].todo
    BY <1>2, <1>4 DEF Selected, Task
  <2>2. open' = open
    BY <1>4 DEF serviceVars
  <2> QED
    BY <1>2, <1>4, <2>1, <2>2 DEF SlotEffective
<1>5. CASE Select(r)
  BY <1>3, <1>4, <1>5, StepIsGoto DEF Select
<1>6. CASE UpdateOne(r)
  BY <1>3, <1>4, <1>6, StepIsGoto DEF UpdateOne
<1>7. CASE UpdateBulk(r)
  <2>1. task'[r] = [task[r] EXCEPT !.at = "revoke"]
    BY <1>7, StepIsGoto DEF UpdateBulk
  <2>2. /\ task'[r].worker = task[r].worker
        /\ task'[r].at = "revoke"
        /\ task'[r].sel = task[r].sel
        /\ task'[r].todo = task[r].todo
    BY <1>2, <2>1 DEF Task
  <2>3. task[r].sel = task[r].todo
    BY <1>1, <1>7 DEF UpdateBulk, UpdateRows, SlotEffective
  <2>4. open' = open
    BY <1>7 DEF UpdateBulk, serviceVars
  <2> QED
    BY <1>2, <2>2, <2>3, <2>4 DEF SlotEffective
<1>8. CASE UpdateAll(r) \/ StatementFails(r)
  BY <1>3, <1>8, StepIsGoto DEF UpdateAll, StatementFails
<1>9. CASE Revoke(r)
  <2>1. PICK j \in task[r].todo :
            /\ Ask(task[r].worker, j)
            /\ task'[r] = [task[r] EXCEPT !.at = "await", !.cur = {j}, !.todo = @ \ {j}]
    BY <1>9, StepIsGoto DEF Revoke
  <2>2. /\ task'[r].worker = task[r].worker
        /\ task'[r].at = "await"
        /\ task'[r].sel = task[r].sel
        /\ task'[r].todo = task[r].todo \ {j}
    BY <1>2, <2>1 DEF Task
  <2>3. /\ Refused(task[r].worker)' = Refused(task[r].worker) \cup {j}
        /\ open' = open
    <3>1. /\ asked' = asked \cup {j}
          /\ known'[task[r].worker] = known[task[r].worker] \cup {j}
          /\ open' = open
          /\ task'[r].worker = task[r].worker
      BY <1>2, <2>1, <2>2 DEF Ask, SessionTypeOK
    <3>2. Refused(task[r].worker)' = asked' \cap known'[task'[r].worker]
      BY DEF Refused
    <3> QED
      BY <3>1, <3>2 DEF Refused
  <2>4. task[r].sel \ task[r].todo \subseteq Refused(task[r].worker)
    BY <1>1, <1>9 DEF Revoke, SlotEffective
  <2> QED
    BY <1>2, <2>2, <2>3, <2>4 DEF SlotEffective
<1>10. CASE RevokeReturns(r)
  <2>1. task'[r] = [task[r] EXCEPT !.at = "revoke", !.cur = {}]
    BY <1>10, StepIsGoto DEF RevokeReturns
  <2>2. /\ task'[r].worker = task[r].worker
        /\ task'[r].at = "revoke"
        /\ task'[r].sel = task[r].sel
        /\ task'[r].todo = task[r].todo
    BY <1>2, <2>1 DEF Task
  <2>3. UNCHANGED <<asked, known, open>>
    BY <1>10 DEF RevokeReturns, Record
  <2>4. task[r].sel \ task[r].todo \subseteq Refused(task[r].worker)
    BY <1>1, <1>10 DEF RevokeReturns, SlotEffective
  <2> QED
    BY <1>2, <2>2, <2>3, <2>4 DEF SlotEffective, Refused
<1>11. CASE ListDone(r)
  <2>1. CASE task'[r] = NoTask
    BY <1>3, <2>1
  <2>2. CASE task'[r] = [task[r] EXCEPT !.at = "update"] /\ task[r].op = "all"
    <3>1. /\ task'[r].worker = task[r].worker
          /\ task'[r].at = "update"
          /\ task'[r].op = "all"
          /\ task'[r].sel = task[r].sel
      BY <1>2, <2>2 DEF Task
    <3>2. task[r].sel \subseteq Refused(task[r].worker)
      BY <1>1, <1>11 DEF ListDone, SlotEffective
    <3>3. UNCHANGED <<asked, known, open>>
      BY <1>11 DEF ListDone, serviceVars
    <3> QED
      BY <1>2, <3>1, <3>2, <3>3 DEF SlotEffective, Refused
  <2> QED
    BY <1>11, <2>1, <2>2, StepIsGoto DEF ListDone
<1> QED
  BY <1>5, <1>6, <1>7, <1>8, <1>9, <1>10, <1>11 DEF TaskStep

LEMMA EffectiveStep == EffectInv /\ [SessionNext]_allVars => EffectInv'
<1> SUFFICES ASSUME EffectInv, [SessionNext]_allVars, NEW q \in Request PROVE SlotEffective(q)'
  BY SessionTypeStep DEF EffectInv
<1> USE DEF EffectInv
<1>0. SlotEffective(q)
  OBVIOUS
<1>1. ASSUME task'[q] = task[q], task[q] # NoTask, ~StopWorker(task[q].worker)
      PROVE  SlotEffective(q)'
  <2>1. task[q].worker \in open
    BY <1>0, <1>1 DEF SlotEffective
  <2>2. /\ task[q].worker \in open'
        /\ asked \cap known[task[q].worker] \subseteq asked' \cap known'[task[q].worker]
    <3> DEFINE w == task[q].worker
    <3> HIDE DEF w
    <3>1. w \in open /\ ~StopWorker(w)
      BY <1>1, <2>1 DEF w
    <3>2. ASSUME NEW v \in open, ~StopWorker(v)
          PROVE  v \in open' /\ asked \cap known[v] \subseteq asked' \cap known'[v]
      BY <3>2, RefusedKept DEF Refused
    <3> QED
      BY <3>1, <3>2 DEF w
  <2> QED
    BY <1>0, <1>1, <2>2 DEF SlotEffective, Refused
<1>2. CASE task'[q] = NoTask
  BY <1>2 DEF SlotEffective
<1>3. ASSUME NEW r \in Request, TaskStep(r) PROVE SlotEffective(q)'
  <2>1. CASE r = q
    BY <1>3, <2>1, EffectiveTaskStep
  <2>2. CASE r # q
    <3>1. task'[q] = task[q]
      BY <1>3, <2>2, StepIsGoto
         DEF TaskStep, Select, UpdateOne, UpdateBulk, UpdateAll, Revoke, RevokeReturns,
             ListDone, StatementFails
    <3>2. ~StopWorker(task[q].worker)
      <4>1. stops' = stops
        BY <1>3 DEF TaskStep, Select, UpdateOne, UpdateBulk, UpdateAll, Revoke, RevokeReturns,
                    ListDone, StatementFails
      <4> QED
        BY <4>1 DEF StopWorker, SessionTypeOK
    <3> QED
      BY <1>1, <1>2, <3>1, <3>2
  <2> QED
    BY <2>1, <2>2
<1>4. ASSUME NEW r \in Request, NEW w \in Worker, BeginStep(r, w) PROVE SlotEffective(q)'
  <2>1. PICK scope \in SUBSET Jti :
            /\ w \in open
            /\ \/ BeginOne(r, w, scope)
               \/ Begin(r, w, "all", "select", scope)
               \/ Begin(r, w, "bulk", "select", scope)
    BY <1>4, BeginForms
  <2>2. open' = open /\ UNCHANGED <<asked, known>>
    BY <2>1 DEF Begin, BeginOne, serviceVars
  <2>3. CASE r = q
    <3>1. /\ task'[q].worker = w
          /\ task'[q].at = "select" \/ (task'[q].at = "update" /\ task'[q].op \in {"logout", "single"})
      BY <2>1, <2>3, StepIsGoto DEF Begin, BeginOne
    <3> QED
      BY <2>1, <2>2, <3>1 DEF SlotEffective
  <2>4. CASE r # q
    <3>1. task'[q] = task[q]
      BY <2>1, <2>4, StepIsGoto DEF Begin, BeginOne
    <3> QED
      BY <1>0, <2>2, <3>1 DEF SlotEffective, Refused
  <2> QED
    BY <2>3, <2>4
<1>5. ASSUME NEW w \in Worker, StopWorker(w) PROVE SlotEffective(q)'
  <2>1. CASE task[q] = NoTask \/ task[q].worker = w
    BY <1>2, <1>5, <2>1 DEF StopWorker, TasksOf
  <2>2. CASE task[q] # NoTask /\ task[q].worker # w
    <3>1. task'[q] = task[q]
      BY <1>5, <2>2 DEF StopWorker, TasksOf
    <3>2. task[q].worker \in Worker
      BY <2>2, TaskFields
    <3>3. /\ open' = open \ {w}
          /\ asked' = asked
          /\ known'[task[q].worker] = known[task[q].worker]
      BY <1>5, <2>2, <3>2 DEF StopWorker, Stop, SessionTypeOK
    <3> QED
      BY <1>0, <2>2, <3>1, <3>3 DEF SlotEffective, Refused
  <2> QED
    BY <2>1, <2>2
<1>6. ASSUME NEW w \in Worker, WorkerLearns(w) \/ WorkerOpens(w) PROVE SlotEffective(q)'
  <2>1. task'[q] = task[q] /\ stops' = stops
    BY <1>6 DEF WorkerLearns, WorkerOpens, sessionVars
  <2>2. ~StopWorker(task[q].worker)
    BY <2>1 DEF StopWorker, SessionTypeOK
  <2> QED
    BY <1>1, <1>2, <2>1, <2>2
<1>7. ASSUME NEW w \in Worker, NEW j \in Jti, CreateSession(w, j) \/ IssueUntracked(w, j) PROVE SlotEffective(q)'
  BY <1>0, <1>7 DEF CreateSession, IssueUntracked, serviceVars, SlotEffective, Refused
<1>8. CASE UNCHANGED allVars
  BY <1>0, <1>8 DEF allVars, serviceVars, sessionVars, SlotEffective, Refused
<1> QED
  BY <1>3, <1>4, <1>5, <1>6, <1>7, <1>8 DEF SessionNext

\* A request of any kind that completes its work leaves every session it
\* selected refused by its worker, for any interleaving.
THEOREM EndedRequestsAreEffective == SessionSpec => EndedRequestIsEffective
<1> DEFINE Ended ==
        \A r \in Request :
          LET t == task[r]
          IN  /\ t # NoTask
              /\ task'[r] = NoTask
              /\ t.worker \in open'
              /\ t.at = "revoke" \/ (t.op = "all" /\ t.at = "update")
              => t.sel \subseteq asked' \cap known'[t.worker]
<1>1. SessionInit => EffectInv
  BY SessionTypeInit DEF EffectInv, SlotEffective, SessionInit
<1>2. EffectInv /\ [SessionNext]_allVars => [Ended]_allVars
  <2> SUFFICES ASSUME EffectInv, [SessionNext]_allVars, NEW r \in Request,
                      task[r] # NoTask, task'[r] = NoTask, task[r].worker \in open',
                      task[r].at = "revoke" \/ (task[r].op = "all" /\ task[r].at = "update")
               PROVE  task[r].sel \subseteq asked' \cap known'[task[r].worker]
    BY DEF Ended
  <2> USE DEF EffectInv
  <2>1. TaskStep(r)
    <3>1. ASSUME NEW w \in Worker, StopWorker(w) PROVE FALSE
      BY <3>1 DEF StopWorker, Stop, TasksOf
    <3>2. ASSUME NEW q \in Request, TaskStep(q) PROVE q = r
      BY <3>2, StepIsGoto
         DEF TaskStep, Select, UpdateOne, UpdateBulk, UpdateAll, Revoke, RevokeReturns,
             ListDone, StatementFails
    <3>3. ASSUME NEW q \in Request, NEW w \in Worker, BeginStep(q, w) PROVE FALSE
      BY <3>3, BeginForms, StepIsGoto DEF Begin, BeginOne
    <3>4. ASSUME NEW w \in Worker, WorkerLearns(w) \/ WorkerOpens(w) PROVE FALSE
      BY <3>4 DEF WorkerLearns, WorkerOpens, sessionVars
    <3>5. ASSUME NEW w \in Worker, NEW j \in Jti, CreateSession(w, j) \/ IssueUntracked(w, j) PROVE FALSE
      BY <3>5 DEF CreateSession, IssueUntracked
    <3>6. ~UNCHANGED allVars
      BY DEF allVars, sessionVars
    <3> QED
      BY <3>1, <3>2, <3>3, <3>4, <3>5, <3>6 DEF SessionNext
  <2>2. SlotEffective(r) /\ task[r] \in Task
    BY TaskFields
  <2>3. CASE task[r].at = "revoke"
    <3>1. ListDone(r) \/ Revoke(r)
      BY <2>1, <2>3 DEF TaskStep, Select, UpdateOne, UpdateBulk, UpdateAll, UpdateRows,
                        RevokeReturns, StatementFails
    <3>2. ASSUME Revoke(r) PROVE FALSE
      <4>1. PICK j \in Jti :
                task' = [task EXCEPT ![r] =
                            [task[r] EXCEPT !.at = "await", !.cur = {j}, !.todo = @ \ {j}]]
        BY <2>2, <3>2 DEF Revoke, Goto, Task
      <4>2. task'[r] = [task[r] EXCEPT !.at = "await", !.cur = {j}, !.todo = @ \ {j}]
        BY <4>1 DEF SessionTypeOK
      <4>3. task'[r].op \in {"logout", "single", "bulk", "all"}
        BY <2>2, <4>2 DEF Task
      <4> QED
        BY <4>3 DEF NoTask
    <3> QED
      BY <2>2, <2>3, <3>1, <3>2 DEF ListDone, serviceVars, SlotEffective, Refused
  <2>4. CASE task[r].op = "all" /\ task[r].at = "update"
    <3>1. UNCHANGED serviceVars
      BY <2>1, <2>4 DEF TaskStep, Select, UpdateOne, UpdateBulk, UpdateAll,
                        Revoke, RevokeReturns, ListDone, StatementFails
    <3> QED
      BY <2>2, <2>4, <3>1 DEF serviceVars, SlotEffective, Refused
  <2> QED
    BY <2>3, <2>4
<1> HIDE DEF Ended
<1>3. SessionSpec => [][Ended]_allVars
  BY <1>1, <1>2, EffectiveStep, PTL DEF SessionSpec
<1> QED
  BY <1>3 DEF EndedRequestIsEffective, Ended

-----------------------------------------------------------------------------
(***************************************************************************)
(* What a request knows about the rows.  A bulk revocation names rows that  *)
(* exist, and no row leaves "revoked", so at its UPDATE the rows it hits    *)
(* are among those it selected and will broadcast.  Nothing like that holds *)
(* for a user's sessions, whose UPDATE may hit a row inserted after the     *)
(* SELECT: that is what swept records.                                      *)
(***************************************************************************)
BulkSelected ==
    \A r \in Request : task[r] # NoTask /\ task[r].op = "bulk" =>
        /\ task[r].at \in {"select", "update"} =>
              \A j \in task[r].scope : row[j] # "none"
        /\ task[r].at = "update" => Hit(r) \subseteq task[r].todo

BroadcastInv == EffectInv /\ BulkSelected /\ RevokedRowIsBroadcast

\* Rows only move forward: "none", "active", "revoked".
LEMMA RowsMoveForward ==
    SessionTypeOK /\ [SessionNext]_allVars =>
        \A j \in Jti : /\ row'[j] = "none" => row[j] = "none"
                       /\ row'[j] = "active" => row[j] \in {"none", "active"}
                       /\ row[j] = "revoked" => row'[j] = "revoked"
<1> SUFFICES ASSUME SessionTypeOK, [SessionNext]_allVars, NEW j \in Jti
             PROVE  /\ row'[j] = "none" => row[j] = "none"
                    /\ row'[j] = "active" => row[j] \in {"none", "active"}
                    /\ row[j] = "revoked" => row'[j] = "revoked"
  OBVIOUS
<1>0. row[j] \in {"none", "untracked", "active", "revoked"}
  BY DEF SessionTypeOK
<1>1. CASE UNCHANGED row
  BY <1>0, <1>1
<1>2. ASSUME NEW w \in Worker, NEW i \in Jti, CreateSession(w, i) \/ IssueUntracked(w, i)
      PROVE  row'[j] = row[j] \/ (row[j] = "none" /\ row'[j] \in {"active", "untracked"})
  BY <1>2 DEF CreateSession, IssueUntracked, SessionTypeOK
<1>3. ASSUME NEW r \in Request, UpdateRows(r)
      PROVE  row'[j] = row[j] \/ (row[j] = "active" /\ row'[j] = "revoked")
  BY <1>3 DEF UpdateRows, Hit, Rows
<1>4. ASSUME NEW r \in Request, TaskStep(r) PROVE UNCHANGED row \/ UpdateRows(r)
  BY <1>4 DEF TaskStep, Select, UpdateOne, UpdateBulk, UpdateAll, Revoke,
              RevokeReturns, ListDone, StatementFails
<1>5. ASSUME NEW r \in Request, NEW w \in Worker, BeginStep(r, w) PROVE UNCHANGED row
  BY <1>5, BeginForms DEF Begin, BeginOne
<1>6. ASSUME NEW w \in Worker, StopWorker(w) \/ WorkerLearns(w) \/ WorkerOpens(w)
      PROVE  UNCHANGED row
  BY <1>6 DEF StopWorker, WorkerLearns, WorkerOpens, sessionVars
<1>7. CASE UNCHANGED allVars
  BY <1>1, <1>7 DEF allVars, sessionVars
<1> QED
  BY <1>0, <1>1, <1>2, <1>3, <1>4, <1>5, <1>6, <1>7 DEF SessionNext

\* BulkSelected for one slot.
SlotSelected(r) ==
    task[r] # NoTask /\ task[r].op = "bulk" =>
        /\ task[r].at \in {"select", "update"} =>
              \A j \in task[r].scope : row[j] # "none"
        /\ task[r].at = "update" => Hit(r) \subseteq task[r].todo

\* A slot that does not move is not disturbed by what happens to the rows.
LEMMA SlotKept ==
    ASSUME SessionTypeOK, [SessionNext]_allVars, NEW r \in Request,
           SlotSelected(r), task'[r] = task[r]
    PROVE  SlotSelected(r)'
<1> SUFFICES ASSUME task[r] # NoTask, task[r].op = "bulk", task[r].at \in {"select", "update"}
             PROVE  /\ \A j \in task[r].scope : row'[j] # "none"
                    /\ task[r].at = "update" => Hit(r)' \subseteq task[r].todo
  BY DEF SlotSelected
<1>1. task[r].scope \subseteq Jti
  BY TaskFields
<1>2. \A j \in task[r].scope : row[j] # "none"
  BY DEF SlotSelected
<1>3. \A j \in task[r].scope : row'[j] # "none" /\ (row'[j] = "active" => row[j] = "active")
  <2>1. \A j \in Jti : /\ row'[j] = "none" => row[j] = "none"
                       /\ row'[j] = "active" => row[j] \in {"none", "active"}
    BY RowsMoveForward
  <2> QED
    BY <1>1, <1>2, <2>1
<1>4. Hit(r)' \subseteq Hit(r)
  BY <1>1, <1>3 DEF Hit, Rows
<1> QED
  BY <1>3, <1>4 DEF SlotSelected

LEMMA BulkSelectedStep ==
    SessionTypeOK /\ BulkSelected /\ [SessionNext]_allVars => BulkSelected'
<1> SUFFICES ASSUME SessionTypeOK, BulkSelected, [SessionNext]_allVars, NEW q \in Request
             PROVE  SlotSelected(q)'
  BY DEF BulkSelected, SlotSelected
<1>0. SlotSelected(q)
  BY DEF BulkSelected, SlotSelected
<1>1. CASE task'[q] = task[q]
  BY <1>0, <1>1, SlotKept
<1>2. ASSUME task'[q] = NoTask \/ task'[q].op # "bulk" \/ task'[q].at \in {"revoke", "await"}
      PROVE  SlotSelected(q)'
  BY <1>2 DEF SlotSelected
<1>3. ASSUME NEW r \in Request, NEW w \in Worker, BeginStep(r, w), r = q PROVE SlotSelected(q)'
  <2>1. PICK scope \in SUBSET Jti :
              \/ BeginOne(r, w, scope)
              \/ Begin(r, w, "all", "select", scope)
              \/ Begin(r, w, "bulk", "select", scope) /\ \A j \in scope : row[j] # "none"
    BY <1>3, BeginForms
  <2>2. CASE BeginOne(r, w, scope) \/ Begin(r, w, "all", "select", scope)
    BY <1>2, <1>3, <2>2, StepIsGoto DEF Begin, BeginOne
  <2>3. CASE Begin(r, w, "bulk", "select", scope) /\ \A j \in scope : row[j] # "none"
    <3>1. task'[r].scope = scope /\ task'[r].at = "select" /\ row' = row
      BY <2>3, StepIsGoto DEF Begin, BeginOne
    <3> QED
      BY <1>3, <2>3, <3>1 DEF SlotSelected
  <2> QED
    BY <2>1, <2>2, <2>3
<1>4. ASSUME NEW r \in Request, TaskStep(r), r = q PROVE SlotSelected(q)'
  <2>1. task[r] # NoTask
    BY <1>4 DEF TaskStep, Select, UpdateOne, UpdateBulk, UpdateAll, UpdateRows, Revoke,
                RevokeReturns, ListDone, StatementFails
  <2>2. task[r] \in Task
    BY <2>1, TaskFields
  <2>3. CASE Select(r)
    <3>1. CASE task'[r] = NoTask
      BY <1>2, <1>4, <3>1
    <3>2. CASE task'[r] = Selected(r, IF task[r].op = "all" THEN "revoke" ELSE "update")
      <4>1. /\ task'[r].scope = task[r].scope /\ task'[r].todo = Hit(r)
            /\ task'[r].op = task[r].op
        BY <2>2, <3>2 DEF Selected, Task
      <4>2. row' = row /\ task[r].at = "select"
        BY <2>3 DEF Select
      <4>3. Hit(r)' = Hit(r)
        BY <4>1, <4>2 DEF Hit, Rows
      <4> QED
        BY <1>0, <1>4, <2>1, <4>1, <4>2, <4>3 DEF SlotSelected
    <3> QED
      BY <2>3, <3>1, <3>2, StepIsGoto DEF Select
  <2>4. CASE UpdateOne(r)
    <3>1. task'[r] = NoTask \/ task'[r] = Selected(r, "revoke")
      BY <2>4, StepIsGoto DEF UpdateOne
    <3> QED
      BY <1>2, <1>4, <2>2, <3>1 DEF Selected, Task
  <2>5. CASE UpdateBulk(r)
    <3>1. task'[r] = [task[r] EXCEPT !.at = "revoke"]
      BY <2>5, StepIsGoto DEF UpdateBulk
    <3> QED
      BY <1>2, <1>4, <2>2, <3>1 DEF Task
  <2>6. CASE UpdateAll(r) \/ StatementFails(r)
    BY <1>2, <1>4, <2>6, StepIsGoto DEF UpdateAll, StatementFails
  <2>7. CASE Revoke(r)
    <3>1. PICK j \in task[r].todo :
              task'[r] = [task[r] EXCEPT !.at = "await", !.cur = {j}, !.todo = @ \ {j}]
      BY <2>7, StepIsGoto DEF Revoke
    <3> QED
      BY <1>2, <1>4, <2>2, <3>1 DEF Task
  <2>8. CASE RevokeReturns(r)
    <3>1. task'[r] = [task[r] EXCEPT !.at = "revoke", !.cur = {}]
      BY <2>8, StepIsGoto DEF RevokeReturns
    <3> QED
      BY <1>2, <1>4, <2>2, <3>1 DEF Task
  <2>9. CASE ListDone(r)
    <3>1. \/ task'[r] = NoTask
          \/ task[r].op = "all" /\ task'[r] = [task[r] EXCEPT !.at = "update"]
      BY <2>9, StepIsGoto DEF ListDone
    <3> QED
      BY <1>2, <1>4, <2>2, <3>1 DEF Task
  <2> QED
    BY <1>4, <2>3, <2>4, <2>5, <2>6, <2>7, <2>8, <2>9 DEF TaskStep
<1>5. ASSUME NEW r \in Request, r # q,
             TaskStep(r) \/ \E w \in Worker : BeginStep(r, w)
      PROVE  task'[q] = task[q]
  <2>1. CASE TaskStep(r)
    BY <1>5, <2>1, StepIsGoto
       DEF TaskStep, Select, UpdateOne, UpdateBulk, UpdateAll, Revoke, RevokeReturns,
           ListDone, StatementFails
  <2>2. ASSUME NEW w \in Worker, BeginStep(r, w) PROVE task'[q] = task[q]
    BY <1>5, <2>2, BeginForms, StepIsGoto DEF Begin, BeginOne
  <2> QED
    BY <1>5, <2>1, <2>2
<1>6. ASSUME NEW w \in Worker, StopWorker(w) PROVE task'[q] \in {task[q], NoTask}
  BY <1>6 DEF StopWorker
<1>7. ASSUME NEW w \in Worker, WorkerLearns(w) \/ WorkerOpens(w) PROVE task'[q] = task[q]
  BY <1>7 DEF WorkerLearns, WorkerOpens, sessionVars
<1>8. ASSUME NEW w \in Worker, NEW j \in Jti, CreateSession(w, j) \/ IssueUntracked(w, j) PROVE task'[q] = task[q]
  BY <1>8 DEF CreateSession, IssueUntracked
<1>9. CASE UNCHANGED allVars
  BY <1>1, <1>9 DEF allVars, sessionVars
<1> QED
  BY <1>1, <1>2, <1>3, <1>4, <1>5, <1>6, <1>7, <1>8, <1>9 DEF SessionNext

-----------------------------------------------------------------------------
\* A list that is being broadcast is covered by InFlight.
LEMMA InFlightHolds ==
    ASSUME NEW r \in Broadcasting PROVE task[r].todo \subseteq InFlight
BY DEF InFlight

\* What a revoked row is allowed to be.
Settled == asked \cup InFlight \cup dropped \cup swept

\* What must hold after a step in slot r, given what the slot still owes.
LEMMA BroadcastKept ==
    ASSUME SessionTypeOK, RevokedRowIsBroadcast, NEW r \in Request,
           \A q \in Request : q # r => task'[q] = task[q],
           asked \subseteq asked', dropped \subseteq dropped', swept \subseteq swept',
           r \in Broadcasting => task[r].todo \subseteq Settled',
           NEW New, New \subseteq Settled',
           Rows("revoked")' \subseteq Rows("revoked") \cup New
    PROVE  RevokedRowIsBroadcast'
<1>1. ASSUME NEW q \in Broadcasting PROVE task[q].todo \subseteq Settled'
  <2>1. CASE q = r
    BY <1>1, <2>1
  <2>2. CASE q # r
    <3>1. task'[q] = task[q]
      BY <2>2 DEF Broadcasting
    <3>2. q \in Broadcasting'
      BY <1>1, <3>1 DEF Broadcasting
    <3> QED
      BY <3>1, <3>2 DEF InFlight, Settled
  <2> QED
    BY <2>1, <2>2
<1>2. InFlight \subseteq Settled'
  BY <1>1 DEF InFlight
<1>3. RevokedRowIsBroadcast <=> Rows("revoked") \subseteq Settled
  BY DEF RevokedRowIsBroadcast, Settled
<1>4. RevokedRowIsBroadcast' <=> Rows("revoked")' \subseteq Settled'
  BY DEF RevokedRowIsBroadcast, Settled
<1>5. Settled \subseteq Settled'
  BY <1>2 DEF Settled
<1> QED
  BY <1>3, <1>4, <1>5

LEMMA BroadcastTaskStep ==
    ASSUME BroadcastInv, NEW r \in Request, TaskStep(r)
    PROVE  RevokedRowIsBroadcast'
<1> USE DEF BroadcastInv, EffectInv
<1>1. task[r] # NoTask
  BY DEF TaskStep, Select, UpdateOne, UpdateBulk, UpdateAll, UpdateRows, Revoke,
         RevokeReturns, ListDone, StatementFails
<1>2. task[r] \in Task /\ task[r].todo \subseteq Jti
  BY <1>1, TaskFields
<1>3. \A q \in Request : q # r => task'[q] = task[q]
  BY StepIsGoto DEF TaskStep, Select, UpdateOne, UpdateBulk, UpdateAll, Revoke,
                    RevokeReturns, ListDone, StatementFails
<1>4. ASSUME UNCHANGED row PROVE Rows("revoked")' \subseteq Rows("revoked") \cup {}
  BY <1>4 DEF Rows
<1>5. ASSUME UpdateRows(r) PROVE Rows("revoked")' \subseteq Rows("revoked") \cup Hit(r)
  BY <1>5 DEF UpdateRows, Rows
<1>6. ASSUME task[r].at \in {"select", "update"} PROVE r \notin Broadcasting
  BY <1>6 DEF Broadcasting
<1>7. ASSUME task'[r] # NoTask, task'[r].at \in {"revoke", "await"}
      PROVE  task'[r].todo \subseteq InFlight'
  BY <1>7 DEF InFlight, Broadcasting
<1>8. CASE Select(r)
  <2>1. r \notin Broadcasting /\ UNCHANGED <<row, asked, dropped, swept>>
    BY <1>6, <1>8 DEF Select, serviceVars
  <2> QED
    BY <1>3, <1>4, <2>1, BroadcastKept DEF Settled
<1>9. CASE UpdateOne(r)
  <2>1. r \notin Broadcasting /\ UNCHANGED <<asked, dropped, swept>> /\ UpdateRows(r)
    BY <1>6, <1>9 DEF UpdateOne, UpdateRows, serviceVars
  <2>2. Hit(r) \subseteq InFlight'
    <3>1. CASE Hit(r) = {}
      BY <3>1
    <3>2. CASE task'[r] = Selected(r, "revoke")
      <4>1. task'[r] # NoTask /\ task'[r].at = "revoke" /\ task'[r].todo = Hit(r)
        BY <1>2, <3>2 DEF Selected, Task
      <4> QED
        BY <1>7, <4>1
    <3> QED
      BY <1>9, <3>1, <3>2, StepIsGoto DEF UpdateOne
  <2> QED
    BY <1>3, <1>5, <2>1, <2>2, BroadcastKept DEF Settled
<1>10. CASE UpdateBulk(r)
  <2>1. r \notin Broadcasting /\ UNCHANGED <<asked, dropped, swept>> /\ UpdateRows(r)
    BY <1>6, <1>10 DEF UpdateBulk, UpdateRows, serviceVars
  <2>2. Hit(r) \subseteq task[r].todo
    BY <1>1, <1>10 DEF UpdateBulk, UpdateRows, BulkSelected
  <2>3. task'[r] = [task[r] EXCEPT !.at = "revoke"]
    BY <1>10, StepIsGoto DEF UpdateBulk
  <2>4. task'[r] # NoTask /\ task'[r].at = "revoke" /\ task'[r].todo = task[r].todo
    BY <1>2, <2>3 DEF Task
  <2>5. Hit(r) \subseteq InFlight'
    BY <1>7, <2>2, <2>4
  <2> QED
    BY <1>3, <1>5, <2>1, <2>5, BroadcastKept DEF Settled
<1>11. CASE UpdateAll(r)
  <2>1. r \notin Broadcasting /\ UNCHANGED <<asked, dropped>> /\ UpdateRows(r)
    BY <1>6, <1>11 DEF UpdateAll, UpdateRows, serviceVars
  <2>2. task[r].sel \subseteq asked
    BY <1>1, <1>11 DEF UpdateAll, UpdateRows, SlotEffective, Refused
  <2>3. swept' = swept \cup (Hit(r) \ task[r].sel)
    BY <1>11 DEF UpdateAll
  <2>4. Hit(r) \subseteq Settled'
    BY <2>1, <2>2, <2>3 DEF Settled
  <2> QED
    BY <1>3, <1>5, <2>1, <2>3, <2>4, BroadcastKept
<1>12. CASE Revoke(r)
  <2>1. PICK j \in task[r].todo :
            /\ asked' = asked \cup {j}
            /\ task'[r] = [task[r] EXCEPT !.at = "await", !.cur = {j}, !.todo = @ \ {j}]
    BY <1>12, StepIsGoto DEF Revoke, Ask
  <2>2. task'[r] # NoTask /\ task'[r].at = "await" /\ task'[r].todo = task[r].todo \ {j}
    BY <1>2, <2>1 DEF Task
  <2>3. task[r].todo \subseteq asked' \cup InFlight'
    BY <1>7, <2>1, <2>2
  <2>4. UNCHANGED <<row, dropped, swept>>
    BY <1>12 DEF Revoke
  <2> QED
    BY <1>3, <1>4, <2>1, <2>3, <2>4, BroadcastKept DEF Settled
<1>13. CASE RevokeReturns(r)
  <2>1. task'[r] = [task[r] EXCEPT !.at = "revoke", !.cur = {}]
    BY <1>13, StepIsGoto DEF RevokeReturns
  <2>2. task'[r] # NoTask /\ task'[r].at = "revoke" /\ task'[r].todo = task[r].todo
    BY <1>2, <2>1 DEF Task
  <2>3. UNCHANGED <<row, asked, swept>> /\ dropped \subseteq dropped'
    BY <1>13 DEF RevokeReturns, Record
  <2> QED
    BY <1>3, <1>4, <1>7, <2>2, <2>3, BroadcastKept DEF Settled
<1>14. CASE ListDone(r)
  <2>1. task[r].todo = {} /\ UNCHANGED <<row, asked, dropped, swept>>
    BY <1>14 DEF ListDone, serviceVars
  <2> QED
    BY <1>3, <1>4, <2>1, BroadcastKept DEF Settled
<1>15. CASE StatementFails(r)
  <2>1. r \notin Broadcasting /\ UNCHANGED <<asked, swept>>
    BY <1>6, <1>15 DEF StatementFails, serviceVars
  <2>2. CASE UNCHANGED <<row, dropped>>
    BY <1>3, <1>4, <2>1, <2>2, BroadcastKept DEF Settled
  <2>3. CASE UpdateRows(r) /\ dropped' = dropped \cup Hit(r)
    BY <1>3, <1>5, <2>1, <2>3, BroadcastKept DEF Settled
  <2> QED
    BY <1>15, <2>2, <2>3 DEF StatementFails
<1> QED
  BY <1>8, <1>9, <1>10, <1>11, <1>12, <1>13, <1>14, <1>15 DEF TaskStep

\* Nothing that a request still owes disappears unseen.
LEMMA BroadcastStep ==
    ASSUME BroadcastInv, [SessionNext]_allVars
    PROVE  RevokedRowIsBroadcast'
<1> USE DEF BroadcastInv, EffectInv
<1>1. ASSUME UNCHANGED <<asked, task, dropped, swept>>, Rows("revoked")' \subseteq Rows("revoked")
      PROVE  RevokedRowIsBroadcast'
  BY <1>1 DEF RevokedRowIsBroadcast, InFlight, Broadcasting
<1>2. ASSUME NEW w \in Worker, NEW j \in Jti, CreateSession(w, j) \/ IssueUntracked(w, j) PROVE RevokedRowIsBroadcast'
  <2>1. Rows("revoked")' \subseteq Rows("revoked")
    BY <1>2 DEF CreateSession, IssueUntracked, Rows, SessionTypeOK
  <2> QED
    BY <1>1, <1>2, <2>1 DEF CreateSession, IssueUntracked, serviceVars
<1>3. ASSUME NEW r \in Request, NEW w \in Worker, BeginStep(r, w) PROVE RevokedRowIsBroadcast'
  <2>1. PICK scope \in SUBSET Jti :
              \/ BeginOne(r, w, scope)
              \/ Begin(r, w, "all", "select", scope)
              \/ Begin(r, w, "bulk", "select", scope)
    BY <1>3, BeginForms
  <2>2. /\ UNCHANGED <<asked, row, dropped, swept>>
        /\ task[r] = NoTask
        /\ \A q \in Request : q # r => task'[q] = task[q]
    BY <2>1, StepIsGoto DEF Begin, BeginOne, serviceVars
  <2>3. r \notin Broadcasting
    BY <2>2 DEF Broadcasting
  <2>4. Rows("revoked")' \subseteq Rows("revoked") \cup {}
    BY <2>2 DEF Rows
  <2> QED
    BY <2>2, <2>3, <2>4, BroadcastKept DEF Settled
<1>4. ASSUME NEW w \in Worker, StopWorker(w) PROVE RevokedRowIsBroadcast'
  <2>1. UNCHANGED <<asked, row, swept>> /\ dropped \subseteq dropped'
    BY <1>4 DEF StopWorker, Stop
  <2>2. ASSUME NEW q \in Broadcasting PROVE task[q].todo \subseteq dropped' \cup InFlight'
    <3>1. CASE q \in TasksOf(w)
      BY <1>4, <3>1 DEF StopWorker
    <3>2. CASE q \notin TasksOf(w)
      <4>1. task'[q] = task[q]
        BY <1>4, <2>2, <3>2 DEF StopWorker, Broadcasting
      <4>2. q \in Broadcasting'
        BY <2>2, <4>1 DEF Broadcasting
      <4> QED
        BY <4>1, <4>2 DEF InFlight
    <3> QED
      BY <3>1, <3>2
  <2>3. InFlight \subseteq dropped' \cup InFlight'
    BY <2>2 DEF InFlight
  <2>4. Rows("revoked")' = Rows("revoked")
    BY <2>1 DEF Rows
  <2> QED
    BY <2>1, <2>3, <2>4 DEF RevokedRowIsBroadcast
<1>5. ASSUME NEW w \in Worker, WorkerLearns(w) \/ WorkerOpens(w) PROVE RevokedRowIsBroadcast'
  BY <1>1, <1>5 DEF WorkerLearns, WorkerOpens, Learn, Open, sessionVars, Rows
<1>6. CASE UNCHANGED allVars
  BY <1>1, <1>6 DEF allVars, serviceVars, sessionVars, Rows
<1> QED
  BY <1>2, <1>3, <1>4, <1>5, <1>6, BroadcastTaskStep DEF SessionNext

\* A row that says "revoked" was broadcast, is being broadcast, lost its request
\* to a failure or was swept: for any interleaving of single, bulk and logout-all
\* revocations, logins, failing statements and worker stops.
THEOREM RevokedRowsAreBroadcast == SessionSpec => []RevokedRowIsBroadcast
<1>1. SessionInit => BroadcastInv
  BY SessionTypeInit DEF BroadcastInv, EffectInv, SlotEffective, SessionInit, BulkSelected,
                         RevokedRowIsBroadcast, Rows
<1>2. BroadcastInv /\ [SessionNext]_allVars => BroadcastInv'
  BY EffectiveStep, BulkSelectedStep, BroadcastStep DEF BroadcastInv, EffectInv
<1>3. BroadcastInv => RevokedRowIsBroadcast
  BY DEF BroadcastInv
<1> QED
  BY <1>1, <1>2, <1>3, PTL DEF SessionSpec

=============================================================================
