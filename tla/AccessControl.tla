--------------------------- MODULE AccessControl ---------------------------
(***************************************************************************)
(* Policies and the rights in access tokens.                                *)
(*                                                                           *)
(* A token carries the rights its user had when the policies were read, as   *)
(* one bitmask per resource, and every decision is taken from the token      *)
(* alone (middle_ware, check_permission).  When an administrator takes       *)
(* rights away the user's sessions are swept, so that tokens with the old    *)
(* rights are refused (policy_service.py).  A policy may also name a time up *)
(* to which it is valid, among its conditions.  The module follows tokens from *)
(* the SELECT of their policies to the gate, and keeps on record in which    *)
(* gap between the two a token has fallen.                                   *)
(*                                                                           *)
(* The revocation of one token is abstracted to what RevocationService       *)
(* promises: the worker that revokes knows at once, the others later.        *)
(***************************************************************************)
EXTENDS Naturals, FiniteSetsExt

CONSTANTS
    Gate,      \* worker processes
    User,
    Policy,    \* policy ids
    Resource,
    Bit,       \* bit positions of the flags in class Action
    ActionBag, \* lists of actions: how often each occurs
    Token,     \* access tokens (jti)
    Time,      \* moments up to which policies may be valid (validity_time)
    Task,      \* administrators' requests
    MaxChanges,\* commits to the policy table in one behaviour
    None

VARIABLES
    pol,      \* table user_policies
    over,     \* the moments that have passed
    tok,      \* tokens: state, user and the rights in the policy claim
    sess,     \* row of user_sessions of each token
    revoked,  \* tokens in the revocation stream
    known,    \* Bloom filter of each worker
    task,     \* requests that change policies
    changes,  \* commits to the policy table so far
    why       \* the first gap each token has fallen into, or None

accessVars == <<pol, over, tok, sess, revoked, known, task, changes, why>>
gateVars == <<revoked, known>>

Actions(bag) == {a \in Bit : bag[a] > 0}
Repeats(bag) == \E a \in Bit : bag[a] > 1

\* sum(Action[a.upper()] for a in actions), and the flags & finds in it.
Mask(bag) == MapThenSumSet(LAMBDA a : bag[a] * 2^a, Bit)
Flags(bag) == {a \in Bit : (Mask(bag) \div 2^a) % 2 = 1}

\* A policy of a user; one without validity_time has None.
Row == [resource : Resource, actions : ActionBag, until : Time \cup {None}]

\* The ways in which a right stays in a token that is not swept.
Gap == {"untracked", "late", "bulk", "overlap", "swallowed", "dropped", "conditions", "lapsed"}

ASSUME AccessAssumption ==
    /\ Bit \subseteq Nat
    /\ ActionBag \subseteq [Bit -> Nat]
    /\ \A bag \in ActionBag : [a \in Bit |-> IF bag[a] > 0 THEN 1 ELSE 0] \in ActionBag
    /\ MaxChanges \in Nat
    /\ None \notin Gap /\ None \notin User \cup Resource \cup Time
    /\ None \notin ActionBag /\ None \notin Row

\* A sum of distinct powers of two has exactly their bits.
ASSUME MaskAssumption ==
    \A bag \in ActionBag : ~ Repeats(bag) => Flags(bag) = Actions(bag)

\* The SELECTs behind a token leave out what is no longer valid.
RowsAt(u, passed) ==
    {pol[u][p] : p \in {p \in Policy : pol[u][p] # None /\ pol[u][p].until \notin passed}}
Rows(u) == RowsAt(u, over)

Named(rows) == UNION {{q.resource} \X Actions(q.actions) : q \in rows}

\* Mutant: a flag counts when the mask is at least as large.
ClaimsAtMost(u) ==
    {UNION {{q.resource} \X {a \in Bit : Mask(q.actions) >= 2^a} : q \in Rows(u)}}

\* The policy claim: fetch_user_policies() combines the policies of a resource
\* with |, authenticate() and refresh() keep one of them per resource.
Claims(u) ==
    {UNION {{q.resource} \X Flags(q.actions) : q \in S} :
        S \in {S \in SUBSET Rows(u) :
                 \A q \in Rows(u) : \E s \in S : s.resource = q.resource}}

NoToken == [state |-> "none", user |-> None, rights |-> {}, named |-> {},
            repeats |-> FALSE]
NoTask == [stage |-> "idle", host |-> None, user |-> None, policy |-> None,
           new |-> None, sweeps |-> FALSE, sel |-> {}, list |-> {}, stale |-> FALSE]

Of(u) == {j \in Token : tok[j].user = u}
Signing(u) == {j \in Of(u) : tok[j].state = "signing"}
Open(u) == {j \in Of(u) : sess[j] = "open"}

AccessInit ==
    /\ pol = [u \in User |-> [p \in Policy |-> None]]
    /\ over = {}
    /\ tok = [j \in Token |-> NoToken]
    /\ sess = [j \in Token |-> "none"]
    /\ revoked = {}
    /\ known = [w \in Gate |-> {}]
    /\ task = [t \in Task |-> NoTask]
    /\ changes = 0
    /\ why = [j \in Token |-> None]

\* The tokens fall into a gap; the first one is kept.
Fall(tokens, gap) ==
    why' = [j \in Token |-> IF j \in tokens /\ why[j] = None THEN gap ELSE why[j]]

-----------------------------------------------------------------------------
(* Signing in.                                                               *)

Claim(j, u, state) ==
    /\ tok[j] = NoToken
    /\ \E rights \in Claims(u) :
          tok' = [tok EXCEPT ![j] = [state |-> state, user |-> u, rights |-> rights,
                                     named |-> Named(Rows(u)),
                                     repeats |-> \E q \in Rows(u) : Repeats(q.actions)]]

\* authenticate(): the policies are read; the password is checked in a thread.
\* The row of a user without policies has none to parse, and signing in fails.
SignIn(j, u) ==
    /\ Rows(u) # {}
    /\ Claim(j, u, "signing")
    /\ UNCHANGED <<pol, over, changes, sess, gateVars, task, why>>

\* Mutant: the row is inserted for a token that was never signed.
CreateSessionUnsigned(j) ==
    /\ sess' = [sess EXCEPT ![j] = "open"]
    /\ UNCHANGED <<pol, over, changes, tok, gateVars, task, why>>

\* create_session(), and the token is handed out.
CreateSession(j) ==
    /\ tok[j].state = "signing"
    /\ tok' = [tok EXCEPT ![j].state = "live"]
    /\ sess' = [sess EXCEPT ![j] = "open"]
    /\ UNCHANGED <<pol, over, changes, gateVars, task, why>>

\* refresh() and the OIDC token endpoint: no session row.
IssueUntracked(j, u) ==
    /\ Claim(j, u, "live")
    /\ Fall({j}, "untracked")
    /\ UNCHANGED <<pol, over, changes, sess, gateVars, task>>

-----------------------------------------------------------------------------
(* The gate.                                                                 *)

\* middle_ware() lets the token through; the decision of check_permission()
\* depends on its claim alone.  Expiry is left to TokenGate: the cache there may
\* hide it, so that nothing here relies on it.
Usable(w, j) == tok[j].state = "live" /\ j \notin known[w]

\* The stream or the channel brings a revocation to a worker.
Learn(w, j) ==
    /\ j \in revoked \ known[w]
    /\ known' = [known EXCEPT ![w] = @ \cup {j}]
    /\ UNCHANGED <<pol, over, changes, tok, sess, revoked, task, why>>

-----------------------------------------------------------------------------
(* Changing policies.                                                        *)

Change == changes < MaxChanges /\ changes' = changes + 1

\* The rights user u loses when the valid ones of its policies become rows.
Lost(u, rows) == Named(Rows(u)) \ Named(rows)

\* A change that takes rights away leaves a gap for the tokens being issued from
\* the policies before it.
TakesAway(u, rows) == Fall(IF Lost(u, rows) = {} THEN {} ELSE Signing(u), "late")

\* A commit on policy p of the users makes what other requests have read of it
\* stale.
Outdate(us, p) ==
    [t \in Task |-> IF task[t].user \in us /\ task[t].policy = p
                    THEN [task[t] EXCEPT !.stale = TRUE] ELSE task[t]]

\* The rights user u names once policy p is q, or is gone.
With(u, p, q) ==
    {r \in {pol[u][o] : o \in Policy \ {p}} \cup {q} : r # None /\ r.until \notin over}

\* create_policy(), also for assign_policy_to_user() and
\* assign_template_to_user(): a policy that exists is a conflict.
CreatePolicy(u, p, q) ==
    /\ pol[u][p] = None
    /\ Change
    /\ pol' = [pol EXCEPT ![u][p] = q]
    /\ task' = Outdate({u}, p)
    /\ UNCHANGED <<over, tok, sess, gateVars, why>>

\* bulk_assign_policy(): one executemany() of upserts; nobody's sessions are swept.
BulkAssign(us, p, q) ==
    LET loser(u) == u \in us /\ Lost(u, With(u, p, q)) # {} IN
    /\ \E u \in us : pol[u][p] # q
    /\ Change
    /\ pol' = [u \in User |-> IF u \in us THEN [pol[u] EXCEPT ![p] = q] ELSE pol[u]]
    /\ Fall({j \in Token : \E u \in us : j \in Of(u) /\ loser(u)}, "bulk")
    /\ task' = Outdate(us, p)
    /\ UNCHANGED <<over, tok, sess, gateVars>>

\* The row update_policy() writes: what is not given is kept, actions become a set.
Updated(old, resource, actions, until) ==
    LET bag == IF actions = None THEN old.actions ELSE actions
    IN  [resource |-> IF resource = None THEN old.resource ELSE resource,
         actions |-> [a \in Bit |-> IF bag[a] > 0 THEN 1 ELSE 0],
         until |-> until]

\* Mutant: a sweep for a changed resource only.
UpdateReadResource(t, w, u, p, resource, actions, until) ==
    LET new == Updated(pol[u][p], resource, actions, until) IN
    /\ task[t] = NoTask
    /\ pol[u][p] # None
    /\ task' = [task EXCEPT ![t] =
           [NoTask EXCEPT !.stage = "write", !.host = w, !.user = u, !.policy = p,
                !.new = new, !.sweeps = new.resource # pol[u][p].resource]]
    /\ UNCHANGED <<pol, over, changes, tok, sess, gateVars, why>>

\* update_policy() up to its UPDATE: a resource that is not given counts as
\* changed, and conditions do not count at all.  Conditions that are not given are
\* kept: until is then the old one.
UpdateRead(t, w, u, p, resource, actions, until) ==
    LET old == pol[u][p]
        new == Updated(old, resource, actions, until)
    IN  /\ task[t] = NoTask
        /\ old # None
        /\ task' = [task EXCEPT ![t] =
               [NoTask EXCEPT !.stage = "write", !.host = w, !.user = u, !.policy = p,
                    !.new = new,
                    !.sweeps = resource # old.resource
                               \/ Actions(old.actions) \ Actions(new.actions) # {}]]
        /\ UNCHANGED <<pol, over, changes, tok, sess, gateVars, why>>

\* An UPDATE that takes rights away without a sweep: because the policy is not the
\* one the request has read, or because only its validity changes.
Unswept(t, rows) ==
    LET u == task[t].user IN
    IF task[t].stale THEN Fall(Of(u), "overlap")
    ELSE IF task[t].new.until # pol[u][task[t].policy].until /\ Lost(u, rows) # {}
    THEN Fall(Of(u), "conditions")
    ELSE UNCHANGED why

\* The UPDATE, which finds no row if the policy was deleted meanwhile.
UpdateWrite(t) ==
    LET u == task[t].user  p == task[t].policy  new == task[t].new
        next == IF task[t].sweeps THEN [task[t] EXCEPT !.stage = "select"] ELSE NoTask
    IN  /\ task[t].stage = "write"
        /\ IF pol[u][p] = None
           THEN /\ task' = [task EXCEPT ![t] = next]
                /\ UNCHANGED <<pol, changes, why>>
           ELSE /\ Change
                /\ pol' = [pol EXCEPT ![u][p] = new]
                /\ task' = [Outdate({u}, p) EXCEPT ![t] = next]
                /\ IF task[t].sweeps THEN TakesAway(u, With(u, p, new))
                                      ELSE Unswept(t, With(u, p, new))
        /\ UNCHANGED <<over, tok, sess, gateVars>>

\* The validity of policies ends: nobody acts on it.
Lapse(m) ==
    LET loser(u) == Lost(u, RowsAt(u, over \cup {m})) # {} IN
    /\ m \in Time \ over
    /\ over' = over \cup {m}
    /\ Fall({j \in Token : \E u \in User : j \in Of(u) /\ loser(u)}, "lapsed")
    /\ UNCHANGED <<pol, changes, tok, sess, gateVars, task>>

\* delete_policy() and revoke_policy_from_user().
DeletePolicy(t, w, u, p) ==
    /\ task[t] = NoTask
    /\ pol[u][p] # None
    /\ Change
    /\ pol' = [pol EXCEPT ![u][p] = None]
    /\ task' = [Outdate({u}, p) EXCEPT
                  ![t] = [NoTask EXCEPT !.stage = "select", !.host = w, !.user = u]]
    /\ TakesAway(u, With(u, p, None))
    /\ UNCHANGED <<over, tok, sess, gateVars>>

-----------------------------------------------------------------------------
(* revoke_all_sessions().                                                    *)

SweepSelect(t) ==
    LET open == Open(task[t].user) IN
    /\ task[t].stage = "select"
    /\ task' = [task EXCEPT ![t] = IF open = {} THEN NoTask
                  ELSE [@ EXCEPT !.stage = "revoke", !.sel = open, !.list = open]]
    /\ UNCHANGED <<pol, over, changes, tok, sess, gateVars, why>>

\* Mutant: the revocation stays in the worker that sweeps.
RevokeNextLocal(t, j) ==
    /\ j \in task[t].list
    /\ task' = [task EXCEPT ![t].list = @ \ {j}]
    /\ known' = [known EXCEPT ![task[t].host] = @ \cup {j}]
    /\ UNCHANGED <<pol, over, changes, tok, sess, revoked, why>>

RevokeNext(t, j) ==
    /\ j \in task[t].list
    /\ task' = [task EXCEPT ![t].list = @ \ {j}]
    /\ known' = [known EXCEPT ![task[t].host] = @ \cup {j}]
    /\ revoked' = revoked \cup {j}
    /\ UNCHANGED <<pol, over, changes, tok, sess, why>>

\* The UPDATE closes every open row of the user, those inserted since the SELECT
\* included.
SweepUpdate(t) ==
    LET u == task[t].user IN
    /\ task[t].stage = "revoke"
    /\ task[t].list = {}
    /\ sess' = [j \in Token |-> IF j \in Open(u) THEN "closed" ELSE sess[j]]
    /\ Fall(Open(u) \ task[t].sel, "swallowed")
    /\ task' = [task EXCEPT ![t] = NoTask]
    /\ UNCHANGED <<pol, over, changes, tok, gateVars>>

\* A statement fails or the worker dies: the sweep does not go on.
AbandonTask(t) ==
    LET left == CASE task[t].stage = "select" -> Of(task[t].user)
                  [] task[t].stage = "revoke" -> task[t].list
                  [] OTHER -> {}
    IN  /\ task[t] # NoTask
        /\ task' = [task EXCEPT ![t] = NoTask]
        /\ Fall(left, "dropped")
        /\ UNCHANGED <<pol, over, changes, tok, sess, gateVars>>

-----------------------------------------------------------------------------
AccessNext ==
    \/ \E j \in Token, u \in User : SignIn(j, u) \/ IssueUntracked(j, u)
    \/ \E j \in Token : CreateSession(j)
    \/ \E w \in Gate, j \in Token : Learn(w, j)
    \/ \E p \in Policy, q \in Row :
          \/ \E u \in User : CreatePolicy(u, p, q)
          \/ \E us \in SUBSET User : BulkAssign(us, p, q)
    \/ \E t \in Task, w \in Gate, u \in User, p \in Policy :
          \/ \E resource \in Resource \cup {None}, actions \in ActionBag \cup {None},
                until \in Time \cup {None} :
                UpdateRead(t, w, u, p, resource, actions, until)
          \/ DeletePolicy(t, w, u, p)
    \/ \E t \in Task :
          \/ UpdateWrite(t) \/ SweepSelect(t) \/ SweepUpdate(t) \/ AbandonTask(t)
          \/ \E j \in Token : RevokeNext(t, j)
    \/ \E m \in Time : Lapse(m)

AccessSpec == AccessInit /\ [][AccessNext]_accessVars

\* A request that has begun to sweep goes on, and revocations spread.
AccessFairness ==
    /\ \A t \in Task :
          /\ WF_accessVars(SweepSelect(t))
          /\ WF_accessVars(SweepUpdate(t))
          /\ \A j \in Token : WF_accessVars(RevokeNext(t, j))
    /\ \A w \in Gate, j \in Token : WF_accessVars(Learn(w, j))

FairAccessSpec == AccessSpec /\ AccessFairness
-----------------------------------------------------------------------------
(* Properties.                                                               *)

Right == Resource \X Bit

\* Every table, token, filter and request holds values the code can give it; a
\* token with a session row is one that was signed in.
AccessTypeOK ==
    /\ pol \in [User -> [Policy -> Row \cup {None}]]
    /\ over \subseteq Time
    /\ \A j \in Token :
          \/ tok[j] = NoToken /\ sess[j] = "none"
          \/ tok[j] \in [state : {"signing", "live"}, user : User,
                         rights : SUBSET Right, named : SUBSET Right, repeats : BOOLEAN]
    /\ sess \in [Token -> {"none", "open", "closed"}]
    /\ revoked \subseteq Token
    /\ known \in [Gate -> SUBSET Token]
    /\ changes \in Nat
    /\ why \in [Token -> Gap \cup {None}]
    /\ \A t \in Task :
          \/ task[t] = NoTask
          \/ task[t].stage = "write" /\ task[t].user \in User /\ task[t].policy \in Policy
             /\ task[t].new \in Row
          \/ task[t].stage \in {"select", "revoke"} /\ task[t].user \in User
             /\ task[t].list \subseteq task[t].sel

\* The rights a token was given that no policy of its user names any more.
Excess(j) == IF tok[j].state = "none" THEN {}
             ELSE (tok[j].rights \cap tok[j].named) \ Named(Rows(tok[j].user))

Sweeping(t, j) ==
    /\ task[t].user = tok[j].user
    /\ task[t].stage = "select" \/ j \in task[t].list

\* Rights that are taken away are taken out of use: a token that was handed out
\* and still carries one is revoked, or about to be by a sweep that has begun,
\* unless it fell into one of the gaps between the policy table and the token
\* (update_policy, delete_policy, bulk_assign_policy, revoke_all_sessions,
\* authenticate).
NarrowingIsSwept ==
    \A j \in Token :
        tok[j].state = "live" /\ Excess(j) # {} =>
            \/ j \in revoked
            \/ \E t \in Task : Sweeping(t, j)
            \/ why[j] # None

\* A token gives no right its user's policies did not name when they were read:
\* the sum of the flags is their union as long as no policy lists an action
\* twice (authenticate, refresh, fetch_user_policies, check_permission).
RightsAreNamed ==
    \A j \in Token : tok[j].rights \subseteq tok[j].named \/ tok[j].repeats

\* What the manager promises about revocations: see RevocationService.
Service == INSTANCE RevocationService WITH
    Worker <- Gate, Jti <- Token, asked <- revoked, durable <- {}, open <- Gate

\* The module revokes tokens and lets workers learn of it only as the manager may.
RevokesByService == [][Service!ServiceNext]_<<revoked, known>>

Refused(j) == \A w \in Gate : ~ Usable(w, j)

\* A narrowing takes effect: once a token carries a right its user has lost,
\* every worker comes to refuse it, or the right is given back, or the token
\* falls into a gap.
NarrowingLands ==
    \A j \in Token :
        tok[j].state = "live" /\ Excess(j) # {} /\ why[j] = None
            ~> Refused(j) \/ Excess(j) = {} \/ why[j] # None

=============================================================================
