------------------------ MODULE AccessControlProofs ------------------------
EXTENDS AccessControl, TLAPS

LEMMA NoneIsOther == None \notin User \cup Resource \cup Row \cup Gap
BY AccessAssumption DEF AccessAssumption, Row, Gap

-----------------------------------------------------------------------------
(* The invariant.                                                            *)

Issued == [state : {"signing", "live"}, user : User, rights : SUBSET Right,
           named : SUBSET Right, repeats : BOOLEAN]

Work == [stage : {"write", "select", "revoke"}, host : Gate, user : User,
         policy : Policy \cup {None}, new : Row \cup {None}, sweeps : BOOLEAN,
         sel : SUBSET Token, list : SUBSET Token, stale : BOOLEAN]

TableTypes == pol \in [User -> [Policy -> Row \cup {None}]] /\ over \subseteq Time /\ changes \in Nat

TokenTypes ==
    /\ tok \in [Token -> {NoToken} \cup Issued]
    /\ sess \in [Token -> {"none", "open", "closed"}]
    /\ why \in [Token -> Gap \cup {None}]
    /\ revoked \subseteq Token
    /\ known \in [Gate -> SUBSET Token]
    /\ \A j \in Token : tok[j] = NoToken => sess[j] = "none"

\* A row covers another when it names no less.
Covers(q, old) == q.resource = old.resource /\ Actions(old.actions) \subseteq Actions(q.actions)

\* What a request that changes policies carries: an UPDATE that does not sweep
\* names no less unless the row has been changed since it was read, and a
\* sweep has revoked what it has selected and taken off its list.
Working(v) ==
    \/ v = NoTask
    \/ /\ v \in Work
       /\ v.stage = "write" =>
             /\ v.policy \in Policy /\ v.new \in Row /\ v.list = {}
             /\ v.sweeps \/ v.stale
                \/ (pol[v.user][v.policy] # None /\ Covers(v.new, pol[v.user][v.policy]))
       /\ v.stage = "select" => v.list = {}
       /\ v.stage = "revoke" => v.list \subseteq v.sel /\ v.sel \subseteq v.list \cup revoked

TaskInv ==
    /\ DOMAIN task = Task /\ task = [t \in Task |-> task[t]]
    /\ \A t \in Task : Working(task[t])

\* Where a token stands: one still being signed that carries a right its user
\* has lost has fallen, a live one is swept; the sweep finds it because its row
\* is open.
Standing(j) ==
    /\ tok[j].state = "signing" /\ Excess(j) # {} => why[j] # None
    /\ tok[j].state = "live" =>
          \/ j \in revoked
          \/ why[j] # None
          \/ sess[j] = "open" /\ (Excess(j) # {} => \E t \in Task : Sweeping(t, j))

TokenInv == \A j \in Token : Standing(j)

AccessInv == TableTypes /\ TokenTypes /\ TaskInv /\ TokenInv /\ RightsAreNamed

-----------------------------------------------------------------------------
(* The rights a set of rows names.                                           *)

LEMMA NamedHas ==
    ASSUME NEW rows, NEW x
    PROVE  x \in Named(rows) <=> \E q \in rows : x \in {q.resource} \X Actions(q.actions)
<1> DEFINE B(q) == {q.resource} \X Actions(q.actions)
<1>1. Named(rows) = UNION {B(q) : q \in rows}
  BY DEF Named
<1> HIDE DEF B
<1>2. x \in UNION {B(q) : q \in rows} <=> \E q \in rows : x \in B(q)
  OBVIOUS
<1> QED
  BY <1>1, <1>2 DEF B

LEMMA NamedGrows ==
    ASSUME NEW rows, NEW more, \A q \in rows : \E n \in more : Covers(n, q)
    PROVE  Named(rows) \subseteq Named(more)
<1> SUFFICES ASSUME NEW x \in Named(rows)
             PROVE  x \in Named(more)
  OBVIOUS
<1>1. PICK q \in rows : x \in {q.resource} \X Actions(q.actions)
  BY NamedHas
<1>2. PICK n \in more : Covers(n, q)
  OBVIOUS
<1>3. x \in {n.resource} \X Actions(n.actions)
  BY <1>1, <1>2 DEF Covers
<1> QED
  BY <1>2, <1>3, NamedHas

LEMMA NamedAreRights ==
    ASSUME NEW rows, rows \subseteq Row
    PROVE  Named(rows) \subseteq Right
<1> SUFFICES ASSUME NEW x \in Named(rows)
             PROVE  x \in Right
  OBVIOUS
<1>1. PICK q \in rows : x \in {q.resource} \X Actions(q.actions)
  BY NamedHas
<1>2. q.resource \in Resource /\ Actions(q.actions) \subseteq Bit
  BY DEF Row, Actions
<1> QED
  BY <1>1, <1>2 DEF Right

LEMMA NoneIsNoRow == None \notin Row /\ \A q \in Row : q # None
BY NoneIsOther

LEMMA RowsHas ==
    ASSUME NEW u, NEW q
    PROVE  q \in Rows(u) <=>
              \E p \in Policy : pol[u][p] # None /\ pol[u][p].until \notin over /\ pol[u][p] = q
BY DEF Rows, RowsAt

LEMMA RowsAreRows ==
    ASSUME TableTypes, NEW u \in User
    PROVE  Rows(u) \subseteq Row
BY DEF TableTypes, Rows, RowsAt

\* The rows of a user after a commit on one policy.
LEMMA RowsLater ==
    ASSUME TableTypes, NEW u \in User, NEW p \in Policy, NEW q \in Row \cup {None},
           pol'[u] = [pol[u] EXCEPT ![p] = q], over' = over
    PROVE  Rows(u)' = With(u, p, q)
<1>1. /\ pol'[u][p] = q
      /\ \A r \in Policy : r # p => pol'[u][r] = pol[u][r]
  BY DEF TableTypes
<1>2. ASSUME NEW x
      PROVE  x \in Rows(u)' <=> x \in With(u, p, q)
  <2>1. x \in Rows(u)' <=>
           \E r \in Policy : pol'[u][r] # None /\ pol'[u][r].until \notin over /\ pol'[u][r] = x
    BY DEF Rows, RowsAt
  <2>2. x \in With(u, p, q)
          <=> \/ \E r \in Policy \ {p} :
                    pol[u][r] # None /\ pol[u][r].until \notin over /\ pol[u][r] = x
              \/ q # None /\ q.until \notin over /\ x = q
    BY DEF With
  <2> QED
    BY <1>1, <2>1, <2>2
<1> QED
  BY <1>2

\* A row that covers the one it replaces, and is valid as long, takes nothing away.
LEMMA NothingLost ==
    ASSUME NEW u \in User, NEW p \in Policy, NEW q,
           q # None,
           pol[u][p] = None \/ (Covers(q, pol[u][p]) /\ q.until = pol[u][p].until)
    PROVE  Named(Rows(u)) \subseteq Named(With(u, p, q))
<1>1. ASSUME NEW x \in Rows(u)
      PROVE  \E n \in With(u, p, q) : Covers(n, x)
  <2>1. PICK r \in Policy : pol[u][r] # None /\ pol[u][r].until \notin over /\ pol[u][r] = x
    BY <1>1, RowsHas
  <2>2. IF r = p THEN q \in With(u, p, q) ELSE x \in With(u, p, q)
    BY <2>1 DEF With
  <2> QED
    BY <2>1, <2>2 DEF Covers
<1> QED
  BY <1>1, NamedGrows

-----------------------------------------------------------------------------
(* What a token carries too much.                                            *)

LEMMA NoTokenIsNobodys == NoToken.user \notin User /\ NoToken.state = "none" /\ NoToken \notin Issued
BY NoneIsOther DEF NoToken, Issued

LEMMA TokenCases ==
    ASSUME TokenTypes, NEW j \in Token
    PROVE  \/ tok[j] = NoToken
           \/ tok[j] \in Issued /\ tok[j].state \in {"signing", "live"} /\ tok[j].user \in User
BY DEF TokenTypes, Issued

LEMMA ExcessShrinks ==
    ASSUME NEW j, NEW u, tok[j].user = u, tok'[j].user = u,
           tok'[j].state # "none", tok[j].state # "none",
           tok'[j].rights = tok[j].rights, tok'[j].named = tok[j].named,
           Named(Rows(u)) \subseteq Named(Rows(u))'
    PROVE  Excess(j)' \subseteq Excess(j)
<1>1. Excess(j) = (tok[j].rights \cap tok[j].named) \ Named(Rows(u))
  BY DEF Excess
<1>2. Excess(j)' = (tok[j].rights \cap tok[j].named) \ Named(Rows(u))'
  BY DEF Excess
<1> QED
  BY <1>1, <1>2

\* With the tables as they are the excess of a token that only moves on is the same.
LEMMA ExcessRests ==
    ASSUME NEW j, pol' = pol, over' = over, tok'[j].user = tok[j].user,
           tok'[j].state # "none", tok[j].state # "none",
           tok'[j].rights = tok[j].rights, tok'[j].named = tok[j].named
    PROVE  Excess(j)' = Excess(j)
BY DEF Excess, Named, Rows, RowsAt

LEMMA NamedRest ==
    ASSUME pol' = pol, over' = over, NEW u
    PROVE  Named(Rows(u))' = Named(Rows(u))
BY DEF Named, Rows, RowsAt

LEMMA ExcessSame ==
    ASSUME pol' = pol, over' = over, NEW i, tok'[i] = tok[i]
    PROVE  Excess(i)' = Excess(i)
BY DEF Excess, Named, Rows, RowsAt

LEMMA ExcessNone ==
    ASSUME pol' = pol, over' = over, NEW i, NEW u, tok'[i].user = u, tok'[i].named = Named(Rows(u))
    PROVE  Excess(i)' = {}
BY DEF Excess, Named, Rows, RowsAt

-----------------------------------------------------------------------------
(* What the steps have in common.                                            *)

LEMMA Falls ==
    ASSUME NEW S, NEW gap \in Gap, Fall(S, gap), TokenTypes
    PROVE  /\ why' \in [Token -> Gap \cup {None}]
           /\ \A j \in Token : why[j] # None => why'[j] # None
           /\ \A j \in Token : j \in S => why'[j] # None
BY NoneIsOther DEF Fall, TokenTypes

\* Sweeps go on: nothing but their own steps ends them.
SweepsGoOn == \A j \in Token :
    (\E t \in Task : Sweeping(t, j)) => \E t \in Task : Sweeping(t, j)'

LEMMA StandsStill ==
    ASSUME NEW j \in Token, TokenTypes, Standing(j), tok'[j] = tok[j],
           sess'[j] = sess[j], revoked \subseteq revoked', why[j] # None => why'[j] # None,
           \/ /\ Excess(j)' \subseteq Excess(j)
              /\ (\E t \in Task : Sweeping(t, j)) => \E t \in Task : Sweeping(t, j)'
           \/ why'[j] # None
           \/ tok[j].state = "live" /\ \E t \in Task : Sweeping(t, j)'
    PROVE  Standing(j)'
BY DEF Standing

LEMMA WorkingStays ==
    ASSUME NEW v, Working(v), revoked \subseteq revoked',
           \/ v.stage # "write"
           \/ v.stale
           \/ pol'[v.user][v.policy] = pol[v.user][v.policy]
    PROVE  Working(v)'
BY DEF Working

LEMMA WorkingIs ==
    ASSUME NEW t, NEW v, task'[t] = v, Working(v)'
    PROVE  Working(task[t])'
BY DEF Working

\* A commit on a policy marks the requests that have read its row.
LEMMA Outdated ==
    ASSUME TaskInv, NEW us \in SUBSET User, NEW p \in Policy, revoked' = revoked,
           \A u \in User, r \in Policy : pol'[u][r] = pol[u][r] \/ (u \in us /\ r = p),
           NEW t \in Task, task'[t] = Outdate(us, p)[t]
    PROVE  /\ Working(task[t])'
           /\ \A j \in Token : Sweeping(t, j) /\ tok' = tok => Sweeping(t, j)'
<1>1. Working(task[t])
  BY DEF TaskInv
<1>2. CASE task[t] = NoTask
  <2>1. task'[t] = NoTask
    BY <1>2, NoneIsOther DEF Outdate, NoTask
  <2>2. NoTask.stage = "idle" /\ NoTask.list = {}
    BY DEF NoTask
  <2> QED
    BY <1>2, <2>1, <2>2 DEF Working, Sweeping
<1>3. CASE task[t] \in Work
  <2> DEFINE hit == task[t].user \in us /\ task[t].policy = p
  <2>1. /\ task'[t] \in Work /\ task'[t].stage = task[t].stage /\ task'[t].user = task[t].user
        /\ task'[t].policy = task[t].policy /\ task'[t].new = task[t].new
        /\ task'[t].sweeps = task[t].sweeps /\ task'[t].sel = task[t].sel
        /\ task'[t].list = task[t].list
        /\ task'[t].stale <=> (hit \/ task[t].stale)
    <3>1. CASE hit
      <4>1. task'[t] = [task[t] EXCEPT !.stale = TRUE]
        BY <3>1 DEF Outdate
      <4> QED
        BY <1>3, <3>1, <4>1 DEF Work
    <3>2. CASE ~ hit
      BY <1>3, <3>2 DEF Outdate, Work
    <3> QED
      BY <3>1, <3>2
  <2>2. task[t].stage = "write" /\ ~ hit =>
           pol'[task[t].user][task[t].policy] = pol[task[t].user][task[t].policy]
    BY <1>1, <1>3 DEF Working, Work, NoTask
  <2>3. Working(task[t])'
    BY <1>1, <1>3, <2>1, <2>2 DEF Working, NoTask, Work
  <2> QED
    BY <2>1, <2>3 DEF Sweeping
<1> QED
  BY <1>1, <1>2, <1>3 DEF Working

-----------------------------------------------------------------------------
(* Tokens and the gate.                                                      *)

\* A claim read from the policies carries no right they do not name, unless one
\* of them lists an action twice.
LEMMA ClaimGives ==
    ASSUME AccessInv, NEW j \in Token, NEW u \in User, NEW state \in {"signing", "live"},
           Claim(j, u, state)
    PROVE  \E v \in Issued :
              /\ v.state = state /\ v.user = u /\ v.named = Named(Rows(u))
              /\ v.rights \subseteq v.named \/ v.repeats
              /\ tok[j] = NoToken /\ tok' = [tok EXCEPT ![j] = v]
<1> DEFINE R(q) == {q.resource} \X Flags(q.actions)
           again == \E q \in Rows(u) : Repeats(q.actions)
<1>1. PICK rights \in Claims(u) :
         /\ tok[j] = NoToken
         /\ tok' = [tok EXCEPT ![j] = [state |-> state, user |-> u, rights |-> rights,
                                       named |-> Named(Rows(u)), repeats |-> again]]
  BY DEF Claim
<1>2. PICK S \in SUBSET Rows(u) : rights = UNION {R(q) : q \in S}
  BY DEF Claims
<1>3. Rows(u) \subseteq Row
  BY RowsAreRows DEF AccessInv
<1>4. Named(Rows(u)) \subseteq Right
  BY <1>3, NamedAreRights
<1> HIDE DEF R
<1>5. \A x \in rights : \E q \in S : x \in R(q)
  BY <1>2
<1>6. rights \subseteq Right
  <2> SUFFICES ASSUME NEW x \in rights PROVE x \in Right
    OBVIOUS
  <2>1. PICK q \in S : x \in R(q)
    BY <1>5
  <2>2. q.resource \in Resource /\ Flags(q.actions) \subseteq Bit
    BY <1>3 DEF Row, Flags
  <2> QED
    BY <2>1, <2>2 DEF R, Right
<1>7. ~ again => rights \subseteq Named(Rows(u))
  <2> SUFFICES ASSUME ~ again, NEW x \in rights PROVE x \in Named(Rows(u))
    OBVIOUS
  <2>1. PICK q \in S : x \in R(q)
    BY <1>5
  <2>2. Flags(q.actions) = Actions(q.actions)
    BY <1>3, MaskAssumption DEF Row
  <2> QED
    BY <2>1, <2>2, NamedHas DEF R
<1> DEFINE v == [state |-> state, user |-> u, rights |-> rights,
                 named |-> Named(Rows(u)), repeats |-> again]
<1>8. again \in BOOLEAN
  OBVIOUS
<1> HIDE DEF again
<1>9. v \in Issued
  BY <1>4, <1>6, <1>8 DEF Issued
<1> QED
  BY <1>1, <1>7, <1>9

LEMMA TasksRest ==
    ASSUME TaskInv, task' = task, pol' = pol, revoked' = revoked
    PROVE  TaskInv'
BY DEF TaskInv, Working

LEMMA SignInStep ==
    ASSUME AccessInv, NEW j \in Token, NEW u \in User, SignIn(j, u)
    PROVE  AccessInv'
<1>1. PICK v \in Issued :
         /\ v.state = "signing" /\ v.user = u /\ v.named = Named(Rows(u))
         /\ v.rights \subseteq v.named \/ v.repeats
         /\ tok[j] = NoToken /\ tok' = [tok EXCEPT ![j] = v]
  BY ClaimGives DEF SignIn
<1>2. UNCHANGED <<pol, over, changes, sess, revoked, known, task, why>>
  BY DEF SignIn, gateVars
<1>3. tok'[j] = v /\ \A i \in Token : i # j => tok'[i] = tok[i]
  BY <1>1 DEF AccessInv, TokenTypes
<1>4. TableTypes' /\ TaskInv'
  BY <1>2, TasksRest DEF AccessInv, TableTypes
<1>5. TokenTypes'
  BY <1>1, <1>2, <1>3, NoTokenIsNobodys DEF AccessInv, TokenTypes
<1>6. RightsAreNamed'
  BY <1>1, <1>3 DEF AccessInv, RightsAreNamed
<1>7. TokenInv'
  <2>1. Standing(j)'
    <3>1. tok'[j].user = u /\ tok'[j].named = Named(Rows(u)) /\ tok'[j].state = "signing"
      BY <1>1, <1>3
    <3>2. Excess(j)' = {}
      BY <1>2, <3>1, ExcessNone
    <3> QED
      BY <3>1, <3>2 DEF Standing
  <2>2. ASSUME NEW i \in Token, i # j
        PROVE  Standing(i)'
    <3>1. Excess(i)' = Excess(i)
      BY <1>2, <1>3, <2>2, ExcessSame
    <3>2. \A t \in Task : Sweeping(t, i)' <=> Sweeping(t, i)
      BY <1>2, <1>3, <2>2 DEF Sweeping
    <3> QED
      BY <1>2, <1>3, <2>2, <3>1, <3>2 DEF Standing, AccessInv, TokenInv
  <2> QED
    BY <2>1, <2>2 DEF TokenInv
<1> QED
  BY <1>4, <1>5, <1>6, <1>7 DEF AccessInv

LEMMA CreateSessionStep ==
    ASSUME AccessInv, NEW j \in Token, CreateSession(j)
    PROVE  AccessInv'
<1>1. /\ tok[j] \in Issued /\ tok[j].state = "signing"
      /\ tok' = [tok EXCEPT ![j] = [tok[j] EXCEPT !.state = "live"]]
      /\ sess' = [sess EXCEPT ![j] = "open"]
  BY TokenCases, NoTokenIsNobodys DEF CreateSession, AccessInv, TokenTypes
<1>2. UNCHANGED <<pol, over, changes, revoked, known, task, why>>
  BY DEF CreateSession, gateVars
<1>3. /\ tok'[j] \in Issued /\ tok'[j].state = "live" /\ tok'[j].user = tok[j].user
      /\ tok'[j].rights = tok[j].rights /\ tok'[j].named = tok[j].named
      /\ tok'[j].repeats = tok[j].repeats /\ sess'[j] = "open"
      /\ \A i \in Token : i # j => tok'[i] = tok[i] /\ sess'[i] = sess[i]
  BY <1>1 DEF AccessInv, TokenTypes, Issued
<1>4. TableTypes' /\ TaskInv'
  BY <1>2, TasksRest DEF AccessInv, TableTypes
<1>5. TokenTypes'
  BY <1>1, <1>2, <1>3, NoTokenIsNobodys DEF AccessInv, TokenTypes
<1>6. RightsAreNamed'
  BY <1>1, <1>3 DEF AccessInv, RightsAreNamed
<1>7. TokenInv'
  <2>1. Standing(j)'
    <3>1. Excess(j)' = Excess(j)
      BY <1>1, <1>2, <1>3, ExcessRests
    <3>2. Excess(j) # {} => why'[j] # None
      BY <1>1, <1>2 DEF AccessInv, TokenInv, Standing
    <3> QED
      BY <1>3, <3>1, <3>2 DEF Standing
  <2>2. ASSUME NEW i \in Token, i # j
        PROVE  Standing(i)'
    <3>1. Excess(i)' = Excess(i)
      BY <1>2, <1>3, <2>2, ExcessSame
    <3>2. \A t \in Task : Sweeping(t, i)' <=> Sweeping(t, i)
      BY <1>2, <1>3, <2>2 DEF Sweeping
    <3> QED
      BY <1>2, <1>3, <2>2, <3>1, <3>2 DEF Standing, AccessInv, TokenInv
  <2> QED
    BY <2>1, <2>2 DEF TokenInv
<1> QED
  BY <1>4, <1>5, <1>6, <1>7 DEF AccessInv

LEMMA IssueUntrackedStep ==
    ASSUME AccessInv, NEW j \in Token, NEW u \in User, IssueUntracked(j, u)
    PROVE  AccessInv'
<1>1. PICK v \in Issued :
         /\ v.state = "live" /\ v.user = u /\ v.named = Named(Rows(u))
         /\ v.rights \subseteq v.named \/ v.repeats
         /\ tok[j] = NoToken /\ tok' = [tok EXCEPT ![j] = v]
  BY ClaimGives DEF IssueUntracked
<1>2. UNCHANGED <<pol, over, changes, sess, revoked, known, task>>
  BY DEF IssueUntracked, gateVars
<1>3. tok'[j] = v /\ \A i \in Token : i # j => tok'[i] = tok[i]
  BY <1>1 DEF AccessInv, TokenTypes
<1>4. /\ why' \in [Token -> Gap \cup {None}] /\ why'[j] # None
      /\ \A i \in Token : why[i] # None => why'[i] # None
  <2>1. "untracked" \in Gap
    BY DEF Gap
  <2> QED
    BY <2>1, Falls DEF IssueUntracked, AccessInv
<1>5. TableTypes' /\ TaskInv'
  BY <1>2, TasksRest DEF AccessInv, TableTypes
<1>6. TokenTypes'
  BY <1>1, <1>2, <1>3, <1>4, NoTokenIsNobodys DEF AccessInv, TokenTypes
<1>7. RightsAreNamed'
  BY <1>1, <1>3 DEF AccessInv, RightsAreNamed
<1>8. TokenInv'
  <2>1. Standing(j)'
    BY <1>1, <1>3, <1>4 DEF Standing
  <2>2. ASSUME NEW i \in Token, i # j
        PROVE  Standing(i)'
    <3>1. Excess(i)' = Excess(i)
      BY <1>2, <1>3, <2>2, ExcessSame
    <3>2. \A t \in Task : Sweeping(t, i)' <=> Sweeping(t, i)
      BY <1>2, <1>3, <2>2 DEF Sweeping
    <3> QED
      BY <1>2, <1>3, <1>4, <2>2, <3>1, <3>2 DEF Standing, AccessInv, TokenInv
  <2> QED
    BY <2>1, <2>2 DEF TokenInv
<1> QED
  BY <1>5, <1>6, <1>7, <1>8 DEF AccessInv

LEMMA LearnStep ==
    ASSUME AccessInv, NEW w \in Gate, NEW j \in Token, Learn(w, j)
    PROVE  AccessInv'
<1>1. UNCHANGED <<pol, over, changes, tok, sess, revoked, task, why>>
  BY DEF Learn
<1>2. TokenTypes'
  BY <1>1 DEF Learn, AccessInv, TokenTypes
<1>3. TableTypes' /\ TaskInv' /\ RightsAreNamed'
  BY <1>1, TasksRest DEF AccessInv, TableTypes, RightsAreNamed
<1>4. TokenInv'
  BY <1>1 DEF AccessInv, TokenInv, Standing, Excess, Named, Rows, RowsAt, Sweeping
<1> QED
  BY <1>2, <1>3, <1>4 DEF AccessInv

-----------------------------------------------------------------------------
(* Changes of policies.                                                      *)

\* A commit on policies: no user loses a right unless its tokens fall into a gap
\* or a sweep has begun that finds them.
LEMMA CommitStep ==
    ASSUME AccessInv, TableTypes', TaskInv', SweepsGoOn,
           UNCHANGED <<tok, sess, revoked, known>>,
           why' \in [Token -> Gap \cup {None}],
           \A j \in Token : why[j] # None => why'[j] # None,
           \A u \in User :
              \/ Named(Rows(u)) \subseteq Named(Rows(u))'
              \/ \A j \in Of(u) : why'[j] # None
              \/ /\ \A j \in Signing(u) : why'[j] # None
                 /\ \E t \in Task : task'[t].user = u /\ task'[t].stage = "select"
    PROVE  AccessInv'
<1>1. TokenTypes'
  BY DEF AccessInv, TokenTypes
<1>2. RightsAreNamed'
  BY DEF AccessInv, RightsAreNamed
<1>3. TokenInv'
  <2> SUFFICES ASSUME NEW j \in Token
               PROVE  Standing(j)'
    BY DEF TokenInv
  <2>1. Standing(j) /\ TokenTypes /\ tok'[j] = tok[j] /\ sess'[j] = sess[j]
    BY DEF AccessInv, TokenInv
  <2>2. CASE tok[j] = NoToken
    BY <2>1, <2>2, NoTokenIsNobodys DEF Standing
  <2>3. CASE tok[j] \in Issued
    <3>1. PICK u \in User : u = tok[j].user
      BY <2>3 DEF Issued
    <3>2. j \in Of(u) /\ (tok[j].state = "signing" => j \in Signing(u))
          /\ tok[j].state \in {"signing", "live"}
      BY <2>3, <3>1 DEF Of, Signing, Issued
    <3>3. CASE Named(Rows(u)) \subseteq Named(Rows(u))'
      <4>1. Excess(j)' \subseteq Excess(j)
        BY <2>1, <3>1, <3>2, <3>3, ExcessShrinks
      <4> QED
        BY <2>1, <4>1, StandsStill DEF SweepsGoOn
    <3>4. CASE why'[j] # None
      BY <2>1, <3>4, StandsStill
    <3>5. CASE tok[j].state = "live"
               /\ \E t \in Task : task'[t].user = u /\ task'[t].stage = "select"
      <4>1. \E t \in Task : Sweeping(t, j)'
        BY <3>1, <3>5 DEF Sweeping
      <4> QED
        BY <2>1, <3>5, <4>1, StandsStill
    <3> QED
      BY <3>2, <3>3, <3>4, <3>5
  <2> QED
    BY <2>2, <2>3, TokenCases DEF AccessInv
<1> QED
  BY <1>1, <1>2, <1>3 DEF AccessInv

\* The requests after such a commit, when it is made on its own or by request t.
LEMMA TasksAfterCommit ==
    ASSUME TaskInv, NEW us \in SUBSET User, NEW p \in Policy, revoked' = revoked, tok' = tok,
           \A u \in User, r \in Policy : pol'[u][r] = pol[u][r] \/ (u \in us /\ r = p),
           task' = Outdate(us, p)
    PROVE  TaskInv' /\ SweepsGoOn
<1>1. DOMAIN task' = Task /\ task' = [t \in Task |-> task'[t]]
  BY DEF Outdate
<1>2. \A t \in Task : task'[t] = Outdate(us, p)[t]
  OBVIOUS
<1>3. ASSUME NEW t \in Task
      PROVE  Working(task[t])' /\ \A j \in Token : Sweeping(t, j) => Sweeping(t, j)'
  BY <1>2, Outdated
<1> QED
  BY <1>1, <1>3 DEF TaskInv, SweepsGoOn

\* Request t commits a change of policy p of user v and goes on as x.
CommitsBy(t, v, p, x) == task' = [Outdate({v}, p) EXCEPT ![t] = x]

LEMMA TasksAfterCommitBy ==
    ASSUME TaskInv, NEW v \in User, NEW p \in Policy, revoked' = revoked, tok' = tok,
           \A u \in User, r \in Policy : pol'[u][r] = pol[u][r] \/ (u \in {v} /\ r = p),
           NEW t \in Task, NEW x, CommitsBy(t, v, p, x),
           Working(x)', \A j \in Token : ~ Sweeping(t, j)
    PROVE  TaskInv' /\ SweepsGoOn /\ task'[t] = x
<1>1. DOMAIN task' = Task /\ task' = [s \in Task |-> task'[s]] /\ task'[t] = x
  BY DEF CommitsBy, Outdate
<1>2. \A s \in Task : s # t => task'[s] = Outdate({v}, p)[s]
  BY DEF CommitsBy, Outdate
<1>3. ASSUME NEW s \in Task, s # t
      PROVE  Working(task[s])' /\ \A j \in Token : Sweeping(s, j) => Sweeping(s, j)'
  BY <1>2, <1>3, Outdated
<1>4. Working(task[t])'
  BY <1>1, WorkingIs
<1> QED
  BY <1>1, <1>3, <1>4 DEF TaskInv, SweepsGoOn

LEMMA CreatePolicyStep ==
    ASSUME AccessInv, NEW u \in User, NEW p \in Policy, NEW q \in Row, CreatePolicy(u, p, q)
    PROVE  AccessInv'
<1>1. /\ pol[u][p] = None /\ pol' = [pol EXCEPT ![u][p] = q]
      /\ changes' \in Nat /\ task' = Outdate({u}, p)
      /\ UNCHANGED <<over, tok, sess, revoked, known, why>>
  BY DEF CreatePolicy, Change, gateVars, AccessInv, TableTypes
<1>2. TableTypes'
  BY <1>1 DEF AccessInv, TableTypes
<1>3. /\ pol'[u] = [pol[u] EXCEPT ![p] = q]
      /\ \A v \in User : v # u => pol'[v] = pol[v]
      /\ \A v \in User, r \in Policy : pol'[v][r] = pol[v][r] \/ (v \in {u} /\ r = p)
  BY <1>1 DEF AccessInv, TableTypes
<1>4. TaskInv' /\ SweepsGoOn
  BY <1>1, <1>3, TasksAfterCommit DEF AccessInv
<1>5. Named(Rows(u)) \subseteq Named(Rows(u))'
  <2>1. Rows(u)' = With(u, p, q)
    BY <1>1, <1>3, RowsLater DEF AccessInv
  <2>2. Named(Rows(u)) \subseteq Named(With(u, p, q))
    BY <1>1, NothingLost, NoneIsNoRow
  <2> QED
    BY <2>1, <2>2 DEF Named
<1>6. ASSUME NEW v \in User, v # u
      PROVE  Named(Rows(v)) \subseteq Named(Rows(v))'
  BY <1>1, <1>3, <1>6 DEF Named, Rows, RowsAt
<1> QED
  BY <1>1, <1>2, <1>4, <1>5, <1>6, CommitStep DEF AccessInv, TokenTypes

LEMMA BulkAssignStep ==
    ASSUME AccessInv, NEW us \in SUBSET User, NEW p \in Policy, NEW q \in Row,
           BulkAssign(us, p, q)
    PROVE  AccessInv'
<1> DEFINE loser(u) == u \in us /\ Lost(u, With(u, p, q)) # {}
<1>1. /\ pol' = [u \in User |-> IF u \in us THEN [pol[u] EXCEPT ![p] = q] ELSE pol[u]]
      /\ changes' \in Nat /\ task' = Outdate(us, p)
      /\ Fall({j \in Token : \E u \in us : j \in Of(u) /\ loser(u)}, "bulk")
      /\ UNCHANGED <<over, tok, sess, revoked, known>>
  BY DEF BulkAssign, Change, gateVars, AccessInv, TableTypes
<1>2. TableTypes'
  BY <1>1 DEF AccessInv, TableTypes
<1>3. /\ \A u \in us : pol'[u] = [pol[u] EXCEPT ![p] = q]
      /\ \A v \in User : v \notin us => pol'[v] = pol[v]
      /\ \A v \in User, r \in Policy : pol'[v][r] = pol[v][r] \/ (v \in us /\ r = p)
  BY <1>1 DEF AccessInv, TableTypes
<1>4. TaskInv' /\ SweepsGoOn
  BY <1>1, <1>3, TasksAfterCommit DEF AccessInv
<1>5. /\ why' \in [Token -> Gap \cup {None}]
      /\ \A j \in Token : why[j] # None => why'[j] # None
      /\ \A u \in us : \A j \in Of(u) : loser(u) => why'[j] # None
  <2>1. "bulk" \in Gap /\ TokenTypes
    BY DEF Gap, AccessInv
  <2> DEFINE S == {j \in Token : \E u \in us : j \in Of(u) /\ loser(u)}
  <2>2. \A u \in us : \A j \in Of(u) : loser(u) => j \in S /\ j \in Token
    BY DEF Of
  <2> HIDE DEF loser
  <2>3. Fall(S, "bulk")
    BY <1>1
  <2> HIDE DEF S
  <2> QED
    BY <2>1, <2>2, <2>3, Falls
<1>6. ASSUME NEW u \in us, ~ loser(u)
      PROVE  Named(Rows(u)) \subseteq Named(Rows(u))'
  <2>1. Rows(u)' = With(u, p, q)
    BY <1>1, <1>3, RowsLater DEF AccessInv
  <2>2. Named(Rows(u)) \subseteq Named(With(u, p, q))
    BY <1>6 DEF Lost
  <2> QED
    BY <2>1, <2>2 DEF Named
<1>7. ASSUME NEW v \in User, v \notin us
      PROVE  Named(Rows(v)) \subseteq Named(Rows(v))'
  BY <1>1, <1>3, <1>7 DEF Named, Rows, RowsAt
<1>8. \A u \in User : \/ Named(Rows(u)) \subseteq Named(Rows(u))'
                      \/ \A j \in Of(u) : why'[j] # None
  <2> HIDE DEF loser
  <2> QED
    BY <1>5, <1>6, <1>7
<1> QED
  BY <1>1, <1>2, <1>4, <1>5, <1>8, CommitStep

LEMMA UpdateReadStep ==
    ASSUME AccessInv, NEW t \in Task, NEW w \in Gate, NEW u \in User, NEW p \in Policy,
           NEW resource \in Resource \cup {None}, NEW actions \in ActionBag \cup {None},
           NEW until \in Time \cup {None}, UpdateRead(t, w, u, p, resource, actions, until)
    PROVE  AccessInv'
<1> DEFINE old == pol[u][p]
           bag == IF actions = None THEN old.actions ELSE actions
           new == Updated(old, resource, actions, until)
           loses == resource # old.resource \/ Actions(old.actions) \ Actions(new.actions) # {}
           work == [NoTask EXCEPT !.stage = "write", !.host = w, !.user = u, !.policy = p,
                                  !.new = new, !.sweeps = loses]
<1>1. /\ task[t] = NoTask /\ old # None /\ task' = [task EXCEPT ![t] = work]
      /\ UNCHANGED <<pol, over, changes, tok, sess, revoked, known, why>>
  BY DEF UpdateRead, gateVars
<1>2. old \in Row /\ old.resource \in Resource /\ old.actions \in ActionBag
  BY <1>1 DEF AccessInv, TableTypes, Row
<1>3. bag \in ActionBag
  BY <1>2
<1>4. new \in Row
  <2>1. [a \in Bit |-> IF bag[a] > 0 THEN 1 ELSE 0] \in ActionBag
    BY <1>3, AccessAssumption DEF AccessAssumption
  <2> QED
    BY <1>2, <2>1 DEF Row, Updated
<1>5. ~ loses => Covers(new, old)
  BY <1>2, NoneIsOther DEF Covers, Updated
<1>6. loses \in BOOLEAN
  OBVIOUS
<1> HIDE DEF new, loses, bag
<1>0. /\ work \in Work /\ work.stage = "write" /\ work.user = u /\ work.policy = p
      /\ work.new = new /\ work.list = {} /\ work.sweeps = loses
  BY <1>4, <1>6 DEF NoTask, Work
<1> HIDE DEF work
<1>7. PICK x \in Work :
         /\ x = work /\ x.stage = "write" /\ x.user = u /\ x.policy = p /\ x.new = new
         /\ x.list = {} /\ x.sweeps = loses
  BY <1>0
<1>8. Working(x)
  BY <1>1, <1>4, <1>5, <1>7 DEF Working
<1>9. /\ task'[t] = x /\ \A s \in Task : s # t => task'[s] = task[s]
      /\ DOMAIN task' = Task /\ task' = [s \in Task |-> task'[s]]
  BY <1>1, <1>7 DEF AccessInv, TaskInv
<1>10. TaskInv'
  <2>1. Working(x)'
    BY <1>1, <1>8, WorkingStays
  <2>2. \A s \in Task : s # t => Working(task[s])'
    BY <1>1, <1>9 DEF AccessInv, TaskInv, Working
  <2>3. Working(task[t])'
    BY <1>9, <2>1, WorkingIs
  <2> QED
    BY <1>9, <2>2, <2>3 DEF TaskInv
<1>11. SweepsGoOn
  <2>1. \A j \in Token : ~ Sweeping(t, j)
    BY <1>1 DEF Sweeping, NoTask
  <2>2. \A j \in Token, s \in Task : s # t => (Sweeping(s, j) => Sweeping(s, j)')
    BY <1>1, <1>9 DEF Sweeping
  <2> QED
    BY <2>1, <2>2 DEF SweepsGoOn
<1>12. \A v \in User : Named(Rows(v)) \subseteq Named(Rows(v))'
  BY <1>1, NamedRest
<1>13. TableTypes'
  BY <1>1 DEF AccessInv, TableTypes
<1> QED
  BY <1>1, <1>10, <1>11, <1>12, <1>13, CommitStep DEF AccessInv, TokenTypes

\* A task that stays at UPDATE or begins to sweep has swept nothing yet.
LEMMA WriteIsNoSweep ==
    ASSUME AccessInv, NEW t \in Task, task[t].stage = "write"
    PROVE  /\ task[t] \in Work /\ task[t].user \in User /\ task[t].policy \in Policy
           /\ task[t].new \in Row /\ task[t].list = {}
           /\ \A j \in Token : ~ Sweeping(t, j)
BY DEF AccessInv, TaskInv, Working, NoTask, Work, Sweeping

LEMMA IdleWorks == Working(NoTask) /\ Working(NoTask)'
BY DEF Working

LEMMA OneTaskMoves ==
    ASSUME TaskInv, NEW t \in Task, NEW x, task' = [task EXCEPT ![t] = x], Working(x)',
           pol' = pol, revoked \subseteq revoked'
    PROVE  /\ TaskInv' /\ task'[t] = x
           /\ \A s \in Task : s # t => task'[s] = task[s]
<1>1. /\ task'[t] = x /\ \A s \in Task : s # t => task'[s] = task[s]
      /\ DOMAIN task' = Task /\ task' = [s \in Task |-> task'[s]]
  BY DEF TaskInv
<1>2. ASSUME NEW s \in Task, s # t
      PROVE  Working(task[s])'
  <2>1. PICK v : v = task[s] /\ task'[s] = v
    BY <1>1, <1>2
  <2>2. Working(v)
    BY <2>1 DEF TaskInv
  <2>3. Working(v)'
    BY <2>2, WorkingStays
  <2> QED
    BY <2>1, <2>3, WorkingIs
<1>3. Working(task[t])'
  BY <1>1, WorkingIs
<1> QED
  BY <1>1, <1>2, <1>3 DEF TaskInv

LEMMA UpdateWriteStep ==
    ASSUME AccessInv, NEW t \in Task, UpdateWrite(t)
    PROVE  AccessInv'
<1>1. PICK u \in User, p \in Policy, q \in Row :
         /\ u = task[t].user /\ p = task[t].policy /\ q = task[t].new
         /\ task[t] \in Work /\ task[t].stage = "write" /\ task[t].list = {}
         /\ \A j \in Token : ~ Sweeping(t, j)
  BY WriteIsNoSweep DEF UpdateWrite
<1>2. PICK x : x = IF task[t].sweeps THEN [task[t] EXCEPT !.stage = "select"] ELSE NoTask
  OBVIOUS
<1>3. /\ x = NoTask \/ (x \in Work /\ x.stage = "select" /\ x.list = {})
      /\ task[t].sweeps => x.stage = "select" /\ x.user = u
      /\ Working(x)'
  BY <1>1, <1>2 DEF Work, Working
<1>4. UNCHANGED <<over, tok, sess, revoked, known>>
  BY DEF UpdateWrite, gateVars
<1>5. CASE pol[u][p] = None
  <2>1. task' = [task EXCEPT ![t] = x] /\ UNCHANGED <<pol, over, changes, why>>
    BY <1>1, <1>2, <1>5 DEF UpdateWrite
  <2>2. TaskInv' /\ \A s \in Task : s # t => task'[s] = task[s]
    BY <1>3, <1>4, <2>1, OneTaskMoves DEF AccessInv
  <2>3. SweepsGoOn
    BY <1>1, <1>4, <2>2 DEF SweepsGoOn, Sweeping
  <2>4. \A v \in User : Named(Rows(v)) \subseteq Named(Rows(v))'
    BY <2>1, NamedRest
  <2> QED
    BY <1>4, <2>1, <2>2, <2>3, <2>4, CommitStep DEF AccessInv, TableTypes, TokenTypes
<1>6. CASE pol[u][p] # None
  <2>1. /\ changes' \in Nat /\ pol' = [pol EXCEPT ![u][p] = q]
        /\ task' = [Outdate({u}, p) EXCEPT ![t] = x]
        /\ task[t].sweeps => TakesAway(u, With(u, p, q))
        /\ ~ task[t].sweeps => Unswept(t, With(u, p, q))
    <3>1. Change /\ pol' = [pol EXCEPT ![u][p] = q]
      BY <1>1, <1>6 DEF UpdateWrite
    <3>2. task' = [Outdate({u}, p) EXCEPT ![t] = x]
      BY <1>1, <1>2, <1>6 DEF UpdateWrite
    <3>3. /\ task[t].sweeps => TakesAway(u, With(u, p, q))
          /\ ~ task[t].sweeps => Unswept(t, With(u, p, q))
      BY <1>1, <1>6 DEF UpdateWrite
    <3> QED
      BY <3>1, <3>2, <3>3 DEF Change, AccessInv, TableTypes
  <2>2. TableTypes'
    BY <1>1, <1>4, <2>1 DEF AccessInv, TableTypes
  <2>3. /\ pol'[u] = [pol[u] EXCEPT ![p] = q]
        /\ \A v \in User : v # u => pol'[v] = pol[v]
        /\ \A v \in User, r \in Policy : pol'[v][r] = pol[v][r] \/ (v \in {u} /\ r = p)
    BY <2>1 DEF AccessInv, TableTypes
  <2>4. TaskInv' /\ SweepsGoOn /\ task'[t] = x
    <3>1. CommitsBy(t, u, p, x)
      BY <2>1 DEF CommitsBy
    <3> QED
      BY <1>1, <1>3, <1>4, <2>3, <3>1, TasksAfterCommitBy DEF AccessInv
  <2>5. Named(Rows(u))' = Named(With(u, p, q))
    <3>1. Rows(u)' = With(u, p, q)
      BY <1>4, <2>3, RowsLater DEF AccessInv
    <3> QED
      BY <3>1 DEF Named
  <2>6. /\ why' \in [Token -> Gap \cup {None}]
        /\ \A j \in Token : why[j] # None => why'[j] # None
    <3>1. CASE task[t].sweeps
      BY <2>1, <3>1, Falls DEF TakesAway, Gap, AccessInv
    <3>2. CASE ~ task[t].sweeps
      <4>1. Fall(Of(u), "overlap") \/ Fall(Of(u), "conditions") \/ why' = why
        BY <1>1, <2>1, <3>2 DEF Unswept
      <4> QED
        BY <4>1, Falls DEF Gap, AccessInv, TokenTypes
    <3> QED
      BY <3>1, <3>2
  <2>7. \/ Named(Rows(u)) \subseteq Named(Rows(u))'
        \/ \A j \in Of(u) : why'[j] # None
        \/ /\ \A j \in Signing(u) : why'[j] # None
           /\ \E s \in Task : task'[s].user = u /\ task'[s].stage = "select"
    <3>1. CASE task[t].sweeps
      <4>1. CASE Lost(u, With(u, p, q)) = {}
        BY <2>5, <4>1 DEF Lost
      <4>2. CASE Lost(u, With(u, p, q)) # {}
        <5>1. Fall(Signing(u), "late") /\ "late" \in Gap
          BY <2>1, <3>1, <4>2 DEF TakesAway, Gap
        <5>2. \A j \in Signing(u) : why'[j] # None
          BY <5>1, Falls DEF Signing, Of, AccessInv
        <5> QED
          BY <1>3, <2>4, <3>1, <5>2
      <4> QED
        BY <4>1, <4>2
    <3>2. CASE ~ task[t].sweeps /\ task[t].stale
      <4>1. Fall(Of(u), "overlap") /\ "overlap" \in Gap
        BY <1>1, <2>1, <3>2 DEF Gap, Unswept
      <4> QED
        BY <4>1, Falls DEF Of, AccessInv
    <3>3. CASE ~ task[t].sweeps /\ ~ task[t].stale
      <4>1. Covers(q, pol[u][p])
        BY <1>1, <3>3 DEF AccessInv, TaskInv, Working, NoTask
      <4>2. CASE q.until = pol[u][p].until
        BY <2>5, <4>1, <4>2, NothingLost, NoneIsNoRow
      <4>3. CASE Lost(u, With(u, p, q)) = {}
        BY <2>5, <4>3 DEF Lost
      <4>4. CASE q.until # pol[u][p].until /\ Lost(u, With(u, p, q)) # {}
        <5>1. Fall(Of(u), "conditions") /\ "conditions" \in Gap
          BY <1>1, <2>1, <3>3, <4>4 DEF Gap, Unswept
        <5> QED
          BY <5>1, Falls DEF Of, AccessInv
      <4> QED
        BY <4>2, <4>3, <4>4
    <3> QED
      BY <3>1, <3>2, <3>3
  <2>8. ASSUME NEW v \in User, v # u
        PROVE  Named(Rows(v)) \subseteq Named(Rows(v))'
    BY <1>4, <2>3, <2>8 DEF Named, Rows, RowsAt
  <2> QED
    BY <1>4, <2>2, <2>4, <2>6, <2>7, <2>8, CommitStep
<1> QED
  BY <1>5, <1>6

LEMMA DeletePolicyStep ==
    ASSUME AccessInv, NEW t \in Task, NEW w \in Gate, NEW u \in User, NEW p \in Policy,
           DeletePolicy(t, w, u, p)
    PROVE  AccessInv'
<1>1. PICK x : x = [NoTask EXCEPT !.stage = "select", !.host = w, !.user = u]
  OBVIOUS
<1>2. /\ x \in Work /\ x.stage = "select" /\ x.user = u /\ x.list = {}
      /\ Working(x)'
  BY <1>1 DEF NoTask, Work, Working
<1>3. /\ task[t] = NoTask /\ changes' \in Nat /\ pol' = [pol EXCEPT ![u][p] = None]
      /\ task' = [Outdate({u}, p) EXCEPT ![t] = x]
      /\ TakesAway(u, With(u, p, None))
      /\ UNCHANGED <<over, tok, sess, revoked, known>>
  BY <1>1 DEF DeletePolicy, Change, gateVars, AccessInv, TableTypes
<1>4. TableTypes'
  BY <1>3 DEF AccessInv, TableTypes
<1>5. /\ pol'[u] = [pol[u] EXCEPT ![p] = None]
      /\ \A v \in User : v # u => pol'[v] = pol[v]
      /\ \A v \in User, r \in Policy : pol'[v][r] = pol[v][r] \/ (v \in {u} /\ r = p)
  BY <1>3 DEF AccessInv, TableTypes
<1>6. TaskInv' /\ SweepsGoOn /\ task'[t] = x
  <2>1. \A j \in Token : ~ Sweeping(t, j)
    BY <1>3 DEF Sweeping, NoTask
  <2>2. CommitsBy(t, u, p, x) /\ UNCHANGED <<tok, revoked>>
    BY <1>3 DEF CommitsBy
  <2> QED
    BY <1>2, <1>5, <2>1, <2>2, TasksAfterCommitBy DEF AccessInv
<1>7. Named(Rows(u))' = Named(With(u, p, None))
  <2>1. Rows(u)' = With(u, p, None)
    BY <1>3, <1>5, RowsLater DEF AccessInv
  <2> QED
    BY <2>1 DEF Named
<1>8. /\ why' \in [Token -> Gap \cup {None}]
      /\ \A j \in Token : why[j] # None => why'[j] # None
  BY <1>3, Falls DEF TakesAway, Gap, AccessInv
<1>9. \/ Named(Rows(u)) \subseteq Named(Rows(u))'
      \/ /\ \A j \in Signing(u) : why'[j] # None
         /\ \E s \in Task : task'[s].user = u /\ task'[s].stage = "select"
  <2>1. CASE Lost(u, With(u, p, None)) = {}
    BY <1>7, <2>1 DEF Lost
  <2>2. CASE Lost(u, With(u, p, None)) # {}
    <3>1. Fall(Signing(u), "late") /\ "late" \in Gap
      BY <1>3, <2>2 DEF TakesAway, Gap
    <3>2. \A j \in Signing(u) : why'[j] # None
      BY <3>1, Falls DEF Signing, Of, AccessInv
    <3> QED
      BY <1>2, <1>6, <3>2
  <2> QED
    BY <2>1, <2>2
<1>10. ASSUME NEW v \in User, v # u
       PROVE  Named(Rows(v)) \subseteq Named(Rows(v))'
  BY <1>3, <1>5, <1>10 DEF Named, Rows, RowsAt
<1> QED
  BY <1>3, <1>4, <1>6, <1>8, <1>9, <1>10, CommitStep

\* Validity that ends takes rights away only from users whose tokens fall.
LEMMA LapseStep ==
    ASSUME AccessInv, NEW m \in Time, Lapse(m)
    PROVE  AccessInv'
<1> DEFINE loser(u) == Lost(u, RowsAt(u, over \cup {m})) # {}
           S == {j \in Token : \E u \in User : j \in Of(u) /\ loser(u)}
<1>1. /\ over' = over \cup {m} /\ Fall(S, "lapsed")
      /\ UNCHANGED <<pol, changes, tok, sess, revoked, known, task>>
  BY DEF Lapse, gateVars
<1>2. TableTypes' /\ TaskInv'
  BY <1>1, TasksRest DEF AccessInv, TableTypes
<1>3. SweepsGoOn
  BY <1>1 DEF SweepsGoOn, Sweeping
<1>4. ASSUME NEW u \in User, ~ loser(u)
      PROVE  Named(Rows(u)) \subseteq Named(Rows(u))'
  BY <1>1, <1>4 DEF Lost, Named, Rows, RowsAt
<1>5. \A u \in User : loser(u) => \A j \in Of(u) : j \in S /\ j \in Token
  BY DEF Of
<1> HIDE DEF S, loser
<1>6. /\ why' \in [Token -> Gap \cup {None}]
      /\ \A j \in Token : why[j] # None => why'[j] # None
      /\ \A j \in Token : j \in S => why'[j] # None
  <2>1. "lapsed" \in Gap /\ TokenTypes
    BY DEF Gap, AccessInv
  <2> QED
    BY <1>1, <2>1, Falls
<1>7. \A u \in User : \/ Named(Rows(u)) \subseteq Named(Rows(u))'
                      \/ \A j \in Of(u) : why'[j] # None
  BY <1>4, <1>5, <1>6
<1> QED
  BY <1>1, <1>2, <1>3, <1>6, <1>7, CommitStep

-----------------------------------------------------------------------------
(* Sweeps.                                                                   *)

\* A step of a sweep: policies and tokens stay as they are.
LEMMA SweepStep ==
    ASSUME AccessInv, TokenTypes', TaskInv', UNCHANGED <<pol, over, changes, tok>>,
           revoked \subseteq revoked', \A j \in Token : why[j] # None => why'[j] # None,
           \A j \in Token : sess'[j] = sess[j] \/ j \in revoked' \/ why'[j] # None,
           \A j \in Token : tok[j].state = "live" /\ sess[j] = "open" =>
              \/ j \in revoked' \/ why'[j] # None
              \/ (\E t \in Task : Sweeping(t, j)) => \E t \in Task : Sweeping(t, j)'
    PROVE  AccessInv'
<1>1. TableTypes' /\ RightsAreNamed'
  BY DEF AccessInv, TableTypes, RightsAreNamed
<1>2. ASSUME NEW j \in Token
      PROVE  Standing(j)'
  <2>1. Excess(j)' = Excess(j)
    BY ExcessSame
  <2>2. Standing(j)
    BY DEF AccessInv, TokenInv
  <2> QED
    BY <2>1, <2>2 DEF Standing
<1> QED
  BY <1>1, <1>2 DEF AccessInv, TokenInv

LEMMA SweepSelectStep ==
    ASSUME AccessInv, NEW t \in Task, SweepSelect(t)
    PROVE  AccessInv'
<1>1. PICK u : u = task[t].user
  OBVIOUS
<1>2. /\ task[t] \in Work /\ task[t].stage = "select"
      /\ UNCHANGED <<pol, over, changes, tok, sess, revoked, known, why>>
  BY DEF SweepSelect, gateVars, AccessInv, TaskInv, Working, NoTask
<1>3. PICK open, x : /\ open = Open(u)
                     /\ x = IF open = {} THEN NoTask
                            ELSE [task[t] EXCEPT !.stage = "revoke", !.sel = open, !.list = open]
  OBVIOUS
<1>4. open \subseteq Token /\ task' = [task EXCEPT ![t] = x]
  BY <1>1, <1>2, <1>3 DEF SweepSelect, Open, Of, AccessInv, TaskInv
<1>5. open # {} => /\ x \in Work /\ x.stage = "revoke" /\ x.user = u
                   /\ x.sel = open /\ x.list = open
  BY <1>1, <1>2, <1>3, <1>4 DEF Work
<1>6. Working(x)'
  BY <1>3, <1>5, IdleWorks DEF Working
<1>7. TaskInv' /\ task'[t] = x /\ \A s \in Task : s # t => task'[s] = task[s]
  BY <1>2, <1>4, <1>6, OneTaskMoves DEF AccessInv
<1>8. TokenTypes'
  BY <1>2 DEF AccessInv, TokenTypes
<1>9. ASSUME NEW j \in Token, sess[j] = "open", NEW s \in Task, Sweeping(s, j)
      PROVE  \E r \in Task : Sweeping(r, j)'
  <2>1. CASE s # t
    BY <1>2, <1>7, <1>9, <2>1 DEF Sweeping
  <2>2. CASE s = t
    <3>1. j \in open
      BY <1>1, <1>3, <1>9, <2>2 DEF Sweeping, Open, Of
    <3> QED
      BY <1>1, <1>2, <1>5, <1>7, <1>9, <2>2, <3>1 DEF Sweeping
  <2> QED
    BY <2>1, <2>2
<1> QED
  BY <1>2, <1>7, <1>8, <1>9, SweepStep

LEMMA RevokeNextStep ==
    ASSUME AccessInv, NEW t \in Task, NEW j \in Token, RevokeNext(t, j)
    PROVE  AccessInv'
<1>1. /\ task[t] \in Work /\ task[t].stage = "revoke" /\ j \in task[t].list
      /\ task[t].list \subseteq task[t].sel /\ task[t].sel \subseteq task[t].list \cup revoked
  BY DEF RevokeNext, AccessInv, TaskInv, Working, NoTask, Work
<1>2. PICK x : x = [task[t] EXCEPT !.list = @ \ {j}]
  OBVIOUS
<1>3. /\ x \in Work /\ x.stage = "revoke" /\ x.sel = task[t].sel /\ x.user = task[t].user
      /\ x.list = task[t].list \ {j}
  BY <1>1, <1>2 DEF Work
<1>4. /\ task' = [task EXCEPT ![t] = x] /\ revoked' = revoked \cup {j}
      /\ known' = [known EXCEPT ![task[t].host] = @ \cup {j}]
      /\ UNCHANGED <<pol, over, changes, tok, sess, why>>
  BY <1>2 DEF RevokeNext, AccessInv, TaskInv
<1>5. Working(x)'
  BY <1>1, <1>3, <1>4 DEF Working
<1>6. TaskInv' /\ task'[t] = x /\ \A s \in Task : s # t => task'[s] = task[s]
  BY <1>4, <1>5, OneTaskMoves DEF AccessInv
<1>7. TokenTypes'
  BY <1>1, <1>4 DEF AccessInv, TokenTypes, Work
<1>8. ASSUME NEW i \in Token, i # j, NEW s \in Task, Sweeping(s, i)
      PROVE  \E r \in Task : Sweeping(r, i)'
  <2>1. Sweeping(s, i)'
    BY <1>1, <1>3, <1>4, <1>6, <1>8 DEF Sweeping
  <2> QED
    BY <2>1
<1>9. \A i \in Token : \/ i \in revoked'
                       \/ (\E s \in Task : Sweeping(s, i)) => \E s \in Task : Sweeping(s, i)'
  BY <1>4, <1>8
<1> QED
  BY <1>4, <1>6, <1>7, <1>9, SweepStep

LEMMA SweepUpdateStep ==
    ASSUME AccessInv, NEW t \in Task, SweepUpdate(t)
    PROVE  AccessInv'
<1>1. PICK u : u = task[t].user
  OBVIOUS
<1>2. /\ task[t].stage = "revoke" /\ task[t].list = {} /\ task[t].sel \subseteq revoked
  BY DEF SweepUpdate, AccessInv, TaskInv, Working, NoTask
<1>3. /\ sess' = [j \in Token |-> IF j \in Open(u) THEN "closed" ELSE sess[j]]
      /\ Fall(Open(u) \ task[t].sel, "swallowed")
      /\ task' = [task EXCEPT ![t] = NoTask]
      /\ UNCHANGED <<pol, over, changes, tok, revoked, known>>
  BY <1>1 DEF SweepUpdate, gateVars
<1>4. /\ why' \in [Token -> Gap \cup {None}]
      /\ \A j \in Token : why[j] # None => why'[j] # None
      /\ \A j \in Token : j \in Open(u) /\ j \notin task[t].sel => why'[j] # None
  <2>1. "swallowed" \in Gap /\ TokenTypes
    BY DEF Gap, AccessInv
  <2> QED
    BY <1>3, <2>1, Falls
<1>5. TaskInv' /\ task'[t] = NoTask /\ \A s \in Task : s # t => task'[s] = task[s]
  BY <1>3, IdleWorks, OneTaskMoves DEF AccessInv
<1>6. TokenTypes'
  BY <1>3, <1>4 DEF AccessInv, TokenTypes, Open
<1>7. \A j \in Token : sess'[j] = sess[j] \/ j \in revoked' \/ why'[j] # None
  BY <1>2, <1>3, <1>4
<1>8. ASSUME NEW j \in Token, NEW s \in Task, Sweeping(s, j)
      PROVE  \E r \in Task : Sweeping(r, j)'
  <2>1. s # t
    BY <1>2, <1>8 DEF Sweeping
  <2> QED
    BY <1>3, <1>5, <1>8, <2>1 DEF Sweeping
<1> QED
  BY <1>3, <1>4, <1>5, <1>6, <1>7, <1>8, SweepStep

LEMMA AbandonTaskStep ==
    ASSUME AccessInv, NEW t \in Task, AbandonTask(t)
    PROVE  AccessInv'
<1>1. PICK left : left = CASE task[t].stage = "select" -> Of(task[t].user)
                           [] task[t].stage = "revoke" -> task[t].list
                           [] OTHER -> {}
  OBVIOUS
<1>2. /\ task[t] \in Work /\ task' = [task EXCEPT ![t] = NoTask] /\ Fall(left, "dropped")
      /\ UNCHANGED <<pol, over, changes, tok, sess, revoked, known>>
  BY <1>1 DEF AbandonTask, gateVars, AccessInv, TaskInv, Working
<1>3. /\ why' \in [Token -> Gap \cup {None}]
      /\ \A j \in Token : why[j] # None => why'[j] # None
      /\ \A j \in Token : j \in left => why'[j] # None
  <2>1. "dropped" \in Gap /\ TokenTypes
    BY DEF Gap, AccessInv
  <2> QED
    BY <1>2, <2>1, Falls
<1>4. TaskInv' /\ task'[t] = NoTask /\ \A s \in Task : s # t => task'[s] = task[s]
  BY <1>2, IdleWorks, OneTaskMoves DEF AccessInv
<1>5. TokenTypes'
  BY <1>2, <1>3 DEF AccessInv, TokenTypes
<1>6. ASSUME NEW j \in Token, NEW s \in Task, Sweeping(s, j), j \notin left
      PROVE  \E r \in Task : Sweeping(r, j)'
  <2>1. s # t
    <3>1. task[t].stage = "write" => task[t].list = {}
      BY <1>2 DEF AccessInv, TaskInv, Working, NoTask
    <3> QED
      BY <1>1, <1>2, <1>6, <3>1 DEF Sweeping, Of, Work
  <2> QED
    BY <1>2, <1>4, <1>6, <2>1 DEF Sweeping
<1>7. \A j \in Token : \/ why'[j] # None
                       \/ (\E s \in Task : Sweeping(s, j)) => \E s \in Task : Sweeping(s, j)'
  BY <1>3, <1>6
<1> QED
  BY <1>2, <1>3, <1>4, <1>5, <1>7, SweepStep

-----------------------------------------------------------------------------
(* The theorems.                                                             *)

LEMMA AccessStart == AccessInit => AccessInv
<1> SUFFICES ASSUME AccessInit
             PROVE  AccessInv
  OBVIOUS
<1>1. TableTypes /\ TokenTypes
  BY AccessAssumption DEF AccessInit, TableTypes, TokenTypes
<1>2. TaskInv
  BY IdleWorks DEF AccessInit, TaskInv
<1>3. TokenInv
  BY NoTokenIsNobodys DEF AccessInit, TokenInv, Standing
<1>4. RightsAreNamed
  BY DEF AccessInit, RightsAreNamed, NoToken
<1> QED
  BY <1>1, <1>2, <1>3, <1>4 DEF AccessInv

LEMMA AccessStutter == AccessInv /\ UNCHANGED accessVars => AccessInv'
<1> SUFFICES ASSUME AccessInv, UNCHANGED accessVars
             PROVE  AccessInv'
  OBVIOUS
<1>1. UNCHANGED <<pol, over, tok, sess, revoked, known, task, changes, why>>
  BY DEF accessVars
<1>2. TableTypes' /\ TokenTypes' /\ RightsAreNamed'
  BY <1>1 DEF AccessInv, TableTypes, TokenTypes, RightsAreNamed
<1>3. TaskInv'
  BY <1>1, TasksRest DEF AccessInv
<1>4. TokenInv'
  BY <1>1 DEF AccessInv, TokenInv, Standing, Excess, Named, Rows, RowsAt, Sweeping
<1> QED
  BY <1>2, <1>3, <1>4 DEF AccessInv

LEMMA AccessStep == AccessInv /\ [AccessNext]_accessVars => AccessInv'
<1> SUFFICES ASSUME AccessInv, [AccessNext]_accessVars
             PROVE  AccessInv'
  OBVIOUS
<1>1. ASSUME NEW j \in Token, NEW u \in User, SignIn(j, u) \/ IssueUntracked(j, u)
      PROVE  AccessInv'
  BY <1>1, SignInStep, IssueUntrackedStep
<1>2. ASSUME NEW j \in Token, CreateSession(j)
      PROVE  AccessInv'
  BY <1>2, CreateSessionStep
<1>3. ASSUME NEW w \in Gate, NEW j \in Token, Learn(w, j)
      PROVE  AccessInv'
  BY <1>3, LearnStep
<1>4. ASSUME NEW p \in Policy, NEW q \in Row,
             \/ \E u \in User : CreatePolicy(u, p, q)
             \/ \E us \in SUBSET User : BulkAssign(us, p, q)
      PROVE  AccessInv'
  BY <1>4, CreatePolicyStep, BulkAssignStep
<1>5. ASSUME NEW t \in Task, NEW w \in Gate, NEW u \in User, NEW p \in Policy,
             \/ \E resource \in Resource \cup {None}, actions \in ActionBag \cup {None},
                   until \in Time \cup {None} :
                   UpdateRead(t, w, u, p, resource, actions, until)
             \/ DeletePolicy(t, w, u, p)
      PROVE  AccessInv'
  BY <1>5, UpdateReadStep, DeletePolicyStep
<1>6. ASSUME NEW t \in Task,
             \/ UpdateWrite(t) \/ SweepSelect(t) \/ SweepUpdate(t) \/ AbandonTask(t)
             \/ \E j \in Token : RevokeNext(t, j)
      PROVE  AccessInv'
  BY <1>6, UpdateWriteStep, SweepSelectStep, SweepUpdateStep, AbandonTaskStep, RevokeNextStep
<1>7. ASSUME NEW m \in Time, Lapse(m)
      PROVE  AccessInv'
  BY <1>7, LapseStep
<1> QED
  BY <1>1, <1>2, <1>3, <1>4, <1>5, <1>6, <1>7, AccessStutter DEF AccessNext

\* The invariant of policies and tokens: a live token that is not revoked and
\* has not fallen into a gap has an open session row, so that a sweep of its
\* user finds it, and is being swept if it carries a right its user has lost; a
\* pending UPDATE that will not sweep names no less than the row it has read.
THEOREM AccessInvariant == AccessSpec => []AccessInv
BY AccessStart, AccessStep, PTL DEF AccessSpec

LEMMA AccessInvIsTyped == AccessInv => AccessTypeOK
<1> SUFFICES ASSUME AccessInv
             PROVE  AccessTypeOK
  OBVIOUS
<1>1. ASSUME NEW j \in Token
      PROVE  \/ tok[j] = NoToken /\ sess[j] = "none"
             \/ tok[j] \in Issued
  BY TokenCases DEF AccessInv, TokenTypes
<1>2. ASSUME NEW t \in Task
      PROVE  \/ task[t] = NoTask
             \/ task[t].stage = "write" /\ task[t].user \in User /\ task[t].policy \in Policy
                /\ task[t].new \in Row
             \/ task[t].stage \in {"select", "revoke"} /\ task[t].user \in User
                /\ task[t].list \subseteq task[t].sel
  BY DEF AccessInv, TaskInv, Working, Work
<1> QED
  BY <1>1, <1>2 DEF AccessInv, TableTypes, TokenTypes, AccessTypeOK, Issued

\* Type correctness of the policy table, the tokens and the requests that change
\* policies: a token with a session row was signed in, and a sweep revokes only
\* tokens its SELECT returned (revoke_all_sessions).
THEOREM AccessTypeCorrect == AccessSpec => []AccessTypeOK
BY AccessInvariant, AccessInvIsTyped, PTL

\* Rights that are taken away are taken out of use: a token that still carries
\* one is revoked, or about to be by a sweep that has begun, or in one of the
\* named gaps (update_policy, delete_policy, bulk_assign_policy,
\* revoke_all_sessions, authenticate).
THEOREM LostRightsAreSwept == AccessSpec => []NarrowingIsSwept
<1>1. AccessInv => NarrowingIsSwept
  BY DEF AccessInv, TokenInv, Standing, NarrowingIsSwept
<1> QED
  BY <1>1, AccessInvariant, PTL

\* The sum of the flags in a claim is their union unless a policy lists an action
\* twice (authenticate, refresh, fetch_user_policies).
THEOREM ClaimsNameTheirRights == AccessSpec => []RightsAreNamed
<1>1. AccessInv => RightsAreNamed
  BY DEF AccessInv
<1> QED
  BY <1>1, AccessInvariant, PTL

\* Revocations follow the manager's promise: a worker that sweeps asks for the
\* revocation of a token and refuses it at once, the others learn only of tokens
\* that were asked for (revoke_user_tokens, revoke_token, middle_ware); for every
\* order of sweeps, changes and sign-ins.
THEOREM SweepsFollowService == AccessSpec => RevokesByService
<1>1. AccessInv /\ [AccessNext]_accessVars => [Service!ServiceNext]_<<revoked, known>>
  <2> SUFFICES ASSUME AccessInv, [AccessNext]_accessVars, ~ UNCHANGED <<revoked, known>>
               PROVE  Service!ServiceNext
    OBVIOUS
  <2>1. \/ \E w \in Gate, j \in Token : Learn(w, j)
        \/ \E t \in Task, j \in Token : RevokeNext(t, j)
    <3>1. \A j \in Token, u \in User :
             SignIn(j, u) \/ IssueUntracked(j, u) => UNCHANGED gateVars
      BY DEF SignIn, IssueUntracked
    <3>2. \A p \in Policy, q \in Row :
             /\ \A u \in User : CreatePolicy(u, p, q) => UNCHANGED gateVars
             /\ \A us \in SUBSET User : BulkAssign(us, p, q) => UNCHANGED gateVars
      BY DEF CreatePolicy, BulkAssign
    <3>3. \A t \in Task, w \in Gate, u \in User, p \in Policy :
             /\ \A resource \in Resource \cup {None}, actions \in ActionBag \cup {None},
                   until \in Time \cup {None} :
                   UpdateRead(t, w, u, p, resource, actions, until) => UNCHANGED gateVars
             /\ DeletePolicy(t, w, u, p) => UNCHANGED gateVars
      <4>1. ASSUME NEW t \in Task, NEW w \in Gate, NEW u \in User, NEW p \in Policy,
                   NEW resource, NEW actions, NEW until,
                   UpdateRead(t, w, u, p, resource, actions, until)
            PROVE  UNCHANGED gateVars
        BY <4>1 DEF UpdateRead
      <4>2. ASSUME NEW t \in Task, NEW w \in Gate, NEW u \in User, NEW p \in Policy,
                   DeletePolicy(t, w, u, p)
            PROVE  UNCHANGED gateVars
        BY <4>2 DEF DeletePolicy
      <4> QED
        BY <4>1, <4>2
    <3>4. \A t \in Task : UpdateWrite(t) \/ SweepSelect(t) \/ SweepUpdate(t) \/ AbandonTask(t)
                => UNCHANGED gateVars
      BY DEF UpdateWrite, SweepSelect, SweepUpdate, AbandonTask
    <3>5. /\ \A j \in Token : CreateSession(j) => UNCHANGED gateVars
          /\ \A m \in Time : Lapse(m) => UNCHANGED gateVars
      BY DEF CreateSession, Lapse
    <3>6. ~ UNCHANGED gateVars /\ ~ UNCHANGED accessVars
      BY DEF gateVars, accessVars
    <3> QED
      BY <3>1, <3>2, <3>3, <3>4, <3>5, <3>6 DEF AccessNext
  <2>2. ASSUME NEW w \in Gate, NEW j \in Token, Learn(w, j)
        PROVE  Service!ServiceNext
    <3>1. known' = [known EXCEPT ![w] = @ \cup {j}] /\ {j} \in SUBSET revoked
      BY <2>2 DEF Learn
    <3>2. UNCHANGED revoked
      BY <2>2 DEF Learn
    <3>3. Service!Learn(w)
      BY <3>1, <3>2 DEF Service!Learn
    <3> QED
      BY <3>3 DEF Service!ServiceNext
  <2>3. ASSUME NEW t \in Task, NEW j \in Token, RevokeNext(t, j)
        PROVE  Service!ServiceNext
    <3>1. PICK w \in Gate : w = task[t].host
      BY <2>3 DEF RevokeNext, AccessInv, TaskInv, Working, NoTask, Work
    <3>2. known' = [known EXCEPT ![w] = @ \cup {j}] /\ revoked' = revoked \cup {j}
      BY <2>3, <3>1 DEF RevokeNext
    <3>3. Service!Ask(w, j)
      BY <3>2 DEF Service!Ask
    <3> QED
      BY <3>3 DEF Service!ServiceNext
  <2> QED
    BY <2>1, <2>2, <2>3
<1> QED
  BY <1>1, AccessInvariant, PTL DEF AccessSpec, RevokesByService

=============================================================================
