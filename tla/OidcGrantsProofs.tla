-------------------------- MODULE OidcGrantsProofs --------------------------
(***************************************************************************)
(* Proofs about OidcGrants, for any users, clients, credentials and number  *)
(* of concurrent token requests.                                            *)
(***************************************************************************)
EXTENDS OidcGrants, TLAPS

USE NoCredAssumption DEF NoCredAssumption

\* What a stored credential owes to the one it was traded for.
RowInv(g) ==
    /\ row[g].family \in Stored
    /\ row[g].parent # NoCred =>
          /\ row[g].parent \in Stored
          /\ row[g].parent \in spent \cup gone
          /\ row[row[g].parent].client = row[g].client
          /\ row[row[g].parent].user = row[g].user

\* What a token request knows of its credential.
TaskInv(r) ==
    /\ task[r].at \in {"select", "spend"} => task[r].cred # NoCred
    /\ task[r] # NoTask /\ task[r].cred # NoCred => task[r].cred \in Stored
    /\ task[r].at \in {"spend", "issue"} /\ task[r].cred # NoCred =>
          /\ task[r].client = row[task[r].cred].client
          /\ task[r].user = row[task[r].cred].user
          /\ task[r].family = row[task[r].cred].family
    /\ task[r].at = "issue" /\ task[r].cred # NoCred => task[r].cred \in spent \cup gone

GrantInv ==
    /\ GrantTypeOK
    /\ \A g \in Stored : RowInv(g)
    /\ \A r \in Trade : TaskInv(r)

-----------------------------------------------------------------------------
LEMMA RowFields ==
    ASSUME GrantTypeOK, NEW g \in Stored
    PROVE  /\ g \in Cred
           /\ row[g] \in Row
           /\ row[g].kind \in {"code", "refresh"}
           /\ row[g].client \in Client
           /\ row[g].user \in User
           /\ row[g].parent \in Cred \cup {NoCred}
           /\ row[g].family \in Cred
BY DEF GrantTypeOK, Stored, Row, NoRow

LEMMA GrantTaskFields ==
    ASSUME GrantTypeOK, NEW r \in Trade, task[r] # NoTask
    PROVE  /\ task[r] \in Task
           /\ task[r].at \in {"select", "spend", "issue"}
           /\ task[r].client \in Client
           /\ task[r].cred \in Cred \cup {NoCred}
           /\ task[r].match \in BOOLEAN
           /\ task[r].user \in User
           /\ task[r].family \in Cred \cup {NoCred}
BY DEF GrantTypeOK, Task

LEMMA Running ==
    ASSUME NEW r \in Trade, task[r].at \in {"select", "spend", "issue"}
    PROVE  task[r] # NoTask
BY DEF NoTask

\* Rows are never changed or removed, and what is spent or deleted stays so.
Grows ==
    /\ \A g \in Stored : row'[g] = row[g]
    /\ Stored \subseteq Stored'
    /\ spent \subseteq spent'
    /\ gone \subseteq gone'

LEMMA GrowsKeeps ==
    ASSUME GrantInv, Grows
    PROVE  /\ \A g \in Stored : RowInv(g)'
           /\ \A r \in Trade : task'[r] = task[r] => TaskInv(r)'
<1>1. \A g \in Stored : RowInv(g)'
  <2> TAKE g \in Stored
  <2>1. RowInv(g) /\ row'[g] = row[g]
    BY DEF GrantInv, Grows
  <2>2. row[g].parent # NoCred => row'[row[g].parent] = row[row[g].parent]
    BY <2>1 DEF Grows, RowInv
  <2> QED
    BY <2>1, <2>2 DEF Grows, RowInv
<1>2. ASSUME NEW r \in Trade, task'[r] = task[r] PROVE TaskInv(r)'
  <2>1. TaskInv(r)
    BY DEF GrantInv
  <2>2. task[r] # NoTask /\ task[r].cred # NoCred => row'[task[r].cred] = row[task[r].cred]
    BY <2>1 DEF Grows, TaskInv
  <2>3. task[r].at \in {"spend", "issue"} => task[r] # NoTask
    BY Running
  <2> QED
    BY <1>2, <2>1, <2>2, <2>3 DEF Grows, TaskInv
<1> QED
  BY <1>1, <1>2

\* A new row leaves the others alone.
LEMMA InsertGrows ==
    ASSUME GrantTypeOK, NEW g \in Cred, NEW k \in {"code", "refresh"}, NEW c \in Client,
           NEW u \in User, NEW p \in Cred \cup {NoCred}, NEW f \in Cred,
           Insert(g, k, c, u, p, f)
    PROVE  /\ row' \in [Cred -> Row \cup {NoRow}]
           /\ Stored' = Stored \cup {g}
           /\ \A h \in Stored : row'[h] = row[h]
           /\ g \notin Stored
           /\ row'[g].kind = k /\ row'[g].client = c /\ row'[g].user = u
           /\ row'[g].parent = p /\ row'[g].family = f
<1> DEFINE new == [kind |-> k, client |-> c, user |-> u, parent |-> p, family |-> f]
<1>1. new \in Row /\ new # NoRow
  BY DEF Row, NoRow
<1>2. row' = [row EXCEPT ![g] = new] /\ g \notin Stored
  BY DEF Insert
<1>3. row \in [Cred -> Row \cup {NoRow}]
  BY DEF GrantTypeOK
<1>4. row'[g] = new /\ \A h \in Cred : h # g => row'[h] = row[h]
  BY <1>2, <1>3
<1>5. Stored' = Stored \cup {g}
  BY <1>1, <1>4 DEF Stored
<1> HIDE DEF new
<1>6. row' \in [Cred -> Row \cup {NoRow}]
  BY <1>1, <1>2, <1>3
<1>7. \A h \in Stored : row'[h] = row[h]
  BY <1>2, <1>4 DEF Stored
<1> QED
  BY <1>2, <1>4, <1>5, <1>6, <1>7 DEF new

-----------------------------------------------------------------------------
LEMMA GrantInvInit == GrantInit => GrantInv
<1> SUFFICES ASSUME GrantInit PROVE GrantInv
  OBVIOUS
<1>1. Stored = {}
  BY DEF GrantInit, Stored
<1>2. GrantTypeOK
  BY <1>1 DEF GrantInit, GrantTypeOK
<1>3. \A r \in Trade : TaskInv(r)
  BY DEF GrantInit, TaskInv, NoTask
<1> QED
  BY <1>1, <1>2, <1>3 DEF GrantInv

\* Browsers, clocks and client administration.
LEMMA GrantOutside ==
    ASSUME GrantInv,
           \/ \E u \in User, c \in Client : SignIn(u, c)
           \/ \E u \in User : SignOut(u)
           \/ \E g \in Cred : Expire(g)
           \/ \E c \in Client : DeleteClient(c)
    PROVE  GrantInv'
<1>1. row' = row /\ task' = task /\ spent' = spent /\ gone \subseteq gone' /\ sent' = sent /\ raced' = raced
  BY DEF SignIn, SignOut, Expire, DeleteClient, credVars
<1>2. Stored' = Stored
  BY <1>1 DEF Stored
<1>3. GrantTypeOK'
  <2>1. clients' \subseteq Client /\ cookie' \subseteq User
    BY DEF GrantInv, GrantTypeOK, SignIn, SignOut, Expire, DeleteClient
  <2>2. expired' \subseteq Stored /\ gone' \subseteq Stored
    BY DEF GrantInv, GrantTypeOK, SignIn, SignOut, Expire, DeleteClient, credVars
  <2> QED
    BY <1>1, <1>2, <2>1, <2>2 DEF GrantInv, GrantTypeOK
<1>4. Grows
  BY <1>1, <1>2 DEF Grows
<1> QED
  BY <1>1, <1>2, <1>3, <1>4, GrowsKeeps DEF GrantInv

LEMMA GrantConsent ==
    ASSUME GrantInv, NEW u \in User, NEW c \in Client, NEW g \in Cred, Consent(u, c, g)
    PROVE  GrantInv'
<1>1. Insert(g, "code", c, u, NoCred, g)
  BY DEF Consent
<1>2. /\ row' \in [Cred -> Row \cup {NoRow}]
      /\ Stored' = Stored \cup {g}
      /\ \A h \in Stored : row'[h] = row[h]
      /\ row'[g].parent = NoCred /\ row'[g].family = g
  BY <1>1, InsertGrows DEF GrantInv
<1>3. task' = task /\ spent' = spent /\ gone' = gone /\ expired' = expired /\ clients' = clients
      /\ cookie' = cookie /\ sent' = sent \cup {g} /\ raced' = raced
  BY DEF Consent
<1>4. GrantTypeOK'
  BY <1>2, <1>3 DEF GrantInv, GrantTypeOK
<1>5. Grows
  BY <1>2, <1>3 DEF Grows
<1>6. RowInv(g)'
  BY <1>2 DEF RowInv
<1> QED
  BY <1>2, <1>3, <1>4, <1>5, <1>6, GrowsKeeps DEF GrantInv

\* A request starts at the SELECT with a stored credential, or at the INSERT with none.
Fresh(t) ==
    \/ t.at = "select" /\ t.cred # NoCred /\ t.cred \in Stored
    \/ t.at = "issue" /\ t.cred = NoCred

LEMMA BeginShape ==
    ASSUME GrantInv, NEW r \in Trade, NEW c \in Client, BeginStep(r, c)
    PROVE  \E t \in Task : Begin(r, t) /\ Fresh(t)
<1>1. ASSUME NEW g \in sent, NEW match \in BOOLEAN, TokenRequest(r, c, g, match)
      PROVE  \E t \in Task : Begin(r, t) /\ Fresh(t)
  <2>1. g \in Stored /\ g \in Cred /\ row[g].user \in User
    BY RowFields DEF GrantInv, GrantTypeOK
  <2> DEFINE new == [at |-> "select", client |-> c, cred |-> g, match |-> match,
                     user |-> row[g].user, family |-> NoCred]
  <2>2. new \in Task
    BY <2>1 DEF Task
  <2>3. Begin(r, new)
    BY <1>1 DEF TokenRequest
  <2>4. Fresh(new)
    BY <2>1 DEF Fresh
  <2> QED
    BY <2>2, <2>3, <2>4, Zenon
<1>2. ASSUME NEW u \in User, TokenExchange(r, c, u)
      PROVE  \E t \in Task : Begin(r, t) /\ Fresh(t)
  <2> DEFINE new == [at |-> "issue", client |-> c, cred |-> NoCred, match |-> TRUE,
                     user |-> u, family |-> NoCred]
  <2>1. new \in Task
    BY DEF Task
  <2>2. Begin(r, new)
    BY <1>2 DEF TokenExchange
  <2>3. Fresh(new)
    BY DEF Fresh
  <2> QED
    BY <2>1, <2>2, <2>3, Zenon
<1> QED
  BY <1>1, <1>2 DEF BeginStep

LEMMA GrantBegin ==
    ASSUME GrantInv, NEW r \in Trade, NEW c \in Client, BeginStep(r, c)
    PROVE  GrantInv'
<1>1. PICK t \in Task : Begin(r, t) /\ Fresh(t)
  BY BeginShape
<1>2. task' = [task EXCEPT ![r] = t] /\ UNCHANGED <<clients, cookie, row, spent, expired, gone, sent, raced>>
  BY <1>1 DEF Begin, credVars
<1>3. Stored' = Stored
  BY <1>2 DEF Stored
<1>4. GrantTypeOK'
  BY <1>2, <1>3 DEF GrantInv, GrantTypeOK
<1>5. Grows
  BY <1>2, <1>3 DEF Grows
<1>6. task'[r] = t /\ \A q \in Trade : q # r => task'[q] = task[q]
  BY <1>2 DEF GrantInv, GrantTypeOK
<1>7. TaskInv(r)'
  BY <1>1, <1>3, <1>6 DEF TaskInv, Fresh
<1> QED
  BY <1>3, <1>4, <1>5, <1>6, <1>7, GrowsKeeps DEF GrantInv

-----------------------------------------------------------------------------
LEMMA GrantSelect ==
    ASSUME GrantInv, NEW r \in Trade, Select(r)
    PROVE  GrantInv'
<1> DEFINE t == task[r]
           s == [t EXCEPT !.at = "spend", !.user = row[t.cred].user, !.family = row[t.cred].family]
<1>1. t # NoTask /\ t.at = "select" /\ t \in Task
  BY Running, GrantTaskFields DEF Select, GrantInv
<1>2. t.cred # NoCred /\ t.cred \in Stored
  BY <1>1 DEF GrantInv, TaskInv
<1>3. row[t.cred].user \in User /\ row[t.cred].family \in Cred
  BY <1>2, RowFields DEF GrantInv
<1>4. /\ s \in Task /\ s.at = "spend" /\ s.cred = t.cred /\ s.client = t.client
      /\ s.user = row[t.cred].user /\ s.family = row[t.cred].family
  BY <1>1, <1>3 DEF Task
<1>5. UNCHANGED <<clients, cookie, row, spent, expired, gone, sent>>
      /\ raced' \subseteq raced \cup {row[t.cred].family}
  BY DEF Select, NoteRace
<1>6. task' = [task EXCEPT ![r] = IF Usable(t.cred, t.client, t.match) THEN s ELSE NoTask]
  BY DEF Select, Selected, Goto
<1> HIDE DEF s
<1>7. /\ task' \in [Trade -> Task \cup {NoTask}]
      /\ task'[r] = IF Usable(t.cred, t.client, t.match) THEN s ELSE NoTask
      /\ \A q \in Trade : q # r => task'[q] = task[q]
  BY <1>4, <1>6 DEF GrantInv, GrantTypeOK
<1>8. Stored' = Stored
  BY <1>5 DEF Stored
<1>9. GrantTypeOK'
  <2>1. row[t.cred].family \in Stored
    BY <1>2 DEF GrantInv, RowInv
  <2> QED
    BY <1>5, <1>7, <1>8, <2>1 DEF GrantInv, GrantTypeOK
<1>10. Grows
  BY <1>5, <1>8 DEF Grows
<1>11. TaskInv(r)'
  <2>1. CASE Usable(t.cred, t.client, t.match)
    BY <1>2, <1>4, <1>5, <1>7, <1>8, <2>1 DEF TaskInv, Usable
  <2>2. CASE ~Usable(t.cred, t.client, t.match)
    BY <1>7, <2>2 DEF TaskInv, NoTask
  <2> QED
    BY <2>1, <2>2
<1> QED
  BY <1>7, <1>8, <1>9, <1>10, <1>11, GrowsKeeps DEF GrantInv

\* Spend, and the request that ends before or after its UPDATE.
LEMMA GrantSpend ==
    ASSUME GrantInv, NEW r \in Trade, Spend(r) \/ Fail(r) \/ FailAfterSpend(r)
    PROVE  GrantInv'
<1> DEFINE t == task[r]
           s == [t EXCEPT !.at = "issue"]
<1>1. t # NoTask /\ t \in Task
  BY Running, GrantTaskFields DEF Spend, Fail, FailAfterSpend, GrantInv
<1>2. UNCHANGED <<clients, cookie, row, expired, gone, sent, raced>>
  BY DEF Spend, Fail, FailAfterSpend, credVars
<1>3. s \in Task /\ s.at = "issue" /\ s.cred = t.cred /\ s.client = t.client /\ s.user = t.user
      /\ s.family = t.family
  BY <1>1 DEF Task
<1>4. \/ task' = [task EXCEPT ![r] = NoTask] /\ spent' = spent
      \/ t.at = "spend" /\ spent' = spent \cup ({t.cred} \ gone)
            /\ (task' = [task EXCEPT ![r] = NoTask] \/ task' = [task EXCEPT ![r] = s])
  BY DEF Spend, Fail, FailAfterSpend, MarkSpent, Goto, credVars
<1> HIDE DEF s
<1>5. /\ task' \in [Trade -> Task \cup {NoTask}]
      /\ task'[r] = NoTask \/ task'[r] = s
      /\ \A q \in Trade : q # r => task'[q] = task[q]
  BY <1>3, <1>4 DEF GrantInv, GrantTypeOK
<1>6. Stored' = Stored
  BY <1>2 DEF Stored
<1>7. t.at = "spend" => t.cred # NoCred /\ t.cred \in Stored
  BY <1>1 DEF GrantInv, TaskInv
<1>8. GrantTypeOK'
  BY <1>2, <1>4, <1>5, <1>6, <1>7 DEF GrantInv, GrantTypeOK
<1>9. Grows
  BY <1>2, <1>4, <1>6 DEF Grows
<1>10. TaskInv(r)'
  <2>1. CASE task'[r] = NoTask
    BY <2>1 DEF TaskInv, NoTask
  <2>2. CASE task'[r] # NoTask
    <3>1. t.at = "spend" /\ task'[r] = s /\ spent' = spent \cup ({t.cred} \ gone)
      BY <1>4, <1>5, <2>2 DEF GrantInv, GrantTypeOK
    <3>2. t.client = row[t.cred].client /\ t.user = row[t.cred].user /\ t.family = row[t.cred].family
      BY <1>7, <3>1 DEF GrantInv, TaskInv
    <3> QED
      BY <1>2, <1>3, <1>6, <1>7, <3>1, <3>2 DEF TaskInv
  <2> QED
    BY <2>1, <2>2
<1> QED
  BY <1>5, <1>6, <1>8, <1>9, <1>10, GrowsKeeps DEF GrantInv

\* What create_refresh_token() inserts.
LEMMA SuccessorRow ==
    ASSUME GrantInv, NEW r \in Trade, NEW g \in Cred, task[r].at = "issue", Successor(r, g)
    PROVE  /\ row' \in [Cred -> Row \cup {NoRow}]
           /\ Stored' = Stored \cup {g}
           /\ \A h \in Stored : row'[h] = row[h]
           /\ g \notin Stored
           /\ row'[g].parent = task[r].cred
           /\ row'[g].client = task[r].client /\ row'[g].user = task[r].user
           /\ row'[g].family = IF task[r].cred = NoCred THEN g ELSE task[r].family
           /\ task[r].cred # NoCred => task[r].family \in Stored
<1>1. task[r] # NoTask
  BY Running
<1>2. task[r].client \in Client /\ task[r].user \in User /\ task[r].cred \in Cred \cup {NoCred}
  BY <1>1, GrantTaskFields DEF GrantInv
<1>3. task[r].cred # NoCred => task[r].family \in Stored
  BY <1>1 DEF GrantInv, TaskInv, RowInv
<1>4. (IF task[r].cred = NoCred THEN g ELSE task[r].family) \in Cred
  BY <1>3 DEF Stored
<1> QED
  BY <1>2, <1>3, <1>4, InsertGrows DEF Successor, GrantInv

LEMMA GrantIssue ==
    ASSUME GrantInv, NEW r \in Trade, NEW g \in Cred, Issue(r, g) \/ FailAfterIssue(r, g)
    PROVE  GrantInv'
<1>1. task[r].at = "issue" /\ Successor(r, g) /\ task' = [task EXCEPT ![r] = NoTask]
      /\ UNCHANGED <<clients, cookie, spent, expired, gone, raced>> /\ sent' \subseteq sent \cup {g}
  BY DEF Issue, FailAfterIssue, Goto
<1>2. /\ row' \in [Cred -> Row \cup {NoRow}]
      /\ Stored' = Stored \cup {g}
      /\ \A h \in Stored : row'[h] = row[h]
      /\ g \notin Stored
      /\ row'[g].parent = task[r].cred
      /\ row'[g].client = task[r].client /\ row'[g].user = task[r].user
      /\ row'[g].family = IF task[r].cred = NoCred THEN g ELSE task[r].family
      /\ task[r].cred # NoCred => task[r].family \in Stored
  BY <1>1, SuccessorRow
<1>3. /\ task' \in [Trade -> Task \cup {NoTask}]
      /\ task'[r] = NoTask
      /\ \A q \in Trade : q # r => task'[q] = task[q]
  BY <1>1 DEF GrantInv, GrantTypeOK
<1>4. GrantTypeOK'
  BY <1>1, <1>2, <1>3 DEF GrantInv, GrantTypeOK
<1>5. Grows
  BY <1>1, <1>2 DEF Grows
<1>6. TaskInv(r)'
  BY <1>3 DEF TaskInv, NoTask
<1>7. RowInv(g)'
  <2>1. task[r] # NoTask
    BY <1>1, Running
  <2>2. task[r].cred # NoCred =>
           /\ task[r].cred \in Stored
           /\ task[r].cred \in spent \cup gone
           /\ task[r].client = row[task[r].cred].client
           /\ task[r].user = row[task[r].cred].user
    BY <1>1, <2>1 DEF GrantInv, TaskInv
  <2>3. row'[g].family \in Stored'
    BY <1>2
  <2> QED
    BY <1>1, <1>2, <2>2, <2>3 DEF RowInv
<1> QED
  BY <1>2, <1>3, <1>4, <1>5, <1>6, <1>7, GrowsKeeps DEF GrantInv

LEMMA GrantStep ==
    ASSUME GrantInv, [GrantNext]_grantVars
    PROVE  GrantInv'
<1>1. CASE UNCHANGED grantVars
  <2>1. UNCHANGED <<clients, cookie, row, spent, expired, gone, sent, raced, task>>
    BY <1>1 DEF grantVars, credVars
  <2>2. Stored' = Stored
    BY <2>1 DEF Stored
  <2> QED
    BY <2>1, <2>2 DEF GrantInv, GrantTypeOK, RowInv, TaskInv
<1>2. ASSUME NEW u \in User, NEW c \in Client, BrowserStep(u, c) PROVE GrantInv'
  BY <1>2, GrantOutside, GrantConsent DEF BrowserStep
<1>3. CASE \/ \E u \in User : SignOut(u)
           \/ \E g \in Cred : Expire(g)
           \/ \E c \in Client : DeleteClient(c)
  BY <1>3, GrantOutside
<1>4. ASSUME NEW r \in Trade, NEW c \in Client, BeginStep(r, c) PROVE GrantInv'
  BY <1>4, GrantBegin
<1>5. ASSUME NEW r \in Trade, RequestStep(r) PROVE GrantInv'
  BY <1>5, GrantSelect, GrantSpend, GrantIssue DEF RequestStep
<1> QED
  BY <1>1, <1>2, <1>3, <1>4, <1>5 DEF GrantNext

LEMMA GrantInvHolds == GrantSpec => []GrantInv
BY GrantInvInit, GrantStep, PTL DEF GrantSpec

\* The types of the tables and of the requests, for every instance.
THEOREM GrantTypeCorrect == GrantSpec => []GrantTypeOK
<1>1. GrantInv => GrantTypeOK
  BY DEF GrantInv
<1> QED
  BY <1>1, GrantInvHolds, PTL

\* However many token requests run in parallel, fail or die, a credential that has
\* a successor is spent or deleted.
THEOREM TradedStaysSpent == GrantSpec => []TradedIsSpent
<1>1. GrantInv => TradedIsSpent
  BY DEF GrantInv, RowInv, TradedIsSpent
<1> QED
  BY <1>1, GrantInvHolds, PTL

\* A line of refresh tokens never changes its client or its user.
THEOREM LinesKeepOwner == GrantSpec => []LineKeepsOwner
<1>1. GrantInv => LineKeepsOwner
  BY DEF GrantInv, RowInv, LineKeepsOwner
<1> QED
  BY <1>1, GrantInvHolds, PTL

-----------------------------------------------------------------------------
(***************************************************************************)
(* What is alive in a line that was not raced for.                          *)
(***************************************************************************)
Alive == Stored \ (spent \cup gone)

\* The line that a request has a credential of.
Holds(r) == task[r].at \in {"spend", "issue"} /\ task[r].cred # NoCred

\* A request that is about to spend its credential has found the only one of
\* its line; once it has, none is left.
AliveTaskInv(r) ==
    Holds(r) /\ task[r].family \notin raced =>
        /\ \A h \in Alive : row[h].family = task[r].family => h = task[r].cred
        /\ task[r].at = "issue" => \A h \in Alive : row[h].family # task[r].family

\* Nobody else has a credential of that line.
SoleHolder(q, r) ==
    Holds(q) /\ Holds(r) /\ task[q].family = task[r].family /\ task[r].family \notin raced
        => q = r

AliveInv ==
    /\ OneAlivePerLine
    /\ \A r \in Trade : AliveTaskInv(r)
    /\ \A q, r \in Trade : SoleHolder(q, r)

LEMMA NotHolding == ASSUME NEW r \in Trade, task[r] = NoTask PROVE ~Holds(r)
BY DEF Holds, NoTask

\* Nothing that only takes life disturbs it, nor does a request that lets go.
LEMMA FewerAlive ==
    ASSUME AliveInv, Alive' \subseteq Alive, \A h \in Alive' : row'[h] = row[h],
           raced \subseteq raced'
    PROVE  /\ OneAlivePerLine'
           /\ \A r \in Trade : task'[r] = task[r] => AliveTaskInv(r)'
BY DEF AliveInv, OneAlivePerLine, AliveTaskInv, Holds, Alive

LEMMA FewerHolders ==
    ASSUME AliveInv, raced \subseteq raced',
           \A r \in Trade : Holds(r)' => Holds(r) /\ task'[r].family = task[r].family
    PROVE  \A q, r \in Trade : SoleHolder(q, r)'
BY DEF AliveInv, SoleHolder

\* Nor does a credential that starts a line of its own.
LEMMA NewLine ==
    ASSUME GrantInv, AliveInv, NEW g \in Cred, g \notin Stored, raced' = raced,
           Alive' \subseteq Alive \cup {g}, \A h \in Stored : row'[h] = row[h],
           row'[g].family = g
    PROVE  /\ OneAlivePerLine'
           /\ \A r \in Trade : task'[r] = task[r] => AliveTaskInv(r)'
<1>1. \A h \in Alive : row[h].family # g
  BY DEF Alive, GrantInv, RowInv
<1>2. \A h \in Alive : row'[h] = row[h]
  BY DEF Alive
<1>3. OneAlivePerLine'
  <2>1. \A x, y \in Alive' : row'[x].family = row'[y].family /\ row'[x].family \notin raced => x = y
    BY <1>1, <1>2 DEF AliveInv, OneAlivePerLine, Alive
  <2> QED
    BY <2>1 DEF OneAlivePerLine, Alive
<1>4. ASSUME NEW r \in Trade, task'[r] = task[r] PROVE AliveTaskInv(r)'
  <2>1. Holds(r) => task[r].family # g
    BY Running DEF Holds, GrantInv, TaskInv, RowInv
  <2>2. AliveTaskInv(r)
    BY DEF AliveInv
  <2>3. Holds(r)' = Holds(r)
    BY <1>4 DEF Holds
  <2> QED
    BY <1>2, <1>4, <2>1, <2>2, <2>3 DEF AliveTaskInv
<1> QED
  BY <1>3, <1>4

LEMMA AliveInvInit == GrantInit => AliveInv
<1> SUFFICES ASSUME GrantInit PROVE AliveInv
  OBVIOUS
<1>1. Stored = {}
  BY DEF GrantInit, Stored
<1>2. \A r \in Trade : ~Holds(r)
  BY NotHolding DEF GrantInit
<1> QED
  BY <1>1, <1>2 DEF AliveInv, OneAlivePerLine, AliveTaskInv, SoleHolder

\* The SELECT: the credential was alive, so the line's other holder, if there is
\* one, holds the same credential.
LEMMA AliveSelect ==
    ASSUME GrantInv, AliveInv, NEW r \in Trade, Select(r)
    PROVE  AliveInv'
<1> DEFINE t == task[r]
           s == [t EXCEPT !.at = "spend", !.user = row[t.cred].user, !.family = row[t.cred].family]
           f == row[t.cred].family
<1>0. task \in [Trade -> Task \cup {NoTask}]
  BY DEF GrantInv, GrantTypeOK
<1>1. t # NoTask /\ t.at = "select" /\ t \in Task
  BY Running, GrantTaskFields DEF Select, GrantInv
<1>2. s.at = "spend" /\ s.cred = t.cred /\ s.family = f
  BY <1>1 DEF Task
<1>3. UNCHANGED <<row, spent, gone>>
  BY DEF Select
<1>4. task' = [task EXCEPT ![r] = IF Usable(t.cred, t.client, t.match) THEN s ELSE NoTask]
  BY DEF Select, Selected, Goto
<1>5. raced' = IF Usable(t.cred, t.client, t.match) /\ Rival(r, t.cred) THEN raced \cup {f} ELSE raced
  BY DEF Select, NoteRace
<1> HIDE DEF s
<1>6. /\ task'[r] = IF Usable(t.cred, t.client, t.match) THEN s ELSE NoTask
      /\ \A q \in Trade : q # r => task'[q] = task[q]
  BY <1>0, <1>4
<1>7. Alive' = Alive /\ raced \subseteq raced'
  BY <1>3, <1>5 DEF Stored, Alive
<1>8. OneAlivePerLine' /\ \A q \in Trade : q # r => AliveTaskInv(q)'
  BY <1>3, <1>6, <1>7, FewerAlive
<1>9. \A q \in Trade : q # r => Holds(q)' = Holds(q)
  BY <1>6 DEF Holds
<1>10. CASE ~Usable(t.cred, t.client, t.match)
  <2>1. ~Holds(r)'
    BY <1>6, <1>10 DEF Holds, NoTask
  <2>2. AliveTaskInv(r)'
    BY <2>1 DEF AliveTaskInv
  <2>3. \A q \in Trade : Holds(q)' => Holds(q) /\ task'[q].family = task[q].family
    BY <1>6, <1>9, <2>1
  <2> QED
    BY <1>7, <1>8, <2>2, <2>3, FewerHolders DEF AliveInv
<1>11. CASE Usable(t.cred, t.client, t.match)
  <2>1. t.cred \in Alive
    BY <1>11 DEF Usable, Alive
  <2>2. task'[r].at = "spend" /\ task'[r].cred = t.cred /\ task'[r].family = f
    BY <1>2, <1>6, <1>11
  <2>3. AliveTaskInv(r)'
    BY <1>3, <1>7, <2>1, <2>2 DEF AliveTaskInv, AliveInv, OneAlivePerLine, Alive
  <2>4. ASSUME NEW q \in Trade, q # r, Holds(q), task[q].family = f PROVE f \in raced'
    <3>1. CASE f \in raced
      BY <1>7, <3>1
    <3>2. CASE f \notin raced
      <4>1. t.cred = task[q].cred /\ task[q].at # "issue"
        BY <2>1, <2>4, <3>2 DEF AliveInv, AliveTaskInv
      <4>2. task[q].at = "spend"
        BY <2>4, <4>1 DEF Holds
      <4>3. Rival(r, t.cred)
        BY <2>4, <4>1, <4>2 DEF Rival
      <4> QED
        BY <1>5, <1>11, <4>3
    <3> QED
      BY <3>1, <3>2
  <2>5. ASSUME NEW p \in Trade, NEW q \in Trade PROVE SoleHolder(p, q)'
    <3>1. CASE p # r /\ q # r
      <4>1. SoleHolder(p, q)
        BY DEF AliveInv
      <4> QED
        BY <1>6, <1>7, <1>9, <3>1, <4>1 DEF SoleHolder
    <3>2. CASE p = r /\ q # r
      BY <1>6, <1>9, <2>2, <2>4, <3>2 DEF SoleHolder
    <3>3. CASE p # r /\ q = r
      BY <1>6, <1>9, <2>2, <2>4, <3>3 DEF SoleHolder
    <3>4. CASE p = r /\ q = r
      BY <3>4 DEF SoleHolder
    <3> QED
      BY <3>1, <3>2, <3>3, <3>4
  <2> QED
    BY <1>8, <2>3, <2>5 DEF AliveInv
<1> QED
  BY <1>10, <1>11

\* The UPDATE, and requests that end before or after it.
LEMMA AliveSpend ==
    ASSUME GrantInv, AliveInv, NEW r \in Trade, Spend(r) \/ Fail(r) \/ FailAfterSpend(r)
    PROVE  AliveInv'
<1> DEFINE t == task[r]
           s == [t EXCEPT !.at = "issue"]
<1>0. task \in [Trade -> Task \cup {NoTask}]
  BY DEF GrantInv, GrantTypeOK
<1>1. t # NoTask /\ t \in Task
  BY Running, GrantTaskFields DEF Spend, Fail, FailAfterSpend, GrantInv
<1>2. s.at = "issue" /\ s.cred = t.cred /\ s.family = t.family
  BY <1>1 DEF Task
<1>3. row' = row /\ gone' = gone /\ raced' = raced /\ spent \subseteq spent'
  BY DEF Spend, Fail, FailAfterSpend, MarkSpent, credVars
<1>4. \/ task' = [task EXCEPT ![r] = NoTask]
      \/ t.at = "spend" /\ spent' = spent \cup ({t.cred} \ gone) /\ task' = [task EXCEPT ![r] = s]
  BY DEF Spend, Fail, FailAfterSpend, MarkSpent, Goto
<1> HIDE DEF s
<1>5. /\ \A q \in Trade : q # r => task'[q] = task[q]
      /\ \/ task'[r] = NoTask
         \/ t.at = "spend" /\ spent' = spent \cup ({t.cred} \ gone) /\ task'[r] = s
  BY <1>0, <1>4
<1>6. Stored' = Stored /\ Alive' \subseteq Alive
  BY <1>3 DEF Stored, Alive
<1>7. OneAlivePerLine' /\ \A q \in Trade : q # r => AliveTaskInv(q)'
  BY <1>3, <1>5, <1>6, FewerAlive
<1>8. Holds(r)' => Holds(r) /\ task'[r].family = t.family
  <2>1. CASE task'[r] = NoTask
    BY <2>1 DEF Holds, NoTask
  <2>2. CASE t.at = "spend" /\ task'[r] = s
    BY <1>2, <2>2 DEF Holds
  <2> QED
    BY <1>5, <2>1, <2>2
<1>9. \A q \in Trade : Holds(q)' => Holds(q) /\ task'[q].family = task[q].family
  BY <1>5, <1>8 DEF Holds
<1>10. AliveTaskInv(r)'
  <2>1. CASE task'[r] = NoTask
    BY <2>1 DEF AliveTaskInv, Holds, NoTask
  <2>2. CASE t.at = "spend" /\ spent' = spent \cup ({t.cred} \ gone) /\ task'[r] = s
    <3>1. Alive' = Alive \ {t.cred}
      BY <1>3, <1>6, <2>2 DEF Alive
    <3>2. AliveTaskInv(r)
      BY DEF AliveInv
    <3> QED
      BY <1>2, <1>3, <1>8, <2>2, <3>1, <3>2 DEF AliveTaskInv
  <2> QED
    BY <1>5, <2>1, <2>2
<1> QED
  BY <1>3, <1>7, <1>9, <1>10, FewerHolders DEF AliveInv

\* The INSERT: the line has nothing alive and no other holder.
LEMMA AliveIssue ==
    ASSUME GrantInv, AliveInv, NEW r \in Trade, NEW g \in Cred,
           Issue(r, g) \/ FailAfterIssue(r, g)
    PROVE  AliveInv'
<1>0. task \in [Trade -> Task \cup {NoTask}]
  BY DEF GrantInv, GrantTypeOK
<1>1. task[r].at = "issue" /\ Successor(r, g) /\ task' = [task EXCEPT ![r] = NoTask]
      /\ spent' = spent /\ gone' = gone /\ raced' = raced
  BY DEF Issue, FailAfterIssue, Goto
<1>2. /\ Stored' = Stored \cup {g}
      /\ \A h \in Stored : row'[h] = row[h]
      /\ g \notin Stored
      /\ row'[g].family = IF task[r].cred = NoCred THEN g ELSE task[r].family
  BY <1>1, SuccessorRow
<1>3. Alive' \subseteq Alive \cup {g}
  BY <1>1, <1>2 DEF Alive
<1>4. task'[r] = NoTask /\ \A q \in Trade : q # r => task'[q] = task[q]
  BY <1>0, <1>1
<1>5. ~Holds(r)'
  BY <1>4 DEF Holds, NoTask
<1>6. AliveTaskInv(r)'
  BY <1>5 DEF AliveTaskInv
<1>7. \A q \in Trade : Holds(q)' => Holds(q) /\ task'[q].family = task[q].family
  BY <1>4, <1>5 DEF Holds
<1>8. \A q, p \in Trade : SoleHolder(q, p)'
  BY <1>1, <1>7, FewerHolders
<1>9. CASE task[r].cred = NoCred
  BY <1>1, <1>2, <1>3, <1>4, <1>6, <1>8, <1>9, NewLine DEF AliveInv
<1>10. CASE task[r].cred # NoCred
  <2>1. Holds(r) /\ row'[g].family = task[r].family
    BY <1>1, <1>2, <1>10 DEF Holds
  <2>2. task[r].family \notin raced => \A h \in Alive : row[h].family # task[r].family
    BY <1>1, <2>1 DEF AliveInv, AliveTaskInv
  <2>3. \A h \in Alive : row'[h] = row[h]
    BY <1>2 DEF Alive
  <2>4. OneAlivePerLine'
    <3>1. \A x, y \in Alive' : row'[x].family = row'[y].family /\ row'[x].family \notin raced => x = y
      BY <1>3, <2>1, <2>2, <2>3 DEF AliveInv, OneAlivePerLine, Alive
    <3> QED
      BY <1>1, <3>1 DEF OneAlivePerLine, Alive
  <2>5. ASSUME NEW q \in Trade, q # r PROVE AliveTaskInv(q)'
    <3>1. AliveTaskInv(q) /\ SoleHolder(q, r)
      BY DEF AliveInv
    <3>2. Holds(q) /\ task[q].family \notin raced => task[q].family # row'[g].family
      BY <2>1, <2>5, <3>1 DEF SoleHolder
    <3>3. task'[q] = task[q] /\ Holds(q)' = Holds(q)
      BY <1>4, <2>5 DEF Holds
    <3> QED
      BY <1>1, <1>3, <2>3, <3>1, <3>2, <3>3 DEF AliveTaskInv
  <2> QED
    BY <1>6, <1>8, <2>4, <2>5 DEF AliveInv
<1> QED
  BY <1>9, <1>10

LEMMA AliveStep ==
    ASSUME GrantInv, AliveInv, [GrantNext]_grantVars
    PROVE  AliveInv'
<1>1. CASE \/ UNCHANGED grantVars
           \/ \E u \in User, c \in Client : SignIn(u, c)
           \/ \E u \in User : SignOut(u)
           \/ \E g \in Cred : Expire(g)
           \/ \E c \in Client : DeleteClient(c)
  <2>1. row' = row /\ task' = task /\ spent' = spent /\ gone \subseteq gone' /\ raced' = raced
    BY <1>1 DEF SignIn, SignOut, Expire, DeleteClient, credVars, grantVars
  <2>2. Alive' \subseteq Alive
    BY <2>1 DEF Alive, Stored
  <2>3. \A r \in Trade : Holds(r)' = Holds(r)
    BY <2>1 DEF Holds
  <2> QED
    BY <2>1, <2>2, <2>3, FewerAlive, FewerHolders DEF AliveInv
<1>2. ASSUME NEW u \in User, NEW c \in Client, NEW g \in Cred, Consent(u, c, g) PROVE AliveInv'
  <2>1. Insert(g, "code", c, u, NoCred, g) /\ UNCHANGED <<spent, gone, raced, task>>
    BY <1>2 DEF Consent
  <2>2. /\ Stored' = Stored \cup {g}
        /\ \A h \in Stored : row'[h] = row[h]
        /\ g \notin Stored
        /\ row'[g].family = g
    BY <2>1, InsertGrows DEF GrantInv
  <2>3. Alive' \subseteq Alive \cup {g}
    BY <2>1, <2>2 DEF Alive
  <2>4. \A r \in Trade : Holds(r)' = Holds(r)
    BY <2>1 DEF Holds
  <2> QED
    BY <2>1, <2>2, <2>3, <2>4, NewLine, FewerHolders DEF AliveInv
<1>3. ASSUME NEW r \in Trade, NEW c \in Client, BeginStep(r, c) PROVE AliveInv'
  <2>1. PICK t \in Task : Begin(r, t) /\ Fresh(t)
    BY <1>3, BeginShape
  <2>2. UNCHANGED <<row, spent, gone, raced>> /\ task' = [task EXCEPT ![r] = t]
    BY <2>1 DEF Begin, credVars
  <2>3. task'[r] = t /\ \A q \in Trade : q # r => task'[q] = task[q]
    BY <2>2 DEF GrantInv, GrantTypeOK
  <2>4. Alive' = Alive
    BY <2>2 DEF Alive, Stored
  <2>5. ~Holds(r)'
    BY <2>1, <2>3 DEF Holds, Fresh
  <2>6. AliveTaskInv(r)'
    BY <2>5 DEF AliveTaskInv
  <2>7. \A q \in Trade : Holds(q)' => Holds(q) /\ task'[q].family = task[q].family
    BY <2>3, <2>5 DEF Holds
  <2> QED
    BY <2>2, <2>3, <2>4, <2>6, <2>7, FewerAlive, FewerHolders DEF AliveInv
<1>4. ASSUME NEW r \in Trade, RequestStep(r) PROVE AliveInv'
  BY <1>4, AliveSelect, AliveSpend, AliveIssue DEF RequestStep
<1> QED
  BY <1>1, <1>2, <1>3, <1>4 DEF GrantNext, BrowserStep

\* With any number of token requests in parallel and whatever fails on the way, a
\* consent has two credentials alive only if two requests held one credential
\* between their SELECT and their UPDATE.
THEOREM OneAliveUnlessRaced == GrantSpec => []OneAlivePerLine
<1>1. AliveInv => OneAlivePerLine
  BY DEF AliveInv
<1>2. GrantInv /\ AliveInv /\ [GrantNext]_grantVars => AliveInv'
  BY AliveStep
<1> QED
  BY <1>1, <1>2, AliveInvInit, GrantInvHolds, PTL DEF GrantSpec

=============================================================================
