--------------------------- MODULE AccountsProofs ---------------------------
(***************************************************************************)
(* Proofs about Accounts: its six properties hold for any tenants,          *)
(* addresses, invitations, providers, subjects and requests.                *)
(***************************************************************************)
EXTENDS Accounts, TLAPS

SignupStages == {"inviting", "insert invitation", "signing up", "insert"}
FederationStages == {"select link", "select email", "provision", "link", "consume", "enter"}
WithAccount == {"link", "consume", "enter"}

\* The fields of a request.
Work == [stage : SignupStages \cup FederationStages \cup {"idle", "mark"},
         tenant : Tenant \cup {None}, email : Email \cup {None},
         invite : Invite \cup {None}, txn : Txn \cup {None},
         prov : Provider \cup {None}, subject : Subject \cup {None},
         conf : Config \cup {None}, claim : Claim \cup {None},
         user : Account \cup {None}]

\* What a request on its way knows is so.
SignupSound(q) ==
    /\ q.tenant \in tenants /\ q.email \in Email /\ q.txn = None
    /\ q.invite # None => invites[q.invite] # None /\ invites[q.invite].tenant = q.tenant

FederationSound(q) ==
    /\ q.prov \in Provider /\ q.subject \in Subject /\ q.invite = None
    /\ q.tenant = Home[q.prov] /\ q.tenant \in tenants
    /\ q.conf \in Config /\ q.claim \in Claim
    /\ q.txn # None => txns[q.txn] # "none"
    /\ q.subject \notin moved => q.claim.email = claims[q.subject].email

\* The account it has found or made: as long as its address does not change, a
\* subject can only be led to one account.
AccountSound(q) ==
    /\ q.user \in accounts /\ q.user[1] = Home[q.prov]
    /\ q.user[2] \in Email \cup {q.subject}
    /\ q.subject \notin moved => q.user = Target(q.prov, q.subject)

LinkSound(q) ==
    providers[q.prov] = None \/ q.subject \in moved \/ links[q.prov][q.subject] = q.user

Sound(q) ==
    /\ q \in Work
    /\ q.stage = "idle" => q = Resting
    /\ q.stage \in SignupStages => SignupSound(q)
    /\ q.stage = "mark" => q.invite \in Invite /\ invites[q.invite] # None /\ q.txn = None
    /\ q.stage \in FederationStages => FederationSound(q)
    /\ q.stage \in WithAccount => AccountSound(q)
    /\ q.stage \in {"consume", "enter"} => LinkSound(q)

\* A link leads to an account of the provider's tenant, which is that of the address
\* the subject has.
LinkOK(p, s) ==
    links[p][s] # None =>
        /\ links[p][s] \in accounts /\ links[p][s][1] = Home[p]
        /\ links[p][s][2] \in Email \cup {s}
        /\ s \notin moved => links[p][s] = Target(p, s)

Tables ==
    /\ tenants \subseteq Tenant
    /\ accounts \subseteq tenants \X Address
    /\ invites \in [Invite -> Invitation \cup {None}]
    /\ \A i \in Invite : invites[i] # None => invites[i].tenant \in tenants
    /\ providers \in [Provider -> Config \cup {None}]
    /\ links \in [Provider -> [Subject -> Account \cup {None}]]
    /\ \A p \in Provider, s \in Subject : LinkOK(p, s)
    /\ txns \in [Txn -> Provider \cup {"none", "gone"}]
    /\ \A x \in Txn : txns[x] \in Provider =>
          Home[txns[x]] \in tenants /\ providers[txns[x]] # None
    /\ claims \in [Subject -> Claim]
    /\ moved \subseteq Subject

History ==
    /\ made \in [Invite -> SUBSET accounts]
    /\ entered \subseteq [prov : Provider, subject : Subject, user : accounts]
    /\ \A e \in entered : e.user[1] = Home[e.prov]
    /\ EntersLinkedAccount
    /\ sessions \in [Txn -> Nat]
    /\ shared \subseteq Invite \cup Txn
    /\ lost \subseteq Invite \cup Subject

Requests ==
    /\ work \in [Request -> Work]
    /\ \A r \in Request : Sound(work[r])

BaseInv == Tables /\ History /\ Requests

USE AccountsAssumption DEF AccountsAssumption

-----------------------------------------------------------------------------
(* What a step leaves of the tables.                                         *)

Grows ==
    /\ tenants \subseteq tenants'
    /\ accounts \subseteq accounts'
    /\ moved \subseteq moved'
    /\ \A i \in Invite : invites[i] # None =>
          invites'[i] # None /\ invites'[i].tenant = invites[i].tenant
    /\ \A x \in Txn : txns[x] # "none" => txns'[x] # "none"
    /\ \A s \in Subject : s \notin moved' => claims'[s].email = claims[s].email
    /\ \A p \in Provider : providers[p] = None => providers'[p] = None
    /\ \A p \in Provider, s \in Subject :
          links[p][s] # None => links'[p][s] = links[p][s] \/ providers'[p] = None

LEMMA NoneIsNoAccount == Tables => None \notin accounts
BY DEF Tables, Address

LEMMA TargetKept ==
    ASSUME Grows, NEW p \in Provider, NEW s \in Subject, s \notin moved'
    PROVE  Target(p, s)' = Target(p, s)
BY DEF Grows, Target, Mailbox

\* A request that a step leaves alone remains sound.
LEMMA SoundKept ==
    ASSUME Tables, Grows, NEW r \in Request, Sound(work[r]), work'[r] = work[r]
    PROVE  Sound(work[r])'
<1> DEFINE q == work[r]
<1>1. q.stage \in SignupStages => SignupSound(q)'
  BY DEF Grows, Sound, SignupSound, Work
<1>2. q.stage \in FederationStages => FederationSound(q)'
  BY DEF Grows, Sound, FederationSound, Work
<1>3. ASSUME q.stage \in WithAccount PROVE AccountSound(q)'
  <2>1. q.prov \in Provider /\ q.subject \in Subject
    BY <1>3 DEF Sound, FederationSound, FederationStages, WithAccount
  <2> QED
    BY <1>3, <2>1, TargetKept DEF Grows, Sound, AccountSound
<1>4. ASSUME q.stage \in {"consume", "enter"} PROVE LinkSound(q)'
  <2>1. q.prov \in Provider /\ q.subject \in Subject /\ q.user \in accounts
    BY <1>4 DEF Sound, FederationSound, AccountSound, FederationStages, WithAccount
  <2> QED
    BY <1>4, <2>1, NoneIsNoAccount DEF Grows, Sound, LinkSound
<1> QED
  BY <1>1, <1>2, <1>3, <1>4 DEF Sound, Grows

LEMMA LinkKept ==
    ASSUME Grows, NEW p \in Provider, NEW s \in Subject, LinkOK(p, s),
           links'[p][s] \in {links[p][s], None}
    PROVE  LinkOK(p, s)'
BY TargetKept DEF Grows, LinkOK

LEMMA OneMoves ==
    ASSUME Tables, Requests, Grows, NEW r \in Request,
           \E v : work' = [work EXCEPT ![r] = v], Sound(work[r])'
    PROVE  Requests'
<1>1. PICK v : work' = [work EXCEPT ![r] = v]
  OBVIOUS
<1>2. ASSUME NEW o \in Request, o # r PROVE Sound(work[o])'
  <2>1. Sound(work[o]) /\ work'[o] = work[o]
    BY <1>1, <1>2 DEF Requests
  <2> QED
    BY <2>1, SoundKept
<1>3. v \in Work
  BY <1>1 DEF Requests, Sound
<1> QED
  BY <1>1, <1>2, <1>3 DEF Requests

LEMMA NobodyMoves ==
    ASSUME Tables, Requests, Grows, work' = work
    PROVE  Requests'
BY SoundKept DEF Requests

-----------------------------------------------------------------------------
(* The steps that write no table.                                            *)

unread == <<tables, claims, moved>>

LEMMA UnreadKept ==
    ASSUME Tables, UNCHANGED unread
    PROVE  Grows /\ Tables'
BY DEF Grows, Tables, LinkOK, Target, unread, tables

\* What the history says of a sign-in stays so.
LEMMA EnteredKept ==
    ASSUME Tables, History, Grows, entered' = entered
    PROVE  EntersLinkedAccount'
<1> SUFFICES ASSUME NEW e \in entered
             PROVE  providers'[e.prov] = None \/ e.subject \in moved'
                    \/ links'[e.prov][e.subject] = e.user
  BY DEF EntersLinkedAccount
<1>1. e.prov \in Provider /\ e.subject \in Subject /\ e.user # None
  BY NoneIsNoAccount DEF History
<1> QED
  BY <1>1 DEF Grows, History, EntersLinkedAccount

LEMMA HistoryKept ==
    ASSUME Tables, History, Grows, UNCHANGED <<made, entered, sessions>>,
           shared' \subseteq Invite \cup Txn, lost' \subseteq Invite \cup Subject
    PROVE  History'
BY EnteredKept DEF History, Grows

LEMMA RestingSound == Resting \in Work /\ Sound(Resting)
BY DEF Sound, Work, Resting, SignupStages, FederationStages, WithAccount

LEMMA DoneRequests ==
    ASSUME Tables, Requests, Grows, NEW r \in Request, Done(r)
    PROVE  Requests'
<1>1. work'[r] = Resting
  BY DEF Done, Requests
<1>2. Sound(work[r])'
  BY <1>1, RestingSound
     DEF Sound, Work, Resting, SignupStages, FederationStages, WithAccount
<1> QED
  BY <1>2, OneMoves DEF Done

-----------------------------------------------------------------------------
(* A request that moves.                                                     *)

Stages == SignupStages \cup FederationStages \cup {"idle", "mark"}

\* Everything but its stage and its account.
Carried(r) ==
    /\ work'[r].tenant = work[r].tenant
    /\ work'[r].email = work[r].email
    /\ work'[r].invite = work[r].invite
    /\ work'[r].txn = work[r].txn
    /\ work'[r].prov = work[r].prov
    /\ work'[r].subject = work[r].subject
    /\ work'[r].conf = work[r].conf
    /\ work'[r].claim = work[r].claim

LEMMA ToFields ==
    ASSUME Requests, NEW r \in Request, NEW stage \in Stages, To(r, stage)
    PROVE  work'[r] \in Work /\ work'[r].stage = stage /\ work'[r].user = work[r].user /\ Carried(r)
<1>1. work[r] \in Work /\ work'[r] = [work[r] EXCEPT !.stage = stage]
  BY DEF Requests, To
<1>2. work'[r].stage = stage /\ work'[r].user = work[r].user
  BY <1>1 DEF Work
<1>3. Carried(r)
  BY <1>1 DEF Carried, Work
<1>4. work'[r] \in Work
  BY <1>1 DEF Work, Stages
<1> QED
  BY <1>2, <1>3, <1>4

LEMMA FoundFields ==
    ASSUME Requests, NEW r \in Request, NEW stage \in Stages, NEW a \in Account, Found(r, a, stage)
    PROVE  work'[r] \in Work /\ work'[r].stage = stage /\ work'[r].user = a /\ Carried(r)
<1>1. work[r] \in Work /\ work'[r] = [work[r] EXCEPT !.user = a, !.stage = stage]
  BY DEF Requests, Found
<1>2. work'[r].stage = stage /\ work'[r].user = a
  BY <1>1 DEF Work
<1>3. Carried(r)
  BY <1>1 DEF Carried, Work
<1>4. work'[r] \in Work
  BY <1>1 DEF Work, Stages
<1> QED
  BY <1>2, <1>3, <1>4

LEMMA FederatingSound ==
    ASSUME BaseInv, NEW r \in Request, work[r].stage \in FederationStages
    PROVE  /\ FederationSound(work[r])
           /\ Grows /\ Carried(r) => FederationSound(work[r])'
<1>1. FederationSound(work[r]) /\ work[r] \in Work
  BY DEF BaseInv, Requests, Sound
<1> QED
  BY <1>1 DEF FederationSound, Grows, Carried, Work

LEMMA SigningUpSound ==
    ASSUME BaseInv, NEW r \in Request, work[r].stage \in SignupStages
    PROVE  /\ SignupSound(work[r])
           /\ Grows /\ Carried(r) => SignupSound(work[r])'
<1>1. SignupSound(work[r]) /\ work[r] \in Work
  BY DEF BaseInv, Requests, Sound
<1> QED
  BY <1>1 DEF SignupSound, Grows, Carried, Work

\* What is left to show of a request in each part of its way.
LEMMA SignupStage ==
    ASSUME NEW r \in Request, work'[r] \in Work, work'[r].stage \in SignupStages,
           SignupSound(work[r])'
    PROVE  Sound(work[r])'
BY DEF Sound, SignupStages, FederationStages, WithAccount

LEMMA FederationStage ==
    ASSUME NEW r \in Request, work'[r] \in Work, work'[r].stage \in FederationStages,
           FederationSound(work[r])',
           work'[r].stage \in WithAccount => AccountSound(work[r])',
           work'[r].stage \in {"consume", "enter"} => LinkSound(work[r])'
    PROVE  Sound(work[r])'
BY DEF Sound, SignupStages, FederationStages, WithAccount

LEMMA StartsSound ==
    ASSUME BaseInv,
           NEW r \in Request, NEW t \in Tenant, NEW e \in Email, NEW i \in Invite \cup {None},
           \/ i = None /\ (StartInvite(r, t, e) \/ StartSignup(r, t, e))
           \/ i \in Invite /\ StartInvited(r, i, e)
    PROVE  Grows /\ BaseInv'
<1>1. Grows /\ Tables'
  BY UnreadKept DEF BaseInv, StartInvite, StartSignup, StartInvited, unread
<1>2. History'
  BY <1>1, HistoryKept
     DEF BaseInv, StartInvite, StartSignup, StartInvited, histories, Taken, History
<1>3. PICK stage \in SignupStages, h \in tenants :
        /\ work'[r] \in Work /\ work'[r].stage = stage
        /\ work'[r].tenant = h /\ work'[r].email = e
        /\ work'[r].invite = i /\ work'[r].txn = None
        /\ i # None => invites[i] # None /\ invites[i].tenant = h
  <2>1. CASE i \in Invite /\ StartInvited(r, i, e)
    <3> DEFINE h == invites[i].tenant
    <3>1. invites[i] # None /\ h \in tenants /\ h \in Tenant
      BY <2>1 DEF BaseInv, Tables, StartInvited, Pending
    <3>2. work'[r] = [Resting EXCEPT !.stage = "signing up", !.tenant = h, !.email = e, !.invite = i]
      BY <2>1 DEF BaseInv, Requests, StartInvited
    <3> HIDE DEF h
    <3>3. /\ work'[r] \in Work /\ work'[r].stage = "signing up"
          /\ work'[r].tenant = h /\ work'[r].email = e
          /\ work'[r].invite = i /\ work'[r].txn = None
      BY <3>1, <3>2 DEF Resting, Work, SignupStages
    <3> QED
      BY <3>1, <3>3 DEF SignupStages, h
  <2>2. CASE i = None /\ (StartInvite(r, t, e) \/ StartSignup(r, t, e))
    <3>1. PICK stage \in SignupStages :
            work'[r] = [Resting EXCEPT !.stage = stage, !.tenant = t, !.email = e]
      BY <2>2 DEF BaseInv, Requests, StartInvite, StartSignup, SignupStages
    <3>2. /\ work'[r] \in Work /\ work'[r].stage = stage
          /\ work'[r].tenant = t /\ work'[r].email = e
          /\ work'[r].invite = None /\ work'[r].txn = None
      BY <3>1 DEF Resting, Work
    <3> QED
      BY <2>2, <3>2 DEF StartInvite, StartSignup
  <2> QED
    BY <2>1, <2>2
<1>4. Sound(work[r])'
  <2>1. tenants' = tenants /\ invites' = invites
    BY DEF StartInvite, StartSignup, StartInvited, tables
  <2> QED
    BY <1>3, <2>1, SignupStage DEF SignupSound
<1>5. \E v : work' = [work EXCEPT ![r] = v]
  BY DEF StartInvite, StartSignup, StartInvited
<1> QED
  BY <1>1, <1>2, <1>4, <1>5, OneMoves DEF BaseInv

LEMMA SelectUserSound ==
    ASSUME BaseInv, NEW r \in Request, SelectUser(r)
    PROVE  Grows /\ BaseInv'
<1>1. Grows /\ Tables'
  BY UnreadKept DEF BaseInv, SelectUser, unread
<1>2. History'
  BY <1>1, HistoryKept DEF BaseInv, SelectUser, histories, History
<1>3. CASE Done(r)
  BY <1>1, <1>2, <1>3, DoneRequests DEF BaseInv
<1>4. CASE \E stage \in {"insert invitation", "insert"} : To(r, stage)
  <2>1. PICK stage \in {"insert invitation", "insert"} : To(r, stage)
    BY <1>4
  <2>2. work'[r] \in Work /\ work'[r].stage = stage /\ Carried(r)
    BY <2>1, ToFields DEF BaseInv, Stages, SignupStages
  <2>3. SignupSound(work[r])'
    BY <1>1, <2>2, SigningUpSound DEF SelectUser, SignupStages
  <2>4. Sound(work[r])'
    BY <2>2, <2>3, SignupStage DEF SignupStages
  <2> QED
    BY <1>1, <1>2, <2>1, <2>4, OneMoves DEF To, BaseInv
<1> QED
  BY <1>3, <1>4 DEF SelectUser

LEMMA CallbackSound ==
    ASSUME BaseInv, NEW r \in Request, NEW s \in Subject,
           \/ \E x \in Txn : Callback(r, x, s)
           \/ \E p \in Provider : TokenExchanged(r, p, s)
    PROVE  Grows /\ BaseInv'
<1>1. Grows /\ Tables'
  BY UnreadKept DEF BaseInv, Callback, TokenExchanged, unread
<1>2. History'
  BY <1>1, HistoryKept DEF BaseInv, Callback, TokenExchanged, histories, Taken, History
<1>3. PICK p \in Provider, x \in Txn \cup {None} :
        /\ work' = [work EXCEPT ![r] = Federating(p, s, x)]
        /\ Home[p] \in tenants /\ providers[p] # None
        /\ x # None => txns[x] # "none"
  BY DEF BaseInv, Tables, Callback, TokenExchanged
<1>4. work'[r] = Federating(p, s, x)
  BY <1>3 DEF BaseInv, Requests
<1>5. Sound(work[r])'
  <2>1. /\ providers[p] \in Config /\ claims[s] \in Claim /\ claims' = claims /\ moved' = moved
        /\ tenants' = tenants /\ txns' = txns
    BY <1>3 DEF BaseInv, Tables, Callback, TokenExchanged, tables
  <2>2. Federating(p, s, x) \in Work
    BY <1>3, <2>1 DEF BaseInv, Tables, Federating, Resting, Work, FederationStages
  <2>3. /\ work'[r].stage = "select link" /\ work'[r].prov = p /\ work'[r].subject = s
        /\ work'[r].tenant = Home[p] /\ work'[r].txn = x /\ work'[r].invite = None
        /\ work'[r].conf = providers[p] /\ work'[r].claim = claims[s]
    BY <1>4 DEF Federating, Resting
  <2>4. FederationSound(work[r])'
    <3>1. Home[p] \in tenants' /\ (x # None => txns'[x] # "none")
      BY <1>3, <2>1
    <3>2. claims'[s] = claims[s]
      BY <2>1
    <3> QED
      BY <2>1, <2>3, <3>1, <3>2 DEF FederationSound
  <2> QED
    BY <1>4, <2>2, <2>3, <2>4, FederationStage DEF FederationStages, WithAccount
<1> QED
  BY <1>1, <1>2, <1>3, <1>5, OneMoves DEF BaseInv

LEMMA SelectLinkSound ==
    ASSUME BaseInv, NEW r \in Request, SelectLink(r) \/ SelectEmail(r)
    PROVE  Grows /\ BaseInv'
<1> DEFINE q == work[r]
<1>1. Grows /\ Tables'
  BY UnreadKept DEF BaseInv, SelectLink, SelectEmail, unread
<1>2. History'
  BY <1>1, HistoryKept DEF BaseInv, SelectLink, SelectEmail, histories, History
<1>3. CASE Done(r)
  BY <1>1, <1>2, <1>3, DoneRequests DEF BaseInv
<1>4. /\ q \in Work /\ FederationSound(q) /\ q.prov \in Provider /\ q.subject \in Subject
      /\ Carried(r) => FederationSound(work[r])'
  <2>1. q.stage \in FederationStages
    BY DEF SelectLink, SelectEmail, FederationStages
  <2> QED
    BY <1>1, <2>1, FederatingSound DEF BaseInv, Requests, FederationSound
<1>5. UNCHANGED <<tables, claims, moved>>
  BY DEF SelectLink, SelectEmail
<1>6. CASE \E stage \in {"provision", "select email"} : To(r, stage)
  <2>1. PICK stage \in {"provision", "select email"} : To(r, stage)
    BY <1>6
  <2>2. work'[r] \in Work /\ work'[r].stage = stage /\ Carried(r)
    BY <2>1, ToFields DEF BaseInv, Stages, FederationStages
  <2>3. Sound(work[r])'
    BY <1>4, <2>2, FederationStage DEF FederationStages, WithAccount
  <2> QED
    BY <1>1, <1>2, <2>1, <2>3, OneMoves DEF To, BaseInv
<1>7. CASE links[q.prov][q.subject] # None /\ Found(r, links[q.prov][q.subject], "consume")
  <2> DEFINE a == links[q.prov][q.subject]
  <2>1. LinkOK(q.prov, q.subject) /\ a \in Account
    BY <1>4, <1>7 DEF BaseInv, Tables
  <2>2. work'[r] \in Work /\ work'[r].stage = "consume" /\ work'[r].user = a /\ Carried(r)
    BY <1>7, <2>1, FoundFields DEF BaseInv, Stages, FederationStages
  <2>3. AccountSound(work[r])' /\ LinkSound(work[r])'
    BY <1>5, <1>7, <2>1, <2>2 DEF AccountSound, LinkSound, LinkOK, Carried, Target, tables
  <2>4. Sound(work[r])'
    BY <1>4, <2>2, <2>3, FederationStage DEF FederationStages
  <2> QED
    BY <1>1, <1>2, <1>7, <2>4, OneMoves DEF Found, BaseInv
<1>8. CASE <<q.tenant, q.claim.email>> \in accounts /\ Found(r, <<q.tenant, q.claim.email>>, "link")
  <2> DEFINE a == <<q.tenant, q.claim.email>>
  <2>1. a \in Account /\ a[1] = Home[q.prov] /\ a[2] = q.claim.email /\ q.claim.email \in Email
    <3>1. q.claim.email \in Address /\ q.tenant \in Tenant
      BY <1>8 DEF BaseInv, Tables
    <3>2. q.claim.email \in Email \cup {None}
      BY <1>4 DEF FederationSound, Claim
    <3> QED
      BY <1>4, <3>1, <3>2 DEF Address, FederationSound, Account
  <2>2. work'[r] \in Work /\ work'[r].stage = "link" /\ work'[r].user = a /\ Carried(r)
    BY <1>8, <2>1, FoundFields DEF BaseInv, Stages, FederationStages
  <2>3. q.subject \notin moved => a = Target(q.prov, q.subject)
    BY <1>4, <2>1 DEF FederationSound, Target, Mailbox
  <2>4. AccountSound(work[r])'
    BY <1>5, <1>8, <2>1, <2>2, <2>3 DEF AccountSound, Carried, Target, tables
  <2>5. Sound(work[r])'
    BY <1>4, <2>2, <2>4, FederationStage DEF FederationStages
  <2> QED
    BY <1>1, <1>2, <1>8, <2>5, OneMoves DEF Found, BaseInv
<1> QED
  BY <1>3, <1>6, <1>7, <1>8 DEF SelectLink, SelectEmail, Refuse

-----------------------------------------------------------------------------
(* The steps that write tables.                                              *)

\* Links are unchanged, and so is the address of a subject that has not moved.
LEMMA LinksKept ==
    ASSUME Tables, Grows, links' = links
    PROVE  \A p \in Provider, s \in Subject : LinkOK(p, s)'
BY LinkKept DEF Tables

LEMMA OnboardSound ==
    ASSUME BaseInv, NEW t \in Tenant, NEW e \in Email, Onboard(t, e)
    PROVE  Grows /\ BaseInv'
<1>1. Grows
  BY DEF Grows, Onboard
<1>2. Tables'
  <2>1. accounts' \subseteq tenants' \X Address
    BY DEF BaseInv, Tables, Onboard, Address
  <2>2. \A p \in Provider, s \in Subject : LinkOK(p, s)'
    BY <1>1, LinksKept DEF BaseInv, Onboard
  <2> QED
    BY <2>1, <2>2 DEF BaseInv, Tables, Onboard
<1> QED
  BY <1>1, <1>2, HistoryKept, NobodyMoves DEF BaseInv, Onboard, histories, History

LEMMA InvitationSound ==
    ASSUME BaseInv, NEW i \in Invite, RevokeInvitation(i) \/ InvitationExpires(i)
    PROVE  Grows /\ BaseInv'
<1>1. /\ invites[i] \in Invitation
      /\ \/ invites' = [invites EXCEPT ![i].state = "deleted"]
         \/ invites' = [invites EXCEPT ![i].expired = TRUE]
  BY DEF BaseInv, Tables, RevokeInvitation, InvitationExpires, Pending
<1>2. /\ invites' \in [Invite -> Invitation \cup {None}]
      /\ \A j \in Invite : invites[j] # None =>
            invites'[j] # None /\ invites'[j].tenant = invites[j].tenant
      /\ \A j \in Invite : invites'[j] # None => invites[j] # None
  <2>1. invites'[i] \in Invitation /\ invites'[i].tenant = invites[i].tenant
    <3>1. \/ invites'[i] = [invites[i] EXCEPT !.state = "deleted"]
          \/ invites'[i] = [invites[i] EXCEPT !.expired = TRUE]
      BY <1>1 DEF BaseInv, Tables
    <3> QED
      BY <1>1, <3>1 DEF Invitation
  <2>2. \A j \in Invite \ {i} : invites'[j] = invites[j]
    BY <1>1 DEF BaseInv, Tables
  <2>3. invites' \in [Invite -> Invitation \cup {None}]
    BY <1>1, <2>1, <2>2 DEF BaseInv, Tables
  <2> QED
    BY <1>1, <2>1, <2>2, <2>3
<1>3. UNCHANGED <<tenants, accounts, providers, links, txns, claims, moved, work, histories>>
  BY DEF RevokeInvitation, InvitationExpires
<1>4. Grows
  BY <1>2, <1>3 DEF Grows
<1>5. Tables'
  BY <1>2, <1>3, <1>4, LinksKept DEF BaseInv, Tables
<1> QED
  BY <1>3, <1>4, <1>5, HistoryKept, NobodyMoves DEF BaseInv, histories, History

LEMMA ProviderSound ==
    ASSUME BaseInv,
           \/ \E p \in Provider, c \in Config : UpdateProvider(p, c)
           \/ \E x \in Txn, p \in Provider : BeginFederation(x, p)
           \/ \E x \in Txn : TxnExpires(x)
    PROVE  Grows /\ BaseInv'
<1>1. UNCHANGED <<tenants, accounts, invites, links, claims, moved, work, histories>>
  BY DEF UpdateProvider, BeginFederation, TxnExpires
<1>2. /\ providers' \in [Provider -> Config \cup {None}]
      /\ \A o \in Provider : providers[o] = None <=> providers'[o] = None
  BY DEF BaseInv, Tables, UpdateProvider, BeginFederation, TxnExpires
<1>3. /\ txns' \in [Txn -> Provider \cup {"none", "gone"}]
      /\ \A y \in Txn : txns[y] # "none" => txns'[y] # "none"
      /\ \A y \in Txn : txns'[y] \in Provider =>
            Home[txns'[y]] \in tenants /\ providers[txns'[y]] # None
  <2>1. CASE txns' = txns
    BY <2>1 DEF BaseInv, Tables
  <2>2. CASE \E x \in Txn, p \in Provider : BeginFederation(x, p)
    BY <2>2 DEF BaseInv, Tables, BeginFederation
  <2>3. CASE \E x \in Txn : txns' = [txns EXCEPT ![x] = "gone"]
    BY <2>3 DEF BaseInv, Tables
  <2> QED
    BY <2>1, <2>2, <2>3 DEF UpdateProvider, TxnExpires
<1>4. Grows
  BY <1>1, <1>2, <1>3 DEF Grows
<1>5. Tables'
  BY <1>1, <1>2, <1>3, <1>4, LinksKept DEF BaseInv, Tables
<1> QED
  BY <1>1, <1>4, <1>5, HistoryKept, NobodyMoves DEF BaseInv, histories, History

LEMMA DeleteSound ==
    ASSUME BaseInv, NEW p \in Provider, DeleteProvider(p)
    PROVE  Grows /\ BaseInv'
<1>1. UNCHANGED <<tenants, accounts, invites, claims, moved, work, made, entered, sessions, shared>>
  BY DEF DeleteProvider
<1>2. /\ providers' = [providers EXCEPT ![p] = None]
      /\ links' = [links EXCEPT ![p] = [s \in Subject |-> None]]
      /\ txns' = [x \in Txn |-> IF txns[x] = p THEN "gone" ELSE txns[x]]
      /\ lost' \subseteq lost \cup Subject
  BY DEF DeleteProvider
<1>3. Grows
  BY <1>1, <1>2 DEF Grows, BaseInv, Tables
<1>4. \A o \in Provider, s \in Subject : links'[o][s] \in {links[o][s], None}
  BY <1>2 DEF BaseInv, Tables
<1>5. \A o \in Provider, s \in Subject : LinkOK(o, s)'
  BY <1>3, <1>4, LinkKept DEF BaseInv, Tables
<1>6. Tables'
  BY <1>1, <1>2, <1>5 DEF BaseInv, Tables
<1> QED
  BY <1>1, <1>2, <1>3, <1>6, HistoryKept, NobodyMoves DEF BaseInv, History

LEMMA ClaimSound ==
    ASSUME BaseInv, NEW s \in Subject, NEW c \in Claim, ChangeClaim(s, c)
    PROVE  Grows /\ BaseInv'
<1>1. UNCHANGED <<tables, work, histories>>
  BY DEF ChangeClaim
<1>2. /\ claims' \in [Subject -> Claim]
      /\ moved \subseteq moved' /\ moved' \subseteq Subject
      /\ \A o \in Subject : o \notin moved' => claims'[o].email = claims[o].email
  BY DEF ChangeClaim, BaseInv, Tables
<1>3. Grows
  BY <1>1, <1>2 DEF Grows, tables
<1>4. Tables'
  BY <1>1, <1>2, <1>3, LinksKept DEF BaseInv, Tables, tables
<1> QED
  BY <1>1, <1>3, <1>4, HistoryKept, NobodyMoves DEF BaseInv, histories, History

LEMMA InsertInvitationSound ==
    ASSUME BaseInv, NEW r \in Request, InsertInvitation(r)
    PROVE  Grows /\ BaseInv'
<1>1. /\ Done(r)
      /\ UNCHANGED <<tenants, accounts, providers, links, txns, claims, moved, histories>>
  BY DEF InsertInvitation
<1>2. work[r].tenant \in tenants /\ work[r].email \in Email
  BY SigningUpSound DEF InsertInvitation, SignupSound, SignupStages
<1>3. \/ invites' = invites
      \/ \E i \in Invite :
            /\ invites[i] = None
            /\ invites' = [invites EXCEPT ![i] =
                  [tenant |-> work[r].tenant, email |-> work[r].email,
                   state |-> "pending", expired |-> FALSE]]
  BY DEF InsertInvitation
<1>4. /\ invites' \in [Invite -> Invitation \cup {None}]
      /\ \A j \in Invite : invites[j] # None => invites'[j] = invites[j]
      /\ \A j \in Invite : invites'[j] # None => invites'[j].tenant \in tenants
  <2>1. CASE invites' = invites
    BY <2>1 DEF BaseInv, Tables
  <2>2. ASSUME NEW i \in Invite, invites[i] = None,
               invites' = [invites EXCEPT ![i] =
                  [tenant |-> work[r].tenant, email |-> work[r].email,
                   state |-> "pending", expired |-> FALSE]]
        PROVE  <1>4!1 /\ <1>4!2 /\ <1>4!3
    <3>1. /\ work[r].tenant \in Tenant
          /\ invites \in [Invite -> Invitation \cup {None}]
          /\ \A j \in Invite : invites[j] # None => invites[j].tenant \in tenants
      BY <1>2 DEF BaseInv, Tables
    <3>2. invites'[i] \in Invitation /\ invites'[i].tenant = work[r].tenant
      BY <1>2, <2>2, <3>1 DEF Invitation
    <3>3. \A j \in Invite \ {i} : invites'[j] = invites[j]
      BY <2>2, <3>1
    <3> QED
      BY <1>2, <2>2, <3>1, <3>2, <3>3
  <2> QED
    BY <1>3, <2>1, <2>2
<1>5. Grows
  BY <1>1, <1>4 DEF Grows
<1>6. Tables'
  BY <1>1, <1>4, <1>5, LinksKept DEF BaseInv, Tables
<1> QED
  BY <1>1, <1>5, <1>6, HistoryKept, DoneRequests DEF BaseInv, histories, History

LEMMA InsertUserSound ==
    ASSUME BaseInv, NEW r \in Request, InsertUser(r)
    PROVE  Grows /\ BaseInv'
<1> DEFINE a == <<work[r].tenant, work[r].email>>
           i == work[r].invite
<1>1. UNCHANGED <<tenants, invites, providers, links, txns, claims, moved,
                  entered, sessions, shared, lost>>
  BY DEF InsertUser
<1>2. SignupSound(work[r]) /\ work[r] \in Work
  BY SigningUpSound DEF InsertUser, SignupStages, BaseInv, Requests
<1>3. accounts \subseteq accounts' /\ accounts' \subseteq accounts \cup {a}
  BY DEF InsertUser
<1>4. Grows
  BY <1>1, <1>3 DEF Grows
<1>5. Tables'
  <2>1. a \in tenants \X Address
    BY <1>2 DEF SignupSound, Address
  <2>2. accounts' \subseteq tenants' \X Address
    BY <1>1, <1>3, <2>1 DEF BaseInv, Tables
  <2> QED
    BY <1>1, <1>4, <2>2, LinksKept DEF BaseInv, Tables
<1>6. History'
  <2>1. made' \in [Invite -> SUBSET accounts']
    <3>1. CASE made' = made
      BY <1>3, <3>1 DEF BaseInv, History
    <3>2. CASE i # None /\ made' = [made EXCEPT ![i] = @ \cup {a}] /\ accounts' = accounts \cup {a}
      BY <3>2 DEF BaseInv, History
    <3> QED
      BY <3>1, <3>2 DEF InsertUser
  <2> QED
    BY <1>1, <1>3, <1>4, <2>1, EnteredKept DEF BaseInv, History
<1>7. CASE Done(r)
  BY <1>4, <1>5, <1>6, <1>7, DoneRequests DEF BaseInv
<1>8. CASE i # None /\ To(r, "mark")
  <2>1. work'[r] \in Work /\ work'[r].stage = "mark" /\ Carried(r)
    BY <1>8, ToFields DEF BaseInv, Stages
  <2>2. i \in Invite /\ invites[i] # None /\ work[r].txn = None
    BY <1>2, <1>8 DEF SignupSound, Work
  <2>3. Sound(work[r])'
    BY <1>1, <2>1, <2>2 DEF Carried, Sound, SignupStages, FederationStages, WithAccount
  <2> QED
    BY <1>4, <1>5, <1>6, <1>8, <2>3, OneMoves DEF To, BaseInv
<1> QED
  BY <1>7, <1>8 DEF InsertUser

LEMMA MarkAcceptedSound ==
    ASSUME BaseInv, NEW r \in Request, MarkAccepted(r)
    PROVE  Grows /\ BaseInv'
<1> DEFINE i == work[r].invite
<1>1. /\ Done(r)
      /\ UNCHANGED <<tenants, accounts, providers, links, txns, claims, moved, histories>>
  BY DEF MarkAccepted
<1>2. i \in Invite /\ invites[i] # None /\ invites[i] \in Invitation
  BY DEF MarkAccepted, BaseInv, Requests, Sound, Tables
<1>3. /\ invites' \in [Invite -> Invitation \cup {None}]
      /\ \A j \in Invite : invites[j] # None =>
            invites'[j] # None /\ invites'[j].tenant = invites[j].tenant
      /\ \A j \in Invite : invites'[j] # None => invites[j] # None
  <2>1. CASE invites' = invites
    BY <2>1 DEF BaseInv, Tables
  <2>2. CASE invites' = [invites EXCEPT ![i].state = "accepted"]
    <3>1. invites'[i] = [invites[i] EXCEPT !.state = "accepted"]
      BY <1>2, <2>2 DEF BaseInv, Tables
    <3>2. invites'[i] \in Invitation /\ invites'[i].tenant = invites[i].tenant
      BY <1>2, <3>1 DEF Invitation
    <3>3. \A j \in Invite \ {i} : invites'[j] = invites[j]
      BY <2>2 DEF BaseInv, Tables
    <3> QED
      BY <1>2, <2>2, <3>2, <3>3 DEF BaseInv, Tables
  <2> QED
    BY <2>1, <2>2 DEF MarkAccepted
<1>4. Grows
  BY <1>1, <1>3 DEF Grows
<1>5. Tables'
  BY <1>1, <1>3, <1>4, LinksKept DEF BaseInv, Tables
<1> QED
  BY <1>1, <1>4, <1>5, HistoryKept, DoneRequests DEF BaseInv, histories, History

LEMMA ProvisionSound ==
    ASSUME BaseInv, NEW r \in Request, Provision(r)
    PROVE  Grows /\ BaseInv'
<1> DEFINE q == work[r]
           a == <<q.tenant, Mailbox(q.subject, q.claim)>>
<1>1. UNCHANGED <<tenants, invites, providers, links, txns, claims, moved, histories>>
  BY DEF Provision
<1>2. q.stage \in FederationStages /\ q.prov \in Provider /\ q.subject \in Subject
      /\ FederationSound(q)
  BY FederatingSound DEF Provision, FederationStages, FederationSound
<1>3. /\ a \in tenants \X Address /\ a \in Account /\ a[1] = Home[q.prov]
      /\ a[2] \in Email \cup {q.subject}
      /\ q.subject \notin moved => a = Target(q.prov, q.subject)
  <2>1. Mailbox(q.subject, q.claim) \in Email \cup {q.subject}
    BY <1>2 DEF FederationSound, Mailbox, Claim
  <2>2. q.tenant \in tenants /\ q.tenant \in Tenant /\ q.tenant = Home[q.prov]
    BY <1>2 DEF FederationSound, BaseInv, Tables
  <2>3. q.subject \notin moved => a = Target(q.prov, q.subject)
    BY <1>2, <2>2 DEF FederationSound, Target, Mailbox
  <2> QED
    BY <1>2, <2>1, <2>2, <2>3 DEF Address, Account
<1>4. /\ accounts \subseteq accounts' /\ accounts' \subseteq accounts \cup {a}
  BY DEF Provision
<1>5. Grows
  BY <1>1, <1>4 DEF Grows
<1>6. Tables'
  <2>1. accounts' \subseteq tenants' \X Address
    BY <1>1, <1>3, <1>4 DEF BaseInv, Tables
  <2> QED
    BY <1>1, <1>5, <2>1, LinksKept DEF BaseInv, Tables
<1>7. History'
  BY <1>1, <1>5, HistoryKept DEF BaseInv, histories, History
<1>8. CASE Done(r)
  BY <1>5, <1>6, <1>7, <1>8, DoneRequests DEF BaseInv
<1>9. CASE Found(r, a, "link") /\ accounts' = accounts \cup {a}
  <2>1. work'[r] \in Work /\ work'[r].stage = "link" /\ work'[r].user = a /\ Carried(r)
    BY <1>3, <1>9, FoundFields DEF BaseInv, Stages, FederationStages
  <2>2. FederationSound(work[r])'
    BY <1>2, <1>5, <2>1, FederatingSound
  <2>3. AccountSound(work[r])'
    BY <1>1, <1>3, <1>9, <2>1 DEF AccountSound, Carried, Target
  <2>4. Sound(work[r])'
    BY <2>1, <2>2, <2>3, FederationStage DEF FederationStages
  <2> QED
    BY <1>5, <1>6, <1>7, <1>9, <2>4, OneMoves DEF Found, BaseInv
<1> QED
  BY <1>8, <1>9 DEF Provision, Refuse

\* A request with an account goes on to the next statement.
LEMMA MovesOn ==
    ASSUME BaseInv, Grows, NEW r \in Request, work[r].stage \in WithAccount,
           NEW stage \in {"consume", "enter"}, To(r, stage), LinkSound(work[r])'
    PROVE  Requests'
<1>1. FederationSound(work[r]) /\ AccountSound(work[r]) /\ work[r].stage \in FederationStages
  BY DEF BaseInv, Requests, Sound, WithAccount, FederationStages
<1>2. work'[r] \in Work /\ work'[r].stage = stage /\ work'[r].user = work[r].user /\ Carried(r)
  BY ToFields DEF BaseInv, Stages, FederationStages
<1>3. FederationSound(work[r])'
  BY <1>1, <1>2, FederatingSound
<1>4. AccountSound(work[r])'
  <2>1. work[r].prov \in Provider /\ work[r].subject \in Subject
    BY <1>1 DEF FederationSound
  <2> QED
    BY <1>1, <1>2, <2>1, TargetKept DEF Grows, AccountSound, Carried
<1>5. Sound(work[r])'
  BY <1>2, <1>3, <1>4, FederationStage DEF FederationStages
<1> QED
  BY <1>5, OneMoves DEF To, BaseInv

LEMMA InsertLinkSound ==
    ASSUME BaseInv, NEW r \in Request, InsertLink(r)
    PROVE  Grows /\ BaseInv'
<1> DEFINE q == work[r]
<1>1. UNCHANGED <<tenants, accounts, invites, providers, txns, claims, moved,
                  made, entered, sessions, shared>>
  BY DEF InsertLink
<1>2. /\ q \in Work /\ q.stage \in WithAccount /\ q.prov \in Provider /\ q.subject \in Subject
      /\ AccountSound(q)
  BY DEF InsertLink, BaseInv, Requests, Sound, FederationSound, FederationStages, WithAccount
<1>3. q.user \in Account
  BY <1>2 DEF AccountSound, BaseInv, Tables, Address, Account
<1>4. links' \in [Provider -> [Subject -> Account \cup {None}]]
  <2>1. links \in [Provider -> [Subject -> Account \cup {None}]]
    BY DEF BaseInv, Tables
  <2>2. links' = links \/ links' = [links EXCEPT ![q.prov][q.subject] = q.user]
    BY DEF InsertLink
  <2> QED
    BY <1>2, <1>3, <2>1, <2>2
<1>5. Grows
  BY <1>1, <1>2 DEF Grows, InsertLink, BaseInv, Tables
<1>6. \A p \in Provider, s \in Subject : LinkOK(p, s)'
  <2>1. CASE links' = links
    BY <1>5, <2>1, LinksKept DEF BaseInv
  <2>2. CASE links' = [links EXCEPT ![q.prov][q.subject] = q.user]
    <3> SUFFICES ASSUME NEW p \in Provider, NEW s \in Subject
                 PROVE  LinkOK(p, s)'
      OBVIOUS
    <3>1. CASE p = q.prov /\ s = q.subject
      <4>1. links'[p][s] = q.user
        BY <1>2, <2>2, <3>1 DEF BaseInv, Tables
      <4> QED
        BY <1>1, <1>2, <3>1, <4>1 DEF LinkOK, AccountSound, Target
    <3>2. CASE ~ (p = q.prov /\ s = q.subject)
      <4>1. links'[p][s] = links[p][s]
        BY <2>2, <3>2 DEF BaseInv, Tables
      <4> QED
        BY <1>5, <4>1, LinkKept DEF BaseInv, Tables
    <3> QED
      BY <3>1, <3>2
  <2> QED
    BY <2>1, <2>2 DEF InsertLink
<1>7. Tables'
  BY <1>1, <1>4, <1>6 DEF BaseInv, Tables
<1>8. History'
  <2>1. lost' \subseteq Invite \cup Subject
    BY <1>2 DEF InsertLink, BaseInv, History
  <2> QED
    BY <1>1, <1>5, <2>1, HistoryKept DEF BaseInv, History
<1>9. CASE Done(r)
  BY <1>5, <1>7, <1>8, <1>9, DoneRequests DEF BaseInv
<1>10. CASE /\ To(r, "consume")
            /\ \/ links' = links /\ links[q.prov][q.subject] # None
               \/ links' = [links EXCEPT ![q.prov][q.subject] = q.user]
  <2>1. q.subject \in moved \/ links'[q.prov][q.subject] = q.user
    <3>1. CASE links' = links /\ links[q.prov][q.subject] # None
      BY <1>2, <3>1 DEF AccountSound, BaseInv, Tables, LinkOK
    <3>2. CASE links' = [links EXCEPT ![q.prov][q.subject] = q.user]
      BY <1>2, <3>2 DEF BaseInv, Tables
    <3> QED
      BY <1>10, <3>1, <3>2
  <2>2. Carried(r) /\ work'[r].user = work[r].user
    BY <1>10, ToFields DEF BaseInv, Stages, FederationStages
  <2>3. LinkSound(work[r])'
    BY <1>1, <2>1, <2>2 DEF Carried, LinkSound
  <2> QED
    BY <1>2, <1>5, <1>7, <1>8, <1>10, <2>3, MovesOn DEF BaseInv
<1> QED
  BY <1>9, <1>10 DEF InsertLink, Refuse

LEMMA ConsumeSound ==
    ASSUME BaseInv, NEW r \in Request, Consume(r)
    PROVE  Grows /\ BaseInv'
<1> DEFINE q == work[r]
<1>1. /\ To(r, "enter")
      /\ UNCHANGED <<tenants, accounts, invites, providers, links, claims, moved, histories>>
  BY DEF Consume
<1>2. q \in Work /\ q.stage \in WithAccount /\ LinkSound(q)
  BY DEF Consume, BaseInv, Requests, Sound, WithAccount
<1>3. /\ txns' \in [Txn -> Provider \cup {"none", "gone"}]
      /\ \A x \in Txn : txns'[x] = txns[x] \/ txns'[x] = "gone"
  BY <1>2 DEF Consume, BaseInv, Tables, Work
<1>4. Grows
  BY <1>1, <1>3 DEF Grows
<1>5. Tables'
  BY <1>1, <1>3, <1>4, LinksKept DEF BaseInv, Tables
<1>6. Carried(r) /\ work'[r].user = work[r].user
  BY <1>1, ToFields DEF BaseInv, Stages, FederationStages
<1>7. LinkSound(work[r])'
  BY <1>1, <1>2, <1>6 DEF Carried, LinkSound
<1> QED
  BY <1>1, <1>2, <1>4, <1>5, <1>7, HistoryKept, MovesOn DEF BaseInv, histories, History

LEMMA EnterSound ==
    ASSUME BaseInv, NEW r \in Request, Enter(r)
    PROVE  Grows /\ BaseInv'
<1> DEFINE q == work[r]
           e == [prov |-> q.prov, subject |-> q.subject, user |-> q.user]
<1>1. /\ Done(r) /\ UNCHANGED <<tables, claims, moved, made, shared, lost>>
      /\ entered' = entered \cup {e}
  BY DEF Enter
<1>2. Grows /\ Tables'
  BY <1>1, UnreadKept DEF BaseInv, unread
<1>3. /\ q \in Work /\ q.prov \in Provider /\ q.subject \in Subject
      /\ AccountSound(q) /\ LinkSound(q)
  BY DEF Enter, BaseInv, Requests, Sound, FederationSound, FederationStages, WithAccount
<1>4. entered' \subseteq [prov : Provider, subject : Subject, user : accounts']
      /\ \A f \in entered' : f.user[1] = Home[f.prov]
  BY <1>1, <1>3 DEF BaseInv, History, AccountSound, tables
<1>5. EntersLinkedAccount'
  BY <1>1, <1>3 DEF BaseInv, History, EntersLinkedAccount, LinkSound, tables
<1>6. sessions' \in [Txn -> Nat]
  BY <1>3 DEF Enter, BaseInv, History, Work
<1>7. History'
  BY <1>1, <1>4, <1>5, <1>6 DEF BaseInv, History, tables
<1> QED
  BY <1>1, <1>2, <1>7, DoneRequests DEF BaseInv

LEMMA DieSound ==
    ASSUME BaseInv, NEW r \in Request, Die(r)
    PROVE  Grows /\ BaseInv'
<1>1. /\ Done(r) /\ UNCHANGED <<tables, claims, moved, made, entered, sessions, shared>>
      /\ lost' \subseteq lost \cup (IF work[r].stage = "mark" THEN {work[r].invite} ELSE {})
                              \cup (IF work[r].stage = "link" THEN {work[r].subject} ELSE {})
  BY DEF Die
<1>2. Grows /\ Tables'
  BY <1>1, UnreadKept DEF BaseInv, unread
<1>3. Sound(work[r])
  BY DEF BaseInv, Requests
<1>4. lost' \subseteq Invite \cup Subject
  BY <1>1, <1>3 DEF Sound, FederationSound, FederationStages, BaseInv, History
<1> QED
  BY <1>1, <1>2, <1>4, HistoryKept, DoneRequests DEF BaseInv, History

LEMMA BaseInit == AccountsInit => BaseInv
<1> SUFFICES ASSUME AccountsInit PROVE BaseInv
  OBVIOUS
<1>1. Tables
  BY DEF AccountsInit, Tables, LinkOK
<1>2. History
  BY DEF AccountsInit, History, EntersLinkedAccount
<1>3. Requests
  BY RestingSound DEF AccountsInit, Requests
<1> QED
  BY <1>1, <1>2, <1>3 DEF BaseInv

LEMMA BaseStep == BaseInv /\ [AccountsNext]_accountsVars => Grows /\ BaseInv'
<1> SUFFICES ASSUME BaseInv, [AccountsNext]_accountsVars PROVE Grows /\ BaseInv'
  OBVIOUS
<1>1. CASE UNCHANGED accountsVars
  BY <1>1, UnreadKept, HistoryKept, NobodyMoves
     DEF BaseInv, accountsVars, histories, unread, History
<1>2. CASE SignupNext
  <2>1. ASSUME NEW r \in Request, NEW i \in Invite, NEW e \in Email, StartInvited(r, i, e)
        PROVE  Grows /\ BaseInv'
    <3>1. invites[i].tenant \in Tenant
      BY <2>1 DEF StartInvited, Pending, BaseInv, Tables
    <3> QED
      BY <2>1, <3>1, StartsSound
  <2> QED
    BY <1>2, <2>1, OnboardSound, StartsSound, InvitationSound, SelectUserSound,
       InsertInvitationSound, InsertUserSound, MarkAcceptedSound DEF SignupNext
<1>3. CASE FederationNext
  BY <1>3, ProviderSound, DeleteSound, ClaimSound, CallbackSound, SelectLinkSound,
     ProvisionSound, InsertLinkSound, ConsumeSound, EnterSound DEF FederationNext
<1>4. CASE \E r \in Request : Die(r)
  BY <1>4, DieSound
<1> QED
  BY <1>1, <1>2, <1>3, <1>4 DEF AccountsNext

-----------------------------------------------------------------------------
(* Invitations and transactions are used once.                               *)

\* While nobody shares invitation i and no request with it has died half way, one
\* request at most has it, and the one that has made an account has only to mark it.
InvitationOnce(i) ==
    i \in shared \cup lost \/
        /\ \A r, s \in Request : work[r].invite = i /\ work[s].invite = i => r = s
        /\ \A a, b \in made[i] : a = b
        /\ made[i] # {} =>
              /\ invites[i] # None
              /\ \A r \in Request : work[r].invite = i => work[r].stage = "mark"
              /\ Pending(i) => \E r \in Request : work[r].invite = i

\* The same for a transaction: the request that has consumed it is to enter.
TransactionOnce(x) ==
    x \in shared \/
        /\ \A r, s \in Request : work[r].txn = x /\ work[s].txn = x => r = s
        /\ \A r \in Request : work[r].txn = x /\ work[r].stage = "enter" => txns[x] = "gone"
        /\ sessions[x] \in {0, 1}
        /\ sessions[x] # 0 => txns[x] = "gone" /\ \A r \in Request : work[r].txn # x

OnceInv ==
    /\ \A i \in Invite : InvitationOnce(i)
    /\ \A x \in Txn : TransactionOnce(x)

\* A step that makes neither accounts with i nor sessions for x, and gives them to
\* nobody.
InvitationRests(i) ==
    /\ made'[i] = made[i]
    /\ invites[i] # None => invites'[i] # None /\ (Pending(i)' => Pending(i))
    /\ \A r \in Request : work'[r].invite = i =>
          work[r].invite = i /\ (work[r].stage = "mark" => work'[r].stage = "mark")
    /\ \A r \in Request : work[r].invite = i /\ work[r].stage = "mark" =>
          work'[r].invite = i \/ ~ Pending(i)'

TransactionRests(x) ==
    /\ sessions'[x] = sessions[x]
    /\ txns[x] = "gone" => txns'[x] = "gone"
    /\ \A r \in Request : work'[r].txn = x =>
          work[r].txn = x /\ (work'[r].stage = "enter" => work[r].stage = "enter" \/ txns'[x] = "gone")

Remembers == shared \subseteq shared' /\ lost \subseteq lost'

LEMMA InvitationRested ==
    ASSUME NEW i \in Invite, InvitationOnce(i), Remembers, InvitationRests(i)
    PROVE  InvitationOnce(i)'
<1> SUFFICES ASSUME i \notin shared' \cup lost' PROVE InvitationOnce(i)'
  BY DEF InvitationOnce
<1>1. i \notin shared \cup lost
  BY DEF Remembers
<1>2. \A r, s \in Request : work'[r].invite = i /\ work'[s].invite = i => r = s
  BY <1>1 DEF InvitationOnce, InvitationRests
<1>3. ASSUME made'[i] # {}
      PROVE  /\ invites'[i] # None
             /\ \A r \in Request : work'[r].invite = i => work'[r].stage = "mark"
             /\ Pending(i)' => \E r \in Request : work'[r].invite = i
  <2>1. /\ invites[i] # None
        /\ \A r \in Request : work[r].invite = i => work[r].stage = "mark"
        /\ Pending(i) => \E r \in Request : work[r].invite = i
    BY <1>1, <1>3 DEF InvitationOnce, InvitationRests
  <2> QED
    BY <2>1 DEF InvitationRests
<1> QED
  BY <1>1, <1>2, <1>3 DEF InvitationOnce, InvitationRests

LEMMA TransactionRested ==
    ASSUME NEW x \in Txn, TransactionOnce(x), Remembers, TransactionRests(x)
    PROVE  TransactionOnce(x)'
<1> SUFFICES ASSUME x \notin shared' PROVE TransactionOnce(x)'
  BY DEF TransactionOnce
<1>1. x \notin shared
  BY DEF Remembers
<1>2. \A r, s \in Request : work'[r].txn = x /\ work'[s].txn = x => r = s
  BY <1>1 DEF TransactionOnce, TransactionRests
<1> QED
  BY <1>1, <1>2 DEF TransactionOnce, TransactionRests

\* Requests of the two kinds hold neither's things.
LEMMA Holdings ==
    ASSUME BaseInv, NEW r \in Request
    PROVE  /\ work[r].stage \in SignupStages \cup {"mark"} => work[r].txn = None
           /\ work[r].stage \in FederationStages => work[r].invite = None
           /\ work[r].stage = "idle" => work[r] = Resting
           /\ work[r].invite = None => work[r].invite \notin Invite
           /\ work[r].txn = None => work[r].txn \notin Txn
BY DEF BaseInv, Requests, Sound, SignupSound, FederationSound

\* Steps of no request.
LEMMA TablesRest ==
    ASSUME BaseInv, work' = work, UNCHANGED <<made, sessions, shared>>, lost \subseteq lost',
           \A i \in Invite : invites[i] # None => invites'[i] # None /\ (Pending(i)' => Pending(i)),
           \A x \in Txn : txns[x] = "gone" => txns'[x] = "gone"
    PROVE  /\ Remembers
           /\ \A i \in Invite : InvitationRests(i)
           /\ \A x \in Txn : TransactionRests(x)
BY DEF Remembers, InvitationRests, TransactionRests

\* A request that is done, or goes on with what it has, before it marks or enters.
LEMMA RequestRests ==
    ASSUME BaseInv, NEW r \in Request, UNCHANGED <<invites, made, sessions, shared>>,
           lost \subseteq lost',
           \A x \in Txn : txns[x] = "gone" => txns'[x] = "gone",
           \/ Done(r)
           \/ \E stage \in Stages \ {"mark", "enter"} :
                 To(r, stage) \/ \E a \in Account : Found(r, a, stage),
           work[r].stage # "mark"
    PROVE  /\ Remembers
           /\ \A i \in Invite : InvitationRests(i)
           /\ \A x \in Txn : TransactionRests(x)
<1>1. \A s \in Request \ {r} : work'[s] = work[s]
  BY DEF BaseInv, Requests, Done, To, Found
<1>2. \/ work'[r].invite = None /\ work'[r].txn = None
      \/ /\ work'[r].invite = work[r].invite /\ work'[r].txn = work[r].txn
         /\ work'[r].stage # "enter"
  <2>1. CASE Done(r)
    BY <2>1 DEF BaseInv, Requests, Done, Resting
  <2>2. ASSUME NEW stage \in Stages \ {"mark", "enter"}, To(r, stage)
        PROVE  <1>2!2
    BY <2>2, ToFields DEF BaseInv, Carried
  <2>3. ASSUME NEW stage \in Stages \ {"mark", "enter"}, NEW a \in Account, Found(r, a, stage)
        PROVE  <1>2!2
    BY <2>3, FoundFields DEF BaseInv, Carried
  <2> QED
    BY <2>1, <2>2, <2>3
<1>3. \A i \in Invite : InvitationRests(i)
  <2> SUFFICES ASSUME NEW i \in Invite PROVE InvitationRests(i)
    OBVIOUS
  <2>1. Pending(i)' <=> Pending(i)
    BY DEF Pending
  <2> QED
    BY <1>1, <1>2, <2>1 DEF InvitationRests
<1>4. \A x \in Txn : TransactionRests(x)
  BY <1>1, <1>2 DEF TransactionRests
<1> QED
  BY <1>3, <1>4 DEF Remembers

\* A request starts with what it takes: invitation i and transaction x, or None.
LEMMA StartOnce ==
    ASSUME BaseInv, OnceInv, NEW r \in Request, work[r] = Resting,
           NEW i \in Invite \cup {None}, NEW x \in Txn \cup {None},
           \E v : work' = [work EXCEPT ![r] = v],
           work'[r].invite = i, work'[r].txn = x, work'[r].stage \notin {"mark", "enter"},
           UNCHANGED <<invites, txns, made, sessions, lost>>,
           i # None => Pending(i) /\ Taken(i),
           x # None => txns[x] # "gone" /\ Taken(x),
           i = None \/ x = None,
           i = None /\ x = None => shared' = shared
    PROVE  OnceInv'
<1>1. Remembers
  BY DEF Remembers, Taken
<1>2. \A s \in Request \ {r} : work'[s] = work[s]
  BY DEF BaseInv, Requests
<1>3. work[r].invite = None /\ work[r].txn = None /\ work[r].stage = "idle"
  BY DEF Resting
<1>4. ASSUME NEW j \in Invite PROVE InvitationOnce(j)'
  <2>1. CASE j # i
    <3>1. InvitationRests(j)
      BY <1>2, <1>3, <2>1 DEF InvitationRests, Pending
    <3> QED
      BY <1>1, <3>1, InvitationRested DEF OnceInv
  <2>2. CASE j = i
    <3> SUFFICES ASSUME i \notin shared' \cup lost' PROVE InvitationOnce(j)'
      BY <2>2 DEF InvitationOnce
    <3>1. \A s \in Request : work[s].invite # i
      BY <2>2 DEF Taken, Handling
    <3>2. made[i] = {}
      BY <1>1, <2>2, <3>1 DEF OnceInv, InvitationOnce, Remembers
    <3> QED
      BY <1>2, <2>2, <3>1, <3>2 DEF InvitationOnce
  <2> QED
    BY <2>1, <2>2
<1>5. ASSUME NEW y \in Txn PROVE TransactionOnce(y)'
  <2>1. CASE y # x
    <3>1. TransactionRests(y)
      BY <1>2, <1>3, <2>1 DEF TransactionRests
    <3> QED
      BY <1>1, <3>1, TransactionRested DEF OnceInv
  <2>2. CASE y = x
    <3> SUFFICES ASSUME x \notin shared' PROVE TransactionOnce(y)'
      BY <2>2 DEF TransactionOnce
    <3>1. \A s \in Request : work[s].txn # x
      BY <2>2 DEF Taken, Handling
    <3>2. sessions[x] = 0
      BY <1>1, <2>2, <3>1 DEF OnceInv, TransactionOnce, Remembers
    <3> QED
      BY <1>2, <2>2, <3>1, <3>2 DEF TransactionOnce
  <2> QED
    BY <2>1, <2>2
<1> QED
  BY <1>4, <1>5 DEF OnceInv

\* When every invitation and transaction rests.
LEMMA RestedOnce ==
    ASSUME OnceInv, Remembers, \A i \in Invite : InvitationRests(i),
           \A x \in Txn : TransactionRests(x)
    PROVE  OnceInv'
BY InvitationRested, TransactionRested DEF OnceInv

LEMMA InsertUserOnce ==
    ASSUME BaseInv, OnceInv, NEW r \in Request, InsertUser(r)
    PROVE  OnceInv'
<1> DEFINE a == <<work[r].tenant, work[r].email>>
<1>1. work[r].stage = "insert" /\ UNCHANGED <<invites, txns, sessions, shared, lost>>
  BY DEF InsertUser
<1>0. PICK i \in Invite \cup {None} : i = work[r].invite
  BY DEF BaseInv, Requests, Work
<1>2. CASE Done(r) /\ made' = made
  BY <1>1, <1>2, RequestRests, RestedOnce
<1>3. CASE i # None /\ To(r, "mark") /\ made' = [made EXCEPT ![i] = @ \cup {a}]
  <2>1. i \in Invite /\ invites[i] # None
    BY <1>0, <1>1, <1>3, SigningUpSound DEF SignupSound, SignupStages, BaseInv, Requests, Work
  <2>2. /\ \A s \in Request \ {r} : work'[s] = work[s]
        /\ work'[r].stage = "mark" /\ work'[r].invite = i /\ work'[r].txn = work[r].txn
    BY <1>0, <1>3, ToFields DEF BaseInv, Requests, To, Stages, Carried
  <2>3. made'[i] = made[i] \cup {a} /\ \A j \in Invite \ {i} : made'[j] = made[j]
    BY <1>3, <2>1 DEF BaseInv, History
  <2>4. Remembers
    BY <1>1 DEF Remembers
  <2>5. InvitationOnce(i)'
    <3> SUFFICES ASSUME i \notin shared' \cup lost' PROVE InvitationOnce(i)'
      BY DEF InvitationOnce
    <3>1. /\ \A s, t \in Request : work[s].invite = i /\ work[t].invite = i => s = t
          /\ made[i] = {}
      BY <1>0, <1>1, <2>1 DEF OnceInv, InvitationOnce
    <3> QED
      BY <1>0, <1>1, <2>1, <2>2, <2>3, <3>1 DEF InvitationOnce
  <2>6. ASSUME NEW j \in Invite, j # i PROVE InvitationRests(j)
    BY <1>0, <1>1, <2>2, <2>3, <2>6 DEF InvitationRests, Pending
  <2>7. \A x \in Txn : TransactionRests(x)
    BY <1>1, <2>2 DEF TransactionRests
  <2> QED
    BY <2>4, <2>5, <2>6, <2>7, InvitationRested, TransactionRested DEF OnceInv
<1> QED
  BY <1>0, <1>2, <1>3 DEF InsertUser

LEMMA MarkAcceptedOnce ==
    ASSUME BaseInv, OnceInv, NEW r \in Request, MarkAccepted(r)
    PROVE  OnceInv'
<1>1. Done(r) /\ UNCHANGED <<txns, made, sessions, shared, lost>>
  BY DEF MarkAccepted, histories
<1>2. PICK i \in Invite : i = work[r].invite /\ invites[i] # None /\ invites[i] \in Invitation
  BY DEF MarkAccepted, BaseInv, Requests, Sound, Tables
<1>3. /\ \A s \in Request \ {r} : work'[s] = work[s]
      /\ work'[r].invite = None /\ work'[r].txn = None
  BY <1>1 DEF BaseInv, Requests, Done, Resting
<1>4. invites'[i] # None /\ ~ Pending(i)'
  <2>1. CASE invites' = invites /\ (invites[i].state = "deleted" \/ invites[i].expired)
    BY <1>2, <2>1 DEF Pending
  <2>2. CASE invites' = [invites EXCEPT ![i].state = "accepted"]
    <3>1. invites'[i] = [invites[i] EXCEPT !.state = "accepted"]
      BY <1>2, <2>2 DEF BaseInv, Tables
    <3>2. invites'[i] \in Invitation /\ invites'[i].state = "accepted"
      BY <1>2, <3>1 DEF Invitation
    <3> QED
      BY <3>2 DEF Pending
  <2> QED
    BY <1>2, <2>1, <2>2 DEF MarkAccepted
<1>5. \A j \in Invite \ {i} : invites'[j] = invites[j]
  BY <1>2 DEF MarkAccepted, BaseInv, Tables
<1>6. \A j \in Invite : InvitationRests(j)
  BY <1>1, <1>2, <1>3, <1>4, <1>5 DEF InvitationRests, Pending
<1>7. \A x \in Txn : TransactionRests(x)
  BY <1>1, <1>3 DEF TransactionRests
<1> QED
  BY <1>1, <1>6, <1>7, RestedOnce DEF Remembers

LEMMA EnterOnce ==
    ASSUME BaseInv, OnceInv, NEW r \in Request, Enter(r)
    PROVE  OnceInv'
<1>0. PICK x \in Txn \cup {None} : x = work[r].txn
  BY DEF BaseInv, Requests, Work
<1>1. /\ Done(r) /\ UNCHANGED <<invites, txns, made, shared, lost>>
      /\ work[r].stage = "enter"
      /\ sessions' = IF x = None THEN sessions ELSE [sessions EXCEPT ![x] = @ + 1]
  BY <1>0 DEF Enter, tables
<1>2. CASE x = None
  BY <1>1, <1>2, RequestRests, RestedOnce
<1>3. CASE x # None
  <2>1. x \in Txn
    BY <1>3 DEF BaseInv, Requests, Work
  <2>2. /\ \A s \in Request \ {r} : work'[s] = work[s]
        /\ work'[r].invite = None /\ work'[r].txn = None
    BY <1>1 DEF BaseInv, Requests, Done, Resting
  <2>3. /\ sessions'[x] = sessions[x] + 1
        /\ \A y \in Txn \ {x} : sessions'[y] = sessions[y]
    BY <1>1, <1>3, <2>1 DEF BaseInv, History
  <2>4. Remembers
    BY <1>1 DEF Remembers
  <2>5. \A i \in Invite : InvitationRests(i)
    BY <1>1, <2>2 DEF InvitationRests, Pending
  <2>6. TransactionOnce(x)'
    <3> SUFFICES ASSUME x \notin shared' PROVE TransactionOnce(x)'
      BY DEF TransactionOnce
    <3>1. /\ \A s, t \in Request : work[s].txn = x /\ work[t].txn = x => s = t
          /\ txns[x] = "gone" /\ sessions[x] = 0
      BY <1>0, <1>1, <2>1 DEF OnceInv, TransactionOnce
    <3> QED
      BY <1>0, <1>1, <2>1, <2>2, <2>3, <3>1 DEF TransactionOnce
  <2>7. ASSUME NEW y \in Txn, y # x PROVE TransactionRests(y)
    BY <1>0, <1>1, <2>2, <2>3, <2>7 DEF TransactionRests
  <2> QED
    BY <2>4, <2>5, <2>6, <2>7, InvitationRested, TransactionRested DEF OnceInv
<1> QED
  BY <1>2, <1>3

LEMMA ConsumeOnce ==
    ASSUME BaseInv, OnceInv, NEW r \in Request, Consume(r)
    PROVE  OnceInv'
<1> DEFINE x == work[r].txn
<1>1. /\ To(r, "enter") /\ UNCHANGED <<invites, made, sessions, shared, lost>>
      /\ work[r].stage = "consume"
      /\ txns' = IF x = None THEN txns ELSE [txns EXCEPT ![x] = "gone"]
  BY DEF Consume, histories
<1>2. /\ \A s \in Request \ {r} : work'[s] = work[s]
      /\ work'[r].invite = work[r].invite /\ work'[r].txn = x
  BY <1>1, ToFields DEF BaseInv, Requests, To, Stages, FederationStages, Carried
<1>3. \A i \in Invite : InvitationRests(i)
  BY <1>1, <1>2 DEF InvitationRests, Pending
<1>4. ASSUME NEW y \in Txn PROVE TransactionRests(y)
  <2>1. txns[y] = "gone" => txns'[y] = "gone"
    BY <1>1 DEF BaseInv, Tables
  <2>2. y = x => txns'[y] = "gone"
    BY <1>1 DEF BaseInv, Tables
  <2> QED
    BY <1>1, <1>2, <2>1, <2>2 DEF TransactionRests
<1> QED
  BY <1>1, <1>3, <1>4, RestedOnce DEF Remembers

LEMMA DieOnce ==
    ASSUME BaseInv, OnceInv, NEW r \in Request, Die(r)
    PROVE  OnceInv'
<1>1. /\ Done(r) /\ UNCHANGED <<invites, txns, made, sessions, shared>>
      /\ lost \subseteq lost'
      /\ work[r].stage = "mark" => work[r].invite \in lost'
  BY DEF Die, tables
<1>2. CASE work[r].stage # "mark"
  BY <1>1, <1>2, RequestRests, RestedOnce
<1>3. CASE work[r].stage = "mark"
  <2>1. /\ \A s \in Request \ {r} : work'[s] = work[s]
        /\ work'[r].invite = None /\ work'[r].txn = None
    BY <1>1 DEF BaseInv, Requests, Done, Resting
  <2>2. Remembers
    BY <1>1 DEF Remembers
  <2>3. \A x \in Txn : TransactionRests(x)
    BY <1>1, <2>1 DEF TransactionRests
  <2>4. ASSUME NEW i \in Invite PROVE InvitationOnce(i)'
    <3>1. CASE work[r].invite = i
      BY <1>1, <1>3, <3>1 DEF InvitationOnce
    <3>2. CASE work[r].invite # i
      <4>1. InvitationRests(i)
        BY <1>1, <2>1, <3>2 DEF InvitationRests, Pending
      <4> QED
        BY <2>2, <4>1, InvitationRested DEF OnceInv
    <3> QED
      BY <3>1, <3>2
  <2> QED
    BY <2>2, <2>3, <2>4, TransactionRested DEF OnceInv
<1> QED
  BY <1>2, <1>3

\* Steps of one request that concern neither.
LEMMA OtherRequestOnce ==
    ASSUME BaseInv, OnceInv, NEW r \in Request,
           \/ SelectUser(r) \/ InsertInvitation(r) \/ SelectLink(r) \/ SelectEmail(r)
           \/ Provision(r) \/ InsertLink(r)
    PROVE  OnceInv'
<1>1. CASE InsertInvitation(r)
  <2>1. /\ Done(r) /\ UNCHANGED <<txns, made, sessions, shared, lost>>
        /\ work[r].stage = "insert invitation"
    BY <1>1 DEF InsertInvitation, histories
  <2>2. \A j \in Invite : invites[j] # None => invites'[j] = invites[j]
    BY <1>1 DEF InsertInvitation, BaseInv, Tables
  <2>3. /\ \A s \in Request \ {r} : work'[s] = work[s]
        /\ work'[r].invite = None /\ work'[r].txn = None
    BY <2>1 DEF BaseInv, Requests, Done, Resting
  <2>4. \A j \in Invite : InvitationRests(j)
    BY <2>1, <2>2, <2>3 DEF InvitationRests, Pending
  <2>5. \A x \in Txn : TransactionRests(x)
    BY <2>1, <2>3 DEF TransactionRests
  <2> QED
    BY <2>1, <2>4, <2>5, RestedOnce DEF Remembers
<1>2. CASE SelectUser(r) \/ SelectLink(r) \/ SelectEmail(r) \/ Provision(r) \/ InsertLink(r)
  <2>1. /\ UNCHANGED <<invites, txns, made, sessions, shared>> /\ lost \subseteq lost'
        /\ work[r].stage # "mark"
    BY <1>2 DEF SelectUser, SelectLink, SelectEmail, Provision, InsertLink, tables, histories
  <2>2. \/ Done(r)
        \/ \E stage \in Stages \ {"mark", "enter"} :
              To(r, stage) \/ \E a \in Account : Found(r, a, stage)
    <3>1. CASE SelectUser(r) \/ InsertLink(r)
      BY <3>1 DEF SelectUser, InsertLink, Refuse, Stages, SignupStages, FederationStages
    <3>2. CASE SelectLink(r)
      <4>1. work[r].prov \in Provider /\ work[r].subject \in Subject
        BY <3>2, FederatingSound DEF SelectLink, FederationSound, FederationStages
      <4>2. links[work[r].prov][work[r].subject] \in Account \cup {None}
        BY <4>1 DEF BaseInv, Tables
      <4> QED
        BY <3>2, <4>2 DEF SelectLink, Refuse, Stages, FederationStages
    <3>3. CASE SelectEmail(r)
      <4>1. \A a \in accounts : a \in Account
        BY DEF BaseInv, Tables, Account, Address
      <4> QED
        BY <3>3, <4>1 DEF SelectEmail, Refuse, Stages, FederationStages
    <3>4. CASE Provision(r)
      <4>1. <<work[r].tenant, Mailbox(work[r].subject, work[r].claim)>> \in Account
        <5>1. FederationSound(work[r])
          BY <3>4, FederatingSound DEF Provision, FederationStages
        <5>2. /\ work[r].tenant \in Tenant
              /\ Mailbox(work[r].subject, work[r].claim) \in Address
          BY <5>1 DEF FederationSound, Mailbox, Claim, Address, BaseInv, Tables
        <5> QED
          BY <5>2 DEF Account
      <4> QED
        BY <3>4, <4>1 DEF Provision, Refuse, Stages, FederationStages
    <3> QED
      BY <1>2, <3>1, <3>2, <3>3, <3>4
  <2> QED
    BY <2>1, <2>2, RequestRests, RestedOnce
<1> QED
  BY <1>1, <1>2

LEMMA OnceStarts ==
    ASSUME BaseInv, OnceInv, NEW r \in Request,
           \/ \E t \in Tenant, e \in Email : StartInvite(r, t, e) \/ StartSignup(r, t, e)
           \/ \E i \in Invite, e \in Email : StartInvited(r, i, e)
           \/ \E p \in Provider, s \in Subject : TokenExchanged(r, p, s)
           \/ \E x \in Txn, s \in Subject : Callback(r, x, s)
    PROVE  OnceInv'
<1>1. CASE \E t \in Tenant, e \in Email : StartInvite(r, t, e) \/ StartSignup(r, t, e)
  <2>1. /\ work'[r].invite = None /\ work'[r].txn = None
        /\ work'[r].stage \notin {"mark", "enter"}
    <3>1. PICK t \in Tenant, e \in Email, stage \in {"inviting", "signing up"} :
            work'[r] = [Resting EXCEPT !.stage = stage, !.tenant = t, !.email = e]
      BY <1>1 DEF StartInvite, StartSignup, BaseInv, Requests
    <3> QED
      BY <3>1 DEF Resting
  <2> QED
    BY <1>1, <2>1, StartOnce DEF StartInvite, StartSignup, tables, histories
<1>2. ASSUME NEW i \in Invite, NEW e \in Email, StartInvited(r, i, e) PROVE OnceInv'
  <2>1. /\ work'[r].invite = i /\ work'[r].txn = None
        /\ work'[r].stage \notin {"mark", "enter"}
    BY <1>2 DEF StartInvited, BaseInv, Requests, Resting
  <2> QED
    BY <1>2, <2>1, StartOnce DEF StartInvited, tables
<1>3. ASSUME NEW p \in Provider, NEW s \in Subject, TokenExchanged(r, p, s) PROVE OnceInv'
  <2>1. /\ work'[r].invite = None /\ work'[r].txn = None
        /\ work'[r].stage \notin {"mark", "enter"}
    BY <1>3 DEF TokenExchanged, Federating, BaseInv, Requests, Resting
  <2> QED
    BY <1>3, <2>1, StartOnce DEF TokenExchanged, tables, histories
<1>4. ASSUME NEW x \in Txn, NEW s \in Subject, Callback(r, x, s) PROVE OnceInv'
  <2>1. /\ work'[r].invite = None /\ work'[r].txn = x
        /\ work'[r].stage \notin {"mark", "enter"}
    BY <1>4 DEF Callback, Federating, BaseInv, Requests, Resting
  <2> QED
    BY <1>4, <2>1, StartOnce DEF Callback, tables
<1> QED
  BY <1>1, <1>2, <1>3, <1>4

LEMMA OnceStep == BaseInv /\ OnceInv /\ [AccountsNext]_accountsVars => OnceInv'
<1> SUFFICES ASSUME BaseInv, OnceInv, [AccountsNext]_accountsVars PROVE OnceInv'
  OBVIOUS
<1>0. ASSUME UNCHANGED <<work, made, sessions, shared>>, lost \subseteq lost',
             \A i \in Invite : invites[i] # None =>
                invites'[i] # None /\ (Pending(i)' => Pending(i)),
             \A x \in Txn : txns[x] = "gone" => txns'[x] = "gone"
      PROVE  OnceInv'
  BY <1>0, TablesRest, RestedOnce
<1>1. CASE UNCHANGED accountsVars
  BY <1>0, <1>1 DEF accountsVars, tables, histories, Pending
<1>2. CASE SignupNext
  <2>1. ASSUME NEW t \in Tenant, NEW e \in Email, Onboard(t, e) PROVE OnceInv'
    BY <1>0, <2>1 DEF Onboard, histories, Pending
  <2>2. ASSUME NEW i \in Invite, RevokeInvitation(i) \/ InvitationExpires(i) PROVE OnceInv'
    <3>1. UNCHANGED <<work, made, sessions, shared, lost, txns>>
      BY <2>2 DEF RevokeInvitation, InvitationExpires, histories
    <3>2. invites[i] \in Invitation
      BY <2>2 DEF RevokeInvitation, InvitationExpires, Pending, BaseInv, Tables
    <3>3. \/ invites'[i] = [invites[i] EXCEPT !.state = "deleted"]
          \/ invites'[i] = [invites[i] EXCEPT !.expired = TRUE]
      BY <2>2 DEF RevokeInvitation, InvitationExpires, BaseInv, Tables
    <3>4. invites'[i] \in Invitation
          /\ (invites'[i].state = "deleted" \/ invites'[i].expired = TRUE)
      BY <3>2, <3>3 DEF Invitation
    <3>5. \A j \in Invite \ {i} : invites'[j] = invites[j]
      BY <2>2 DEF RevokeInvitation, InvitationExpires, BaseInv, Tables
    <3> QED
      BY <1>0, <3>1, <3>4, <3>5 DEF Pending
  <2> QED
    BY <1>2, <2>1, <2>2, OnceStarts, OtherRequestOnce, InsertUserOnce, MarkAcceptedOnce
       DEF SignupNext
<1>3. CASE FederationNext
  <2>1. ASSUME NEW p \in Provider, DeleteProvider(p) PROVE OnceInv'
    <3>1. /\ UNCHANGED <<work, invites, made, sessions, shared>> /\ lost \subseteq lost'
          /\ \A x \in Txn : txns[x] = "gone" => txns'[x] = "gone"
      BY <2>1 DEF DeleteProvider
    <3> QED
      BY <1>0, <3>1 DEF Pending
  <2>2. ASSUME NEW p \in Provider, NEW c \in Config, UpdateProvider(p, c) PROVE OnceInv'
    BY <1>0, <2>2 DEF UpdateProvider, histories, Pending
  <2>3. ASSUME NEW x \in Txn, TxnExpires(x) \/ \E p \in Provider : BeginFederation(x, p)
        PROVE  OnceInv'
    <3>1. /\ UNCHANGED <<work, invites, made, sessions, shared, lost>>
          /\ \A y \in Txn : txns[y] = "gone" => txns'[y] = "gone"
      BY <2>3 DEF BeginFederation, TxnExpires, histories, BaseInv, Tables
    <3> QED
      BY <1>0, <3>1 DEF Pending
  <2>4. ASSUME NEW s \in Subject, NEW c \in Claim, ChangeClaim(s, c) PROVE OnceInv'
    BY <1>0, <2>4 DEF ChangeClaim, tables, histories, Pending
  <2> QED
    BY <1>3, <2>1, <2>2, <2>3, <2>4, OnceStarts, OtherRequestOnce, ConsumeOnce, EnterOnce
       DEF FederationNext
<1>4. CASE \E r \in Request : Die(r)
  BY <1>4, DieOnce
<1> QED
  BY <1>1, <1>2, <1>3, <1>4 DEF AccountsNext

-----------------------------------------------------------------------------
(* A made-up address leads back to its subject.                              *)

\* An account with the made-up address of a subject is on its way to a link, is
\* linked, or its request is lost; the subject has no other address.
MadeUp(h, s) ==
    <<h, s>> \in accounts =>
        \/ s \in lost \cup moved
        \/ /\ claims[s].email = None
           /\ \E p \in Provider : Home[p] = h /\ (links[p][s] # None \/ Linking(p, s))

MadeUpInv == \A h \in Tenant, s \in Subject : MadeUp(h, s)

\* A step that makes no such account, drops no link and stops no linking request.
LEMMA MadeUpRests ==
    ASSUME MadeUpInv, BaseInv, Grows, lost \subseteq lost',
           \A h \in Tenant, s \in Subject : <<h, s>> \in accounts' => <<h, s>> \in accounts,
           \A p \in Provider, s \in Subject : links[p][s] # None => links'[p][s] # None \/ s \in lost',
           \A q \in Request : work[q].stage = "link" => work'[q] = work[q]
    PROVE  MadeUpInv'
<1> SUFFICES ASSUME NEW h \in Tenant, NEW s \in Subject, s \notin lost' \cup moved',
                    <<h, s>> \in accounts'
             PROVE  /\ claims'[s].email = None
                    /\ \E p \in Provider : Home[p] = h /\ (links'[p][s] # None \/ Linking(p, s)')
  BY DEF MadeUpInv, MadeUp
<1>1. /\ claims[s].email = None /\ claims'[s].email = claims[s].email
  BY DEF MadeUpInv, MadeUp, Grows
<1>2. PICK p \in Provider : Home[p] = h /\ (links[p][s] # None \/ Linking(p, s))
  BY DEF MadeUpInv, MadeUp, Grows
<1>3. Linking(p, s) => Linking(p, s)'
  BY DEF Linking
<1> QED
  BY <1>1, <1>2, <1>3

LEMMA MadeUpProvision ==
    ASSUME MadeUpInv, BaseInv, Grows, NEW r \in Request, Provision(r)
    PROVE  MadeUpInv'
<1> DEFINE q == work[r]
           a == <<q.tenant, Mailbox(q.subject, q.claim)>>
<1>1. UNCHANGED <<links, claims, moved, lost>> /\ q.stage = "provision"
  BY DEF Provision, histories
<1>2. CASE accounts' = accounts /\ Done(r)
  BY <1>1, <1>2, MadeUpRests DEF Done, BaseInv, Requests
<1>3. CASE accounts' = accounts \cup {a} /\ Found(r, a, "link")
  <2>1. FederationSound(q) /\ q \in Work
    BY <1>1, FederatingSound DEF FederationStages, BaseInv, Requests
  <2>2. a \in Account
    <3>1. q.tenant \in Tenant /\ Mailbox(q.subject, q.claim) \in Address
      BY <2>1 DEF FederationSound, Mailbox, Claim, Address, BaseInv, Tables
    <3> QED
      BY <3>1 DEF Account
  <2>3. /\ work'[r].stage = "link" /\ work'[r].prov = q.prov /\ work'[r].subject = q.subject
    BY <1>3, <2>2, FoundFields DEF BaseInv, Stages, FederationStages, Carried
  <2>4. \A o \in Request \ {r} : work'[o] = work[o]
    BY <1>3 DEF Found, BaseInv, Requests
  <2>5. PICK o \in Provider, t \in Subject : o = q.prov /\ t = q.subject /\ Linking(o, t)'
    BY <2>1, <2>3 DEF Linking, FederationSound
  <2> SUFFICES ASSUME NEW h \in Tenant, NEW s \in Subject, s \notin lost \cup moved,
                      <<h, s>> \in accounts'
               PROVE  /\ claims[s].email = None
                      /\ \E p \in Provider : Home[p] = h /\ (links[p][s] # None \/ Linking(p, s)')
    BY <1>1 DEF MadeUpInv, MadeUp
  <2>6. CASE <<h, s>> = a
    <3>1. q.claim.email = None /\ s = q.subject /\ Home[q.prov] = h
      BY <2>1, <2>6 DEF FederationSound, Mailbox, Claim
    <3> QED
      BY <2>1, <2>5, <3>1 DEF FederationSound
  <2>7. CASE <<h, s>> \in accounts
    <3>1. PICK p \in Provider : Home[p] = h /\ (links[p][s] # None \/ Linking(p, s))
      BY <2>7 DEF MadeUpInv, MadeUp
    <3>2. Linking(p, s) => Linking(p, s)'
      BY <1>1, <2>4 DEF Linking
    <3> QED
      BY <2>7, <3>1, <3>2 DEF MadeUpInv, MadeUp
  <2> QED
    BY <1>3, <2>6, <2>7
<1> QED
  BY <1>2, <1>3 DEF Provision, Refuse

LEMMA MadeUpLinkEnds ==
    ASSUME MadeUpInv, BaseInv, Grows, NEW r \in Request, InsertLink(r) \/ Die(r)
    PROVE  MadeUpInv'
<1> DEFINE q == work[r]
<1>1. /\ UNCHANGED <<accounts, claims, moved>> /\ lost \subseteq lost'
      /\ \A o \in Request \ {r} : work'[o] = work[o]
  BY DEF InsertLink, Die, tables, To, Done, Refuse, BaseInv, Requests
<1>2. \A p \in Provider, s \in Subject : links[p][s] # None => links'[p][s] # None
  <2>1. CASE Die(r)
    BY <2>1 DEF Die, tables
  <2>2. CASE InsertLink(r)
    <3>1. q.prov \in Provider /\ q.subject \in Subject /\ q.user \in accounts
      BY <2>2 DEF InsertLink, BaseInv, Requests, Sound, FederationSound, AccountSound,
         FederationStages, WithAccount
    <3>2. q.user # None
      BY <3>1, NoneIsNoAccount DEF BaseInv
    <3>3. links' = links \/ links' = [links EXCEPT ![q.prov][q.subject] = q.user]
      BY <2>2 DEF InsertLink
    <3> QED
      BY <3>1, <3>2, <3>3 DEF BaseInv, Tables
  <2> QED
    BY <2>1, <2>2
<1> SUFFICES ASSUME NEW h \in Tenant, NEW s \in Subject, s \notin lost' \cup moved,
                    <<h, s>> \in accounts
             PROVE  /\ claims[s].email = None
                    /\ \E p \in Provider : Home[p] = h /\ (links'[p][s] # None \/ Linking(p, s)')
  BY <1>1 DEF MadeUpInv, MadeUp
<1>3. claims[s].email = None
  BY <1>1 DEF MadeUpInv, MadeUp
<1>4. PICK p \in Provider : Home[p] = h /\ (links[p][s] # None \/ Linking(p, s))
  BY <1>1 DEF MadeUpInv, MadeUp
<1>5. CASE links[p][s] # None
  BY <1>2, <1>3, <1>4, <1>5
<1>6. CASE links[p][s] = None /\ Linking(p, s)
  <2>1. PICK o \in Request : work[o].stage = "link" /\ work[o].prov = p /\ work[o].subject = s
    BY <1>6 DEF Linking
  <2>2. CASE o # r
    <3>1. Linking(p, s)'
      BY <1>1, <2>1, <2>2 DEF Linking
    <3> QED
      BY <1>3, <1>4, <3>1
  <2>3. CASE o = r
    <3>1. ~ Die(r)
      BY <2>1, <2>3 DEF Die
    <3>2. q.user = <<h, s>>
      <4>1. AccountSound(q) /\ s \notin moved
        BY <1>1, <2>1, <2>3 DEF BaseInv, Requests, Sound, WithAccount
      <4> QED
        BY <1>3, <1>4, <2>1, <2>3, <4>1 DEF AccountSound, Target, Mailbox
    <3>3. \A t \in Subject : links[p][t] # q.user
      <4> SUFFICES ASSUME NEW t \in Subject, links[p][t] = <<h, s>> PROVE FALSE
        BY <3>2
      <4>1. links[p][t] # None /\ t # s
        <5>1. <<h, s>> # None
          BY NoneIsNoAccount DEF BaseInv
        <5> QED
          BY <1>6, <5>1
      <4>2. s \in Email \cup {t}
        BY <4>1 DEF BaseInv, Tables, LinkOK
      <4> QED
        BY <4>1, <4>2
    <3>4. links' = [links EXCEPT ![p][s] = q.user]
      BY <1>6, <2>1, <2>3, <3>1, <3>3 DEF InsertLink
    <3>5. links'[p][s] = q.user /\ q.user # None
      <4>1. q.user # None
        BY <3>2, NoneIsNoAccount DEF BaseInv
      <4> QED
        BY <3>4, <4>1 DEF BaseInv, Tables
    <3> QED
      BY <1>3, <1>4, <3>5
  <2> QED
    BY <2>2, <2>3
<1> QED
  BY <1>4, <1>5, <1>6

LEMMA MadeUpStep == MadeUpInv /\ BaseInv /\ [AccountsNext]_accountsVars => MadeUpInv'
<1> SUFFICES ASSUME MadeUpInv, BaseInv, [AccountsNext]_accountsVars PROVE MadeUpInv'
  OBVIOUS
<1>0. Grows
  BY BaseStep
<1>1. CASE UNCHANGED accountsVars
  BY <1>0, <1>1, MadeUpRests DEF accountsVars, tables, histories
<1>2. CASE SignupNext
  <2>1. links' = links /\ lost' = lost
    BY <1>2 DEF SignupNext, Onboard, StartInvite, StartSignup, RevokeInvitation,
       InvitationExpires, StartInvited, SelectUser, InsertInvitation, InsertUser, MarkAccepted,
       tables, histories
  <2>2. \A q \in Request : work[q].stage = "link" => work'[q] = work[q]
    <3>1. \/ work' = work
          \/ \E r \in Request : work[r].stage # "link" /\ \E v : work' = [work EXCEPT ![r] = v]
      <4>1. Resting.stage # "link"
        BY DEF Resting
      <4> QED
        BY <1>2, <4>1 DEF SignupNext, Onboard, StartInvite, StartSignup, RevokeInvitation,
           InvitationExpires, StartInvited, SelectUser, InsertInvitation, InsertUser,
           MarkAccepted, To, Done
    <3> QED
      BY <3>1 DEF BaseInv, Requests
  <2>3. \A h \in Tenant, s \in Subject : <<h, s>> \in accounts' => <<h, s>> \in accounts
    <3>1. CASE accounts' = accounts
      BY <3>1
    <3>2. ASSUME NEW t, NEW e \in Email, accounts' = accounts \cup {<<t, e>>} PROVE <2>3
      BY <3>2
    <3>3. ASSUME NEW r \in Request, InsertUser(r) PROVE <2>3
      <4>1. work[r].email \in Email
        BY <3>3, SigningUpSound DEF InsertUser, SignupSound, SignupStages
      <4> QED
        BY <3>1, <3>2, <3>3, <4>1 DEF InsertUser
    <3> QED
      BY <1>2, <3>1, <3>2, <3>3 DEF SignupNext, Onboard, StartInvite, StartSignup,
         RevokeInvitation, InvitationExpires, StartInvited, SelectUser, InsertInvitation,
         MarkAccepted, tables
  <2> QED
    BY <1>0, <2>1, <2>2, <2>3, MadeUpRests
<1>3. CASE FederationNext
  <2>1. ASSUME NEW r \in Request, SelectLink(r) \/ SelectEmail(r) \/ Consume(r) \/ Enter(r)
        PROVE  MadeUpInv'
    <3>1. /\ UNCHANGED <<accounts, links, lost>>
          /\ work[r].stage # "link" /\ \A o \in Request \ {r} : work'[o] = work[o]
      BY <2>1 DEF SelectLink, SelectEmail, Consume, Enter, To, Done, Refuse, Found, tables,
         histories, BaseInv, Requests
    <3> QED
      BY <1>0, <3>1, MadeUpRests
  <2>2. ASSUME NEW r \in Request, NEW s \in Subject,
               \/ \E p \in Provider : TokenExchanged(r, p, s)
               \/ \E x \in Txn : Callback(r, x, s)
        PROVE  MadeUpInv'
    <3>1. /\ UNCHANGED <<accounts, links, lost>>
          /\ work[r].stage # "link" /\ \A o \in Request \ {r} : work'[o] = work[o]
      BY <2>2 DEF TokenExchanged, Callback, Resting, tables, histories, BaseInv, Requests
    <3> QED
      BY <1>0, <3>1, MadeUpRests
  <2>3. ASSUME NEW p \in Provider, DeleteProvider(p) PROVE MadeUpInv'
    <3>1. UNCHANGED <<accounts, work>> /\ lost \subseteq lost'
      BY <2>3 DEF DeleteProvider
    <3>2. \A o \in Provider, s \in Subject :
             links[o][s] # None => links'[o][s] # None \/ s \in lost'
      BY <2>3 DEF DeleteProvider, BaseInv, Tables
    <3> QED
      BY <1>0, <3>1, <3>2, MadeUpRests
  <2>4. ASSUME UNCHANGED <<accounts, links, work, lost>> PROVE MadeUpInv'
    BY <1>0, <2>4, MadeUpRests
  <2> QED
    BY <1>0, <1>3, <2>1, <2>2, <2>3, <2>4, MadeUpProvision, MadeUpLinkEnds
       DEF FederationNext, UpdateProvider, BeginFederation, TxnExpires, ChangeClaim, tables, histories
<1>4. CASE \E r \in Request : Die(r)
  BY <1>0, <1>4, MadeUpLinkEnds
<1> QED
  BY <1>1, <1>2, <1>3, <1>4 DEF AccountsNext

-----------------------------------------------------------------------------
(* The theorems.                                                             *)

IInv == BaseInv /\ OnceInv /\ MadeUpInv

LEMMA InitIInv == AccountsInit => IInv
<1> SUFFICES ASSUME AccountsInit PROVE IInv
  OBVIOUS
<1>1. BaseInv
  BY BaseInit
<1>2. OnceInv
  BY DEF AccountsInit, OnceInv, InvitationOnce, TransactionOnce, Resting
<1>3. MadeUpInv
  BY DEF AccountsInit, MadeUpInv, MadeUp
<1> QED
  BY <1>1, <1>2, <1>3 DEF IInv

LEMMA StepIInv == IInv /\ [AccountsNext]_accountsVars => IInv'
BY BaseStep, OnceStep, MadeUpStep DEF IInv

\* What the invariant says of requests, tables, invitations, transactions and made-up
\* addresses is preserved by every step (onboard_tenant, signup_submit,
\* federation_callback, _find_or_create_local_user).
THEOREM AccountsInvariant == AccountsSpec => []IInv
<1> QED
  BY InitIInv, StepIInv, PTL DEF AccountsSpec

\* Tables, claims and requests hold values the code can give them, and accounts and
\* invitations belong to tenants that exist, for any instance (onboarding.py,
\* signup.py, federation_service.py).
THEOREM AccountsTypeCorrect == AccountsSpec => []AccountsTypeOK
<1>1. IInv => AccountsTypeOK
  <2> SUFFICES ASSUME IInv PROVE AccountsTypeOK
    OBVIOUS
  <2>1. ASSUME NEW r \in Request PROVE WorkOK(work[r])
    <3>1. Sound(work[r]) /\ work[r] \in Work
      BY DEF IInv, BaseInv, Requests
    <3>2. CASE work[r].stage \in SignupStages
      BY <3>1, <3>2 DEF Sound, SignupSound, SignupStages, WorkOK
    <3>3. CASE work[r].stage \in FederationStages
      BY <3>1, <3>3 DEF Sound, FederationSound, AccountSound, FederationStages, WithAccount, WorkOK
    <3>4. CASE work[r].stage \in {"idle", "mark"}
      BY <3>1, <3>4 DEF Sound, WorkOK
    <3> QED
      BY <3>1, <3>2, <3>3, <3>4 DEF Work
  <2>2. links \in [Provider -> [Subject -> accounts \cup {None}]]
    BY DEF IInv, BaseInv, Tables, LinkOK
  <2>3. \A i \in Invite : invites[i] # None => invites[i] \in Invitation /\ invites[i].tenant \in tenants
    BY DEF IInv, BaseInv, Tables
  <2> QED
    BY <2>1, <2>2, <2>3 DEF IInv, BaseInv, Tables, History, AccountsTypeOK
<1> QED
  BY <1>1, AccountsInvariant, PTL

\* One invitation makes one account, for any number of requests, but for those that
\* held it at a time or died before they marked it (signup_submit, signup_api).
THEOREM InvitationsMakeOneAccount == AccountsSpec => []OneAccountPerInvitation
<1>1. IInv => OneAccountPerInvitation
  BY DEF IInv, OnceInv, InvitationOnce, OneAccountPerInvitation
<1> QED
  BY <1>1, AccountsInvariant, PTL

\* One federation transaction opens one session, for any number of callbacks, but for
\* those that held it at a time (federation_callback).
THEOREM TransactionsOpenOneSession == AccountsSpec => []OneSessionPerTransaction
<1>1. IInv => OneSessionPerTransaction
  BY DEF IInv, OnceInv, TransactionOnce, OneSessionPerTransaction
<1> QED
  BY <1>1, AccountsInvariant, PTL

\* However first sign-ins race, a subject enters the account it is linked to, while
\* its address stays and its provider is there (_find_or_create_local_user).
THEOREM SubjectsEnterTheirAccount == AccountsSpec => []EntersLinkedAccount
<1>1. IInv => EntersLinkedAccount
  BY DEF IInv, BaseInv, History
<1> QED
  BY <1>1, AccountsInvariant, PTL

\* No link and no sign-in crosses tenants, for any tenants, providers and subjects
\* (_find_or_create_local_user).
THEOREM SubjectsStayInTenant == AccountsSpec => []LinksStayInTenant
<1>1. IInv => LinksStayInTenant
  BY DEF IInv, BaseInv, Tables, History, LinkOK, LinksStayInTenant
<1> QED
  BY <1>1, AccountsInvariant, PTL

\* A sign-in that failed or died can be repeated, but in the cases the property names,
\* for any providers and subjects (_find_or_create_local_user,
\* delete_identity_provider).
THEOREM SignInsCanBeRepeated == AccountsSpec => []SignInCanBeRepeated
<1>1. IInv => SignInCanBeRepeated
  <2> SUFFICES ASSUME IInv, NEW p \in Provider, NEW s \in Subject, Stuck(p, s),
                      s \notin lost \cup moved, ~ Linking(p, s),
                      ~ \E o \in Subject \ {s} : links[p][o] = Target(p, s)
               PROVE  \E o \in Provider \ {p} :
                         Home[o] = Home[p] /\ (links[o][s] # None \/ Linking(o, s))
    BY DEF SignInCanBeRepeated
  <2>1. links[p][s] = None /\ Target(p, s) \in accounts
    BY DEF Stuck
  <2>2. Target(p, s) # None
    BY <2>1, NoneIsNoAccount DEF IInv, BaseInv
  <2>3. claims[s].email = None
    BY <2>1, <2>2 DEF Stuck
  <2>4. <<Home[p], s>> \in accounts
    BY <2>1, <2>3 DEF Target, Mailbox
  <2>5. PICK o \in Provider : Home[o] = Home[p] /\ (links[o][s] # None \/ Linking(o, s))
    BY <2>4 DEF IInv, MadeUpInv, MadeUp
  <2> QED
    BY <2>1, <2>5
<1> QED
  BY <1>1, AccountsInvariant, PTL
=============================================================================
