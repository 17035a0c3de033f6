------------------------------ MODULE Accounts ------------------------------
(***************************************************************************)
(* How accounts come into being: tenants and their first users               *)
(* (onboarding.py), invitations and sign-up (signup.py), and federated       *)
(* sign-in, which links the subject of an external provider to an account    *)
(* or creates one (federation_service.py, federation_callback and the token  *)
(* exchange of endpoints.py).                                                *)
(*                                                                           *)
(* Outside onboarding every statement commits on its own, so a request is a  *)
(* sequence of steps, other requests come between them, and it may die after *)
(* any of them.  No statement deletes a user or changes the address of one,  *)
(* and (tenant_id, email) is unique: an account is named by them.            *)
(***************************************************************************)
EXTENDS Naturals

CONSTANTS
    Tenant, Email, Invite, Provider, Subject, Txn, Request,
    Home,       \* tenant of each identity provider
    Config,     \* settings an administrator gives a provider
    None

Invitation == [tenant : Tenant, email : Email,
               state : {"pending", "accepted", "deleted"}, expired : BOOLEAN]

ASSUME AccountsAssumption ==
    /\ Home \in [Provider -> Tenant]
    /\ Config \subseteq [auto_link : BOOLEAN, verified_only : BOOLEAN, enabled : BOOLEAN]
    /\ Email \cap Subject = {}
    /\ Provider \cap {"none", "gone"} = {}
    /\ None \notin Tenant \cup Email \cup Subject \cup Invite \cup Txn \cup Provider
    /\ None \notin (Tenant \X (Email \cup Subject)) \cup Config
    /\ None \notin Invitation

\* A subject without an address gets federated-<subject>@<tenant>.local.
Address == Email \cup Subject
Account == Tenant \X Address
Claim == [email : Email \cup {None}, verified : BOOLEAN]

VARIABLES
    tenants,   \* table tenants
    accounts,  \* table users
    invites,   \* table user_invitations
    providers, \* table identity_providers, None when deleted
    links,     \* table federated_identities: the account of a subject
    txns,      \* table federation_auth_transactions
    claims,    \* what the provider of a subject says of it
    moved,     \* history: subjects whose address has changed
    work,      \* the requests
    made,      \* history: accounts created with each invitation
    entered,   \* history: who has been signed in to which account
    sessions,  \* history: sessions opened for each transaction
    shared,    \* history: invitations and transactions in two requests' hands
    lost       \* history: invitations and subjects with a request that got half way

tables == <<tenants, accounts, invites, providers, links, txns>>
histories == <<made, entered, sessions, shared, lost>>
accountsVars == <<tables, claims, moved, work, histories>>

Resting == [stage |-> "idle", tenant |-> None, email |-> None, invite |-> None,
            txn |-> None, prov |-> None, subject |-> None, conf |-> None,
            claim |-> None, user |-> None]

AccountsInit ==
    /\ tenants = {}
    /\ accounts = {}
    /\ invites = [i \in Invite |-> None]
    /\ providers \in [Provider -> Config]
    /\ links = [p \in Provider |-> [s \in Subject |-> None]]
    /\ txns = [x \in Txn |-> "none"]
    /\ claims \in [Subject -> Claim]
    /\ moved = {}
    /\ work = [r \in Request |-> Resting]
    /\ made = [i \in Invite |-> {}]
    /\ entered = {}
    /\ sessions = [x \in Txn |-> 0]
    /\ shared = {}
    /\ lost = {}

To(r, stage) == work' = [work EXCEPT ![r].stage = stage]
Done(r) == work' = [work EXCEPT ![r] = Resting]
Handling(thing) == \E r \in Request : work[r].invite = thing \/ work[r].txn = thing
Taken(thing) == shared' = IF Handling(thing) THEN shared \cup {thing} ELSE shared

-----------------------------------------------------------------------------
(* Tenants.                                                                  *)

\* Mutant: no transaction, and the INSERT of the tenant fails.
OnboardUserOnly(t, e) ==
    /\ t \notin tenants
    /\ accounts' = accounts \cup {<<t, e>>}
    /\ UNCHANGED <<tenants, invites, providers, links, txns, claims, moved, work, histories>>

\* onboard_tenant(): tenant, first user and policies in one transaction.
Onboard(t, e) ==
    /\ t \notin tenants
    /\ tenants' = tenants \cup {t}
    /\ accounts' = accounts \cup {<<t, e>>}
    /\ UNCHANGED <<invites, providers, links, txns, claims, moved, work, histories>>

-----------------------------------------------------------------------------
(* Invitations and sign-up.                                                  *)

Pending(i) == invites[i] # None /\ invites[i].state = "pending" /\ ~ invites[i].expired

\* A row of that tenant and address, be it accepted or expired.
Invited(i, t, e) ==
    /\ invites[i] # None /\ invites[i].state # "deleted"
    /\ invites[i].tenant = t /\ invites[i].email = e

\* create_invitation() up to its first SELECT: a pending invitation is a conflict.
StartInvite(r, t, e) ==
    /\ work[r] = Resting
    /\ t \in tenants
    /\ ~ \E i \in Invite : Pending(i) /\ Invited(i, t, e)
    /\ work' = [work EXCEPT ![r] = [Resting EXCEPT !.stage = "inviting",
                                        !.tenant = t, !.email = e]]
    /\ UNCHANGED <<tables, claims, moved, histories>>

\* SELECT id FROM users: an account that exists is a conflict.
SelectUser(r) ==
    /\ work[r].stage \in {"inviting", "signing up"}
    /\ IF <<work[r].tenant, work[r].email>> \in accounts THEN Done(r)
       ELSE To(r, IF work[r].stage = "inviting" THEN "insert invitation" ELSE "insert")
    /\ UNCHANGED <<tables, claims, moved, histories>>

\* The INSERT fails while any row of that tenant and address is left.
InsertInvitation(r) ==
    LET t == work[r].tenant  e == work[r].email IN
    /\ work[r].stage = "insert invitation"
    /\ \/ /\ ~ \E i \in Invite : Invited(i, t, e)
          /\ \E i \in Invite :
                /\ invites[i] = None
                /\ invites' = [invites EXCEPT ![i] =
                       [tenant |-> t, email |-> e, state |-> "pending", expired |-> FALSE]]
       \/ /\ \E i \in Invite : Invited(i, t, e)
          /\ UNCHANGED invites
    /\ Done(r)
    /\ UNCHANGED <<tenants, accounts, providers, links, txns, claims, moved, histories>>

\* revoke_invitation() deletes the row of an invitation nobody has accepted.
RevokeInvitation(i) ==
    /\ invites[i] # None /\ invites[i].state = "pending"
    /\ invites' = [invites EXCEPT ![i].state = "deleted"]
    /\ UNCHANGED <<tenants, accounts, providers, links, txns, claims, moved, work, histories>>

InvitationExpires(i) ==
    /\ Pending(i)
    /\ invites' = [invites EXCEPT ![i].expired = TRUE]
    /\ UNCHANGED <<tenants, accounts, providers, links, txns, claims, moved, work, histories>>

\* signup_submit() and signup_api() with a client: its tenant is joined.
StartSignup(r, t, e) ==
    /\ work[r] = Resting
    /\ t \in tenants
    /\ work' = [work EXCEPT ![r] = [Resting EXCEPT !.stage = "signing up",
                                        !.tenant = t, !.email = e]]
    /\ UNCHANGED <<tables, claims, moved, histories>>

\* Mutant: the invitation is looked up by its id alone.
StartInvitedAny(r, i, e) ==
    /\ work[r] = Resting
    /\ invites[i] # None
    /\ work' = [work EXCEPT ![r] = [Resting EXCEPT !.stage = "signing up",
                    !.tenant = invites[i].tenant, !.email = e, !.invite = i]]
    /\ Taken(i)
    /\ UNCHANGED <<tables, claims, moved, made, entered, sessions, lost>>

\* With an invitation that is pending: the form takes its address, the API keeps
\* the one in the request.
StartInvited(r, i, e) ==
    /\ work[r] = Resting
    /\ Pending(i)
    /\ work' = [work EXCEPT ![r] = [Resting EXCEPT !.stage = "signing up",
                    !.tenant = invites[i].tenant, !.email = e, !.invite = i]]
    /\ Taken(i)
    /\ UNCHANGED <<tables, claims, moved, made, entered, sessions, lost>>

\* INSERT INTO users, which fails for an account inserted since the SELECT.
InsertUser(r) ==
    LET a == <<work[r].tenant, work[r].email>>  i == work[r].invite IN
    /\ work[r].stage = "insert"
    /\ IF a \in accounts
       THEN Done(r) /\ UNCHANGED <<accounts, made>>
       ELSE /\ accounts' = accounts \cup {a}
            /\ IF i = None THEN Done(r) /\ UNCHANGED made
               ELSE To(r, "mark") /\ made' = [made EXCEPT ![i] = @ \cup {a}]
    /\ UNCHANGED <<tenants, invites, providers, links, txns, claims, moved,
                   entered, sessions, shared, lost>>

\* UPDATE user_invitations SET accepted_at, without a look at the row; once the
\* token of the invitation has expired nothing is marked.
MarkAccepted(r) ==
    LET i == work[r].invite IN
    /\ work[r].stage = "mark"
    /\ invites' = IF invites[i].state = "deleted" \/ invites[i].expired THEN invites
                  ELSE [invites EXCEPT ![i].state = "accepted"]
    /\ Done(r)
    /\ UNCHANGED <<tenants, accounts, providers, links, txns, claims, moved, histories>>

-----------------------------------------------------------------------------
(* Providers and their subjects.                                             *)

\* A request has an account for the subject and has not linked it yet.
Linking(p, s) ==
    \E r \in Request : work[r].stage = "link" /\ work[r].prov = p /\ work[r].subject = s

\* update_identity_provider().
UpdateProvider(p, c) ==
    /\ providers[p] # None
    /\ providers' = [providers EXCEPT ![p] = c]
    /\ UNCHANGED <<tenants, accounts, invites, links, txns, claims, moved, work, histories>>

\* delete_identity_provider(): links and transactions go with it.
DeleteProvider(p) ==
    /\ providers[p] # None
    /\ providers' = [providers EXCEPT ![p] = None]
    /\ links' = [links EXCEPT ![p] = [s \in Subject |-> None]]
    /\ txns' = [x \in Txn |-> IF txns[x] = p THEN "gone" ELSE txns[x]]
    /\ lost' = lost \cup {s \in Subject : links[p][s] # None \/ Linking(p, s)}
    /\ UNCHANGED <<tenants, accounts, invites, claims, moved, work,
                   made, entered, sessions, shared>>

\* Outside the system: a subject gets another address (once), or has it verified.
ChangeClaim(s, c) ==
    /\ c.email # claims[s].email => s \notin moved
    /\ claims' = [claims EXCEPT ![s] = c]
    /\ moved' = IF c.email = claims[s].email THEN moved ELSE moved \cup {s}
    /\ UNCHANGED <<tables, work, histories>>

\* authorize() and _begin_federated_authorization().
BeginFederation(x, p) ==
    /\ txns[x] = "none"
    /\ Home[p] \in tenants
    /\ providers[p] # None /\ providers[p].enabled
    /\ txns' = [txns EXCEPT ![x] = p]
    /\ UNCHANGED <<tenants, accounts, invites, providers, links, claims, moved, work, histories>>

\* Ten minutes have passed.
TxnExpires(x) ==
    /\ txns[x] \in Provider
    /\ txns' = [txns EXCEPT ![x] = "gone"]
    /\ UNCHANGED <<tenants, accounts, invites, providers, links, claims, moved, work, histories>>

Federating(p, s, x) ==
    [Resting EXCEPT !.stage = "select link", !.tenant = Home[p], !.prov = p, !.subject = s,
        !.txn = x, !.conf = providers[p], !.claim = claims[s]]

\* federation_callback() reads the transaction and the provider, and exchanges
\* the code for the claims of a subject.
Callback(r, x, s) ==
    /\ work[r] = Resting
    /\ txns[x] \in Provider
    /\ providers[txns[x]].enabled
    /\ work' = [work EXCEPT ![r] = Federating(txns[x], s, x)]
    /\ Taken(x)
    /\ UNCHANGED <<tables, claims, moved, made, entered, sessions, lost>>

\* The token exchange grant: validate_broker_subject_token() finds the provider
\* by its issuer.
TokenExchanged(r, p, s) ==
    /\ work[r] = Resting
    /\ Home[p] \in tenants
    /\ providers[p] # None /\ providers[p].enabled
    /\ work' = [work EXCEPT ![r] = Federating(p, s, None)]
    /\ UNCHANGED <<tables, claims, moved, histories>>

-----------------------------------------------------------------------------
(* _find_or_create_local_user().                                             *)

Refuse(r) == Done(r)

Found(r, a, stage) == work' = [work EXCEPT ![r].user = a, ![r].stage = stage]

\* Mutant: the link of any subject of the provider.
SelectLinkAny(r) ==
    LET q == work[r] IN
    /\ q.stage = "select link"
    /\ IF \E s \in Subject : links[q.prov][s] # None
       THEN \E s \in Subject : links[q.prov][s] # None
                               /\ Found(r, links[q.prov][s], "consume")
       ELSE IF ~ q.conf.auto_link THEN Refuse(r)
       ELSE To(r, IF q.claim.email = None THEN "provision" ELSE "select email")
    /\ UNCHANGED <<tables, claims, moved, histories>>

\* The link of the subject; without one, only a provider that may link goes on.
SelectLink(r) ==
    LET q == work[r] IN
    /\ q.stage = "select link"
    /\ IF links[q.prov][q.subject] # None
       THEN Found(r, links[q.prov][q.subject], "consume")
       ELSE IF ~ q.conf.auto_link THEN Refuse(r)
       ELSE To(r, IF q.claim.email = None THEN "provision" ELSE "select email")
    /\ UNCHANGED <<tables, claims, moved, histories>>

\* Mutant: the SELECT by address leaves the tenant out.
SelectEmailAnywhere(r) ==
    LET q == work[r] IN
    /\ q.stage = "select email"
    /\ IF \E t \in Tenant : <<t, q.claim.email>> \in accounts
       THEN \E t \in Tenant : <<t, q.claim.email>> \in accounts
                              /\ Found(r, <<t, q.claim.email>>, "link")
       ELSE To(r, "provision")
    /\ UNCHANGED <<tables, claims, moved, histories>>

\* The account with the subject's address in the tenant; a provider may require
\* the address to be verified.
SelectEmail(r) ==
    LET q == work[r]  a == <<q.tenant, q.claim.email>> IN
    /\ q.stage = "select email"
    /\ IF a \notin accounts THEN To(r, "provision")
       ELSE IF q.conf.verified_only /\ ~ q.claim.verified THEN Refuse(r)
       ELSE Found(r, a, "link")
    /\ UNCHANGED <<tables, claims, moved, histories>>

Mailbox(s, c) == IF c.email = None THEN s ELSE c.email

\* Mutant: an account that was created is not linked.
ProvisionUnlinked(r) ==
    LET q == work[r]  a == <<q.tenant, Mailbox(q.subject, q.claim)>> IN
    /\ q.stage = "provision"
    /\ IF a \in accounts THEN Refuse(r) /\ UNCHANGED accounts
       ELSE Found(r, a, "consume") /\ accounts' = accounts \cup {a}
    /\ UNCHANGED <<tenants, invites, providers, links, txns, claims, moved, histories>>

\* INSERT INTO users, which fails for an account inserted meanwhile.
Provision(r) ==
    LET q == work[r]  a == <<q.tenant, Mailbox(q.subject, q.claim)>> IN
    /\ q.stage = "provision"
    /\ IF a \in accounts THEN Refuse(r) /\ UNCHANGED accounts
       ELSE Found(r, a, "link") /\ accounts' = accounts \cup {a}
    /\ UNCHANGED <<tenants, invites, providers, links, txns, claims, moved, histories>>

\* INSERT INTO federated_identities: a link that exists by now is kept, an account
\* linked to another subject of the provider is an error, as is a provider deleted.
InsertLink(r) ==
    LET q == work[r]
        linked == links[q.prov][q.subject] # None
        gone == providers[q.prov] = None
        taken == \E s \in Subject : links[q.prov][s] = q.user
    IN
    /\ q.stage = "link"
    /\ \/ linked /\ To(r, "consume") /\ UNCHANGED <<links, lost>>
       \/ /\ ~ (linked \/ gone \/ taken)
          /\ links' = [links EXCEPT ![q.prov][q.subject] = q.user]
          /\ To(r, "consume") /\ UNCHANGED lost
       \/ /\ ~ linked /\ (gone \/ taken)
          /\ lost' = IF gone THEN lost \cup {q.subject} ELSE lost
          /\ Refuse(r) /\ UNCHANGED links
    /\ UNCHANGED <<tenants, accounts, invites, providers, txns, claims, moved,
                   made, entered, sessions, shared>>

\* Mutant: the transaction stays usable.
ConsumeNothing(r) ==
    /\ work[r].stage = "consume"
    /\ To(r, "enter")
    /\ UNCHANGED <<tables, claims, moved, histories>>

\* consume_federation_auth_transaction(), unless a token is exchanged.
Consume(r) ==
    LET x == work[r].txn IN
    /\ work[r].stage = "consume"
    /\ txns' = IF x = None THEN txns ELSE [txns EXCEPT ![x] = "gone"]
    /\ To(r, "enter")
    /\ UNCHANGED <<tenants, accounts, invites, providers, links, claims, moved, histories>>

\* The session cookie, or the tokens of the exchange.
Enter(r) ==
    LET q == work[r] IN
    /\ q.stage = "enter"
    /\ entered' = entered \cup {[prov |-> q.prov, subject |-> q.subject, user |-> q.user]}
    /\ sessions' = IF q.txn = None THEN sessions ELSE [sessions EXCEPT ![q.txn] = @ + 1]
    /\ Done(r)
    /\ UNCHANGED <<tables, claims, moved, made, shared, lost>>

\* A request dies; what it has committed stays.
Die(r) ==
    LET q == work[r] IN
    /\ q # Resting
    /\ Done(r)
    /\ lost' = lost \cup (IF q.stage = "mark" THEN {q.invite} ELSE {})
                    \cup (IF q.stage = "link" THEN {q.subject} ELSE {})
    /\ UNCHANGED <<tables, claims, moved, made, entered, sessions, shared>>

-----------------------------------------------------------------------------
SignupNext ==
    \/ \E t \in Tenant, e \in Email :
          \/ Onboard(t, e)
          \/ \E r \in Request : StartInvite(r, t, e) \/ StartSignup(r, t, e)
    \/ \E i \in Invite :
          \/ RevokeInvitation(i) \/ InvitationExpires(i)
          \/ \E r \in Request, e \in Email : StartInvited(r, i, e)
    \/ \E r \in Request :
          SelectUser(r) \/ InsertInvitation(r) \/ InsertUser(r) \/ MarkAccepted(r)

FederationNext ==
    \/ \E p \in Provider :
          \/ DeleteProvider(p)
          \/ \E c \in Config : UpdateProvider(p, c)
          \/ \E x \in Txn : BeginFederation(x, p)
          \/ \E r \in Request, s \in Subject : TokenExchanged(r, p, s)
    \/ \E s \in Subject, c \in Claim : ChangeClaim(s, c)
    \/ \E x \in Txn :
          \/ TxnExpires(x)
          \/ \E r \in Request, s \in Subject : Callback(r, x, s)
    \/ \E r \in Request :
          SelectLink(r) \/ SelectEmail(r) \/ Provision(r) \/ InsertLink(r)
          \/ Consume(r) \/ Enter(r)

AccountsNext == SignupNext \/ FederationNext \/ \E r \in Request : Die(r)

AccountsSpec == AccountsInit /\ [][AccountsNext]_accountsVars
-----------------------------------------------------------------------------
(* Properties.                                                               *)

WorkOK(q) ==
    \/ q = Resting
    \/ /\ q.stage \in {"inviting", "insert invitation", "signing up", "insert"}
       /\ q.tenant \in tenants /\ q.email \in Email
       /\ q.invite # None => invites[q.invite] # None /\ invites[q.invite].tenant = q.tenant
    \/ q.stage = "mark" /\ q.invite \in Invite /\ invites[q.invite] # None
    \/ /\ q.stage \in {"select link", "select email", "provision", "link", "consume", "enter"}
       /\ q.prov \in Provider /\ q.subject \in Subject /\ q.tenant = Home[q.prov]
       /\ q.txn # None => txns[q.txn] # "none"
       /\ q.stage \in {"link", "consume", "enter"} => q.user \in accounts

\* Tables, claims and requests hold values the code can give them; accounts and
\* invitations belong to tenants that exist.
AccountsTypeOK ==
    /\ tenants \subseteq Tenant
    /\ accounts \subseteq tenants \X Address
    /\ \A i \in Invite : invites[i] # None => invites[i] \in Invitation /\ invites[i].tenant \in tenants
    /\ providers \in [Provider -> Config \cup {None}]
    /\ links \in [Provider -> [Subject -> accounts \cup {None}]]
    /\ txns \in [Txn -> Provider \cup {"none", "gone"}]
    /\ claims \in [Subject -> Claim]
    /\ moved \subseteq Subject
    /\ \A r \in Request : WorkOK(work[r])
    /\ made \in [Invite -> SUBSET accounts]
    /\ entered \subseteq [prov : Provider, subject : Subject, user : accounts]
    /\ sessions \in [Txn -> Nat]
    /\ shared \subseteq Invite \cup Txn
    /\ lost \subseteq Invite \cup Subject

\* An invitation makes one account, unless two requests held it at a time or one
\* died before it was marked (signup_submit, signup_api).
OneAccountPerInvitation ==
    \A i \in Invite : \A a, b \in made[i] : a = b \/ i \in shared \cup lost

\* A federation transaction opens one session, unless two callbacks read it before
\* either consumed it (federation_callback).
OneSessionPerTransaction ==
    \A x \in Txn : sessions[x] <= 1 \/ x \in shared

\* A subject is signed in to the account it is linked to, whichever of its racing
\* first sign-ins made the link, as long as its address did not change between
\* them and the provider is not deleted (_find_or_create_local_user).
EntersLinkedAccount ==
    \A e \in entered :
        \/ providers[e.prov] = None \/ e.subject \in moved
        \/ links[e.prov][e.subject] = e.user

\* Subjects stay in the tenant of their provider: no link, and no sign-in, leads
\* to an account of another tenant (_find_or_create_local_user).
LinksStayInTenant ==
    /\ \A p \in Provider, s \in Subject :
          links[p][s] # None => links[p][s][1] = Home[p]
    /\ \A e \in entered : e.user[1] = Home[e.prov]

\* The account a sign-in of s would run into, and whether it would fail there.
Target(p, s) == <<Home[p], Mailbox(s, claims[s])>>
Stuck(p, s) ==
    /\ providers[p] # None /\ links[p][s] = None /\ Target(p, s) \in accounts
    /\ \/ claims[s].email = None
       \/ \E o \in Subject : links[p][o] = Target(p, s)

\* A sign-in that failed or died can be repeated: a subject runs into an INSERT
\* that fails each time only if its address belongs to another subject, it has
\* no address and a request of it stopped between the INSERT of the user and
\* that of the link (or still runs), or its link or its address has gone
\* (_find_or_create_local_user, delete_identity_provider).
SignInCanBeRepeated ==
    \A p \in Provider, s \in Subject :
        Stuck(p, s) =>
            \/ s \in lost \cup moved
            \/ Linking(p, s)
            \/ \E o \in Subject \ {s} : links[p][o] = Target(p, s)
            \/ \E o \in Provider \ {p} : Home[o] = Home[p] /\ (links[o][s] # None \/ Linking(o, s))

=============================================================================
