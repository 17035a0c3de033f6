----------------------------- MODULE MCIdentity -----------------------------
(***************************************************************************)
(* Model checking Accounts, OidcGrants, TokenGate and TenantPool, which      *)
(* share no state, in slices: a behaviour belongs to one of them from its    *)
(* start, so that the state space is the sum of the slices.                  *)
(*   "signup"  invitations and sign-up, nobody federated                     *)
(*   "one"     two requests for one subject, whose address and provider      *)
(*             change                                                        *)
(*   "two"     two subjects of a provider, by token exchange, nothing changes*)
(*   "grants"  two clients and two users with two credentials                *)
(*   "keys"    one token at the gate of one process, another rotates keys    *)
(*   "cache"   two tokens in the cache of one process, for a shorter time    *)
(*   "pool"    three requests for two connections                            *)
(***************************************************************************)
EXTENDS Accounts, OidcGrants, TokenGate, TenantPool, TLC

CONSTANT ShortTime

VARIABLE slice

identityVars == <<accountsVars, grantVars, gateVars, poolVars, slice>>

One(S) == CHOOSE x \in S : TRUE

\* The tenant of every provider, an address and a subject.
Here == One(Tenant)
MCHome == [p \in Provider |-> Here]
Mail == One(Email)
Somebody == One(Subject)

Setting(link, verified, enabled) ==
    [auto_link |-> link, verified_only |-> verified, enabled |-> enabled]

MCConfig == {Setting(TRUE, TRUE, TRUE), Setting(FALSE, FALSE, TRUE)}

\* What is interchangeable in one slice stands for what is in another, so that
\* one permutation serves both.
MCUser == Email \ {Mail}
MCTrade == Request
MCClient == Call

Symmetry == Permutations(Request) \cup Permutations(Email \ {Mail}) \cup Permutations(Call)

Silent == [email |-> None, verified |-> FALSE]
Quiet(S) == \A s \in S : claims[s] = Silent

IdentityInit ==
    /\ AccountsInit
    /\ GrantInit
    /\ GateInit
    /\ PoolInit
    /\ slice \in {"signup", "one", "two", "grants", "keys", "cache", "pool"}
    /\ \A s \in Subject : claims[s].email \in {Mail, None}
    /\ slice \notin {"one", "two"} => Quiet(Subject)
    /\ slice = "one" => Quiet(Subject \ {Somebody})
    /\ slice # "one" => \A p \in Provider : providers[p].auto_link

-----------------------------------------------------------------------------
\* In one tenant, whose first user has the address Mail.
SignupSlice ==
    /\ tenants' \subseteq {Here}
    /\ tenants' # tenants => accounts' = {<<Here, Mail>>}
    /\ <<claims, providers>>' = <<claims, providers>>
    /\ \A r \in Request : work'[r].prov = None

\* The other tenants first, each with a user of the address the subjects have.
TenantsFirst ==
    /\ tenants # Tenant => tenants' # tenants
    /\ Here \in tenants' \ tenants => tenants' = Tenant
    /\ Here \notin tenants' => accounts' = tenants' \X {Mail}

Federated ==
    /\ TenantsFirst
    /\ invites' = invites
    /\ \A r \in Request : work'[r].prov # None \/ work'[r] = Resting

OneSlice ==
    /\ Federated
    /\ claims' # claims => moved' # moved
    /\ \A s \in Subject :
          claims'[s].email \in {Mail, None} /\ claims'[s].verified = claims[s].verified
    /\ \A p \in Provider : providers'[p] \notin {None, providers[p]} => moved = {}
    /\ \A s \in Subject \ {Somebody} : claims'[s] = claims[s]
    /\ \A r \in Request : work'[r].subject \in {Somebody, None}

TwoSlice == Federated /\ <<txns, claims, providers>>' = <<txns, claims, providers>>

\* The users have signed in before anything else happens, and stay: who is signed
\* out only consents to less.  One of the credentials is the first.
GrantsSlice ==
    /\ cookie' # cookie => row = [g \in Cred |-> NoRow]
    /\ cookie # MCUser => <<row, task, clients>>' = <<row, task, clients>>
    /\ row'[One(Cred)] = NoRow => row' = row

\* Requests come to one process; the others look after the keys, or do nothing.
GateSlice ==
    /\ \A w \in Process \ {One(Process)} :
          /\ <<bloom[w], memo[w], refused[w]>>' = <<bloom[w], memo[w], refused[w]>>
          /\ mtime'[w] >= mtime[w]
    /\ \A c \in Call : call'[c] \in {One(Process)} \X Jwt \cup {NoCall}

\* Nothing is revoked, and one request runs at a time.
KeysSlice ==
    /\ GateSlice
    /\ bloom' = bloom
    /\ \A c \in Call \ {One(Call)} : call'[c] = NoCall

\* The keys stay.
CacheSlice ==
    /\ GateSlice
    /\ now' <= ShortTime
    /\ disk' = disk
    /\ \A w \in Process \ {One(Process)} : due'[w] = due[w]

\* The first token is signed first.
InOrder ==
    \A j \in Jwt \ {One(Jwt)} :
        jwts'[j] # Unsigned => slice = "cache" /\ Signed(One(Jwt))

IdentityNext ==
    /\ slice' = slice
    /\ \/ /\ slice \in {"signup", "one", "two"}
          /\ AccountsNext
          /\ CASE slice = "signup" -> SignupSlice
               [] slice = "one"    -> OneSlice
               [] OTHER            -> TwoSlice
          /\ UNCHANGED <<grantVars, gateVars, poolVars>>
       \/ /\ slice = "grants"
          /\ GrantNext
          /\ GrantsSlice
          /\ UNCHANGED <<accountsVars, gateVars, poolVars>>
       \/ /\ slice \in {"keys", "cache"}
          /\ GateNext
          /\ InOrder
          /\ IF slice = "keys" THEN KeysSlice ELSE CacheSlice
          /\ UNCHANGED <<accountsVars, grantVars, poolVars>>
       \/ /\ slice = "pool"
          /\ PoolNext
          /\ UNCHANGED <<accountsVars, grantVars, gateVars>>

IdentitySpec == IdentityInit /\ [][IdentityNext]_identityVars
=============================================================================
