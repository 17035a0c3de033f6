----------------------------- MODULE OidcGrants -----------------------------
(***************************************************************************)
(* The single-use credentials of app/sso/oidc: authorization codes and      *)
(* refresh tokens, rows of authorization_codes and refresh_tokens that the  *)
(* token endpoint turns into fresh tokens.  A request runs over several SQL *)
(* statements, each its own transaction: SELECT the credential, UPDATE it   *)
(* as spent, INSERT its successor.  A step is one statement.                *)
(*                                                                          *)
(* Access and ID tokens are signed without touching the database, so an     *)
(* issue is told by the refresh token that goes with it.  The tenant is the *)
(* client's, and the scope never decides anything here.                     *)
(***************************************************************************)
EXTENDS FiniteSets

CONSTANTS
    User,     \* users with an account that may sign in
    Client,   \* registered OIDC clients
    Cred,     \* authorization codes and refresh tokens
    NoCred,   \* the "parent" of a code and of an exchanged token
    Trade,    \* slots for concurrent requests to the token endpoint
    Faults    \* may a statement fail, or the worker die between two?

ASSUME NoCredAssumption == NoCred \notin Cred
ASSUME GrantFaultsAssumption == Faults \in BOOLEAN

VARIABLES
    clients,  \* rows of oidc_clients
    cookie,   \* users whose browser holds a live hex_iam_session cookie
    row,      \* row[g]: the row of credential g, once it is inserted
    spent,    \* credentials with used = TRUE or revoked = TRUE
    expired,  \* credentials past expires_at
    gone,     \* codes deleted together with their client
    sent,     \* credentials that were sent to their client
    raced,    \* history: lines in which two requests held one credential at once
    task      \* task[r]: the token request that runs in slot r

credVars  == <<row, spent, expired, gone, sent, raced>>
grantVars == <<clients, cookie, credVars, task>>

-----------------------------------------------------------------------------
NoRow == [kind |-> "none"]

\* parent: what the credential was traded for; family: the first of its line.
Row ==
    [kind : {"code", "refresh"}, client : Client, user : User,
     parent : Cred \cup {NoCred}, family : Cred]

NoTask == [at |-> "idle"]

\* match: are the redirect_uri and the code_verifier those of the code?  user and
\* family are those of the credential, once the SELECT has returned it.
Task ==
    [at : {"select", "spend", "issue"}, client : Client, cred : Cred \cup {NoCred},
     match : BOOLEAN, user : User, family : Cred \cup {NoCred}]

Stored == {g \in Cred : row[g] # NoRow}

GrantInit ==
    /\ clients = Client
    /\ cookie = {}
    /\ row = [g \in Cred |-> NoRow]
    /\ spent = {}
    /\ expired = {}
    /\ gone = {}
    /\ sent = {}
    /\ raced = {}
    /\ task = [r \in Trade |-> NoTask]

-----------------------------------------------------------------------------
\* login_submit(): password, is_active and email_verified are checked, then the
\* session cookie is set.
SignIn(u, c) ==
    /\ c \in clients
    /\ cookie' = cookie \cup {u}
    /\ UNCHANGED <<clients, credVars, task>>

\* end_session() deletes the cookie, or it expires after an hour.
SignOut(u) ==
    /\ u \in cookie
    /\ cookie' = cookie \ {u}
    /\ UNCHANGED <<clients, credVars, task>>

\* A new credential is inserted.
Insert(g, kind, c, u, parent, family) ==
    /\ g \notin Stored
    /\ row' = [row EXCEPT ![g] = [kind |-> kind, client |-> c, user |-> u,
                                  parent |-> parent, family |-> family]]

\* consent_submit(), action "allow": a code is stored and sent with the redirect.
\* The foreign key wants the client to exist.
Consent(u, c, g) ==
    /\ u \in cookie
    /\ c \in clients
    /\ Insert(g, "code", c, u, NoCred, g)
    /\ sent' = sent \cup {g}
    /\ UNCHANGED <<clients, cookie, spent, expired, gone, raced, task>>

\* expires_at passes: ten minutes for a code, seven days for a refresh token.  Of a
\* credential that is spent or deleted nobody can tell.
Expire(g) ==
    /\ g \in Stored \ (expired \cup spent \cup gone)
    /\ expired' = expired \cup {g}
    /\ UNCHANGED <<clients, cookie, row, spent, gone, sent, raced, task>>

\* delete_client(): its codes are deleted with it (ON DELETE CASCADE); its refresh
\* tokens have no foreign key and stay.
DeleteClient(c) ==
    /\ c \in clients
    /\ clients' = clients \ {c}
    /\ gone' = gone \cup {g \in Stored : row[g].kind = "code" /\ row[g].client = c}
    /\ UNCHANGED <<cookie, row, spent, expired, sent, raced, task>>

-----------------------------------------------------------------------------
(***************************************************************************)
(* token_endpoint().                                                        *)
(***************************************************************************)
Begin(r, t) ==
    /\ task[r] = NoTask
    /\ task' = [task EXCEPT ![r] = t]
    /\ UNCHANGED <<clients, cookie, credVars>>

\* validate_client() has accepted the client; it presents a credential, its own
\* or another client's.  Only a code is compared with anything else.
TokenRequest(r, c, g, match) ==
    /\ c \in clients
    /\ g \in sent
    /\ match \/ row[g].kind = "code"
    /\ Begin(r, [at |-> "select", client |-> c, cred |-> g, match |-> match,
                 user |-> row[g].user, family |-> NoCred])

\* The token-exchange grant: the user is the one the upstream token resolves to.
TokenExchange(r, c, u) ==
    /\ c \in clients
    /\ Begin(r, [at |-> "issue", client |-> c, cred |-> NoCred, match |-> TRUE,
                 user |-> u, family |-> NoCred])

Goto(r, t) == task' = [task EXCEPT ![r] = t]

\* What the SELECT of validate_authorization_code() or validate_refresh_token()
\* returns a row for, the PKCE test included.
Usable(g, c, match) ==
    /\ g \in Stored
    /\ g \notin spent \cup expired \cup gone
    /\ row[g].client = c
    /\ row[g].kind = "code" => match

\* History: another request has found the same credential and not yet spent it.
Rival(r, g) == \E q \in Trade \ {r} : task[q].at = "spend" /\ task[q].cred = g

NoteRace(r, usable) ==
    LET g == task[r].cred
    IN  raced' = IF usable /\ Rival(r, g) THEN raced \cup {row[g].family} ELSE raced

\* The credential is taken, or the request is refused.
Selected(r, usable) ==
    LET t == task[r]
    IN  IF usable THEN [t EXCEPT !.at = "spend", !.user = row[t.cred].user,
                                 !.family = row[t.cred].family]
        ELSE NoTask

\* Mutant of Select: the client is not compared.
SelectAnyClient(r) ==
    LET t == task[r]
        usable == Usable(t.cred, row[t.cred].client, t.match)
    IN  /\ t.at = "select"
        /\ Goto(r, Selected(r, usable))
        /\ NoteRace(r, usable)
        /\ UNCHANGED <<clients, cookie, row, spent, expired, gone, sent>>

\* The SELECT.
Select(r) ==
    LET t == task[r]
        usable == Usable(t.cred, t.client, t.match)
    IN  /\ t.at = "select"
        /\ Goto(r, Selected(r, usable))
        /\ NoteRace(r, usable)
        /\ UNCHANGED <<clients, cookie, row, spent, expired, gone, sent>>

\* UPDATE ... SET used / revoked = TRUE WHERE code / jti = $1.
MarkSpent(r) == spent' = spent \cup ({task[r].cred} \ gone)

\* Mutant of Spend: the credential is not marked.
SpendNothing(r) ==
    /\ task[r].at = "spend"
    /\ Goto(r, [task[r] EXCEPT !.at = "issue"])
    /\ UNCHANGED <<clients, cookie, credVars>>

Spend(r) ==
    /\ task[r].at = "spend"
    /\ MarkSpent(r)
    /\ Goto(r, [task[r] EXCEPT !.at = "issue"])
    /\ UNCHANGED <<clients, cookie, row, expired, gone, sent, raced>>

\* create_refresh_token(): the successor, for the user of the credential and the
\* client of the request.
Successor(r, g) ==
    LET t == task[r]
    IN  Insert(g, "refresh", t.client, t.user, t.cred,
               IF t.cred = NoCred THEN g ELSE t.family)

\* The new tokens are in the response.
Issue(r, g) ==
    /\ task[r].at = "issue"
    /\ Successor(r, g)
    /\ sent' = sent \cup {g}
    /\ Goto(r, NoTask)
    /\ UNCHANGED <<clients, cookie, spent, expired, gone, raced>>

\* A statement raises, not executed, or the worker dies before it.
Fail(r) ==
    /\ Faults
    /\ task[r] # NoTask
    /\ Goto(r, NoTask)
    /\ UNCHANGED <<clients, cookie, credVars>>

\* A statement is executed, but the request does not learn of it.
FailAfterSpend(r) ==
    /\ Faults
    /\ task[r].at = "spend"
    /\ MarkSpent(r)
    /\ Goto(r, NoTask)
    /\ UNCHANGED <<clients, cookie, row, expired, gone, sent, raced>>

FailAfterIssue(r, g) ==
    /\ Faults
    /\ task[r].at = "issue"
    /\ Successor(r, g)
    /\ Goto(r, NoTask)
    /\ UNCHANGED <<clients, cookie, spent, expired, gone, sent, raced>>

-----------------------------------------------------------------------------
BrowserStep(u, c) == SignIn(u, c) \/ \E g \in Cred : Consent(u, c, g)

BeginStep(r, c) ==
    \/ \E g \in sent, match \in BOOLEAN : TokenRequest(r, c, g, match)
    \/ \E u \in User : TokenExchange(r, c, u)

RequestStep(r) ==
    \/ Select(r) \/ Spend(r) \/ Fail(r) \/ FailAfterSpend(r)
    \/ \E g \in Cred : Issue(r, g) \/ FailAfterIssue(r, g)

GrantNext ==
    \/ \E u \in User, c \in Client : BrowserStep(u, c)
    \/ \E u \in User : SignOut(u)
    \/ \E g \in Cred : Expire(g)
    \/ \E c \in Client : DeleteClient(c)
    \/ \E r \in Trade, c \in Client : BeginStep(r, c)
    \/ \E r \in Trade : RequestStep(r)

GrantSpec == GrantInit /\ [][GrantNext]_grantVars

-----------------------------------------------------------------------------
GrantTypeOK ==
    /\ clients \subseteq Client
    /\ cookie \subseteq User
    /\ row \in [Cred -> Row \cup {NoRow}]
    /\ spent \subseteq Stored
    /\ expired \subseteq Stored
    /\ gone \subseteq Stored
    /\ sent \subseteq Stored
    /\ raced \subseteq Stored
    /\ task \in [Trade -> Task \cup {NoTask}]

\* A credential that was traded for a refresh token can never be used again,
\* whatever failed or ran in parallel: the UPDATE comes before the INSERT.
TradedIsSpent ==
    \A g \in Stored : row[g].parent # NoCred => row[g].parent \in spent \cup gone

\* Every refresh token belongs to the client and to the user that the credential
\* it was traded for belongs to, back to the consent: a request with another
\* client's credential gets nothing.
LineKeepsOwner ==
    \A g \in Stored : row[g].parent # NoCred =>
        /\ row[row[g].parent].client = row[g].client
        /\ row[row[g].parent].user = row[g].user

\* A consent has at most one credential alive, the code or the last refresh token
\* of its line, however requests fail and whatever else runs in parallel, unless two
\* requests held one credential of the line between their SELECT and their UPDATE.
OneAlivePerLine ==
    \A g, h \in Stored \ (spent \cup gone) :
        row[g].family = row[h].family /\ row[g].family \notin raced => g = h

\* A refresh token is traded at most once ("This is refresh-token rotation, not
\* reuse of the same refresh token").
TradedOnce ==
    \A g, h \in Stored :
        /\ row[g].parent = row[h].parent
        /\ row[g].parent # NoCred
        /\ row[row[g].parent].kind = "refresh"
        => g = h

=============================================================================
