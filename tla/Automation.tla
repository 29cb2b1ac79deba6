----------------------------- MODULE Automation -----------------------------
(***************************************************************************)
(* Machine access (ai/): users issue and revoke credentials in the         *)
(* browser; a client presents a credential, or a short token it has        *)
(* exchanged for one, and calls the API directly or through an MCP tool,   *)
(* which calls the same API again with the same token. Every write carries *)
(* an idempotency key: AutomationMiddleware looks its record up, inserts   *)
(* it, runs the handler and registers the answer, each in a transaction of *)
(* its own, so that calls, faults and crashes come in between.             *)
(*                                                                         *)
(* Reads keep no state and are left out, with audit events, which nothing  *)
(* but a list reads; so are limits, which CallLimiter models: here a call   *)
(* may be refused at the door for any such reason.                         *)
(* A secret is the credential or token it opens.                           *)
(***************************************************************************)
EXTENDS Integers

CONSTANTS
    User, Credential, Token,
    Call,          \* client calls, each made once; a retry is another call
    Key, Request,  \* idempotency keys; methods, paths and bodies (fingerprints)
    Scope,         \* the scopes for writing (ADMIN_SCOPES and "analysis:write")
    RequiredScope, \* the scope of each request
    None,          \* no row, no principal, no answer
    TokenLife,     \* 15 minutes
    MaxTime,       \* bound: ticks of the clock
    MaxChanges     \* bound: changes to users

ASSUME AutomationAssumption ==
    /\ RequiredScope \in [Request -> Scope]
    /\ Credential \cap Token = {}
    /\ None \notin Credential /\ None \notin Token
    /\ TokenLife \in Nat \ {0} /\ MaxTime \in Nat /\ MaxChanges \in Nat

\* What a handler answers and the middleware registers.
Outcome == {"created", "refused"}

\* What the middleware answers instead: 401, 403, 422 or 413 or 429, 409, 409, 500.
Refusal == {"denied", "forbidden", "invalid", "conflict", "inProgress", "error"}

Reply == Outcome \cup Refusal

Stage == {"new", "tool", "body", "free", "owned", "ran", "answered", "lost"}

UserRow == [active: BOOLEAN, scopes: SUBSET Scope]

CredentialRow == [owner: User, scopes: SUBSET Scope, expires: 0..MaxTime, revoked: BOOLEAN]

TokenRow == [credential: Credential, scopes: SUBSET Scope, expires: 0..MaxTime]

Grant == [secret: Credential \cup Token, credential: Credential, scopes: SUBSET Scope]

Record == [request: Request, reply: Outcome \cup {None}]

\* NULL is no row and no answer.
ASSUME NoneAssumption ==
    /\ None \notin CredentialRow /\ None \notin TokenRow /\ None \notin Grant
    /\ None \notin Record /\ None \notin Reply

CallRow == [stage: Stage, secret: Credential \cup Token \cup {None}, tool: BOOLEAN,
            key: Key \cup {None}, request: Request \cup {None}, principal: Credential \cup {None},
            withdrawn: BOOLEAN, effect: BOOLEAN, reply: Reply \cup {None}]

VARIABLES
    users,       \* available_scopes of each user, and is_active
    credentials, \* ai_credentials
    tokens,      \* ai_oauth_access
    grants,      \* oauth_token between its two steps, by the token it is to issue
    records,     \* ai_idempotent_requests
    calls,       \* the calls and their answers
    now, changes

vars == <<users, credentials, tokens, grants, records, calls, now, changes>>

TypeOK ==
    /\ users \in [User -> UserRow]
    /\ credentials \in [Credential -> CredentialRow \cup {None}]
    /\ tokens \in [Token -> TokenRow \cup {None}]
    /\ grants \in [Token -> Grant \cup {None}]
    /\ records \in [Credential \X Key -> Record \cup {None}]
    /\ calls \in [Call -> CallRow]
    /\ now \in 0..MaxTime /\ changes \in 0..MaxChanges

NewCall == [stage |-> "new", secret |-> None, tool |-> FALSE, key |-> None, request |-> None,
            principal |-> None, withdrawn |-> FALSE, effect |-> FALSE, reply |-> None]

Init ==
    /\ users = [u \in User |-> [active |-> TRUE, scopes |-> Scope]]
    /\ credentials = [c \in Credential |-> None]
    /\ tokens = [t \in Token |-> None]
    /\ grants = [t \in Token |-> None]
    /\ records = [r \in Credential \X Key |-> None]
    /\ calls = [x \in Call |-> NewCall]
    /\ now = 0 /\ changes = 0

-----------------------------------------------------------------------------
(* Who is calling: authenticate.                                           *)

Issued == {c \in Credential : credentials[c] # None} \cup {t \in Token : tokens[t] # None}

CredentialOf(secret) == IF secret \in Token THEN tokens[secret].credential ELSE secret

\* The credential opens nothing any more, or its owner may not come in.
Closed(c) ==
    \/ credentials[c].revoked
    \/ credentials[c].expires <= now
    \/ ~users[credentials[c].owner].active

Expired(secret) == secret \in Token /\ tokens[secret].expires <= now

(* Broken variant: a token is good until it expires.                       *)
DeniedByTokenAlone(secret, oauthOnly) ==
    \/ Expired(secret)
    \/ oauthOnly /\ secret \notin Token
    \/ secret \notin Token /\ Closed(secret)

Denied(secret, oauthOnly) ==
    \/ Expired(secret)
    \/ oauthOnly /\ secret \notin Token
    \/ Closed(CredentialOf(secret))

Scopes(secret) ==
    LET c == credentials[CredentialOf(secret)] IN
    c.scopes \cap users[c.owner].scopes \cap
        IF secret \in Token THEN tokens[secret].scopes ELSE Scope

-----------------------------------------------------------------------------
(* Credentials, tokens and users.                                          *)

\* create_credential; its user is read with the session, a moment before.
Issue(c, u, scopes, expires) ==
    /\ credentials[c] = None
    /\ users[u].active /\ scopes # {} /\ scopes \subseteq users[u].scopes
    /\ now < expires
    /\ credentials' = [credentials EXCEPT ![c] =
         [owner |-> u, scopes |-> scopes, expires |-> expires, revoked |-> FALSE]]
    /\ UNCHANGED <<users, tokens, grants, records, calls, now, changes>>

\* revoke_credential, by its owner.
Revoke(c) ==
    /\ credentials[c] # None
    /\ credentials' = [credentials EXCEPT ![c].revoked = TRUE]
    /\ UNCHANGED <<users, tokens, grants, records, calls, now, changes>>

\* oauth_token until its transaction: the secret opens the credential that client_id names.
VerifyClient(t, secret, asked) ==
    /\ tokens[t] = None /\ grants[t] = None
    /\ secret \in Issued /\ ~Denied(secret, FALSE)
    /\ asked \cap Scopes(secret) # {}
    /\ grants' = [grants EXCEPT ![t] =
         [secret |-> secret, credential |-> CredentialOf(secret), scopes |-> asked \cap Scopes(secret)]]
    /\ UNCHANGED <<users, credentials, tokens, records, calls, now, changes>>

\* Its transaction; a token is no client_secret, so it buys no further token.
GrantToken(t) ==
    LET g == grants[t]
        expires == credentials[g.credential].expires
        until == IF expires < now + TokenLife THEN expires ELSE now + TokenLife
    IN
    /\ g # None
    /\ tokens' = IF g.secret # g.credential THEN tokens
                 ELSE [tokens EXCEPT ![t] = [credential |-> g.credential, scopes |-> g.scopes, expires |-> until]]
    /\ grants' = [grants EXCEPT ![t] = None]
    /\ UNCHANGED <<users, credentials, records, calls, now, changes>>

\* What UserAdmin or the pages for permissions do to a user.
ChangeUser(u, row) ==
    /\ changes < MaxChanges /\ row # users[u]
    /\ users' = [users EXCEPT ![u] = row]
    /\ changes' = changes + 1
    /\ UNCHANGED <<credentials, tokens, grants, records, calls, now>>

Tick ==
    /\ now < MaxTime
    /\ now' = now + 1
    /\ UNCHANGED <<users, credentials, tokens, grants, records, calls, changes>>

-----------------------------------------------------------------------------
(* A write: AutomationMiddleware.__call__.                                 *)

RecordKey(x) == <<calls[x].principal, calls[x].key>>

To(x, stage) == calls' = [calls EXCEPT ![x].stage = stage]

Answer(x, reply) ==
    calls' = [calls EXCEPT ![x] = [@ EXCEPT !.stage = "answered", !.reply = reply]]

environment == <<users, credentials, tokens, grants, now, changes>>

\* The scope is checked here; the request holds its principal until it is served.
Admitted(call) ==
    IF Denied(call.secret, FALSE) THEN [call EXCEPT !.stage = "answered", !.reply = "denied"]
    ELSE IF RequiredScope[call.request] \notin Scopes(call.secret)
         THEN [call EXCEPT !.stage = "answered", !.reply = "forbidden"]
    ELSE [call EXCEPT !.stage = "body", !.principal = CredentialOf(call.secret)]

\* The call of a tool: only tokens, and some scope; then the tool calls the API.
AdmittedTool(call) ==
    IF Denied(call.secret, TRUE) THEN [call EXCEPT !.stage = "answered", !.reply = "denied"]
    ELSE IF Scopes(call.secret) = {}
         THEN [call EXCEPT !.stage = "answered", !.reply = "forbidden"]
    ELSE [call EXCEPT !.stage = "tool"]

\* A call comes in; `withdrawn` notes whether its secret opened nothing at that moment.
Arrive(x, secret, key, request, tool) ==
    /\ calls[x].stage = "new" /\ secret \in Issued
    /\ LET call == [calls[x] EXCEPT !.secret = secret, !.key = key, !.request = request, !.tool = tool,
                      !.withdrawn = Closed(CredentialOf(secret)) \/ Expired(secret)]
       IN calls' = [calls EXCEPT ![x] = IF tool THEN AdmittedTool(call) ELSE Admitted(call)]
    /\ UNCHANGED <<environment, records>>

\* The tool presents the same token again.
CallApi(x) ==
    /\ calls[x].stage = "tool"
    /\ calls' = [calls EXCEPT ![x] = Admitted(@)]
    /\ UNCHANGED <<environment, records>>

\* No confirmation, a bad key, a body too large, too many requests.
Reject(x) ==
    /\ calls[x].stage = "body"
    /\ Answer(x, "invalid")
    /\ UNCHANGED <<environment, records>>

\* The client hangs up before its body is complete.
Disconnect(x) ==
    /\ calls[x].stage = "body"
    /\ To(x, "lost")
    /\ UNCHANGED <<environment, records>>

(* Broken variant: the fingerprint of a finished request is not compared.  *)
LookupByKey(x) ==
    LET record == records[RecordKey(x)] IN
    /\ calls[x].stage = "body"
    /\ IF record = None THEN To(x, "free")
       ELSE IF record.reply = None THEN Answer(x, "inProgress")
       ELSE Answer(x, record.reply)
    /\ UNCHANGED <<environment, records>>

Lookup(x) ==
    LET record == records[RecordKey(x)] IN
    /\ calls[x].stage = "body"
    /\ IF record = None THEN To(x, "free")
       ELSE IF record.request # calls[x].request THEN Answer(x, "conflict")
       ELSE IF record.reply = None THEN Answer(x, "inProgress")
       ELSE Answer(x, record.reply)
    /\ UNCHANGED <<environment, records>>

(* Broken variant: the record is written over, not inserted.               *)
InsertOrReplace(x) ==
    /\ calls[x].stage = "free"
    /\ records' = [records EXCEPT ![RecordKey(x)] = [request |-> calls[x].request, reply |-> None]]
    /\ To(x, "owned")
    /\ UNCHANGED environment

\* The primary key decides between calls that both found nothing.
Insert(x) ==
    /\ calls[x].stage = "free"
    /\ IF records[RecordKey(x)] # None
       THEN Answer(x, "inProgress") /\ UNCHANGED records
       ELSE /\ records' = [records EXCEPT ![RecordKey(x)] = [request |-> calls[x].request, reply |-> None]]
            /\ To(x, "owned")
    /\ UNCHANGED environment

\* The handler commits and answers; a refusal may come after it has written (a full queue).
Handle(x, reply, effect) ==
    /\ calls[x].stage = "owned"
    /\ reply = "created" => effect
    /\ calls' = [calls EXCEPT ![x] = [@ EXCEPT !.stage = "ran", !.reply = reply, !.effect = effect]]
    /\ UNCHANGED <<environment, records>>

\* The handler raises, before or after its commit: the record stays in progress.
HandlerRaises(x, effect) ==
    /\ calls[x].stage = "owned"
    /\ calls' = [calls EXCEPT ![x] =
         [@ EXCEPT !.stage = "answered", !.reply = "error", !.effect = effect]]
    /\ UNCHANGED <<environment, records>>

(* Broken variant: the answer is registered only when it is a success.     *)
RegisterSuccess(x) ==
    /\ calls[x].stage = "ran"
    /\ records' = IF calls[x].reply = "created" THEN [records EXCEPT ![RecordKey(x)].reply = "created"] ELSE records
    /\ Answer(x, calls[x].reply)
    /\ UNCHANGED environment

Register(x) ==
    /\ calls[x].stage = "ran"
    /\ records' = [records EXCEPT ![RecordKey(x)].reply = calls[x].reply]
    /\ Answer(x, calls[x].reply)
    /\ UNCHANGED environment

\* A database call of the middleware raises: nobody catches it.
DatabaseFails(x) ==
    /\ calls[x].stage \in {"body", "free", "ran"}
    /\ Answer(x, "error")
    /\ UNCHANGED <<environment, records>>

\* The process dies: its calls are cut off wherever they are; the tables stay.
Crash ==
    /\ calls' = [x \in Call |->
         IF calls[x].stage \in {"tool", "body", "free", "owned", "ran"}
         THEN [calls[x] EXCEPT !.stage = "lost"] ELSE calls[x]]
    /\ grants' = [t \in Token |-> None]
    /\ UNCHANGED <<users, credentials, tokens, records, now, changes>>

-----------------------------------------------------------------------------

Serve(x) ==
    \/ \E secret \in Credential \cup Token, k \in Key, r \in Request, tool \in BOOLEAN :
         Arrive(x, secret, k, r, tool)
    \/ CallApi(x) \/ Reject(x) \/ Disconnect(x)
    \/ Lookup(x) \/ Insert(x)
    \/ \E reply \in Outcome, effect \in BOOLEAN : Handle(x, reply, effect)
    \/ \E effect \in BOOLEAN : HandlerRaises(x, effect)
    \/ Register(x) \/ DatabaseFails(x)

Manage ==
    \/ \E c \in Credential, u \in User, s \in SUBSET Scope, e \in 1..MaxTime : Issue(c, u, s, e)
    \/ \E c \in Credential : Revoke(c)
    \/ \E t \in Token, secret \in Credential \cup Token, s \in SUBSET Scope : VerifyClient(t, secret, s)
    \/ \E t \in Token : GrantToken(t)
    \/ \E u \in User, row \in UserRow : ChangeUser(u, row)
    \/ Tick

Next == (\E x \in Call : Serve(x)) \/ Manage \/ Crash

Spec == Init /\ [][Next]_vars

-----------------------------------------------------------------------------

\* Calls that claim to be the same write: one credential and one key.
SameWrite(x, y) == /\ calls[x].principal # None /\ calls[x].principal = calls[y].principal
                   /\ calls[x].key = calls[y].key

(* However the calls with one credential and one key race, fail, are cut   *)
(* off by a crash and are tried again, at most one of them has an effect.  *)
OncePerKey ==
    \A x, y \in Call : SameWrite(x, y) /\ calls[x].effect /\ calls[y].effect => x = y

(* Nobody is answered for what somebody else did: a client that is told an *)
(* outcome is told that of the very request it sent, under its credential, *)
(* and all who ask are told the same.                                      *)
AnswersAgree ==
    \A x \in Call : calls[x].stage = "answered" /\ calls[x].reply \in Outcome =>
        /\ \E y \in Call : /\ SameWrite(x, y) /\ calls[y].request = calls[x].request
                           /\ calls[x].reply = "created" => calls[y].effect
        /\ \A y \in Call : SameWrite(x, y) /\ calls[y].stage = "answered" /\ calls[y].reply \in Outcome =>
             /\ calls[y].reply = calls[x].reply
             /\ calls[y].request = calls[x].request

(* A client whose credential had been revoked or had expired, or whose     *)
(* owner had been deactivated, before it called changes nothing, whatever  *)
(* tokens it holds or was about to be given.                               *)
WithdrawnDoesNothing == \A x \in Call : calls[x].withdrawn => ~calls[x].effect

(* A key is "in progress" for good, which nothing ever repairs, only when  *)
(* the call that owned it was cut off or raised; a call that is answered   *)
(* with an outcome leaves the key answered too.                            *)
AbandonedOnlyByFault ==
    \A c \in Credential, k \in Key : records[<<c, k>>] # None /\ records[<<c, k>>].reply = None =>
        LET asked == {x \in Call : calls[x].principal = c /\ calls[x].key = k} IN
        /\ \E x \in asked : calls[x].stage \in {"owned", "ran", "lost"} \/ calls[x].reply = "error"
        /\ \A x \in asked : ~(calls[x].stage = "answered" /\ calls[x].reply \in Outcome)
=============================================================================
