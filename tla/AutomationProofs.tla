-------------------------- MODULE AutomationProofs --------------------------
(***************************************************************************)
(* Proofs about Automation, for every value of its constants: whatever the *)
(* calls, their retries, faults and crashes, a key has one effect and one  *)
(* answer, and a withdrawn credential has none.                            *)
(***************************************************************************)
EXTENDS Automation, TLAPS

\* A call that has won its key: it may write, or has written.
Works(call) == call.stage \in {"owned", "ran"} \/ call.effect

(* What the stage of a call says of its fields: nothing is done and nobody *)
(* is answered before the handler runs, and it runs past the door only.    *)
StagesMeanWhatTheySay ==
    \A x \in Call :
        /\ calls[x].stage = "new" => calls[x].principal = None /\ ~calls[x].withdrawn
        /\ calls[x].stage \in {"new", "tool", "body", "free", "owned"} =>
             ~calls[x].effect /\ calls[x].reply = None
        /\ calls[x].stage = "tool" => calls[x].key \in Key /\ calls[x].request \in Request
                                      /\ calls[x].secret \in Issued /\ calls[x].principal = None
        /\ calls[x].stage = "ran" => /\ calls[x].reply \in Outcome
                                     /\ calls[x].reply = "created" => calls[x].effect

(* A call with a principal has all that makes a key of the table, and a    *)
(* call without one has got nowhere.                                       *)
PastTheDoor ==
    \A x \in Call :
        /\ calls[x].principal # None =>
             calls[x].principal \in Credential /\ calls[x].key \in Key /\ calls[x].request \in Request
        /\ \/ calls[x].stage \in {"body", "free", "owned", "ran"}
           \/ calls[x].effect
           \/ calls[x].reply \in Outcome
           => calls[x].principal # None

(* A call that has won its key has its record, made for its own request    *)
(* and without an answer until the call registers one.                     *)
WorkIsRecorded ==
    \A x \in Call : Works(calls[x]) =>
        /\ records[RecordKey(x)] # None
        /\ records[RecordKey(x)].request = calls[x].request
        /\ calls[x].stage \in {"owned", "ran"} => records[RecordKey(x)].reply = None

(* A key is won once, because a record is never removed.                   *)
OneWorker ==
    \A x, y \in Call : SameWrite(x, y) /\ Works(calls[x]) /\ Works(calls[y]) => x = y

(* A registered answer is that of a call which asked for just this.        *)
RegisteredIsDone ==
    \A c \in Credential, k \in Key : records[<<c, k>>] # None /\ records[<<c, k>>].reply # None =>
        \E y \in Call :
            /\ calls[y].principal = c /\ calls[y].key = k
            /\ calls[y].request = records[<<c, k>>].request
            /\ records[<<c, k>>].reply = "created" => calls[y].effect

(* An outcome that a client is told is the registered one.                 *)
ToldIsRegistered ==
    \A x \in Call : calls[x].stage = "answered" /\ calls[x].reply \in Outcome =>
        /\ records[RecordKey(x)] # None
        /\ records[RecordKey(x)].reply = calls[x].reply
        /\ records[RecordKey(x)].request = calls[x].request

(* A key in progress was won by a call that still works or met a fault.    *)
InProgressHasCause ==
    \A c \in Credential, k \in Key : records[<<c, k>>] # None /\ records[<<c, k>>].reply = None =>
        \E x \in Call : /\ calls[x].principal = c /\ calls[x].key = k
                        /\ \/ calls[x].stage \in {"owned", "ran", "lost"}
                           \/ calls[x].reply = "error"

(* A withdrawn call was sent away at the door.                             *)
WithdrawnIsAnswered ==
    \A x \in Call : calls[x].withdrawn =>
        calls[x].stage = "answered" /\ calls[x].principal = None /\ calls[x].reply \notin Outcome

(* Tokens and what is about to become one are of credentials that exist.   *)
TokensHaveCredentials ==
    \A t \in Token :
        /\ grants[t] # None => credentials[grants[t].credential] # None
        /\ tokens[t] # None => credentials[tokens[t].credential] # None

(* The inductive invariant: the types, who may have a credential, what the *)
(* stages of a call mean, and how the calls stand to the table of records. *)
IInv ==
    /\ TypeOK
    /\ TokensHaveCredentials
    /\ StagesMeanWhatTheySay
    /\ PastTheDoor
    /\ WorkIsRecorded
    /\ OneWorker
    /\ RegisteredIsDone
    /\ ToldIsRegistered
    /\ InProgressHasCause
    /\ WithdrawnIsAnswered

-----------------------------------------------------------------------------
(* Which row a secret stands for.                                          *)
LEMMA SecretsOpenCredentials ==
    ASSUME TypeOK, NEW secret \in Issued
    PROVE  secret \in Credential \cup Token /\ CredentialOf(secret) \in Credential
BY AutomationAssumption, NoneAssumption
   DEF AutomationAssumption, NoneAssumption, TypeOK, Issued, CredentialOf, TokenRow

\* How a call may change in a step that leaves the records alone.
GoesOn(x) ==
    /\ calls[x].principal # None =>
         /\ calls'[x].principal = calls[x].principal
         /\ calls'[x].key = calls[x].key /\ calls'[x].request = calls[x].request
    /\ calls[x].effect => calls'[x].effect
    /\ Works(calls'[x]) => Works(calls[x])
    /\ calls'[x].stage \in {"owned", "ran"} => calls[x].stage \in {"owned", "ran"}
    /\ calls[x].stage \in {"owned", "ran", "lost"} \/ calls[x].reply = "error" =>
         calls'[x].stage \in {"owned", "ran", "lost"} \/ calls'[x].reply = "error"
    /\ calls'[x].stage = "answered" /\ calls'[x].reply \in Outcome =>
         /\ calls[x].principal # None
         /\ records[RecordKey(x)] # None
         /\ records[RecordKey(x)].reply = calls'[x].reply
         /\ records[RecordKey(x)].request = calls[x].request

(* Such a step keeps what relates the calls to the records.                *)
LEMMA CallsGoOn ==
    ASSUME IInv, TypeOK', records' = records, \A x \in Call : GoesOn(x), PastTheDoor'
    PROVE  /\ WorkIsRecorded' /\ OneWorker' /\ RegisteredIsDone'
           /\ ToldIsRegistered' /\ InProgressHasCause'
<1>1. WorkIsRecorded'
  <2> SUFFICES ASSUME NEW x \in Call, Works(calls'[x])
               PROVE  /\ records[RecordKey(x)'] # None
                      /\ records[RecordKey(x)'].request = calls'[x].request
                      /\ calls'[x].stage \in {"owned", "ran"} => records[RecordKey(x)'].reply = None
    BY DEF WorkIsRecorded
  <2>1. GoesOn(x) /\ Works(calls[x])
    BY DEF GoesOn
  <2>2. calls[x].principal # None
    BY <2>1 DEF IInv, PastTheDoor, Works
  <2>3. RecordKey(x)' = RecordKey(x) /\ calls'[x].request = calls[x].request
    BY <2>1, <2>2 DEF GoesOn, RecordKey
  <2> QED
    BY <2>1, <2>3 DEF IInv, WorkIsRecorded, GoesOn
<1>2. OneWorker'
  BY DEF IInv, GoesOn, PastTheDoor, OneWorker, SameWrite, Works
<1>3. RegisteredIsDone'
  <2> SUFFICES ASSUME NEW c \in Credential, NEW k \in Key,
                      records[<<c, k>>] # None, records[<<c, k>>].reply # None
               PROVE  \E y \in Call :
                        /\ calls'[y].principal = c /\ calls'[y].key = k
                        /\ calls'[y].request = records[<<c, k>>].request
                        /\ records[<<c, k>>].reply = "created" => calls'[y].effect
    BY DEF RegisteredIsDone
  <2>1. PICK y \in Call :
          /\ calls[y].principal = c /\ calls[y].key = k
          /\ calls[y].request = records[<<c, k>>].request
          /\ records[<<c, k>>].reply = "created" => calls[y].effect
    BY DEF IInv, RegisteredIsDone
  <2>2. c # None
    BY AutomationAssumption DEF AutomationAssumption
  <2> QED
    BY <2>1, <2>2 DEF GoesOn
<1>4. ToldIsRegistered'
  BY DEF GoesOn, ToldIsRegistered, RecordKey
<1>5. InProgressHasCause'
  BY AutomationAssumption DEF AutomationAssumption, IInv, GoesOn, InProgressHasCause
<1> QED
  BY <1>1, <1>2, <1>3, <1>4, <1>5

-----------------------------------------------------------------------------
(* Users, credentials, tokens and the clock: no call is touched, and the   *)
(* rows that a token names stay.                                           *)
LEMMA ManageStep ==
    ASSUME IInv, Manage
    PROVE  IInv'
<1>1. UNCHANGED <<calls, records>>
  BY DEF Manage, Issue, Revoke, VerifyClient, GrantToken, ChangeUser, Tick
<1>2. TypeOK' /\ TokensHaveCredentials' /\ Issued \subseteq Issued'
  <2>1. ASSUME NEW c \in Credential, NEW u \in User, NEW s \in SUBSET Scope,
               NEW e \in 1..MaxTime, Issue(c, u, s, e)
        PROVE  TypeOK' /\ TokensHaveCredentials' /\ Issued \subseteq Issued'
    BY <2>1, AutomationAssumption, NoneAssumption
       DEF AutomationAssumption, NoneAssumption, IInv, TypeOK, TokensHaveCredentials, Issued,
           Issue, CredentialRow
  <2>2. ASSUME NEW c \in Credential, Revoke(c)
        PROVE  TypeOK' /\ TokensHaveCredentials' /\ Issued \subseteq Issued'
    <3>1. credentials'[c] \in CredentialRow
      BY <2>2 DEF IInv, TypeOK, Revoke, CredentialRow
    <3>2. /\ credentials' \in [Credential -> CredentialRow \cup {None}]
          /\ credentials'[c] # None
          /\ \A d \in Credential \ {c} : credentials'[d] = credentials[d]
          /\ UNCHANGED <<users, tokens, grants, records, calls, now, changes>>
      BY <2>2, <3>1, NoneAssumption DEF NoneAssumption, IInv, TypeOK, Revoke
    <3> QED
      BY <3>2 DEF IInv, TypeOK, TokensHaveCredentials, Issued, Grant, TokenRow
  <2>3. ASSUME NEW t \in Token, NEW secret \in Credential \cup Token, NEW asked \in SUBSET Scope,
               VerifyClient(t, secret, asked)
        PROVE  TypeOK' /\ TokensHaveCredentials' /\ Issued \subseteq Issued'
    <3>1. CredentialOf(secret) \in Credential /\ credentials[CredentialOf(secret)] # None
      BY <2>3, SecretsOpenCredentials, AutomationAssumption
         DEF AutomationAssumption, IInv, TypeOK, TokensHaveCredentials, VerifyClient, Issued, CredentialOf
    <3>2. grants'[t] \in Grant /\ grants'[t].credential = CredentialOf(secret)
      BY <2>3, <3>1 DEF IInv, TypeOK, VerifyClient, Grant
    <3>3. /\ \A u \in Token \ {t} : grants'[u] = grants[u]
          /\ grants' \in [Token -> Grant \cup {None}]
          /\ UNCHANGED <<users, credentials, tokens, records, calls, now, changes>>
      BY <2>3, <3>2 DEF IInv, TypeOK, VerifyClient
    <3> QED
      BY <3>1, <3>2, <3>3 DEF IInv, TypeOK, TokensHaveCredentials, Issued
  <2>4. ASSUME NEW t \in Token, GrantToken(t)
        PROVE  TypeOK' /\ TokensHaveCredentials' /\ Issued \subseteq Issued'
    <3> DEFINE g == grants[t]
               expires == credentials[g.credential].expires
               until == IF expires < now + TokenLife THEN expires ELSE now + TokenLife
               row == [credential |-> g.credential, scopes |-> g.scopes, expires |-> until]
    <3>1. g \in Grant /\ g.credential \in Credential /\ credentials[g.credential] # None
      BY <2>4 DEF IInv, TypeOK, TokensHaveCredentials, GrantToken, Grant
    <3>2. expires \in 0..MaxTime
      BY <3>1 DEF IInv, TypeOK, CredentialRow
    <3>3. row \in TokenRow
      BY <3>1, <3>2, AutomationAssumption DEF AutomationAssumption, IInv, TypeOK, Grant, TokenRow
    <3>4. tokens' = tokens \/ tokens' = [tokens EXCEPT ![t] = row]
      BY <2>4 DEF GrantToken
    <3>5. grants' = [grants EXCEPT ![t] = None] /\ UNCHANGED <<users, credentials, records, calls, now, changes>>
      BY <2>4 DEF GrantToken
    <3>6. row.credential = g.credential
      OBVIOUS
    <3> QED
      BY <3>1, <3>3, <3>4, <3>5, <3>6, NoneAssumption
         DEF NoneAssumption, IInv, TypeOK, TokensHaveCredentials, Issued
  <2>5. ASSUME NEW u \in User, NEW row \in UserRow, ChangeUser(u, row)
        PROVE  TypeOK' /\ TokensHaveCredentials' /\ Issued \subseteq Issued'
    BY <2>5, AutomationAssumption
       DEF AutomationAssumption, IInv, TypeOK, TokensHaveCredentials, Issued, ChangeUser
  <2>6. ASSUME Tick
        PROVE  TypeOK' /\ TokensHaveCredentials' /\ Issued \subseteq Issued'
    BY <2>6, AutomationAssumption
       DEF AutomationAssumption, IInv, TypeOK, TokensHaveCredentials, Issued, Tick
  <2> QED
    BY <2>1, <2>2, <2>3, <2>4, <2>5, <2>6 DEF Manage
<1>3. StagesMeanWhatTheySay' /\ PastTheDoor' /\ WithdrawnIsAnswered'
  BY <1>1, <1>2 DEF IInv, StagesMeanWhatTheySay, PastTheDoor, WithdrawnIsAnswered
<1>4. WorkIsRecorded' /\ OneWorker' /\ RegisteredIsDone' /\ ToldIsRegistered' /\ InProgressHasCause'
  BY <1>1 DEF IInv, WorkIsRecorded, OneWorker, RegisteredIsDone, ToldIsRegistered,
              InProgressHasCause, RecordKey, SameWrite
<1> QED
  BY <1>2, <1>3, <1>4 DEF IInv

-----------------------------------------------------------------------------
(* The door: a call comes in, or its tool calls the API. It gets no        *)
(* further than its body, and no outcome.                                  *)
LEMMA Door ==
    ASSUME IInv, NEW call \in CallRow, call.secret \in Issued,
           call.key \in Key, call.request \in Request, call.principal = None,
           ~call.effect, call.reply = None,
           NEW after, after = Admitted(call) \/ after = AdmittedTool(call)
    PROVE  /\ after \in CallRow
           /\ after.key = call.key /\ after.request = call.request /\ after.secret = call.secret
           /\ ~after.effect /\ after.withdrawn = call.withdrawn
           /\ \/ after.stage = "answered" /\ after.principal = None /\ after.reply \in {"denied", "forbidden"}
              \/ after.stage = "body" /\ after.principal \in Credential /\ after.reply = None
              \/ after.stage = "tool" /\ after.principal = None /\ after.reply = None
           /\ Closed(CredentialOf(call.secret)) \/ Expired(call.secret) => after.stage = "answered"
<1>1. CredentialOf(call.secret) \in Credential
  BY SecretsOpenCredentials DEF IInv
<1>2. CASE after = Admitted(call)
  BY <1>1, <1>2 DEF Admitted, Denied, CallRow, Stage, Reply, Refusal
<1>3. CASE after = AdmittedTool(call)
  BY <1>1, <1>3 DEF AdmittedTool, Denied, CallRow, Stage, Reply, Refusal
<1> QED
  BY <1>2, <1>3

LEMMA ArriveStep ==
    ASSUME IInv, NEW x \in Call, NEW secret \in Credential \cup Token, NEW k \in Key,
           NEW r \in Request, NEW tool \in BOOLEAN, Arrive(x, secret, k, r, tool)
    PROVE  IInv'
<1> DEFINE call == [calls[x] EXCEPT !.secret = secret, !.key = k, !.request = r, !.tool = tool,
                      !.withdrawn = Closed(CredentialOf(secret)) \/ Expired(secret)]
<1>1. /\ secret \in Issued /\ calls[x].stage = "new" /\ calls[x] \in CallRow
      /\ calls[x].principal = None /\ ~calls[x].effect /\ calls[x].reply = None
      /\ ~calls[x].withdrawn
  BY DEF Arrive, IInv, TypeOK, StagesMeanWhatTheySay
<1>2. /\ call \in CallRow /\ call.secret = secret /\ call.key = k /\ call.request = r
      /\ call.principal = None /\ ~call.effect /\ call.reply = None
      /\ call.withdrawn = (Closed(CredentialOf(secret)) \/ Expired(secret))
  BY <1>1 DEF CallRow, Closed, Expired
<1>3. calls'[x] = Admitted(call) \/ calls'[x] = AdmittedTool(call)
  BY <1>1 DEF Arrive, IInv, TypeOK
<1>4. /\ calls' = [calls EXCEPT ![x] = calls'[x]]
      /\ \A y \in Call \ {x} : calls'[y] = calls[y]
      /\ UNCHANGED <<users, credentials, tokens, grants, records, now, changes>>
  BY DEF Arrive, environment, IInv, TypeOK
<1> HIDE DEF call
<1>5. /\ calls'[x] \in CallRow
      /\ calls'[x].key = k /\ calls'[x].request = r /\ calls'[x].secret = secret
      /\ ~calls'[x].effect /\ calls'[x].withdrawn = call.withdrawn
      /\ \/ calls'[x].stage = "answered" /\ calls'[x].principal = None
            /\ calls'[x].reply \in {"denied", "forbidden"}
         \/ calls'[x].stage = "body" /\ calls'[x].principal \in Credential /\ calls'[x].reply = None
         \/ calls'[x].stage = "tool" /\ calls'[x].principal = None /\ calls'[x].reply = None
      /\ call.withdrawn => calls'[x].stage = "answered"
  BY <1>1, <1>2, <1>3, Door
<1>6. TypeOK' /\ TokensHaveCredentials' /\ Issued' = Issued
  BY <1>4, <1>5 DEF IInv, TypeOK, TokensHaveCredentials, Issued
<1>7. StagesMeanWhatTheySay' /\ PastTheDoor' /\ WithdrawnIsAnswered'
  BY <1>1, <1>4, <1>5, <1>6, AutomationAssumption, NoneAssumption
     DEF AutomationAssumption, NoneAssumption, IInv, StagesMeanWhatTheySay, PastTheDoor,
         WithdrawnIsAnswered, Outcome, Reply
<1>8. \A y \in Call : GoesOn(y)
  <2>1. GoesOn(x)
    BY <1>1, <1>5, NoneAssumption DEF NoneAssumption, GoesOn, Works, Outcome, Reply, Refusal
  <2>2. ASSUME NEW y \in Call \ {x}
        PROVE  GoesOn(y)
    BY <1>4 DEF GoesOn, IInv, ToldIsRegistered, PastTheDoor
  <2> QED
    BY <2>1, <2>2
<1> QED
  BY <1>4, <1>6, <1>7, <1>8, CallsGoOn DEF IInv

LEMMA CallApiStep ==
    ASSUME IInv, NEW x \in Call, CallApi(x)
    PROVE  IInv'
<1>1. /\ calls[x].stage = "tool" /\ calls[x] \in CallRow /\ calls[x].secret \in Issued
      /\ calls[x].key \in Key /\ calls[x].request \in Request /\ ~calls[x].withdrawn
      /\ calls[x].principal = None /\ ~calls[x].effect /\ calls[x].reply = None
  BY DEF CallApi, IInv, TypeOK, StagesMeanWhatTheySay, WithdrawnIsAnswered
<1>2. calls'[x] = Admitted(calls[x])
  BY DEF CallApi, IInv, TypeOK
<1>3. /\ calls' = [calls EXCEPT ![x] = calls'[x]]
      /\ \A y \in Call \ {x} : calls'[y] = calls[y]
      /\ UNCHANGED <<users, credentials, tokens, grants, records, now, changes>>
  BY DEF CallApi, environment, IInv, TypeOK
<1>4. /\ calls'[x] \in CallRow
      /\ calls'[x].key = calls[x].key /\ calls'[x].request = calls[x].request
      /\ calls'[x].secret = calls[x].secret
      /\ ~calls'[x].effect /\ ~calls'[x].withdrawn
      /\ \/ calls'[x].stage = "answered" /\ calls'[x].principal = None
            /\ calls'[x].reply \in {"denied", "forbidden"}
         \/ calls'[x].stage = "body" /\ calls'[x].principal \in Credential /\ calls'[x].reply = None
         \/ calls'[x].stage = "tool" /\ calls'[x].principal = None /\ calls'[x].reply = None
  BY <1>1, <1>2, Door
<1>5. TypeOK' /\ TokensHaveCredentials' /\ Issued' = Issued
  BY <1>3, <1>4 DEF IInv, TypeOK, TokensHaveCredentials, Issued
<1>6. StagesMeanWhatTheySay' /\ PastTheDoor' /\ WithdrawnIsAnswered'
  BY <1>1, <1>3, <1>4, <1>5, AutomationAssumption, NoneAssumption
     DEF AutomationAssumption, NoneAssumption, IInv, StagesMeanWhatTheySay, PastTheDoor,
         WithdrawnIsAnswered, Outcome, Reply
<1>7. \A y \in Call : GoesOn(y)
  <2>1. GoesOn(x)
    BY <1>1, <1>4, NoneAssumption DEF NoneAssumption, GoesOn, Works, Outcome, Reply, Refusal
  <2>2. ASSUME NEW y \in Call \ {x}
        PROVE  GoesOn(y)
    BY <1>3 DEF GoesOn, IInv, ToldIsRegistered, PastTheDoor
  <2> QED
    BY <2>1, <2>2
<1> QED
  BY <1>3, <1>5, <1>6, <1>7, CallsGoOn DEF IInv

-----------------------------------------------------------------------------
\* One call moves on.
Becomes(x, stage, reply, effect) ==
    calls' = [calls EXCEPT ![x] = [@ EXCEPT !.stage = stage, !.reply = reply, !.effect = effect]]

(* Steps of one call past the door that leave the records alone: what it   *)
(* comes to is all there is to show.                                       *)
LEMMA OneCallGoesOn ==
    ASSUME IInv, NEW x \in Call, calls[x].stage \in {"body", "free", "owned", "ran"},
           NEW stage \in Stage, NEW reply \in Reply \cup {None}, NEW effect \in BOOLEAN,
           Becomes(x, stage, reply, effect),
           UNCHANGED <<users, credentials, tokens, grants, records, now, changes>>,
           \/ /\ stage = "free" /\ calls[x].stage = "body" /\ reply = None /\ ~effect
           \/ /\ stage = "ran" /\ calls[x].stage = "owned"
              /\ reply \in Outcome /\ (reply = "created" => effect)
           \/ /\ stage = "lost" /\ reply = calls[x].reply /\ effect = calls[x].effect
           \/ /\ stage = "answered" /\ reply = "error"
              /\ effect = calls[x].effect \/ calls[x].stage = "owned"
           \/ /\ stage = "answered" /\ calls[x].stage \in {"body", "free"} /\ ~effect
              /\ reply \in Refusal
           \/ /\ stage = "answered" /\ calls[x].stage = "body" /\ ~effect
              /\ reply \in Outcome
              /\ records[RecordKey(x)] # None
              /\ records[RecordKey(x)].reply = reply
              /\ records[RecordKey(x)].request = calls[x].request
    PROVE  IInv'
<1>1. /\ calls[x] \in CallRow /\ calls[x].principal \in Credential /\ calls[x].principal # None
      /\ calls[x].key \in Key /\ calls[x].request \in Request /\ ~calls[x].withdrawn
      /\ calls[x].stage # "ran" => ~calls[x].effect /\ calls[x].reply = None
      /\ calls[x].stage = "ran" => /\ calls[x].reply \in Outcome
                                   /\ calls[x].reply = "created" => calls[x].effect
  BY DEF IInv, TypeOK, StagesMeanWhatTheySay, PastTheDoor, WithdrawnIsAnswered
<1>2. /\ calls'[x] \in CallRow
      /\ calls'[x].stage = stage /\ calls'[x].reply = reply /\ calls'[x].effect = effect
      /\ calls'[x].principal = calls[x].principal /\ calls'[x].key = calls[x].key
      /\ calls'[x].request = calls[x].request /\ calls'[x].withdrawn = calls[x].withdrawn
      /\ calls' \in [Call -> CallRow]
      /\ \A y \in Call \ {x} : calls'[y] = calls[y]
  BY <1>1 DEF IInv, TypeOK, CallRow, Becomes
<1>3. TypeOK' /\ TokensHaveCredentials' /\ Issued' = Issued
  BY <1>2 DEF IInv, TypeOK, TokensHaveCredentials, Issued
<1>4. StagesMeanWhatTheySay' /\ PastTheDoor' /\ WithdrawnIsAnswered'
  <2>1. StagesMeanWhatTheySay'
    <3>1. calls[x].stage # "tool" /\ \A y \in Call \ {x} : calls'[y] = calls[y]
      BY <1>2
    <3>2. /\ stage \notin {"new", "tool"}
          /\ stage \in {"body", "free", "owned"} => ~effect /\ reply = None
          /\ stage = "ran" => reply \in Outcome /\ (reply = "created" => effect)
      OBVIOUS
    <3> QED
      BY <1>2, <1>3, <3>1, <3>2 DEF IInv, StagesMeanWhatTheySay
  <2>2. PastTheDoor'
    BY <1>1, <1>2 DEF IInv, PastTheDoor
  <2>3. WithdrawnIsAnswered'
    BY <1>1, <1>2 DEF IInv, WithdrawnIsAnswered
  <2> QED
    BY <2>1, <2>2, <2>3
<1>5. \A y \in Call : GoesOn(y)
  <2>1. GoesOn(x)
    BY <1>1, <1>2, NoneAssumption
       DEF NoneAssumption, GoesOn, Works, Outcome, Reply, Refusal
  <2>2. ASSUME NEW y \in Call \ {x}
        PROVE  GoesOn(y)
    BY <1>2 DEF GoesOn, IInv, ToldIsRegistered, PastTheDoor
  <2> QED
    BY <2>1, <2>2
<1> QED
  BY <1>3, <1>4, <1>5, CallsGoOn DEF IInv

\* The answers of the middleware write no effect.
LEMMA Updates ==
    ASSUME TypeOK, NEW x \in Call, NEW stage, NEW reply
    PROVE  /\ To(x, stage) => Becomes(x, stage, calls[x].reply, calls[x].effect)
           /\ Answer(x, reply) => Becomes(x, "answered", reply, calls[x].effect)
           /\ calls[x].effect \in BOOLEAN /\ calls[x].reply \in Reply \cup {None}
<1>1. calls \in [Call -> CallRow] /\ calls[x] \in CallRow
  BY DEF TypeOK
<1>2. /\ [calls[x] EXCEPT !.stage = stage] =
           [calls[x] EXCEPT !.stage = stage, !.reply = calls[x].reply, !.effect = calls[x].effect]
      /\ [calls[x] EXCEPT !.stage = "answered", !.reply = reply] =
           [calls[x] EXCEPT !.stage = "answered", !.reply = reply, !.effect = calls[x].effect]
  BY <1>1 DEF CallRow
<1> QED
  BY <1>1, <1>2 DEF To, Answer, CallRow, Becomes

LEMMA LeaveStep ==
    ASSUME IInv, NEW x \in Call, Reject(x) \/ Disconnect(x) \/ DatabaseFails(x)
    PROVE  IInv'
<1>1. /\ calls[x].stage \in {"body", "free", "ran"}
      /\ calls[x].stage # "ran" => ~calls[x].effect
      /\ UNCHANGED <<users, credentials, tokens, grants, records, now, changes>>
  BY DEF Reject, Disconnect, DatabaseFails, environment, IInv, StagesMeanWhatTheySay
<1>2. {"lost", "answered"} \subseteq Stage /\ {"invalid", "error"} \subseteq Refusal /\ Refusal \subseteq Reply
  BY DEF Stage, Refusal, Reply
<1>3. CASE Reject(x)
  BY <1>1, <1>2, <1>3, Updates, OneCallGoesOn DEF Reject, IInv
<1>4. CASE Disconnect(x)
  BY <1>1, <1>2, <1>4, Updates, OneCallGoesOn DEF Disconnect, IInv
<1>5. CASE DatabaseFails(x)
  BY <1>1, <1>2, <1>5, Updates, OneCallGoesOn DEF DatabaseFails, IInv
<1> QED
  BY <1>3, <1>4, <1>5

LEMMA LookupStep ==
    ASSUME IInv, NEW x \in Call, Lookup(x)
    PROVE  IInv'
<1> DEFINE record == records[RecordKey(x)]
<1>1. /\ calls[x].stage = "body" /\ ~calls[x].effect /\ calls[x].reply = None
      /\ calls[x].principal \in Credential /\ calls[x].key \in Key
      /\ UNCHANGED <<users, credentials, tokens, grants, records, now, changes>>
  BY DEF Lookup, environment, IInv, StagesMeanWhatTheySay, PastTheDoor
<1>2. {"free", "answered"} \subseteq Stage /\ {"conflict", "inProgress"} \subseteq Refusal
      /\ Refusal \subseteq Reply /\ Outcome \subseteq Reply
  BY DEF Stage, Refusal, Reply
<1>3. record # None => record.reply \in Outcome \cup {None}
  BY <1>1 DEF IInv, TypeOK, RecordKey, Record
<1>4. CASE record = None
  BY <1>1, <1>2, <1>4, Updates, OneCallGoesOn DEF Lookup, IInv
<1>5. CASE record # None /\ record.request # calls[x].request
  BY <1>1, <1>2, <1>5, Updates, OneCallGoesOn DEF Lookup, IInv
<1>6. CASE record # None /\ record.request = calls[x].request /\ record.reply = None
  BY <1>1, <1>2, <1>6, Updates, OneCallGoesOn DEF Lookup, IInv
<1>7. CASE record # None /\ record.request = calls[x].request /\ record.reply # None
  BY <1>1, <1>2, <1>3, <1>7, Updates, OneCallGoesOn DEF Lookup, IInv
<1> QED
  BY <1>4, <1>5, <1>6, <1>7

LEMMA HandlerStep ==
    ASSUME IInv, NEW x \in Call, NEW effect \in BOOLEAN,
           HandlerRaises(x, effect) \/ \E reply \in Outcome : Handle(x, reply, effect)
    PROVE  IInv'
<1>1. {"ran", "answered"} \subseteq Stage /\ "error" \in Reply /\ Outcome \subseteq Reply
  BY DEF Stage, Refusal, Reply
<1>2. CASE HandlerRaises(x, effect)
  BY <1>1, <1>2, OneCallGoesOn DEF HandlerRaises, environment, Becomes
<1>3. ASSUME NEW reply \in Outcome, Handle(x, reply, effect)
      PROVE  IInv'
  BY <1>1, <1>3, OneCallGoesOn DEF Handle, environment, Becomes
<1> QED
  BY <1>2, <1>3

-----------------------------------------------------------------------------
(* The steps that write the table of records.                              *)
LEMMA InsertStep ==
    ASSUME IInv, NEW x \in Call, Insert(x)
    PROVE  IInv'
<1>1. /\ calls[x].stage = "free" /\ calls[x] \in CallRow /\ ~calls[x].effect /\ calls[x].reply = None
      /\ calls[x].principal \in Credential /\ calls[x].principal # None
      /\ calls[x].key \in Key /\ calls[x].request \in Request /\ ~calls[x].withdrawn
      /\ UNCHANGED <<users, credentials, tokens, grants, now, changes>>
  BY DEF Insert, environment, IInv, TypeOK, StagesMeanWhatTheySay, PastTheDoor, WithdrawnIsAnswered
<1>2. CASE records[RecordKey(x)] # None
  <2>1. Answer(x, "inProgress") /\ UNCHANGED records
    BY <1>2 DEF Insert
  <2>2. "answered" \in Stage /\ "inProgress" \in Refusal /\ "inProgress" \in Reply
    BY DEF Stage, Refusal, Reply
  <2> QED
    BY <1>1, <2>1, <2>2, Updates, OneCallGoesOn DEF IInv
<1>3. CASE records[RecordKey(x)] = None
  <2> DEFINE row == [request |-> calls[x].request, reply |-> None]
  <2>1. /\ RecordKey(x) = <<calls[x].principal, calls[x].key>> /\ RecordKey(x) \in Credential \X Key
        /\ row \in Record /\ row # None /\ row.reply = None /\ row.request = calls[x].request
    BY <1>1, NoneAssumption DEF NoneAssumption, RecordKey, Record
  <2>2. /\ records' = [records EXCEPT ![RecordKey(x)] = row]
        /\ calls' = [calls EXCEPT ![x].stage = "owned"]
    BY <1>3 DEF Insert, To
  <2> HIDE DEF row
  <2>3. /\ records'[RecordKey(x)] = row
        /\ \A key \in Credential \X Key : key # RecordKey(x) => records'[key] = records[key]
        /\ records' \in [Credential \X Key -> Record \cup {None}]
    BY <2>1, <2>2 DEF IInv, TypeOK
  <2>4. /\ calls' \in [Call -> CallRow]
        /\ calls'[x].stage = "owned"
        /\ calls'[x].principal = calls[x].principal /\ calls'[x].key = calls[x].key
        /\ calls'[x].request = calls[x].request /\ ~calls'[x].withdrawn
        /\ ~calls'[x].effect /\ calls'[x].reply = None
        /\ \A y \in Call \ {x} : calls'[y] = calls[y]
    BY <1>1, <2>2 DEF IInv, TypeOK, CallRow, Stage
  <2>5. RecordKey(x)' = RecordKey(x) /\ \A y \in Call : RecordKey(y)' = RecordKey(y)
    BY <2>4 DEF RecordKey
  <2>6. \A y \in Call : Works(calls[y]) => RecordKey(y) # RecordKey(x)
    BY <1>3 DEF IInv, WorkIsRecorded
  <2>7. TypeOK' /\ TokensHaveCredentials' /\ Issued' = Issued
    BY <1>1, <2>3, <2>4 DEF IInv, TypeOK, TokensHaveCredentials, Issued
  <2>8. StagesMeanWhatTheySay' /\ PastTheDoor' /\ WithdrawnIsAnswered'
    <3>1. StagesMeanWhatTheySay'
      BY <2>4, <2>7 DEF IInv, StagesMeanWhatTheySay
    <3>2. PastTheDoor'
      BY <1>1, <2>4 DEF IInv, PastTheDoor
    <3>3. WithdrawnIsAnswered'
      BY <2>4 DEF IInv, WithdrawnIsAnswered
    <3> QED
      BY <3>1, <3>2, <3>3
  <2>9. WorkIsRecorded'
    <3>1. ASSUME NEW y \in Call \ {x}, Works(calls'[y])
          PROVE  RecordKey(y) \in Credential \X Key /\ records'[RecordKey(y)] = records[RecordKey(y)]
      BY <2>3, <2>4, <2>6, <3>1 DEF IInv, PastTheDoor, Works, RecordKey
    <3> QED
      BY <2>1, <2>3, <2>4, <2>5, <3>1 DEF IInv, WorkIsRecorded
  <2>10. OneWorker'
    <3>1. ASSUME NEW y \in Call \ {x}, Works(calls'[y])
          PROVE  ~SameWrite(x, y)' /\ ~SameWrite(y, x)'
      BY <2>1, <2>4, <2>6, <3>1 DEF SameWrite, RecordKey
    <3> QED
      BY <2>4, <3>1 DEF IInv, OneWorker, SameWrite
  <2>11. RegisteredIsDone'
    <3> SUFFICES ASSUME NEW c \in Credential, NEW k \in Key,
                        records'[<<c, k>>] # None, records'[<<c, k>>].reply # None
                 PROVE  \E y \in Call :
                          /\ calls'[y].principal = c /\ calls'[y].key = k
                          /\ calls'[y].request = records'[<<c, k>>].request
                          /\ records'[<<c, k>>].reply = "created" => calls'[y].effect
      BY DEF RegisteredIsDone
    <3>1. records'[<<c, k>>] = records[<<c, k>>]
      BY <2>1, <2>3
    <3>2. PICK y \in Call : /\ calls[y].principal = c /\ calls[y].key = k
                            /\ calls[y].request = records[<<c, k>>].request
                            /\ records[<<c, k>>].reply = "created" => calls[y].effect
      BY <3>1 DEF IInv, RegisteredIsDone
    <3> QED
      BY <1>1, <2>4, <3>1, <3>2
  <2>12. ToldIsRegistered'
    <3>1. ASSUME NEW y \in Call \ {x}, calls[y].stage = "answered", calls[y].reply \in Outcome
          PROVE  records'[RecordKey(y)] = records[RecordKey(y)]
      <4>1. RecordKey(y) \in Credential \X Key /\ records[RecordKey(y)] # None
        BY <3>1 DEF IInv, PastTheDoor, ToldIsRegistered, RecordKey
      <4> QED
        BY <1>3, <2>3, <4>1
    <3> QED
      BY <2>4, <2>5, <3>1 DEF IInv, ToldIsRegistered
  <2>13. InProgressHasCause'
    <3>1. ASSUME NEW c \in Credential, NEW k \in Key, <<c, k>> = RecordKey(x)
          PROVE  calls'[x].principal = c /\ calls'[x].key = k
      BY <2>1, <2>4, <3>1
    <3>2. ASSUME NEW c \in Credential, NEW k \in Key, <<c, k>> # RecordKey(x)
          PROVE  records'[<<c, k>>] = records[<<c, k>>]
      BY <2>3, <3>2
    <3>3. \A y \in Call : /\ calls'[y].principal = calls[y].principal /\ calls'[y].key = calls[y].key
                          /\ calls[y].reply = calls'[y].reply
                          /\ calls[y].stage \in {"owned", "ran", "lost"} => calls'[y].stage = calls[y].stage
      BY <1>1, <2>4
    <3> QED
      BY <2>4, <3>1, <3>2, <3>3 DEF IInv, InProgressHasCause
  <2> QED
    BY <2>7, <2>8, <2>9, <2>10, <2>11, <2>12, <2>13 DEF IInv
<1> QED
  BY <1>2, <1>3

LEMMA RegisterStep ==
    ASSUME IInv, NEW x \in Call, Register(x)
    PROVE  IInv'
<1>1. /\ calls[x].stage = "ran" /\ calls[x] \in CallRow
      /\ calls[x].reply \in Outcome /\ (calls[x].reply = "created" => calls[x].effect)
      /\ calls[x].principal \in Credential /\ calls[x].principal # None
      /\ calls[x].key \in Key /\ calls[x].request \in Request /\ ~calls[x].withdrawn
      /\ Works(calls[x])
      /\ UNCHANGED <<users, credentials, tokens, grants, now, changes>>
  BY DEF Register, environment, IInv, TypeOK, StagesMeanWhatTheySay, PastTheDoor,
         WithdrawnIsAnswered, Works
<1> DEFINE row == [request |-> calls[x].request, reply |-> calls[x].reply]
<1>2. /\ RecordKey(x) = <<calls[x].principal, calls[x].key>> /\ RecordKey(x) \in Credential \X Key
      /\ records[RecordKey(x)] \in Record
      /\ records[RecordKey(x)].reply = None /\ records[RecordKey(x)].request = calls[x].request
  BY <1>1 DEF RecordKey, IInv, TypeOK, WorkIsRecorded
<1>3. /\ row \in Record /\ row # None /\ row.reply # None
      /\ row.reply = calls[x].reply /\ row.request = calls[x].request
  BY <1>1, NoneAssumption DEF NoneAssumption, Record, Reply
<1>4. [records[RecordKey(x)] EXCEPT !.reply = calls[x].reply] = row
  BY <1>2 DEF Record
<1>5. records' = [records EXCEPT ![RecordKey(x)] = row]
  BY <1>4 DEF Register
<1> HIDE DEF row
<1>6. /\ records'[RecordKey(x)] = row
      /\ \A key \in Credential \X Key : key # RecordKey(x) => records'[key] = records[key]
      /\ records' \in [Credential \X Key -> Record \cup {None}]
  BY <1>2, <1>3, <1>5 DEF IInv, TypeOK
<1>7. /\ calls' \in [Call -> CallRow]
      /\ calls'[x].stage = "answered"
      /\ calls'[x].principal = calls[x].principal /\ calls'[x].key = calls[x].key
      /\ calls'[x].request = calls[x].request /\ ~calls'[x].withdrawn
      /\ calls'[x].effect = calls[x].effect /\ calls'[x].reply = calls[x].reply
      /\ \A y \in Call \ {x} : calls'[y] = calls[y]
  BY <1>1 DEF Register, Answer, IInv, TypeOK, CallRow, Stage, Reply
<1>8. \A y \in Call : RecordKey(y)' = RecordKey(y)
  BY <1>7 DEF RecordKey
<1>9. \A y \in Call \ {x} : Works(calls[y]) => RecordKey(y) # RecordKey(x)
  BY <1>1, <1>2 DEF IInv, OneWorker, SameWrite, PastTheDoor, Works, RecordKey
<1>10. TypeOK' /\ TokensHaveCredentials' /\ Issued' = Issued
  BY <1>1, <1>6, <1>7 DEF IInv, TypeOK, TokensHaveCredentials, Issued
<1>11. StagesMeanWhatTheySay' /\ PastTheDoor' /\ WithdrawnIsAnswered'
  <2>1. StagesMeanWhatTheySay'
    BY <1>7, <1>10 DEF IInv, StagesMeanWhatTheySay
  <2>2. PastTheDoor'
    BY <1>1, <1>7 DEF IInv, PastTheDoor
  <2>3. WithdrawnIsAnswered'
    BY <1>7 DEF IInv, WithdrawnIsAnswered
  <2> QED
    BY <2>1, <2>2, <2>3
<1>12. WorkIsRecorded'
  <2>1. ASSUME NEW y \in Call \ {x}, Works(calls'[y])
        PROVE  RecordKey(y) \in Credential \X Key /\ records'[RecordKey(y)] = records[RecordKey(y)]
    BY <1>6, <1>7, <1>9, <2>1 DEF IInv, PastTheDoor, Works, RecordKey
  <2> QED
    BY <1>3, <1>6, <1>7, <1>8, <2>1 DEF IInv, WorkIsRecorded
<1>13. OneWorker'
  BY <1>1, <1>7 DEF IInv, OneWorker, SameWrite, Works
<1>14. RegisteredIsDone'
  <2> SUFFICES ASSUME NEW c \in Credential, NEW k \in Key,
                      records'[<<c, k>>] # None, records'[<<c, k>>].reply # None
               PROVE  \E y \in Call :
                        /\ calls'[y].principal = c /\ calls'[y].key = k
                        /\ calls'[y].request = records'[<<c, k>>].request
                        /\ records'[<<c, k>>].reply = "created" => calls'[y].effect
    BY DEF RegisteredIsDone
  <2>1. CASE <<c, k>> = RecordKey(x)
    BY <1>1, <1>2, <1>3, <1>6, <1>7, <2>1
  <2>2. CASE <<c, k>> # RecordKey(x)
    <3>1. records'[<<c, k>>] = records[<<c, k>>]
      BY <1>6, <2>2
    <3>2. PICK y \in Call : /\ calls[y].principal = c /\ calls[y].key = k
                            /\ calls[y].request = records[<<c, k>>].request
                            /\ records[<<c, k>>].reply = "created" => calls[y].effect
      BY <3>1 DEF IInv, RegisteredIsDone
    <3> QED
      BY <1>7, <3>1, <3>2
  <2> QED
    BY <2>1, <2>2
<1>15. ToldIsRegistered'
  <2>1. ASSUME NEW y \in Call \ {x}, calls[y].stage = "answered", calls[y].reply \in Outcome
        PROVE  records'[RecordKey(y)] = records[RecordKey(y)]
    <3>1. RecordKey(y) \in Credential \X Key /\ records[RecordKey(y)] # None
          /\ records[RecordKey(y)].reply \in Outcome
      BY <2>1 DEF IInv, PastTheDoor, ToldIsRegistered, RecordKey
    <3>2. RecordKey(y) # RecordKey(x)
      BY <1>2, <3>1, NoneAssumption DEF NoneAssumption, Reply
    <3> QED
      BY <1>6, <3>1, <3>2
  <2> QED
    BY <1>3, <1>6, <1>7, <1>8, <2>1 DEF IInv, ToldIsRegistered
<1>16. InProgressHasCause'
  <2> SUFFICES ASSUME NEW c \in Credential, NEW k \in Key,
                      records'[<<c, k>>] # None, records'[<<c, k>>].reply = None
               PROVE  \E y \in Call : /\ calls'[y].principal = c /\ calls'[y].key = k
                                      /\ \/ calls'[y].stage \in {"owned", "ran", "lost"}
                                         \/ calls'[y].reply = "error"
    BY DEF InProgressHasCause
  <2>1. <<c, k>> # RecordKey(x) /\ records'[<<c, k>>] = records[<<c, k>>]
    BY <1>3, <1>6
  <2>2. PICK y \in Call : /\ calls[y].principal = c /\ calls[y].key = k
                          /\ \/ calls[y].stage \in {"owned", "ran", "lost"}
                             \/ calls[y].reply = "error"
    BY <2>1 DEF IInv, InProgressHasCause
  <2>3. y # x
    BY <1>2, <2>1, <2>2
  <2> QED
    BY <1>7, <2>2, <2>3
<1> QED
  BY <1>10, <1>11, <1>12, <1>13, <1>14, <1>15, <1>16 DEF IInv

(* The process dies: what worked is cut off, the table keeps its records.  *)
LEMMA CrashStep ==
    ASSUME IInv, Crash
    PROVE  IInv'
<1>1. /\ UNCHANGED <<users, credentials, tokens, records, now, changes>>
      /\ grants' = [t \in Token |-> None]
  BY DEF Crash
<1>2. \A x \in Call :
        /\ calls'[x] \in CallRow
        /\ \/ calls'[x] = calls[x]
           \/ /\ calls'[x].stage = "lost"
              /\ calls[x].stage \in {"tool", "body", "free", "owned", "ran"}
        /\ calls'[x].stage \notin {"tool", "body", "free", "owned", "ran"}
        /\ calls'[x].principal = calls[x].principal /\ calls'[x].key = calls[x].key
        /\ calls'[x].request = calls[x].request /\ calls'[x].withdrawn = calls[x].withdrawn
        /\ calls'[x].effect = calls[x].effect /\ calls'[x].reply = calls[x].reply
  <2> SUFFICES ASSUME NEW x \in Call
               PROVE  /\ calls'[x] \in CallRow
                      /\ \/ calls'[x] = calls[x]
                         \/ /\ calls'[x].stage = "lost"
                            /\ calls[x].stage \in {"tool", "body", "free", "owned", "ran"}
                      /\ calls'[x].stage \notin {"tool", "body", "free", "owned", "ran"}
                      /\ calls'[x].principal = calls[x].principal /\ calls'[x].key = calls[x].key
                      /\ calls'[x].request = calls[x].request /\ calls'[x].withdrawn = calls[x].withdrawn
                      /\ calls'[x].effect = calls[x].effect /\ calls'[x].reply = calls[x].reply
    OBVIOUS
  <2>1. calls[x] \in CallRow
    BY DEF IInv, TypeOK
  <2>2. calls'[x] = IF calls[x].stage \in {"tool", "body", "free", "owned", "ran"}
                    THEN [calls[x] EXCEPT !.stage = "lost"] ELSE calls[x]
    BY DEF Crash
  <2>3. CASE calls[x].stage \in {"tool", "body", "free", "owned", "ran"}
    BY <2>1, <2>2, <2>3 DEF CallRow, Stage
  <2>4. CASE calls[x].stage \notin {"tool", "body", "free", "owned", "ran"}
    <3>1. calls'[x] = calls[x]
      BY <2>2, <2>4
    <3> QED
      BY <2>1, <2>4, <3>1
  <2> QED
    BY <2>3, <2>4
<1>3. TypeOK' /\ TokensHaveCredentials' /\ Issued' = Issued
  <2>1. calls' \in [Call -> CallRow]
    BY <1>2 DEF Crash
  <2> QED
    BY <1>1, <2>1 DEF IInv, TypeOK, TokensHaveCredentials, Issued
<1>4. StagesMeanWhatTheySay' /\ PastTheDoor' /\ WithdrawnIsAnswered'
  <2>1. StagesMeanWhatTheySay'
    BY <1>2, <1>3 DEF IInv, StagesMeanWhatTheySay
  <2>2. PastTheDoor'
    BY <1>2 DEF IInv, PastTheDoor
  <2>3. WithdrawnIsAnswered'
    BY <1>2 DEF IInv, WithdrawnIsAnswered
  <2> QED
    BY <2>1, <2>2, <2>3
<1>5. \A x \in Call : GoesOn(x)
  <2> SUFFICES ASSUME NEW x \in Call
               PROVE  GoesOn(x)
    OBVIOUS
  <2>1. CASE calls'[x] = calls[x]
    BY <2>1 DEF GoesOn, IInv, ToldIsRegistered, PastTheDoor
  <2>2. CASE calls'[x].stage = "lost"
    BY <1>2, <2>2 DEF GoesOn, Works
  <2> QED
    BY <1>2, <2>1, <2>2
<1> QED
  BY <1>1, <1>3, <1>4, <1>5, CallsGoOn DEF IInv

-----------------------------------------------------------------------------
(* The invariant holds of every behaviour.                                 *)
LEMMA InitHolds == Init => IInv
<1> SUFFICES ASSUME Init
             PROVE  IInv
  OBVIOUS
<1>1. NewCall \in CallRow
  BY DEF NewCall, CallRow, Stage
<1>2. \A x \in Call : calls[x] = NewCall
  BY DEF Init
<1>3. TypeOK
  BY <1>1, AutomationAssumption DEF AutomationAssumption, Init, TypeOK, UserRow
<1>4. /\ NewCall.stage = "new" /\ NewCall.principal = None /\ ~NewCall.withdrawn
      /\ ~NewCall.effect /\ NewCall.reply = None
  BY DEF NewCall
<1>5. None \notin Outcome
  BY NoneAssumption DEF NoneAssumption, Reply
<1>6. StagesMeanWhatTheySay /\ PastTheDoor /\ WorkIsRecorded /\ OneWorker
      /\ ToldIsRegistered /\ WithdrawnIsAnswered
  BY <1>2, <1>4, <1>5 DEF StagesMeanWhatTheySay, PastTheDoor, WorkIsRecorded, OneWorker,
                          ToldIsRegistered, WithdrawnIsAnswered, Works
<1>7. TokensHaveCredentials /\ RegisteredIsDone /\ InProgressHasCause
  BY DEF Init, TokensHaveCredentials, RegisteredIsDone, InProgressHasCause
<1> QED
  BY <1>3, <1>6, <1>7 DEF IInv

LEMMA StepHolds == IInv /\ [Next]_vars => IInv'
<1> SUFFICES ASSUME IInv, [Next]_vars
             PROVE  IInv'
  OBVIOUS
<1>1. ASSUME NEW x \in Call, Serve(x)
      PROVE  IInv'
  BY <1>1, ArriveStep, CallApiStep, LeaveStep, LookupStep, InsertStep, HandlerStep, RegisterStep
     DEF Serve
<1>2. CASE UNCHANGED vars
  <2>1. TypeOK' /\ TokensHaveCredentials' /\ StagesMeanWhatTheySay' /\ PastTheDoor' /\ WithdrawnIsAnswered'
    BY <1>2 DEF vars, IInv, TypeOK, TokensHaveCredentials, StagesMeanWhatTheySay, PastTheDoor,
                WithdrawnIsAnswered, Issued
  <2>2. WorkIsRecorded' /\ OneWorker' /\ RegisteredIsDone' /\ ToldIsRegistered' /\ InProgressHasCause'
    BY <1>2 DEF vars, IInv, WorkIsRecorded, OneWorker, RegisteredIsDone, ToldIsRegistered,
                InProgressHasCause, RecordKey, SameWrite
  <2> QED
    BY <2>1, <2>2 DEF IInv
<1> QED
  BY <1>1, <1>2, ManageStep, CrashStep DEF Next

LEMMA Invariance == Spec => []IInv
BY InitHolds, StepHolds, PTL DEF Spec

(* Every row of the tables and every call has its type: in particular no   *)
(* token outlives the clock and no answer is outside the protocol.         *)
THEOREM TypesHold == Spec => []TypeOK
<1>1. IInv => TypeOK
  BY DEF IInv
<1> QED
  BY <1>1, Invariance, PTL

(* Two calls with one credential and one key never both have an effect,    *)
(* however they race, fail, are cut off and are retried.                   *)
THEOREM KeyWorksOnce == Spec => []OncePerKey
<1>1. IInv => OncePerKey
  BY DEF IInv, OneWorker, OncePerKey, Works
<1> QED
  BY <1>1, Invariance, PTL

(* A client that is told an outcome is told that of its own request, done  *)
(* under its own credential, and everybody who asks is told the same.      *)
THEOREM AnswersAreTrue == Spec => []AnswersAgree
<1>1. IInv => AnswersAgree
  <2> SUFFICES ASSUME IInv, NEW x \in Call, calls[x].stage = "answered", calls[x].reply \in Outcome
               PROVE  /\ \E y \in Call : /\ SameWrite(x, y) /\ calls[y].request = calls[x].request
                                         /\ calls[x].reply = "created" => calls[y].effect
                      /\ \A y \in Call :
                           SameWrite(x, y) /\ calls[y].stage = "answered" /\ calls[y].reply \in Outcome =>
                             calls[y].reply = calls[x].reply /\ calls[y].request = calls[x].request
    BY DEF AnswersAgree
  <2>1. /\ calls[x].principal # None /\ calls[x].principal \in Credential /\ calls[x].key \in Key
        /\ records[<<calls[x].principal, calls[x].key>>] # None
        /\ records[<<calls[x].principal, calls[x].key>>].reply = calls[x].reply
        /\ records[<<calls[x].principal, calls[x].key>>].request = calls[x].request
    BY DEF IInv, PastTheDoor, ToldIsRegistered, RecordKey
  <2>2. calls[x].reply # None
    BY NoneAssumption DEF NoneAssumption, Reply
  <2>3. \E y \in Call : /\ SameWrite(x, y) /\ calls[y].request = calls[x].request
                        /\ calls[x].reply = "created" => calls[y].effect
    BY <2>1, <2>2 DEF IInv, RegisteredIsDone, SameWrite
  <2>4. ASSUME NEW y \in Call, SameWrite(x, y), calls[y].stage = "answered", calls[y].reply \in Outcome
        PROVE  calls[y].reply = calls[x].reply /\ calls[y].request = calls[x].request
    BY <2>1, <2>4 DEF IInv, ToldIsRegistered, RecordKey, SameWrite
  <2> QED
    BY <2>3, <2>4
<1> QED
  BY <1>1, Invariance, PTL

(* A call made with a withdrawn credential has no effect.                  *)
THEOREM WithdrawnHasNoEffect == Spec => []WithdrawnDoesNothing
<1>1. IInv => WithdrawnDoesNothing
  BY DEF IInv, WithdrawnIsAnswered, PastTheDoor, WithdrawnDoesNothing
<1> QED
  BY <1>1, Invariance, PTL

(* A key stays in progress only after a fault, and nobody has been told an *)
(* outcome for it.                                                         *)
THEOREM KeysAreAbandonedByFault == Spec => []AbandonedOnlyByFault
<1>1. IInv => AbandonedOnlyByFault
  <2> SUFFICES ASSUME IInv, NEW c \in Credential, NEW k \in Key,
                      records[<<c, k>>] # None, records[<<c, k>>].reply = None
               PROVE  LET asked == {x \in Call : calls[x].principal = c /\ calls[x].key = k} IN
                      /\ \E x \in asked : calls[x].stage \in {"owned", "ran", "lost"} \/ calls[x].reply = "error"
                      /\ \A x \in asked : ~(calls[x].stage = "answered" /\ calls[x].reply \in Outcome)
    BY DEF AbandonedOnlyByFault
  <2>1. \E x \in {x \in Call : calls[x].principal = c /\ calls[x].key = k} :
          calls[x].stage \in {"owned", "ran", "lost"} \/ calls[x].reply = "error"
    BY DEF IInv, InProgressHasCause
  <2>2. \A x \in Call : calls[x].principal = c /\ calls[x].key = k =>
          ~(calls[x].stage = "answered" /\ calls[x].reply \in Outcome)
    BY NoneAssumption DEF NoneAssumption, Reply, IInv, ToldIsRegistered, RecordKey
  <2> QED
    BY <2>1, <2>2
<1> QED
  BY <1>1, Invariance, PTL
=============================================================================
