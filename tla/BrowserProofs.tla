---------------------------- MODULE BrowserProofs ----------------------------
(***************************************************************************)
(* Proofs about Browser, for any number of users, tabs, sessions and       *)
(* pages: who is behind a write that the server accepts, and which pages   *)
(* ask again.                                                              *)
(***************************************************************************)
EXTENDS Browser, TLAPS

\* The forms of a mounted page, of a call that waits for its answer and of
\* an answer.
PageRow ==
    [tab : Tab \cup {None}, mounted : BOOLEAN, shown : {"running", "done", None},
     phase : {"off", "load", "ask", "wait"}, stopped : BOOLEAN, early : BOOLEAN,
     troubled : BOOLEAN]

Waiting ==
    [code : {None}, cookie : Session \cup {None}, csrf : Session \cup {None},
     by : User \cup {None}]

Body(kind) ==
    CASE kind = "me" -> User
      [] kind = "login" -> Session
      [] OTHER -> {"running", "done"}

Answered(c) == [code : {"200", "401", "403", "error"}, body : Body(c[2]) \cup {None}]

Pending(c) == calls[c] # None

Asked(c) == Pending(c) /\ calls[c].code = None

Granted(c) == Pending(c) /\ calls[c].code = "200"

PagesOK == pages \in [PageId -> PageRow]

\* A successful answer carries something, a login says who comes.
CallsOK ==
    /\ calls = [c \in Call |-> calls[c]]
    /\ \A c \in Call : calls[c] \in Waiting \cup Answered(c) \cup {None}
    /\ \A c \in Call : Granted(c) => calls[c].body \in Body(c[2])
    /\ \A c \in Call : c[2] = "login" /\ Asked(c) => calls[c].by \in User

\* A session that anybody knows was opened, and the one a login is about to
\* bring is known to that login alone.
SessionsAreKnown ==
    /\ \A s \in live : owner[s] # None
    /\ cookie # None => owner[cookie] # None
    /\ \A t \in Tab : csrf[t] # None => owner[csrf[t]] # None
    /\ \A t \in Tab : Granted(<<t, "login">>) => owner[calls[<<t, "login">>].body] # None

LoginsAreFresh ==
    \A t \in Tab : Granted(<<t, "login">>) =>
        /\ calls[<<t, "login">>].body # cookie
        /\ \A o \in Tab : csrf[o] # calls[<<t, "login">>].body
        /\ \A o \in Tab \ {t} :
              Granted(<<o, "login">>) => calls[<<o, "login">>].body # calls[<<t, "login">>].body

\* A tab that starts waits for its session and for nothing else.
StartIsAlone ==
    \A t \in Tab : place[t] = "start" =>
        /\ ~Pending(<<t, "login">>) /\ ~Pending(<<t, "logout">>)
        /\ \A p \in PageId : pages[p].tab = t =>
              pages[p].phase # "wait" /\ ~Pending(<<p, "task">>) /\ ~Pending(<<p, "cancel">>)

PlacesMeanWhatTheySay ==
    /\ \A t \in Tab :
          /\ Pending(<<t, "me">>) => place[t] = "start"
          /\ Pending(<<t, "login">>) => place[t] = "login"
          /\ place[t] = "page" => user[t] # None
    /\ \A p \in PageId :
          /\ pages[p].mounted => pages[p].tab \in Tab /\ place[pages[p].tab] = "page"
          /\ pages[p].phase # "off" \/ Pending(<<p, "task">>) \/ Pending(<<p, "cancel">>) =>
                pages[p].tab \in Tab

\* The tab that has the token of the cookie's session shows its owner ...
IdentityIsCurrent ==
    \A t \in Tab : cookie # None /\ csrf[t] = cookie /\ user[t] # None => owner[cookie] = user[t]

\* ... or will, when it learns who it is.
MeIsCurrent ==
    \A t \in Tab : cookie # None /\ csrf[t] = cookie =>
        /\ Asked(<<t, "me">>) => calls[<<t, "me">>].cookie = cookie
        /\ Granted(<<t, "me">>) => calls[<<t, "me">>].body = owner[cookie]

\* A write with the right token is made by the owner of its cookie.
WritesAreSigned ==
    \A c \in Call : c[2] \in {"logout", "cancel"} /\ Asked(c) =>
        (calls[c].cookie # None /\ calls[c].csrf = calls[c].cookie =>
            calls[c].by # None /\ owner[calls[c].cookie] = calls[c].by)

\* A page that was left has its polling stopped, or was left early.
LeftIsStopped ==
    \A p \in PageId :
        /\ Pending(<<p, "task">>) => pages[p].phase \in {"load", "ask"}
        /\ pages[p].phase = "load" => pages[p].mounted \/ pages[p].early
        /\ pages[p].phase \in {"ask", "wait"} =>
              pages[p].mounted \/ pages[p].stopped \/ pages[p].early

IInv ==
    /\ TypeOK /\ PagesOK /\ CallsOK
    /\ SessionsAreKnown /\ LoginsAreFresh
    /\ StartIsAlone /\ PlacesMeanWhatTheySay
    /\ IdentityIsCurrent /\ MeIsCurrent /\ WritesAreSigned
    /\ LeftIsStopped

-----------------------------------------------------------------------------
(* Calls and pages.                                                        *)

LEMMA CallsOfTabs ==
    ASSUME NEW t \in Tab
    PROVE  <<t, "me">> \in Call /\ <<t, "login">> \in Call /\ <<t, "logout">> \in Call
BY DEF Call

LEMMA CallsOfPages ==
    ASSUME NEW p \in PageId
    PROVE  <<p, "task">> \in Call /\ <<p, "cancel">> \in Call
BY DEF Call

LEMMA CallKinds ==
    ASSUME NEW c \in Call
    PROVE  \/ c[1] \in Tab /\ c[2] \in {"me", "login", "logout"}
           \/ c[1] \in PageId /\ c[2] \in {"task", "cancel"}
BY DEF Call

(* A call waits, or it is answered.                                        *)
LEMMA CallForms ==
    ASSUME CallsOK, NEW c \in Call
    PROVE  /\ Asked(c) => calls[c] \in Waiting
           /\ Pending(c) /\ ~Asked(c) => calls[c] \in Answered(c)
           /\ Granted(c) => ~Asked(c) /\ calls[c].body \in Body(c[2])
           /\ c[2] = "login" /\ Asked(c) => calls[c].by \in User
<1>1. calls[c] \in Waiting \cup Answered(c) \cup {None}
  BY DEF CallsOK
<1>2. calls[c] \in Answered(c) => calls[c].code # None
  BY NoneAssumption DEF Answered, NoneAssumption
<1>3. calls[c] \in Waiting => calls[c].code = None
  BY DEF Waiting
<1> QED
  BY <1>1, <1>2, <1>3, NoneAssumption DEF Asked, Pending, Granted, CallsOK, NoneAssumption

(* A call is sent.                                                         *)
LEMMA SentCall ==
    ASSUME TypeOK, CallsOK, NEW c \in Call, NEW by \in User \cup {None}, NEW token \in Session \cup {None},
           Send(c, by, token), c[2] = "login" => by \in User
    PROVE  /\ CallsOK'
           /\ \A d \in Call : d # c => calls'[d] = calls[d]
           /\ calls'[c] = Request(by, token) /\ calls'[c].code = None
           /\ calls'[c].cookie = cookie /\ calls'[c].csrf = token /\ calls'[c].by = by
           /\ ~Granted(c)'
<1>1. /\ calls' = [calls EXCEPT ![c] = Request(by, token)]
      /\ calls = [d \in Call |-> calls[d]]
  BY DEF Send, CallsOK
<1>2. \A d \in Call : calls'[d] = IF d = c THEN Request(by, token) ELSE calls[d]
  BY <1>1
<1>3. calls' = [d \in Call |-> calls'[d]]
  BY <1>1
<1>4. Request(by, token) \in Waiting
  BY DEF Request, Waiting, TypeOK
<1>5. /\ calls'[c].code = None /\ calls'[c].cookie = cookie /\ calls'[c].csrf = token
      /\ calls'[c].by = by
  BY <1>2 DEF Request
<1>6. ~Granted(c)'
  BY <1>5, NoneAssumption DEF Granted, NoneAssumption
<1>7. CallsOK'
  <2>1. \A d \in Call : calls'[d] \in Waiting \cup Answered(d) \cup {None}
    BY <1>2, <1>4 DEF CallsOK
  <2>2. ASSUME NEW d \in Call, Granted(d)'
        PROVE  calls'[d].body \in Body(d[2])
    BY <1>2, <1>6, <2>2 DEF CallsOK, Granted, Pending
  <2>3. ASSUME NEW d \in Call, d[2] = "login", Asked(d)'
        PROVE  calls'[d].by \in User
    BY <1>2, <1>5, <2>3 DEF CallsOK, Asked, Pending
  <2> QED
    BY <1>3, <2>1, <2>2, <2>3 DEF CallsOK
<1> QED
  BY <1>2, <1>5, <1>6, <1>7

(* A call is answered.                                                     *)
LEMMA AnsweredCall ==
    ASSUME CallsOK, NEW c \in Call, NEW code \in {"200", "401", "403", "error"}, NEW body,
           body \in Body(c[2]) \/ (code # "200" /\ body = None),
           Answer(c, code, body)
    PROVE  /\ CallsOK'
           /\ \A d \in Call : d # c => calls'[d] = calls[d]
           /\ ~Asked(c)' /\ calls'[c].code = code /\ calls'[c].body = body
<1>1. /\ calls' = [calls EXCEPT ![c] = [code |-> code, body |-> body]]
      /\ calls = [d \in Call |-> calls[d]]
  BY DEF Answer, CallsOK
<1>2. \A d \in Call : calls'[d] = IF d = c THEN [code |-> code, body |-> body] ELSE calls[d]
  BY <1>1
<1>3. calls' = [d \in Call |-> calls'[d]]
  BY <1>1
<1>4. [code |-> code, body |-> body] \in Answered(c)
  BY DEF Answered
<1>5. calls'[c].code = code /\ calls'[c].body = body
  BY <1>2
<1>6. ~Asked(c)'
  BY <1>5, NoneAssumption DEF Asked, NoneAssumption
<1>7. CallsOK'
  <2>1. \A d \in Call : calls'[d] \in Waiting \cup Answered(d) \cup {None}
    BY <1>2, <1>4 DEF CallsOK
  <2>2. ASSUME NEW d \in Call, Granted(d)'
        PROVE  calls'[d].body \in Body(d[2])
    BY <1>2, <1>5, <2>2 DEF CallsOK, Granted, Pending
  <2>3. ASSUME NEW d \in Call, d[2] = "login", Asked(d)'
        PROVE  calls'[d].by \in User
    BY <1>2, <1>6, <2>3 DEF CallsOK, Asked, Pending
  <2> QED
    BY <1>3, <2>1, <2>2, <2>3 DEF CallsOK
<1> QED
  BY <1>2, <1>5, <1>6, <1>7

(* The answer of a call is taken.                                          *)
LEMMA ForgottenCall ==
    ASSUME CallsOK, NEW c \in Call, Forget(c)
    PROVE  /\ CallsOK'
           /\ \A d \in Call : d # c => calls'[d] = calls[d]
           /\ calls'[c] = None
<1>1. /\ calls' = [calls EXCEPT ![c] = None]
      /\ calls = [d \in Call |-> calls[d]]
  BY DEF Forget, CallsOK
<1>2. \A d \in Call : calls'[d] = IF d = c THEN None ELSE calls[d]
  BY <1>1
<1>3. calls' = [d \in Call |-> calls'[d]]
  BY <1>1
<1>4. \A d \in Call : calls'[d] \in Waiting \cup Answered(d) \cup {None}
  BY <1>2 DEF CallsOK
<1>5. ASSUME NEW d \in Call, Granted(d)'
      PROVE  calls'[d].body \in Body(d[2])
  BY <1>2, <1>5 DEF CallsOK, Granted, Pending
<1>6. ASSUME NEW d \in Call, d[2] = "login", Asked(d)'
      PROVE  calls'[d].by \in User
  BY <1>2, <1>6 DEF CallsOK, Asked, Pending
<1> QED
  BY <1>2, <1>3, <1>4, <1>5, <1>6 DEF CallsOK

(* The pages of a tab that leaves them.                                    *)
LEMMA LeftPages ==
    ASSUME PagesOK, NEW t \in Tab
    PROVE  /\ LeftBy(t) \in [PageId -> PageRow]
           /\ \A p \in PageId :
                 /\ LeftBy(t)[p].tab = pages[p].tab
                 /\ LeftBy(t)[p].mounted => pages[p].mounted /\ pages[p].tab # t
                 /\ LeftBy(t)[p].phase = "wait" => pages[p].phase = "wait"
                 /\ LeftBy(t)[p].phase \in {pages[p].phase, "off"}
                 /\ pages[p].phase # "wait" => LeftBy(t)[p].phase = pages[p].phase
                 /\ pages[p].early => LeftBy(t)[p].early
                 /\ pages[p].stopped => LeftBy(t)[p].stopped
                 /\ pages[p].mounted /\ ~LeftBy(t)[p].mounted =>
                       LeftBy(t)[p].stopped /\ (pages[p].phase = "load" => LeftBy(t)[p].early)
<1>1. ASSUME NEW page \in PageRow
      PROVE  /\ Unmounted(page) \in PageRow
             /\ Unmounted(page).tab = page.tab /\ ~Unmounted(page).mounted
             /\ Unmounted(page).phase = IF page.phase = "wait" THEN "off" ELSE page.phase
             /\ Unmounted(page).stopped = TRUE
             /\ Unmounted(page).early = (page.early \/ page.phase = "load")
  BY DEF PageRow, Unmounted
<1>2. \A p \in PageId : pages[p] \in PageRow
  BY DEF PagesOK
<1>3. \A p \in PageId :
        LeftBy(t)[p] = IF pages[p].tab = t /\ pages[p].mounted THEN Unmounted(pages[p]) ELSE pages[p]
  BY DEF LeftBy
<1>4. LeftBy(t) \in [PageId -> PageRow]
  BY <1>1, <1>2 DEF LeftBy
<1> QED
  BY <1>1, <1>2, <1>3, <1>4

-----------------------------------------------------------------------------
(* What several steps have in common.                                      *)

\* Calls only end in this step.
CallsEnd == \A c \in Call : calls'[c] = calls[c] \/ calls'[c] = None

(* A tab that is signed out has no pages, and waits for nobody's session.  *)
LEMMA SignedOutKeeps ==
    ASSUME IInv, NEW t \in Tab, SignedOut(t), cookie' \in {cookie, None},
           UNCHANGED <<owner, live>>, CallsEnd, ~Pending(<<t, "me">>)',
           \A p \in PageId :
              /\ pages'[p].tab = pages[p].tab
              /\ pages'[p].mounted => pages[p].mounted /\ pages[p].tab # t
              /\ pages'[p].phase \in {pages[p].phase, "off"}
    PROVE  /\ user' \in [Tab -> User \cup {None}] /\ csrf' \in [Tab -> Session \cup {None}]
           /\ place' \in [Tab -> {"closed", "start", "login", "entering", "page"}]
           /\ SessionsAreKnown' /\ LoginsAreFresh' /\ StartIsAlone' /\ PlacesMeanWhatTheySay'
           /\ IdentityIsCurrent' /\ MeIsCurrent' /\ WritesAreSigned'
<1>1. /\ user' = [user EXCEPT ![t] = None] /\ csrf' = [csrf EXCEPT ![t] = None]
      /\ place' = [place EXCEPT ![t] = IF @ = "entering" THEN @ ELSE "login"]
  BY DEF SignedOut
<1>2. /\ user \in [Tab -> User \cup {None}] /\ csrf \in [Tab -> Session \cup {None}]
      /\ place \in [Tab -> {"closed", "start", "login", "entering", "page"}]
  BY DEF IInv, TypeOK
<1>3. /\ user' \in [Tab -> User \cup {None}] /\ csrf' \in [Tab -> Session \cup {None}]
      /\ place' \in [Tab -> {"closed", "start", "login", "entering", "page"}]
  BY <1>1, <1>2
<1>4. /\ user'[t] = None /\ csrf'[t] = None /\ place'[t] \in {"login", "entering"}
      /\ place[t] = "login" => place'[t] = "login"
      /\ \A o \in Tab \ {t} : user'[o] = user[o] /\ csrf'[o] = csrf[o] /\ place'[o] = place[o]
  BY <1>1, <1>2
<1> HIDE DEF SignedOut
<1>5. /\ \A c \in Call : calls'[c] # None => calls'[c] = calls[c]
      /\ \A o \in Tab :
            /\ calls'[<<o, "me">>] # None => calls'[<<o, "me">>] = calls[<<o, "me">>]
            /\ calls'[<<o, "login">>] # None => calls'[<<o, "login">>] = calls[<<o, "login">>]
            /\ calls'[<<o, "logout">>] # None => calls'[<<o, "logout">>] = calls[<<o, "logout">>]
      /\ \A p \in PageId :
            /\ calls'[<<p, "task">>] # None => calls'[<<p, "task">>] = calls[<<p, "task">>]
            /\ calls'[<<p, "cancel">>] # None => calls'[<<p, "cancel">>] = calls[<<p, "cancel">>]
  BY CallsOfTabs, CallsOfPages DEF CallsEnd
<1>6. SessionsAreKnown' /\ LoginsAreFresh'
  <2>1. ASSUME NEW o \in Tab
        PROVE  /\ csrf'[o] # None => csrf'[o] = csrf[o]
               /\ Granted(<<o, "login">>)' =>
                    Granted(<<o, "login">>) /\ calls'[<<o, "login">>] = calls[<<o, "login">>]
    BY <1>4, <1>5 DEF Granted, Pending
  <2>2. cookie' # None => cookie' = cookie
    OBVIOUS
  <2>3. SessionsAreKnown'
    BY <2>1, <2>2 DEF IInv, SessionsAreKnown
  <2>4. ASSUME NEW o \in Tab, Granted(<<o, "login">>)'
        PROVE  /\ calls'[<<o, "login">>].body # cookie'
               /\ \A q \in Tab : csrf'[q] # calls'[<<o, "login">>].body
               /\ \A q \in Tab \ {o} : Granted(<<q, "login">>)' =>
                     calls'[<<q, "login">>].body # calls'[<<o, "login">>].body
    <3>1. calls'[<<o, "login">>] = calls[<<o, "login">>] /\ Granted(<<o, "login">>)
      BY <2>1, <2>4
    <3>2. calls[<<o, "login">>].body \in Session
      BY <3>1, CallsOfTabs, CallForms DEF IInv, Body
    <3>3. calls[<<o, "login">>].body # None
      BY <3>2, NoneAssumption DEF NoneAssumption
    <3>4. /\ calls[<<o, "login">>].body # cookie
          /\ \A q \in Tab : csrf[q] # calls[<<o, "login">>].body
          /\ \A q \in Tab \ {o} :
                Granted(<<q, "login">>) => calls[<<q, "login">>].body # calls[<<o, "login">>].body
      BY <3>1 DEF IInv, LoginsAreFresh
    <3> QED
      BY <2>1, <2>2, <3>1, <3>3, <3>4
  <2> QED
    BY <2>3, <2>4 DEF LoginsAreFresh
<1>7. StartIsAlone'
  <2> SUFFICES ASSUME NEW o \in Tab, place'[o] = "start"
               PROVE  /\ calls'[<<o, "login">>] = None /\ calls'[<<o, "logout">>] = None
                      /\ \A p \in PageId : pages'[p].tab = o =>
                           /\ pages'[p].phase # "wait"
                           /\ calls'[<<p, "task">>] = None /\ calls'[<<p, "cancel">>] = None
    BY DEF StartIsAlone, Pending
  <2>1. o # t /\ place[o] = "start"
    BY <1>4
  <2>2. /\ calls[<<o, "login">>] = None /\ calls[<<o, "logout">>] = None
        /\ \A p \in PageId : pages[p].tab = o =>
              /\ pages[p].phase # "wait"
              /\ calls[<<p, "task">>] = None /\ calls[<<p, "cancel">>] = None
    BY <2>1 DEF IInv, StartIsAlone, Pending
  <2> QED
    BY <1>5, <2>2
<1>8. PlacesMeanWhatTheySay'
  <2>1. ASSUME NEW o \in Tab
        PROVE  /\ calls'[<<o, "me">>] # None => place'[o] = "start"
               /\ calls'[<<o, "login">>] # None => place'[o] = "login"
               /\ place'[o] = "page" => user'[o] # None
    <3>1. /\ calls[<<o, "me">>] # None => place[o] = "start"
          /\ calls[<<o, "login">>] # None => place[o] = "login"
          /\ place[o] = "page" => user[o] # None
      BY DEF IInv, PlacesMeanWhatTheySay, Pending
    <3>2. CASE o = t
      BY <1>4, <1>5, <3>1, <3>2 DEF Pending
    <3>3. CASE o # t
      BY <1>4, <1>5, <3>1, <3>3
    <3> QED
      BY <3>2, <3>3
  <2>2. ASSUME NEW p \in PageId
        PROVE  /\ pages'[p].mounted => pages'[p].tab \in Tab /\ place'[pages'[p].tab] = "page"
               /\ \/ pages'[p].phase # "off"
                  \/ calls'[<<p, "task">>] # None \/ calls'[<<p, "cancel">>] # None
                  => pages'[p].tab \in Tab
    <3>1. /\ pages[p].mounted => pages[p].tab \in Tab /\ place[pages[p].tab] = "page"
          /\ \/ pages[p].phase # "off" \/ calls[<<p, "task">>] # None \/ calls[<<p, "cancel">>] # None
             => pages[p].tab \in Tab
      BY DEF IInv, PlacesMeanWhatTheySay, Pending
    <3> QED
      BY <1>4, <1>5, <3>1
  <2> QED
    BY <2>1, <2>2 DEF PlacesMeanWhatTheySay, Pending
<1>9. IdentityIsCurrent' /\ MeIsCurrent'
  <2> SUFFICES ASSUME NEW o \in Tab, cookie' # None, csrf'[o] = cookie'
               PROVE  /\ user'[o] # None => owner'[cookie'] = user'[o]
                      /\ Asked(<<o, "me">>)' => calls'[<<o, "me">>].cookie = cookie'
                      /\ Granted(<<o, "me">>)' => calls'[<<o, "me">>].body = owner'[cookie']
    BY DEF IdentityIsCurrent, MeIsCurrent
  <2>1. o # t /\ csrf[o] = cookie /\ user'[o] = user[o] /\ cookie' = cookie
    BY <1>4
  <2>2. /\ Asked(<<o, "me">>)' => Asked(<<o, "me">>) /\ calls'[<<o, "me">>] = calls[<<o, "me">>]
        /\ Granted(<<o, "me">>)' => Granted(<<o, "me">>) /\ calls'[<<o, "me">>] = calls[<<o, "me">>]
    BY <1>5 DEF Asked, Granted, Pending
  <2> QED
    BY <2>1, <2>2 DEF IInv, IdentityIsCurrent, MeIsCurrent
<1>10. WritesAreSigned'
  BY <1>5 DEF IInv, WritesAreSigned, Pending, Asked
<1> QED
  BY <1>3, <1>6, <1>7, <1>8, <1>9, <1>10

(* Pages that were left are quiet.                                         *)
LEMMA LeftKeeps ==
    ASSUME IInv, NEW t \in Tab, pages' = LeftBy(t), CallsEnd
    PROVE  PagesOK' /\ LeftIsStopped'
<1>1. \A p \in PageId : Pending(<<p, "task">>)' => Pending(<<p, "task">>)
  BY CallsOfPages DEF CallsEnd, Pending
<1> QED
  BY <1>1, LeftPages DEF IInv, PagesOK, LeftIsStopped

\* Where a tab stands when it sends.
MaySend(c) ==
    \/ c[2] = "login" /\ place[c[1]] = "login"
    \/ c[2] = "logout" /\ place[c[1]] = "page"
    \/ c[2] = "task" /\ pages[c[1]].phase = "wait"
    \/ c[2] = "cancel" /\ pages[c[1]].mounted

\* A page goes on as it was, or is opened.
PageKept(p) ==
    /\ pages'[p].tab = pages[p].tab
    /\ pages'[p].mounted => pages[p].mounted
    /\ pages'[p].phase = "wait" => pages[p].phase = "wait" \/ Pending(<<p, "task">>)
    /\ pages'[p].phase # "off" => pages[p].phase # "off" \/ Pending(<<p, "task">>)

PageOpened(p) == pages'[p].tab \in Tab /\ place[pages'[p].tab] = "page"

(* One call moves on; the tabs stay what they are.                         *)
LEMMA OneCallKeeps ==
    ASSUME IInv, NEW c \in Call, \A d \in Call : d # c => calls'[d] = calls[d],
           UNCHANGED <<cookie, tabs>>,
           \A p \in PageId : PageKept(p) \/ PageOpened(p),
           \A s \in Session : owner[s] # None => owner'[s] = owner[s],
           \A s \in live' : owner'[s] # None,
           calls'[c] # None =>
              Pending(c) \/ MaySend(c) \/ (c[2] = "task" /\ PageOpened(c[1])),
           c[2] = "login" /\ Granted(c)' =>
              /\ calls'[c].body \in Session
              /\ owner'[calls'[c].body] # None /\ calls'[c].body # cookie
              /\ \A o \in Tab :
                    /\ csrf[o] # calls'[c].body
                    /\ <<o, "login">> # c /\ Granted(<<o, "login">>) =>
                          calls[<<o, "login">>].body # calls'[c].body,
           c[2] = "me" /\ cookie # None /\ csrf[c[1]] = cookie =>
              /\ Asked(c)' => calls'[c].cookie = cookie
              /\ Granted(c)' => calls'[c].body = owner[cookie],
           c[2] \in {"logout", "cancel"} /\ Asked(c)' =>
              (calls'[c].cookie # None /\ calls'[c].csrf = calls'[c].cookie =>
                  calls'[c].by # None /\ owner'[calls'[c].cookie] = calls'[c].by)
    PROVE  /\ SessionsAreKnown' /\ LoginsAreFresh' /\ StartIsAlone' /\ PlacesMeanWhatTheySay'
           /\ IdentityIsCurrent' /\ MeIsCurrent' /\ WritesAreSigned'
<1>1. cookie' = cookie /\ user' = user /\ csrf' = csrf /\ place' = place
  BY DEF tabs
<1>2. /\ cookie \in Session \cup {None} /\ \A o \in Tab : csrf[o] \in Session \cup {None}
  BY DEF IInv, TypeOK
<1>3. ASSUME NEW o \in Tab
      PROVE  /\ <<o, "me">> # c => calls'[<<o, "me">>] = calls[<<o, "me">>]
             /\ <<o, "login">> # c => calls'[<<o, "login">>] = calls[<<o, "login">>]
             /\ <<o, "logout">> # c => calls'[<<o, "logout">>] = calls[<<o, "logout">>]
  BY CallsOfTabs
<1>4. ASSUME NEW p \in PageId
      PROVE  /\ <<p, "task">> # c => calls'[<<p, "task">>] = calls[<<p, "task">>]
             /\ <<p, "cancel">> # c => calls'[<<p, "cancel">>] = calls[<<p, "cancel">>]
  BY CallsOfPages
<1>5. ASSUME NEW o \in Tab, <<o, "login">> # c, Granted(<<o, "login">>)'
      PROVE  /\ Granted(<<o, "login">>) /\ calls'[<<o, "login">>] = calls[<<o, "login">>]
             /\ calls[<<o, "login">>].body \in Session
  <2>1. Granted(<<o, "login">>) /\ calls'[<<o, "login">>] = calls[<<o, "login">>]
    BY <1>3, <1>5 DEF Granted, Pending
  <2> QED
    BY <2>1, CallsOfTabs, CallForms DEF IInv, Body
<1>6. SessionsAreKnown'
  <2>1. cookie # None => owner'[cookie] # None
    BY <1>2 DEF IInv, SessionsAreKnown
  <2>2. \A o \in Tab : csrf[o] # None => owner'[csrf[o]] # None
    BY <1>2 DEF IInv, SessionsAreKnown
  <2>3. ASSUME NEW o \in Tab, Granted(<<o, "login">>)'
        PROVE  owner'[calls'[<<o, "login">>].body] # None
    <3>1. CASE <<o, "login">> = c
      BY <2>3, <3>1
    <3>2. CASE <<o, "login">> # c
      BY <1>5, <2>3, <3>2 DEF IInv, SessionsAreKnown
    <3> QED
      BY <3>1, <3>2
  <2> QED
    BY <1>1, <2>1, <2>2, <2>3 DEF SessionsAreKnown
<1>7. LoginsAreFresh'
  <2> SUFFICES ASSUME NEW o \in Tab, Granted(<<o, "login">>)'
               PROVE  /\ calls'[<<o, "login">>].body # cookie
                      /\ \A q \in Tab : csrf[q] # calls'[<<o, "login">>].body
                      /\ \A q \in Tab \ {o} : Granted(<<q, "login">>)' =>
                            calls'[<<q, "login">>].body # calls'[<<o, "login">>].body
    BY <1>1 DEF LoginsAreFresh
  <2>1. CASE <<o, "login">> = c
    <3>1. \A q \in Tab \ {o} : <<q, "login">> # c
      BY <2>1
    <3> QED
      BY <1>5, <2>1, <3>1
  <2>2. CASE <<o, "login">> # c
    <3>1. /\ calls[<<o, "login">>].body # cookie
          /\ \A q \in Tab : csrf[q] # calls[<<o, "login">>].body
          /\ \A q \in Tab \ {o} :
                Granted(<<q, "login">>) => calls[<<q, "login">>].body # calls[<<o, "login">>].body
      BY <1>5, <2>2 DEF IInv, LoginsAreFresh
    <3>2. calls'[<<o, "login">>] = calls[<<o, "login">>] /\ Granted(<<o, "login">>)
      BY <1>5, <2>2
    <3>3. ASSUME NEW q \in Tab \ {o}, Granted(<<q, "login">>)'
          PROVE  calls'[<<q, "login">>].body # calls'[<<o, "login">>].body
      <4>1. CASE <<q, "login">> = c
        BY <3>2, <3>3, <4>1, <2>2
      <4>2. CASE <<q, "login">> # c
        BY <1>5, <3>1, <3>2, <3>3, <4>2
      <4> QED
        BY <4>1, <4>2
    <3> QED
      BY <3>1, <3>2, <3>3
  <2> QED
    BY <2>1, <2>2
<1>8. StartIsAlone'
  <2> SUFFICES ASSUME NEW o \in Tab, place[o] = "start"
               PROVE  /\ calls'[<<o, "login">>] = None /\ calls'[<<o, "logout">>] = None
                      /\ \A p \in PageId : pages'[p].tab = o =>
                           /\ pages'[p].phase # "wait"
                           /\ calls'[<<p, "task">>] = None /\ calls'[<<p, "cancel">>] = None
    BY <1>1 DEF StartIsAlone, Pending
  <2>1. /\ calls[<<o, "login">>] = None /\ calls[<<o, "logout">>] = None
        /\ \A p \in PageId : pages[p].tab = o =>
              /\ pages[p].phase # "wait" /\ ~pages[p].mounted
              /\ calls[<<p, "task">>] = None /\ calls[<<p, "cancel">>] = None
    BY DEF IInv, StartIsAlone, PlacesMeanWhatTheySay, Pending
  <2>2. /\ <<o, "login">> = c => calls'[c] = None
        /\ <<o, "logout">> = c => calls'[c] = None
    BY <2>1 DEF MaySend, Pending
  <2>3. ASSUME NEW p \in PageId, pages'[p].tab = o
        PROVE  /\ pages'[p].phase # "wait"
               /\ calls'[<<p, "task">>] = None /\ calls'[<<p, "cancel">>] = None
    <3>1. /\ PageKept(p) /\ ~PageOpened(p)
          /\ pages[p].phase # "wait" /\ ~pages[p].mounted
          /\ calls[<<p, "task">>] = None /\ calls[<<p, "cancel">>] = None
      BY <2>1, <2>3 DEF PageOpened, PageKept
    <3>2. CASE <<p, "task">> = c
      <4>1. ~MaySend(c) /\ ~Pending(c)
        BY <3>1, <3>2 DEF MaySend, Pending
      <4> QED
        BY <1>4, <3>1, <3>2, <4>1 DEF Pending, PageKept
    <3>3. CASE <<p, "cancel">> = c
      <4>1. ~MaySend(c) /\ ~Pending(c)
        BY <3>1, <3>3 DEF MaySend, Pending
      <4> QED
        BY <1>4, <3>1, <3>3, <4>1 DEF Pending, PageKept
    <3>4. CASE <<p, "task">> # c /\ <<p, "cancel">> # c
      BY <1>4, <3>1, <3>4 DEF Pending, PageKept
    <3> QED
      BY <3>2, <3>3, <3>4
  <2> QED
    BY <1>3, <2>1, <2>2, <2>3
<1>9. PlacesMeanWhatTheySay'
  <2>1. ASSUME NEW o \in Tab
        PROVE  /\ calls'[<<o, "me">>] # None => place[o] = "start"
               /\ calls'[<<o, "login">>] # None => place[o] = "login"
               /\ place[o] = "page" => user[o] # None
    <3>1. /\ calls[<<o, "me">>] # None => place[o] = "start"
          /\ calls[<<o, "login">>] # None => place[o] = "login"
          /\ place[o] = "page" => user[o] # None
      BY DEF IInv, PlacesMeanWhatTheySay, Pending
    <3>2. <<o, "me">> = c /\ calls'[c] # None => place[o] = "start"
      BY <3>1 DEF MaySend, Pending
    <3>3. <<o, "login">> = c /\ calls'[c] # None => place[o] = "login"
      BY <3>1 DEF MaySend, Pending
    <3> QED
      BY <1>3, <3>1, <3>2, <3>3
  <2>2. ASSUME NEW p \in PageId
        PROVE  /\ pages'[p].mounted => pages'[p].tab \in Tab /\ place[pages'[p].tab] = "page"
               /\ \/ pages'[p].phase # "off"
                  \/ calls'[<<p, "task">>] # None \/ calls'[<<p, "cancel">>] # None
                  => pages'[p].tab \in Tab
    <3>1. /\ pages[p].mounted => pages[p].tab \in Tab /\ place[pages[p].tab] = "page"
          /\ \/ pages[p].phase # "off" \/ calls[<<p, "task">>] # None \/ calls[<<p, "cancel">>] # None
             => pages[p].tab \in Tab
      BY DEF IInv, PlacesMeanWhatTheySay, Pending
    <3>2. <<p, "task">> = c /\ calls'[c] # None =>
             calls[c] # None \/ pages[p].phase = "wait" \/ PageOpened(p)
      BY DEF MaySend, Pending
    <3>3. <<p, "cancel">> = c /\ calls'[c] # None => calls[c] # None \/ pages[p].mounted
      BY DEF MaySend, Pending
    <3>4. CASE PageOpened(p)
      BY <3>4 DEF PageOpened
    <3>5. CASE PageKept(p) /\ ~PageOpened(p)
      BY <1>4, <3>1, <3>2, <3>3, <3>5 DEF Pending, PageKept
    <3> QED
      BY <3>4, <3>5
  <2> QED
    BY <1>1, <2>1, <2>2 DEF PlacesMeanWhatTheySay, Pending
<1>10. IdentityIsCurrent'
  BY <1>1, <1>2 DEF IInv, IdentityIsCurrent, SessionsAreKnown
<1>11. MeIsCurrent'
  <2> SUFFICES ASSUME NEW o \in Tab, cookie # None, csrf[o] = cookie
               PROVE  /\ Asked(<<o, "me">>)' => calls'[<<o, "me">>].cookie = cookie
                      /\ Granted(<<o, "me">>)' => calls'[<<o, "me">>].body = owner'[cookie]
    BY <1>1 DEF MeIsCurrent
  <2>1. owner'[cookie] = owner[cookie]
    BY <1>2 DEF IInv, SessionsAreKnown
  <2>2. CASE <<o, "me">> = c
    BY <2>1, <2>2
  <2>3. CASE <<o, "me">> # c
    BY <1>3, <2>1, <2>3 DEF IInv, MeIsCurrent, Asked, Granted, Pending
  <2> QED
    BY <2>2, <2>3
<1>12. WritesAreSigned'
  <2> SUFFICES ASSUME NEW d \in Call, d[2] \in {"logout", "cancel"}, Asked(d)',
                      calls'[d].cookie # None, calls'[d].csrf = calls'[d].cookie
               PROVE  calls'[d].by # None /\ owner'[calls'[d].cookie] = calls'[d].by
    BY DEF WritesAreSigned
  <2>1. CASE d = c
    BY <2>1
  <2>2. CASE d # c
    <3>1. calls'[d] = calls[d] /\ Asked(d)
      BY <2>2 DEF Asked, Pending
    <3>2. /\ calls[d].by # None /\ owner[calls[d].cookie] = calls[d].by /\ calls[d] \in Waiting
      BY <3>1, CallForms DEF IInv, WritesAreSigned
    <3>3. calls[d].cookie \in Session /\ calls[d].cookie # None
      BY <3>1, <3>2 DEF Waiting
    <3> QED
      BY <3>1, <3>2, <3>3
  <2> QED
    BY <2>1, <2>2
<1> QED
  BY <1>6, <1>7, <1>8, <1>9, <1>10, <1>11, <1>12

-----------------------------------------------------------------------------
(* Every step keeps the invariant: calls that are sent.                    *)

LEMMA SubmitLoginStep ==
    ASSUME IInv, NEW t \in Tab, NEW u \in User, SubmitLogin(t, u)
    PROVE  IInv'
<1> DEFINE c == <<t, "login">>
<1>1. /\ c \in Call /\ place[t] = "login" /\ Send(c, u, None)
      /\ UNCHANGED <<server, cookie, tabs, pages, counts>>
  BY CallsOfTabs DEF SubmitLogin
<1>2. /\ CallsOK' /\ ~Granted(c)' /\ \A d \in Call : d # c => calls'[d] = calls[d]
  BY <1>1, SentCall DEF IInv
<1>3. TypeOK' /\ PagesOK'
  BY <1>1 DEF IInv, TypeOK, PagesOK, server, tabs, counts
<1>4. LeftIsStopped'
  <2>1. \A p \in PageId : calls'[<<p, "task">>] = calls[<<p, "task">>]
    BY <1>2, CallsOfPages
  <2> QED
    BY <1>1, <2>1 DEF IInv, LeftIsStopped, Pending
<1>5. \A s \in live : owner[s] # None
  BY DEF IInv, SessionsAreKnown
<1>6. MaySend(c)
  BY <1>1 DEF MaySend
<1>7. \A p \in PageId : PageKept(p)
  BY <1>1 DEF PageKept
<1>8. owner' = owner /\ live' = live /\ cookie' = cookie /\ UNCHANGED tabs
  BY <1>1 DEF server
<1> QED
  BY <1>1, <1>2, <1>3, <1>4, <1>5, <1>6, <1>7, <1>8, OneCallKeeps DEF IInv

(* The token of a tab and the cookie agree on who the tab shows.           *)
LEMMA TabIsSigned ==
    ASSUME IInv, NEW t \in Tab, place[t] = "page"
    PROVE  user[t] \in User /\ (cookie # None /\ csrf[t] = cookie => owner[cookie] = user[t])
<1>1. user[t] # None
  BY DEF IInv, PlacesMeanWhatTheySay
<1> QED
  BY <1>1 DEF IInv, TypeOK, IdentityIsCurrent

LEMMA SignOutStep ==
    ASSUME IInv, NEW t \in Tab, SignOut(t)
    PROVE  IInv'
<1> DEFINE c == <<t, "logout">>
<1>1. /\ c \in Call /\ place[t] = "page" /\ Send(c, user[t], csrf[t])
      /\ UNCHANGED <<server, cookie, tabs, pages, counts>>
  BY CallsOfTabs DEF SignOut
<1>2. user[t] \in User /\ csrf[t] \in Session \cup {None} /\ user[t] # None
  BY <1>1, TabIsSigned, BrowserAssumption DEF IInv, TypeOK, BrowserAssumption
<1>3. /\ CallsOK' /\ ~Granted(c)' /\ \A d \in Call : d # c => calls'[d] = calls[d]
      /\ calls'[c].cookie = cookie /\ calls'[c].csrf = csrf[t] /\ calls'[c].by = user[t]
  BY <1>1, <1>2, SentCall DEF IInv
<1>4. TypeOK' /\ PagesOK'
  BY <1>1 DEF IInv, TypeOK, PagesOK, server, tabs, counts
<1>5. LeftIsStopped'
  <2>1. \A p \in PageId : calls'[<<p, "task">>] = calls[<<p, "task">>]
    BY <1>3, CallsOfPages
  <2> QED
    BY <1>1, <2>1 DEF IInv, LeftIsStopped, Pending
<1>6. \A s \in live : owner[s] # None
  BY DEF IInv, SessionsAreKnown
<1>7. MaySend(c)
  BY <1>1 DEF MaySend
<1>8. \A p \in PageId : PageKept(p)
  BY <1>1 DEF PageKept
<1>9. owner' = owner /\ live' = live /\ cookie' = cookie /\ UNCHANGED tabs
  BY <1>1 DEF server
<1>10. calls'[c].cookie # None /\ calls'[c].csrf = calls'[c].cookie =>
          calls'[c].by # None /\ owner'[calls'[c].cookie] = calls'[c].by
  BY <1>1, <1>2, <1>3, <1>9, TabIsSigned
<1> QED
  BY <1>1, <1>3, <1>4, <1>5, <1>6, <1>7, <1>8, <1>9, <1>10, OneCallKeeps DEF IInv

LEMMA CancelTaskStep ==
    ASSUME IInv, NEW p \in PageId, CancelTask(p)
    PROVE  IInv'
<1> DEFINE c == <<p, "cancel">>
           t == pages[p].tab
<1>1. /\ c \in Call /\ pages[p].mounted /\ Send(c, user[t], csrf[t])
      /\ UNCHANGED <<server, cookie, tabs, pages, counts>>
  BY CallsOfPages DEF CancelTask
<1>2. t \in Tab /\ place[t] = "page"
  BY <1>1 DEF IInv, PlacesMeanWhatTheySay
<1> HIDE DEF t
<1>3. user[t] \in User /\ csrf[t] \in Session \cup {None} /\ user[t] # None
  BY <1>2, TabIsSigned, BrowserAssumption DEF IInv, TypeOK, BrowserAssumption
<1>4. /\ CallsOK' /\ ~Granted(c)' /\ \A d \in Call : d # c => calls'[d] = calls[d]
      /\ calls'[c].cookie = cookie /\ calls'[c].csrf = csrf[t] /\ calls'[c].by = user[t]
  BY <1>1, <1>3, SentCall DEF IInv
<1>5. TypeOK' /\ PagesOK'
  BY <1>1 DEF IInv, TypeOK, PagesOK, server, tabs, counts
<1>6. LeftIsStopped'
  <2>1. \A q \in PageId : calls'[<<q, "task">>] = calls[<<q, "task">>]
    BY <1>4, CallsOfPages
  <2> QED
    BY <1>1, <2>1 DEF IInv, LeftIsStopped, Pending
<1>7. \A s \in live : owner[s] # None
  BY DEF IInv, SessionsAreKnown
<1>8. MaySend(c)
  BY <1>1 DEF MaySend
<1>9. \A q \in PageId : PageKept(q)
  BY <1>1 DEF PageKept
<1>10. owner' = owner /\ live' = live /\ cookie' = cookie /\ UNCHANGED tabs
  BY <1>1 DEF server
<1>11. calls'[c].cookie # None /\ calls'[c].csrf = calls'[c].cookie =>
          calls'[c].by # None /\ owner'[calls'[c].cookie] = calls'[c].by
  BY <1>2, <1>3, <1>4, <1>10, TabIsSigned
<1> QED
  BY <1>1, <1>4, <1>5, <1>6, <1>7, <1>8, <1>9, <1>10, <1>11, OneCallKeeps DEF IInv

LEMMA OpenPageStep ==
    ASSUME IInv, NEW t \in Tab, NEW p \in PageId, OpenPage(t, p)
    PROVE  IInv'
<1> DEFINE c == <<p, "task">>
           page == [NoPage EXCEPT !.tab = t, !.mounted = TRUE, !.phase = "load"]
<1>1. /\ c \in Call /\ place[t] = "page" /\ pages[p] = NoPage /\ Act
      /\ pages' = [pages EXCEPT ![p] = page] /\ Send(c, None, None)
      /\ UNCHANGED <<server, cookie, tabs, failures>>
  BY CallsOfPages DEF OpenPage, AskTask
<1>2. page \in PageRow /\ page.tab = t /\ page.mounted = TRUE /\ page.phase = "load"
  BY DEF PageRow, NoPage
<1> HIDE DEF page
<1>3. /\ CallsOK' /\ \A d \in Call : d # c => calls'[d] = calls[d]
  BY <1>1, SentCall DEF IInv
<1>4. pages'[p] = page /\ \A q \in PageId : q # p => pages'[q] = pages[q]
  BY <1>1 DEF IInv, PagesOK
<1>5. TypeOK' /\ PagesOK'
  <2>1. PagesOK'
    BY <1>1, <1>2 DEF IInv, PagesOK
  <2>2. acts' \in 0..MaxActs
    BY <1>1, BrowserAssumption DEF IInv, TypeOK, Act, BrowserAssumption
  <2> QED
    BY <1>1, <2>1, <2>2 DEF IInv, TypeOK, PagesOK, PageRow, server, tabs
<1>6. LeftIsStopped'
  <2>1. ASSUME NEW q \in PageId, q # p
        PROVE  calls'[<<q, "task">>] = calls[<<q, "task">>] /\ pages'[q] = pages[q]
    BY <1>3, <1>4, <2>1, CallsOfPages
  <2> QED
    BY <1>2, <1>4, <2>1 DEF IInv, LeftIsStopped, Pending
<1>7. \A s \in live : owner[s] # None
  BY DEF IInv, SessionsAreKnown
<1>8. PageOpened(p)
  BY <1>1, <1>2, <1>4 DEF PageOpened
<1>9. \A q \in PageId : PageKept(q) \/ PageOpened(q)
  BY <1>4, <1>8 DEF PageKept
<1>10. owner' = owner /\ live' = live /\ cookie' = cookie /\ UNCHANGED tabs
  BY <1>1 DEF server
<1> QED
  BY <1>1, <1>3, <1>5, <1>6, <1>7, <1>8, <1>9, <1>10, OneCallKeeps DEF IInv

LEMMA TickStep ==
    ASSUME IInv, NEW p \in PageId, Tick(p)
    PROVE  IInv'
<1> DEFINE c == <<p, "task">>
<1>1. /\ c \in Call /\ pages[p].phase = "wait" /\ UNCHANGED <<server, cookie, tabs, counts>>
  BY CallsOfPages DEF Tick
<1>2. /\ CallsOK' /\ \A d \in Call : d # c => calls'[d] = calls[d]
      /\ \/ pages' = [pages EXCEPT ![p].phase = "off"] /\ calls' = calls
         \/ pages' = [pages EXCEPT ![p].phase = "ask"] /\ ~pages[p].stopped
  <2>1. CASE pages[p].stopped
    BY <2>1 DEF Tick, IInv, CallsOK, Granted, Asked, Pending
  <2>2. CASE ~pages[p].stopped
    <3>1. Send(c, None, None) /\ pages' = [pages EXCEPT ![p].phase = "ask"]
      BY <2>2 DEF Tick, AskTask
    <3> QED
      BY <1>1, <2>2, <3>1, SentCall DEF IInv
  <2> QED
    BY <2>1, <2>2
<1>3. PICK ph \in {"off", "ask"} : /\ pages' = [pages EXCEPT ![p].phase = ph]
                                   /\ ph = "off" => calls' = calls
                                   /\ ph = "ask" => ~pages[p].stopped
  BY <1>2
<1>4. /\ pages[p] \in PageRow /\ \A q \in PageId \ {p} : pages'[q] = pages[q]
      /\ pages'[p] = [pages[p] EXCEPT !.phase = ph]
  BY <1>3 DEF IInv, PagesOK
<1>5. /\ pages'[p] \in PageRow /\ pages'[p].phase = ph
      /\ pages'[p].tab = pages[p].tab /\ pages'[p].mounted = pages[p].mounted
      /\ pages'[p].stopped = pages[p].stopped /\ pages'[p].early = pages[p].early
  BY <1>4 DEF PageRow
<1>6. TypeOK' /\ PagesOK'
  <2>1. PagesOK'
    BY <1>3, <1>4, <1>5 DEF IInv, PagesOK
  <2> QED
    BY <1>1, <2>1 DEF IInv, TypeOK, PagesOK, PageRow, server, tabs, counts
<1>7. LeftIsStopped'
  <2>1. ASSUME NEW q \in PageId, q # p
        PROVE  calls'[<<q, "task">>] = calls[<<q, "task">>] /\ pages'[q] = pages[q]
    BY <1>2, <1>4, <2>1, CallsOfPages
  <2>2. /\ calls[c] # None => pages[p].phase \in {"load", "ask"}
        /\ pages[p].mounted \/ pages[p].stopped \/ pages[p].early
    BY <1>1 DEF IInv, LeftIsStopped, Pending
  <2>3. /\ calls'[c] # None => pages'[p].phase \in {"load", "ask"}
        /\ pages'[p].phase # "load"
        /\ pages'[p].mounted \/ pages'[p].stopped \/ pages'[p].early
    BY <1>1, <1>3, <1>5, <2>2
  <2>4. ASSUME NEW q \in PageId
        PROVE  /\ calls'[<<q, "task">>] # None => pages'[q].phase \in {"load", "ask"}
               /\ pages'[q].phase = "load" => pages'[q].mounted \/ pages'[q].early
               /\ pages'[q].phase \in {"ask", "wait"} =>
                     pages'[q].mounted \/ pages'[q].stopped \/ pages'[q].early
    <3>1. CASE q = p
      BY <2>3, <3>1
    <3>2. CASE q # p
      BY <2>1, <3>2 DEF IInv, LeftIsStopped, Pending
    <3> QED
      BY <3>1, <3>2
  <2> QED
    BY <2>4 DEF LeftIsStopped, Pending
<1>8. \A s \in live : owner[s] # None
  BY DEF IInv, SessionsAreKnown
<1>9. MaySend(c)
  BY <1>1 DEF MaySend
<1>10. \A q \in PageId : PageKept(q)
  BY <1>1, <1>4, <1>5 DEF PageKept
<1>11. owner' = owner /\ live' = live /\ cookie' = cookie /\ UNCHANGED tabs
  BY <1>1 DEF server
<1> QED
  BY <1>1, <1>2, <1>6, <1>7, <1>8, <1>9, <1>10, <1>11, OneCallKeeps DEF IInv

-----------------------------------------------------------------------------
(* The server answers, or nobody does.                                     *)

LEMMA AnsweredKeepsPages ==
    ASSUME IInv, NEW c \in Call, Pending(c), \A d \in Call : d # c => calls'[d] = calls[d],
           UNCHANGED pages
    PROVE  LeftIsStopped' /\ \A p \in PageId : PageKept(p)
<1>1. ASSUME NEW p \in PageId
      PROVE  calls'[<<p, "task">>] # None => calls[<<p, "task">>] # None
  BY CallsOfPages DEF Pending
<1> QED
  BY <1>1 DEF IInv, LeftIsStopped, Pending, PageKept

LEMMA HandleStep ==
    ASSUME IInv, NEW c \in Call, Handle(c)
    PROVE  IInv'
<1>1. /\ Asked(c) /\ Pending(c) /\ c[2] # "login"
      /\ live' = IF c[2] = "logout" /\ Refused(c) = None THEN live \ {calls[c].cookie} ELSE live
      /\ UNCHANGED <<owner, task, cookie, tabs, pages, counts>>
  BY DEF Handle, Asked, Pending
<1>2. calls[c] \in Waiting
  BY <1>1, CallForms DEF IInv
<1>3. /\ CallsOK' /\ (\A d \in Call : d # c => calls'[d] = calls[d]) /\ ~Asked(c)'
      /\ c[2] = "me" /\ Granted(c)' =>
            /\ calls[c].cookie \in live
            /\ calls'[c].body = owner[calls[c].cookie]
  <2>1. CASE Refused(c) # None
    <3>1. Refused(c) \in {"401", "403"} /\ Answer(c, Refused(c), None)
      BY <1>1, <2>1 DEF Handle, Refused
    <3>2. /\ CallsOK' /\ (\A d \in Call : d # c => calls'[d] = calls[d]) /\ ~Asked(c)'
          /\ calls'[c].code = Refused(c)
      BY <3>1, AnsweredCall DEF IInv
    <3> QED
      BY <3>1, <3>2 DEF Granted
  <2>2. CASE Refused(c) = None
    <3> DEFINE body == IF c[2] = "me" THEN owner[calls[c].cookie] ELSE task
    <3>1. Answer(c, "200", body)
      BY <1>1, <2>2 DEF Handle
    <3>2. calls[c].cookie \in live
      BY <2>2, NoneAssumption DEF Refused, NoneAssumption
    <3>3. body \in Body(c[2])
      <4>1. calls[c].cookie \in Session /\ owner[calls[c].cookie] \in User
        BY <3>2 DEF IInv, TypeOK, SessionsAreKnown
      <4>2. task \in {"running", "done"}
        BY DEF IInv, TypeOK
      <4> QED
        BY <1>1, <4>1, <4>2 DEF Body
    <3> HIDE DEF body
    <3>4. /\ CallsOK' /\ (\A d \in Call : d # c => calls'[d] = calls[d]) /\ ~Asked(c)'
          /\ calls'[c].body = body
      BY <3>1, <3>3, AnsweredCall DEF IInv
    <3> QED
      BY <3>2, <3>4 DEF body
  <2> QED
    BY <2>1, <2>2
<1>4. LeftIsStopped' /\ \A p \in PageId : PageKept(p)
  BY <1>1, <1>3, AnsweredKeepsPages
<1>5. TypeOK' /\ PagesOK'
  BY <1>1 DEF IInv, TypeOK, PagesOK, tabs, counts
<1>6. /\ owner' = owner /\ cookie' = cookie /\ UNCHANGED tabs
      /\ \A s \in live' : owner'[s] # None
  BY <1>1 DEF IInv, SessionsAreKnown
<1>7. c[2] = "me" /\ cookie # None /\ csrf[c[1]] = cookie =>
          (Granted(c)' => calls'[c].body = owner[cookie])
  <2> SUFFICES ASSUME c[2] = "me", cookie # None, csrf[c[1]] = cookie, Granted(c)'
               PROVE  calls[c].cookie = cookie
    BY <1>3
  <2>1. c[1] \in Tab /\ c = <<c[1], "me">>
    BY DEF Call
  <2> QED
    BY <1>1, <2>1 DEF IInv, MeIsCurrent
<1> QED
  BY <1>1, <1>3, <1>4, <1>5, <1>6, <1>7, OneCallKeeps DEF IInv

LEMMA HandleLoginStep ==
    ASSUME IInv, NEW t \in Tab, HandleLogin(t)
    PROVE  IInv'
<1> DEFINE c == <<t, "login">>
<1>1. /\ c \in Call /\ Asked(c) /\ Pending(c)
      /\ UNCHANGED <<task, cookie, tabs, pages, failures>>
  BY CallsOfTabs DEF HandleLogin, Asked, Pending
<1>2. calls[c].by \in User
  BY <1>1, CallForms DEF IInv
<1>3. cookie' = cookie /\ csrf' = csrf /\ UNCHANGED tabs
  BY <1>1 DEF tabs
<1>4. CASE Answer(c, "401", None) /\ UNCHANGED <<owner, live, acts>>
  <2>1. /\ CallsOK' /\ (\A d \in Call : d # c => calls'[d] = calls[d]) /\ ~Asked(c)'
        /\ calls'[c].code = "401"
    BY <1>1, <1>4, AnsweredCall DEF IInv
  <2>2. ~Granted(c)'
    BY <2>1 DEF Granted
  <2>3. LeftIsStopped' /\ \A p \in PageId : PageKept(p)
    BY <1>1, <2>1, AnsweredKeepsPages
  <2>4. TypeOK' /\ PagesOK'
    BY <1>1, <1>4 DEF IInv, TypeOK, PagesOK, tabs
  <2>5. \A s \in live' : owner'[s] # None
    BY <1>4 DEF IInv, SessionsAreKnown
  <2> QED
    BY <1>1, <1>3, <1>4, <2>1, <2>2, <2>3, <2>4, <2>5, OneCallKeeps DEF IInv
<1>5. ASSUME NEW s \in Session, Act, owner[s] = None, owner' = [owner EXCEPT ![s] = calls[c].by],
             live' = live \cup {s}, Answer(c, "200", s)
      PROVE  IInv'
  <2>1. /\ CallsOK' /\ (\A d \in Call : d # c => calls'[d] = calls[d]) /\ ~Asked(c)'
        /\ calls'[c].body = s
    BY <1>1, <1>5, AnsweredCall DEF IInv, Body
  <2>2. LeftIsStopped' /\ \A p \in PageId : PageKept(p)
    BY <1>1, <2>1, AnsweredKeepsPages
  <2>3. calls[c].by # None
    BY <1>2, BrowserAssumption DEF BrowserAssumption
  <2>4. owner' \in [Session -> User \cup {None}] /\ live' \subseteq Session
    BY <1>2, <1>5 DEF IInv, TypeOK
  <2>5. acts' \in 0..MaxActs
    BY <1>5, BrowserAssumption DEF IInv, TypeOK, Act, BrowserAssumption
  <2>6. TypeOK' /\ PagesOK'
    BY <1>1, <2>4, <2>5 DEF IInv, TypeOK, PagesOK, tabs
  <2>7. /\ owner'[s] # None
        /\ \A r \in Session : owner[r] # None => owner'[r] = owner[r]
        /\ \A r \in Session : r # s => owner'[r] = owner[r]
    BY <1>5, <2>3 DEF IInv, TypeOK
  <2>8. \A r \in live' : owner'[r] # None
    BY <1>5, <2>7 DEF IInv, TypeOK, SessionsAreKnown
  <2>9. s # cookie
    BY <1>5, NoneAssumption DEF IInv, SessionsAreKnown, NoneAssumption
  <2>10. ASSUME NEW o \in Tab
         PROVE  /\ csrf[o] # s
                /\ Granted(<<o, "login">>) => calls[<<o, "login">>].body # s
    BY <1>5, NoneAssumption DEF IInv, SessionsAreKnown, NoneAssumption
  <2> QED
    BY <1>1, <1>3, <2>1, <2>2, <2>6, <2>7, <2>8, <2>9, <2>10, OneCallKeeps DEF IInv
<1> QED
  BY <1>4, <1>5 DEF HandleLogin

LEMMA BreakStep ==
    ASSUME IInv, NEW c \in Call, Break(c)
    PROVE  IInv'
<1>1. /\ Pending(c) /\ Answer(c, "error", None) /\ failures < MaxFailures /\ failures' = failures + 1
      /\ UNCHANGED <<server, cookie, tabs, pages, acts>>
  BY DEF Break, Pending
<1>2. /\ CallsOK' /\ (\A d \in Call : d # c => calls'[d] = calls[d]) /\ ~Asked(c)'
      /\ calls'[c].code = "error"
  BY <1>1, AnsweredCall DEF IInv
<1>3. ~Granted(c)'
  BY <1>2 DEF Granted
<1>4. LeftIsStopped' /\ \A p \in PageId : PageKept(p)
  BY <1>1, <1>2, AnsweredKeepsPages
<1>5. TypeOK' /\ PagesOK'
  <2>1. failures' \in 0..MaxFailures
    BY <1>1, BrowserAssumption DEF IInv, TypeOK, BrowserAssumption
  <2> QED
    BY <1>1, <2>1 DEF IInv, TypeOK, PagesOK, tabs, server
<1>6. /\ owner' = owner /\ live' = live /\ cookie' = cookie /\ UNCHANGED tabs
      /\ \A s \in live' : owner'[s] # None
  BY <1>1 DEF IInv, SessionsAreKnown, server
<1> QED
  BY <1>1, <1>2, <1>3, <1>4, <1>5, <1>6, OneCallKeeps DEF IInv

(* A session or the task ends.                                             *)
LEMMA EndStep ==
    ASSUME IInv, EndTask \/ \E s \in Session : EndSession(s)
    PROVE  IInv'
<1>1. /\ UNCHANGED <<owner, cookie, tabs, pages, calls, counts>>
      /\ live' \subseteq live /\ task' \in {"running", "done"}
  BY DEF IInv, TypeOK, EndTask, EndSession
<1>2. TypeOK' /\ PagesOK' /\ CallsOK'
  BY <1>1 DEF IInv, TypeOK, PagesOK, CallsOK, tabs, counts, Granted, Asked, Pending
<1>3. SessionsAreKnown' /\ LoginsAreFresh'
  BY <1>1 DEF IInv, SessionsAreKnown, LoginsAreFresh, tabs, Granted, Pending
<1>4. StartIsAlone' /\ PlacesMeanWhatTheySay'
  BY <1>1 DEF IInv, StartIsAlone, PlacesMeanWhatTheySay, tabs, Pending
<1>5. IdentityIsCurrent' /\ MeIsCurrent' /\ WritesAreSigned' /\ LeftIsStopped'
  BY <1>1 DEF IInv, IdentityIsCurrent, MeIsCurrent, WritesAreSigned, LeftIsStopped, tabs,
              Asked, Granted, Pending
<1> QED
  BY <1>2, <1>3, <1>4, <1>5 DEF IInv

-----------------------------------------------------------------------------
(* The tab moves.                                                          *)

LEMMA LeavePageStep ==
    ASSUME IInv, NEW t \in Tab, LeavePage(t)
    PROVE  IInv'
<1>1. pages' = LeftBy(t) /\ UNCHANGED <<server, cookie, tabs, calls, counts>>
  BY DEF LeavePage
<1>2. CallsEnd
  BY <1>1 DEF CallsEnd
<1>3. PagesOK' /\ LeftIsStopped'
  BY <1>1, <1>2, LeftKeeps
<1>4. TypeOK' /\ CallsOK'
  BY <1>1, <1>3 DEF IInv, TypeOK, PagesOK, PageRow, CallsOK, server, tabs, counts, Granted, Asked, Pending
<1>5. SessionsAreKnown' /\ LoginsAreFresh'
  BY <1>1 DEF IInv, SessionsAreKnown, LoginsAreFresh, server, tabs, Granted, Pending
<1>6. \A p \in PageId :
         /\ pages'[p].tab = pages[p].tab
         /\ pages'[p].mounted => pages[p].mounted
         /\ pages'[p].phase \in {pages[p].phase, "off"}
  BY <1>1, LeftPages DEF IInv
<1>7. calls' = calls /\ place' = place /\ user' = user
  BY <1>1 DEF tabs
<1>8. StartIsAlone' /\ PlacesMeanWhatTheySay'
  BY <1>6, <1>7 DEF IInv, StartIsAlone, PlacesMeanWhatTheySay, Pending
<1>9. IdentityIsCurrent' /\ MeIsCurrent' /\ WritesAreSigned'
  BY <1>1 DEF IInv, IdentityIsCurrent, MeIsCurrent, WritesAreSigned, server, tabs,
              Asked, Granted, Pending
<1> QED
  BY <1>3, <1>4, <1>5, <1>8, <1>9 DEF IInv

LEMMA EnterStep ==
    ASSUME IInv, NEW t \in Tab, Enter(t)
    PROVE  IInv'
<1>1. /\ place[t] = "entering"
      /\ place' = [place EXCEPT ![t] = IF user[t] # None THEN "page" ELSE "login"]
      /\ UNCHANGED <<server, cookie, user, csrf, pages, calls, counts>>
  BY DEF Enter
<1>2. /\ place'[t] = IF user[t] # None THEN "page" ELSE "login"
      /\ \A o \in Tab \ {t} : place'[o] = place[o]
  BY <1>1 DEF IInv, TypeOK
<1>3. TypeOK' /\ PagesOK' /\ CallsOK'
  BY <1>1 DEF IInv, TypeOK, PagesOK, CallsOK, server, counts, Granted, Asked, Pending
<1>4. SessionsAreKnown' /\ LoginsAreFresh'
  BY <1>1 DEF IInv, SessionsAreKnown, LoginsAreFresh, server, Granted, Pending
<1>5. StartIsAlone'
  BY <1>1, <1>2 DEF IInv, StartIsAlone, Pending
<1>6. PlacesMeanWhatTheySay'
  <2>1. calls[<<t, "me">>] = None /\ calls[<<t, "login">>] = None
    BY <1>1 DEF IInv, PlacesMeanWhatTheySay, Pending
  <2>2. \A p \in PageId : pages[p].mounted => pages[p].tab \in Tab /\ pages[p].tab # t
    BY <1>1 DEF IInv, PlacesMeanWhatTheySay
  <2> QED
    BY <1>1, <1>2, <2>1, <2>2 DEF IInv, PlacesMeanWhatTheySay, Pending
<1>7. IdentityIsCurrent' /\ MeIsCurrent' /\ WritesAreSigned' /\ LeftIsStopped'
  BY <1>1 DEF IInv, IdentityIsCurrent, MeIsCurrent, WritesAreSigned, LeftIsStopped, server,
              Asked, Granted, Pending
<1> QED
  BY <1>3, <1>4, <1>5, <1>6, <1>7 DEF IInv

LEMMA StartStep ==
    ASSUME IInv, NEW t \in Tab, Start(t)
    PROVE  IInv'
<1>1. /\ Act
      /\ user' = [user EXCEPT ![t] = None] /\ place' = [place EXCEPT ![t] = "start"]
      /\ pages' = [p \in PageId |->
            IF pages[p].tab = t THEN [NoPage EXCEPT !.tab = t] ELSE pages[p]]
      /\ calls' = [c \in Call |-> IF c = <<t, "me">> THEN Request(None, None)
                                  ELSE IF TabOf(c) = t THEN None ELSE calls[c]]
      /\ owner' = owner /\ live' = live /\ task' = task /\ cookie' = cookie /\ csrf' = csrf
      /\ failures' = failures
  BY DEF Start, server
<1>2. /\ user'[t] = None /\ place'[t] = "start"
      /\ \A o \in Tab \ {t} : user'[o] = user[o] /\ place'[o] = place[o]
  BY <1>1 DEF IInv, TypeOK
<1>3. ASSUME NEW p \in PageId
      PROVE  /\ pages'[p].tab = pages[p].tab
             /\ pages[p].tab = t => pages'[p] \in PageRow /\ pages'[p].phase = "off" /\ ~pages'[p].mounted
             /\ pages[p].tab # t => pages'[p] = pages[p]
  BY <1>1 DEF NoPage, PageRow
<1>4. ASSUME NEW o \in Tab
      PROVE  /\ o = t => /\ calls'[<<o, "me">>] = Request(None, None)
                         /\ calls'[<<o, "login">>] = None /\ calls'[<<o, "logout">>] = None
             /\ o # t => /\ calls'[<<o, "me">>] = calls[<<o, "me">>]
                         /\ calls'[<<o, "login">>] = calls[<<o, "login">>]
                         /\ calls'[<<o, "logout">>] = calls[<<o, "logout">>]
  BY <1>1, CallsOfTabs DEF TabOf
<1>5. ASSUME NEW p \in PageId
      PROVE  /\ pages[p].tab = t => calls'[<<p, "task">>] = None /\ calls'[<<p, "cancel">>] = None
             /\ pages[p].tab # t => /\ calls'[<<p, "task">>] = calls[<<p, "task">>]
                                    /\ calls'[<<p, "cancel">>] = calls[<<p, "cancel">>]
  BY <1>1, CallsOfPages DEF TabOf
<1>6. /\ Request(None, None) \in Waiting /\ Request(None, None).code = None
      /\ Request(None, None).cookie = cookie
  BY DEF Request, Waiting, IInv, TypeOK
<1>7. /\ \A c \in Call : \/ c = <<t, "me">> /\ calls'[c] = Request(None, None)
                         \/ calls'[c] = None
                         \/ calls'[c] = calls[c]
      /\ calls' = [c \in Call |-> calls'[c]]
  BY <1>1
<1>8. CallsOK'
  <2>1. ASSUME NEW c \in Call
        PROVE  calls'[c] \in Waiting \cup Answered(c) \cup {None}
    BY <1>6, <1>7 DEF IInv, CallsOK
  <2>2. ASSUME NEW c \in Call, Granted(c)'
        PROVE  calls'[c].body \in Body(c[2])
    <3>1. Granted(c) /\ calls'[c] = calls[c]
      BY <1>6, <1>7, <2>2, NoneAssumption DEF Granted, Pending, NoneAssumption
    <3> QED
      BY <3>1, CallForms DEF IInv
  <2>3. ASSUME NEW c \in Call, c[2] = "login", Asked(c)'
        PROVE  calls'[c].by \in User
    <3>1. Asked(c) /\ calls'[c] = calls[c]
      BY <1>7, <2>3 DEF Asked, Pending
    <3> QED
      BY <2>3, <3>1, CallForms DEF IInv
  <2> QED
    BY <1>7, <2>1, <2>2, <2>3 DEF CallsOK
<1>9. TypeOK' /\ PagesOK'
  <2>1. PagesOK'
    <3>1. \A p \in PageId : pages'[p] \in PageRow
      BY <1>3 DEF IInv, PagesOK
    <3> QED
      BY <1>1, <3>1 DEF PagesOK
  <2>2. acts' \in 0..MaxActs
    BY <1>1, BrowserAssumption DEF IInv, TypeOK, Act, BrowserAssumption
  <2>3. /\ user' \in [Tab -> User \cup {None}]
        /\ place' \in [Tab -> {"closed", "start", "login", "entering", "page"}]
    BY <1>1 DEF IInv, TypeOK
  <2>4. \A p \in PageId : pages'[p].phase \in {"off", "load", "ask", "wait"}
    BY <2>1 DEF PagesOK, PageRow
  <2> QED
    BY <1>1, <2>1, <2>2, <2>3, <2>4 DEF IInv, TypeOK
<1>10. ASSUME NEW o \in Tab, Granted(<<o, "login">>)'
       PROVE  Granted(<<o, "login">>) /\ calls'[<<o, "login">>] = calls[<<o, "login">>]
  BY <1>4, <1>10 DEF Granted, Pending
<1>11. SessionsAreKnown' /\ LoginsAreFresh'
  <2>1. SessionsAreKnown'
    BY <1>1, <1>10 DEF IInv, SessionsAreKnown
  <2>2. ASSUME NEW o \in Tab, Granted(<<o, "login">>)'
        PROVE  /\ calls'[<<o, "login">>].body # cookie'
               /\ \A q \in Tab : csrf'[q] # calls'[<<o, "login">>].body
               /\ \A q \in Tab \ {o} : Granted(<<q, "login">>)' =>
                     calls'[<<q, "login">>].body # calls'[<<o, "login">>].body
    <3>1. /\ calls[<<o, "login">>].body # cookie
          /\ \A q \in Tab : csrf[q] # calls[<<o, "login">>].body
          /\ \A q \in Tab \ {o} :
                Granted(<<q, "login">>) => calls[<<q, "login">>].body # calls[<<o, "login">>].body
      BY <1>10, <2>2 DEF IInv, LoginsAreFresh
    <3> QED
      BY <1>1, <1>10, <2>2, <3>1
  <2> QED
    BY <2>1, <2>2 DEF LoginsAreFresh
<1>12. StartIsAlone'
  <2>1. ASSUME NEW o \in Tab, place'[o] = "start"
        PROVE  /\ calls'[<<o, "login">>] = None /\ calls'[<<o, "logout">>] = None
               /\ \A p \in PageId : pages'[p].tab = o =>
                     /\ pages'[p].phase # "wait"
                     /\ calls'[<<p, "task">>] = None /\ calls'[<<p, "cancel">>] = None
    <3>1. CASE o = t
      BY <1>3, <1>4, <1>5, <3>1
    <3>2. CASE o # t
      <4>1. place[o] = "start"
        BY <1>2, <2>1, <3>2
      <4>2. /\ calls[<<o, "login">>] = None /\ calls[<<o, "logout">>] = None
            /\ \A p \in PageId : pages[p].tab = o =>
                  /\ pages[p].phase # "wait"
                  /\ calls[<<p, "task">>] = None /\ calls[<<p, "cancel">>] = None
        BY <4>1 DEF IInv, StartIsAlone, Pending
      <4> QED
        BY <1>3, <1>4, <1>5, <3>2, <4>2
    <3> QED
      BY <3>1, <3>2
  <2> QED
    BY <2>1 DEF StartIsAlone, Pending
<1>13. PlacesMeanWhatTheySay'
  <2>1. ASSUME NEW o \in Tab
        PROVE  /\ calls'[<<o, "me">>] # None => place'[o] = "start"
               /\ calls'[<<o, "login">>] # None => place'[o] = "login"
               /\ place'[o] = "page" => user'[o] # None
    <3>1. /\ calls[<<o, "me">>] # None => place[o] = "start"
          /\ calls[<<o, "login">>] # None => place[o] = "login"
          /\ place[o] = "page" => user[o] # None
      BY DEF IInv, PlacesMeanWhatTheySay, Pending
    <3> QED
      BY <1>2, <1>4, <3>1
  <2>2. ASSUME NEW p \in PageId
        PROVE  /\ pages'[p].mounted => pages'[p].tab \in Tab /\ place'[pages'[p].tab] = "page"
               /\ \/ pages'[p].phase # "off"
                  \/ calls'[<<p, "task">>] # None \/ calls'[<<p, "cancel">>] # None
                  => pages'[p].tab \in Tab
    <3>1. /\ pages[p].mounted => pages[p].tab \in Tab /\ place[pages[p].tab] = "page"
          /\ \/ pages[p].phase # "off" \/ calls[<<p, "task">>] # None \/ calls[<<p, "cancel">>] # None
             => pages[p].tab \in Tab
      BY DEF IInv, PlacesMeanWhatTheySay, Pending
    <3>2. CASE pages[p].tab = t
      BY <1>3, <3>2
    <3>3. CASE pages[p].tab # t
      BY <1>2, <1>3, <1>5, <3>1, <3>3
    <3> QED
      BY <3>2, <3>3
  <2> QED
    BY <2>1, <2>2 DEF PlacesMeanWhatTheySay, Pending
<1>14. IdentityIsCurrent'
  BY <1>1, <1>2 DEF IInv, IdentityIsCurrent
<1>15. MeIsCurrent'
  <2> SUFFICES ASSUME NEW o \in Tab, cookie # None, csrf[o] = cookie
               PROVE  /\ Asked(<<o, "me">>)' => calls'[<<o, "me">>].cookie = cookie
                      /\ Granted(<<o, "me">>)' => calls'[<<o, "me">>].body = owner[cookie]
    BY <1>1 DEF MeIsCurrent
  <2>1. CASE o = t
    BY <1>4, <1>6, <2>1, NoneAssumption DEF Granted, NoneAssumption
  <2>2. CASE o # t
    BY <1>4, <2>2 DEF IInv, MeIsCurrent, Asked, Granted, Pending
  <2> QED
    BY <2>1, <2>2
<1>16. WritesAreSigned'
  <2> SUFFICES ASSUME NEW d \in Call, d[2] \in {"logout", "cancel"}, Asked(d)',
                      calls'[d].cookie # None, calls'[d].csrf = calls'[d].cookie
               PROVE  calls'[d].by # None /\ owner'[calls'[d].cookie] = calls'[d].by
    BY DEF WritesAreSigned
  <2>1. calls'[d] = calls[d] /\ Asked(d)
    BY <1>7 DEF Asked, Pending
  <2> QED
    BY <1>1, <2>1 DEF IInv, WritesAreSigned
<1>17. LeftIsStopped'
  <2>1. ASSUME NEW p \in PageId
        PROVE  /\ calls'[<<p, "task">>] # None => pages'[p].phase \in {"load", "ask"}
               /\ pages'[p].phase = "load" => pages'[p].mounted \/ pages'[p].early
               /\ pages'[p].phase \in {"ask", "wait"} =>
                     pages'[p].mounted \/ pages'[p].stopped \/ pages'[p].early
    <3>1. CASE pages[p].tab = t
      BY <1>3, <1>5, <3>1
    <3>2. CASE pages[p].tab # t
      BY <1>3, <1>5, <3>2 DEF IInv, LeftIsStopped, Pending
    <3> QED
      BY <3>1, <3>2
  <2> QED
    BY <2>1 DEF LeftIsStopped, Pending
<1> QED
  BY <1>8, <1>9, <1>11, <1>12, <1>13, <1>14, <1>15, <1>16, <1>17 DEF IInv

-----------------------------------------------------------------------------
(* Answers arrive.                                                         *)

(* The answer ends the session of the tab.                                 *)
LEMMA SignedOutStep ==
    ASSUME IInv, NEW t \in Tab, NEW c \in Call, SignedOut(t), cookie' \in {cookie, None}, Forget(c),
           UNCHANGED <<server, counts>>, ~Pending(<<t, "me">>) \/ c = <<t, "me">>,
           \A p \in PageId :
              /\ pages'[p].tab = pages[p].tab
              /\ pages'[p].mounted => pages[p].mounted /\ pages[p].tab # t
              /\ pages'[p].phase \in {pages[p].phase, "off"},
           PagesOK', LeftIsStopped'
    PROVE  IInv'
<1>1. /\ CallsOK' /\ calls'[c] = None /\ \A d \in Call : d # c => calls'[d] = calls[d]
  BY ForgottenCall DEF IInv
<1>2. CallsEnd /\ ~Pending(<<t, "me">>)'
  BY <1>1, CallsOfTabs DEF CallsEnd, Pending
<1>3. owner' = owner /\ live' = live
  BY DEF server
<1>4. /\ user' \in [Tab -> User \cup {None}] /\ csrf' \in [Tab -> Session \cup {None}]
      /\ place' \in [Tab -> {"closed", "start", "login", "entering", "page"}]
      /\ SessionsAreKnown' /\ LoginsAreFresh' /\ StartIsAlone' /\ PlacesMeanWhatTheySay'
      /\ IdentityIsCurrent' /\ MeIsCurrent' /\ WritesAreSigned'
  BY <1>2, <1>3, SignedOutKeeps
<1>5. \A p \in PageId : pages'[p].phase \in {"off", "load", "ask", "wait"}
  BY DEF PagesOK, PageRow
<1>6. TypeOK'
  BY <1>4, <1>5 DEF IInv, TypeOK, server, counts
<1> QED
  BY <1>1, <1>4, <1>6 DEF IInv

(* The answer changes the page only.                                       *)
LEMMA ForgetStep ==
    ASSUME IInv, NEW c \in Call, Pending(c), Forget(c), UNCHANGED <<server, cookie, tabs, counts>>,
           \A p \in PageId : PageKept(p), PagesOK', LeftIsStopped'
    PROVE  IInv'
<1>1. /\ CallsOK' /\ calls'[c] = None /\ \A d \in Call : d # c => calls'[d] = calls[d]
  BY ForgottenCall DEF IInv
<1>2. ~Granted(c)' /\ ~Asked(c)'
  BY <1>1 DEF Granted, Asked, Pending
<1>3. \A p \in PageId : pages'[p].phase \in {"off", "load", "ask", "wait"}
  BY DEF PagesOK, PageRow
<1>4. TypeOK'
  BY <1>3 DEF IInv, TypeOK, server, tabs, counts
<1>5. /\ owner' = owner /\ live' = live /\ cookie' = cookie /\ UNCHANGED tabs
      /\ \A s \in live' : owner'[s] # None
  BY DEF IInv, SessionsAreKnown, server
<1> QED
  BY <1>1, <1>2, <1>4, <1>5, OneCallKeeps DEF IInv

LEMMA ReceiveMeStep ==
    ASSUME IInv, NEW t \in Tab, ReceiveMe(t)
    PROVE  IInv'
<1> DEFINE c == <<t, "me">>
<1>1. /\ c \in Call /\ Pending(c) /\ calls[c].code # None /\ Forget(c)
      /\ UNCHANGED <<server, cookie, pages, counts>>
  BY CallsOfTabs DEF ReceiveMe, Pending
<1>2. PagesOK' /\ LeftIsStopped' /\ \A p \in PageId : PageKept(p)
  <2>1. \A d \in Call : d # c => calls'[d] = calls[d]
    BY <1>1, ForgottenCall DEF IInv
  <2>2. LeftIsStopped' /\ \A p \in PageId : PageKept(p)
    BY <1>1, <2>1, AnsweredKeepsPages
  <2> QED
    BY <1>1, <2>2 DEF IInv, PagesOK
<1>3. place[t] = "start" /\ \A p \in PageId : ~(pages[p].mounted /\ pages[p].tab = t)
  BY <1>1 DEF IInv, PlacesMeanWhatTheySay
<1>4. CASE calls[c].code # "200"
  <2>1. SignedOut(t)
    BY <1>1, <1>4 DEF ReceiveMe
  <2>2. \A p \in PageId :
           /\ pages'[p].tab = pages[p].tab
           /\ pages'[p].mounted => pages[p].mounted /\ pages[p].tab # t
           /\ pages'[p].phase \in {pages[p].phase, "off"}
    BY <1>1, <1>3
  <2>3. cookie' \in {cookie, None} /\ UNCHANGED <<server, counts>>
    BY <1>1
  <2> QED
    BY <1>1, <1>2, <2>1, <2>2, <2>3, SignedOutStep
<1>5. CASE calls[c].code = "200"
  <2>1. /\ user' = [user EXCEPT ![t] = calls[c].body] /\ place' = [place EXCEPT ![t] = "page"]
        /\ csrf' = csrf /\ Granted(c)
    BY <1>1, <1>5 DEF ReceiveMe, Granted
  <2>2. calls[c].body \in User /\ calls[c].body # None
    BY <1>1, <2>1, CallForms, BrowserAssumption DEF IInv, Body, BrowserAssumption
  <2>3. /\ CallsOK' /\ calls'[c] = None /\ \A d \in Call : d # c => calls'[d] = calls[d]
    BY <1>1, ForgottenCall DEF IInv
  <2>4. /\ user'[t] = calls[c].body /\ place'[t] = "page"
        /\ \A o \in Tab \ {t} : user'[o] = user[o] /\ place'[o] = place[o]
    BY <2>1 DEF IInv, TypeOK
  <2>5. owner' = owner /\ live' = live /\ task' = task /\ cookie' = cookie /\ pages' = pages
    BY <1>1 DEF server
  <2>6. TypeOK'
    <3>1. /\ user' \in [Tab -> User \cup {None}]
          /\ place' \in [Tab -> {"closed", "start", "login", "entering", "page"}]
      BY <2>1, <2>2 DEF IInv, TypeOK
    <3> QED
      BY <1>1, <2>1, <2>5, <3>1 DEF IInv, TypeOK, counts
  <2>7. ASSUME NEW o \in Tab
        PROVE  /\ calls'[<<o, "login">>] = calls[<<o, "login">>]
               /\ calls'[<<o, "logout">>] = calls[<<o, "logout">>]
               /\ o = t => calls'[<<o, "me">>] = None
               /\ o # t => calls'[<<o, "me">>] = calls[<<o, "me">>]
    BY <2>3, CallsOfTabs
  <2>8. ASSUME NEW p \in PageId
        PROVE  /\ calls'[<<p, "task">>] = calls[<<p, "task">>]
               /\ calls'[<<p, "cancel">>] = calls[<<p, "cancel">>]
    BY <2>3, CallsOfPages
  <2>9. SessionsAreKnown' /\ LoginsAreFresh'
    <3>1. ASSUME NEW o \in Tab, Granted(<<o, "login">>)'
          PROVE  Granted(<<o, "login">>) /\ calls'[<<o, "login">>] = calls[<<o, "login">>]
      BY <2>7, <3>1 DEF Granted, Pending
    <3>2. SessionsAreKnown'
      BY <2>1, <2>5, <3>1 DEF IInv, SessionsAreKnown
    <3>3. ASSUME NEW o \in Tab, Granted(<<o, "login">>)'
          PROVE  /\ calls'[<<o, "login">>].body # cookie'
                 /\ \A q \in Tab : csrf'[q] # calls'[<<o, "login">>].body
                 /\ \A q \in Tab \ {o} : Granted(<<q, "login">>)' =>
                       calls'[<<q, "login">>].body # calls'[<<o, "login">>].body
      <4>1. /\ calls[<<o, "login">>].body # cookie
            /\ \A q \in Tab : csrf[q] # calls[<<o, "login">>].body
            /\ \A q \in Tab \ {o} :
                  Granted(<<q, "login">>) => calls[<<q, "login">>].body # calls[<<o, "login">>].body
        BY <3>1, <3>3 DEF IInv, LoginsAreFresh
      <4> QED
        BY <2>1, <2>5, <3>1, <3>3, <4>1
    <3> QED
      BY <3>2, <3>3 DEF LoginsAreFresh
  <2>10. StartIsAlone'
    BY <2>4, <2>5, <2>7, <2>8 DEF IInv, StartIsAlone, Pending
  <2>11. PlacesMeanWhatTheySay'
    <3>1. calls[<<t, "login">>] = None
      BY <1>3 DEF IInv, PlacesMeanWhatTheySay, Pending
    <3>2. ASSUME NEW o \in Tab
          PROVE  /\ calls'[<<o, "me">>] # None => place'[o] = "start"
                 /\ calls'[<<o, "login">>] # None => place'[o] = "login"
                 /\ place'[o] = "page" => user'[o] # None
      BY <2>2, <2>4, <2>7, <3>1 DEF IInv, PlacesMeanWhatTheySay, Pending
    <3>3. ASSUME NEW p \in PageId
          PROVE  /\ pages[p].mounted => pages[p].tab \in Tab /\ place'[pages[p].tab] = "page"
                 /\ \/ pages[p].phase # "off"
                    \/ calls'[<<p, "task">>] # None \/ calls'[<<p, "cancel">>] # None
                    => pages[p].tab \in Tab
      BY <2>4, <2>8 DEF IInv, PlacesMeanWhatTheySay, Pending
    <3> QED
      BY <2>5, <3>2, <3>3 DEF PlacesMeanWhatTheySay, Pending
  <2>12. IdentityIsCurrent'
    <3>1. cookie # None /\ csrf[t] = cookie => owner[cookie] = calls[c].body
      BY <2>1 DEF IInv, MeIsCurrent
    <3> QED
      BY <2>1, <2>4, <2>5, <3>1 DEF IInv, IdentityIsCurrent
  <2>13. MeIsCurrent'
    BY <2>1, <2>5, <2>7 DEF IInv, MeIsCurrent, Asked, Granted, Pending
  <2>14. WritesAreSigned'
    BY <2>3, <2>5 DEF IInv, WritesAreSigned, Asked, Pending
  <2> QED
    BY <1>2, <2>3, <2>6, <2>9, <2>10, <2>11, <2>12, <2>13, <2>14 DEF IInv
<1> QED
  BY <1>4, <1>5

LEMMA ReceiveLoginStep ==
    ASSUME IInv, NEW t \in Tab, ReceiveLogin(t)
    PROVE  IInv'
<1> DEFINE c == <<t, "login">>
           s == calls[c].body
<1>1. /\ c \in Call /\ Pending(c) /\ calls[c].code # None /\ Forget(c)
      /\ UNCHANGED <<server, pages, counts>>
  BY CallsOfTabs DEF ReceiveLogin, Pending
<1>2. /\ CallsOK' /\ calls'[c] = None /\ \A d \in Call : d # c => calls'[d] = calls[d]
  BY <1>1, ForgottenCall DEF IInv
<1>3. PagesOK' /\ LeftIsStopped' /\ \A p \in PageId : PageKept(p)
  <2>1. LeftIsStopped' /\ \A p \in PageId : PageKept(p)
    BY <1>1, <1>2, AnsweredKeepsPages
  <2> QED
    BY <1>1, <2>1 DEF IInv, PagesOK
<1>4. /\ place[t] = "login" /\ ~Pending(<<t, "me">>)
      /\ \A p \in PageId : ~(pages[p].mounted /\ pages[p].tab = t)
  BY <1>1 DEF IInv, PlacesMeanWhatTheySay
<1>5. CASE calls[c].code = "401"
  <2>1. SignedOut(t) /\ cookie' = cookie
    BY <1>1, <1>5 DEF ReceiveLogin
  <2>2. \A p \in PageId :
           /\ pages'[p].tab = pages[p].tab
           /\ pages'[p].mounted => pages[p].mounted /\ pages[p].tab # t
           /\ pages'[p].phase \in {pages[p].phase, "off"}
    BY <1>1, <1>4
  <2> QED
    BY <1>1, <1>3, <1>4, <2>1, <2>2, SignedOutStep
<1>6. CASE calls[c].code \notin {"200", "401"}
  <2>1. UNCHANGED tabs /\ cookie' = cookie
    BY <1>1, <1>6 DEF ReceiveLogin
  <2> QED
    BY <1>1, <1>3, <2>1, ForgetStep
<1>7. CASE calls[c].code = "200"
  <2>1. /\ cookie' = s /\ user' = [user EXCEPT ![t] = owner[s]]
        /\ csrf' = [csrf EXCEPT ![t] = s] /\ place' = [place EXCEPT ![t] = "entering"]
        /\ Granted(c)
    BY <1>1, <1>7 DEF ReceiveLogin, Granted
  <2>2. s \in Session
    BY <1>1, <2>1, CallForms DEF IInv, Body
  <2>3. /\ owner[s] # None /\ s # cookie /\ \A o \in Tab : csrf[o] # s
        /\ \A o \in Tab \ {t} : Granted(<<o, "login">>) => calls[<<o, "login">>].body # s
    BY <2>1 DEF IInv, SessionsAreKnown, LoginsAreFresh
  <2> HIDE DEF s
  <2>4. /\ user'[t] = owner[s] /\ csrf'[t] = s /\ place'[t] = "entering"
        /\ \A o \in Tab \ {t} : user'[o] = user[o] /\ csrf'[o] = csrf[o] /\ place'[o] = place[o]
    BY <2>1 DEF IInv, TypeOK
  <2>5. owner' = owner /\ live' = live /\ task' = task /\ pages' = pages
    BY <1>1 DEF server
  <2>6. TypeOK'
    <3>1. owner[s] \in User \cup {None}
      BY <2>2 DEF IInv, TypeOK
    <3>2. /\ user' \in [Tab -> User \cup {None}] /\ csrf' \in [Tab -> Session \cup {None}]
          /\ place' \in [Tab -> {"closed", "start", "login", "entering", "page"}]
      BY <2>1, <2>2, <3>1 DEF IInv, TypeOK
    <3> QED
      BY <1>1, <2>1, <2>2, <2>5, <3>2 DEF IInv, TypeOK, counts
  <2>7. ASSUME NEW o \in Tab
        PROVE  /\ calls'[<<o, "me">>] = calls[<<o, "me">>]
               /\ calls'[<<o, "logout">>] = calls[<<o, "logout">>]
               /\ o = t => calls'[<<o, "login">>] = None
               /\ o # t => calls'[<<o, "login">>] = calls[<<o, "login">>]
    BY <1>2, CallsOfTabs
  <2>8. ASSUME NEW p \in PageId
        PROVE  /\ calls'[<<p, "task">>] = calls[<<p, "task">>]
               /\ calls'[<<p, "cancel">>] = calls[<<p, "cancel">>]
    BY <1>2, CallsOfPages
  <2>9. ASSUME NEW o \in Tab, Granted(<<o, "login">>)'
        PROVE  o # t /\ Granted(<<o, "login">>) /\ calls'[<<o, "login">>] = calls[<<o, "login">>]
    BY <2>7, <2>9 DEF Granted, Pending
  <2>10. SessionsAreKnown'
    <3>1. \A o \in Tab : csrf'[o] # None => owner[csrf'[o]] # None
      BY <2>3, <2>4 DEF IInv, SessionsAreKnown
    <3>2. \A o \in Tab : Granted(<<o, "login">>)' => owner[calls'[<<o, "login">>].body] # None
      BY <2>9 DEF IInv, SessionsAreKnown
    <3>3. \A r \in live : owner[r] # None
      BY DEF IInv, SessionsAreKnown
    <3> QED
      BY <2>1, <2>3, <2>5, <3>1, <3>2, <3>3 DEF SessionsAreKnown
  <2>11. LoginsAreFresh'
    <3>1. ASSUME NEW o \in Tab, Granted(<<o, "login">>)'
          PROVE  /\ calls'[<<o, "login">>].body # cookie'
                 /\ \A q \in Tab : csrf'[q] # calls'[<<o, "login">>].body
                 /\ \A q \in Tab \ {o} : Granted(<<q, "login">>)' =>
                       calls'[<<q, "login">>].body # calls'[<<o, "login">>].body
      <4>1. o # t /\ Granted(<<o, "login">>) /\ calls'[<<o, "login">>] = calls[<<o, "login">>]
        BY <2>9, <3>1
      <4>2. /\ \A q \in Tab : csrf[q] # calls[<<o, "login">>].body
            /\ \A q \in Tab \ {o} :
                  Granted(<<q, "login">>) => calls[<<q, "login">>].body # calls[<<o, "login">>].body
            /\ calls[<<o, "login">>].body # s
        BY <2>3, <4>1 DEF IInv, LoginsAreFresh
      <4> QED
        BY <2>1, <2>4, <2>9, <4>1, <4>2
    <3> QED
      BY <3>1 DEF LoginsAreFresh
  <2>12. StartIsAlone'
    <3>1. ASSUME NEW o \in Tab, place'[o] = "start"
          PROVE  /\ calls'[<<o, "login">>] = None /\ calls'[<<o, "logout">>] = None
                 /\ \A p \in PageId : pages[p].tab = o =>
                       /\ pages[p].phase # "wait"
                       /\ calls'[<<p, "task">>] = None /\ calls'[<<p, "cancel">>] = None
      BY <2>4, <2>7, <2>8, <3>1 DEF IInv, StartIsAlone, Pending
    <3> QED
      BY <2>5, <3>1 DEF StartIsAlone, Pending
  <2>13. PlacesMeanWhatTheySay'
    <3>1. ASSUME NEW o \in Tab
          PROVE  /\ calls'[<<o, "me">>] # None => place'[o] = "start"
                 /\ calls'[<<o, "login">>] # None => place'[o] = "login"
                 /\ place'[o] = "page" => user'[o] # None
      BY <1>4, <2>4, <2>7 DEF IInv, PlacesMeanWhatTheySay, Pending
    <3>2. ASSUME NEW p \in PageId
          PROVE  /\ pages[p].mounted => pages[p].tab \in Tab /\ place'[pages[p].tab] = "page"
                 /\ \/ pages[p].phase # "off"
                    \/ calls'[<<p, "task">>] # None \/ calls'[<<p, "cancel">>] # None
                    => pages[p].tab \in Tab
      BY <1>4, <2>4, <2>8 DEF IInv, PlacesMeanWhatTheySay, Pending
    <3> QED
      BY <2>5, <3>1, <3>2 DEF PlacesMeanWhatTheySay, Pending
  <2>14. IdentityIsCurrent'
    BY <2>1, <2>3, <2>4, <2>5 DEF IdentityIsCurrent
  <2>15. MeIsCurrent'
    <3>1. calls'[<<t, "me">>] = None
      BY <1>4, <2>7 DEF Pending
    <3> QED
      BY <2>1, <2>3, <2>4, <3>1 DEF MeIsCurrent, Asked, Granted, Pending
  <2>16. WritesAreSigned'
    BY <1>2, <2>5 DEF IInv, WritesAreSigned, Asked, Pending
  <2> QED
    BY <1>2, <1>3, <2>6, <2>10, <2>11, <2>12, <2>13, <2>14, <2>15, <2>16 DEF IInv
<1> QED
  BY <1>5, <1>6, <1>7

LEMMA ReceiveLogoutStep ==
    ASSUME IInv, NEW t \in Tab, ReceiveLogout(t)
    PROVE  IInv'
<1> DEFINE c == <<t, "logout">>
<1>1. /\ c \in Call /\ Pending(c) /\ Forget(c) /\ SignedOut(t) /\ pages' = LeftBy(t)
      /\ cookie' \in {cookie, None} /\ UNCHANGED <<server, counts>>
  BY CallsOfTabs DEF ReceiveLogout, Pending
<1>2. ~Pending(<<t, "me">>)
  BY <1>1 DEF IInv, StartIsAlone, PlacesMeanWhatTheySay
<1>3. CallsEnd
  BY <1>1, ForgottenCall DEF IInv, CallsEnd
<1>4. PagesOK' /\ LeftIsStopped'
  BY <1>1, <1>3, LeftKeeps
<1>5. \A p \in PageId :
         /\ pages'[p].tab = pages[p].tab
         /\ pages'[p].mounted => pages[p].mounted /\ pages[p].tab # t
         /\ pages'[p].phase \in {pages[p].phase, "off"}
  BY <1>1, LeftPages DEF IInv
<1> QED
  BY <1>1, <1>2, <1>4, <1>5, SignedOutStep

(* A call of a page belongs to a tab that is not waiting for its session.  *)
LEMMA PageCall ==
    ASSUME IInv, NEW p \in PageId, Pending(<<p, "task">>) \/ Pending(<<p, "cancel">>)
    PROVE  pages[p].tab \in Tab /\ ~Pending(<<pages[p].tab, "me">>)
<1>1. pages[p].tab \in Tab
  BY DEF IInv, PlacesMeanWhatTheySay
<1>2. place[pages[p].tab] # "start"
  BY <1>1 DEF IInv, StartIsAlone
<1> QED
  BY <1>1, <1>2 DEF IInv, PlacesMeanWhatTheySay

LEMMA ReceiveTaskStep ==
    ASSUME IInv, NEW p \in PageId, ReceiveTask(p)
    PROVE  IInv'
<1> DEFINE c == <<p, "task">>
           t == pages[p].tab
<1>1. /\ c \in Call /\ Pending(c) /\ calls[c].code # None /\ UNCHANGED <<server, cookie, counts>>
  BY CallsOfPages DEF ReceiveTask, Pending
<1>2. t \in Tab /\ ~Pending(<<t, "me">>)
  BY <1>1, PageCall
<1>3. /\ pages[p] \in PageRow /\ pages[p].phase \in {"load", "ask"}
      /\ pages[p].phase = "load" => pages[p].mounted \/ pages[p].early
      /\ pages[p].mounted \/ pages[p].stopped \/ pages[p].early
  BY <1>1 DEF IInv, PagesOK, LeftIsStopped
<1>4. CASE calls[c].code = "200"
  <2> DEFINE page == Shown(pages[p], calls[c].body)
  <2>1. /\ pages' = [pages EXCEPT ![p] = page] /\ UNCHANGED tabs
        /\ IF pages'[p].phase = "ask" THEN Send(c, None, None) ELSE Forget(c)
    BY <1>1, <1>4 DEF ReceiveTask, AskTask
  <2>2. calls[c].body \in {"running", "done"}
    BY <1>1, <1>4, CallForms DEF IInv, Body, Granted
  <2>3. /\ page \in PageRow /\ page.tab = t /\ page.mounted = pages[p].mounted
        /\ page.early = pages[p].early
        /\ page.phase = IF calls[c].body = "done" THEN "off"
                        ELSE IF pages[p].phase = "load" THEN "ask" ELSE "wait"
        /\ pages[p].phase = "ask" /\ pages[p].stopped => page.stopped
    BY <1>3, <2>2 DEF PageRow, Shown
  <2> HIDE DEF page
  <2>4. pages'[p] = page /\ \A q \in PageId \ {p} : pages'[q] = pages[q]
    BY <2>1 DEF IInv, PagesOK
  <2>5. PagesOK' /\ \A q \in PageId : PageKept(q)
    <3>1. PagesOK'
      BY <2>1, <2>3 DEF IInv, PagesOK
    <3>2. PageKept(p)
      BY <1>1, <2>3, <2>4 DEF PageKept
    <3>3. \A q \in PageId \ {p} : PageKept(q)
      BY <2>4 DEF PageKept
    <3> QED
      BY <3>1, <3>2, <3>3
  <2>6. \A d \in Call : d # c => calls'[d] = calls[d]
    BY <1>1, <2>1, SentCall, ForgottenCall DEF IInv
  <2>7. page.phase # "ask" => calls'[c] = None
    BY <1>1, <2>1, <2>4, ForgottenCall DEF IInv
  <2>8. LeftIsStopped'
    <3>1. /\ calls'[c] # None => page.phase \in {"load", "ask"}
          /\ page.phase = "load" => page.mounted \/ page.early
          /\ page.phase \in {"ask", "wait"} => page.mounted \/ page.stopped \/ page.early
      BY <1>3, <2>3, <2>7
    <3>2. ASSUME NEW q \in PageId
          PROVE  /\ calls'[<<q, "task">>] # None => pages'[q].phase \in {"load", "ask"}
                 /\ pages'[q].phase = "load" => pages'[q].mounted \/ pages'[q].early
                 /\ pages'[q].phase \in {"ask", "wait"} =>
                       pages'[q].mounted \/ pages'[q].stopped \/ pages'[q].early
      <4>1. CASE q = p
        BY <2>4, <3>1, <4>1
      <4>2. CASE q # p
        <5>1. calls'[<<q, "task">>] = calls[<<q, "task">>] /\ pages'[q] = pages[q]
          BY <2>4, <2>6, <4>2, CallsOfPages
        <5> QED
          BY <5>1 DEF IInv, LeftIsStopped, Pending
      <4> QED
        BY <4>1, <4>2
    <3> QED
      BY <3>2 DEF LeftIsStopped, Pending
  <2>9. CASE page.phase # "ask"
    BY <1>1, <2>1, <2>4, <2>5, <2>8, <2>9, ForgetStep
  <2>10. CASE page.phase = "ask"
    <3>1. /\ CallsOK' /\ ~Granted(c)'
      BY <1>1, <2>1, <2>4, <2>10, SentCall DEF IInv
    <3>2. /\ owner' = owner /\ live' = live /\ cookie' = cookie /\ UNCHANGED tabs
          /\ \A s \in live' : owner'[s] # None
      BY <1>1, <2>1 DEF IInv, SessionsAreKnown, server
    <3>3. \A q \in PageId : pages'[q].phase \in {"off", "load", "ask", "wait"}
      BY <2>5 DEF PagesOK, PageRow
    <3>4. TypeOK'
      BY <1>1, <2>1, <3>3 DEF IInv, TypeOK, server, tabs, counts
    <3> QED
      BY <1>1, <2>5, <2>6, <2>8, <3>1, <3>2, <3>4, OneCallKeeps DEF IInv
  <2> QED
    BY <2>9, <2>10
<1>5. CASE calls[c].code = "401"
  <2> DEFINE page == Failed(LeftBy(t)[p])
  <2>1. SignedOut(t) /\ Forget(c) /\ pages' = [LeftBy(t) EXCEPT ![p] = page]
    BY <1>1, <1>5 DEF ReceiveTask
  <2>2. /\ LeftBy(t) \in [PageId -> PageRow]
        /\ \A q \in PageId :
              /\ LeftBy(t)[q].tab = pages[q].tab
              /\ LeftBy(t)[q].mounted => pages[q].mounted /\ pages[q].tab # t
              /\ LeftBy(t)[q].phase \in {pages[q].phase, "off"}
              /\ pages[q].phase # "wait" => LeftBy(t)[q].phase = pages[q].phase
              /\ pages[q].early => LeftBy(t)[q].early
              /\ pages[q].stopped => LeftBy(t)[q].stopped
              /\ pages[q].mounted /\ ~LeftBy(t)[q].mounted =>
                    LeftBy(t)[q].stopped /\ (pages[q].phase = "load" => LeftBy(t)[q].early)
    BY <1>2, LeftPages DEF IInv
  <2>3. /\ page \in PageRow /\ page.tab = t /\ page.mounted = LeftBy(t)[p].mounted
        /\ page.phase = "off"
    BY <2>2 DEF Failed, PageRow
  <2> HIDE DEF page
  <2>4. pages'[p] = page /\ \A q \in PageId \ {p} : pages'[q] = LeftBy(t)[q]
    BY <2>1, <2>2
  <2>5. PagesOK'
    BY <2>1, <2>2, <2>3 DEF PagesOK
  <2>6. /\ calls'[c] = None /\ \A d \in Call : d # c => calls'[d] = calls[d]
    BY <1>1, <2>1, ForgottenCall DEF IInv
  <2>7. LeftIsStopped'
    <3>1. ASSUME NEW q \in PageId
          PROVE  /\ calls'[<<q, "task">>] # None => pages'[q].phase \in {"load", "ask"}
                 /\ pages'[q].phase = "load" => pages'[q].mounted \/ pages'[q].early
                 /\ pages'[q].phase \in {"ask", "wait"} =>
                       pages'[q].mounted \/ pages'[q].stopped \/ pages'[q].early
      <4>1. CASE q = p
        BY <2>3, <2>4, <2>6, <4>1
      <4>2. CASE q # p
        <5>1. calls'[<<q, "task">>] = calls[<<q, "task">>] /\ pages'[q] = LeftBy(t)[q]
          BY <2>4, <2>6, <4>2, CallsOfPages
        <5>2. /\ calls[<<q, "task">>] # None => pages[q].phase \in {"load", "ask"}
              /\ pages[q].phase = "load" => pages[q].mounted \/ pages[q].early
              /\ pages[q].phase \in {"ask", "wait"} =>
                    pages[q].mounted \/ pages[q].stopped \/ pages[q].early
          BY DEF IInv, LeftIsStopped, Pending
        <5> QED
          BY <2>2, <5>1, <5>2
      <4> QED
        BY <4>1, <4>2
    <3> QED
      BY <3>1 DEF LeftIsStopped, Pending
  <2>8. \A q \in PageId :
           /\ pages'[q].tab = pages[q].tab
           /\ pages'[q].mounted => pages[q].mounted /\ pages[q].tab # t
           /\ pages'[q].phase \in {pages[q].phase, "off"}
    BY <2>2, <2>3, <2>4
  <2>9. cookie' \in {cookie, None} /\ UNCHANGED <<server, counts>>
    BY <1>1
  <2> HIDE DEF t
  <2> QED
    BY <1>1, <1>2, <2>1, <2>5, <2>7, <2>8, <2>9, SignedOutStep
<1>6. CASE calls[c].code \notin {"200", "401"}
  <2>1. pages' = [pages EXCEPT ![p] = Failed(@)] /\ Forget(c) /\ UNCHANGED tabs
    BY <1>1, <1>6 DEF ReceiveTask
  <2>2. /\ Failed(pages[p]) \in PageRow /\ Failed(pages[p]).tab = t
        /\ Failed(pages[p]).mounted = pages[p].mounted /\ Failed(pages[p]).phase = "off"
    BY <1>3 DEF Failed, PageRow
  <2>3. pages'[p] = Failed(pages[p]) /\ \A q \in PageId \ {p} : pages'[q] = pages[q]
    BY <2>1 DEF IInv, PagesOK
  <2>4. PagesOK'
    BY <2>1, <2>2 DEF IInv, PagesOK
  <2>5. \A q \in PageId : PageKept(q)
    BY <2>2, <2>3 DEF PageKept
  <2>6. /\ calls'[c] = None /\ \A d \in Call : d # c => calls'[d] = calls[d]
    BY <1>1, <2>1, ForgottenCall DEF IInv
  <2>7. LeftIsStopped'
    <3>1. ASSUME NEW q \in PageId
          PROVE  /\ calls'[<<q, "task">>] # None => pages'[q].phase \in {"load", "ask"}
                 /\ pages'[q].phase = "load" => pages'[q].mounted \/ pages'[q].early
                 /\ pages'[q].phase \in {"ask", "wait"} =>
                       pages'[q].mounted \/ pages'[q].stopped \/ pages'[q].early
      <4>1. CASE q = p
        BY <2>2, <2>3, <2>6, <4>1
      <4>2. CASE q # p
        <5>1. calls'[<<q, "task">>] = calls[<<q, "task">>] /\ pages'[q] = pages[q]
          BY <2>3, <2>6, <4>2, CallsOfPages
        <5> QED
          BY <5>1 DEF IInv, LeftIsStopped, Pending
      <4> QED
        BY <4>1, <4>2
    <3> QED
      BY <3>1 DEF LeftIsStopped, Pending
  <2> QED
    BY <1>1, <2>1, <2>4, <2>5, <2>7, ForgetStep
<1> QED
  BY <1>4, <1>5, <1>6

LEMMA ReceiveCancelStep ==
    ASSUME IInv, NEW p \in PageId, ReceiveCancel(p)
    PROVE  IInv'
<1> DEFINE c == <<p, "cancel">>
           t == pages[p].tab
<1>1. /\ c \in Call /\ Pending(c) /\ calls[c].code # None /\ Forget(c)
      /\ UNCHANGED <<server, cookie, counts>>
  BY CallsOfPages DEF ReceiveCancel, Pending
<1>2. t \in Tab /\ ~Pending(<<t, "me">>)
  BY <1>1, PageCall
<1>3. /\ calls'[c] = None /\ (\A d \in Call : d # c => calls'[d] = calls[d]) /\ CallsEnd
  BY <1>1, ForgottenCall DEF IInv, CallsEnd
<1>4. CASE calls[c].code = "401"
  <2>1. SignedOut(t) /\ pages' = LeftBy(t)
    BY <1>1, <1>4 DEF ReceiveCancel
  <2>2. PagesOK' /\ LeftIsStopped'
    BY <1>2, <1>3, <2>1, LeftKeeps
  <2>3. \A q \in PageId :
           /\ pages'[q].tab = pages[q].tab
           /\ pages'[q].mounted => pages[q].mounted /\ pages[q].tab # t
           /\ pages'[q].phase \in {pages[q].phase, "off"}
    BY <1>2, <2>1, LeftPages DEF IInv
  <2> HIDE DEF t
  <2> QED
    BY <1>1, <1>2, <2>1, <2>2, <2>3, SignedOutStep
<1>5. CASE calls[c].code # "401"
  <2>1. /\ UNCHANGED tabs
        /\ \/ pages' = pages
           \/ /\ calls[c].code = "200"
              /\ \E troubled \in BOOLEAN : pages' =
                    [pages EXCEPT ![p] = [@ EXCEPT !.shown = calls[c].body, !.troubled = troubled]]
    <3>1. CASE calls[c].code = "200" /\ pages[p].mounted
      <4> DEFINE stale == pages[p].shown = "done" /\ calls[c].body = "running"
                 troubled == pages[p].troubled \/ stale
      <4>1. /\ UNCHANGED tabs
            /\ pages' = [pages EXCEPT ![p] =
                  [@ EXCEPT !.shown = calls[c].body, !.troubled = troubled]]
        BY <3>1 DEF ReceiveCancel
      <4>2. troubled \in BOOLEAN
        BY DEF IInv, PagesOK, PageRow
      <4> QED
        BY <3>1, <4>1, <4>2
    <3>2. CASE ~(calls[c].code = "200" /\ pages[p].mounted)
      BY <1>5, <3>2 DEF ReceiveCancel
    <3> QED
      BY <3>1, <3>2
  <2>2. PagesOK' /\ \A q \in PageId :
           /\ pages'[q].tab = pages[q].tab /\ pages'[q].mounted = pages[q].mounted
           /\ pages'[q].phase = pages[q].phase /\ pages'[q].stopped = pages[q].stopped
           /\ pages'[q].early = pages[q].early
    <3>1. CASE pages' = pages
      BY <3>1 DEF IInv, PagesOK
    <3>2. ASSUME NEW troubled \in BOOLEAN, calls[c].code = "200",
                 pages' = [pages EXCEPT ![p] = [@ EXCEPT !.shown = calls[c].body, !.troubled = troubled]]
          PROVE  PagesOK' /\ \A q \in PageId :
                    /\ pages'[q].tab = pages[q].tab /\ pages'[q].mounted = pages[q].mounted
                    /\ pages'[q].phase = pages[q].phase /\ pages'[q].stopped = pages[q].stopped
                    /\ pages'[q].early = pages[q].early
      <4> DEFINE page == [pages[p] EXCEPT !.shown = calls[c].body, !.troubled = troubled]
      <4>1. calls[c].body \in {"running", "done"}
        BY <1>1, <3>2, CallForms DEF IInv, Body, Granted
      <4>2. pages[p] \in PageRow
        BY DEF IInv, PagesOK
      <4>3. /\ page \in PageRow /\ page.tab = pages[p].tab /\ page.mounted = pages[p].mounted
            /\ page.phase = pages[p].phase /\ page.stopped = pages[p].stopped
            /\ page.early = pages[p].early
        BY <4>1, <4>2 DEF PageRow
      <4>4. pages' = [pages EXCEPT ![p] = page]
        BY <3>2
      <4> HIDE DEF page
      <4> QED
        BY <4>3, <4>4 DEF IInv, PagesOK
    <3> QED
      BY <2>1, <3>1, <3>2
  <2>3. \A q \in PageId : PageKept(q)
    BY <2>2 DEF PageKept
  <2>4. LeftIsStopped'
    <3>1. \A q \in PageId : calls'[<<q, "task">>] = calls[<<q, "task">>]
      BY <1>3, CallsOfPages
    <3> QED
      BY <2>2, <3>1 DEF IInv, LeftIsStopped, Pending
  <2> QED
    BY <1>1, <2>1, <2>2, <2>3, <2>4, ForgetStep
<1> QED
  BY <1>4, <1>5

-----------------------------------------------------------------------------
(* The invariant holds of every behaviour.                                 *)

LEMMA InitHolds == Init => IInv
<1> SUFFICES ASSUME Init
             PROVE  IInv
  OBVIOUS
<1>1. /\ calls = [c \in Call |-> None] /\ pages = [p \in PageId |-> NoPage] /\ NoPage \in PageRow
      /\ NoPage.phase = "off" /\ NoPage.mounted = FALSE
  BY DEF Init, NoPage, PageRow
<1>2. \A c \in Call : ~Pending(c) /\ ~Asked(c) /\ ~Granted(c)
  BY <1>1 DEF Pending, Asked, Granted
<1>3. TypeOK
  <2>1. acts \in 0..MaxActs /\ failures \in 0..MaxFailures
    BY BrowserAssumption DEF Init, BrowserAssumption
  <2> QED
    BY <1>1, <2>1 DEF Init, TypeOK
<1>4. PagesOK /\ CallsOK
  BY <1>1, <1>2 DEF PagesOK, CallsOK
<1>5. SessionsAreKnown /\ LoginsAreFresh
  BY <1>2, CallsOfTabs DEF Init, SessionsAreKnown, LoginsAreFresh
<1>6. StartIsAlone /\ PlacesMeanWhatTheySay
  BY <1>1, <1>2, CallsOfTabs, CallsOfPages DEF Init, StartIsAlone, PlacesMeanWhatTheySay
<1>7. IdentityIsCurrent /\ MeIsCurrent /\ WritesAreSigned
  BY <1>2 DEF Init, IdentityIsCurrent, MeIsCurrent, WritesAreSigned
<1>8. LeftIsStopped
  BY <1>1, <1>2, CallsOfPages DEF LeftIsStopped
<1> QED
  BY <1>3, <1>4, <1>5, <1>6, <1>7, <1>8 DEF IInv

LEMMA StepHolds == IInv /\ [Next]_vars => IInv'
<1> SUFFICES ASSUME IInv, [Next]_vars
             PROVE  IInv'
  OBVIOUS
<1>1. CASE UNCHANGED vars
  <2>1. TypeOK' /\ PagesOK' /\ CallsOK'
    BY <1>1 DEF vars, server, tabs, counts, IInv, TypeOK, PagesOK, CallsOK, Granted, Asked, Pending
  <2>2. SessionsAreKnown' /\ LoginsAreFresh' /\ StartIsAlone' /\ PlacesMeanWhatTheySay'
    BY <1>1 DEF vars, server, tabs, IInv, SessionsAreKnown, LoginsAreFresh, StartIsAlone,
                PlacesMeanWhatTheySay, Granted, Pending
  <2>3. IdentityIsCurrent' /\ MeIsCurrent' /\ WritesAreSigned' /\ LeftIsStopped'
    BY <1>1 DEF vars, server, tabs, IInv, IdentityIsCurrent, MeIsCurrent, WritesAreSigned,
                LeftIsStopped, Granted, Asked, Pending
  <2> QED
    BY <2>1, <2>2, <2>3 DEF IInv
<1>2. CASE Receive
  BY <1>2, ReceiveMeStep, ReceiveLoginStep, ReceiveLogoutStep, ReceiveTaskStep, ReceiveCancelStep
     DEF Receive
<1>3. CASE Serve
  BY <1>3, HandleStep, HandleLoginStep DEF Serve
<1> QED
  BY <1>1, <1>2, <1>3, StartStep, EnterStep, SignOutStep, LeavePageStep, SubmitLoginStep, OpenPageStep,
     TickStep, CancelTaskStep, BreakStep, EndStep DEF Next

LEMMA Invariance == Spec => []IInv
BY InitHolds, StepHolds, PTL DEF Spec

-----------------------------------------------------------------------------
(* What follows from it.                                                   *)

\* A write under way stays as it is, ends, or is refused.
NotGranted(c) == calls'[c] = calls[c] \/ calls'[c] = None \/ calls'[c].code # "200"

(* Only the handler of a write grants it.                                  *)
LEMMA OnlyHandleGrants ==
    ASSUME IInv, Next, NEW c \in Call, c[2] \in {"logout", "cancel"}, ~Handle(c)
    PROVE  NotGranted(c)
<1>1. ASSUME NEW d \in Call, NEW by \in User \cup {None}, NEW token \in Session \cup {None},
             Send(d, by, token), d[2] = "login" => by \in User
      PROVE  NotGranted(c)
  BY <1>1, SentCall, NoneAssumption DEF IInv, NotGranted, NoneAssumption
<1>2. ASSUME NEW d \in Call, Forget(d)
      PROVE  NotGranted(c)
  BY <1>2, ForgottenCall DEF IInv, NotGranted
<1>3. ASSUME NEW d \in Call, d # c, NEW code, NEW body, Answer(d, code, body)
      PROVE  NotGranted(c)
  BY <1>3 DEF Answer, NotGranted, IInv, CallsOK
<1>4. ASSUME UNCHANGED calls
      PROVE  NotGranted(c)
  BY <1>4 DEF NotGranted
<1>5. ASSUME NEW t \in Tab, Start(t)
      PROVE  NotGranted(c)
  BY <1>5, NoneAssumption DEF Start, Request, NotGranted, NoneAssumption
<1>6. ASSUME NEW t \in Tab, Enter(t) \/ LeavePage(t)
      PROVE  NotGranted(c)
  BY <1>4, <1>6 DEF Enter, LeavePage
<1>7. ASSUME NEW t \in Tab, SignOut(t)
      PROVE  NotGranted(c)
  <2>1. user[t] \in User \cup {None} /\ csrf[t] \in Session \cup {None}
    BY DEF IInv, TypeOK
  <2> QED
    BY <1>1, <1>7, <2>1, CallsOfTabs DEF SignOut
<1>8. ASSUME NEW t \in Tab, NEW u \in User, SubmitLogin(t, u)
      PROVE  NotGranted(c)
  BY <1>1, <1>8, CallsOfTabs DEF SubmitLogin
<1>9. ASSUME NEW t \in Tab, NEW p \in PageId, OpenPage(t, p)
      PROVE  NotGranted(c)
  BY <1>1, <1>9, CallsOfPages DEF OpenPage, AskTask
<1>10. ASSUME NEW p \in PageId, Tick(p)
       PROVE  NotGranted(c)
  BY <1>1, <1>4, <1>10, CallsOfPages DEF Tick, AskTask
<1>11. ASSUME NEW p \in PageId, CancelTask(p)
       PROVE  NotGranted(c)
  <2>1. user[pages[p].tab] \in User \cup {None} /\ csrf[pages[p].tab] \in Session \cup {None}
    BY <1>11 DEF CancelTask, IInv, TypeOK, PlacesMeanWhatTheySay
  <2> QED
    BY <1>1, <1>11, <2>1, CallsOfPages DEF CancelTask
<1>12. ASSUME NEW d \in Call, Handle(d)
       PROVE  NotGranted(c)
  BY <1>3, <1>12 DEF Handle
<1>13. ASSUME NEW t \in Tab, HandleLogin(t)
       PROVE  NotGranted(c)
  <2> DEFINE login == <<t, "login">>
  <2>1. login \in Call /\ login # c
    <3>1. login \in Call
      BY <1>13, CallsOfTabs
    <3>2. login[2] = "login"
      OBVIOUS
    <3> QED
      BY <3>1, <3>2
  <2>2. \E code, body : Answer(login, code, body)
    BY <1>13 DEF HandleLogin
  <2> QED
    BY <1>3, <2>1, <2>2
<1>14. ASSUME Receive
       PROVE  NotGranted(c)
  <2>1. ASSUME NEW t \in Tab, ReceiveMe(t) \/ ReceiveLogin(t) \/ ReceiveLogout(t)
        PROVE  NotGranted(c)
    BY <1>2, <2>1, CallsOfTabs DEF ReceiveMe, ReceiveLogin, ReceiveLogout
  <2>2. ASSUME NEW p \in PageId, ReceiveTask(p)
        PROVE  NotGranted(c)
    BY <1>1, <1>2, <2>2, CallsOfPages DEF ReceiveTask, AskTask
  <2>3. ASSUME NEW p \in PageId, ReceiveCancel(p)
        PROVE  NotGranted(c)
    BY <1>2, <2>3, CallsOfPages DEF ReceiveCancel
  <2> QED
    BY <1>14, <2>1, <2>2, <2>3 DEF Receive
<1>15. ASSUME NEW d \in Call, Break(d)
       PROVE  NotGranted(c)
  <2>1. Answer(d, "error", None)
    BY <1>15 DEF Break
  <2> QED
    BY <2>1, AnsweredCall DEF IInv, NotGranted
<1>16. ASSUME EndTask \/ \E s \in Session : EndSession(s)
       PROVE  NotGranted(c)
  BY <1>4, <1>16 DEF EndTask, EndSession
<1> QED
  BY <1>5, <1>6, <1>7, <1>8, <1>9, <1>10, <1>11, <1>12, <1>13, <1>14, <1>15, <1>16 DEF Next, Serve

(* A page that was not asking and asks now is mounted or was left early.   *)
LEMMA AskersAreThere ==
    ASSUME IInv, Next, NEW p \in PageId, pages[p].phase # "ask", pages'[p].phase = "ask"
    PROVE  pages[p].mounted \/ pages[p].early
<1>1. pages[p] \in PageRow
  BY DEF IInv, PagesOK
<1>2. ASSUME NEW t \in Tab, NEW q \in PageId, OpenPage(t, q)
      PROVE  FALSE
  BY <1>2 DEF OpenPage, NoPage, IInv, PagesOK
<1>3. ASSUME NEW q \in PageId, Tick(q)
      PROVE  pages[p].mounted \/ pages[p].early
  <2>1. p = q /\ pages[p].phase = "wait" /\ ~pages[p].stopped
    BY <1>3 DEF Tick, IInv, PagesOK, PageRow
  <2> QED
    BY <2>1 DEF IInv, LeftIsStopped
<1>4. ASSUME NEW q \in PageId, ReceiveTask(q)
      PROVE  pages[p].mounted \/ pages[p].early
  <2>1. /\ Pending(<<q, "task">>) /\ pages[q].tab \in Tab
        /\ pages[q].phase \in {"load", "ask"}
        /\ pages[q].phase = "load" => pages[q].mounted \/ pages[q].early
    BY <1>4 DEF ReceiveTask, Pending, IInv, PlacesMeanWhatTheySay, LeftIsStopped
  <2>2. \A o \in PageId : LeftBy(pages[q].tab)[o].phase \in {pages[o].phase, "off"}
    BY <2>1, LeftPages DEF IInv
  <2>3. LeftBy(pages[q].tab) \in [PageId -> PageRow]
    BY <2>1, LeftPages DEF IInv
  <2>4. CASE p # q
    <3>1. pages'[p].phase \in {pages[p].phase, "off"}
      BY <1>4, <2>2, <2>3, <2>4 DEF ReceiveTask, IInv, PagesOK
    <3> QED
      BY <3>1
  <2> QED
    BY <2>1, <2>4
<1>5. ASSUME NEW t \in Tab, pages' = LeftBy(t)
      PROVE  FALSE
  BY <1>5, LeftPages DEF IInv
<1>6. ASSUME pages' = pages
      PROVE  FALSE
  BY <1>6
<1>7. ASSUME NEW t \in Tab, Start(t)
      PROVE  FALSE
  BY <1>7 DEF Start, NoPage
<1>8. ASSUME NEW q \in PageId, ReceiveCancel(q)
      PROVE  FALSE
  <2>1. Pending(<<q, "cancel">>)
    BY <1>8 DEF ReceiveCancel, Pending
  <2>2. pages[q].tab \in Tab
    BY <2>1, PageCall
  <2>3. pages[q] \in PageRow
    BY DEF IInv, PagesOK
  <2>4. CASE pages' = LeftBy(pages[q].tab) \/ pages' = pages
    BY <1>5, <1>6, <2>2, <2>4
  <2>5. CASE calls[<<q, "cancel">>].code = "200" /\ pages[q].mounted
    <3>1. pages'[p].phase = pages[p].phase
      BY <1>8, <2>3, <2>5 DEF ReceiveCancel, IInv, PagesOK, PageRow
    <3> QED
      BY <3>1
  <2> QED
    BY <1>8, <2>4, <2>5 DEF ReceiveCancel
<1>9. CASE Receive
  BY <1>4, <1>5, <1>6, <1>8, <1>9 DEF Receive, ReceiveMe, ReceiveLogin, ReceiveLogout
<1>10. CASE Serve
  BY <1>6, <1>10 DEF Serve, Handle, HandleLogin
<1> QED
  BY <1>2, <1>3, <1>5, <1>6, <1>7, <1>9, <1>10 DEF Next, Enter, SignOut, LeavePage, SubmitLogin,
     CancelTask, Break, EndSession, EndTask

(* The types of the server's, the tabs' and the counters' values.          *)
THEOREM TypesHold == Spec => []TypeOK
<1>1. IInv => TypeOK
  BY DEF IInv
<1> QED
  BY <1>1, Invariance, PTL

(* A write the server accepts was sent by a tab that showed the owner of   *)
(* the session it is done in, whatever the other tabs did to the cookie.   *)
THEOREM WritesAreTheUsersOwn == Spec => NobodyActsAsAnother
<1>1. ASSUME IInv, Next, NEW c \in Call, c[2] \in {"logout", "cancel"},
             calls[c] # None, calls[c].code = None, calls'[c] # None, calls'[c].code = "200"
      PROVE  owner[calls[c].cookie] = calls[c].by
  <2>1. Asked(c)
    BY <1>1 DEF Asked, Pending
  <2>2. ~NotGranted(c)
    BY <1>1, NoneAssumption DEF NotGranted, NoneAssumption
  <2>3. Handle(c)
    BY <1>1, <2>2, OnlyHandleGrants
  <2>4. Refused(c) = None
    <3>1. ASSUME Refused(c) # None
          PROVE  FALSE
      <4>1. Refused(c) \in {"401", "403"} /\ Answer(c, Refused(c), None)
        BY <2>3, <3>1 DEF Handle, Refused
      <4>2. calls'[c].code = Refused(c)
        BY <1>1, <4>1, AnsweredCall DEF IInv
      <4> QED
        BY <1>1, <4>1, <4>2
    <3> QED
      BY <3>1
  <2>5. calls[c].cookie \in live /\ calls[c].csrf = calls[c].cookie
    BY <1>1, <2>4, NoneAssumption DEF Refused, NoneAssumption
  <2>6. calls[c].cookie # None
    BY <1>1, <2>5, NoneAssumption DEF IInv, TypeOK, NoneAssumption
  <2> QED
    BY <1>1, <2>1, <2>5, <2>6 DEF IInv, WritesAreSigned
<1>2. IInv /\ [Next]_vars =>
        [\A c \in Call :
            c[2] \in {"logout", "cancel"} /\ calls[c] # None /\ calls[c].code = None =>
               (calls'[c] # None /\ calls'[c].code = "200" =>
                   owner[calls[c].cookie] = calls[c].by)]_vars
  BY <1>1
<1> QED
  BY <1>2, Invariance, PTL DEF Spec, NobodyActsAsAnother

(* A page that was left asks no more, unless it was left before its first  *)
(* answer (polling.stop, createTaskPolling).                               *)
THEOREM OnlyEarlyLeaversAsk == Spec => LeftPagesAreQuiet
<1>1. IInv /\ [Next]_vars =>
        [\A p \in PageId : pages[p].phase # "ask" /\ pages'[p].phase = "ask" =>
            pages[p].mounted \/ pages[p].early]_vars
  BY AskersAreThere
<1> QED
  BY <1>1, Invariance, PTL DEF Spec, LeftPagesAreQuiet
=============================================================================
