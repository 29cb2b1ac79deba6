------------------------------- MODULE Browser --------------------------------
(***************************************************************************)
(* One browser with several tabs: the store of the identity (stores/auth), *)
(* the API client and its handling of 401, the guard of the router, and    *)
(* the detail page of a task with its polling; on the other side the       *)
(* session and CSRF checks of the server (auth/). Tabs share the cookie;   *)
(* each has its own CSRF token. Calls are answered in any order, and what  *)
(* a late answer does to a tab that has moved on is what matters here.     *)
(*                                                                         *)
(* A session is its number; its cookie and its CSRF token are that number. *)
(* The task is one that runs and ends, pending counting as running.        *)
(***************************************************************************)
EXTENDS Naturals

CONSTANTS
    User, None,
    MaxTabs,     \* bound: tabs of the browser
    MaxPages,    \* bound: openings of the task's page
    MaxSessions, \* bound: successful logins
    MaxActs,     \* bound: openings and reloads of tabs, logins and openings of
                 \*        the page, together
    MaxFailures  \* bound: failures of the network

ASSUME BrowserAssumption ==
    /\ MaxTabs \in Nat \ {0} /\ MaxPages \in Nat /\ MaxSessions \in Nat
    /\ MaxActs \in Nat /\ MaxFailures \in Nat
    /\ None \notin User

Tab == 1..MaxTabs
PageId == 1..MaxPages
Session == 1..MaxSessions
Call == (Tab \X {"me", "login", "logout"}) \cup (PageId \X {"task", "cancel"})

(* Nothing is None but None.                                               *)
ASSUME NoneAssumption ==
    None \notin Tab /\ None \notin Session /\ None \notin {"200", "401", "403", "error"}

VARIABLES
    owner,  \* the user each session was opened for, or None
    live,   \* the sessions that are stored, unexpired, of an active user
    task,   \* status of the task
    cookie, \* the session in the cookie jar, or None
    user,   \* useAuthStore().user of each tab
    csrf,   \* its csrfToken, also in sessionStorage
    place,  \* the route, or why there is none yet
    pages,  \* the mounted TaskDetailViews, and those that were
    calls,  \* apiRequest calls under way
    acts, failures \* the count of each bound

server == <<owner, live, task>>
tabs == <<user, csrf, place>>
counts == <<acts, failures>>
vars == <<server, cookie, tabs, pages, calls, counts>>

NoPage == [tab |-> None, mounted |-> FALSE, shown |-> None, phase |-> "off",
           stopped |-> TRUE, early |-> FALSE, troubled |-> FALSE]

Init ==
    /\ owner = [s \in Session |-> None] /\ live = {} /\ task = "running"
    /\ cookie = None
    /\ user = [t \in Tab |-> None] /\ csrf = user
    /\ place = [t \in Tab |-> "closed"]
    /\ pages = [p \in PageId |-> NoPage]
    /\ calls = [c \in Call |-> None]
    /\ acts = 0 /\ failures = 0

TabOf(c) == IF c[2] \in {"task", "cancel"} THEN pages[c[1]].tab ELSE c[1]

-----------------------------------------------------------------------------
(* apiRequest: the cookie goes with every call, the token with a write.    *)
(* `by` notes whom the tab showed at a write, or who logs in.              *)

Request(by, token) == [code |-> None, cookie |-> cookie, csrf |-> token, by |-> by]

Send(c, by, token) == calls' = [calls EXCEPT ![c] = Request(by, token)]

\* The page's own call: the task, at once and then every two seconds.
AskTask(p) == Send(<<p, "task">>, None, None)

Act == acts < MaxActs /\ acts' = acts + 1

\* A tab is opened, or reloaded: what ran in it is gone, sessionStorage is not.
Start(t) ==
    /\ Act
    /\ \A o \in Tab : o < t => place[o] # "closed"
    /\ user' = [user EXCEPT ![t] = None]
    /\ place' = [place EXCEPT ![t] = "start"]
    /\ pages' = [p \in PageId |->
          IF pages[p].tab = t THEN [NoPage EXCEPT !.tab = t] ELSE pages[p]]
    /\ calls' = [c \in Call |-> IF c = <<t, "me">> THEN Request(None, None)
                                ELSE IF TabOf(c) = t THEN None ELSE calls[c]]
    /\ UNCHANGED <<server, cookie, csrf, failures>>

SubmitLogin(t, u) ==
    /\ place[t] = "login" /\ calls[<<t, "login">>] = None
    /\ Send(<<t, "login">>, u, None)
    /\ UNCHANGED <<server, cookie, tabs, pages, counts>>

\* login has set the user and waits for the version; then router.replace.
Enter(t) ==
    /\ place[t] = "entering"
    /\ place' = [place EXCEPT ![t] = IF user[t] # None THEN "page" ELSE "login"]
    /\ UNCHANGED <<server, cookie, user, csrf, pages, calls, counts>>

SignOut(t) ==
    /\ place[t] = "page" /\ calls[<<t, "logout">>] = None
    /\ Send(<<t, "logout">>, user[t], csrf[t])
    /\ UNCHANGED <<server, cookie, tabs, pages, counts>>

-----------------------------------------------------------------------------
(* The page of the task and createTaskPolling.                             *)

\* onMounted: loadAll.
OpenPage(t, p) ==
    /\ Act
    /\ place[t] = "page" /\ user[t] # None
    /\ \A q \in PageId : ~(pages[q].tab = t /\ pages[q].mounted)
    /\ pages[p] = NoPage /\ \A q \in PageId : pages[q] = NoPage => p <= q
    /\ pages' = [pages EXCEPT ![p] = [NoPage EXCEPT !.tab = t, !.mounted = TRUE, !.phase = "load"]]
    /\ AskTask(p)
    /\ UNCHANGED <<server, cookie, tabs, failures>>

\* onBeforeUnmount: polling.stop(). `early`: left before loadAll was answered.
Unmounted(page) ==
    [page EXCEPT !.mounted = FALSE, !.stopped = TRUE, !.shown = None, !.troubled = FALSE,
                 !.phase = IF @ = "wait" THEN "off" ELSE @,
                 !.early = @ \/ page.phase = "load"]

LeftBy(t) == [p \in PageId |->
    IF pages[p].tab = t /\ pages[p].mounted THEN Unmounted(pages[p]) ELSE pages[p]]

LeavePage(t) ==
    /\ \E p \in PageId : pages[p].tab = t /\ pages[p].mounted
    /\ pages' = LeftBy(t)
    /\ UNCHANGED <<server, cookie, tabs, calls, counts>>

(* Broken variant: the timer asks without looking at `stopped`.            *)
TickUnchecked(p) ==
    /\ pages[p].phase = "wait"
    /\ pages' = [pages EXCEPT ![p].phase = "ask"] /\ AskTask(p)
    /\ UNCHANGED <<server, cookie, tabs, counts>>

\* The timer fires: tick.
Tick(p) ==
    /\ pages[p].phase = "wait"
    /\ IF pages[p].stopped THEN pages' = [pages EXCEPT ![p].phase = "off"] /\ UNCHANGED calls
       ELSE pages' = [pages EXCEPT ![p].phase = "ask"] /\ AskTask(p)
    /\ UNCHANGED <<server, cookie, tabs, counts>>

CancelTask(p) ==
    /\ pages[p].mounted /\ pages[p].shown = "running" /\ calls[<<p, "cancel">>] = None
    /\ Send(<<p, "cancel">>, user[pages[p].tab], csrf[pages[p].tab])
    /\ UNCHANGED <<server, cookie, tabs, pages, counts>>

-----------------------------------------------------------------------------
(* The server: require_session, require_csrf_session and the handlers.     *)

(* Broken variant: whoever has the cookie may write.                       *)
RefusedBySession(c) == IF calls[c].cookie \notin live THEN "401" ELSE None

Refused(c) ==
    IF calls[c].cookie \notin live THEN "401"
    ELSE IF c[2] \in {"logout", "cancel"} /\ calls[c].csrf # calls[c].cookie THEN "403"
    ELSE None

Answer(c, code, body) ==
    calls' = [calls EXCEPT ![c] = [code |-> code, body |-> body]]

Handle(c) ==
    /\ calls[c] # None /\ calls[c].code = None /\ c[2] # "login"
    /\ IF Refused(c) # None THEN Answer(c, Refused(c), None)
       ELSE Answer(c, "200", IF c[2] = "me" THEN owner[calls[c].cookie] ELSE task)
    /\ live' = IF c[2] = "logout" /\ Refused(c) = None THEN live \ {calls[c].cookie} ELSE live
    /\ UNCHANGED <<owner, task, cookie, tabs, pages, counts>>

\* POST /auth/login looks at no session; a password may be wrong.
HandleLogin(t) ==
    LET c == <<t, "login">> IN
    /\ calls[c] # None /\ calls[c].code = None
    /\ \/ /\ Answer(c, "401", None) /\ UNCHANGED <<owner, live, acts>>
       \/ /\ Act
          /\ \E s \in Session :
                /\ owner[s] = None /\ \A r \in Session : owner[r] = None => s <= r
                /\ owner' = [owner EXCEPT ![s] = calls[c].by]
                /\ live' = live \cup {s}
                /\ Answer(c, "200", s)
    /\ UNCHANGED <<task, cookie, tabs, pages, failures>>

\* It expires, the password changes, the user is deactivated.
EndSession(s) ==
    /\ s \in live /\ live' = live \ {s}
    /\ UNCHANGED <<owner, task, cookie, tabs, pages, calls, counts>>

EndTask ==
    /\ task = "running" /\ task' = "done"
    /\ UNCHANGED <<owner, live, cookie, tabs, pages, calls, counts>>

\* The answer, or the call itself, is lost: fetch throws.
Break(c) ==
    /\ calls[c] # None /\ calls[c].code # "error"
    /\ failures < MaxFailures /\ failures' = failures + 1
    /\ Answer(c, "error", None)
    /\ UNCHANGED <<server, cookie, tabs, pages, acts>>

-----------------------------------------------------------------------------
(* Answers.                                                                *)

Forget(c) == calls' = [calls EXCEPT ![c] = None]

\* clear(), and router.replace("/login") unless the tab is there.
SignedOut(t) ==
    /\ user' = [user EXCEPT ![t] = None]
    /\ csrf' = [csrf EXCEPT ![t] = None]
    /\ place' = [place EXCEPT ![t] = IF @ = "entering" THEN @ ELSE "login"]

\* The page's call has failed: tick throws, loadAll catches; either way it ends.
Failed(page) == [page EXCEPT !.phase = "off", !.troubled = TRUE]

\* restore.
ReceiveMe(t) ==
    LET c == <<t, "me">> IN
    /\ calls[c] # None /\ calls[c].code # None
    /\ IF calls[c].code = "200"
       THEN /\ user' = [user EXCEPT ![t] = calls[c].body]
            /\ place' = [place EXCEPT ![t] = "page"]
            /\ UNCHANGED csrf
       ELSE SignedOut(t)
    /\ Forget(c)
    /\ UNCHANGED <<server, cookie, pages, counts>>

\* login; the browser takes the cookie, whichever tab it came to.
ReceiveLogin(t) ==
    LET c == <<t, "login">>
        session == calls[c].body
    IN
    /\ calls[c] # None /\ calls[c].code # None
    /\ IF calls[c].code = "200"
       THEN /\ cookie' = session
            /\ user' = [user EXCEPT ![t] = owner[session]]
            /\ csrf' = [csrf EXCEPT ![t] = session]
            /\ place' = [place EXCEPT ![t] = "entering"]
       ELSE /\ IF calls[c].code = "401" THEN SignedOut(t) ELSE UNCHANGED tabs
            /\ UNCHANGED cookie
    /\ Forget(c)
    /\ UNCHANGED <<server, pages, counts>>

\* logout: the tab forgets its user whatever the answer is.
ReceiveLogout(t) ==
    LET c == <<t, "logout">> IN
    /\ calls[c] # None /\ calls[c].code # None
    /\ cookie' = IF calls[c].code = "200" THEN None ELSE cookie
    /\ SignedOut(t)
    /\ pages' = LeftBy(t)
    /\ Forget(c)
    /\ UNCHANGED <<server, counts>>

(* Broken variant: start() stops the polling after it has begun it.        *)
ShownStopped(page, status) ==
    [page EXCEPT !.shown = status,
                 !.phase = IF status = "done" THEN "off" ELSE IF @ = "load" THEN "ask" ELSE "wait"]

\* loadAll, then polling.start() with a tick at once; or a tick's answer.
Shown(page, status) ==
    [page EXCEPT !.shown = status,
                 !.phase = IF status = "done" THEN "off" ELSE IF @ = "load" THEN "ask" ELSE "wait",
                 !.stopped = IF page.phase = "load" THEN status = "done" ELSE @ \/ status = "done"]

ReceiveTask(p) ==
    LET c == <<p, "task">>
        t == pages[p].tab
    IN
    /\ calls[c] # None /\ calls[c].code # None
    /\ CASE calls[c].code = "200" ->
              /\ pages' = [pages EXCEPT ![p] = Shown(@, calls[c].body)]
              /\ IF pages'[p].phase = "ask" THEN AskTask(p) ELSE Forget(c)
              /\ UNCHANGED tabs
         [] calls[c].code = "401" ->
              /\ SignedOut(t)
              /\ pages' = [LeftBy(t) EXCEPT ![p] = Failed(@)]
              /\ Forget(c)
         [] OTHER ->
              /\ pages' = [pages EXCEPT ![p] = Failed(@)]
              /\ Forget(c) /\ UNCHANGED tabs
    /\ UNCHANGED <<server, cookie, counts>>

\* cancelTask. An answer older than what the page shows by now is shown all the same.
ReceiveCancel(p) ==
    LET c == <<p, "cancel">>
        t == pages[p].tab
        stale == pages[p].shown = "done" /\ calls[c].body = "running"
    IN
    /\ calls[c] # None /\ calls[c].code # None
    /\ CASE calls[c].code = "200" /\ pages[p].mounted ->
              /\ pages' = [pages EXCEPT ![p] =
                   [@ EXCEPT !.shown = calls[c].body, !.troubled = pages[p].troubled \/ stale]]
              /\ UNCHANGED tabs
         [] calls[c].code = "401" -> SignedOut(t) /\ pages' = LeftBy(t)
         [] OTHER -> UNCHANGED <<tabs, pages>>
    /\ Forget(c)
    /\ UNCHANGED <<server, cookie, counts>>

-----------------------------------------------------------------------------

Receive ==
    \/ \E t \in Tab : ReceiveMe(t) \/ ReceiveLogin(t) \/ ReceiveLogout(t)
    \/ \E p \in PageId : ReceiveTask(p) \/ ReceiveCancel(p)

Serve == (\E c \in Call : Handle(c)) \/ (\E t \in Tab : HandleLogin(t))

Next ==
    \/ \E t \in Tab :
          \/ Start(t) \/ Enter(t) \/ SignOut(t) \/ LeavePage(t)
          \/ \E u \in User : SubmitLogin(t, u)
          \/ \E p \in PageId : OpenPage(t, p)
    \/ \E p \in PageId : Tick(p) \/ CancelTask(p)
    \/ Serve \/ Receive
    \/ \E c \in Call : Break(c)
    \/ \E s \in Session : EndSession(s)
    \/ EndTask

(* Calls are answered and answers arrive, timers fire, and the task ends   *)
(* (TaskRun!RunSettles). Nobody has to click on anything.                  *)
Fairness ==
    /\ \A c \in Call : WF_vars(Handle(c))
    /\ \A p \in PageId : WF_vars(ReceiveTask(p)) /\ WF_vars(Tick(p))
    /\ WF_vars(EndTask)

Spec == Init /\ [][Next]_vars /\ Fairness

-----------------------------------------------------------------------------

TypeOK ==
    /\ owner \in [Session -> User \cup {None}] /\ live \subseteq Session
    /\ task \in {"running", "done"} /\ cookie \in Session \cup {None}
    /\ user \in [Tab -> User \cup {None}] /\ csrf \in [Tab -> Session \cup {None}]
    /\ place \in [Tab -> {"closed", "start", "login", "entering", "page"}]
    /\ \A p \in PageId : pages[p].phase \in {"off", "load", "ask", "wait"}
    /\ acts \in 0..MaxActs /\ failures \in 0..MaxFailures

(* Whatever other tabs do to the cookie meanwhile, reload or log in, a     *)
(* write that the server accepts is made in the name of the user whom the  *)
(* tab showed when it was sent.                                            *)
NobodyActsAsAnother ==
    [][\A c \in Call :
          c[2] \in {"logout", "cancel"} /\ calls[c] # None /\ calls[c].code = None =>
             (calls'[c] # None /\ calls'[c].code = "200" =>
                 owner[calls[c].cookie] = calls[c].by)]_vars

(* A page that was left asks no more, though a call was under way when it  *)
(* was left and its answer arms the timer again. The exception is a page   *)
(* left before its first answer, whose polling is begun only afterwards.   *)
LeftPagesAreQuiet ==
    [][\A p \in PageId : pages[p].phase # "ask" /\ pages'[p].phase = "ask" =>
          pages[p].mounted \/ pages[p].early]_vars

(* In the end every page that is still open shows how the task has ended,  *)
(* unless one of its calls failed or a late answer overwrote the status.   *)
PageSettles ==
    <>[](\A p \in PageId : pages[p].mounted => pages[p].shown = "done" \/ pages[p].troubled)
=============================================================================
