---------------------------- MODULE ProviderLogin ---------------------------
(***************************************************************************)
(* How a provider becomes and stays ready (src/wmadapter/service.py over   *)
(* browser/manager.py): the startup login, the watcher that waits for the  *)
(* user to sign in and then hands the profile from a headed to a headless  *)
(* browser, the logins requests make, interruptions by the loss of the     *)
(* browser, and shutdown.                                                  *)
(*                                                                         *)
(* Each action runs from one await to the next.  start, stop and restart   *)
(* of the browser hold the lifecycle lock throughout and are one step      *)
(* each; the handoff takes the lock several times.  A probe looks at the   *)
(* page once, and says CHAT_READY only when its last two looks saw the     *)
(* chat.  retry_login has no caller in the program and is left out.        *)
(***************************************************************************)
EXTENDS Integers, FiniteSets

CONSTANTS
  Providers,    \* the providers to consider
  Requests,     \* requests for this provider
  Retries,      \* restart_retries
  VerifyLooks,  \* probes of Qwen's verification loop
  Loss          \* the browser may be lost and launches may fail

ASSUME ProviderLoginAssumption ==
  /\ Providers \subseteq {"deepseek", "qwen"}
  /\ Retries \in Nat
  /\ VerifyLooks \in Nat \ {0}
  /\ Loss \in BOOLEAN

VARIABLES
  provider,  \* whose service this is; never changes
  auth,      \* auth_state
  ready,     \* ready
  browser,   \* the context the manager regards as live, by its mode
  deaf,      \* _disconnect_reported while live: no further loss is noticed
  headless,  \* the manager's mode for the next launch
  alive,     \* whose page still answers; the one a handoff opens is not claimed
  view,      \* what the provider's site shows
  startup,   \* the router's call of start()
  watcher,   \* the _watch_auth task
  req,       \* the requests
  phase,     \* of the application's lifespan
  trouble    \* history: a launch failed, Qwen's login page was closed or crashed,
             \* or the chat was shown and went away

manager == <<browser, deaf, headless, alive>>

loginVars == <<auth, ready, manager, view, startup, watcher, req, phase, trouble>>

allVars == <<loginVars, provider>>

Qwen == provider = "qwen"

AuthStates == {"STARTING", "AUTHENTICATING", "LOGIN_REQUIRED", "HANDOFF", "VERIFYING_SESSION",
               "READY", "LOGIN_INTERRUPTED", "ACCOUNT_SUSPENDED"}

\* "suspended" is recognised by DeepSeek's probe only.
Views == {"chat", "sign_in", "other", "suspended"}

SiteViews == IF Qwen THEN Views \ {"suspended"} ELSE Views

Locked == {"lookup", "page", "login", "send", "backoff"}

Owners == {"startup", "watcher", "handoff", "request"}

\* Where a task stands, with the streak of its probe and its looks so far.
StartupState == [pc : {"begin", "launch", "login", "done"}, seen : 0 .. 2, looks : 0 .. 1]

WatcherState ==
  [pc : {"off", "look", "stop", "start", "probe", "undo", "restore", "verify"},
   seen : 0 .. 2, streak : 0 .. 2, looks : 0 .. VerifyLooks]

RequestState == [pc : {"idle", "queued", "over"} \cup Locked,
                 tries : 0 .. Retries + 1, seen : 0 .. 2, looks : 0 .. 1]

ServiceTypeOK ==
  /\ auth \in AuthStates
  /\ ready \in BOOLEAN /\ deaf \in BOOLEAN /\ headless \in BOOLEAN /\ trouble \in BOOLEAN
  /\ browser \in {"down", "headed", "headless"}
  /\ alive \subseteq Owners
  /\ view \in Views
  /\ startup \in StartupState /\ watcher \in WatcherState
  /\ req \in [Requests -> RequestState]
  /\ phase \in {"up", "stopping", "down"}

LoginTypeOK == ServiceTypeOK /\ provider \in Providers

-----------------------------------------------------------------------------
(* Probes.                                                                 *)

Sees(a) == IF a \in alive THEN view ELSE "other"

\* _ready_probe_streak after one more look.
SeenBy(a, seen) == IF Sees(a) # "chat" THEN 0 ELSE IF seen < 2 THEN seen + 1 ELSE 2

\* The states _authenticate and the watcher set for a page not yet ready;
\* "other" stands for a challenge, an unknown page and a rate limit.
Pending(v) == IF v \in {"sign_in", "suspended"} THEN {"LOGIN_REQUIRED"}
              ELSE IF v = "chat" THEN {"AUTHENTICATING"}
              ELSE {"LOGIN_REQUIRED", "AUTHENTICATING"}

-----------------------------------------------------------------------------
(* The browser.                                                            *)

Mode == IF headless THEN "headless" ELSE "headed"

\* start() by the owner of page a: launches unless a browser is live.
Launch(a) ==
  /\ IF browser # "down" THEN alive' = alive \cup {a} /\ UNCHANGED <<browser, deaf>>
     ELSE browser' = Mode /\ alive' = {a} /\ deaf' = FALSE
  /\ UNCHANGED trouble

LaunchFails ==
  /\ Loss
  /\ browser = "down"
  /\ alive' = {}
  /\ trouble' = TRUE
  /\ UNCHANGED <<browser, deaf>>

Closed == browser' = "down" /\ alive' = {} /\ deaf' = FALSE

-----------------------------------------------------------------------------
(* start(), called once by the router.                                     *)

Begin ==
  /\ startup.pc = "begin"
  /\ auth' = "AUTHENTICATING"
  /\ startup' = [startup EXCEPT !.pc = "launch"]
  /\ UNCHANGED <<ready, manager, view, watcher, req, phase, trouble>>

NoWatcher == [pc |-> "off", seen |-> 0, streak |-> 0, looks |-> 0]

\* Mutant: the watcher is started in a terminal state.
StartWatcherAlways(state) == watcher' = [NoWatcher EXCEPT !.pc = "look"]

\* _start_auth_watcher
StartWatcher(state) ==
  watcher' = IF state \in {"LOGIN_INTERRUPTED", "ACCOUNT_SUSPENDED"} THEN watcher
             ELSE [NoWatcher EXCEPT !.pc = "look"]

StartLaunch ==
  /\ startup.pc = "launch"
  /\ Launch("startup")
  /\ startup' = [startup EXCEPT !.pc = "login"]
  /\ UNCHANGED <<auth, ready, headless, view, watcher, req, phase>>

\* The launch failed: the watcher starts and finds no page.
StartFails ==
  /\ startup.pc = "launch"
  /\ LaunchFails
  /\ ready' = FALSE
  /\ startup' = [startup EXCEPT !.pc = "done"]
  /\ StartWatcher(auth)
  /\ UNCHANGED <<auth, headless, view, req, phase>>

\* _authenticate looks twice.  A page without a chat fails the start; a
\* suspended account is recorded whatever happened meanwhile.
StartLook ==
  /\ startup.pc = "login"
  /\ LET seen == SeenBy("startup", startup.seen) IN
       IF startup.looks = 0
       THEN /\ startup' = [startup EXCEPT !.seen = seen, !.looks = 1]
            /\ UNCHANGED <<auth, ready, watcher, alive>>
       ELSE /\ startup' = [startup EXCEPT !.pc = "done"]
            /\ IF seen = 2
               THEN ready' = TRUE /\ auth' = "READY" /\ UNCHANGED <<watcher, alive>>
               ELSE /\ ready' = FALSE
                    /\ IF Sees("startup") = "suspended" THEN auth' = "ACCOUNT_SUSPENDED"
                       ELSE IF auth = "LOGIN_INTERRUPTED" THEN UNCHANGED auth
                       ELSE auth' \in Pending(Sees("startup"))
                    /\ StartWatcher(auth')
                    /\ alive' = IF "startup" \in alive THEN alive \cup {"watcher"} ELSE alive
  /\ UNCHANGED <<browser, deaf, headless, view, req, phase, trouble>>

-----------------------------------------------------------------------------
(* _watch_auth                                                             *)

\* The loop goes on only in a state that is not terminal, with a page.
CanWatch == /\ auth \notin {"LOGIN_INTERRUPTED", "ACCOUNT_SUSPENDED"}
            /\ "watcher" \in alive
            /\ browser # "down"

WatchEnds ==
  /\ watcher.pc = "look"
  /\ ~CanWatch
  /\ watcher' = NoWatcher
  /\ UNCHANGED <<auth, ready, manager, view, startup, req, phase, trouble>>

\* One iteration: the chat must be reported twice in a row to be handed off.
WatchLook ==
  /\ watcher.pc = "look"
  /\ CanWatch
  /\ LET seen == SeenBy("watcher", watcher.seen) IN
       \/ /\ view = "suspended"
          /\ auth' = "ACCOUNT_SUSPENDED"
          /\ watcher' = NoWatcher
       \/ /\ view # "suspended" /\ seen < 2
          /\ auth' \in Pending(view)
          /\ watcher' = [watcher EXCEPT !.seen = seen, !.streak = 0]
       \/ /\ seen = 2 /\ watcher.streak = 0
          /\ watcher' = [watcher EXCEPT !.seen = seen, !.streak = 1]
          /\ UNCHANGED auth
       \/ /\ seen = 2 /\ watcher.streak > 0
          /\ watcher' = [pc |-> IF headless THEN "verify" ELSE "stop",
                         seen |-> 0, streak |-> 2, looks |-> 0]
          /\ auth' = IF headless THEN "VERIFYING_SESSION" ELSE "HANDOFF"
  /\ UNCHANGED <<ready, manager, view, startup, req, phase, trouble>>

\* handoff_to_headless: the headed browser stops.  Its loss before that
\* cancels the watcher.
HandoffStop ==
  /\ watcher.pc = "stop"
  /\ Closed
  /\ headless' = TRUE
  /\ watcher' = [watcher EXCEPT !.pc = "start"]
  /\ UNCHANGED <<auth, ready, view, startup, req, phase, trouble>>

\* Closing the headed browser fails: the watcher ends with no browser.
HandoffStopFails ==
  /\ Loss
  /\ watcher.pc = "stop"
  /\ Closed
  /\ trouble' = TRUE
  /\ watcher' = NoWatcher
  /\ UNCHANGED <<auth, ready, headless, view, startup, req, phase>>

HandoffStart ==
  /\ watcher.pc = "start"
  /\ \/ Launch("handoff") /\ watcher' = [watcher EXCEPT !.pc = "probe", !.seen = 0, !.looks = 0]
     \/ LaunchFails /\ watcher' = [watcher EXCEPT !.pc = "undo"]
  /\ UNCHANGED <<auth, ready, headless, view, startup, req, phase>>

\* Mutant: every provider probes the new page once.
ProbeOnce == 1

\* auth_probe: Qwen's looks twice unless the first look is negative, the one
\* of DeepSeek once; both want CHAT_READY.
ProbeLooks == IF Qwen THEN 2 ELSE 1

HandoffProbe ==
  /\ watcher.pc = "probe"
  /\ LET seen == SeenBy("handoff", watcher.seen) IN
       \/ /\ seen = 2
          /\ watcher' = [NoWatcher EXCEPT !.pc = "verify"]
          /\ auth' = "VERIFYING_SESSION"
       \/ /\ seen = 1 /\ watcher.looks + 1 < ProbeLooks
          /\ watcher' = [watcher EXCEPT !.seen = 1, !.looks = 1]
          /\ UNCHANGED auth
       \/ /\ seen < 2 /\ (seen = 0 \/ watcher.looks + 1 >= ProbeLooks)
          /\ watcher' = [watcher EXCEPT !.pc = "undo"]
          /\ UNCHANGED auth
  /\ UNCHANGED <<ready, manager, view, startup, req, phase, trouble>>

\* A failed handoff stops the headless browser, restores a headed one and
\* ends the watcher with its exception.
HandoffUndo ==
  /\ watcher.pc = "undo"
  /\ Closed
  /\ headless' = FALSE
  /\ watcher' = [watcher EXCEPT !.pc = "restore"]
  /\ UNCHANGED <<auth, ready, view, startup, req, phase, trouble>>

HandoffRestore ==
  /\ watcher.pc = "restore"
  /\ Launch("handoff") \/ LaunchFails
  /\ watcher' = NoWatcher
  /\ UNCHANGED <<auth, ready, headless, view, startup, req, phase>>

\* Verification, of the claimed page if there is one: Qwen looks until the chat
\* was reported twice in a row, for some looks, and goes on with this probe;
\* DeepSeek looks once with a probe of its own.
Verify ==
  /\ watcher.pc = "verify"
  /\ LET seen == SeenBy(IF "watcher" \in alive THEN "watcher" ELSE "handoff", watcher.seen)
         looks == IF Qwen THEN VerifyLooks ELSE 1
     IN IF seen = 2 /\ (~Qwen \/ watcher.streak = 1)
        THEN ready' = TRUE /\ auth' = "READY" /\ watcher' = NoWatcher
        ELSE /\ watcher' = IF watcher.looks + 1 < looks
                           THEN [watcher EXCEPT !.seen = seen, !.looks = @ + 1,
                                                !.streak = IF seen = 2 THEN 1 ELSE 0]
                           ELSE [pc |-> "look", seen |-> IF Qwen THEN seen ELSE 2,
                                 streak |-> 2, looks |-> 0]
             /\ UNCHANGED <<ready, auth>>
  /\ UNCHANGED <<manager, view, startup, req, phase, trouble>>

-----------------------------------------------------------------------------
(* complete                                                                *)

\* Mutant: requests are admitted before the provider is ready.
AdmitUnready(r) ==
  /\ phase = "up"
  /\ req[r].pc = "idle"
  /\ req' = [req EXCEPT ![r].pc = "queued"]
  /\ UNCHANGED <<auth, ready, manager, view, startup, watcher, phase, trouble>>

\* _require_provider_ready, then the wait for the request lock.
Admit(r) ==
  /\ phase = "up"
  /\ req[r].pc = "idle"
  /\ ready
  /\ req' = [req EXCEPT ![r].pc = "queued"]
  /\ UNCHANGED <<auth, ready, manager, view, startup, watcher, phase, trouble>>

\* Mutant: the request lock is not waited for.
GetLockTaken(r) ==
  /\ req[r].pc = "queued"
  /\ req' = [req EXCEPT ![r].pc = "lookup", ![r].tries = Retries + 1]
  /\ UNCHANGED <<auth, ready, manager, view, startup, watcher, phase, trouble>>

GetLock(r) ==
  /\ req[r].pc = "queued"
  /\ \A other \in Requests : req[other].pc \notin Locked
  /\ req' = [req EXCEPT ![r].pc = "lookup", ![r].tries = Retries + 1]
  /\ UNCHANGED <<auth, ready, manager, view, startup, watcher, phase, trouble>>

\* The except clause of an attempt: an interrupted login or a login failure
\* makes the provider unready and is not retried.
AttemptFails(r, login) ==
  LET stops == login \/ auth = "LOGIN_INTERRUPTED" IN
  /\ ready' = (ready /\ ~stops)
  /\ req' = [req EXCEPT ![r].pc = IF stops \/ req[r].tries = 1 THEN "over" ELSE "backoff"]

\* _page_for_conversation refuses while the login is interrupted.
Lookup(r) ==
  /\ req[r].pc = "lookup"
  /\ IF auth = "LOGIN_INTERRUPTED" THEN AttemptFails(r, TRUE)
     ELSE req' = [req EXCEPT ![r].pc = "page"] /\ UNCHANGED ready
  /\ UNCHANGED <<auth, manager, view, startup, watcher, phase, trouble>>

\* The conversation's open page, or one of a live or launched browser; then
\* DeepSeek always logs in, Qwen when it is not ready.
GetPage(r) ==
  /\ req[r].pc = "page"
  /\ IF "request" \in alive THEN UNCHANGED <<browser, deaf, alive, trouble>> ELSE Launch("request")
  /\ IF Qwen /\ ready THEN req' = [req EXCEPT ![r].pc = "send"] /\ UNCHANGED auth
     ELSE /\ req' = [req EXCEPT ![r].pc = "login", ![r].seen = 0, ![r].looks = 0]
          /\ auth' = "AUTHENTICATING"
  /\ UNCHANGED <<ready, headless, view, startup, watcher, phase>>

\* No browser could be launched, or the one that is live is not there any more.
PageFails(r) ==
  /\ req[r].pc = "page"
  /\ "request" \notin alive
  /\ \/ LaunchFails
     \/ deaf /\ UNCHANGED <<browser, deaf, alive, trouble>>
  /\ AttemptFails(r, FALSE)
  /\ UNCHANGED <<auth, headless, view, startup, watcher, phase>>

\* _authenticate: two looks.  DeepSeek's messages for a signed-out and for a
\* suspended account carry none of the markers of a login failure.
LoginFailure(v) == Qwen \/ v \notin {"sign_in", "suspended"}

RequestLogin(r) ==
  /\ req[r].pc = "login"
  /\ LET seen == SeenBy("request", req[r].seen) IN
       IF req[r].looks = 0
       THEN req' = [req EXCEPT ![r].seen = seen, ![r].looks = 1] /\ UNCHANGED <<auth, ready>>
       ELSE IF seen = 2
       THEN ready' = TRUE /\ auth' = "READY" /\ req' = [req EXCEPT ![r].pc = "send"]
       ELSE /\ IF auth = "LOGIN_INTERRUPTED" THEN UNCHANGED auth
               ELSE auth' \in Pending(Sees("request"))
            /\ AttemptFails(r, LoginFailure(Sees("request")))
  /\ UNCHANGED <<manager, view, startup, watcher, phase, trouble>>

\* The turn is answered or its submission is uncertain; or it fails, with a
\* message that reads like a login failure or not.
Send(r) ==
  /\ req[r].pc = "send"
  /\ \/ req' = [req EXCEPT ![r].pc = "over"] /\ UNCHANGED ready
     \/ \E login \in BOOLEAN : AttemptFails(r, login)
  /\ UNCHANGED <<auth, manager, view, startup, watcher, phase, trouble>>

Retry(r) ==
  /\ req[r].pc = "backoff"
  /\ \/ /\ browser' = Mode /\ alive' = {} /\ deaf' = FALSE /\ UNCHANGED trouble
        /\ req' = [req EXCEPT ![r].pc = "lookup", ![r].tries = @ - 1]
     \/ /\ Loss /\ Closed /\ trouble' = TRUE
        /\ req' = [req EXCEPT ![r].pc = "over"]
  /\ UNCHANGED <<auth, ready, headless, view, startup, watcher, phase>>

-----------------------------------------------------------------------------
(* Interruption and shutdown.                                              *)

\* task.cancel() on the watcher: it ends at its await; inside the handoff the
\* cancellation undoes what was started.
Cancelled == IF watcher.pc \in {"start", "probe"} THEN [watcher EXCEPT !.pc = "undo"]
             ELSE IF watcher.pc \in {"undo", "restore"} THEN watcher
             ELSE NoWatcher

Interruptible == {"STARTING", "AUTHENTICATING", "LOGIN_REQUIRED", "HANDOFF", "VERIFYING_SESSION"}

\* _on_browser_disconnect
Interrupt ==
  IF auth \in Interruptible THEN auth' = "LOGIN_INTERRUPTED" /\ watcher' = Cancelled
  ELSE UNCHANGED <<auth, watcher>>

\* The browser is lost, or a page closes that the manager takes for it, which
\* leaves others open: the page of DeepSeek's login or of a handoff, which is
\* primary or nobody's, or the blank launch page next to Qwen's.
BrowserLost ==
  /\ Loss
  /\ browser # "down" /\ ~deaf
  /\ browser' = "down"
  /\ alive' \in SUBSET alive
  /\ Interrupt
  /\ UNCHANGED <<ready, deaf, headless, view, startup, req, phase, trouble>>

\* Such a page crashes: the browser counts as live, and its end will not be
\* noticed.
PageCrashed ==
  /\ Loss
  /\ browser # "down" /\ ~deaf
  /\ deaf' = TRUE
  /\ alive' \in SUBSET alive
  /\ Interrupt
  /\ UNCHANGED <<ready, browser, headless, view, startup, req, phase, trouble>>

\* The pages of conversations and of Qwen's login are secondary pages.
Secondary == IF Qwen THEN {"startup", "watcher", "request"} ELSE {"request"}

\* One of them closes or crashes: the manager forgets the page and tells nobody,
\* so that a login goes on without its page.
SecondaryPageGone ==
  /\ Loss
  /\ \E a \in alive \cap Secondary :
       /\ alive' = alive \ (IF a = "request" THEN {a} ELSE {"startup", "watcher"})
       /\ trouble' = (trouble \/ a # "request")
  /\ UNCHANGED <<auth, ready, browser, deaf, headless, view, startup, watcher, req, phase>>

\* lifespan: the startup task and the watcher are cancelled, the browser is
\* stopped, the provider is not ready, and at last the jobs are cancelled.
StopBrowser ==
  /\ phase = "up"
  /\ phase' = "stopping"
  /\ startup' = [startup EXCEPT !.pc = "done"]
  /\ watcher' = Cancelled
  /\ Closed
  /\ ready' = FALSE
  /\ UNCHANGED <<auth, headless, view, req, trouble>>

CancelJobs ==
  /\ phase = "stopping"
  /\ phase' = "down"
  /\ req' = [r \in Requests |-> [req[r] EXCEPT !.pc = "over"]]
  /\ UNCHANGED <<auth, ready, manager, view, startup, watcher, trouble>>

\* The user signs in.
SignIn ==
  /\ view \in {"sign_in", "other"}
  /\ view' = "chat"
  /\ UNCHANGED <<auth, ready, manager, startup, watcher, req, phase, trouble>>

\* The site shows something else: a challenge, the login form, a suspension.
SiteChanges ==
  /\ view' \in SiteViews \ {"chat", view}
  /\ trouble' = (trouble \/ view = "chat")
  /\ UNCHANGED <<auth, ready, manager, startup, watcher, req, phase>>

-----------------------------------------------------------------------------

LoginInit ==
  /\ provider \in Providers
  /\ auth = "STARTING" /\ ready = FALSE
  /\ browser = "down" /\ deaf = FALSE /\ headless \in BOOLEAN /\ alive = {}
  /\ view \in SiteViews
  /\ startup = [pc |-> "begin", seen |-> 0, looks |-> 0]
  /\ watcher = NoWatcher
  /\ req = [r \in Requests |-> [pc |-> "idle", tries |-> 0, seen |-> 0, looks |-> 0]]
  /\ phase = "up"
  /\ trouble = FALSE

Startup == Begin \/ StartLaunch \/ StartFails \/ StartLook

Watcher == \/ WatchEnds \/ WatchLook \/ Verify
           \/ HandoffStop \/ HandoffStopFails \/ HandoffStart \/ HandoffProbe \/ HandoffUndo \/ HandoffRestore

Request(r) == \/ GetLock(r) \/ Lookup(r) \/ GetPage(r) \/ PageFails(r)
              \/ RequestLogin(r) \/ Send(r) \/ Retry(r)

LoginNext ==
  \/ Startup \/ Watcher
  \/ \E r \in Requests : Admit(r) \/ Request(r)
  \/ BrowserLost \/ PageCrashed \/ SecondaryPageGone \/ StopBrowser \/ CancelJobs
  \/ SignIn \/ SiteChanges

LoginStep == LoginNext /\ UNCHANGED provider

LoginSpec == LoginInit /\ [][LoginStep]_allVars

\* The event loop runs every task that is not waiting.  Nothing obliges the
\* user to sign in.
LoginFairSpec == /\ LoginSpec
                 /\ WF_loginVars(Startup) /\ WF_loginVars(Watcher)
                 /\ \A r \in Requests : WF_loginVars(Request(r))

-----------------------------------------------------------------------------

\* The handoff never takes the browser away from a request: requests are
\* admitted only by a ready provider, and a watcher only runs for one that has
\* not been ready yet.  Nothing but this order keeps the two apart.
WatcherExcludesRequests ==
  watcher.pc # "off" => \A r \in Requests : req[r].pc \in {"idle", "over"}

\* An interruption cancels the watcher; it may still put back the browser.
InterruptionEndsWatcher ==
  auth = "LOGIN_INTERRUPTED" => watcher.pc \in {"off", "undo", "restore"}

\* Whose time it is.
Stage == IF startup.pc # "done" THEN "startup"
         ELSE IF watcher.pc # "off" THEN "watcher"
         ELSE IF (ready /\ phase = "up") \/ \E r \in Requests : req[r].pc \notin {"idle", "over"}
         THEN "requests"
         ELSE "nobody"

Use == INSTANCE BrowserUse WITH
         stage <- Stage, holders <- {r \in Requests : req[r].pc \in Locked}

\* The service implements BrowserUse: startup, watcher and requests use the
\* browser one after the other and never again, whoever is cancelled, refused
\* or left without it; nobody else opens it or finds the provider ready.
ImplementsBrowserUse == Use!Spec

SignedIn == watcher.pc # "off" /\ view = "chat"

ReadyOrExcused ==
  ready \/ trouble \/ phase # "up" \/ auth \in {"LOGIN_INTERRUPTED", "ACCOUNT_SUSPENDED"}

\* Once the user has signed in under a running watcher the provider becomes
\* ready, unless the login is interrupted, the account suspended, a browser
\* cannot be started, the chat goes away again or the gateway stops; or Qwen's
\* login page is closed or crashes, which ends the watcher and is not reported
\* as an interruption.
SignInMakesReady == SignedIn ~> ReadyOrExcused

\* The same of Qwen alone.
QwenSignInMakesReady == Qwen /\ SignedIn ~> ReadyOrExcused

=============================================================================
