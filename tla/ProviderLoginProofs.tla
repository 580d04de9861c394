------------------------- MODULE ProviderLoginProofs ------------------------
(***************************************************************************)
(* Proofs about ProviderLogin for any set of requests, any number of       *)
(* retries and verification looks, and both providers: its types, that the *)
(* watcher and the requests exclude each other, that an interrupted login  *)
(* has no watcher that goes on, that the browser is used as BrowserUse     *)
(* says, and that requests are bounded.                                    *)
(***************************************************************************)
EXTENDS ProviderLogin, TLAPS

\* A request that holds the lock has an attempt left, and one in its backoff
\* has another after it.
AttemptsLeft ==
  \A r \in Requests : /\ req[r].pc \in Locked => req[r].tries >= 1
                      /\ req[r].pc = "backoff" => req[r].tries >= 2

(***************************************************************************)
(* The strengthening of WatcherExcludesRequests.  No lock keeps the        *)
(* watcher from the requests: while the startup or the watcher has not     *)
(* ended the provider was never ready, so no request was admitted; and the *)
(* watcher, which only the startup starts, is the last to end.             *)
(***************************************************************************)
NotYetServing == ~ready /\ \A r \in Requests : req[r].pc \in {"idle", "over"}

StartupBeforeWatcher == watcher.pc # "off" => startup.pc = "done"

ServingComesLast == watcher.pc # "off" \/ startup.pc # "done" => NotYetServing

TInv == ServiceTypeOK /\ AttemptsLeft

EInv == StartupBeforeWatcher /\ ServingComesLast /\ InterruptionEndsWatcher

-----------------------------------------------------------------------------
(* Facts about the operators.                                              *)

\* A streak stays between 0 and 2.
LEMMA SeenByType ==
  ASSUME NEW a, NEW seen \in 0 .. 2
  PROVE  SeenBy(a, seen) \in 0 .. 2
BY DEF SeenBy

\* The states set for a page that is not ready are states, and not terminal.
LEMMA PendingType ==
  ASSUME NEW v
  PROVE  Pending(v) \subseteq AuthStates \ {"LOGIN_INTERRUPTED", "ACCOUNT_SUSPENDED", "READY"}
BY DEF Pending, AuthStates

LEMMA NoWatcherType == NoWatcher \in WatcherState /\ [NoWatcher EXCEPT !.pc = "look"] \in WatcherState
                       /\ [NoWatcher EXCEPT !.pc = "verify"] \in WatcherState
BY ProviderLoginAssumption DEF NoWatcher, WatcherState

\* Updating fields of the watcher and the startup.
LEMMA WatcherUpdate ==
  ASSUME watcher \in WatcherState, NEW seen \in 0 .. 2, NEW streak \in 0 .. 2,
         NEW looks \in 0 .. VerifyLooks,
         NEW pc \in {"off", "look", "stop", "start", "probe", "undo", "restore", "verify"}
  PROVE  /\ [watcher EXCEPT !.pc = pc] \in WatcherState
         /\ [watcher EXCEPT !.seen = seen, !.streak = streak] \in WatcherState
         /\ [watcher EXCEPT !.seen = seen, !.looks = looks] \in WatcherState
         /\ [watcher EXCEPT !.seen = seen, !.looks = looks, !.streak = streak] \in WatcherState
         /\ [watcher EXCEPT !.pc = pc, !.seen = seen, !.looks = looks] \in WatcherState
         /\ [pc |-> pc, seen |-> seen, streak |-> streak, looks |-> looks] \in WatcherState
BY DEF WatcherState

LEMMA StartupUpdate ==
  ASSUME NEW s \in StartupState, NEW seen \in 0 .. 2, NEW looks \in 0 .. 1,
         NEW pc \in {"begin", "launch", "login", "done"}
  PROVE  /\ [s EXCEPT !.pc = pc] \in StartupState
         /\ [s EXCEPT !.seen = seen, !.looks = looks] \in StartupState
<1>1. [s EXCEPT !.pc = pc] \in StartupState
  BY DEF StartupState
<1>2. [s EXCEPT !.seen = seen, !.looks = looks] \in StartupState
  BY DEF StartupState
<1> QED
  BY <1>1, <1>2

\* A cancelled watcher has ended or puts the browser back.
LEMMA CancelledType ==
  ASSUME watcher \in WatcherState
  PROVE  /\ Cancelled.pc \in {"off", "undo", "restore"}
         /\ Cancelled.pc # "off" => watcher.pc # "off"
         /\ Cancelled \in WatcherState
BY NoWatcherType DEF WatcherState, Cancelled, NoWatcher

\* start() leaves the manager well typed whether it succeeds or fails.
LEMMA LaunchTypes ==
  ASSUME ServiceTypeOK, NEW a \in Owners, Launch(a) \/ LaunchFails
  PROVE  /\ browser' \in {"down", "headed", "headless"} /\ deaf' \in BOOLEAN
         /\ alive' \subseteq Owners /\ trouble' \in BOOLEAN
BY DEF ServiceTypeOK, Launch, LaunchFails, Mode, Owners

-----------------------------------------------------------------------------
(* Types.                                                                  *)

LEMMA InitTypes == LoginInit => TInv
<1> SUFFICES ASSUME LoginInit PROVE TInv
  OBVIOUS
<1>1. startup \in StartupState
  BY DEF LoginInit, StartupState
<1>2. watcher \in WatcherState
  BY NoWatcherType DEF LoginInit
<1>3. req \in [Requests -> RequestState]
  BY ProviderLoginAssumption DEF LoginInit, RequestState
<1>4. AttemptsLeft
  BY DEF LoginInit, AttemptsLeft, Locked
<1> QED
  BY <1>1, <1>2, <1>3, <1>4 DEF LoginInit, TInv, ServiceTypeOK, AuthStates, SiteViews

LEMMA StartupTypes ==
  ASSUME TInv, Startup
  PROVE  TInv'
<1>1. startup' \in StartupState
  <2>1. SeenBy("startup", startup.seen) \in 0 .. 2
    BY SeenByType DEF TInv, ServiceTypeOK, StartupState
  <2>2. 1 \in 0 .. 1
    OBVIOUS
  <2>3. /\ [startup EXCEPT !.pc = "launch"] \in StartupState
        /\ [startup EXCEPT !.pc = "login"] \in StartupState
        /\ [startup EXCEPT !.pc = "done"] \in StartupState
        /\ [startup EXCEPT !.seen = SeenBy("startup", startup.seen), !.looks = 1] \in StartupState
    BY <2>1, <2>2, StartupUpdate DEF TInv, ServiceTypeOK
  <2> QED
    BY <2>3 DEF Startup, Begin, StartLaunch, StartFails, StartLook
<1>2. watcher' \in WatcherState
  BY NoWatcherType
  DEF Startup, Begin, StartLaunch, StartFails, StartLook, StartWatcher, TInv, ServiceTypeOK
<1>3. auth' \in AuthStates /\ ready' \in BOOLEAN
  BY PendingType
  DEF Startup, Begin, StartLaunch, StartFails, StartLook, TInv, ServiceTypeOK, AuthStates
<1>4. /\ browser' \in {"down", "headed", "headless"} /\ deaf' \in BOOLEAN
      /\ alive' \subseteq Owners /\ trouble' \in BOOLEAN
  <2>1. CASE StartLaunch \/ StartFails
    <3>1. "startup" \in Owners /\ (Launch("startup") \/ LaunchFails)
      BY <2>1 DEF StartLaunch, StartFails, Owners
    <3> QED
      BY <3>1, LaunchTypes DEF TInv
  <2>2. CASE Begin \/ StartLook
    BY <2>2 DEF Begin, StartLook, TInv, ServiceTypeOK, manager, Owners
  <2> QED
    BY <2>1, <2>2 DEF Startup
<1> QED
  BY <1>1, <1>2, <1>3, <1>4
  DEF Startup, Begin, StartLaunch, StartFails, StartLook, TInv, ServiceTypeOK, AttemptsLeft, manager

LEMMA WatcherTypes ==
  ASSUME TInv, Watcher
  PROVE  TInv'
<1> USE DEF WatchEnds, HandoffStop, HandoffStopFails, HandoffStart, HandoffUndo, HandoffRestore
<1>1. SeenBy("watcher", watcher.seen) \in 0 .. 2
  BY SeenByType DEF TInv, ServiceTypeOK, WatcherState
<1>2. watcher' \in WatcherState
  <2>0. 0 \in 0 .. VerifyLooks /\ 1 \in 0 .. VerifyLooks /\ 0 \in 0 .. 2 /\ 1 \in 0 .. 2 /\ 2 \in 0 .. 2
    BY ProviderLoginAssumption
  <2>1. CASE WatchLook
    <3> DEFINE seen == SeenBy("watcher", watcher.seen)
    <3>1. /\ [watcher EXCEPT !.seen = seen, !.streak = 0] \in WatcherState
          /\ [watcher EXCEPT !.seen = seen, !.streak = 1] \in WatcherState
          /\ [pc |-> "verify", seen |-> 0, streak |-> 2, looks |-> 0] \in WatcherState
          /\ [pc |-> "stop", seen |-> 0, streak |-> 2, looks |-> 0] \in WatcherState
      BY <2>0, <1>1, WatcherUpdate DEF TInv, ServiceTypeOK
    <3> HIDE DEF seen
    <3> QED
      BY <2>1, <3>1, NoWatcherType DEF WatchLook, seen
  <2>2. CASE HandoffProbe
    <3>1. /\ [watcher EXCEPT !.seen = 1, !.looks = 1] \in WatcherState
          /\ [watcher EXCEPT !.pc = "undo"] \in WatcherState
      BY <2>0, WatcherUpdate DEF TInv, ServiceTypeOK
    <3> QED
      BY <2>2, <3>1, NoWatcherType DEF HandoffProbe
  <2>3. CASE Verify
    <3> DEFINE seen == SeenBy(IF "watcher" \in alive THEN "watcher" ELSE "handoff", watcher.seen)
    <3>1. seen \in 0 .. 2
      BY <2>0, SeenByType DEF TInv, ServiceTypeOK, WatcherState
    <3>2. watcher.looks + 1 < VerifyLooks => watcher.looks + 1 \in 0 .. VerifyLooks
      BY ProviderLoginAssumption DEF TInv, ServiceTypeOK, WatcherState
    <3>3. ~(watcher.looks + 1 < 1)
      BY ProviderLoginAssumption DEF TInv, ServiceTypeOK, WatcherState
    <3>4. ASSUME watcher.looks + 1 < VerifyLooks
          PROVE  [watcher EXCEPT !.seen = seen, !.looks = watcher.looks + 1,
                                 !.streak = IF seen = 2 THEN 1 ELSE 0] \in WatcherState
      BY <2>0, <3>1, <3>2, <3>4, WatcherUpdate DEF TInv, ServiceTypeOK
    <3>5. [pc |-> "look", seen |-> IF Qwen THEN seen ELSE 2, streak |-> 2, looks |-> 0] \in WatcherState
      BY <2>0, <3>1, WatcherUpdate DEF TInv, ServiceTypeOK
    <3> QED
      BY <2>3, <3>3, <3>4, <3>5, NoWatcherType DEF Verify
  <2>4. CASE WatchEnds \/ HandoffStopFails \/ HandoffRestore
    BY <2>4, NoWatcherType
  <2>5. CASE HandoffStop \/ HandoffStart \/ HandoffUndo
    <3>1. /\ [watcher EXCEPT !.pc = "start"] \in WatcherState
          /\ [watcher EXCEPT !.pc = "undo"] \in WatcherState
          /\ [watcher EXCEPT !.pc = "restore"] \in WatcherState
          /\ [watcher EXCEPT !.pc = "probe", !.seen = 0, !.looks = 0] \in WatcherState
      BY <2>0, WatcherUpdate DEF TInv, ServiceTypeOK
    <3> QED
      BY <2>5, <3>1
  <2> QED
    BY <2>1, <2>2, <2>3, <2>4, <2>5 DEF Watcher
<1>3. auth' \in AuthStates /\ ready' \in BOOLEAN
  BY PendingType DEF Watcher, WatchLook, HandoffProbe, Verify, TInv, ServiceTypeOK, AuthStates
<1>4. /\ browser' \in {"down", "headed", "headless"} /\ deaf' \in BOOLEAN
      /\ alive' \subseteq Owners /\ trouble' \in BOOLEAN
      /\ headless' \in BOOLEAN
  <2>1. CASE HandoffStart \/ HandoffRestore
    <3>1. "handoff" \in Owners /\ (Launch("handoff") \/ LaunchFails)
      BY <2>1 DEF Owners
    <3> QED
      BY <2>1, <3>1, LaunchTypes DEF TInv, ServiceTypeOK
  <2>2. CASE WatchEnds \/ WatchLook \/ Verify \/ HandoffProbe
    BY <2>2 DEF WatchLook, Verify, HandoffProbe, TInv, ServiceTypeOK, manager
  <2>3. CASE HandoffStop \/ HandoffStopFails \/ HandoffUndo
    BY <2>3 DEF TInv, ServiceTypeOK, Closed
  <2> QED
    BY <2>1, <2>2, <2>3 DEF Watcher
<1> QED
  BY <1>2, <1>3, <1>4
  DEF Watcher, WatchLook, HandoffProbe, Verify, TInv, ServiceTypeOK, AttemptsLeft, manager

\* Updating fields of a request.
LEMMA RequestUpdate ==
  ASSUME NEW f \in [Requests -> RequestState], NEW r \in Requests
  PROVE  /\ \A pc \in {"idle", "queued", "over"} \cup Locked :
              [f EXCEPT ![r].pc = pc] \in [Requests -> RequestState]
         /\ \A tries \in 0 .. Retries + 1 :
              [f EXCEPT ![r].tries = tries] \in [Requests -> RequestState]
         /\ \A seen \in 0 .. 2 : [f EXCEPT ![r].seen = seen] \in [Requests -> RequestState]
         /\ \A looks \in 0 .. 1 : [f EXCEPT ![r].looks = looks] \in [Requests -> RequestState]
<1>1. \A pc \in {"idle", "queued", "over"} \cup Locked : [f[r] EXCEPT !.pc = pc] \in RequestState
  BY DEF RequestState
<1>2. \A tries \in 0 .. Retries + 1 : [f[r] EXCEPT !.tries = tries] \in RequestState
  BY DEF RequestState
<1>3. \A seen \in 0 .. 2 : [f[r] EXCEPT !.seen = seen] \in RequestState
  BY DEF RequestState
<1>4. \A looks \in 0 .. 1 : [f[r] EXCEPT !.looks = looks] \in RequestState
  BY DEF RequestState
<1> QED
  BY <1>1, <1>2, <1>3, <1>4

\* A failed attempt is the last one or leaves another.
LEMMA AttemptFailsTypes ==
  ASSUME TInv, NEW r \in Requests, NEW login, req[r].pc \in Locked, AttemptFails(r, login)
  PROVE  req' \in [Requests -> RequestState] /\ AttemptsLeft' /\ ready' \in BOOLEAN
<1>1. ready' \in BOOLEAN
  BY DEF AttemptFails
<1>2. req' \in [Requests -> RequestState]
  <2>1. /\ [req EXCEPT ![r].pc = "over"] \in [Requests -> RequestState]
        /\ [req EXCEPT ![r].pc = "backoff"] \in [Requests -> RequestState]
    BY RequestUpdate DEF TInv, ServiceTypeOK, Locked
  <2> QED
    BY <2>1 DEF AttemptFails
<1>3. req[r].tries \in Nat /\ req[r].tries >= 1
  BY ProviderLoginAssumption DEF TInv, ServiceTypeOK, RequestState, AttemptsLeft
<1>4. AttemptsLeft'
  <2> SUFFICES ASSUME NEW q \in Requests
               PROVE  /\ req'[q].pc \in Locked => req'[q].tries >= 1
                      /\ req'[q].pc = "backoff" => req'[q].tries >= 2
    BY DEF AttemptsLeft
  <2>1. CASE q = r
    BY <1>3, <2>1 DEF AttemptFails, TInv, ServiceTypeOK, RequestState, Locked
  <2>2. CASE q # r
    BY <2>2 DEF AttemptFails, TInv, ServiceTypeOK, AttemptsLeft
  <2> QED
    BY <2>1, <2>2
<1> QED
  BY <1>1, <1>2, <1>4

LEMMA RequestTypes ==
  ASSUME TInv, NEW r \in Requests, Admit(r) \/ Request(r)
  PROVE  TInv'
<1> USE DEF Locked
<1> DEFINE T == req' \in [Requests -> RequestState] /\ AttemptsLeft' /\ ready' \in BOOLEAN
<1>0. /\ req \in [Requests -> RequestState] /\ AttemptsLeft /\ ready \in BOOLEAN
      /\ req[r].tries \in 0 .. Retries + 1
      /\ 0 \in 0 .. 2 /\ 0 \in 0 .. 1 /\ 1 \in 0 .. 1
  BY DEF TInv, ServiceTypeOK, RequestState
<1>1. T
  <2>1. CASE Admit(r)
    <3>1. [req EXCEPT ![r].pc = "queued"] \in [Requests -> RequestState]
      BY <1>0, RequestUpdate
    <3> QED
      BY <1>0, <2>1, <3>1 DEF Admit, AttemptsLeft
  <2>2. CASE GetLock(r)
    <3>1. [req EXCEPT ![r].pc = "lookup", ![r].tries = Retries + 1] \in [Requests -> RequestState]
      <4>1. Retries + 1 \in 0 .. Retries + 1
        BY ProviderLoginAssumption
      <4> QED
        BY <1>0, <4>1, RequestUpdate
    <3> QED
      BY <1>0, <2>2, <3>1, ProviderLoginAssumption DEF GetLock, AttemptsLeft
  <2>3. CASE Lookup(r)
    <3>1. [req EXCEPT ![r].pc = "page"] \in [Requests -> RequestState]
      BY <1>0, RequestUpdate
    <3>2. CASE AttemptFails(r, TRUE)
      <4>1. req[r].pc \in Locked
        BY <2>3 DEF Lookup
      <4>2. PICK login : AttemptFails(r, login)
        BY <3>2, Zenon
      <4> QED
        BY <4>1, <4>2, AttemptFailsTypes
    <3>3. CASE req' = [req EXCEPT ![r].pc = "page"] /\ ready' = ready
      BY <1>0, <2>3, <3>1, <3>3 DEF Lookup, AttemptsLeft
    <3> QED
      BY <2>3, <3>2, <3>3 DEF Lookup
  <2>4. CASE GetPage(r)
    <3>1. /\ [req EXCEPT ![r].pc = "send"] \in [Requests -> RequestState]
          /\ [req EXCEPT ![r].pc = "login", ![r].seen = 0, ![r].looks = 0] \in [Requests -> RequestState]
      BY <1>0, RequestUpdate
    <3>2. CASE req' = [req EXCEPT ![r].pc = "send"]
      BY <1>0, <2>4, <3>1, <3>2 DEF GetPage, AttemptsLeft
    <3>3. CASE req' = [req EXCEPT ![r].pc = "login", ![r].seen = 0, ![r].looks = 0]
      BY <1>0, <2>4, <3>1, <3>3 DEF GetPage, AttemptsLeft
    <3> QED
      BY <2>4, <3>2, <3>3 DEF GetPage
  <2>5. CASE PageFails(r)
    <3>1. req[r].pc \in Locked
      BY <2>5 DEF PageFails
    <3>2. PICK login : AttemptFails(r, login)
      BY <2>5, Zenon DEF PageFails
    <3> QED
      BY <3>1, <3>2, AttemptFailsTypes
  <2>6. CASE RequestLogin(r)
    <3> DEFINE seen == SeenBy("request", req[r].seen)
    <3>1. seen \in 0 .. 2
      BY <1>0, SeenByType DEF RequestState
    <3>2. /\ [req EXCEPT ![r].pc = "send"] \in [Requests -> RequestState]
          /\ [req EXCEPT ![r].seen = seen, ![r].looks = 1] \in [Requests -> RequestState]
      BY <1>0, <3>1, RequestUpdate
    <3>3. CASE req' = [req EXCEPT ![r].seen = seen, ![r].looks = 1] /\ ready' = ready
      BY <1>0, <2>6, <3>2, <3>3 DEF RequestLogin, AttemptsLeft
    <3>4. CASE ready' = TRUE /\ req' = [req EXCEPT ![r].pc = "send"]
      BY <1>0, <2>6, <3>2, <3>4 DEF RequestLogin, AttemptsLeft
    <3>5. CASE AttemptFails(r, LoginFailure(Sees("request")))
      <4>1. req[r].pc \in Locked
        BY <2>6 DEF RequestLogin
      <4> QED
        BY <3>5, <4>1, AttemptFailsTypes
    <3> QED
      BY <2>6, <3>3, <3>4, <3>5 DEF RequestLogin
  <2>7. CASE Send(r)
    <3>1. [req EXCEPT ![r].pc = "over"] \in [Requests -> RequestState]
      BY <1>0, RequestUpdate
    <3>2. CASE req' = [req EXCEPT ![r].pc = "over"] /\ ready' = ready
      BY <1>0, <3>1, <3>2 DEF AttemptsLeft
    <3>3. ASSUME NEW login, AttemptFails(r, login)
          PROVE  T
      BY <2>7, <3>3, AttemptFailsTypes DEF Send
    <3> QED
      BY <2>7, <3>2, <3>3 DEF Send
  <2>8. CASE Retry(r)
    <3>1. req[r].tries >= 2
      BY <1>0, <2>8 DEF Retry, AttemptsLeft
    <3>2. req[r].tries - 1 \in 0 .. Retries + 1
      BY <1>0, <3>1, ProviderLoginAssumption
    <3>3. /\ [req EXCEPT ![r].pc = "over"] \in [Requests -> RequestState]
          /\ [req EXCEPT ![r].pc = "lookup", ![r].tries = req[r].tries - 1] \in [Requests -> RequestState]
      BY <1>0, <3>2, RequestUpdate
    <3>4. CASE req' = [req EXCEPT ![r].pc = "over"]
      BY <1>0, <2>8, <3>3, <3>4 DEF Retry, AttemptsLeft
    <3>5. CASE req' = [req EXCEPT ![r].pc = "lookup", ![r].tries = req[r].tries - 1]
      BY <1>0, <2>8, <3>1, <3>3, <3>5 DEF Retry, AttemptsLeft
    <3> QED
      BY <1>0, <2>8, <3>4, <3>5 DEF Retry
  <2> QED
    BY <2>1, <2>2, <2>3, <2>4, <2>5, <2>6, <2>7, <2>8 DEF Request
<1>2. auth' \in AuthStates
  BY PendingType
  DEF Request, Admit, GetLock, Lookup, GetPage, PageFails, RequestLogin, Send, Retry,
      TInv, ServiceTypeOK, AuthStates
<1>3. /\ browser' \in {"down", "headed", "headless"} /\ deaf' \in BOOLEAN
      /\ alive' \subseteq Owners /\ trouble' \in BOOLEAN
  <2>1. CASE GetPage(r) \/ PageFails(r)
    <3>1. /\ "request" \in Owners
          /\ \/ Launch("request") \/ LaunchFails
             \/ UNCHANGED <<browser, deaf, alive, trouble>>
      BY <2>1 DEF GetPage, PageFails, Owners
    <3> QED
      BY <3>1, LaunchTypes DEF TInv, ServiceTypeOK
  <2>2. CASE Retry(r)
    BY <2>2 DEF Retry, Closed, Mode, TInv, ServiceTypeOK
  <2>3. CASE Admit(r) \/ GetLock(r) \/ Lookup(r) \/ RequestLogin(r) \/ Send(r)
    BY <2>3 DEF Admit, GetLock, Lookup, RequestLogin, Send, TInv, ServiceTypeOK, manager
  <2> QED
    BY <2>1, <2>2, <2>3 DEF Request
<1> QED
  BY <1>1, <1>2, <1>3
  DEF Request, Admit, GetLock, Lookup, GetPage, PageFails, RequestLogin, Send, Retry,
      TInv, ServiceTypeOK, manager

LEMMA EnvironmentTypes ==
  ASSUME TInv, BrowserLost \/ PageCrashed \/ SecondaryPageGone \/ StopBrowser \/ CancelJobs \/ SignIn \/ SiteChanges
  PROVE  TInv'
<1> USE DEF BrowserLost, PageCrashed, SecondaryPageGone, StopBrowser, CancelJobs, SignIn, SiteChanges
<1>1. watcher' \in WatcherState
  BY CancelledType DEF Interrupt, TInv, ServiceTypeOK
<1>2. startup' \in StartupState
  <2>1. [startup EXCEPT !.pc = "done"] \in StartupState
    BY StartupUpdate DEF TInv, ServiceTypeOK, StartupState
  <2> QED
    BY <2>1 DEF TInv, ServiceTypeOK
<1>3. req' \in [Requests -> RequestState] /\ AttemptsLeft'
  <2>1. CASE CancelJobs
    <3>1. ASSUME NEW r \in Requests
          PROVE  [req[r] EXCEPT !.pc = "over"] \in RequestState
      BY <3>1 DEF TInv, ServiceTypeOK, RequestState
    <3>2. \A r \in Requests : req'[r].pc = "over"
      BY <2>1 DEF TInv, ServiceTypeOK, RequestState
    <3> QED
      BY <2>1, <3>1, <3>2 DEF AttemptsLeft, Locked
  <2>2. CASE req' = req
    BY <2>2 DEF TInv, ServiceTypeOK, AttemptsLeft
  <2> QED
    BY <2>1, <2>2
<1>4. auth' \in AuthStates /\ ready' \in BOOLEAN /\ trouble' \in BOOLEAN
  BY DEF Interrupt, TInv, ServiceTypeOK, AuthStates, manager
<1>5. /\ browser' \in {"down", "headed", "headless"} /\ deaf' \in BOOLEAN
      /\ alive' \subseteq Owners /\ headless' \in BOOLEAN
  BY DEF Closed, TInv, ServiceTypeOK, manager
<1>6. view' \in Views /\ phase' \in {"up", "stopping", "down"}
  BY DEF TInv, ServiceTypeOK, Views, SiteViews
<1> QED
  BY <1>1, <1>2, <1>3, <1>4, <1>5, <1>6 DEF TInv, ServiceTypeOK

LEMMA TypesInductive == TInv /\ [LoginStep]_allVars => TInv'
<1> SUFFICES ASSUME TInv, [LoginStep]_allVars PROVE TInv'
  OBVIOUS
<1>1. CASE UNCHANGED allVars
  BY <1>1 DEF TInv, ServiceTypeOK, AttemptsLeft, allVars, loginVars, manager
<1>2. CASE LoginStep
  BY <1>2, StartupTypes, WatcherTypes, RequestTypes, EnvironmentTypes DEF LoginStep, LoginNext
<1> QED
  BY <1>1, <1>2

\* Every reachable state is well typed, and a request never runs out of
\* attempts before it ends.
THEOREM LoginTypeCorrect == LoginSpec => []LoginTypeOK
<1>1. LoginInit => LoginTypeOK
  BY InitTypes DEF TInv, LoginTypeOK, LoginInit
<1>2. TInv /\ LoginTypeOK /\ [LoginStep]_allVars => TInv' /\ LoginTypeOK'
  BY TypesInductive DEF LoginTypeOK, TInv, LoginStep, allVars
<1> QED
  BY <1>1, <1>2, InitTypes, PTL DEF LoginSpec

-----------------------------------------------------------------------------
(* The watcher, the requests and interruptions.                            *)

LEMMA InitExclusion == LoginInit => EInv
BY DEF LoginInit, EInv, StartupBeforeWatcher, ServingComesLast, NotYetServing,
       InterruptionEndsWatcher, NoWatcher

\* The startup leaves the provider ready or a watcher, never both.
LEMMA StartupExclusion ==
  ASSUME TInv, EInv, Startup
  PROVE  EInv'
<1> USE DEF EInv, StartupBeforeWatcher, ServingComesLast, NotYetServing, InterruptionEndsWatcher
<1>1. NotYetServing /\ startup.pc # "done" /\ watcher.pc = "off"
  BY DEF Startup, Begin, StartLaunch, StartFails, StartLook
<1>2. startup' \in StartupState /\ startup \in StartupState
  BY StartupTypes DEF TInv, ServiceTypeOK
<1>3. CASE Begin \/ StartLaunch
  BY <1>1, <1>2, <1>3 DEF Begin, StartLaunch, StartupState, manager
<1>4. CASE StartFails
  BY <1>1, <1>2, <1>4 DEF StartFails, StartWatcher, NoWatcher, StartupState
<1>5. CASE StartLook
  BY <1>1, <1>2, <1>5 DEF StartLook, StartWatcher, NoWatcher, StartupState
<1> QED
  BY <1>3, <1>4, <1>5 DEF Startup

\* The watcher makes the provider ready only in the step that ends it, and
\* goes on only if the login was not interrupted.
LEMMA WatcherExclusion ==
  ASSUME TInv, EInv, Watcher
  PROVE  EInv'
<1> USE DEF EInv, StartupBeforeWatcher, ServingComesLast, NotYetServing, InterruptionEndsWatcher
<1>1. NotYetServing /\ startup.pc = "done"
  BY DEF Watcher, WatchEnds, WatchLook, Verify, HandoffStop, HandoffStopFails, HandoffStart,
         HandoffProbe, HandoffUndo, HandoffRestore
<1>2. startup' = startup /\ req' = req
  BY DEF Watcher, WatchEnds, WatchLook, Verify, HandoffStop, HandoffStopFails, HandoffStart,
         HandoffProbe, HandoffUndo, HandoffRestore
<1>3. ready' = ready \/ watcher' = NoWatcher
  <2>1. CASE Verify
    BY <2>1 DEF Verify
  <2>2. CASE ~Verify
    BY <2>2
    DEF Watcher, WatchEnds, WatchLook, HandoffStop, HandoffStopFails, HandoffStart,
        HandoffProbe, HandoffUndo, HandoffRestore
  <2> QED
    BY <2>1, <2>2
<1>4. auth' = "LOGIN_INTERRUPTED" => watcher'.pc \in {"off", "undo", "restore"}
  <2>1. watcher \in WatcherState
    BY DEF TInv, ServiceTypeOK
  <2>2. CASE WatchLook
    BY <2>2, PendingType DEF WatchLook, CanWatch, NoWatcher
  <2>3. CASE WatchEnds \/ Verify \/ HandoffProbe
    BY <2>1, <2>3 DEF WatchEnds, Verify, HandoffProbe, NoWatcher, WatcherState
  <2>4. CASE HandoffStop \/ HandoffStopFails \/ HandoffStart \/ HandoffUndo \/ HandoffRestore
    BY <2>1, <2>4
    DEF HandoffStop, HandoffStopFails, HandoffStart, HandoffUndo, HandoffRestore, NoWatcher, WatcherState
  <2> QED
    BY <2>2, <2>3, <2>4 DEF Watcher
<1> QED
  BY <1>1, <1>2, <1>3, <1>4 DEF NoWatcher

\* A request moves only when the startup and the watcher have ended.
LEMMA RequestExclusion ==
  ASSUME TInv, EInv, NEW r \in Requests, Admit(r) \/ Request(r)
  PROVE  EInv'
<1> USE DEF EInv, StartupBeforeWatcher, ServingComesLast, NotYetServing, InterruptionEndsWatcher
<1>1. watcher.pc = "off" /\ startup.pc = "done"
  BY DEF Admit, Request, GetLock, Lookup, GetPage, PageFails, RequestLogin, Send, Retry
<1>2. watcher' = watcher /\ startup' = startup
  BY DEF Admit, Request, GetLock, Lookup, GetPage, PageFails, RequestLogin, Send, Retry
<1> QED
  BY <1>1, <1>2

\* An interruption or a shutdown ends the watcher or lets it put the browser
\* back, and makes nothing ready.
LEMMA EnvironmentExclusion ==
  ASSUME TInv, EInv,
         BrowserLost \/ PageCrashed \/ SecondaryPageGone \/ StopBrowser \/ CancelJobs \/ SignIn \/ SiteChanges
  PROVE  EInv'
<1> USE DEF EInv, StartupBeforeWatcher, ServingComesLast, NotYetServing, InterruptionEndsWatcher
<1>1. watcher \in WatcherState /\ startup \in StartupState
  BY DEF TInv, ServiceTypeOK
<1>2. /\ Cancelled.pc \in {"off", "undo", "restore"}
      /\ Cancelled.pc # "off" => watcher.pc # "off"
  BY <1>1, CancelledType
<1>3. CASE BrowserLost \/ PageCrashed \/ SecondaryPageGone
  BY <1>2, <1>3 DEF BrowserLost, PageCrashed, SecondaryPageGone, Interrupt
<1>4. CASE StopBrowser
  <2>1. startup'.pc = "done" /\ watcher' = Cancelled /\ ~ready' /\ auth' = auth /\ req' = req
    BY <1>1, <1>4 DEF StopBrowser, StartupState
  <2> QED
    BY <1>2, <2>1
<1>5. CASE CancelJobs
  <2>1. \A r \in Requests : req'[r].pc = "over"
    BY <1>5 DEF CancelJobs, TInv, ServiceTypeOK, RequestState
  <2> QED
    BY <1>5, <2>1 DEF CancelJobs
<1>6. CASE SignIn \/ SiteChanges
  BY <1>6 DEF SignIn, SiteChanges
<1> QED
  BY <1>3, <1>4, <1>5, <1>6

THEOREM LoginInvariant == LoginSpec => [](TInv /\ EInv)
<1>1. ASSUME TInv, EInv, [LoginStep]_allVars
      PROVE  EInv'
  <2>1. CASE UNCHANGED allVars
    BY <1>1, <2>1
    DEF allVars, loginVars, EInv, StartupBeforeWatcher, ServingComesLast, NotYetServing, InterruptionEndsWatcher
  <2>2. CASE LoginStep
    BY <1>1, <2>2, StartupExclusion, WatcherExclusion, RequestExclusion, EnvironmentExclusion
    DEF LoginStep, LoginNext
  <2> QED
    BY <1>1, <2>1, <2>2
<1> QED
  BY <1>1, InitTypes, InitExclusion, TypesInductive, PTL DEF LoginSpec

\* The watcher, and with it the handoff that closes the browser, never runs
\* while a request is queued or served.
THEOREM WatcherAndRequestsExclude == LoginSpec => []WatcherExcludesRequests
<1>1. TInv /\ EInv => WatcherExcludesRequests
  BY DEF EInv, ServingComesLast, NotYetServing, WatcherExcludesRequests
<1> QED
  BY <1>1, LoginInvariant, PTL

\* A login that was interrupted has no watcher that goes on.
THEOREM InterruptedLoginHasNoWatcher == LoginSpec => []InterruptionEndsWatcher
<1>1. TInv /\ EInv => InterruptionEndsWatcher
  BY DEF EInv
<1> QED
  BY <1>1, LoginInvariant, PTL

-----------------------------------------------------------------------------
(* The service implements BrowserUse.                                      *)

\* Shutdown begins by ending the startup, and the watcher but for what it has
\* to put back.
ShutdownEndsLogin ==
  phase # "up" => startup.pc = "done" /\ watcher.pc \in {"off", "undo", "restore"}

OneHolder ==
  \A r, s \in Requests : req[r].pc \in Locked /\ req[s].pc \in Locked => r = s

UInv == ShutdownEndsLogin /\ OneHolder

Holders == {r \in Requests : req[r].pc \in Locked}

InUse == \E r \in Requests : req[r].pc \notin {"idle", "over"}

LEMMA InitUse == LoginInit => UInv
BY DEF LoginInit, UInv, ShutdownEndsLogin, OneHolder, Locked

\* What a step of the startup or the watcher leaves alone.
LEMMA LoginSteps ==
  ASSUME TInv, EInv, UInv, Startup \/ Watcher
  PROVE  /\ UNCHANGED <<req, phase>>
         /\ ~ready /\ ~InUse /\ Holders = {}
         /\ Startup => startup.pc # "done" /\ phase = "up"
         /\ Watcher => startup.pc = "done" /\ watcher.pc # "off" /\ startup' = startup
<1>1. UNCHANGED <<req, phase>>
  BY DEF Startup, Begin, StartLaunch, StartFails, StartLook, Watcher, WatchEnds, WatchLook, Verify,
         HandoffStop, HandoffStopFails, HandoffStart, HandoffProbe, HandoffUndo, HandoffRestore
<1>2. Startup => startup.pc # "done"
  BY DEF Startup, Begin, StartLaunch, StartFails, StartLook
<1>3. Watcher => watcher.pc # "off" /\ startup' = startup
  BY DEF Watcher, WatchEnds, WatchLook, Verify,
         HandoffStop, HandoffStopFails, HandoffStart, HandoffProbe, HandoffUndo, HandoffRestore
<1>4. NotYetServing
  BY <1>2, <1>3 DEF EInv, ServingComesLast
<1> QED
  BY <1>1, <1>2, <1>3, <1>4
  DEF EInv, StartupBeforeWatcher, UInv, ShutdownEndsLogin, NotYetServing, InUse, Holders, Locked

\* The fields in which a request's step may differ.
LEMMA RequestSteps ==
  ASSUME TInv, EInv, UInv, NEW r \in Requests, Admit(r) \/ Request(r)
  PROVE  /\ UNCHANGED <<startup, watcher, phase>>
         /\ startup.pc = "done" /\ watcher.pc = "off"
         /\ \A s \in Requests : s # r => req'[s] = req[s]
         /\ \/ Admit(r) /\ req'[r].pc = "queued" /\ UNCHANGED <<ready, browser>>
            \/ GetLock(r) /\ req'[r].pc \in Locked /\ UNCHANGED <<ready, browser>>
            \/ req[r].pc \in Locked /\ req'[r].pc \in Locked \cup {"over"}
<1>1. UNCHANGED <<startup, watcher, phase>>
  BY DEF Admit, Request, GetLock, Lookup, GetPage, PageFails, RequestLogin, Send, Retry
<1>2. startup.pc = "done" /\ watcher.pc = "off"
  BY DEF EInv, ServingComesLast, NotYetServing, Admit, Request, GetLock, Lookup, GetPage, PageFails,
         RequestLogin, Send, Retry
<1>3. req \in [Requests -> RequestState] /\ req[r] \in RequestState
  BY DEF TInv, ServiceTypeOK
<1>4. CASE Admit(r)
  BY <1>1, <1>2, <1>3, <1>4 DEF Admit, RequestState, manager
<1>5. CASE GetLock(r)
  BY <1>1, <1>2, <1>3, <1>5 DEF GetLock, RequestState, manager, Locked
<1>6. ASSUME NEW login, AttemptFails(r, login)
      PROVE  /\ \A s \in Requests : s # r => req'[s] = req[s]
             /\ req'[r].pc \in Locked \cup {"over"}
  BY <1>3, <1>6 DEF AttemptFails, RequestState, Locked
<1>7. CASE Lookup(r) \/ PageFails(r)
  <2>1. req[r].pc \in Locked
    BY <1>7 DEF Lookup, PageFails, Locked
  <2>2. CASE \E login : AttemptFails(r, login)
    BY <1>1, <1>2, <1>6, <2>1, <2>2
  <2>3. CASE req' = [req EXCEPT ![r].pc = "page"]
    BY <1>1, <1>2, <1>3, <2>1, <2>3 DEF RequestState, Locked
  <2> QED  BY <1>7, <2>2, <2>3, Zenon DEF Lookup, PageFails
<1>8. CASE GetPage(r) \/ Retry(r)
  BY <1>1, <1>2, <1>3, <1>8 DEF GetPage, Retry, RequestState, Locked
<1>9. CASE RequestLogin(r) \/ Send(r)
  <2>1. req[r].pc \in Locked
    BY <1>9 DEF RequestLogin, Send, Locked
  <2>2. \/ \E login : AttemptFails(r, login)
        \/ req' = [req EXCEPT ![r].seen = SeenBy("request", req[r].seen), ![r].looks = 1]
        \/ \E pc \in {"send", "over"} : req' = [req EXCEPT ![r].pc = pc]
    BY <1>9, Zenon DEF RequestLogin, Send
  <2>3. CASE \E login : AttemptFails(r, login)
    BY <1>1, <1>2, <1>6, <2>1, <2>3
  <2>4. CASE req' = [req EXCEPT ![r].seen = SeenBy("request", req[r].seen), ![r].looks = 1]
    BY <1>1, <1>2, <1>3, <2>1, <2>4 DEF RequestState
  <2>5. CASE \E pc \in {"send", "over"} : req' = [req EXCEPT ![r].pc = pc]
    BY <1>1, <1>2, <1>3, <2>1, <2>5 DEF RequestState, Locked
  <2> QED  BY <2>2, <2>3, <2>4, <2>5
<1> QED
  BY <1>4, <1>5, <1>7, <1>8, <1>9 DEF Request

LEMMA StepUse ==
  ASSUME TInv, EInv, UInv, [LoginStep]_allVars
  PROVE  UInv'
<1>1. CASE Startup \/ Watcher
  <2>1. /\ UNCHANGED <<req, phase>> /\ (Startup => phase = "up")
        /\ Watcher => startup' = startup
    BY <1>1, LoginSteps
  <2>2. CASE Startup
    BY <2>1, <2>2 DEF UInv, ShutdownEndsLogin, OneHolder
  <2>3. CASE Watcher
    <3>1. watcher \in WatcherState
      BY DEF TInv, ServiceTypeOK
    <3>2. watcher.pc \in {"undo", "restore"} => watcher'.pc \in {"off", "undo", "restore"}
      BY <2>3, <3>1
      DEF Watcher, WatchEnds, WatchLook, Verify, HandoffStop, HandoffStopFails, HandoffStart,
          HandoffProbe, HandoffUndo, HandoffRestore, NoWatcher, WatcherState
    <3>3. watcher.pc # "off"
      BY <2>3, LoginSteps
    <3> QED
      BY <2>1, <2>3, <3>2, <3>3 DEF UInv, ShutdownEndsLogin, OneHolder
  <2> QED  BY <1>1, <2>2, <2>3
<1>2. ASSUME NEW r \in Requests, Admit(r) \/ Request(r) PROVE UInv'
  <2>1. ShutdownEndsLogin'
    BY <1>2, RequestSteps DEF UInv, ShutdownEndsLogin
  <2>2. OneHolder'
    <3>1. \A s \in Requests : s # r => req'[s] = req[s]
      BY <1>2, RequestSteps
    <3>2. CASE req'[r].pc \notin Locked
      BY <3>1, <3>2 DEF UInv, OneHolder
    <3>3. CASE req[r].pc \in Locked
      BY <3>1, <3>3 DEF UInv, OneHolder
    <3>4. CASE GetLock(r)
      BY <3>1, <3>4 DEF GetLock, OneHolder
    <3>5. Admit(r) => req'[r].pc \notin Locked
      BY DEF Admit, TInv, ServiceTypeOK, RequestState, Locked
    <3> QED  BY <1>2, <3>2, <3>3, <3>4, <3>5, RequestSteps
  <2> QED  BY <2>1, <2>2 DEF UInv
<1>3. CASE BrowserLost \/ PageCrashed \/ SecondaryPageGone \/ StopBrowser
  <2>1. watcher \in WatcherState /\ startup \in StartupState
    BY DEF TInv, ServiceTypeOK
  <2>2. /\ Cancelled.pc \in {"off", "undo", "restore"}
        /\ req' = req
        /\ watcher' = Cancelled \/ (watcher' = watcher /\ UNCHANGED <<startup, phase>>)
        /\ StopBrowser => startup'.pc = "done" /\ watcher' = Cancelled
        /\ ~StopBrowser => UNCHANGED <<startup, phase>>
    BY <1>3, <2>1, CancelledType DEF BrowserLost, PageCrashed, SecondaryPageGone, StopBrowser, Interrupt, StartupState
  <2> QED  BY <2>2 DEF UInv, ShutdownEndsLogin, OneHolder
<1>4. CASE CancelJobs
  <2>1. \A r \in Requests : req'[r].pc \notin Locked
    BY <1>4 DEF CancelJobs, TInv, ServiceTypeOK, RequestState, Locked
  <2> QED  BY <1>4, <2>1 DEF CancelJobs, UInv, ShutdownEndsLogin, OneHolder
<1>5. CASE SignIn \/ SiteChanges \/ UNCHANGED allVars
  BY <1>5 DEF SignIn, SiteChanges, allVars, loginVars, UInv, ShutdownEndsLogin, OneHolder
<1> QED  BY <1>1, <1>2, <1>3, <1>4, <1>5 DEF LoginStep, LoginNext

\* One request has the lock, and shutdown leaves no login but what is put back.
THEOREM UseInvariant == LoginSpec => [](TInv /\ EInv /\ UInv)
BY InitUse, StepUse, LoginInvariant, PTL DEF LoginSpec

\* Whose time it is, from who is active.
LEMMA StageFacts ==
  ASSUME EInv
  PROVE  /\ startup.pc # "done" => Stage = "startup"
         /\ startup.pc = "done" /\ watcher.pc # "off" => Stage = "watcher"
         /\ InUse => Stage = "requests" /\ startup.pc = "done" /\ watcher.pc = "off"
         /\ startup.pc = "done" /\ watcher.pc = "off" =>
              Stage = IF (ready /\ phase = "up") \/ InUse THEN "requests" ELSE "nobody"
         /\ Holders # {} => InUse
BY DEF EInv, ServingComesLast, NotYetServing, Stage, InUse, Holders, Locked

LEMMA OpenedBy ==
  ASSUME NEW a, Launch(a) \/ LaunchFails
  PROVE  browser' = browser \/ (browser = "down" /\ browser' \in Use!Shown)
BY DEF Launch, LaunchFails, Mode, Use!Shown

\* The end of the startup or the watcher.
LEMMA HandsOver ==
  ASSUME EInv, EInv', ~ready, ~InUse, UNCHANGED <<req, phase>>,
         startup'.pc = "done",
         \/ startup.pc # "done"
         \/ startup.pc = "done" /\ watcher.pc # "off" /\ watcher'.pc = "off",
         ready' \in BOOLEAN, ready' => phase = "up",
         browser' \in {browser, "down"} \cup {b \in Use!Shown : browser = "down"}
  PROVE  Use!HandOver
<1>1. InUse' = InUse /\ Holders' = Holders
  BY DEF InUse, Holders
<1>2. Stage \in {"startup", "watcher"}
  BY StageFacts
<1>3. Stage' = IF watcher'.pc # "off" THEN "watcher" ELSE IF ready' THEN "requests" ELSE "nobody"
  BY <1>1 DEF Stage, InUse
<1>4. ready' => watcher'.pc = "off"
  BY DEF EInv, ServingComesLast, NotYetServing
<1>5. ready' = (Stage' = "requests")
  BY <1>3, <1>4
<1>6. \/ Stage = "startup" /\ Stage' \in {"watcher", "requests", "nobody"}
      \/ Stage = "watcher" /\ Stage' \in {"requests", "nobody"}
  BY <1>3, StageFacts
<1> QED  BY <1>1, <1>5, <1>6 DEF Use!HandOver, Holders

\* Its steps before.
LEMMA GoesOn ==
  ASSUME EInv, ~ready, ~InUse, UNCHANGED <<req, phase, ready>>,
         startup.pc # "done" \/ watcher.pc # "off",
         startup'.pc = "done" <=> startup.pc = "done",
         startup.pc = "done" => watcher'.pc # "off",
         \/ browser' \in {browser, "down"}
         \/ browser = "down" /\ browser' \in Use!Shown
  PROVE  Use!Next \/ UNCHANGED Use!useVars
<1>1. Holders' = Holders /\ Stage' = Stage /\ Stage \in {"startup", "watcher"}
  BY StageFacts DEF Holders, Stage, EInv, StartupBeforeWatcher
<1>2. CASE browser' = browser
  BY <1>1, <1>2 DEF Use!useVars, Holders
<1>3. CASE browser' = "down"
  BY <1>1, <1>3 DEF Use!Lose, Use!Next, Holders
<1>4. CASE browser = "down" /\ browser' \in Use!Shown
  BY <1>1, <1>4 DEF Use!Open, Use!Next, Holders
<1> QED  BY <1>2, <1>3, <1>4

LEMMA StartupUse ==
  ASSUME TInv, EInv, UInv, EInv', Startup
  PROVE  Use!Next \/ UNCHANGED Use!useVars
<1>1. /\ UNCHANGED <<req, phase>> /\ ~ready /\ ~InUse /\ startup.pc # "done" /\ phase = "up"
      /\ startup \in StartupState /\ ready' \in BOOLEAN
  BY LoginSteps, StartupTypes DEF TInv, ServiceTypeOK
<1>2. CASE Begin
  BY <1>1, <1>2, GoesOn DEF Begin, manager, StartupState
<1>3. CASE StartLaunch
  BY <1>1, <1>3, GoesOn, OpenedBy DEF StartLaunch, StartupState
<1>4. CASE StartFails
  <2>1. startup'.pc = "done" /\ ~ready' /\ browser' = browser
    BY <1>1, <1>4 DEF StartFails, LaunchFails, StartupState
  <2> QED  BY <1>1, <2>1, HandsOver DEF Use!Next
<1>5. CASE StartLook
  <2>1. CASE startup.looks = 0
    BY <1>1, <1>5, <2>1, GoesOn DEF StartLook, StartupState
  <2>2. CASE startup.looks # 0
    <3>1. startup'.pc = "done" /\ browser' = browser
      BY <1>1, <1>5, <2>2 DEF StartLook, StartupState
    <3> QED  BY <1>1, <3>1, HandsOver DEF Use!Next
  <2> QED  BY <2>1, <2>2
<1> QED  BY <1>2, <1>3, <1>4, <1>5 DEF Startup

LEMMA WatcherUse ==
  ASSUME TInv, EInv, UInv, EInv', Watcher
  PROVE  Use!Next \/ UNCHANGED Use!useVars
<1>1. /\ UNCHANGED <<req, phase, startup>> /\ ~ready /\ ~InUse
      /\ startup.pc = "done" /\ watcher.pc # "off" /\ watcher \in WatcherState
      /\ ready' \in BOOLEAN
  BY LoginSteps, WatcherTypes DEF TInv, ServiceTypeOK
<1>2. \/ browser' \in {browser, "down"}
      \/ browser = "down" /\ browser' \in Use!Shown
  BY OpenedBy
  DEF Watcher, WatchEnds, WatchLook, Verify, HandoffStop, HandoffStopFails, HandoffStart,
      HandoffProbe, HandoffUndo, HandoffRestore, Closed, manager
<1>3. ready' = ready \/ (watcher'.pc = "off" /\ phase = "up")
  <2>1. CASE Verify
    BY <1>1, <2>1 DEF Verify, NoWatcher, UInv, ShutdownEndsLogin
  <2>2. CASE ~Verify
    BY <2>2
    DEF Watcher, WatchEnds, WatchLook, HandoffStop, HandoffStopFails, HandoffStart,
        HandoffProbe, HandoffUndo, HandoffRestore
  <2> QED  BY <2>1, <2>2
<1>4. CASE watcher'.pc = "off"
  <2>1. browser' \in {browser, "down"} \cup {b \in Use!Shown : browser = "down"}
    BY <1>2
  <2> QED  BY <1>1, <1>3, <1>4, <2>1, HandsOver DEF Use!Next
<1>5. CASE watcher'.pc # "off"
  BY <1>1, <1>2, <1>3, <1>5, GoesOn
<1> QED  BY <1>4, <1>5

LEMMA RequestUse ==
  ASSUME TInv, EInv, UInv, TInv', EInv', NEW r \in Requests, Admit(r) \/ Request(r)
  PROVE  Use!Next \/ UNCHANGED Use!useVars
<1>1. /\ UNCHANGED <<startup, watcher, phase>>
      /\ startup.pc = "done" /\ watcher.pc = "off"
      /\ \A s \in Requests : s # r => req'[s] = req[s]
  BY RequestSteps
<1>2. Stage = "requests"
  <2>1. CASE Admit(r)
    BY <1>1, <2>1, StageFacts DEF Admit
  <2>2. CASE Request(r)
    <3>1. req[r].pc \notin {"idle", "over"}
      BY <2>2 DEF Request, GetLock, Lookup, GetPage, PageFails, RequestLogin, Send, Retry
    <3> QED  BY <3>1, StageFacts DEF InUse
  <2> QED  BY <2>1, <2>2
<1>3. CASE Admit(r) /\ req'[r].pc = "queued" /\ UNCHANGED <<ready, browser>>
  <2>1. req[r].pc = "idle" /\ "queued" \notin Locked /\ "idle" \notin Locked
    BY <1>3 DEF Admit, Locked
  <2>2. Holders' = Holders
    BY <1>1, <1>3, <2>1 DEF Holders
  <2>3. Stage' = Stage
    BY <1>1, <1>2, <1>3 DEF Admit, Stage
  <2> QED  BY <1>3, <2>2, <2>3 DEF Use!useVars, Holders
<1>4. CASE GetLock(r) /\ req'[r].pc \in Locked /\ UNCHANGED <<ready, browser>>
  <2>1. Holders = {} /\ Holders' = {r}
    BY <1>1, <1>4 DEF GetLock, Holders, Locked
  <2>2. Stage' = "requests"
    BY <1>1, <1>4 DEF Stage, Locked
  <2>3. Use!Take(r)
    BY <1>2, <1>4, <2>1, <2>2 DEF Use!Take, Holders
  <2> QED  BY <2>3 DEF Use!Next
<1>5. CASE req[r].pc \in Locked /\ req'[r].pc \in Locked \cup {"over"}
  <2>1. Holders = {r}
    BY <1>5 DEF Holders, UInv, OneHolder
  <2>2. Holders' \in {Holders, {}}
    <3>1. "over" \notin Locked
      BY DEF Locked
    <3>2. \A s \in Requests : s # r => req'[s].pc \notin Locked
      BY <1>1, <2>1 DEF Holders
    <3>3. CASE req'[r].pc \in Locked
      BY <2>1, <3>2, <3>3 DEF Holders
    <3>4. CASE req'[r].pc = "over"
      BY <3>1, <3>2, <3>4 DEF Holders
    <3> QED  BY <1>5, <3>3, <3>4
  <2>3. Stage' \in {"requests", "nobody"} /\ (Holders' # {} => Stage' = "requests")
    BY <1>1 DEF Stage, Holders, Locked
  <2>4. browser' \in Use!Shown \cup {"down"} /\ ready' \in BOOLEAN
    BY DEF TInv, ServiceTypeOK, Use!Shown
  <2>5. Use!Work
    BY <1>2, <2>1, <2>2, <2>3, <2>4 DEF Use!Work, Holders
  <2> QED  BY <2>5 DEF Use!Next
<1> QED  BY <1>3, <1>4, <1>5, RequestSteps

\* The browser is lost, which may end the watcher.
LEMMA LossUse ==
  ASSUME TInv, EInv, UInv, EInv', BrowserLost \/ PageCrashed \/ SecondaryPageGone
  PROVE  Use!Next \/ UNCHANGED Use!useVars
<1>1. /\ UNCHANGED <<req, phase, startup, ready>> /\ browser' \in {browser, "down"}
      /\ watcher' \in {watcher, Cancelled}
      /\ watcher.pc = "off" => watcher'.pc = "off"
  BY CancelledType DEF BrowserLost, PageCrashed, SecondaryPageGone, Interrupt, TInv, ServiceTypeOK
<1>2. CASE startup.pc # "done" \/ watcher.pc # "off"
  <2>1. ~ready /\ ~InUse
    BY <1>2 DEF EInv, ServingComesLast, NotYetServing, InUse
  <2>2. CASE startup.pc = "done" /\ watcher'.pc = "off"
    BY <1>1, <1>2, <2>1, <2>2, HandsOver DEF Use!Next, TInv, ServiceTypeOK
  <2>3. CASE startup.pc # "done" \/ watcher'.pc # "off"
    BY <1>1, <1>2, <2>1, <2>3, GoesOn
  <2> QED  BY <2>2, <2>3
<1>3. CASE startup.pc = "done" /\ watcher.pc = "off"
  <2>1. Stage' = Stage /\ Holders' = Holders
    BY <1>1, <1>3 DEF Stage, Holders
  <2> QED  BY <1>1, <2>1 DEF Use!Lose, Use!Next, Use!useVars, Holders
<1> QED  BY <1>2, <1>3

LEMMA ShutdownUse ==
  ASSUME TInv, EInv, UInv, TInv', EInv', UInv', StopBrowser \/ CancelJobs
  PROVE  Use!Next \/ UNCHANGED Use!useVars
<1>1. CASE StopBrowser
  <2>1. /\ UNCHANGED req /\ startup'.pc = "done" /\ watcher' = Cancelled /\ ~ready'
        /\ browser' = "down" /\ phase = "up" /\ phase' # "up"
        /\ watcher.pc = "off" => watcher'.pc = "off"
    BY <1>1, CancelledType DEF StopBrowser, Closed, TInv, ServiceTypeOK, StartupState
  <2>2. InUse' = InUse /\ Holders' = Holders
    BY <2>1 DEF InUse, Holders
  <2>3. CASE startup.pc # "done" \/ watcher.pc # "off"
    <3>1. ~ready /\ ~InUse
      BY <2>3 DEF EInv, ServingComesLast, NotYetServing, InUse
    <3>2. Stage' = IF watcher'.pc # "off" THEN "watcher" ELSE "nobody"
      BY <2>1, <2>2, <3>1 DEF Stage, InUse
    <3>3. CASE startup.pc = "done" /\ watcher'.pc # "off"
      <4>1. Stage' = Stage
        BY <2>3, <3>2, <3>3, StageFacts, <2>1
      <4>2. ready' = ready
        BY <2>1, <3>1 DEF TInv, ServiceTypeOK
      <4> QED  BY <2>1, <2>2, <4>1, <4>2 DEF Use!Lose, Use!Next, Holders
    <3>4. CASE startup.pc # "done" \/ watcher'.pc = "off"
      <4>1. ready' = (Stage' = "requests")
        BY <2>1, <3>2 DEF TInv, ServiceTypeOK
      <4>2. \/ Stage = "startup" /\ Stage' \in {"watcher", "requests", "nobody"}
            \/ Stage = "watcher" /\ Stage' \in {"requests", "nobody"}
        BY <2>1, <2>3, <3>2, <3>4, StageFacts
      <4> QED  BY <2>1, <2>2, <4>1, <4>2 DEF Use!HandOver, Use!Next, Holders
    <3> QED  BY <3>3, <3>4
  <2>4. CASE startup.pc = "done" /\ watcher.pc = "off"
    <3>1. Stage' = IF InUse THEN "requests" ELSE "nobody"
      BY <2>1, <2>2, <2>4 DEF Stage, InUse
    <3>2. CASE Stage = "requests"
      <4>1. Stage' \in {Stage} \cup {s \in {"nobody"} : Holders' = {}}
        BY <2>2, <3>1, <3>2, StageFacts
      <4> QED  BY <2>1, <2>2, <3>2, <4>1 DEF Use!Withdraw, Use!Next, Holders, TInv, ServiceTypeOK
    <3>3. CASE Stage # "requests"
      <4>1. Stage' = Stage /\ ~ready
        BY <2>1, <2>4, <3>1, <3>3, StageFacts
      <4>2. ready' = ready
        BY <2>1, <4>1 DEF TInv, ServiceTypeOK
      <4> QED  BY <2>1, <2>2, <4>1, <4>2 DEF Use!Lose, Use!Next, Holders
    <3> QED  BY <3>2, <3>3
  <2> QED  BY <2>3, <2>4
<1>2. CASE CancelJobs
  <2>1. /\ UNCHANGED <<startup, watcher, ready, browser>> /\ phase # "up" /\ phase' # "up"
        /\ startup.pc = "done"
    BY <1>2 DEF CancelJobs, manager, UInv, ShutdownEndsLogin
  <2>2. \A r \in Requests : req'[r].pc = "over"
    BY <1>2 DEF CancelJobs, TInv, ServiceTypeOK, RequestState
  <2>3. ~InUse' /\ Holders' = {}
    BY <2>2 DEF InUse, Holders, Locked
  <2>4. CASE Stage = "requests"
    <3>1. Stage' = "nobody"
      BY <2>1, <2>3, <2>4, StageFacts DEF Stage, InUse
    <3> QED  BY <2>1, <2>3, <2>4, <3>1 DEF Use!Withdraw, Use!Next, Holders
  <2>5. CASE Stage # "requests"
    <3>1. ~InUse
      BY <2>5, StageFacts
    <3>2. Holders = {} /\ Stage' = Stage
      BY <2>1, <2>3, <3>1, StageFacts DEF Stage, InUse
    <3> QED  BY <2>1, <2>3, <3>2 DEF Use!useVars, Holders
  <2> QED  BY <2>4, <2>5
<1> QED  BY <1>1, <1>2

\* For any requests, retries and looks, the service uses its browser as
\* BrowserUse says: one user at a time, in the order of startup, watcher and
\* requests, opened by its user only.
THEOREM BrowserUsedInTurn == LoginSpec => ImplementsBrowserUse
<1>1. LoginInit => Use!Init
  BY DEF LoginInit, Use!Init, Stage, Locked
<1>2. ASSUME TInv, EInv, UInv, TInv', EInv', UInv', [LoginStep]_allVars
      PROVE  [Use!Next]_Use!useVars
  <2>1. CASE SignIn \/ SiteChanges \/ UNCHANGED allVars
    BY <2>1 DEF SignIn, SiteChanges, allVars, loginVars, manager, Use!useVars, Stage
  <2> QED
    BY <1>2, <2>1, StartupUse, WatcherUse, RequestUse, LossUse, ShutdownUse DEF LoginStep, LoginNext
<1> QED
  BY <1>1, <1>2, UseInvariant, PTL DEF LoginSpec, ImplementsBrowserUse, Use!Spec

-----------------------------------------------------------------------------
(* A request counts down.                                                  *)

\* What is left of a request under the lock: its attempts, and the awaits of
\* this one; its login looks twice.
AwaitsLeft(r) == CASE req[r].pc = "lookup" -> 5
                   [] req[r].pc = "page"   -> 4
                   [] req[r].pc = "login"  -> 3 - req[r].looks
                   [] req[r].pc = "send"   -> 1
                   [] OTHER                -> 0

AttemptsAndAwaits(r) == 6 * req[r].tries + AwaitsLeft(r)

\* Each step of a request that holds the lock ends it or takes from what is left,
\* and nothing else adds to that: not the loss of a browser, not another
\* request, and shutdown ends it.
AttemptsCountDown ==
  [][\A r \in Requests : req[r].pc \in Locked =>
       \/ req'[r].pc = "over"
       \/ req'[r].pc \in Locked /\ AttemptsAndAwaits(r)' < AttemptsAndAwaits(r)
       \/ req'[r] = req[r] /\ ~Request(r)]_allVars

LEMMA AttemptType ==
  ASSUME LoginTypeOK, NEW r \in Requests
  PROVE  /\ req[r] \in RequestState /\ req[r].tries \in Nat /\ req[r].looks \in 0 .. 1
         /\ AttemptsAndAwaits(r) \in Nat
<1>1. req[r] \in RequestState
  BY DEF LoginTypeOK, ServiceTypeOK
<1>2. req[r].tries \in Nat /\ req[r].looks \in 0 .. 1
  BY <1>1, ProviderLoginAssumption DEF RequestState
<1>3. AwaitsLeft(r) \in 0 .. 5
  BY <1>2 DEF AwaitsLeft
<1> QED  BY <1>1, <1>2, <1>3 DEF AttemptsAndAwaits

LEMMA FailureCounts ==
  ASSUME LoginTypeOK, NEW r \in Requests, req[r].pc \in Locked \ {"backoff"},
         NEW login \in BOOLEAN, AttemptFails(r, login)
  PROVE  \/ req'[r].pc = "over"
         \/ req'[r].pc \in Locked /\ AttemptsAndAwaits(r)' < AttemptsAndAwaits(r)
<1>1. req \in [Requests -> RequestState] /\ req[r].tries \in Nat /\ req[r].looks \in 0 .. 1
  BY AttemptType DEF LoginTypeOK, ServiceTypeOK
<1>2. PICK pc \in {"over", "backoff"} : req' = [req EXCEPT ![r].pc = pc]
  BY DEF AttemptFails
<1>3. req'[r].pc = pc /\ req'[r].tries = req[r].tries
  BY <1>1, <1>2 DEF RequestState
<1>4. CASE pc = "over"
  BY <1>3, <1>4
<1>5. CASE pc = "backoff"
  <2>1. AttemptsAndAwaits(r)' = 6 * req[r].tries /\ AwaitsLeft(r) > 0
    BY <1>1, <1>3, <1>5 DEF AttemptsAndAwaits, AwaitsLeft, Locked
  <2>2. AwaitsLeft(r) \in 1 .. 5
    BY <1>1, <2>1 DEF AwaitsLeft
  <2> QED  BY <1>1, <1>3, <1>5, <2>1, <2>2 DEF AttemptsAndAwaits, Locked
<1> QED  BY <1>4, <1>5

LEMMA RequestCounts ==
  ASSUME LoginTypeOK, NEW r \in Requests, req[r].pc \in Locked, Request(r)
  PROVE  \/ req'[r].pc = "over"
         \/ req'[r].pc \in Locked /\ AttemptsAndAwaits(r)' < AttemptsAndAwaits(r)
<1>1. /\ req \in [Requests -> RequestState] /\ req[r].tries \in Nat /\ req[r].looks \in 0 .. 1
  BY AttemptType DEF LoginTypeOK, ServiceTypeOK
<1>2. /\ req'[r].tries = req[r].tries
      /\ \/ req[r].pc = "lookup" /\ req'[r].pc = "page"
         \/ req[r].pc = "page" /\ req'[r].pc = "login" /\ req'[r].looks = 0
         \/ req[r].pc = "page" /\ req'[r].pc = "send"
         \/ req[r].pc = "login" /\ req'[r].pc = "login" /\ req[r].looks = 0 /\ req'[r].looks = 1
         \/ req[r].pc = "login" /\ req'[r].pc = "send"
      => req'[r].pc \in Locked /\ AttemptsAndAwaits(r)' < AttemptsAndAwaits(r)
  BY <1>1 DEF AttemptsAndAwaits, AwaitsLeft, Locked
<1>3. ASSUME NEW login \in BOOLEAN, AttemptFails(r, login), req[r].pc # "backoff"
      PROVE  \/ req'[r].pc = "over"
             \/ req'[r].pc \in Locked /\ AttemptsAndAwaits(r)' < AttemptsAndAwaits(r)
  BY <1>3, FailureCounts
<1>4. CASE Lookup(r)
  <2>1. CASE AttemptFails(r, TRUE)
    BY <1>3, <1>4, <2>1 DEF Lookup
  <2>2. CASE req' = [req EXCEPT ![r].pc = "page"]
    <3>1. req[r].pc = "lookup" /\ req'[r].pc = "page" /\ req'[r].tries = req[r].tries
      BY <1>1, <1>4, <2>2 DEF Lookup, RequestState
    <3> QED  BY <1>2, <3>1
  <2> QED  BY <1>4, <2>1, <2>2 DEF Lookup
<1>5. CASE GetPage(r)
  <2>1. CASE req' = [req EXCEPT ![r].pc = "send"]
    <3>1. req[r].pc = "page" /\ req'[r].pc = "send" /\ req'[r].tries = req[r].tries
      BY <1>1, <1>5, <2>1 DEF GetPage, RequestState
    <3> QED  BY <1>2, <3>1
  <2>2. CASE req' = [req EXCEPT ![r].pc = "login", ![r].seen = 0, ![r].looks = 0]
    <3>1. /\ req[r].pc = "page" /\ req'[r].pc = "login" /\ req'[r].tries = req[r].tries
          /\ req'[r].looks = 0
      BY <1>1, <1>5, <2>2 DEF GetPage, RequestState
    <3> QED  BY <1>2, <3>1
  <2> QED  BY <1>5, <2>1, <2>2 DEF GetPage
<1>6. CASE PageFails(r)
  BY <1>3, <1>6 DEF PageFails
<1>7. CASE RequestLogin(r)
  <2>1. CASE \E v : req' = [req EXCEPT ![r].seen = v, ![r].looks = 1] /\ req[r].looks = 0
    <3>1. /\ req[r].pc = "login" /\ req'[r].pc = "login" /\ req'[r].tries = req[r].tries
          /\ req[r].looks = 0 /\ req'[r].looks = 1
      BY <1>1, <1>7, <2>1 DEF RequestLogin, RequestState
    <3> QED  BY <1>2, <3>1
  <2>2. CASE req' = [req EXCEPT ![r].pc = "send"]
    <3>1. req[r].pc = "login" /\ req'[r].pc = "send" /\ req'[r].tries = req[r].tries
      BY <1>1, <1>7, <2>2 DEF RequestLogin, RequestState
    <3> QED  BY <1>2, <3>1
  <2>3. CASE AttemptFails(r, LoginFailure(Sees("request")))
    <3>1. LoginFailure(Sees("request")) \in BOOLEAN
      BY DEF LoginFailure, Qwen
    <3>2. req[r].pc = "login"
      BY <1>7 DEF RequestLogin
    <3> QED  BY <1>3, <2>3, <3>1, <3>2
  <2> QED  BY <1>7, <2>1, <2>2, <2>3 DEF RequestLogin
<1>8. CASE Send(r)
  <2>1. CASE req' = [req EXCEPT ![r].pc = "over"]
    BY <1>1, <2>1 DEF RequestState
  <2>2. CASE \E login \in BOOLEAN : AttemptFails(r, login)
    BY <1>3, <1>8, <2>2 DEF Send
  <2> QED  BY <1>8, <2>1, <2>2 DEF Send
<1>9. CASE Retry(r)
  <2>1. CASE req' = [req EXCEPT ![r].pc = "lookup", ![r].tries = @ - 1]
    <3>1. req[r].pc = "backoff" /\ req'[r].pc = "lookup" /\ req'[r].tries = req[r].tries - 1
      BY <1>1, <1>9, <2>1 DEF Retry, RequestState
    <3> QED  BY <1>1, <3>1 DEF AttemptsAndAwaits, AwaitsLeft, Locked
  <2>2. CASE req' = [req EXCEPT ![r].pc = "over"]
    BY <1>1, <2>2 DEF RequestState
  <2> QED  BY <1>9, <2>1, <2>2 DEF Retry
<1> QED
  BY <1>4, <1>5, <1>6, <1>7, <1>8, <1>9 DEF Request, GetLock, Locked

\* A step of another request, of the login, or of the world around them.
LEMMA OthersLeaveAttempt ==
  ASSUME LoginTypeOK, [LoginStep]_allVars, NEW r \in Requests, req[r].pc \in Locked, ~Request(r)
  PROVE  req'[r].pc = "over" \/ req'[r] = req[r]
<1>1. req \in [Requests -> RequestState]
  BY DEF LoginTypeOK, ServiceTypeOK
<1>2. CASE Startup \/ Watcher
  BY <1>2 DEF Startup, Begin, StartLaunch, StartFails, StartLook, Watcher, WatchEnds, WatchLook, Verify,
         HandoffStop, HandoffStopFails, HandoffStart, HandoffProbe, HandoffUndo, HandoffRestore
<1>3. ASSUME NEW s \in Requests, Admit(s) \/ Request(s) PROVE req'[r] = req[r]
  <2>1. s # r
    BY <1>3 DEF Admit, Locked
  <2>2. \E q : req' = [req EXCEPT ![s] = q]
    BY <1>1, <1>3 DEF Admit, Request, GetLock, Lookup, GetPage, PageFails, RequestLogin, Send, Retry, AttemptFails
  <2> QED  BY <1>1, <2>1, <2>2
<1>4. CASE CancelJobs
  BY <1>1, <1>4 DEF CancelJobs, RequestState
<1>5. CASE BrowserLost \/ PageCrashed \/ SecondaryPageGone \/ StopBrowser \/ SignIn \/ SiteChanges \/ UNCHANGED allVars
  BY <1>5 DEF BrowserLost, PageCrashed, SecondaryPageGone, StopBrowser, SignIn, SiteChanges, allVars, loginVars
<1> QED
  BY <1>2, <1>3, <1>4, <1>5 DEF LoginStep, LoginNext

\* A request that was let in ends after a bounded number of its own steps, for
\* any retries, other requests, and order in which browsers are lost, logins
\* interrupted and the service shut down.
THEOREM RequestsAreBounded ==
  LoginSpec => [](\A r \in Requests : AttemptsAndAwaits(r) \in Nat) /\ AttemptsCountDown
<1>1. LoginTypeOK => \A r \in Requests : AttemptsAndAwaits(r) \in Nat
  BY AttemptType
<1>2. LoginTypeOK /\ [LoginStep]_allVars =>
        [\A r \in Requests : req[r].pc \in Locked =>
           \/ req'[r].pc = "over"
           \/ req'[r].pc \in Locked /\ AttemptsAndAwaits(r)' < AttemptsAndAwaits(r)
           \/ req'[r] = req[r] /\ ~Request(r)]_allVars
  BY RequestCounts, OthersLeaveAttempt
<1> QED  BY <1>1, <1>2, LoginTypeCorrect, PTL DEF LoginSpec, AttemptsCountDown

=============================================================================
