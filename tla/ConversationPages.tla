-------------------------- MODULE ConversationPages -------------------------
(***************************************************************************)
(* How a provider service serves conversations on browser pages            *)
(* (src/wmadapter/service.py): every conversation keeps a page of its own, *)
(* pages are capped, idle ones are closed before a new one is opened, and  *)
(* a failed turn restarts the browser and is tried again.                  *)
(*                                                                         *)
(* One request at a time holds _request_lock, so there is one worker; what *)
(* interleaves with it at its awaits is the user closing pages, pages and  *)
(* browser crashing, and time passing.  The login state is left out: where *)
(* it makes a call raise, the call may fail.                               *)
(***************************************************************************)
EXTENDS BrowserPages

CONSTANTS
  AutoConv,       \* "auto:openclaw", of requests that name no conversation
  Providers,  \* the providers to consider
  MaxPages,   \* browser.max_pages
  Retries,    \* restart_retries
  UserEvents, \* pages are closed by the user, and the browser ends
  Crashes     \* pages crash

ASSUME ConversationPagesAssumption ==
  /\ AutoConv \in Convs
  /\ Providers \subseteq {"deepseek", "qwen"}
  /\ MaxPages \in Nat \ {0}
  /\ Retries \in Nat
  /\ UserEvents \in BOOLEAN /\ Crashes \in BOOLEAN

VARIABLES
  provider,   \* whose service this is; never changes
  alias,      \* _conversation_pages
  fallback,   \* _fallback_aliases of DeepSeek: {AutoConv} at first
  tracked,    \* pages with a record in _page_records
  idle,       \* tracked pages not used for idle_timeout_ms
  active,     \* tracked pages whose record counts a request
  holds,      \* whose chat each page shows: the conversation it answered
  w           \* the request that holds _request_lock

aliasVars == <<alias, fallback>>
serviceVars == <<aliasVars, tracked, idle, active>>
pageVars == <<browserVars, serviceVars, holds, w>>

Qwen == provider = "qwen"

\* "refused" and "failed" are the backoff before a restart, after a capacity
\* error and after any other.
Worker == [pc    : {"free", "resolve", "sweep", "open", "goto", "send", "refused", "failed"},
           conv  : Claimants,
           page  : Pages \cup {NoPage},
           tries : 0 .. Retries + 1,
           pass  : {"first", "login", "last"},
           left  : SUBSET Pages]

PagesTypeOK ==
  /\ provider \in Providers
  /\ BrowserTypeOK
  /\ alias \in [Convs -> Pages \cup {NoPage}]
  /\ fallback \subseteq Convs
  /\ tracked \subseteq Pages /\ idle \subseteq tracked /\ active \subseteq tracked
  /\ holds \in [Pages -> Claimants]
  /\ w \in Worker

FreeWorker == [pc |-> "free", conv |-> NoConv, page |-> NoPage, tries |-> 0,
               pass |-> "first", left |-> {}]

\* Page objects the program has let go of.
Fresh == {p \in Pages : ~IsOpen(p) /\ p \notin owned \cup tracked \cup {primary, w.page}
                          /\ (\A k \in Claimants : claims[k] # p)
                          /\ (\A c \in Convs : alias[c] # p)}

-----------------------------------------------------------------------------
(* Helpers of the service.                                                 *)

Track(p) == tracked' = tracked \cup {p} /\ idle' = idle \ {p}

\* _remove_page, without the manager's part.
RemovePage(p) ==
  /\ alias' = [c \in Convs |-> IF alias[c] = p THEN NoPage ELSE alias[c]]
  /\ tracked' = tracked \ {p}
  /\ idle' = idle \ {p}
  /\ active' = active \ {p}
  /\ UNCHANGED fallback

\* A page that was closed shows nothing.
Shown(h) == [p \in Pages |-> IF tab'[p] = "closed" THEN NoConv ELSE h[p]]

\* The lookups one attempt makes: Qwen repeats the first one before it sends,
\* and when it is not ready also for the login.
NextPass == CASE ~Qwen \/ w.pass = "last" -> {"done"}
              [] w.pass = "login"         -> {"last"}
              [] OTHER                    -> {"login", "last"}

\* A lookup returned page p, which the first marks active; the login keeps it
\* in a variable of its own.
Granted(p) ==
  /\ active' = IF w.pass = "first" THEN active \cup {p} ELSE active
  /\ \E next \in NextPass :
       w' = [w EXCEPT !.pc   = IF next = "done" THEN "send" ELSE "resolve",
                      !.page = IF w.pass = "login" THEN @ ELSE p,
                      !.pass = IF next = "done" THEN @ ELSE next]

\* The finally clause: the page of the local variable is marked inactive.
MarkInactive == active' = active \ {w.page}

\* Mutant: an exception leaves the page marked.
RaiseUnmarked(pc) ==
  /\ w' = IF w.tries > 1 THEN [w EXCEPT !.pc = pc] ELSE FreeWorker
  /\ UNCHANGED active

\* An exception other than an uncertain submission or a login failure waits
\* to restart while attempts are left; any other ends the request.
Raise(pc) ==
  /\ MarkInactive
  /\ w' = IF w.tries > 1 THEN [w EXCEPT !.pc = pc] ELSE FreeWorker

-----------------------------------------------------------------------------
(* complete, complete_with_attachments, generate_image                     *)

\* A request gets the lock.  Images are tried once.
Begin(c) ==
  /\ w.pc = "free"
  /\ \E tries \in IF Qwen THEN {1, Retries + 1} ELSE {Retries + 1} :
       w' = [FreeWorker EXCEPT !.pc = "resolve", !.conv = c, !.tries = tries]
  /\ UNCHANGED <<browserVars, serviceVars, holds>>

\* _page_for_conversation: the conversation's page is open.
Reuse ==
  /\ w.pc = "resolve"
  /\ IsOpen(alias[w.conv])
  /\ Track(alias[w.conv])
  /\ Granted(alias[w.conv])
  /\ UNCHANGED <<browserVars, aliasVars, holds>>

\* _page_for_conversation: it is not; a closed page is removed, and
\* cleanup_pages collects the idle records.
Miss ==
  /\ w.pc = "resolve"
  /\ ~IsOpen(alias[w.conv])
  /\ RemovePage(alias[w.conv])
  /\ Release({alias[w.conv]})
  /\ w' = [w EXCEPT !.pc = "sweep", !.left = (idle \ active) \ {alias[w.conv]}]
  /\ UNCHANGED <<tab, up, live, reported, holds>>

\* cleanup_pages: an idle page loses its aliases and record and is closed.
Sweep(p) ==
  /\ w.pc = "sweep"
  /\ p \in w.left
  /\ RemovePage(p)
  /\ ReleaseAndClose(p)
  /\ w' = [w EXCEPT !.left = @ \ {p}]
  /\ holds' = Shown(holds)

\* Mutant: off by one.
FullWhenOver == Cardinality(tracked) > MaxPages

Full == Cardinality(tracked) >= MaxPages

\* _page_for_conversation: PageCapacityError.
Refuse ==
  /\ w.pc = "sweep" /\ w.left = {}
  /\ Full
  /\ Raise("refused")
  /\ UNCHANGED <<browserVars, aliasVars, tracked, idle, holds>>

Swept ==
  /\ w.pc = "sweep" /\ w.left = {}
  /\ ~Full
  /\ w' = [w EXCEPT !.pc = "open"]
  /\ UNCHANGED <<browserVars, serviceVars, holds>>

\* A page becomes the conversation's.  That of AutoConv becomes that of every
\* alias that is remembered as another name of AutoConv.
AliasTo(p) ==
  /\ alias' = [c \in Convs |-> IF c = w.conv \/ (w.conv = AutoConv /\ c \in fallback)
                               THEN p ELSE alias[c]]
  /\ UNCHANGED fallback

\* Mutant: a page is tracked only once it has been taken to the site.
AdoptThenTrack(p) ==
  /\ AliasTo(p)
  /\ IF tab'[p] = "blank"
     THEN w' = [w EXCEPT !.pc = "goto"] /\ UNCHANGED <<tracked, idle, active>>
     ELSE Track(p) /\ Granted(p)

\* _page_for_conversation: the page is tracked and becomes the
\* conversation's.  Qwen takes a new page to the site before it is returned.
Adopt(p) ==
  /\ Track(p)
  /\ AliasTo(p)
  /\ IF Qwen /\ tab'[p] = "blank"
     THEN w' = [w EXCEPT !.pc = "goto"] /\ UNCHANGED active
     ELSE Granted(p)

Open ==
  /\ w.pc = "open"
  /\ \/ \E p \in Pages : PageForExisting(w.conv, p) /\ Adopt(p) /\ UNCHANGED holds
     \/ \E p \in Fresh : /\ \/ PageForNew(w.conv, p)
                            \/ \E launch \in Fresh : PageForLaunched(w.conv, launch, p)
                         /\ Adopt(p)
                         /\ holds' = Shown(holds)

\* start() or new_page() raises; a start discards the lost browser first.
OpenFails ==
  /\ w.pc = "open"
  /\ IF live THEN UNCHANGED browserVars ELSE LaunchFailed
  /\ Raise("failed")
  /\ holds' = Shown(holds)
  /\ UNCHANGED <<aliasVars, tracked, idle>>

\* _bootstrap_page
Bootstrap ==
  /\ w.pc = "goto"
  /\ IsOpen(alias[w.conv])
  /\ Navigate(alias[w.conv])
  /\ Granted(alias[w.conv])
  /\ UNCHANGED <<aliasVars, tracked, idle, holds>>

\* _authenticate of DeepSeek
LoginGoto ==
  /\ ~Qwen
  /\ w.pc = "send"
  /\ Navigate(w.page)
  /\ UNCHANGED <<serviceVars, holds, w>>

\* The provider answers on the page.
Answer ==
  /\ w.pc = "send"
  /\ tab[w.page] = "chat"
  /\ holds' = [holds EXCEPT ![w.page] = w.conv]
  /\ MarkInactive
  /\ w' = FreeWorker
  /\ UNCHANGED <<browserVars, aliasVars, tracked, idle>>

\* Login, navigation or the turn fails.
Fail ==
  /\ w.pc \in {"goto", "send"} \/ (w.pc = "resolve" /\ w.pass = "last")
  /\ Raise("failed")
  /\ UNCHANGED <<browserVars, aliasVars, tracked, idle, holds>>

\* provider_login_required, a login failure or UncertainSubmitError: no retry.
GiveUp ==
  /\ w.pc \in {"resolve", "goto", "send"}
  /\ MarkInactive
  /\ w' = FreeWorker
  /\ UNCHANGED <<browserVars, aliasVars, tracked, idle, holds>>

\* Whoever shares the page of AutoConv.
Sharers == {c \in Convs : alias[AutoConv] # NoPage /\ alias[c] = alias[AutoConv]}

\* Before a restart Qwen drops the aliases; DeepSeek (_clear_conversation_pages)
\* drops aliases and records, and remembers who shared the page of AutoConv.
DropPages ==
  /\ alias' = [c \in Convs |-> NoPage]
  /\ IF Qwen THEN UNCHANGED <<fallback, tracked, idle, active>>
     ELSE /\ fallback' = fallback \cup Sharers
          /\ tracked' = {} /\ idle' = {} /\ active' = {}

\* Mutants: attempts are not counted; the browser is not restarted.
RetryForever ==
  /\ w.pc \in {"refused", "failed"}
  /\ DropPages
  /\ \E launch \in Fresh : Restart(launch)
  /\ w' = [FreeWorker EXCEPT !.pc = "resolve", !.conv = w.conv, !.tries = w.tries]
  /\ holds' = Shown(holds)

RetryInPlace ==
  /\ w.pc \in {"refused", "failed"}
  /\ DropPages
  /\ w' = [FreeWorker EXCEPT !.pc = "resolve", !.conv = w.conv, !.tries = w.tries - 1]
  /\ UNCHANGED <<browserVars, holds>>

Retry ==
  /\ w.pc \in {"refused", "failed"}
  /\ DropPages
  /\ \E launch \in Fresh : Restart(launch)
  /\ w' = [FreeWorker EXCEPT !.pc = "resolve", !.conv = w.conv, !.tries = w.tries - 1]
  /\ holds' = Shown(holds)

RetryFails ==
  /\ w.pc \in {"refused", "failed"}
  /\ DropPages
  /\ LaunchFailed
  /\ w' = FreeWorker
  /\ holds' = Shown(holds)

-----------------------------------------------------------------------------
(* What happens meanwhile.                                                 *)

GoIdle(p) ==
  /\ p \in tracked \ idle
  /\ idle' = idle \cup {p}
  /\ UNCHANGED <<browserVars, aliasVars, tracked, active, holds, w>>

Environment ==
  /\ \/ UserEvents /\ BrowserGone
     \/ UserEvents /\ (\E p \in Pages : PageClosed(p))
     \/ Crashes /\ (\E p \in Pages : PageCrashed(p))
  /\ holds' = Shown(holds)
  /\ UNCHANGED <<serviceVars, w>>

-----------------------------------------------------------------------------

\* After start(): DeepSeek logged in on its launch page, which is the primary
\* page; Qwen on a page of its own next to the blank launch page.
PagesInit ==
  /\ provider \in Providers
  /\ \E launch, login \in Pages :
       /\ IF Qwen THEN launch # login ELSE launch = login
       /\ tab = [p \in Pages |-> IF p = login THEN "chat"
                                 ELSE IF p = launch THEN "blank" ELSE "closed"]
       /\ owned = IF Qwen THEN {login} ELSE {}
       /\ claims = [k \in Claimants |-> IF Qwen /\ k = NoConv THEN login ELSE NoPage]
       /\ primary = IF Qwen THEN NoPage ELSE login
       /\ tracked = owned
  /\ up = TRUE /\ live = TRUE /\ reported = FALSE
  /\ alias = [c \in Convs |-> NoPage]
  /\ fallback = {AutoConv}
  /\ idle = {} /\ active = {}
  /\ holds = [p \in Pages |-> NoConv]
  /\ w = FreeWorker

Serve ==
  \/ Reuse \/ Miss \/ Refuse \/ Swept \/ Open \/ OpenFails \/ Bootstrap \/ LoginGoto
  \/ Answer \/ Fail \/ GiveUp \/ Retry \/ RetryFails
  \/ \E p \in Pages : Sweep(p)

PagesNext ==
  \/ \E c \in Convs : Begin(c)
  \/ Serve
  \/ \E p \in Pages : GoIdle(p)
  \/ Environment

PagesStep == PagesNext /\ UNCHANGED provider

PagesSpec == PagesInit /\ [][PagesStep]_<<pageVars, provider>>

\* Every await of a turn is bounded: by the timeouts of the adapters, of
\* playwright, and of the backoff.
PagesFairSpec == PagesSpec /\ WF_pageVars(Serve)

-----------------------------------------------------------------------------

\* The names that are one conversation to the service.
Names(c) == IF c \in fallback THEN fallback ELSE {c}

\* A page that shows one conversation's chat never answers for another: not
\* after it was released, crashed, lost its browser or survived a restart; only
\* the names that DeepSeek remembers for AutoConv share a chat.
ChatsStayApart ==
  [][\A p \in Pages : holds[p] # NoConv => holds'[p] \in Names(holds[p]) \cup {NoConv}]_pageVars

\* Requests without an identifier share a conversation, but "explicit
\* identifiers remain isolated": no name becomes one for AutoConv by accident.
ExplicitStaysIsolated ==
  [][\A p \in Pages : holds[p] # NoConv => holds'[p] \in {holds[p], NoConv}]_pageVars

\* The browser never shows more pages than the cap and the launch page.
OpenWithinCap == Cardinality({p \in Pages : IsOpen(p)}) <= MaxPages + 1

\* Every page the gateway opened and still shows has a record, the condition
\* for counting it and for reclaiming it when idle; the retry window of
\* DeepSeek, which drops records just before it closes the pages, is one step.
OpenPagesAreTracked ==
  \A p \in Pages : IsOpen(p) /\ (p \in owned \/ \E c \in Convs : alias[c] = p) => p \in tracked

\* No request leaves its page marked active: such a page would never be
\* reclaimed.
ActiveOnlyWhileServing == w.pc = "free" => active = {}

\* Every request that got the lock gives it back.
RequestReleasesLock == w.pc # "free" ~> w.pc = "free"

=============================================================================
