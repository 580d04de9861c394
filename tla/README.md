# wmadapter in TLA+

wmadapter is a local gateway. It offers an OpenAI-style HTTP API and serves it
by driving the web chat of a provider (DeepSeek, Qwen) in a managed Chromium.
Everything runs on one asyncio event loop, so the interesting interleavings are
those at its `await`s: HTTP handlers, inference tasks, the login watcher, browser
callbacks, and a user who may close a page or sign in at any moment.

This directory holds TLA+ modules that model that program, the TLC
configurations that check them, and TLAPS proofs about them. Paths below are
relative to the repository; `service.py` and so on stand for files under
`src/wmadapter/`.

## 1. Inventory

| Component | State it keeps | Operations | Status |
|---|---|---|---|
| Inference job store, `jobs.py` | jobs by id, idempotency map, one task per job | `create`, `get`, `_run`, `_purge`, `cancel_all` | modelled: `JobStore`, `KeyedWork` |
| Chat completion routes, `main.py` | nothing but their local state and the job they hold | admission, wait, stream with heartbeat and watchdog, async and poll, disconnect, shutdown | modelled: `ChatCompletions` |
| Browser page ownership, `browser/manager.py` | context, owned pages, claims, primary page, reported flag | `page_for`, `release_page`, `restart`, page close and crash callbacks | modelled: `BrowserPages` |
| Conversation pages, `service.py` | alias per conversation, page records, request lock | `complete`, attachments, image generation, page lookup, idle cleanup, capacity, retry | partly: `ConversationPages` |
| Provider login, `service.py`, `deepseek/login.py`, `qwen/chat.py` | `auth_state`, `ready`, watcher task | `start`, `_authenticate`, `_watch_auth`, handoff, verification, disconnect callback, `stop` | partly: `ProviderLogin`, `BrowserUse` |
| Browser lifecycle, `browser/manager.py`, `browser/supervisor.py` | headed or headless context, profile lock | `start`, `stop`, `restart`, `handoff_to_headless` | partly: in `ProviderLogin`, `BrowserPages` and `LoginCommand` |
| Provider router, `providers/router.py` | services by provider, startup errors | `start`, `stop`, model resolution | partly: start and stop of one provider |
| Provider turn and submission, `providers/*/chat.py`, `submit.py`, `service.py` | submit state, text before the gesture and seen so far | `send_message`, `recover_response`, attempts around them | modelled: `ProviderTurn`, `PromptTurns` |
| Responses state, `providers/state.py`, `main.py` | the conversation of each response id | receive, resolve, run, remember, restart | modelled: `Responses` |
| Tool-call protocol and recovery, `legacy.py`, `protocol.py`, `normalizer.py`, `recovery.py` | none between turns; the history is the agent's | bound, compact, prompt, read a call, continue, repair | partly: `AgentLoop`, and the turns of a repair in `ProviderTurn` |
| Request validation, `api/validation.py`, `contract.py` | none | `validate_chat`, `normalize_tool_calls` | partly: `AgentLoop` |
| Manual login and configuration, `manual_auth.py`, `config.py` | the configuration file, the profile and its lock, the external browser | login, hand-over, clean-up, load and save | modelled: `LoginCommand` |
| Command line and service control, `__main__.py` | whether the service runs | `login`, `provider`, `proxy`, `service restart` | partly: `LoginCommand` |
| Streaming primitives, `providers/streaming.py` | none | used by nothing at this commit | not modelled |
| Managed browser distribution, `browser/distribution.py` | directories on disk | download, verify, activate | not modelled |
| Installers, logging, security, ports, image decoding, OpenClaw plugin | no state of the server | | not modelled |

How they interact:

    client -- HTTP --> main.py -- create/get/wait --> JobStore -- task --> router
                                                                            |
            auth watcher  <-- create_task --  service.py (request lock) <---+
                  |                               |
                  +------ page_for, restart, handoff, release_page ------+
                                                                         v
                         callbacks  <------------------------- BrowserManager
                  (disconnect, page close, page crash)                   |
                                                                      Chromium

- A handler awaits the provider's status, then creates or finds a job, and waits
  for its task through `asyncio.shield`. The task outlives the handler.
- The task calls the provider service, which serves one request at a time under
  `_request_lock`, asks the manager for pages and restarts it on failure.
- The manager calls back into the service when it believes the browser is lost.
- The shutdown of the lifespan stops the browsers first and cancels the jobs
  afterwards.
- An agent keeps the history of its session and sends all of it each time; a call the gateway
  read out of a web chat's answer comes back with its result and is validated.
- `wmadapter login` is another process: it stops the service through systemd, takes the
  provider's profile, and edits the configuration the service reads when it starts again.

What is hard about it, and what must hold:

- *Job store*: retries under one key while the work runs, has failed or is about
  to expire. No work is submitted twice, none is forgotten early, both dictionaries agree.
- *Routes*: waiters share a task, clients leave, a finished answer may be too long to hand
  out. A client gets what became of its own work, nobody cancels it but the shutdown, and
  every request ends.
- *Pages*: the close event of a page arrives inside the gateway's own call, pages
  crash, idle out and are closed by a user, while one set of names is remembered over restarts. Two conversations never share a chat, the
  cap holds, every page is accounted for, and the lock is released.
- *Login*: a startup task, a watcher and requests use one browser at different
  times, separated by nothing but the value of `ready`. They must stay apart, an
  interruption must end the watcher, and a user who signs in must get a ready provider.

- *Turns*: a click nobody can take back or be sure of, answers that come late, in
  pieces or in the block of the previous one. A prompt is sent at most once, a failure
  reported as unsent was unsent, and a chat without uncertain turns never returns a foreign answer.
- *Tool loop*: a web chat that knows no tools answers in any of several notations, whole or
  broken. What the agent is handed must be what it asked for and come back valid, and what the web chat is
  asked must hold what the agent said last, however much was cut.
- *Responses*: an id, a name, both or neither, while other turns run and the process
  restarts. A continuation stays in its conversation, and strangers never share one.
- *Login command*: three processes over one profile, one file and one service, without a common lock. The
  profile is free before the service starts, the service comes back, and only a reason enables a provider.

`PROJECT.json` lists each hazard at its line, with the property that would catch it.

## 2. Plan

Most important behaviour first:

1. `KeyedWork` and `JobStore`: what an idempotency key promises, the store, and a
   proof that the store implements the promise.
2. `ChatCompletions`: the routes composed with the store.
3. `BrowserPages` and `ConversationPages`: page ownership composed with the service.
4. `ProviderLogin`: startup, watcher, handoff and requests over one browser.
5. `ProviderTurn`: submission, answers and repairs on a provider's page.
6. `AgentLoop`: the tool loop between an agent and a web chat, with validation, compaction,
   parsing and recovery.
7. `LoginCommand`: the command line beside the service.
8. `Responses`: continuation by response id.
9. The proofs: one module for each of `JobStore`, `ChatCompletions`, `ConversationPages`, `ProviderLogin`,
   `ProviderTurn`, `AgentLoop`, `LoginCommand` and `Responses`.

10. The abstract specifications `PromptTurns` and `BrowserUse`, and proofs that `ProviderTurn` and
   `ProviderLogin` implement them.
11. The safety half of the liveness properties: measures that the steps of a turn and of a request decrease.

What would come next: the other half, which needs `ENABLED`: that a step which counts down is there to be taken.

## 3. The modules

### KeyedWork

The abstract specification. Under every key there is one slot that is free, busy or
settled. Work begins under a free key, settles once, and only settled work is forgotten,
any number of keys at once. Closing abandons everything.

### PromptTurns and BrowserUse

The other two abstract specifications. `PromptTurns` says what the turns of a request promise its client: one prompt is
under way at a time, it is sent at most once and during its turn only, a turn ends once, "presubmit" is said only of
an unsent one, and a repair follows answers only. `ProviderTurn` implements it with `current` as the prompt
under the lock, `sent` as it is, and `ended` and `over` as the ends of turns and the requests that have an outcome; attempts, restarts and
looks are stutters.

`BrowserUse` says who uses the one browser of a provider: the startup, then the watcher, then one request at a time,
then nobody, in this order and never back, and only the user opens the browser or finds the provider ready. `ProviderLogin`
implements it: `Stage` reads the user off `startup`, `watcher`, `ready` and the requests; `holders` is the requests in
their lookup, login, turn or backoff; `browser` and `ready` are its own variables.

### JobStore (`jobs.py`)

| Model | Code |
|---|---|
| `jobs` | every `InferenceJob` object with the state of its task; outlives the store |
| `stored`, `idem` | `self._jobs`, `self._idempotency` |
| `now`, `Tick` | `time.time()` |
| `CreateNew`, `CreateReuse`, `CreateConflict` | the three ways through `create`, each with its purge |
| `Get` | `get`, with its purge |
| `RunStart`, `RunReturn`, `RunRaise`, `RunCancelled` | the task from its first turn to its `finally` |
| `CancelAll` | `cancel_all` at shutdown |

`create`, `get` and `cancel_all` have no `await`, so each is one action. A task that is
cancelled before its first turn never enters `_run`; one that was cancelled while it runs
may still raise something else.

### ChatCompletions (`main.py`)

Extends `JobStore`. `req[r]` is a handler: the mode of the request, key, payload, job and answer.
`Arrive` and `RejectNotReady` are separate steps around the `await` of the provider's
status. `Admit` is `create` together with what the handler does next. `AnswerStream` and
`Watchdog` follow `events()`. `Oversized` names the jobs whose result is longer than
`limits.max_output_chars`: each handler that hands such a result out ends in an error (`_enforce_output_limit`), whatever the
job says. A job that fails with a bare `TimeoutError` would be taken for the watchdog by `main.py:625`, but neither
provider raises one: both loops turn it into `PreSubmitError` or `UncertainSubmitError`, so a failure is one failure here.
`Poll` is `retrieve_chat_completion`. `Shutdown` happens once no handler is left, as
uvicorn closes connections before it ends the lifespan.

### BrowserPages (`browser/manager.py`)

Operators, not a specification of its own: the manager's state (`live`, `reported`, `owned`,
`claims`, `primary`), what the pages show (`tab`), whether Chromium runs (`up`), and one
operator per call or callback. `live` and `up` differ on purpose: the manager drops a
context that still runs, and keeps one that does not. A page object that nothing refers
to any more may be reused for a page opened later (`Fresh`), which bounds `Pages`.

### ConversationPages (`service.py`)

Extends `BrowserPages` with the service's `alias` (`_conversation_pages`), `tracked`,
`idle` and `active` (`_page_records`), and one worker `w`, the request that holds
`_request_lock`. Its `pc` names the await it is suspended at:

    resolve -> (sweep -> open [-> goto]) -> send -> free
       any failure -> refused | failed -> restart -> resolve

Between the steps a page may be closed by the user, crash or become idle, or the browser may
end. `AutoConv` is `"auto:openclaw"`, the conversation of DeepSeek's requests that name none; `fallback` is `_fallback_aliases`,
the names that shared its page at some restart and follow it to every later one (`Sharers`, `AliasTo`). `bind_conversation`, the
other way to give a conversation a second name, has no caller and is not modelled.
`holds` is a history variable: the conversation a page last answered. `provider` is
chosen once from `Providers` and never changes (in `ProviderLogin` and `ProviderTurn` as well); it
selects the differences between the two services: Qwen repeats its lookup in
a turn, navigates before it returns a page, keeps its records over a restart and serves images.

### ProviderLogin (`service.py`, `browser/manager.py`, `deepseek/login.py`, `qwen/chat.py`)

| Model | Code |
|---|---|
| `auth`, `ready` | `auth_state`, `ready` |
| `browser`, `headless` | what runs; the mode a launch uses |
| `deaf` | the manager's context is reported already, its loss is not noticed |
| `alive` | owners whose page object is still open: startup, watcher, handoff, request |
| `view` | what the provider's site shows the user |
| `startup` | the task that runs `start` |
| `watcher` | the task of `_watch_auth`, through handoff and verification |
| `req` | requests: gate, lock, attempts |
| `phase` | up, browser stopped, jobs cancelled |
| `trouble` | history: a launch failed or the chat went away |

The browser is lost, its primary page crashes (`BrowserLost`, `PageCrashed`: the manager calls back), or a page that is
owned and not primary closes or crashes (`SecondaryPageGone`: it calls nobody). Qwen's login page is of the second kind, so its
watcher finds no page and returns without a word (`service.py:672-676`).

`looks` and `seen` model the probes, which report the chat only when they saw it twice in a
row. `StopBrowser` and `CancelJobs` are separate steps, so requests run between them as they
do in `lifespan`.

### ProviderTurn (`deepseek/chat.py`, `qwen/chat.py`, `service.py`, `recovery.py`, `main.py`)

| Model | Code |
|---|---|
| `w` | the turn that holds `_request_lock`: attempts left, what the page showed before the gesture, `last_text`, `stable_rounds` |
| `chat[c]` | what the site shows in the conversation's chat and in its chat for repairs: number of blocks, last text, prompts to answer |
| `req` | how far each request is: prompt, repair of a broken tool call, repair of structured output |
| `sent`, `result` | history: submissions of each prompt, how its turn ended |
| `Prepare`, `FailUnsent`, `Gesture` | `send_message` up to the click or Enter |
| `Look`, `WatchEnds`, `RecoverEnds` | the two observation loops and their deadlines |
| `Restart`, `RestartFails` | the attempt loop of `complete` |
| `Site...`, `PageClosed` | the site, external; a page closed between turns |

    prepare -> fill -> gesture -> watch -> recover -> uncertain
       failure: backoff -> restart -> prepare      | answer -> next turn, or over

The submit state is not a variable: it is `NOT_SUBMITTED` up to `fill` and
`SUBMITTED_UNCERTAIN` from the gesture on, which is what `UncertainAtGesture` says. A gesture
reaches the site or not and raises or not, in any combination. Two answers are different
texts, and so are two states of one answer, and an answer before and after it is rendered anew (`SiteRerenders`, for both
providers and at most `Rerenders` answers). An upload is part of filling the input.

### AgentLoop (`api/validation.py`, `main.py`, `providers/legacy.py`, `protocol.py`, `normalizer.py`, `recovery.py`)

| Model | Code |
|---|---|
| `hist`, `Ask`, `Execute`, `Keep` | the agent: its messages, a user's word, a call executed with its result, a text kept |
| `request`, `Send` | tools, choice, format, and `validate_chat` over the history |
| `NotReady`, `AnswerTitle` | `_require_provider_ready`; `_local_title`, which asks no web chat |
| `Prepare`, `Prepared` | `infer_legacy` up to its await: bound the results, compact, refuse what is over the budget |
| `Answers` | what a web chat may say: a text of a certain kind, or a call in a notation and a writing |
| `ReadCurrent`, `ReadLegacy` | the two parsers, and what each makes of the arguments |
| `Continuation` | `_openclaw_browser_continuation`, which knows the next Browser step |
| `FirstAnswer`, `RepairAnswer` | `ToolCallRecovery.resolve` before and after its one repair |
| `FormatAnswer` | the repair of structured output |
| `shown`, `RepairKeeps` | the messages that the text the web chat works on holds whole; `_compact_context` |
| `TooLong`, `GiveText` | the limits of input and output |

    received -> (title) | asked -> call | text | repair -> call | text | error
                                            \-> format -> text | error

A message is its role, its size in units of 512 characters, the identifier that ties a result
to its call, and what the parsers look for in its text. The agent's history is only ever
extended, so the agent may send it again after an error (`TryAgain`). Every message of the gateway's own that the history gets
has been handed out before: `hist` holds no call that an agent made up.

The calls a web chat writes come in five notations. `_has_known_tool_marker` (`protocol.py:771-779`) knows the first, the
DSML invocation and DeepSeek's tokens; a plain `<invoke name=...>` (`protocol.py:930`) and a bare object are read as calls when
they are whole and name a listed tool, and are prose otherwise (`Visible`: "raw").

A repair sends what `_compact_context` leaves of the prompt (its two ends, 12000 characters), with an instruction
behind it; no budget is checked again, so it may exceed one by that instruction. The repair of structured output sends the
first output (4096 characters at most) with an instruction, to the same conversation, and nothing of the history.

### LoginCommand (`__main__.py`, `manual_auth.py`, `config.py`, `browser/manager.py`)

| Model | Code |
|---|---|
| `file` | `config.yaml`, `Empty` between the two halves of `save_config` |
| `unit` | what systemd says of `wmadapter.service` |
| `lock`, `chrome` | the gateway's lock file of a profile; whose Chrome runs on it |
| `login`, `edit` | the commands that run |
| `entitled` | history: providers enabled at first, or by the user or a completed login since |

    loaded -> preparing -> [launching] -> signing -> [handoff -> reopening -> probing] -> closing
       -> saving -> writing -> resuming -> ended
    any failure after the launch -> failing (the finally clauses) -> resuming

A managed login takes the lock file and starts Chrome; an external one starts Chrome only,
which is why both are variables. Chrome refuses a profile on which another Chrome runs. A command may be interrupted
(`Interrupt`) at the launch, while it waits, while it closes the browser and while it saves; in the handoff (`HandoffFails`); in the `finally` of an external
login (`CleanUpBreaksOff`), where `playwright.stop()` may also raise; and while systemctl stops the service (`PauseFails`). The cleanup of the managed
browser is shielded (`manager.py:144-152`). An interruption of `systemctl start` itself is left out. `orphan` marks
an external Chrome that the command does not close: it was interrupted, or Playwright did not start, before the `try` that would
(`manual_auth.py:315-333`), or the `finally` was broken off (`379-387`). `barred` a provider that the file listed as disabled when it was loaded.

### Responses (`main.py`, `providers/state.py`)

`known` is `_response_conversations`; `turn[t]` is a request with the ids it gives; `Restart` empties
the registry and ends the turns under way. Response ids and conversations the gateway
opens are named by their turn, since both are fresh uuids. `retired` is a history variable.

### The proofs

`JobStoreProofs`, `ChatCompletionsProofs`, `ConversationPagesProofs`, `ProviderLoginProofs`, `ProviderTurnProofs`,
`AgentLoopProofs`, `LoginCommandProofs` and `ResponsesProofs`: see section 6. `MCJobStore` and `MCConversationPages` add the symmetry sets.

## 4. The runs

| Run | Result | What it shows |
|---|---|---|
| `JobStore` | pass | three jobs, two keys, two payloads: maps agree, nothing forgotten early, no second submission within retention, `KeyedWork` implemented |
| `ChatCompletions` | pass | two clients in any mode on one key, with watchdog, disconnect, late poll, an answer over the limit and shutdown: own answers, only shutdown cancels, every request ends |
| `Pages` | pass | either provider, three conversations, two places (for Qwen one is its login page), one retry, every page event: cap, accounting, chats apart |
| `PagesLive` | pass | a request always releases the lock |
| `FallbackAlias` | violated | a named conversation becomes one with that of the requests that name none |
| `Login` | pass | the whole life of either provider: the watcher excludes requests, an interruption ends it, a sign-in to Qwen makes it ready, and the browser is used in turn (`BrowserUse`) |
| `DeepSeekLogin` | violated | a DeepSeek sign-in under the watcher does not make it ready |
| `ProviderTurn` | pass | two requests of one conversation over up to five turns of either provider: nothing is sent twice, answers stray only after an uncertain turn or one that took an answer rendered anew, every turn ends, and `PromptTurns` is implemented |
| `AgentLoop` | pass | an agent with two tools, any choice or format, five messages of history, any notation, limits of input and output: the loop is refused for its length only, answers honour the request, no marker is shown, prompts keep the last message |
| `LoginCommand` | pass | two logins and an edit beside the service on two profiles: the profile comes back unless nobody closes an external Chrome, the service comes back, nothing is enabled without a reason |
| `DisabledLogin` | violated | a login enables a provider that the user has disabled |
| `Responses` | pass | three turns with any ids, failures and restarts: continuations stay, strangers stay apart |

The properties that pass are worth their place for these reasons:

- `OnceWithinRetention` relates two jobs and the clock at two moments. It breaks when
  payloads are not compared, when a finished job is not found, or when unfinished ones expire.
- `ForgottenOnlyAfterRetention` and `GoneOnlyAfterRetention` break when retention counts from
  creation, which no short test shows.
- `AnswerIsOwnWork`, `SharedKeySharesJob` and `CancelledOnlyAtShutdown` need two clients, and the last one
  breaks when the `shield` is dropped.
- `ChatsStayApart` says that a page which answered one conversation never answers another, whatever
  was released, crashed, lost or restarted in between; a page that looks like nobody's may still show a chat. Names that
  DeepSeek remembers for the conversation without a name count as one; that a name can become one of them by accident
  is what `FallbackAlias` shows.
- `OpenWithinCap` and `OpenPagesAreTracked` belong together: pages are capped by counting
  records, so every open page but the launch page must have one, over five paths that drop records.
- `ActiveOnlyWhileServing` must survive every exception: idle cleanup skips an
  active page for ever.
- `WatcherExcludesRequests` holds only through the order of `ready`, `auth_state` and the
  start of the watcher; no lock enforces it.
- `SubmittedAtMostOnce` and `PreSubmitMeansUnsent` relate the exceptions of a turn to what the site
  received, over retries, restarts and repairs; the architecture says that "uncertain or completed
  submissions are never replayed".
- `ImplementsPromptTurns` says more than both: also when a prompt may be sent, that a turn ends once, and that no
  repair follows a turn without an answer. It breaks when a repair is repaired once more.
- `ImplementsBrowserUse` adds to the exclusion who may open the browser and set `ready`, that requests are served
  one at a time, also while the service is shut down under them, and that none is admitted again after the last one of
  a provider that is not ready. It breaks when a request is served without the lock.
- `OwnOrLateAnswer` is as strong as the code allows. After one uncertain turn the site's late answer
  is taken for the next turn's, that one's for the turn after it, and so on: all later answers of the chat are
  one late, and TLC shows it when the exception for chats with an uncertain turn is dropped. The same follows a turn of
  DeepSeek's that took an older answer, rendered anew, for its own (`Astray`).
  `AnswerGivenOnce` says that even then none is handed out twice, but for that answer, as the other text it has become.
- `LoopNeverRejected` ties the parsers to the validation: five notations and five ways to write
  arguments, two parsers and a repair lie between what a web chat wrote and what `validate_chat` reads
  when the call comes back. Only the input limit may refuse such a history. It breaks when a result does not settle its call; its counterpart
  `LoopTypeOK` breaks when arguments are passed on as they were written.
- `AnswerHonoursRequest` must hold for every one of the ways an answer can take (first answer,
  continuation, repair, second reading, repair of the format), of which only some look at the choice.
- `NoMarkerLeaks` is about what a repair that fails again, a second reading or the repair of a format may become.
  It speaks of the markers the gateway knows; section 5 says what does leak.
- `PromptHoldsLast` relates compaction, the bounding of results, the budget and the cut of a repair: compaction never cuts the message
  the agent sent last, what is sent fits, and a repair loses that message only when it is more than half of what a repair may hold.
- `LoginGivesProfileBack` must survive a handoff that restores a browser, a Chrome that must be
  killed, and the interruptions listed in section 3; `PausedServiceIsStarted` and `EnabledForAReason` relate several processes
  that share no lock. The file may lose an edit and may be read half saved, which both models allow.
- `ContinuesItsConversation` and `StrangersApart` relate turns that overlap and span restarts: the
  registry resolves early and remembers late.

### Bounds, and why they suffice

- `JobStore`: `MaxTime = 2` with `Retention = 0` gives a moment before, at and after
  expiry. Three jobs allow a key to be used, expired and reused while another is in progress.
- `ChatCompletions`: one key, since keys do not interact in the store (`JobStore` has two);
  two payloads for conflicts; two jobs, so that both requests may have their own.
- Pages: one conversation more than the cap has places, since with as many nothing is ever
  refused: three conversations for two places, of which Qwen's login page takes one. Four page
  objects are what the places, the launch page, a page
  in hand and a stale record refer to at once; where none is free, opening is disabled and the
  other ways on (failure, give up) are explored. One retry means two attempts, and a third would begin
  from the same state as the second. `PagesLive` has a cap of one, DeepSeek and no symmetry.
- Login: `VerifyLooks = 3` stands for the deadline of the verification loop and is enough for a
  chat that is seen, lost and seen again. Two requests suffice for one in the lock and one
  in the queue. `Retries` is 2 in the passing run.
- Turns: two requests of which one asks for structured output give up to five turns over two chats, enough for an
  uncertain turn, the one that gets its answer, and one more that gets the next. `Parts = 2` lets an
  answer be seen unfinished; an answer that needs more observations than the site pauses
  is what the guard of `Look` demands. `Rerenders = 1` lets one answer that is shown or was taken be rendered anew, of
  either provider: Qwen counts blocks only and is safe from it, DeepSeek takes it for an answer, and the turns after it get what it left over.
- Agent loop: `MaxHistory = 5` is a wish, a call with its result, and another pair or a text and
  a wish, enough for an open page and the act on it. `Budget = 16` with sizes 1 and 6 makes some
  histories fit, some be compacted to a shorter tail, and some be refused; `Wording = 5` leaves little room with tools.
  `InputLimit = 14` refuses the longest histories, and `RepairLimit = 14` is below the budget (as 12000 characters are for the shipped
  models), so that a repair is cut, and a last message of size 6 is among what is cut.
- `FallbackAlias`: two conversations, a cap of two, crashes and one retry.
- `Oversized` holds one of the two jobs.
- Login commands: two logins for the competition of a managed and an external one, one edit, two
  profiles, one of which is handed over to a headless browser. `DisabledLogin` needs one login.
- Responses: three turns are an opening one, its continuation and a stranger; one name of a client.

All symmetry sets permute values that no property names, and no liveness property is checked
under symmetry. `CHECK_DEADLOCK FALSE` stands in the runs of `JobStore`, `ChatCompletions` and
`ProviderLogin`, because a gateway that was shut down stops, in those of `ProviderTurn`,
whose requests are finite, and in `AgentLoop`, where an agent stops when its answered history has
reached `MaxHistory`; the other runs check for deadlock.

### Fairness

- `ChatFairness`: the event loop runs every task and resumes every handler whose awaited
  task is done. Turns are bounded by timeouts in the adapters, so a running task ends. A
  client that was told to poll polls. Nothing is assumed of arrivals or of the watchdog.
- `PagesFairSpec`: weak fairness of the request's own steps as a whole. Each `await` in them is
  bounded by a timeout of Playwright or of the adapter. No event outside is fair.
- `LoginFairSpec`: weak fairness of startup, watcher and each request. Nothing obliges a
  user to sign in, a site to change or a browser to be lost.
- `TurnFairSpec`: weak fairness of the turn under the lock, whose awaits all have deadlines, and of
  each waiter for the lock, which is first come, first served. The site owes nothing.

## 5. Where code and documents disagree

1. `service.py:378`: a conversation that shares a page with `"auto:openclaw"` when the browser is restarted is remembered in
   `_fallback_aliases` as another name of it, for good, and is answered on its later pages (361-363). A crashed page is released but keeps the
   alias of `"auto:openclaw"` (`manager.py:277-281`), so a named conversation can be given it, and a retry does the rest. `main.py:519-520`:
   "explicit identifiers remain isolated" (`FallbackAlias`).
2. `service.py:160`: the handoff probes once with a new `DeepSeekLogin`, which
   needs two looks to report the chat. The handoff of a signed-in DeepSeek user therefore
   always fails and the watcher ends (`DeepSeekLogin`).
3. `config.py:206`: `ProviderConfig` has no field for the list of disabled providers, so `load_config`
   drops it. A later login enables the provider the user disabled, although
   `mark_provider_authenticated` and README.md:224-225 say it does not; `provider list` never prints
   "disabled" (`DisabledLogin`).

Met while modelling, and reachable in the models, without a run of their own:

4. `service.py:270`: cleanup releases a page before it closes it. The close event then finds a page
   nobody owns and the manager drops its live context. The architecture (lines 49-50) says
   that cleanup closes only the local page.
5. `service.py:447`: a capacity error takes the path of ordinary failures and restarts the
   browser under every conversation. The architecture (lines 50-51) says a full cap returns a
   capacity error.
6. `service.py:413`: `_authenticate` sets `READY` without looking at `auth_state`, so it
   overwrites `LOGIN_INTERRUPTED`, which the architecture (lines 230-232) calls terminal.
7. `deepseek/chat.py:148`: other text in the last block counts as a new answer, while the comment in the loop
   (lines 251-255) warns that a previous answer may be rendered anew in place and calls a new block the
   reliable boundary. The docstring of `_response_started` and a test ask for the in-place update. `AnswerGivenOnce` and `OwnOrLateAnswer` carry the exception.
8. `manual_auth.py:315`: an interruption between `Popen` and the `try` of line 333, or Playwright failing to start in between (331), leaves the external
   Chrome on its profile; so does an interruption or a failure at `playwright.stop()` (379) or `process.wait` (383). One while systemctl
   stops the service (`__main__.py:556`) leaves the service stopped.
9. `recovery.py:278`: a repair that fails again returns `_RECOVERY_BLOCKER` as an ordinary text, while the
   architecture says that a persistent failure returns a provider error. It says too (lines 210-213) that a third identical call is
   stopped; only `_legacy_resolve_web_answer` (`protocol.py:419`), which nothing calls, does that.
10. `recovery.py:53`: the architecture says that a repair has "the original context" (line 195), and that an oversized one "is compacted" (line 205): its
   middle is cut without regard to messages, and what the user said last may be in it when it is long.
11. `protocol.py:771`: an "unresolved tool marker" prompts a repair (architecture, lines 194-195), but a plain `<invoke>` that is broken or names no
   listed tool, and a broken bare object, are no marker and are shown to the agent as they were written.
12. `service.py:674`: when the user closes Qwen's login page the watcher ends silently, and `LOGIN_REQUIRED` or another state stays with nobody to change it,
   while docs/MAINTENANCE.md:17 has `user_close` mean that "the operator closed the login page/window" and the architecture (226-228) an interruption.

Other behaviour the models reach, which no document forbids and no property states:

- A request between the stop of the browsers and the cancellation of the jobs
  (`main.py:264`) launches a browser again and may set `ready`.
- After a request met an interrupted login `ready` is false, and no route brings it back.
- Qwen keeps its page records over a restart (`service.py:964`), so pages that are gone count
  against the cap until they idle out.
- DeepSeek's message for a suspended account has none of the markers of a login failure
  (`service.py:383-390`), so a request is retried.
- A cancelled handoff restores a headed browser (`manager.py:539`), also when it was
  the shutdown that cancelled it.
- A repair turn that fails before its gesture ends the request as unsubmitted
  (`PreSubmitError`), although the request's own prompt was submitted and answered.
- A structured request may submit three prompts: its own, the repair of a tool call, the repair of the output.
- The watcher of Qwen ends after a handoff whose verification failed, as no page is claimed.
- Arguments that a marker holds as a JSON string are no object and become the empty one
  (`protocol.py:675`): a valid call whose arguments are lost.
- The Browser claim looks at the whole history (`recovery.py:146`), so an act that succeeded for an earlier
  wish answers a later one, and a valid call of the web chat is dropped for it. It says that a page was opened also where no open succeeded;
  `tests/test_protocol_recovery.py:179-216` ask for that.
- A history that has become longer than `limits.max_input_chars` is refused however often it is sent (`validation.py:39-50`); nothing
  of the gateway shortens it.
- A job whose result is too long is kept as a success and answered with an error, each time it is asked for (`main.py:163`).
- The ledger has an entry for every message dropped (`protocol.py:88`), so a session that is long enough
  ends in `context_length_exceeded` whatever is compacted.
- A request for a title is answered with a text whatever `tool_choice` or `response_format` says (`main.py:556`).
- A `config.yaml` that is loaded between the two halves of a save reads as the defaults, and is
  saved as them (`config.py:41`); a login saves the copy it loaded before the user signed in, over any edit since.
- `expire` and `clear` of the registry of responses are called by nothing: ids are kept until the process ends.
- Activation of a downloaded browser (`distribution.py:243`) moves the old version away before the new one comes: a
  crash in between leaves none, and no later start looks for the one moved away.

## 6. What is proved

TLAPS checks these for every value of the constants, with the assumptions named in the
modules (`JobStoreAssumption`, `ChatAssumption`, `BrowserPagesAssumption`, `ConversationPagesAssumption`,
`ProviderLoginAssumption`, `ProviderTurnAssumption`, `AgentLoopAssumption`, `LoginCommandAssumption`, `ResponsesAssumption`).

`JobStoreProofs`: `TypeCorrect`, `KeyMapsAgree`, `KeptForRetention`, `SubmittedOnce` and
`Refinement` (the store implements `KeyedWork`). The inductive invariant is `TypeOK`, the three safety
properties, and three facts they need:

- `Stamped`: timestamps of born jobs are ordered and lie in the past. Without it an older
  job could become expired or unexpired by being settled.
- `ClosedIsEmpty`: after shutdown nothing is stored; the promises about stored jobs hold until then.
- `CancellingIsClosed`: a task is cancelled only by shutdown, so a stored job ends by
  `RunReturn` or `RunRaise`, which is what makes a settled slot have an outcome.

The refinement maps each step to `Begin`, `Settle`, `Forget`, `Close` or a stutter. Purging
inside `create` and `get` is why `Begin` and `Forget` of `KeyedWork` may forget a set of keys at once.

`ChatCompletionsProofs`: `ChatTypeCorrect`, `AnswersAreOwn`, `WorkOutlivesClients`, `IdsStayGood` and
`RepeatsShareWork`, for any number of requests, jobs and keys. Every step of a route is a step of the store or
leaves it alone, so the store's invariant carries over; what is added relates each request to the job it
holds on to (`Good`): a handler that waits, streams or polls has a job of its own key and payload, and what
it reported is how that job ended. `Good` survives the store's steps by `Onward`: work is never taken back,
re-keyed or redone, even when the store forgets it. `RepeatsShareWork` then follows from the store's maps. `RoutesUseStore` says that
the routes use the store through its own operations, so that what is proved of the store is theirs as well: `RoutesSubmitOnce`
and `RoutesKeepKeyedWork`. `RoutesNearEnd`: each step brings a request or a job nearer to its end (`RouteLeft`, `JobLeft`) or
leaves it alone; no answer is withdrawn, save "still processing" by a later poll, and shutdown never meets a task that is
already being cancelled. What does not count is a poll that finds its job at work, and the job counts down by itself.

`ConversationPagesProofs`: `PagesTypeCorrect`, `PagesStayWithinCap`, `PagesAreAccountedFor`, `NoPageStaysMarked` and
`ChatsAreApart`, for any number of pages, conversations and restarts and any cap. None of the four is inductive alone:

- `ChatsStayApart` needs claims: no two conversations claim one page (`ClaimsApart`), a usable page that is a
  conversation's own or holds its chat is claimed by it or another of its names (`AliasClaimed`, `HoldsClaimed`), a blank page that is
  claimed holds nobody's chat (`BlankIsNew`), and a prompt goes out on the sender's own page (`SendsOnOwnPage`).
- `OpenWithinCap` counts pages, the code counts records. `OneUntracked` (of the open pages at most one has no record:
  the launch page, or the page of DeepSeek's login) and `RoomToOpen` (the records are within the cap, and below it
  when a page is about to be opened) bring the two together.
- `ActiveOnlyWhileServing` needs `MarksItsPage`: the one mark is on the page of the request under the lock,
  through lookups, misses and second passes.

`RequestsCountDown`: every step of the request under the lock takes from its attempts, lookups and steps (`RequestLeft`), or else
from the finitely many idle pages it has to close, or it takes its page to the site. No page that closes, crash or loss of the
browser gives anything back, so a request is through after finitely many of its steps.

`ProviderLoginProofs`: `LoginTypeCorrect`, `WatcherAndRequestsExclude` and
`InterruptedLoginHasNoWatcher`. The type invariant is inductive only with `AttemptsLeft`
(a request in an attempt has one left, or the count would leave its range). The
exclusion rests on the order of the phases: `StartupBeforeWatcher` (no watcher before the
startup task is done), `ServingComesLast` (ready, or a request admitted, only when both are
over) and `InterruptionEndsWatcher` itself. `WatcherExcludesRequests` is not inductive alone:
a watcher running next to `ready` would let the next request in.
`BrowserUsedInTurn` shows that startup, watcher and requests implement `BrowserUse`. It adds `UInv` to the invariant: one request
at a time is past the lock (`OneHolder`), and the shutdown begins after the startup and leaves the watcher only
what it has to put back (`ShutdownEndsLogin`). Each action is shown to be a step of the abstract one of the stage it
is in: those of the startup and the watcher open the browser or hand over, those of a request take or work, and
those of the environment lose the browser or withdraw it.
`RequestsAreBounded`: a request past the lock has a number of steps left (`AttemptsAndAwaits`) which its own steps decrease and
no other step increases, whether browsers are lost, logins interrupted or the service shut down.

`ProviderTurnProofs`, for any number of requests, retries and pieces of an answer: first `TurnTypeCorrect`,
`NeverReplayed` and `PreSubmitIsUnsent`. That a prompt was sent at most once says nothing about
the next gesture; the invariant adds that a turn before its gesture or in its backoff is unsent
(`UnsentUntilGesture`), that turns not yet begun are untouched (`FutureUntouched`), and that the turn under the
lock is the one its request has reached (`TurnIsCurrent`). `AttemptFollows` (a backoff has an attempt left)
makes the types inductive. Then three theorems on answers:

- `AnswersAreWhole`. While the site still renders, the looks that found the same text are fewer than those since it
  last rendered (`LooksArePaused`), which the pause bounds; so a text that was looked at often enough is complete. It
  rests on nothing being asked or shown twice (`AskedOnce`, `ShownWasAsked`) and on the text seen last lying in the
  past (`SeenIsPast`): otherwise an old count could be taken for looks at a new text.
- `NoneGivenTwice` and `AnswersAreOwnOrLate`, for any number of answers rendered anew. DeepSeek's loop takes other text in
  the last block for an answer, so both name that case: the answer is given again as the text it was rendered anew as, and a turn of
  the chat took it for its own. `GivenIsOld`: a text that was given is asked for no more, and is what the page showed before
  the gesture wherever it is still shown, unless it was rendered anew there. `OwesItsPrompt`: a chat without an uncertain turn, none of whose turns went astray, owes nothing but the
  answer to the prompt that is watched.

`TurnsKeepPromise` shows that the turns implement `PromptTurns`. `OrderInv` adds that a free
lock holds no prompt (`FreeIsEmpty`), and that a request which goes on has had answers only, and one that
has reached a repair an answer to its own prompt (`RepairsFollowAnswers`). By `StepKinds` every step stays within its turn (`WithinTurn`:
it may submit), begins one, or ends it (`EndsTurn`); these map to `Submit` or a stutter, `Begin` and `End`.

`TurnsCountDown`: what is left of a turn is three natural numbers, its attempts and phases (`StepsLeft`), what the site
has yet to show on its page (`Unshown`: prompts to answer, pieces to render, an answer to render anew), and the looks
at what it shows (`LooksLeft`). Every step of the turn, and every step of the site on its page, takes from them in
lexicographic order, so that no turn goes on for ever: a site that renders on prolongs it only by what it owes.

`AgentLoopProofs`: `LoopTypeCorrect`, `LoopGoesOn`, `RequestIsHonoured`, `NoMarkerIsShown` and
`LastMessageIsSent`, for any budget, limits, sizes, offers of tools and length of history. An outcome shows only
what the last handler did; that it is right depends on what was kept before:

- `HistoryIsValid` and `CallsCanComeBack`: the agent's history stays one that `validate_chat` accepts because a
  call is handed out only with arguments that can come back. `TextMayFollow` and `PairMayFollow` show
  that what the agent appends keeps it valid, which is what `LoopNeverRejected` needs.
- `PromptIsInUse`: there is a prompt only while the web chat is at work, so that what is promised of it is not spoilt
  by what the agent adds.
- `FormatIsLast`: the repair of structured output begins only where a text may be the answer, so it cannot
  end a request that demanded a call.
- `PreparedKeepsTail`: whatever compaction drops, the last message is kept. The tail is chosen as the
  smallest start that fits, so this rests on `SmallestElement` (a nonempty set of positions has
  a least one: the library's well-foundedness of strict inclusion, applied to the intervals `1 .. k`). `RepairKeepsLast` says when a cut keeps it.

`LoginCommandProofs`: `SetupTypeCorrect`, `ProfileIsGivenBack`, `EnabledOnlyWithReason` and
`PausedServiceComesBack`, for any number of commands and providers. `HoldsWhileOpen` ties
a browser or a profile lock to the steps between launch and closing, and says that an external login has no lock; only a Chrome that nobody
closes (`orphan`) is held later. `OneWay` keeps external logins out of the handoff, which takes the lock. `CopiesEntitled` extends the promise about the file to the copy every command
has loaded, because a copy is written back after the file has changed. `PausedUnderWay` and `OthersRecords`
(a step changes one command's record) give the action property.

`ResponsesProofs`: `ContinuationStays` and `StrangersStayApart`, for any number of turns, names and restarts.
`RegistryAgrees` says that a known id belongs to an answered turn of this process and names that
turn's conversation; `ConversationGiven` says which conversation a turn without a predecessor runs in; by
`RetiredAnswered` a process leaves behind only turns it had answered, so a turn that runs on is not among them.

### Only model-checked

Liveness (`EveryRequestEnds`, `RequestReleasesLock`, `QwenSignInMakesReady`, `EveryTurnEnds`), as fairness and
`ENABLED` are beyond the prover. Of `EveryRequestEnds`, `EveryTurnEnds` and `RequestReleasesLock` the safety half is proved: the steps count
down (`RoutesNearEnd`, `TurnsCountDown`, `RequestsCountDown`). That one of them can be taken until the end is reached is what the runs add. Every safety property and every refinement of the passing runs is proved. The types of
`ProviderTurn` and `ProviderLogin` are proved and stand in no run (`TurnTypeCorrect`, `LoginTypeCorrect`). The violations are
counterexamples of TLC.

## 7. What is not modelled

- The content of messages and answers: the models tell apart whose answer it is (`ProviderTurn`) and what
  the gateway looks for in it (`AgentLoop`). Several calls in one answer, of which the gateway takes the first; the cleaning of
  rendered text; images; the wording of prompts and the choice of client policy.
- The CDP and Xvfb modes, the supervision of the browser's process, and Chrome's own handling of its
  singleton files; a launch that may fail stands for them.
- Attachments and the upload wait, the selectors and the cleaning of an answer's text; the navigation of Qwen to a
  fresh chat before a turn. Two different answers with the same text.
- `retry_login`, `delete_conversation`, `bind_conversation`, `_legacy_resolve_web_answer` and the primitives
  of `providers/streaming.py`: nothing calls them at this commit.
- Commands that are killed, as opposed to interrupted; the branch of the external login for a refused
  callback, whose state its probe never returns; the Xvfb branch of the handoff.
- `browser/distribution.py`: download, checksum and extraction of an archive. Its one protocol step, the
  activation, is described in section 5.
- Several providers at once: services share the router's list and the registry of responses (`main.py:1009`, `1026`), so a
  response of one provider may be continued under a model of another, which keeps the id of the conversation but not its chat.
  `Responses` has conversations as ids only.
- `doctor`, the installers and the writers of client configurations; logging, the comparison of tokens, the
  port probe, the decoding of images; the OpenClaw plugin, a client in another language.

## 8. Running it

    tlc -workers 2 -config JobStore.cfg MCJobStore
    tlc -workers 2 -config Login.cfg ProviderLogin
    tlc -workers 2 -config ProviderTurn.cfg ProviderTurn
    tlc -workers 2 -config AgentLoop.cfg AgentLoop
    tlc -workers 2 -config LoginCommand.cfg LoginCommand
    tlc -workers 2 -config Responses.cfg Responses
    tlapm JobStoreProofs.tla
    tlapm ChatCompletionsProofs.tla
    tlapm ConversationPagesProofs.tla
    tlapm ProviderLoginProofs.tla
    tlapm ProviderTurnProofs.tla
    tlapm AgentLoopProofs.tla
    tlapm LoginCommandProofs.tla
    tlapm ResponsesProofs.tla

`PROJECT.json` names the module and configuration of every run, for each property a mutation of a
modelled definition that breaks it, and for each definition the lines it models.
