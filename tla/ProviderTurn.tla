---------------------------- MODULE ProviderTurn ----------------------------
(***************************************************************************)
(* How one request becomes prompts on a provider's web chat and answers    *)
(* read back from its page (providers/deepseek/chat.py, providers/qwen/    *)
(* chat.py, the attempt loops of service.py, and the repairs of            *)
(* providers/recovery.py and main.py).                                     *)
(*                                                                         *)
(* A prompt is sent by a gesture nobody can take back or be sure of; the   *)
(* answer is whatever appears on the page and stops changing.  What fails  *)
(* before the gesture is tried again in a restarted browser; what fails    *)
(* after it is only observed for some more time.  A request has up to      *)
(* three turns: its own prompt, the repair of a broken tool call in a chat *)
(* kept for repairs, and the repair of structured output in its own chat.  *)
(* Between its turns it lets go of the provider's request lock.            *)
(*                                                                         *)
(* All requests here belong to one conversation.  The site answers in      *)
(* order or not at all, a piece at a time, as late as it likes.            *)
(***************************************************************************)
EXTENDS Integers, Sequences, FiniteSets

CONSTANTS
  Providers,  \* the providers to consider
  Requests,   \* requests of the conversation
  Structured, \* those that ask for structured output
  Retries,    \* restart_retries
  Parts,      \* pieces in which an answer is rendered
  Rerenders   \* bound on the answers the site renders anew

ASSUME ProviderTurnAssumption ==
  /\ Providers \subseteq {"deepseek", "qwen"}
  /\ Structured \subseteq Requests
  /\ Retries \in Nat
  /\ Parts \in Nat \ {0}
  /\ Rerenders \in Nat

VARIABLES
  provider,   \* whose page this is; never changes
  chat,       \* what the site shows and has yet to answer
  w,          \* the turn that holds the request lock
  req,        \* how far each request is
  sent,       \* history: how often the site received each prompt
  result      \* history: how the turn of each prompt ended

turnVars == <<chat, w, req, sent, result>>

Qwen == provider = "qwen"

Chats == {"main", "repair"}

Prompts == Requests \X (1 .. 3)

ChatOf(p) == IF p[2] = 2 THEN "repair" ELSE "main"

NoPrompt == <<"none", 0>>

NoText == [prompt |-> NoPrompt, part |-> 0, anew |-> FALSE]

\* The text of an answer, as far as the page shows it.
Text == [prompt : Prompts, part : 1 .. Parts, anew : BOOLEAN] \cup {NoText}

\* Equal observations in a row that make an answer final.
Stable == IF Qwen THEN 2 ELSE 5

Turn == [pc     : {"free", "prepare", "fill", "watch", "recover", "backoff"},
         prompt : Prompts \cup {NoPrompt},
         tries  : 0 .. Retries + 1,
         count  : Nat,              \* previous_count
         before : Text,             \* previous_text
         seen   : Text,             \* last_text
         stable : 0 .. 5,           \* stable_rounds
         pause  : 0 .. 5]           \* looks since the site rendered

Outcomes == {"none", "answer", "uncertain", "presubmit", "unrepaired"}

TurnTypeOK ==
  /\ provider \in Providers
  /\ chat \in [Chats -> [count : Nat, last : Text, asked : Seq(Prompts)]]
  /\ w \in Turn
  /\ w.pc # "free" => w.tries > 0
  /\ req \in [Requests -> [turn : 1 .. 3, outcome : Outcomes]]
  /\ sent \in [Prompts -> 0 .. Retries + 1]
  /\ result \in [Prompts -> [how : Outcomes, text : Text]]

EmptyChat == [count |-> 0, last |-> NoText, asked |-> <<>>]

FreeTurn == [pc |-> "free", prompt |-> NoPrompt, tries |-> 0, count |-> 0,
             before |-> NoText, seen |-> NoText, stable |-> 0, pause |-> 0]

Page == chat[ChatOf(w.prompt)]

Rendering(c) == chat[c].last # NoText /\ chat[c].last.part < Parts

-----------------------------------------------------------------------------
(* The end of a turn.                                                      *)

\* Mutant: a repair that was of no use is repaired again.
FollowupsAgain(r) ==
  LET done(o) == [req[r] EXCEPT !.outcome = o]
      next(k) == [req[r] EXCEPT !.turn = k]
  IN {done("answer"), done("unrepaired")}
       \cup {next(k) : k \in {n \in 2 .. 3 : n = 2 \/ r \in Structured}}

\* What a request may do with an answer: hand it to the client, refuse it, have
\* a broken tool call repaired, or have unusable output repaired.
Followups(r) ==
  LET done(o) == [req[r] EXCEPT !.outcome = o]
      next(k) == [req[r] EXCEPT !.turn = k]
  IN {done("answer"), done("unrepaired")}
       \cup {next(k) : k \in {n \in 2 .. 3 : req[r].turn < n /\ (n = 2 \/ r \in Structured)}}

Answered(text) ==
  LET p == w.prompt IN
  /\ result' = [result EXCEPT ![p] = [how |-> "answer", text |-> text]]
  /\ \E next \in Followups(p[1]) : req' = [req EXCEPT ![p[1]] = next]
  /\ w' = FreeTurn

\* The exception of a turn ends its request.
Raised(how) ==
  LET p == w.prompt IN
  /\ result' = [result EXCEPT ![p].how = how]
  /\ req' = [req EXCEPT ![p[1]].outcome = how]
  /\ w' = FreeTurn

AttemptsLeft == w.tries > 1

\* An attempt that failed before the gesture: PreSubmitError, a failure of the
\* page, or a login failure, which is not tried again.
BeforeSubmit ==
  \/ /\ AttemptsLeft
     /\ w' = [w EXCEPT !.pc = "backoff"]
     /\ UNCHANGED <<req, result>>
  \/ Raised("presubmit")

-----------------------------------------------------------------------------
(* complete, send_message                                                  *)

GetLock(r) ==
  /\ w.pc = "free"
  /\ req[r].outcome = "none"
  /\ w' = [FreeTurn EXCEPT !.pc = "prepare", !.prompt = <<r, req[r].turn>>, !.tries = Retries + 1]
  /\ UNCHANGED <<chat, req, sent, result>>

\* Mutant: only the number of blocks is remembered.
PrepareCount ==
  /\ w.pc = "prepare"
  /\ w' = [w EXCEPT !.pc = "fill", !.count = Page.count]
  /\ UNCHANGED <<chat, req, sent, result>>

\* Page, login and input are there; what the page shows is remembered.
Prepare ==
  /\ w.pc = "prepare"
  /\ w' = [w EXCEPT !.pc = "fill", !.count = Page.count, !.before = Page.last]
  /\ UNCHANGED <<chat, req, sent, result>>

\* The page, the login, an upload or filling the input fails.
FailUnsent ==
  /\ w.pc \in {"prepare", "fill"}
  /\ BeforeSubmit
  /\ UNCHANGED <<chat, sent>>

\* Mutant: the state is set once the gesture has succeeded.
SubmitsLate == FALSE

\* submit_state says uncertain already when the gesture is made.
UncertainAtGesture == TRUE

\* The click or Enter reaches the site or not, and raises or not.
Gesture ==
  /\ w.pc = "fill"
  /\ \E reaches, raises \in BOOLEAN :
       /\ IF reaches
          THEN /\ chat' = [chat EXCEPT ![ChatOf(w.prompt)].asked = Append(@, w.prompt)]
               /\ sent' = [sent EXCEPT ![w.prompt] = @ + 1]
          ELSE UNCHANGED <<chat, sent>>
       /\ IF raises /\ ~UncertainAtGesture
          THEN BeforeSubmit
          ELSE /\ w' = [w EXCEPT !.pc = IF raises THEN "recover" ELSE "watch"]
               /\ UNCHANGED <<req, result>>

\* Mutant: any text is an answer.
StartedByText == Page.last # NoText

\* An answer is there: a block more than before the gesture, or for DeepSeek
\* other text in the last one (_response_started).
Started ==
  /\ Page.last # NoText
  /\ Page.count > w.count \/ (~Qwen /\ Page.last # w.before)

\* Mutant: one observation less.
FinalEarly(rounds) == rounds >= Stable - 1

Final(rounds) == rounds >= Stable

\* One round of the loops of send_message and recover_response.  The site is
\* taken not to pause for more rounds than they wait for.
Look ==
  /\ w.pc \in {"watch", "recover"}
  /\ Started
  /\ Rendering(ChatOf(w.prompt)) => w.pause < Stable
  /\ LET rounds == IF Page.last = w.seen THEN w.stable + 1 ELSE 0 IN
       IF Final(rounds) THEN Answered(Page.last)
       ELSE /\ w' = [w EXCEPT !.seen = Page.last, !.stable = rounds,
                              !.pause = IF Rendering(ChatOf(w.prompt)) THEN @ + 1 ELSE 0]
            /\ UNCHANGED <<req, result>>
  /\ UNCHANGED <<chat, sent>>

\* The deadline passes, or the page cannot be read: send_message raises
\* UncertainSubmitError, and recover_response goes on observing.
WatchEnds ==
  /\ w.pc = "watch"
  /\ w' = [w EXCEPT !.pc = "recover", !.seen = NoText, !.stable = 0, !.pause = 0]
  /\ UNCHANGED <<chat, req, sent, result>>

\* Mutant: an uncertain turn is tried again.
RecoverThenRetry ==
  /\ w.pc = "recover"
  /\ BeforeSubmit
  /\ UNCHANGED <<chat, sent>>

\* recover_response gives up: the uncertainty is final.
RecoverEnds ==
  /\ w.pc = "recover"
  /\ Raised("uncertain")
  /\ UNCHANGED <<chat, sent>>

\* Mutant: a restart gives the request all its attempts back.
RestartForever ==
  /\ w.pc = "backoff"
  /\ chat' = [c \in Chats |-> EmptyChat]
  /\ w' = [FreeTurn EXCEPT !.pc = "prepare", !.prompt = w.prompt, !.tries = Retries + 1]
  /\ UNCHANGED <<req, sent, result>>

\* The browser is restarted, and every conversation begins a new chat.
Restart ==
  /\ w.pc = "backoff"
  /\ chat' = [c \in Chats |-> EmptyChat]
  /\ w' = [FreeTurn EXCEPT !.pc = "prepare", !.prompt = w.prompt, !.tries = w.tries - 1]
  /\ UNCHANGED <<req, sent, result>>

RestartFails ==
  /\ w.pc = "backoff"
  /\ chat' = [c \in Chats |-> EmptyChat]
  /\ Raised("presubmit")
  /\ UNCHANGED sent

-----------------------------------------------------------------------------
(* The site and its pages.                                                 *)

\* The next prompt's answer begins, in a block of its own; DeepSeek may also
\* reuse the last one.
SiteAnswers(c) ==
  /\ chat[c].asked # <<>>
  /\ ~Rendering(c)
  /\ \E more \in IF Qwen \/ chat[c].count = 0 THEN {1} ELSE {0, 1} :
       chat' = [chat EXCEPT ![c] = [count |-> @.count + more,
                                    last  |-> [prompt |-> Head(@.asked), part |-> 1, anew |-> FALSE],
                                    asked |-> Tail(@.asked)]]
  /\ UNCHANGED <<w, req, sent, result>>

SiteRenders(c) ==
  /\ Rendering(c)
  /\ chat' = [chat EXCEPT ![c].last.part = @ + 1]
  /\ w' = IF w.prompt # NoPrompt /\ ChatOf(w.prompt) = c THEN [w EXCEPT !.pause = 0] ELSE w
  /\ UNCHANGED <<req, sent, result>>

\* The answers rendered anew that a page shows or a turn has taken.
RenderedAnew ==
  {t \in {chat[c].last : c \in Chats} \cup {result[p].text : p \in Prompts} : t.anew}

\* A complete answer is rendered anew in its block, once: the same answer as
\* another text.
SiteRerenders(c) ==
  /\ chat[c].last.part = Parts
  /\ ~chat[c].last.anew
  /\ Cardinality(RenderedAnew) < Rerenders
  /\ chat' = [chat EXCEPT ![c].last.anew = TRUE]
  /\ UNCHANGED <<w, req, sent, result>>

\* The site drops a prompt.
SiteRefuses(c) ==
  /\ chat[c].asked # <<>>
  /\ chat' = [chat EXCEPT ![c].asked = Tail(@)]
  /\ UNCHANGED <<w, req, sent, result>>

\* The page of a chat is closed while no turn uses it; the conversation goes
\* on in a new chat.
PageClosed(c) ==
  /\ chat[c] # EmptyChat
  /\ w.prompt = NoPrompt \/ ChatOf(w.prompt) # c
  /\ chat' = [chat EXCEPT ![c] = EmptyChat]
  /\ UNCHANGED <<w, req, sent, result>>

-----------------------------------------------------------------------------

TurnInit ==
  /\ provider \in Providers
  /\ chat = [c \in Chats |-> EmptyChat]
  /\ w = FreeTurn
  /\ req = [r \in Requests |-> [turn |-> 1, outcome |-> "none"]]
  /\ sent = [p \in Prompts |-> 0]
  /\ result = [p \in Prompts |-> [how |-> "none", text |-> NoText]]

Serve == \/ Prepare \/ FailUnsent \/ Gesture \/ Look \/ WatchEnds \/ RecoverEnds
         \/ Restart \/ RestartFails

Site == \E c \in Chats : \/ SiteAnswers(c) \/ SiteRenders(c) \/ SiteRerenders(c)
                         \/ SiteRefuses(c) \/ PageClosed(c)

TurnNext == (Serve \/ Site \/ \E r \in Requests : GetLock(r)) /\ UNCHANGED provider

TurnSpec == TurnInit /\ [][TurnNext]_<<turnVars, provider>>

\* Every wait of a turn has a deadline, and the lock is handed on.  The site
\* owes nothing.
TurnFairSpec == /\ TurnSpec
                /\ WF_turnVars(Serve)
                /\ \A r \in Requests : WF_turnVars(GetLock(r))

-----------------------------------------------------------------------------

\* No prompt reaches the site twice, whatever is retried: uncertain and
\* completed submissions are never replayed.
SubmittedAtMostOnce == \A p \in Prompts : sent[p] <= 1

\* A prompt reported as failed before its submission was not submitted, so
\* that its sender may safely send it again.
PreSubmitMeansUnsent == \A p \in Prompts : result[p].how = "presubmit" => sent[p] = 0

\* A turn of the chat took an answer rendered anew for its own, as DeepSeek's
\* loop does: to it any other text is a new answer.
Astray(c) ==
  /\ ~Qwen
  /\ \E u \in Prompts : /\ ChatOf(u) = c
                        /\ result[u].how = "answer"
                        /\ result[u].text.anew
                        /\ result[u].text.prompt # u

\* The answer of a turn is the site's answer to its own prompt, in a chat none
\* of whose turns was left uncertain or went astray.  After one that did, its
\* own answer comes late and may be taken for the next turn's, whose own is late
\* in turn.
OwnOrLateAnswer ==
  \A p \in Prompts : result[p].how = "answer" =>
    \/ result[p].text.prompt = p
    \/ \E u \in Prompts \ {p} : result[u].how = "uncertain" /\ ChatOf(u) = ChatOf(p)
    \/ Astray(ChatOf(p))

\* Even so no answer is handed out twice: what the page showed before a gesture
\* is never the answer to it, whatever is late or rendered anew.  Only DeepSeek's
\* loop hands one out again, and only as it was rendered anew.
AnswerGivenOnce ==
  \A p, q \in Prompts :
    /\ result[p].how = "answer"
    /\ result[q].how = "answer"
    /\ result[p].text.prompt = result[q].text.prompt
    => \/ p = q
       \/ ~Qwen /\ result[p].text.anew # result[q].text.anew

\* An answer is taken when it is complete, as long as the site pauses no longer
\* than the loops wait.
AnswerIsWhole ==
  \A p \in Prompts : result[p].how = "answer" => result[p].text.part = Parts

Ended == [p \in Prompts |-> result[p].how]

Over == {r \in Requests : req[r].outcome # "none"}

Promise == INSTANCE PromptTurns WITH current <- w.prompt, sent <- sent, ended <- Ended, over <- Over

\* The turns implement PromptTurns: one prompt at a time, sent at most once and
\* only during its turn, whatever is retried, restarted or observed in vain;
\* reported as never sent only then; and repaired only after an answer.
ImplementsPromptTurns == Promise!Spec

\* A request that got the lock ends, its repairs included, whatever the site
\* does.
EveryTurnEnds ==
  \A r \in Requests : w.prompt # NoPrompt /\ w.prompt[1] = r ~> req[r].outcome # "none"

=============================================================================
