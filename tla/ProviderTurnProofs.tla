------------------------- MODULE ProviderTurnProofs -------------------------
(***************************************************************************)
(* What TLAPS proves of ProviderTurn, for any requests, retries and sizes  *)
(* of answers: types, that no prompt is ever submitted twice, that answers *)
(* are taken whole, and whose answers they are; that the turns implement   *)
(* PromptTurns, and that none goes on for ever.                            *)
(***************************************************************************)
EXTENDS ProviderTurn, TLAPS

\* A prompt nobody sent, and whose turn has not ended.
Untouched(p) == sent[p] = 0 /\ result[p].how = "none"

\* The turn under the lock is the one its request has reached.
TurnIsCurrent ==
  w.pc # "free" =>
    /\ w.prompt \in Prompts
    /\ w.prompt[2] = req[w.prompt[1]].turn
    /\ req[w.prompt[1]].outcome = "none"
    /\ result[w.prompt].how = "none"

\* A turn that may still fail before its gesture, or be tried again, is unsent.
UnsentUntilGesture == w.pc \in {"prepare", "fill", "backoff"} => sent[w.prompt] = 0

\* The turns a request has not reached, and the one it waits to begin, are
\* untouched.
FutureUntouched ==
  \A r \in Requests, k \in 1 .. 3 :
    \/ req[r].turn < k
    \/ req[r].turn = k /\ req[r].outcome = "none" /\ (w.pc = "free" \/ w.prompt # <<r, k>>)
    => Untouched(<<r, k>>)

\* There is an attempt after a backoff.
AttemptFollows == w.pc = "backoff" => w.tries > 1

TurnInv ==
  /\ TurnTypeOK
  /\ AttemptFollows
  /\ TurnIsCurrent
  /\ UnsentUntilGesture
  /\ FutureUntouched
  /\ SubmittedAtMostOnce
  /\ PreSubmitMeansUnsent

\* The part that is about submissions, to be shown of groups of actions.
SubmitInv ==
  /\ TurnIsCurrent
  /\ UnsentUntilGesture
  /\ FutureUntouched
  /\ SubmittedAtMostOnce
  /\ PreSubmitMeansUnsent

-----------------------------------------------------------------------------
(* Facts about the data.                                                   *)

LEMMA PromptFacts ==
  /\ NoPrompt \notin Prompts
  /\ \A p \in Prompts : p[1] \in Requests /\ p[2] \in 1 .. 3 /\ p = <<p[1], p[2]>>
  /\ \A r \in Requests, k \in 1 .. 3 : <<r, k>> \in Prompts
BY DEF Prompts, NoPrompt

LEMMA FreeTurnType == FreeTurn \in Turn /\ FreeTurn.pc = "free" /\ FreeTurn.prompt = NoPrompt
BY ProviderTurnAssumption DEF FreeTurn, Turn, Text

LEMMA TurnUpdate ==
  ASSUME NEW v \in Turn, NEW text \in Text, NEW y \in 0 .. 5, NEW z \in 0 .. 5
  PROVE  /\ [v EXCEPT !.pause = z] \in Turn
         /\ [v EXCEPT !.pc = "recover", !.seen = text, !.stable = y, !.pause = z] \in Turn
BY DEF Turn

LEMMA PageType ==
  ASSUME TurnTypeOK
  PROVE  /\ \A c \in Chats : chat[c].count \in Nat /\ chat[c].last \in Text /\ chat[c].asked \in Seq(Prompts)
         /\ Page.count \in Nat /\ Page.last \in Text
         /\ ChatOf(w.prompt) \in Chats
BY DEF TurnTypeOK, Page, ChatOf, Chats

LEMMA EmptyChatType == EmptyChat \in [count : Nat, last : Text, asked : Seq(Prompts)]
BY DEF EmptyChat, Text

-----------------------------------------------------------------------------
(* What groups of actions keep.                                            *)

\* A step within a turn, or of the site.
LEMMA KeptWithinTurn ==
  ASSUME TurnInv, UNCHANGED <<req, sent, result>>, w'.prompt = w.prompt,
         w'.pc = "free" <=> w.pc = "free",
         w'.pc \in {"prepare", "fill", "backoff"} => w.pc \in {"prepare", "fill", "backoff"}
  PROVE  SubmitInv'
BY DEF TurnInv, SubmitInv, TurnIsCurrent, UnsentUntilGesture, FutureUntouched, Untouched,
       SubmittedAtMostOnce, PreSubmitMeansUnsent

\* The end of a turn, with what its request does next.
LEMMA KeptAtEnd ==
  ASSUME TurnInv, w.pc # "free", w' = FreeTurn, UNCHANGED sent,
         NEW e \in [how : Outcomes, text : Text], NEW n \in [turn : 1 .. 3, outcome : Outcomes],
         result' = [result EXCEPT ![w.prompt] = e],
         req' = [req EXCEPT ![w.prompt[1]] = n],
         e.how = "presubmit" => sent[w.prompt] = 0,
         n.turn > w.prompt[2] \/ (n.turn = w.prompt[2] /\ n.outcome # "none")
  PROVE  SubmitInv'
<1>1. /\ w.prompt \in Prompts /\ w.prompt[1] \in Requests /\ w.prompt[2] \in 1 .. 3
      /\ w.prompt = <<w.prompt[1], w.prompt[2]>>
      /\ w.prompt[2] = req[w.prompt[1]].turn
  BY PromptFacts DEF TurnInv, TurnIsCurrent
<1>2. w'.pc = "free"
  BY FreeTurnType
<1>3. TurnIsCurrent' /\ UnsentUntilGesture'
  BY <1>2 DEF TurnIsCurrent, UnsentUntilGesture
<1>4. SubmittedAtMostOnce'
  BY DEF TurnInv, SubmittedAtMostOnce
<1>5. PreSubmitMeansUnsent'
  BY <1>1 DEF TurnInv, PreSubmitMeansUnsent, TurnTypeOK
<1>6. FutureUntouched'
  <2> SUFFICES ASSUME NEW r \in Requests, NEW k \in 1 .. 3,
                      req'[r].turn < k \/ (req'[r].turn = k /\ req'[r].outcome = "none")
               PROVE  sent[<<r, k>>] = 0 /\ result'[<<r, k>>].how = "none"
    BY <1>2 DEF FutureUntouched, Untouched
  <2>0. req \in [Requests -> [turn : 1 .. 3, outcome : Outcomes]]
        /\ result \in [Prompts -> [how : Outcomes, text : Text]]
    BY DEF TurnInv, TurnTypeOK
  <2>1. CASE r = w.prompt[1]
    <3>1. req'[r] = n
      BY <1>1, <2>0, <2>1
    <3>2. req[r].turn < k
      BY <1>1, <2>0, <2>1, <3>1
    <3>3. sent[<<r, k>>] = 0 /\ result[<<r, k>>].how = "none"
      BY <3>2 DEF TurnInv, FutureUntouched, Untouched
    <3>4. <<r, k>> # w.prompt
      BY <1>1, <2>0, <2>1, <3>2
    <3> QED
      BY <2>0, <3>3, <3>4, PromptFacts
  <2>2. CASE r # w.prompt[1]
    <3>1. req'[r] = req[r] /\ w.prompt # <<r, k>>
      BY <1>1, <2>0, <2>2
    <3>2. sent[<<r, k>>] = 0 /\ result[<<r, k>>].how = "none"
      BY <3>1 DEF TurnInv, FutureUntouched, Untouched
    <3> QED
      BY <2>0, <3>1, <3>2, PromptFacts
  <2> QED
    BY <2>1, <2>2
<1> QED
  BY <1>3, <1>4, <1>5, <1>6 DEF SubmitInv

-----------------------------------------------------------------------------
(* Types.                                                                  *)

\* TurnTypeOK without the bound on submissions, which is SubmittedAtMostOnce.
LEMMA StepTypes ==
  ASSUME TurnTypeOK, UNCHANGED provider,
         chat' \in [Chats -> [count : Nat, last : Text, asked : Seq(Prompts)]],
         w' \in Turn, w'.pc # "free" => w'.tries > 0,
         req' \in [Requests -> [turn : 1 .. 3, outcome : Outcomes]],
         sent' \in [Prompts -> 0 .. Retries + 1],
         result' \in [Prompts -> [how : Outcomes, text : Text]]
  PROVE  TurnTypeOK'
BY DEF TurnTypeOK

\* What an exception of the turn under the lock leaves.
LEMMA RaisedKeeps ==
  ASSUME TurnInv, w.pc # "free", NEW how \in {"presubmit", "uncertain"}, Raised(how),
         how = "presubmit" => sent[w.prompt] = 0, UNCHANGED <<sent, provider>>,
         chat' \in [Chats -> [count : Nat, last : Text, asked : Seq(Prompts)]]
  PROVE  TurnInv'
<1> DEFINE e == [result[w.prompt] EXCEPT !.how = how]
           n == [req[w.prompt[1]] EXCEPT !.outcome = how]
<1>1. /\ req \in [Requests -> [turn : 1 .. 3, outcome : Outcomes]]
      /\ result \in [Prompts -> [how : Outcomes, text : Text]]
      /\ w.prompt \in Prompts /\ w.prompt[1] \in Requests
      /\ w.prompt[2] = req[w.prompt[1]].turn
  BY PromptFacts DEF TurnInv, TurnTypeOK, TurnIsCurrent
<1>2. e \in [how : Outcomes, text : Text] /\ e.how = how
  BY <1>1 DEF Outcomes
<1>3. n \in [turn : 1 .. 3, outcome : Outcomes] /\ n.turn = w.prompt[2] /\ n.outcome = how
  BY <1>1 DEF Outcomes
<1>4. w' = FreeTurn /\ result' = [result EXCEPT ![w.prompt] = e]
      /\ req' = [req EXCEPT ![w.prompt[1]] = n]
  BY <1>1 DEF Raised
<1>5. SubmitInv'
  <2>1. e.how = "presubmit" => sent[w.prompt] = 0
    BY <1>2
  <2>2. n.turn = w.prompt[2] /\ n.outcome # "none"
    BY <1>3
  <2> QED
    BY <1>2, <1>3, <1>4, <2>1, <2>2, KeptAtEnd
<1>6. TurnTypeOK'
  <2>1. result' \in [Prompts -> [how : Outcomes, text : Text]]
    BY <1>1, <1>2, <1>4
  <2>2. req' \in [Requests -> [turn : 1 .. 3, outcome : Outcomes]]
    BY <1>1, <1>3, <1>4
  <2>3. w' \in Turn /\ w'.pc = "free"
    BY <1>4, FreeTurnType
  <2> QED
    BY <2>1, <2>2, <2>3, StepTypes DEF TurnInv, TurnTypeOK
<1>7. AttemptFollows'
  BY <1>4, FreeTurnType DEF AttemptFollows
<1> QED
  BY <1>5, <1>6, <1>7 DEF TurnInv, SubmitInv

\* A failure before the gesture.
LEMMA BeforeSubmitKeeps ==
  ASSUME TurnInv, w.pc \in {"prepare", "fill"}, BeforeSubmit, UNCHANGED <<chat, sent, provider>>
  PROVE  TurnInv'
<1>1. CASE Raised("presubmit")
  <2>1. sent[w.prompt] = 0
    BY DEF TurnInv, UnsentUntilGesture
  <2> QED
    BY <1>1, <2>1, RaisedKeeps DEF TurnInv, TurnTypeOK
<1>2. CASE AttemptsLeft /\ w' = [w EXCEPT !.pc = "backoff"] /\ UNCHANGED <<req, result>>
  <2>1. w' \in Turn /\ w'.prompt = w.prompt /\ w'.pc = "backoff" /\ w'.tries = w.tries /\ w.tries > 1
        /\ w.tries \in Nat
    <3>1. w \in Turn /\ w.tries \in Nat
      BY ProviderTurnAssumption DEF TurnInv, TurnTypeOK, Turn
    <3>2. w' \in Turn
      BY <1>2, <3>1 DEF Turn
    <3>3. w'.prompt = w.prompt /\ w'.pc = "backoff" /\ w'.tries = w.tries
      BY <1>2, <3>1 DEF Turn
    <3> QED
      BY <1>2, <3>1, <3>2, <3>3 DEF AttemptsLeft
  <2>2. SubmitInv'
    BY <1>2, <2>1, KeptWithinTurn
  <2>3. TurnTypeOK'
    BY <1>2, <2>1, StepTypes DEF TurnInv, TurnTypeOK
  <2>4. AttemptFollows'
    BY <2>1 DEF AttemptFollows
  <2> QED
    BY <2>2, <2>3, <2>4 DEF TurnInv, SubmitInv
<1> QED
  BY <1>1, <1>2 DEF BeforeSubmit

\* A step within a turn, or of the site, that is type correct.
LEMMA WithinTurnKeeps ==
  ASSUME TurnInv, UNCHANGED <<req, sent, result, provider>>,
         chat' \in [Chats -> [count : Nat, last : Text, asked : Seq(Prompts)]],
         w' \in Turn, w'.prompt = w.prompt, w'.tries = w.tries, w'.pc \in {w.pc, "fill", "recover"},
         w'.pc = "fill" => w.pc \in {"prepare", "fill"},
         w'.pc = "recover" => w.pc \in {"watch", "recover"}
  PROVE  TurnInv'
<1>1. SubmitInv'
  BY KeptWithinTurn
<1>2. TurnTypeOK'
  BY StepTypes DEF TurnInv, TurnTypeOK
<1>3. AttemptFollows'
  BY DEF TurnInv, AttemptFollows
<1> QED
  BY <1>1, <1>2, <1>3 DEF TurnInv, SubmitInv

-----------------------------------------------------------------------------
(* One lemma per action that is not just a step within a turn.             *)

LEMMA GetLockKeeps ==
  ASSUME TurnInv, NEW r \in Requests, GetLock(r), UNCHANGED provider
  PROVE  TurnInv'
<1> DEFINE p == <<r, req[r].turn>>
<1>1. req[r].turn \in 1 .. 3 /\ p \in Prompts /\ p[1] = r /\ p[2] = req[r].turn
  BY PromptFacts DEF TurnInv, TurnTypeOK
<1>2. w' \in Turn /\ w'.pc = "prepare" /\ w'.prompt = p /\ w'.tries > 0
  <2>1. w' = [FreeTurn EXCEPT !.pc = "prepare", !.prompt = p, !.tries = Retries + 1]
    BY DEF GetLock
  <2>2. Retries + 1 \in 0 .. Retries + 1 /\ Retries + 1 > 0
    BY ProviderTurnAssumption
  <2> QED
    BY <1>1, <2>1, <2>2, FreeTurnType DEF Turn
<1>3. Untouched(p)
  BY <1>1 DEF GetLock, TurnInv, FutureUntouched
<1>4. TurnTypeOK'
  BY <1>2, StepTypes DEF GetLock, TurnInv, TurnTypeOK
<1>5. TurnIsCurrent' /\ UnsentUntilGesture' /\ AttemptFollows'
  BY <1>1, <1>2, <1>3 DEF GetLock, TurnIsCurrent, UnsentUntilGesture, AttemptFollows, Untouched
<1>6. FutureUntouched'
  BY DEF GetLock, TurnInv, FutureUntouched, Untouched
<1>7. SubmittedAtMostOnce' /\ PreSubmitMeansUnsent'
  BY DEF GetLock, TurnInv, SubmittedAtMostOnce, PreSubmitMeansUnsent
<1> QED
  BY <1>4, <1>5, <1>6, <1>7 DEF TurnInv

LEMMA GestureKeeps ==
  ASSUME TurnInv, Gesture, UNCHANGED provider
  PROVE  TurnInv'
<1> DEFINE p == w.prompt
<1>1. /\ p \in Prompts /\ sent[p] = 0 /\ result[p].how = "none"
      /\ p[1] \in Requests /\ p[2] = req[p[1]].turn /\ p = <<p[1], p[2]>>
      /\ w.pc = "fill"
  BY PromptFacts DEF Gesture, TurnInv, TurnIsCurrent, UnsentUntilGesture
<1>2. /\ w' \in Turn /\ w'.prompt = p /\ w'.pc \in {"watch", "recover"} /\ w'.tries = w.tries
      /\ UNCHANGED <<req, result>>
  <2>1. PICK raises \in BOOLEAN : w' = [w EXCEPT !.pc = IF raises THEN "recover" ELSE "watch"]
    BY DEF Gesture, UncertainAtGesture
  <2>2. w \in Turn
    BY DEF TurnInv, TurnTypeOK
  <2>3. UNCHANGED <<req, result>>
    BY DEF Gesture, UncertainAtGesture
  <2> QED
    BY <2>1, <2>2, <2>3 DEF Turn
<1>3. /\ sent \in [Prompts -> 0 .. Retries + 1]
      /\ sent' = sent \/ sent' = [sent EXCEPT ![p] = @ + 1]
  BY DEF Gesture, TurnInv, TurnTypeOK
<1>4. /\ sent' \in [Prompts -> 0 .. Retries + 1]
      /\ sent'[p] \in {0, 1}
      /\ \A q \in Prompts : q # p => sent'[q] = sent[q]
  BY <1>1, <1>3, ProviderTurnAssumption
<1>5. chat' \in [Chats -> [count : Nat, last : Text, asked : Seq(Prompts)]]
  <2>1. CASE UNCHANGED chat
    BY <2>1 DEF TurnInv, TurnTypeOK
  <2>2. CASE chat' = [chat EXCEPT ![ChatOf(p)].asked = Append(@, p)]
    <3>1. chat[ChatOf(p)] \in [count : Nat, last : Text, asked : Seq(Prompts)] /\ ChatOf(p) \in Chats
      BY DEF TurnInv, TurnTypeOK, ChatOf, Chats
    <3>2. Append(chat[ChatOf(p)].asked, p) \in Seq(Prompts)
      BY <1>1, <3>1
    <3>3. [chat[ChatOf(p)] EXCEPT !.asked = Append(chat[ChatOf(p)].asked, p)]
            \in [count : Nat, last : Text, asked : Seq(Prompts)]
      BY <3>1, <3>2
    <3> QED
      BY <2>2, <3>1, <3>3 DEF TurnInv, TurnTypeOK
  <2> QED
    BY <2>1, <2>2 DEF Gesture
<1>6. TurnTypeOK'
  BY <1>1, <1>2, <1>4, <1>5, StepTypes DEF TurnInv, TurnTypeOK
<1>7. TurnIsCurrent' /\ UnsentUntilGesture' /\ AttemptFollows'
  BY <1>1, <1>2 DEF TurnInv, TurnIsCurrent, UnsentUntilGesture, AttemptFollows
<1>8. FutureUntouched'
  <2> SUFFICES ASSUME NEW r \in Requests, NEW k \in 1 .. 3,
                      \/ req[r].turn < k
                      \/ req[r].turn = k /\ req[r].outcome = "none" /\ p # <<r, k>>
               PROVE  sent'[<<r, k>>] = 0 /\ result[<<r, k>>].how = "none"
    BY <1>2 DEF FutureUntouched, Untouched
  <2>1. <<r, k>> # p
    BY <1>1 DEF TurnInv, TurnTypeOK
  <2>2. sent[<<r, k>>] = 0 /\ result[<<r, k>>].how = "none"
    BY <2>1 DEF TurnInv, FutureUntouched, Untouched
  <2> QED
    BY <1>4, <2>1, <2>2, PromptFacts
<1>9. SubmittedAtMostOnce' /\ PreSubmitMeansUnsent'
  <2> SUFFICES ASSUME NEW q \in Prompts
               PROVE  sent'[q] <= 1 /\ (result[q].how = "presubmit" => sent'[q] = 0)
    BY <1>2 DEF SubmittedAtMostOnce, PreSubmitMeansUnsent
  <2>1. CASE q = p
    BY <1>1, <1>4, <2>1
  <2>2. CASE q # p
    BY <1>4, <2>2 DEF TurnInv, SubmittedAtMostOnce, PreSubmitMeansUnsent
  <2> QED
    BY <2>1, <2>2
<1> QED
  BY <1>6, <1>7, <1>8, <1>9 DEF TurnInv

\* An answer that stays the same long enough ends the turn.
LEMMA AnsweredKeeps ==
  ASSUME TurnInv, w.pc # "free", NEW text \in Text, Answered(text),
         UNCHANGED <<chat, sent, provider>>
  PROVE  TurnInv'
<1> DEFINE p == w.prompt
           r == w.prompt[1]
           e == [how |-> "answer", text |-> text]
<1>1. /\ req \in [Requests -> [turn : 1 .. 3, outcome : Outcomes]]
      /\ result \in [Prompts -> [how : Outcomes, text : Text]]
      /\ p \in Prompts /\ r \in Requests /\ p[2] = req[r].turn
  BY PromptFacts DEF TurnInv, TurnTypeOK, TurnIsCurrent
<1>2. PICK n \in Followups(r) : req' = [req EXCEPT ![r] = n]
  BY DEF Answered
<1>3. /\ n \in [turn : 1 .. 3, outcome : Outcomes]
      /\ n.turn > p[2] \/ (n.turn = p[2] /\ n.outcome # "none")
  <2>1. ASSUME NEW o \in {"answer", "unrepaired"}, n = [req[r] EXCEPT !.outcome = o]
        PROVE  n \in [turn : 1 .. 3, outcome : Outcomes] /\ n.turn = p[2] /\ n.outcome = o
    BY <1>1, <2>1 DEF Outcomes
  <2>2. ASSUME NEW k \in 2 .. 3, req[r].turn < k, n = [req[r] EXCEPT !.turn = k]
        PROVE  n \in [turn : 1 .. 3, outcome : Outcomes] /\ n.turn > p[2]
    BY <1>1, <2>2
  <2>3. \/ \E o \in {"answer", "unrepaired"} : n = [req[r] EXCEPT !.outcome = o]
        \/ \E k \in 2 .. 3 : req[r].turn < k /\ n = [req[r] EXCEPT !.turn = k]
    BY <1>2 DEF Followups
  <2> QED
    BY <2>1, <2>2, <2>3
<1>4. e \in [how : Outcomes, text : Text] /\ e.how = "answer"
  BY DEF Outcomes
<1>5. w' = FreeTurn /\ result' = [result EXCEPT ![p] = e]
  BY DEF Answered
<1>6. SubmitInv'
  BY <1>2, <1>3, <1>4, <1>5, KeptAtEnd
<1>7. TurnTypeOK'
  <2>1. result' \in [Prompts -> [how : Outcomes, text : Text]]
    BY <1>1, <1>4, <1>5
  <2>2. req' \in [Requests -> [turn : 1 .. 3, outcome : Outcomes]]
    BY <1>1, <1>2, <1>3
  <2> QED
    BY <1>5, <2>1, <2>2, FreeTurnType, StepTypes DEF TurnInv, TurnTypeOK
<1>8. AttemptFollows'
  BY <1>5, FreeTurnType DEF AttemptFollows
<1> QED
  BY <1>6, <1>7, <1>8 DEF TurnInv, SubmitInv

LEMMA LookKeeps ==
  ASSUME TurnInv, Look, UNCHANGED provider
  PROVE  TurnInv'
<1> DEFINE rounds == IF Page.last = w.seen THEN w.stable + 1 ELSE 0
<1>1. w \in Turn /\ w.pc \in {"watch", "recover"} /\ Page.last \in Text
  BY PageType DEF TurnInv, TurnTypeOK, Look
<1>2. CASE Final(rounds)
  BY <1>1, <1>2, AnsweredKeeps DEF Look
<1>3. CASE ~Final(rounds)
  <2> DEFINE pause == IF Rendering(ChatOf(w.prompt)) THEN w.pause + 1 ELSE 0
  <2>1. /\ w' = [w EXCEPT !.seen = Page.last, !.stable = rounds, !.pause = pause]
        /\ UNCHANGED <<req, result>>
    BY <1>3 DEF Look
  <2>2. w.stable \in 0 .. 5 /\ w.pause \in 0 .. 5 /\ Stable \in {2, 5}
    BY <1>1 DEF Turn, Stable
  <2>3. rounds \in 0 .. 5 /\ pause \in 0 .. 5
    BY <1>3, <2>2 DEF Final, Look
  <2>4. w' \in Turn
    BY <1>1, <2>1, <2>3 DEF Turn
  <2>5. w'.prompt = w.prompt /\ w'.tries = w.tries /\ w'.pc = w.pc
    BY <1>1, <2>1 DEF Turn
  <2> QED
    BY <1>1, <2>1, <2>4, <2>5, WithinTurnKeeps DEF Look, TurnInv, TurnTypeOK
<1> QED
  BY <1>2, <1>3

LEMMA RestartKeeps ==
  ASSUME TurnInv, Restart, UNCHANGED provider
  PROVE  TurnInv'
<1>1. w.pc = "backoff" /\ w \in Turn /\ w.tries > 1 /\ w.tries - 1 \in 0 .. Retries + 1
  BY ProviderTurnAssumption DEF Restart, TurnInv, TurnTypeOK, AttemptFollows, Turn
<1>2. w' \in Turn /\ w'.pc = "prepare" /\ w'.prompt = w.prompt /\ w'.tries = w.tries - 1
  <2>1. w' = [FreeTurn EXCEPT !.pc = "prepare", !.prompt = w.prompt, !.tries = w.tries - 1]
    BY DEF Restart
  <2>2. w.prompt \in Prompts \cup {NoPrompt}
    BY <1>1 DEF Turn
  <2> QED
    BY <1>1, <2>1, <2>2, FreeTurnType DEF Turn
<1>3. w'.tries > 0
  BY <1>1, <1>2 DEF Turn
<1>4. chat' \in [Chats -> [count : Nat, last : Text, asked : Seq(Prompts)]]
  BY EmptyChatType DEF Restart
<1>5. SubmitInv'
  BY <1>1, <1>2, KeptWithinTurn DEF Restart
<1>6. TurnTypeOK'
  BY <1>2, <1>3, <1>4, StepTypes DEF Restart, TurnInv, TurnTypeOK
<1>7. AttemptFollows'
  BY <1>2 DEF AttemptFollows
<1> QED
  BY <1>5, <1>6, <1>7 DEF TurnInv, SubmitInv

LEMMA RestartFailsKeeps ==
  ASSUME TurnInv, RestartFails, UNCHANGED provider
  PROVE  TurnInv'
<1>1. chat' \in [Chats -> [count : Nat, last : Text, asked : Seq(Prompts)]]
  BY EmptyChatType DEF RestartFails
<1>2. w.pc = "backoff" /\ sent[w.prompt] = 0
  BY DEF RestartFails, TurnInv, UnsentUntilGesture
<1> QED
  BY <1>1, <1>2, RaisedKeeps DEF RestartFails

\* What the site does changes the chat, and at most the pause of the turn.
LEMMA SiteKeeps ==
  ASSUME TurnInv, NEW c \in Chats, UNCHANGED provider,
         \/ SiteAnswers(c) \/ SiteRenders(c) \/ SiteRerenders(c) \/ SiteRefuses(c) \/ PageClosed(c)
  PROVE  TurnInv'
<1> DEFINE Chat == [count : Nat, last : Text, asked : Seq(Prompts)]
<1>1. chat \in [Chats -> Chat] /\ chat[c] \in Chat /\ w \in Turn
  BY DEF TurnInv, TurnTypeOK
<1>2. ASSUME NEW n \in Chat, chat' = [chat EXCEPT ![c] = n], UNCHANGED <<req, sent, result>>,
             w' = w \/ w' = [w EXCEPT !.pause = 0]
      PROVE  TurnInv'
  <2>1. chat' \in [Chats -> Chat]
    BY <1>1, <1>2
  <2>2. CASE w' = w
    BY <1>1, <1>2, <2>1, <2>2, WithinTurnKeeps
  <2>3. CASE w' = [w EXCEPT !.pause = 0]
    <3>0. 0 \in 0 .. 5
      OBVIOUS
    <3>1. w' \in Turn
      BY <1>1, <2>3, <3>0, TurnUpdate
    <3>2. w'.prompt = w.prompt /\ w'.tries = w.tries /\ w'.pc = w.pc
      BY <1>1, <2>3 DEF Turn
    <3> QED
      BY <1>2, <2>1, <3>1, <3>2, WithinTurnKeeps
  <2> QED
    BY <1>2, <2>2, <2>3
<1>3. CASE SiteAnswers(c)
  <2>1. Head(chat[c].asked) \in Prompts /\ Tail(chat[c].asked) \in Seq(Prompts)
    BY <1>1, <1>3 DEF SiteAnswers
  <2>2. PICK more \in {0, 1} :
          chat' = [chat EXCEPT ![c] = [count |-> chat[c].count + more,
                                       last  |-> [prompt |-> Head(chat[c].asked), part |-> 1, anew |-> FALSE],
                                       asked |-> Tail(chat[c].asked)]]
    BY <1>3, <1>1 DEF SiteAnswers
  <2>3. [prompt |-> Head(chat[c].asked), part |-> 1, anew |-> FALSE] \in Text
    BY <2>1, ProviderTurnAssumption DEF Text
  <2>4. [count |-> chat[c].count + more,
         last  |-> [prompt |-> Head(chat[c].asked), part |-> 1, anew |-> FALSE],
         asked |-> Tail(chat[c].asked)] \in Chat
    BY <1>1, <2>1, <2>3
  <2> QED
    BY <1>2, <1>3, <2>2, <2>4 DEF SiteAnswers
<1>4. CASE SiteRenders(c)
  <2> DEFINE n == [chat[c] EXCEPT !.last.part = @ + 1]
  <2>1. chat[c].last \in [prompt : Prompts, part : 1 .. Parts, anew : BOOLEAN]
        /\ chat[c].last.part + 1 \in 1 .. Parts
    BY <1>1, <1>4, ProviderTurnAssumption DEF SiteRenders, Rendering, Text
  <2>2. [chat[c].last EXCEPT !.part = @ + 1] \in Text
    BY <2>1 DEF Text
  <2>3. n \in Chat
    BY <1>1, <2>2
  <2>4. chat' = [chat EXCEPT ![c] = n] /\ (w' = w \/ w' = [w EXCEPT !.pause = 0])
    BY <1>1, <1>4 DEF SiteRenders
  <2> QED
    BY <1>2, <1>4, <2>3, <2>4 DEF SiteRenders
<1>5. CASE SiteRerenders(c)
  <2> DEFINE n == [chat[c] EXCEPT !.last.anew = TRUE]
  <2>1. chat[c].last \in [prompt : Prompts, part : 1 .. Parts, anew : BOOLEAN]
    BY <1>1, <1>5, ProviderTurnAssumption DEF SiteRerenders, Text, NoText
  <2>2. [chat[c].last EXCEPT !.anew = TRUE] \in Text
    BY <2>1 DEF Text
  <2>3. n \in Chat
    BY <1>1, <2>2
  <2>4. chat' = [chat EXCEPT ![c] = n]
    BY <1>1, <1>5 DEF SiteRerenders
  <2> QED
    BY <1>2, <1>5, <2>3, <2>4 DEF SiteRerenders
<1>6. CASE SiteRefuses(c)
  <2> DEFINE n == [chat[c] EXCEPT !.asked = Tail(@)]
  <2>0. Tail(chat[c].asked) \in Seq(Prompts)
    BY <1>1, <1>6 DEF SiteRefuses
  <2>1. n \in Chat
    BY <1>1, <2>0
  <2>2. chat' = [chat EXCEPT ![c] = n]
    BY <1>1, <1>6 DEF SiteRefuses
  <2> QED
    BY <1>2, <1>6, <2>1, <2>2 DEF SiteRefuses
<1>7. CASE PageClosed(c)
  BY <1>2, <1>7, EmptyChatType DEF PageClosed
<1> QED
  BY <1>3, <1>4, <1>5, <1>6, <1>7

-----------------------------------------------------------------------------
(* The theorems.                                                           *)

\* The inductive invariant: it is true at first, and every step keeps it.
THEOREM TurnInvariant == TurnSpec => []TurnInv
<1>1. TurnInit => TurnInv
  <2> SUFFICES ASSUME TurnInit PROVE TurnInv
    OBVIOUS
  <2>1. w \in Turn /\ w.pc = "free"
    BY FreeTurnType DEF TurnInit
  <2>2. chat \in [Chats -> [count : Nat, last : Text, asked : Seq(Prompts)]]
    BY EmptyChatType DEF TurnInit
  <2>3. /\ req \in [Requests -> [turn : 1 .. 3, outcome : Outcomes]]
        /\ result \in [Prompts -> [how : Outcomes, text : Text]]
        /\ sent \in [Prompts -> 0 .. Retries + 1]
    BY ProviderTurnAssumption DEF TurnInit, Outcomes, Text
  <2>4. TurnTypeOK
    BY <2>1, <2>2, <2>3 DEF TurnInit, TurnTypeOK
  <2>5. \A p \in Prompts : sent[p] = 0 /\ result[p].how = "none"
    BY DEF TurnInit
  <2> QED
    BY <2>1, <2>4, <2>5, PromptFacts
    DEF TurnInv, AttemptFollows, TurnIsCurrent, UnsentUntilGesture, FutureUntouched, Untouched,
        SubmittedAtMostOnce, PreSubmitMeansUnsent
<1>2. TurnInv /\ [TurnNext]_<<turnVars, provider>> => TurnInv'
  <2> SUFFICES ASSUME TurnInv, [TurnNext]_<<turnVars, provider>> PROVE TurnInv'
    OBVIOUS
  <2>0. w \in Turn /\ chat \in [Chats -> [count : Nat, last : Text, asked : Seq(Prompts)]]
        /\ Page.count \in Nat /\ Page.last \in Text
    BY PageType DEF TurnInv, TurnTypeOK
  <2>1. ASSUME Prepare, UNCHANGED provider PROVE TurnInv'
    <3>1. w' \in Turn /\ w'.prompt = w.prompt /\ w'.tries = w.tries /\ w'.pc = "fill" /\ w.pc = "prepare"
      BY <2>0, <2>1 DEF Prepare, Turn
    <3> QED
      BY <2>0, <2>1, <3>1, WithinTurnKeeps DEF Prepare
  <2>2. ASSUME FailUnsent, UNCHANGED provider PROVE TurnInv'
    BY <2>2, BeforeSubmitKeeps DEF FailUnsent
  <2>3. ASSUME Gesture, UNCHANGED provider PROVE TurnInv'
    BY <2>3, GestureKeeps
  <2>4. ASSUME Look, UNCHANGED provider PROVE TurnInv'
    BY <2>4, LookKeeps
  <2>5. ASSUME WatchEnds, UNCHANGED provider PROVE TurnInv'
    <3>1. NoText \in Text /\ 0 \in 0 .. 5
      BY DEF Text
    <3>2. w' \in Turn
      BY <2>0, <2>5, <3>1, TurnUpdate DEF WatchEnds
    <3>3. w'.prompt = w.prompt /\ w'.tries = w.tries /\ w'.pc = "recover" /\ w.pc = "watch"
      BY <2>0, <2>5 DEF WatchEnds, Turn
    <3> QED
      BY <2>0, <2>5, <3>2, <3>3, WithinTurnKeeps DEF WatchEnds
  <2>6. ASSUME RecoverEnds, UNCHANGED provider PROVE TurnInv'
    BY <2>0, <2>6, RaisedKeeps DEF RecoverEnds
  <2>7. ASSUME Restart, UNCHANGED provider PROVE TurnInv'
    BY <2>7, RestartKeeps
  <2>8. ASSUME RestartFails, UNCHANGED provider PROVE TurnInv'
    BY <2>8, RestartFailsKeeps
  <2>9. ASSUME NEW c \in Chats, UNCHANGED provider,
               \/ SiteAnswers(c) \/ SiteRenders(c) \/ SiteRerenders(c) \/ SiteRefuses(c) \/ PageClosed(c)
        PROVE  TurnInv'
    BY <2>9, SiteKeeps
  <2>10. ASSUME NEW r \in Requests, GetLock(r), UNCHANGED provider PROVE TurnInv'
    BY <2>10, GetLockKeeps
  <2>11. CASE UNCHANGED <<turnVars, provider>>
    BY <2>11 DEF turnVars, TurnInv, TurnTypeOK, AttemptFollows, TurnIsCurrent, UnsentUntilGesture,
       FutureUntouched, Untouched, SubmittedAtMostOnce, PreSubmitMeansUnsent
  <2> QED
    BY <2>1, <2>2, <2>3, <2>4, <2>5, <2>6, <2>7, <2>8, <2>9, <2>10, <2>11 DEF TurnNext, Serve, Site
<1> QED
  BY <1>1, <1>2, PTL DEF TurnSpec

\* Every reachable state is type correct; in particular no request tries more
\* often than Retries + 1 times.
THEOREM TurnTypeCorrect == TurnSpec => []TurnTypeOK
BY TurnInvariant, PTL DEF TurnInv

\* No prompt reaches the site twice, whatever fails and is tried again.
THEOREM NeverReplayed == TurnSpec => []SubmittedAtMostOnce
BY TurnInvariant, PTL DEF TurnInv

\* A prompt whose turn failed before its gesture was never sent.
THEOREM PreSubmitIsUnsent == TurnSpec => []PreSubmitMeansUnsent
BY TurnInvariant, PTL DEF TurnInv

-----------------------------------------------------------------------------
(* Answers.                                                                *)
(*                                                                         *)
(* Which text a turn takes depends on what the site still owes to earlier  *)
(* turns, and on what the page showed before the gesture.                  *)

Elements(s) == {s[i] : i \in 1 .. Len(s)}

Once(s) == \A i, j \in 1 .. Len(s) : s[i] = s[j] => i = j

Observing == w.pc \in {"watch", "recover"}

Watching(c) == Observing /\ ChatOf(w.prompt) = c

\* What a chat is asked, or shows, was sent there, and nothing is asked twice.
AskedOnce ==
  \A c \in Chats :
    /\ \A p \in Elements(chat[c].asked) : sent[p] > 0 /\ ChatOf(p) = c
    /\ Once(chat[c].asked)

ShownWasAsked ==
  \A c \in Chats : chat[c].last # NoText =>
    LET p == chat[c].last.prompt
    IN  sent[p] > 0 /\ ChatOf(p) = c /\ p \notin Elements(chat[c].asked)

\* The text seen last is not one the site has yet to render.
SeenIsPast ==
  \A c \in Chats : Watching(c) =>
    /\ w.seen.prompt \notin Elements(chat[c].asked)
    /\ w.seen.prompt = chat[c].last.prompt => w.seen.part <= chat[c].last.part

\* The looks at one text number no more than those since the site rendered.
LooksArePaused ==
  /\ ~Observing => w.seen = NoText /\ w.stable = 0 /\ w.pause = 0
  /\ \A c \in Chats : Watching(c) =>
       /\ ~Rendering(c) => w.pause = 0
       /\ Rendering(c) /\ w.seen = chat[c].last => w.stable < w.pause

WholeInv == AskedOnce /\ ShownWasAsked /\ SeenIsPast /\ LooksArePaused /\ AnswerIsWhole

\* What chat c showed before the gesture is what it shows.
AsBefore(c) == w.count = chat[c].count /\ (~Qwen => w.before = chat[c].last)

\* The answer that chat c shows was rendered anew, which is news to DeepSeek.
Rerendered(c) == ~Qwen /\ chat[c].last.anew

\* A text that was given as an answer is not asked for again; where it is still
\* shown, it is whole and no turn takes it for news, unless it was rendered
\* anew since.
GivenIsOld ==
  \A p \in Prompts : result[p].how = "answer" =>
    LET x == result[p].text.prompt IN
    /\ x \in Prompts /\ sent[x] > 0
    /\ \A c \in Chats :
         /\ x \notin Elements(chat[c].asked)
         /\ chat[c].last.prompt = x =>
              /\ chat[c].last.part = Parts
              /\ result[p].text.anew => chat[c].last.anew
              /\ (w.pc = "fill" \/ Observing) /\ ChatOf(w.prompt) = c =>
                   AsBefore(c) \/ (Rerendered(c) /\ ~result[p].text.anew)

Uncertain(c) == \E u \in Prompts : result[u].how = "uncertain" /\ ChatOf(u) = c

\* The next answers of chat c may be late ones.
Excused(c) == Uncertain(c) \/ Astray(c)

\* What chat c showed before the gesture is all it shows, if maybe rendered anew.
NoNews(c) == AsBefore(c) \/ Rerendered(c)

\* A chat without an uncertain turn, or one that went astray, owes nothing but
\* the answer to the prompt that is watched, and shows nothing new otherwise.
OwesItsPrompt ==
  \A c \in Chats : ~Excused(c) =>
    IF Watching(c)
    THEN \/ chat[c].asked = <<>> /\ chat[c].last.prompt = w.prompt
         \/ chat[c].asked \in {<<>>, <<w.prompt>>} /\ ~Rendering(c) /\ NoNews(c)
    ELSE /\ chat[c].asked = <<>> /\ ~Rendering(c)
         /\ w.pc = "fill" /\ ChatOf(w.prompt) = c => NoNews(c)

OwnInv == GivenIsOld /\ AnswerGivenOnce /\ OwesItsPrompt /\ OwnOrLateAnswer

-----------------------------------------------------------------------------
(* Facts about the data.                                                   *)

LEMMA AppendElements ==
  ASSUME NEW S, NEW s \in Seq(S), NEW e \in S
  PROVE  /\ Elements(Append(s, e)) = Elements(s) \cup {e}
         /\ Once(s) /\ e \notin Elements(s) => Once(Append(s, e))
<1> DEFINE t == Append(s, e)
<1>1. Len(s) \in Nat /\ Len(t) = Len(s) + 1 /\ t[Len(s) + 1] = e /\ \A i \in 1 .. Len(s) : t[i] = s[i]
  OBVIOUS
<1>2. Elements(t) = Elements(s) \cup {e}
  <2> HIDE DEF t
  <2>1. \A x \in Elements(t) : x \in Elements(s) \cup {e}
    BY <1>1 DEF Elements
  <2>2. \A x \in Elements(s) : x \in Elements(t)
    BY <1>1 DEF Elements
  <2>3. e \in Elements(t)
    <3>1. Len(s) + 1 \in 1 .. Len(t)
      BY <1>1
    <3> QED  BY <1>1, <3>1 DEF Elements
  <2> QED  BY <2>1, <2>2, <2>3
<1>3. Once(s) /\ e \notin Elements(s) => Once(t)
  <2> HIDE DEF t
  <2> QED  BY <1>1 DEF Once, Elements
<1> QED  BY <1>2, <1>3

LEMMA TailElements ==
  ASSUME NEW S, NEW s \in Seq(S), s # <<>>
  PROVE  /\ Head(s) \in Elements(s) /\ Elements(Tail(s)) \subseteq Elements(s)
         /\ Once(s) => Once(Tail(s)) /\ Head(s) \notin Elements(Tail(s))
<1> DEFINE t == Tail(s)
<1>1. /\ Len(s) \in Nat \ {0} /\ Len(t) = Len(s) - 1 /\ Head(s) = s[1]
      /\ \A i \in 1 .. Len(t) : t[i] = s[i + 1]
  OBVIOUS
<1>2. \A i \in 1 .. Len(t) : i + 1 \in 1 .. Len(s)
  BY <1>1
<1> HIDE DEF t
<1>3. Head(s) \in Elements(s)
  BY <1>1 DEF Elements
<1>4. Elements(t) \subseteq Elements(s)
  BY <1>1, <1>2 DEF Elements
<1>5. Once(s) => Once(t)
  BY <1>1, <1>2 DEF Once
<1>6. Once(s) => Head(s) \notin Elements(t)
  BY <1>1, <1>2 DEF Once, Elements
<1> QED  BY <1>3, <1>4, <1>5, <1>6 DEF t

LEMMA NoElements == Elements(<<>>) = {} /\ Once(<<>>)
BY DEF Elements, Once

LEMMA TextFacts ==
  ASSUME NEW t \in Text
  PROVE  /\ t = NoText <=> t.prompt = NoPrompt
         /\ t # NoText => t.prompt \in Prompts /\ t.part \in 1 .. Parts
         /\ t.part \in Nat
BY PromptFacts, ProviderTurnAssumption DEF Text, NoText

\* A turn that observes has a prompt, and thereby a chat.
LEMMA ObservingFacts ==
  ASSUME TurnInv, Observing
  PROVE  /\ w.prompt \in Prompts /\ result[w.prompt].how = "none"
         /\ ChatOf(w.prompt) \in Chats /\ Watching(ChatOf(w.prompt))
BY DEF TurnInv, TurnIsCurrent, Observing, Watching, ChatOf, Chats

-----------------------------------------------------------------------------
(* An answer is whole.                                                     *)

\* A step that leaves the site alone, and no turn observing.
LEMMA WholeAtRest ==
  ASSUME TurnInv, WholeInv, UNCHANGED <<chat, sent>>,
         w'.pc \notin {"watch", "recover"}, w'.seen = NoText, w'.stable = 0, w'.pause = 0,
         AnswerIsWhole'
  PROVE  WholeInv'
BY DEF WholeInv, AskedOnce, ShownWasAsked, SeenIsPast, LooksArePaused, Observing, Watching, Rendering

\* A step after which every chat is a new one.
LEMMA WholeAnew ==
  ASSUME TurnInv, WholeInv, chat' = [c \in Chats |-> EmptyChat],
         w'.pc \notin {"watch", "recover"}, w'.seen = NoText, w'.stable = 0, w'.pause = 0,
         AnswerIsWhole'
  PROVE  WholeInv'
BY NoElements
DEF WholeInv, AskedOnce, ShownWasAsked, SeenIsPast, LooksArePaused, Observing, Watching, Rendering,
    EmptyChat

LEMMA FreeTurnFields == FreeTurn.seen = NoText /\ FreeTurn.stable = 0 /\ FreeTurn.pause = 0
BY DEF FreeTurn

LEMMA RaisedResult ==
  ASSUME TurnInv, w.pc # "free", NEW how \in {"presubmit", "uncertain"}, Raised(how)
  PROVE  /\ w.prompt \in Prompts /\ result[w.prompt].how = "none"
         /\ result'[w.prompt].how = how
         /\ \A p \in Prompts \ {w.prompt} : result'[p] = result[p]
         /\ w' = FreeTurn
BY DEF Raised, TurnInv, TurnTypeOK, TurnIsCurrent, Outcomes

LEMMA RaisedWhole ==
  ASSUME TurnInv, WholeInv, w.pc # "free", NEW how \in {"presubmit", "uncertain"}, Raised(how)
  PROVE  AnswerIsWhole'
BY RaisedResult DEF WholeInv, AnswerIsWhole

\* What takes a text has looked at it longer than the site pauses.
LEMMA FinalIsWhole ==
  ASSUME TurnInv, WholeInv, Observing, Started,
         Rendering(ChatOf(w.prompt)) => w.pause < Stable,
         Final(IF Page.last = w.seen THEN w.stable + 1 ELSE 0)
  PROVE  Page.last.prompt \in Prompts /\ Page.last.part = Parts /\ ~Rendering(ChatOf(w.prompt))
<1> DEFINE c == ChatOf(w.prompt)
<1>1. Stable \in {2, 5} /\ w.stable \in 0 .. 5 /\ w.pause \in 0 .. 5
  BY DEF Stable, TurnInv, TurnTypeOK, Turn
<1>2. Page.last = w.seen /\ w.stable + 1 >= Stable
  BY <1>1 DEF Final
<1>3. Watching(c) /\ c \in Chats /\ Page = chat[c]
  BY ObservingFacts DEF Page
<1>4. ~Rendering(c)
  <2> SUFFICES ASSUME Rendering(c) PROVE FALSE
    OBVIOUS
  <2>1. w.stable < w.pause
    BY <1>2, <1>3 DEF WholeInv, LooksArePaused
  <2> QED  BY <1>1, <1>2, <2>1
<1>5. Page.last # NoText /\ Page.last \in Text
  BY PageType DEF Started, TurnInv
<1> QED  BY <1>3, <1>4, <1>5, TextFacts, ProviderTurnAssumption DEF Rendering

\* What an answer leaves.
LEMMA AnsweredResult ==
  ASSUME TurnInv, Observing, NEW text \in Text, Answered(text)
  PROVE  /\ w.prompt \in Prompts /\ result[w.prompt].how = "none"
         /\ result'[w.prompt] = [how |-> "answer", text |-> text]
         /\ \A p \in Prompts \ {w.prompt} : result'[p] = result[p]
         /\ w' = FreeTurn
BY ObservingFacts DEF Answered, TurnInv, TurnTypeOK

\* What a look that takes nothing leaves.
LEMMA LookOn ==
  ASSUME TurnInv, Look, ~Final(IF Page.last = w.seen THEN w.stable + 1 ELSE 0)
  PROVE  /\ w'.pc = w.pc /\ w'.prompt = w.prompt /\ w'.count = w.count /\ w'.before = w.before
         /\ w'.seen = Page.last
         /\ w'.stable = IF Page.last = w.seen THEN w.stable + 1 ELSE 0
         /\ w'.pause = IF Rendering(ChatOf(w.prompt)) THEN w.pause + 1 ELSE 0
         /\ UNCHANGED <<chat, sent, result>>
BY DEF Look, TurnInv, TurnTypeOK, Turn

LEMMA LookWhole ==
  ASSUME TurnInv, WholeInv, Look
  PROVE  WholeInv'
<1> DEFINE rounds == IF Page.last = w.seen THEN w.stable + 1 ELSE 0
           c == ChatOf(w.prompt)
<1>1. /\ Observing /\ Page.last \in Text /\ Page.last # NoText /\ Page = chat[c]
      /\ c \in Chats /\ Watching(c)
  BY PageType, ObservingFacts DEF Look, Started, Observing, TurnInv, Page
<1>2. CASE Final(rounds)
  <2>1. Page.last.part = Parts
    BY <1>1, <1>2, FinalIsWhole DEF Look
  <2>2. Answered(Page.last)
    BY <1>2 DEF Look
  <2>3. AnswerIsWhole'
    <3>1. /\ result'[w.prompt] = [how |-> "answer", text |-> Page.last]
          /\ \A p \in Prompts \ {w.prompt} : result'[p] = result[p]
      BY <1>1, <2>2, AnsweredResult
    <3> QED  BY <2>1, <3>1 DEF WholeInv, AnswerIsWhole
  <2> QED
    BY <1>1, <2>2, <2>3, AnsweredResult, WholeAtRest, FreeTurnType, FreeTurnFields DEF Look
<1>3. CASE ~Final(rounds)
  <2>1. /\ w'.pc = w.pc /\ w'.prompt = w.prompt /\ w'.seen = Page.last
        /\ w'.stable = rounds /\ w'.pause = (IF Rendering(c) THEN w.pause + 1 ELSE 0)
        /\ UNCHANGED <<chat, sent, result>>
    BY <1>3, LookOn
  <2>2. AskedOnce' /\ ShownWasAsked' /\ AnswerIsWhole'
    BY <2>1 DEF WholeInv, AskedOnce, ShownWasAsked, AnswerIsWhole
  <2>3. \A d \in Chats : Watching(d)' => d = c
    BY <2>1 DEF Watching
  <2>4. SeenIsPast'
    <3>1. Page.last.prompt \notin Elements(chat[c].asked)
      BY <1>1 DEF WholeInv, ShownWasAsked
    <3>2. Page.last.part \in Nat
      BY <1>1, TextFacts
    <3> QED  BY <1>1, <2>1, <2>3, <3>1, <3>2 DEF SeenIsPast
  <2>5. LooksArePaused'
    <3>1. w.stable \in 0 .. 5 /\ w.pause \in 0 .. 5
      BY DEF TurnInv, TurnTypeOK, Turn
    <3>2. Observing' /\ \A d \in Chats : Rendering(d)' = Rendering(d)
      BY <1>1, <2>1 DEF Observing, Rendering
    <3>3. Rendering(c) => rounds < w.pause + 1
      BY <1>1, <3>1 DEF WholeInv, LooksArePaused
    <3>4. (~Rendering(c) => w'.pause = 0) /\ (Rendering(c) => w'.stable < w'.pause)
      BY <2>1, <3>3
    <3> QED  BY <2>3, <3>2, <3>4 DEF LooksArePaused
  <2> QED  BY <2>2, <2>4, <2>5 DEF WholeInv
<1> QED  BY <1>2, <1>3

\* What a gesture does.
LEMMA GestureFacts ==
  ASSUME TurnInv, Gesture
  PROVE  /\ w.pc = "fill" /\ w.prompt \in Prompts /\ sent[w.prompt] = 0
         /\ w'.pc \in {"watch", "recover"} /\ UNCHANGED result
         /\ w'.prompt = w.prompt /\ w'.count = w.count /\ w'.before = w.before
         /\ w'.seen = w.seen /\ w'.stable = w.stable /\ w'.pause = w.pause
         /\ \A p \in Prompts : sent[p] > 0 => p # w.prompt /\ sent'[p] > 0
         /\ \A c \in Chats :
              /\ chat'[c].count = chat[c].count /\ chat'[c].last = chat[c].last
              /\ \/ chat'[c].asked = chat[c].asked
                 \/ /\ c = ChatOf(w.prompt) /\ sent'[w.prompt] > 0
                    /\ chat'[c].asked = Append(chat[c].asked, w.prompt)
<1>1. w.pc = "fill" /\ w.prompt \in Prompts /\ sent[w.prompt] = 0
  BY DEF Gesture, TurnInv, TurnIsCurrent, UnsentUntilGesture
<1>2. /\ w \in Turn /\ sent \in [Prompts -> 0 .. Retries + 1] /\ Retries \in Nat
      /\ chat \in [Chats -> [count : Nat, last : Text, asked : Seq(Prompts)]]
  BY ProviderTurnAssumption DEF TurnInv, TurnTypeOK
<1>3. /\ w'.pc \in {"watch", "recover"} /\ UNCHANGED result
      /\ w'.prompt = w.prompt /\ w'.count = w.count /\ w'.before = w.before
      /\ w'.seen = w.seen /\ w'.stable = w.stable /\ w'.pause = w.pause
  BY <1>2 DEF Gesture, UncertainAtGesture, Turn
<1>4. CASE UNCHANGED <<chat, sent>>
  BY <1>1, <1>3, <1>4
<1>5. CASE /\ chat' = [chat EXCEPT ![ChatOf(w.prompt)].asked = Append(@, w.prompt)]
           /\ sent' = [sent EXCEPT ![w.prompt] = @ + 1]
  <2>1. sent'[w.prompt] > 0 /\ \A p \in Prompts : sent[p] > 0 => p # w.prompt /\ sent'[p] > 0
    BY <1>1, <1>2, <1>5
  <2> QED  BY <1>1, <1>2, <1>3, <1>5, <2>1
<1> QED  BY <1>4, <1>5 DEF Gesture

LEMMA GestureWhole ==
  ASSUME TurnInv, WholeInv, Gesture
  PROVE  WholeInv'
<1> DEFINE r == w.prompt
<1>1. /\ w.pc = "fill" /\ r \in Prompts /\ sent[r] = 0
      /\ w'.pc \in {"watch", "recover"} /\ UNCHANGED result
      /\ w'.prompt = w.prompt
      /\ w'.seen = NoText /\ w'.stable = 0 /\ w'.pause = 0
  BY GestureFacts DEF WholeInv, LooksArePaused, Observing
<1>2. \A p \in Prompts : sent[p] > 0 => p # r /\ sent'[p] > 0
  BY GestureFacts
<1>3. ASSUME NEW c \in Chats
      PROVE  /\ \A p \in Elements(chat'[c].asked) : sent'[p] > 0 /\ ChatOf(p) = c
             /\ Once(chat'[c].asked)
             /\ Elements(chat'[c].asked) \subseteq Elements(chat[c].asked) \cup {r}
             /\ Elements(chat'[c].asked) \subseteq Prompts
  <2>1. chat[c].asked \in Seq(Prompts) /\ Elements(chat[c].asked) \subseteq Prompts
    BY PageType DEF TurnInv, Elements
  <2>2. /\ \A p \in Elements(chat[c].asked) : sent[p] > 0 /\ ChatOf(p) = c
        /\ Once(chat[c].asked)
    BY DEF WholeInv, AskedOnce
  <2>3. CASE chat'[c].asked = chat[c].asked
    BY <1>2, <2>1, <2>2, <2>3
  <2>4. CASE c = ChatOf(r) /\ sent'[r] > 0 /\ chat'[c].asked = Append(chat[c].asked, r)
    <3>1. r \notin Elements(chat[c].asked)
      BY <1>1, <2>2
    <3>2. Elements(chat'[c].asked) = Elements(chat[c].asked) \cup {r} /\ Once(chat'[c].asked)
      BY <1>1, <2>1, <2>2, <2>4, <3>1, AppendElements
    <3> QED  BY <1>1, <1>2, <2>1, <2>2, <2>4, <3>2
  <2> QED  BY <2>3, <2>4, GestureFacts
<1>4. \A c \in Chats : chat'[c].last = chat[c].last
  BY GestureFacts
<1>5. AskedOnce'
  BY <1>3 DEF AskedOnce
<1>6. ShownWasAsked'
  <2> SUFFICES ASSUME NEW c \in Chats, chat[c].last # NoText
               PROVE  LET p == chat[c].last.prompt
                      IN  sent'[p] > 0 /\ ChatOf(p) = c /\ p \notin Elements(chat'[c].asked)
    BY <1>4 DEF ShownWasAsked
  <2>1. chat[c].last.prompt \in Prompts
    BY PageType, TextFacts DEF TurnInv
  <2>2. /\ sent[chat[c].last.prompt] > 0 /\ ChatOf(chat[c].last.prompt) = c
        /\ chat[c].last.prompt \notin Elements(chat[c].asked)
    BY DEF WholeInv, ShownWasAsked
  <2> QED  BY <1>2, <1>3, <2>1, <2>2
<1>7. SeenIsPast'
  <2>1. NoText.prompt \notin Prompts /\ NoText.part = 0
    BY PromptFacts DEF NoText
  <2>2. \A c \in Chats : chat[c].last.part \in Nat
    BY PageType, TextFacts DEF TurnInv
  <2> QED  BY <1>1, <1>3, <1>4, <2>1, <2>2 DEF SeenIsPast
<1>8. LooksArePaused'
  BY <1>1 DEF LooksArePaused, Observing, Rendering
<1>9. AnswerIsWhole'
  BY <1>1 DEF WholeInv, AnswerIsWhole
<1> QED  BY <1>5, <1>6, <1>7, <1>8, <1>9 DEF WholeInv

LEMMA WatchEndsWhole ==
  ASSUME TurnInv, WholeInv, WatchEnds
  PROVE  WholeInv'
<1>1. /\ w.pc = "watch" /\ w'.pc = "recover" /\ w'.prompt = w.prompt
      /\ w'.seen = NoText /\ w'.stable = 0 /\ w'.pause = 0
      /\ UNCHANGED <<chat, sent, result>>
  BY DEF WatchEnds, TurnInv, TurnTypeOK, Turn
<1>2. AskedOnce' /\ ShownWasAsked' /\ AnswerIsWhole'
  BY <1>1 DEF WholeInv, AskedOnce, ShownWasAsked, AnswerIsWhole
<1>3. SeenIsPast'
  <2>1. NoText.prompt \notin Prompts /\ NoText.part = 0
    BY PromptFacts DEF NoText
  <2>2. \A c \in Chats : Elements(chat[c].asked) \subseteq Prompts /\ chat[c].last.part \in Nat
    BY PageType, TextFacts DEF TurnInv, Elements
  <2> QED  BY <1>1, <2>1, <2>2 DEF SeenIsPast
<1>4. LooksArePaused'
  BY <1>1 DEF LooksArePaused, Observing, Rendering
<1> QED  BY <1>2, <1>3, <1>4 DEF WholeInv

\* What the site does in chat c: other chats, prompts and results stay as they
\* are, and of the turn at most its pause changes.
LEMMA SiteFacts ==
  ASSUME TurnInv, NEW c \in Chats,
         \/ SiteAnswers(c) \/ SiteRenders(c) \/ SiteRerenders(c) \/ SiteRefuses(c) \/ PageClosed(c)
  PROVE  /\ \A d \in Chats : d # c => chat'[d] = chat[d]
         /\ UNCHANGED <<sent, result>>
         /\ w'.pc = w.pc /\ w'.prompt = w.prompt /\ w'.count = w.count /\ w'.before = w.before
         /\ w'.seen = w.seen /\ w'.stable = w.stable
         /\ w'.pause = w.pause \/ (w'.pause = 0 /\ ChatOf(w.prompt) = c)
<1>1. w \in Turn /\ chat \in [Chats -> [count : Nat, last : Text, asked : Seq(Prompts)]]
  BY DEF TurnInv, TurnTypeOK
<1>2. \A d \in Chats : d # c => chat'[d] = chat[d]
  BY <1>1 DEF SiteAnswers, SiteRenders, SiteRerenders, SiteRefuses, PageClosed
<1>3. UNCHANGED <<sent, result>>
  BY DEF SiteAnswers, SiteRenders, SiteRerenders, SiteRefuses, PageClosed
<1>4. w' = w \/ (w' = [w EXCEPT !.pause = 0] /\ ChatOf(w.prompt) = c)
  BY DEF SiteAnswers, SiteRenders, SiteRerenders, SiteRefuses, PageClosed
<1> QED  BY <1>1, <1>2, <1>3, <1>4 DEF Turn

\* A step of the site keeps what is said of every chat if it keeps it of its own.
LEMMA WholeOfChat ==
  ASSUME TurnInv, WholeInv, NEW c \in Chats,
         \/ SiteAnswers(c) \/ SiteRenders(c) \/ SiteRerenders(c) \/ SiteRefuses(c) \/ PageClosed(c),
         \A p \in Elements(chat'[c].asked) : sent[p] > 0 /\ ChatOf(p) = c,
         Once(chat'[c].asked),
         chat'[c].last # NoText =>
           /\ sent[chat'[c].last.prompt] > 0 /\ ChatOf(chat'[c].last.prompt) = c
           /\ chat'[c].last.prompt \notin Elements(chat'[c].asked),
         Watching(c) =>
           /\ w.seen.prompt \notin Elements(chat'[c].asked)
           /\ w.seen.prompt = chat'[c].last.prompt => w.seen.part <= chat'[c].last.part
           /\ ~Rendering(c)' => w'.pause = 0
           /\ Rendering(c)' /\ w.seen = chat'[c].last => w.stable < w'.pause
  PROVE  WholeInv'
<1>0. /\ \A d \in Chats : d # c => chat'[d] = chat[d]
      /\ UNCHANGED <<sent, result>>
      /\ w'.pc = w.pc /\ w'.prompt = w.prompt
      /\ w'.seen = w.seen /\ w'.stable = w.stable
      /\ w'.pause = w.pause \/ (w'.pause = 0 /\ ChatOf(w.prompt) = c)
  BY SiteFacts
<1>1. AskedOnce'
  BY <1>0 DEF WholeInv, AskedOnce
<1>2. ShownWasAsked'
  BY <1>0 DEF WholeInv, ShownWasAsked
<1>3. Observing' = Observing /\ \A d \in Chats : Watching(d)' = Watching(d)
  BY <1>0 DEF Observing, Watching
<1>4. SeenIsPast'
  BY <1>0, <1>3 DEF WholeInv, SeenIsPast
<1>5. LooksArePaused'
  <2>1. ~Observing => w'.seen = NoText /\ w'.stable = 0 /\ w'.pause = 0
    BY <1>0 DEF WholeInv, LooksArePaused
  <2>2. ASSUME NEW d \in Chats, Watching(d), d # c
        PROVE  /\ ~Rendering(d)' => w'.pause = 0
               /\ Rendering(d)' /\ w.seen = chat'[d].last => w.stable < w'.pause
    <3>1. w'.pause = w.pause /\ chat'[d] = chat[d] /\ Rendering(d)' = Rendering(d)
      BY <1>0, <2>2 DEF Watching, Rendering
    <3> QED  BY <2>2, <3>1 DEF WholeInv, LooksArePaused
  <2> QED  BY <1>0, <1>3, <2>1, <2>2 DEF LooksArePaused
<1>6. AnswerIsWhole'
  BY <1>0 DEF WholeInv, AnswerIsWhole
<1> QED  BY <1>1, <1>2, <1>4, <1>5, <1>6 DEF WholeInv

\* What each step of the site does to its chat.
LEMMA SiteAnswersFacts ==
  ASSUME TurnInv, NEW c \in Chats, SiteAnswers(c)
  PROVE  /\ chat[c].asked \in Seq(Prompts) /\ chat[c].asked # <<>> /\ ~Rendering(c)
         /\ chat'[c].last = [prompt |-> Head(chat[c].asked), part |-> 1, anew |-> FALSE]
         /\ chat'[c].asked = Tail(chat[c].asked)
         /\ w' = w
BY DEF SiteAnswers, TurnInv, TurnTypeOK

LEMMA SiteRendersFacts ==
  ASSUME TurnInv, NEW c \in Chats, SiteRenders(c)
  PROVE  /\ Rendering(c) /\ chat[c].last.part \in Nat
         /\ chat'[c].last.prompt = chat[c].last.prompt
         /\ chat'[c].last.part = chat[c].last.part + 1
         /\ chat'[c].asked = chat[c].asked /\ chat'[c].count = chat[c].count
         /\ w.prompt # NoPrompt /\ ChatOf(w.prompt) = c => w'.pause = 0
<1>1. chat \in [Chats -> [count : Nat, last : Text, asked : Seq(Prompts)]] /\ w \in Turn
  BY DEF TurnInv, TurnTypeOK
<1>2. chat[c].last \in [prompt : Prompts, part : 1 .. Parts, anew : BOOLEAN]
  BY <1>1 DEF SiteRenders, Rendering, Text
<1>3. w.prompt # NoPrompt /\ ChatOf(w.prompt) = c => w'.pause = 0
  BY <1>1 DEF SiteRenders, Turn
<1> QED  BY <1>1, <1>2, <1>3, ProviderTurnAssumption DEF SiteRenders

LEMMA SiteRerendersFacts ==
  ASSUME TurnInv, NEW c \in Chats, SiteRerenders(c)
  PROVE  /\ chat[c].last # NoText /\ ~Rendering(c) /\ ~Rendering(c)'
         /\ chat[c].last.part = Parts /\ chat'[c].last.part = Parts
         /\ chat'[c].last.prompt = chat[c].last.prompt
         /\ chat'[c].asked = chat[c].asked /\ chat'[c].count = chat[c].count
         /\ ~chat[c].last.anew /\ chat'[c].last.anew /\ w' = w
<1>1. chat \in [Chats -> [count : Nat, last : Text, asked : Seq(Prompts)]]
  BY DEF TurnInv, TurnTypeOK
<1>2. chat[c].last \in [prompt : Prompts, part : 1 .. Parts, anew : BOOLEAN] /\ chat[c].last # NoText
  BY <1>1, ProviderTurnAssumption DEF SiteRerenders, Text, NoText
<1>3. /\ chat'[c].last.prompt = chat[c].last.prompt /\ chat'[c].last.part = chat[c].last.part
      /\ chat'[c].asked = chat[c].asked /\ chat'[c].count = chat[c].count
      /\ ~chat[c].last.anew /\ chat'[c].last.anew
  BY <1>1, <1>2 DEF SiteRerenders
<1> QED  BY <1>2, <1>3, ProviderTurnAssumption DEF SiteRerenders, Rendering

LEMMA SiteRefusesFacts ==
  ASSUME TurnInv, NEW c \in Chats, SiteRefuses(c)
  PROVE  /\ chat[c].asked \in Seq(Prompts) /\ chat[c].asked # <<>>
         /\ chat'[c].last = chat[c].last /\ chat'[c].count = chat[c].count
         /\ chat'[c].asked = Tail(chat[c].asked)
         /\ w' = w
BY DEF SiteRefuses, TurnInv, TurnTypeOK

LEMMA PageClosedFacts ==
  ASSUME TurnInv, NEW c \in Chats, PageClosed(c)
  PROVE  /\ chat'[c] = EmptyChat /\ w' = w
         /\ w.pc # "free" => ChatOf(w.prompt) # c
BY PromptFacts DEF PageClosed, TurnInv, TurnTypeOK, TurnIsCurrent

LEMMA SiteWhole ==
  ASSUME TurnInv, WholeInv, NEW c \in Chats,
         \/ SiteAnswers(c) \/ SiteRenders(c) \/ SiteRerenders(c) \/ SiteRefuses(c) \/ PageClosed(c)
  PROVE  WholeInv'
<1>1. /\ \A p \in Elements(chat[c].asked) : sent[p] > 0 /\ ChatOf(p) = c
      /\ Once(chat[c].asked)
      /\ chat[c].last # NoText =>
           /\ sent[chat[c].last.prompt] > 0 /\ ChatOf(chat[c].last.prompt) = c
           /\ chat[c].last.prompt \notin Elements(chat[c].asked)
      /\ chat[c].last \in Text
  BY PageType DEF WholeInv, AskedOnce, ShownWasAsked, TurnInv
<1>2. Watching(c) =>
        /\ w.seen.prompt \notin Elements(chat[c].asked)
        /\ w.seen.prompt = chat[c].last.prompt => w.seen.part <= chat[c].last.part
        /\ ~Rendering(c) => w.pause = 0
        /\ Rendering(c) /\ w.seen = chat[c].last => w.stable < w.pause
  BY DEF WholeInv, SeenIsPast, LooksArePaused
<1>3. CASE SiteAnswers(c)
  <2>1. /\ Elements(chat'[c].asked) \subseteq Elements(chat[c].asked) /\ Once(chat'[c].asked)
        /\ Head(chat[c].asked) \in Elements(chat[c].asked)
        /\ Head(chat[c].asked) \notin Elements(chat'[c].asked)
        /\ chat'[c].last.prompt = Head(chat[c].asked)
        /\ w' = w /\ ~Rendering(c)
    <3>1. /\ chat[c].asked \in Seq(Prompts) /\ chat[c].asked # <<>> /\ ~Rendering(c)
          /\ chat'[c].last = [prompt |-> Head(chat[c].asked), part |-> 1, anew |-> FALSE]
          /\ chat'[c].asked = Tail(chat[c].asked) /\ w' = w
      BY <1>3, SiteAnswersFacts
    <3> QED  BY <1>1, <3>1, TailElements
  <2>2. Watching(c) => /\ w.seen.prompt \notin Elements(chat'[c].asked)
                       /\ w.seen.prompt # chat'[c].last.prompt /\ w.seen # chat'[c].last
                       /\ w'.pause = 0
    BY <1>2, <2>1
  <2> QED  BY <1>1, <1>3, <2>1, <2>2, WholeOfChat
<1>4. CASE SiteRenders(c)
  <2>1. /\ Rendering(c) /\ chat[c].last.part \in Nat
        /\ chat'[c].last.prompt = chat[c].last.prompt
        /\ chat'[c].last.part = chat[c].last.part + 1
        /\ chat'[c].asked = chat[c].asked
    BY <1>4, SiteRendersFacts
  <2>2. chat[c].last # NoText
    BY <2>1 DEF Rendering
  <2>3. Watching(c) => w'.pause = 0
    BY <1>4, SiteRendersFacts, ObservingFacts, PromptFacts DEF Watching
  <2>4. w.seen.part \in Nat
    BY TextFacts DEF TurnInv, TurnTypeOK, Turn
  <2>5. Watching(c) =>
          /\ w.seen.prompt = chat'[c].last.prompt => w.seen.part < chat'[c].last.part
          /\ w.seen # chat'[c].last
    BY <1>2, <2>1, <2>4
  <2>6. Watching(c) =>
           /\ w.seen.prompt \notin Elements(chat'[c].asked)
           /\ w.seen.prompt = chat'[c].last.prompt => w.seen.part <= chat'[c].last.part
           /\ ~Rendering(c)' => w'.pause = 0
           /\ Rendering(c)' /\ w.seen = chat'[c].last => w.stable < w'.pause
    BY <1>2, <2>1, <2>3, <2>4, <2>5
  <2> QED  BY <1>1, <1>4, <2>1, <2>2, <2>6, WholeOfChat
<1>5. CASE SiteRerenders(c)
  <2>1. /\ chat[c].last # NoText /\ ~Rendering(c) /\ ~Rendering(c)'
        /\ chat'[c].last.part = chat[c].last.part
        /\ chat'[c].last.prompt = chat[c].last.prompt
        /\ chat'[c].asked = chat[c].asked /\ w' = w
    BY <1>5, SiteRerendersFacts
  <2> QED  BY <1>1, <1>2, <1>5, <2>1, WholeOfChat
<1>6. CASE SiteRefuses(c)
  <2>1. /\ Elements(chat'[c].asked) \subseteq Elements(chat[c].asked) /\ Once(chat'[c].asked)
        /\ chat'[c].last = chat[c].last /\ w' = w
    BY <1>1, <1>6, SiteRefusesFacts, TailElements
  <2>2. Rendering(c)' = Rendering(c)
    BY <2>1 DEF Rendering
  <2> QED  BY <1>1, <1>2, <1>6, <2>1, <2>2, WholeOfChat
<1>7. CASE PageClosed(c)
  <2>1. /\ chat'[c].asked = <<>> /\ chat'[c].last = NoText
        /\ ~Watching(c)
    BY <1>7, PageClosedFacts DEF EmptyChat, Watching, Observing
  <2> QED  BY <1>7, <2>1, NoElements, WholeOfChat
<1> QED  BY <1>3, <1>4, <1>5, <1>6, <1>7

\* What GetLock, a failure before the gesture and Restart leave.
LEMMA AtRestFacts ==
  ASSUME TurnInv, WholeInv,
         \/ \E r \in Requests : GetLock(r)
         \/ Prepare
         \/ FailUnsent /\ ~Raised("presubmit")
         \/ Restart
  PROVE  /\ UNCHANGED <<sent, result>>
         /\ w'.pc \in {"prepare", "fill", "backoff"}
         /\ w'.seen = NoText /\ w'.stable = 0 /\ w'.pause = 0
<1>1. w \in Turn /\ ~Observing => w.seen = NoText /\ w.stable = 0 /\ w.pause = 0
  BY DEF WholeInv, LooksArePaused
<1>2. w \in Turn
  BY DEF TurnInv, TurnTypeOK
<1>3. CASE \E r \in Requests : GetLock(r)
  BY <1>3 DEF GetLock, FreeTurn
<1>4. CASE Prepare
  BY <1>1, <1>2, <1>4 DEF Prepare, Turn, Observing
<1>5. CASE FailUnsent /\ ~Raised("presubmit")
  BY <1>1, <1>2, <1>5 DEF FailUnsent, BeforeSubmit, Turn, Observing
<1>6. CASE Restart
  BY <1>6 DEF Restart, FreeTurn
<1> QED  BY <1>3, <1>4, <1>5, <1>6

\* Every step.
LEMMA StepWhole ==
  ASSUME TurnInv, WholeInv, [TurnNext]_<<turnVars, provider>>
  PROVE  WholeInv'
<1>1. ASSUME \/ \E r \in Requests : GetLock(r)
             \/ Prepare
             \/ FailUnsent /\ ~Raised("presubmit")
      PROVE  WholeInv'
  <2>1. UNCHANGED chat
    BY <1>1 DEF GetLock, Prepare, FailUnsent
  <2>2. AnswerIsWhole'
    BY <1>1, AtRestFacts DEF WholeInv, AnswerIsWhole
  <2> QED  BY <1>1, <2>1, <2>2, AtRestFacts, WholeAtRest
<1>2. CASE Restart
  <2>1. AnswerIsWhole'
    BY <1>2, AtRestFacts DEF WholeInv, AnswerIsWhole
  <2>2. UNCHANGED sent /\ chat' = [c \in Chats |-> EmptyChat]
    BY <1>2 DEF Restart
  <2> QED  BY <1>2, <2>1, <2>2, AtRestFacts, WholeAnew
<1>3. ASSUME NEW how \in {"presubmit", "uncertain"}, w.pc # "free", Raised(how), UNCHANGED <<chat, sent>>
      PROVE  WholeInv'
  <2>1. w' = FreeTurn
    BY <1>3 DEF Raised
  <2> QED  BY <1>3, <2>1, RaisedWhole, WholeAtRest, FreeTurnType, FreeTurnFields
<1>4. CASE FailUnsent
  BY <1>1, <1>3, <1>4 DEF FailUnsent
<1>5. CASE RecoverEnds
  BY <1>3, <1>5 DEF RecoverEnds
<1>6. CASE RestartFails
  <2>1. w' = FreeTurn /\ w.pc # "free" /\ Raised("presubmit")
    BY <1>6 DEF RestartFails, Raised
  <2> QED  BY <1>6, <2>1, RaisedWhole, WholeAnew, FreeTurnType, FreeTurnFields DEF RestartFails
<1>7. CASE \E c \in Chats : SiteAnswers(c) \/ SiteRenders(c) \/ SiteRerenders(c)
                              \/ SiteRefuses(c) \/ PageClosed(c)
  BY <1>7, SiteWhole
<1>8. CASE UNCHANGED <<turnVars, provider>>
  BY <1>8 DEF turnVars, WholeInv, AskedOnce, ShownWasAsked, SeenIsPast, LooksArePaused, Observing,
              Watching, Rendering, AnswerIsWhole
<1> QED
  BY <1>1, <1>2, <1>4, <1>5, <1>6, <1>7, <1>8, GestureWhole, LookWhole, WatchEndsWhole
  DEF TurnNext, Serve, Site

\* Answers are asked for once, shown once, and looked at longer than the site
\* pauses, in every reachable state.
THEOREM WholeInvariant == TurnSpec => []WholeInv
<1>1. TurnInit => WholeInv
  BY NoElements
  DEF TurnInit, WholeInv, AskedOnce, ShownWasAsked, SeenIsPast, LooksArePaused, Observing, Watching,
      Rendering, AnswerIsWhole, EmptyChat, FreeTurn
<1>2. TurnInv /\ WholeInv /\ [TurnNext]_<<turnVars, provider>> => WholeInv'
  BY StepWhole
<1> QED  BY <1>1, <1>2, TurnInvariant, PTL DEF TurnSpec

\* A turn takes an answer only when the site has rendered all of it.
THEOREM AnswersAreWhole == TurnSpec => []AnswerIsWhole
BY WholeInvariant, PTL DEF WholeInv

-----------------------------------------------------------------------------
(* Whose answer it is.                                                     *)

\* As long as no turn ends with another result, chats stay excused or not.
LEMMA ExcusedStays ==
  ASSUME UNCHANGED <<result, provider>>
  PROVE  \A c \in Chats : Astray(c)' = Astray(c) /\ Excused(c)' = Excused(c)
<1>1. \A c \in Chats : Astray(c)' = Astray(c) /\ Uncertain(c)' = Uncertain(c)
  BY DEF Astray, Uncertain, Qwen
<1> QED  BY <1>1 DEF Excused

\* Nor do they lose the excuse when an answer or an exception is added.
LEMMA ExcusedKept ==
  ASSUME UNCHANGED provider,
         \A p \in Prompts : result[p].how \in {"answer", "uncertain"} => result'[p] = result[p]
  PROVE  \A c \in Chats : /\ Astray(c) => Astray(c)'
                          /\ Excused(c) => Excused(c)'
<1>1. \A c \in Chats : (Astray(c) => Astray(c)') /\ (Uncertain(c) => Uncertain(c)')
  BY DEF Astray, Uncertain, Qwen
<1> QED  BY <1>1 DEF Excused

\* What was given and whose it was stands as long as the results do.
LEMMA GivenStays ==
  ASSUME OwnInv, UNCHANGED <<result, provider>>
  PROVE  AnswerGivenOnce' /\ OwnOrLateAnswer'
<1>1. AnswerGivenOnce'
  BY DEF OwnInv, AnswerGivenOnce, Qwen
<1>2. \A p \in Prompts : ChatOf(p) \in Chats
  BY DEF ChatOf, Chats
<1> QED  BY <1>1, <1>2, ExcusedStays DEF OwnInv, OwnOrLateAnswer

\* A step that changes nothing but the turn, which neither watches nor has yet
\* looked at the page.
LEMMA OwnAtRest ==
  ASSUME TurnInv, OwnInv, UNCHANGED <<chat, sent, result, provider>>,
         w.pc \notin {"watch", "recover"}, w'.pc \notin {"fill", "watch", "recover"}
  PROVE  OwnInv'
<1>1. GivenIsOld'
  BY DEF OwnInv, GivenIsOld, Observing
<1>2. AnswerGivenOnce' /\ OwnOrLateAnswer'
  BY GivenStays
<1>3. OwesItsPrompt'
  BY ExcusedStays DEF OwnInv, OwesItsPrompt, Observing, Watching, Rendering
<1> QED  BY <1>1, <1>2, <1>3 DEF OwnInv

LEMMA PrepareOwn ==
  ASSUME TurnInv, OwnInv, Prepare, UNCHANGED provider
  PROVE  OwnInv'
<1>1. /\ w.pc = "prepare" /\ w'.pc = "fill" /\ w'.prompt = w.prompt
      /\ w'.count = chat[ChatOf(w.prompt)].count /\ w'.before = chat[ChatOf(w.prompt)].last
      /\ UNCHANGED <<chat, sent, result>>
  BY DEF Prepare, TurnInv, TurnTypeOK, Turn, Page
<1>2. \A c \in Chats : ChatOf(w'.prompt) = c => AsBefore(c)'
  BY <1>1 DEF AsBefore, Qwen
<1>3. GivenIsOld'
  BY <1>1, <1>2 DEF OwnInv, GivenIsOld
<1>4. AnswerGivenOnce' /\ OwnOrLateAnswer'
  BY <1>1, GivenStays
<1>5. OwesItsPrompt'
  BY <1>1, <1>2, ExcusedStays DEF OwnInv, OwesItsPrompt, NoNews, Observing, Watching, Rendering
<1> QED  BY <1>3, <1>4, <1>5 DEF OwnInv

\* A step of an observing turn that goes on.
LEMMA OwnObserving ==
  ASSUME TurnInv, OwnInv, UNCHANGED <<chat, sent, result, provider>>,
         w.pc \in {"watch", "recover"}, w'.pc \in {"watch", "recover"},
         w'.prompt = w.prompt, w'.count = w.count, w'.before = w.before
  PROVE  OwnInv'
<1>1. \A c \in Chats : /\ AsBefore(c)' = AsBefore(c) /\ Rerendered(c)' = Rerendered(c)
                      /\ NoNews(c)' = NoNews(c)
  BY DEF AsBefore, Rerendered, NoNews, Qwen
<1>2. GivenIsOld'
  BY <1>1 DEF OwnInv, GivenIsOld, Observing
<1>3. AnswerGivenOnce' /\ OwnOrLateAnswer'
  BY GivenStays
<1>4. OwesItsPrompt'
  BY <1>1, ExcusedStays DEF OwnInv, OwesItsPrompt, Observing, Watching, Rendering
<1> QED  BY <1>2, <1>3, <1>4 DEF OwnInv

\* An exception: no answer is added, and the chat of a turn that was watched
\* has an uncertain turn now.
LEMMA RaisedOwn ==
  ASSUME TurnInv, OwnInv, w.pc # "free", NEW how \in {"presubmit", "uncertain"}, Raised(how),
         Observing => how = "uncertain",
         UNCHANGED <<sent, provider>>, UNCHANGED chat \/ chat' = [c \in Chats |-> EmptyChat]
  PROVE  OwnInv'
<1>1. /\ w.prompt \in Prompts /\ result[w.prompt].how = "none"
      /\ result'[w.prompt].how = how
      /\ \A p \in Prompts \ {w.prompt} : result'[p] = result[p]
      /\ w'.pc = "free"
  BY RaisedResult, FreeTurnType
<1>2. \A p \in Prompts : result'[p].how = "answer" => result[p].how = "answer" /\ result'[p] = result[p]
  BY <1>1
<1>3. \A p \in Prompts : result[p].how = "uncertain" => result'[p].how = "uncertain"
  BY <1>1
<1>4. ASSUME NEW c \in Chats
      PROVE  \/ chat'[c] = chat[c]
             \/ chat'[c].asked = <<>> /\ chat'[c].last = NoText
  BY DEF EmptyChat
<1>9. \A c \in Chats : (Astray(c) => Astray(c)') /\ (Excused(c) => Excused(c)')
  BY <1>1, ExcusedKept
<1>5. GivenIsOld'
  <2>1. NoText.prompt \notin Prompts
    BY PromptFacts DEF NoText
  <2> QED  BY <1>1, <1>2, <1>4, <2>1, NoElements DEF OwnInv, GivenIsOld, Observing
<1>6. AnswerGivenOnce'
  BY <1>2 DEF OwnInv, AnswerGivenOnce, Qwen
<1>7. OwnOrLateAnswer'
  <2>1. \A p \in Prompts : ChatOf(p) \in Chats
    BY DEF ChatOf, Chats
  <2> QED  BY <1>2, <1>3, <1>9, <2>1 DEF OwnInv, OwnOrLateAnswer
<1>8. OwesItsPrompt'
  <2> SUFFICES ASSUME NEW c \in Chats, ~Excused(c)'
               PROVE  chat'[c].asked = <<>> /\ ~Rendering(c)'
    BY <1>1 DEF OwesItsPrompt, Watching, Observing
  <2>1. ~Excused(c) /\ ~Watching(c)
    BY <1>1, <1>9 DEF Excused, Uncertain, Watching
  <2>2. chat[c].asked = <<>> /\ ~Rendering(c)
    BY <2>1 DEF OwnInv, OwesItsPrompt
  <2> QED  BY <1>4, <2>2 DEF Rendering
<1> QED  BY <1>5, <1>6, <1>7, <1>8 DEF OwnInv

LEMMA RestartOwn ==
  ASSUME TurnInv, OwnInv, Restart, UNCHANGED provider
  PROVE  OwnInv'
<1>1. /\ chat' = [c \in Chats |-> EmptyChat] /\ UNCHANGED <<sent, result>>
      /\ w'.pc = "prepare"
  BY DEF Restart, FreeTurn
<1>2. \A c \in Chats : chat'[c].asked = <<>> /\ chat'[c].last = NoText
  BY <1>1 DEF EmptyChat
<1>3. GivenIsOld'
  <2>1. NoText.prompt \notin Prompts
    BY PromptFacts DEF NoText
  <2> QED  BY <1>1, <1>2, <2>1, NoElements DEF OwnInv, GivenIsOld
<1>4. AnswerGivenOnce' /\ OwnOrLateAnswer'
  BY <1>1, GivenStays
<1>5. OwesItsPrompt'
  BY <1>1, <1>2 DEF OwesItsPrompt, Observing, Watching, Rendering
<1> QED  BY <1>3, <1>4, <1>5 DEF OwnInv

LEMMA GestureOwn ==
  ASSUME TurnInv, OwnInv, Gesture, UNCHANGED provider
  PROVE  OwnInv'
<1>1. /\ w.pc = "fill" /\ w.prompt \in Prompts /\ w'.pc \in {"watch", "recover"} /\ UNCHANGED result
      /\ w'.prompt = w.prompt /\ w'.count = w.count /\ w'.before = w.before
      /\ \A p \in Prompts : sent[p] > 0 => p # w.prompt /\ sent'[p] > 0
  BY GestureFacts
<1>2. ASSUME NEW c \in Chats
      PROVE  /\ chat'[c].count = chat[c].count /\ chat'[c].last = chat[c].last
             /\ AsBefore(c)' = AsBefore(c) /\ Rendering(c)' = Rendering(c)
             /\ Rerendered(c)' = Rerendered(c) /\ NoNews(c)' = NoNews(c)
             /\ \/ chat'[c].asked = chat[c].asked
                \/ c = ChatOf(w.prompt) /\ chat'[c].asked = Append(chat[c].asked, w.prompt)
             /\ Elements(chat'[c].asked) \subseteq Elements(chat[c].asked) \cup {w.prompt}
  <2>1. /\ chat'[c].count = chat[c].count /\ chat'[c].last = chat[c].last
        /\ \/ chat'[c].asked = chat[c].asked
           \/ c = ChatOf(w.prompt) /\ chat'[c].asked = Append(chat[c].asked, w.prompt)
    BY GestureFacts
  <2>2. Elements(chat'[c].asked) \subseteq Elements(chat[c].asked) \cup {w.prompt}
    <3>1. chat[c].asked \in Seq(Prompts)
      BY PageType DEF TurnInv
    <3>2. Elements(Append(chat[c].asked, w.prompt)) = Elements(chat[c].asked) \cup {w.prompt}
      BY <1>1, <3>1, AppendElements
    <3> QED  BY <2>1, <3>2
  <2> QED  BY <1>1, <2>1, <2>2 DEF AsBefore, Rerendered, NoNews, Rendering, Qwen
<1>3. GivenIsOld'
  <2> SUFFICES ASSUME NEW p \in Prompts, result[p].how = "answer"
               PROVE  LET x == result[p].text.prompt IN
                      /\ x \in Prompts /\ sent'[x] > 0
                      /\ \A c \in Chats :
                           /\ x \notin Elements(chat'[c].asked)
                           /\ chat'[c].last.prompt = x =>
                                /\ chat'[c].last.part = Parts
                                /\ result[p].text.anew => chat'[c].last.anew
                                /\ ChatOf(w.prompt) = c =>
                                     AsBefore(c)' \/ (Rerendered(c)' /\ ~result[p].text.anew)
    BY <1>1 DEF GivenIsOld
  <2> DEFINE x == result[p].text.prompt
  <2>1. /\ x \in Prompts /\ sent[x] > 0
        /\ \A c \in Chats :
             /\ x \notin Elements(chat[c].asked)
             /\ chat[c].last.prompt = x =>
                  /\ chat[c].last.part = Parts
                  /\ result[p].text.anew => chat[c].last.anew
                  /\ ChatOf(w.prompt) = c => AsBefore(c) \/ (Rerendered(c) /\ ~result[p].text.anew)
    BY <1>1 DEF OwnInv, GivenIsOld
  <2> HIDE DEF x
  <2>2. x # w.prompt /\ sent'[x] > 0
    BY <1>1, <2>1
  <2>3. /\ x \in Prompts /\ sent'[x] > 0
        /\ \A c \in Chats :
             /\ x \notin Elements(chat'[c].asked)
             /\ chat'[c].last.prompt = x =>
                  /\ chat'[c].last.part = Parts
                  /\ result[p].text.anew => chat'[c].last.anew
                  /\ ChatOf(w.prompt) = c =>
                       AsBefore(c)' \/ (Rerendered(c)' /\ ~result[p].text.anew)
    BY <1>2, <2>1, <2>2
  <2> QED  BY <2>3 DEF x
<1>4. AnswerGivenOnce' /\ OwnOrLateAnswer'
  BY <1>1, GivenStays
<1>5. OwesItsPrompt'
  <2> SUFFICES ASSUME NEW c \in Chats, ~Excused(c)
               PROVE  IF Watching(c)'
                      THEN /\ chat'[c].asked \in {<<>>, <<w.prompt>>}
                           /\ ~Rendering(c)' /\ NoNews(c)'
                      ELSE chat'[c].asked = <<>> /\ ~Rendering(c)'
    BY <1>1, ExcusedStays DEF OwesItsPrompt
  <2>1. /\ chat[c].asked = <<>> /\ ~Rendering(c)
        /\ ChatOf(w.prompt) = c => NoNews(c)
    BY <1>1 DEF OwnInv, OwesItsPrompt, Watching, Observing
  <2>2. Append(<<>>, w.prompt) = <<w.prompt>>
    OBVIOUS
  <2>3. Watching(c)' <=> ChatOf(w.prompt) = c
    BY <1>1 DEF Watching, Observing
  <2> QED  BY <1>2, <2>1, <2>2, <2>3
<1> QED  BY <1>3, <1>4, <1>5 DEF OwnInv

\* The text a turn takes is none that was given before.
LEMMA LookOwn ==
  ASSUME TurnInv, WholeInv, OwnInv, Look, UNCHANGED provider
  PROVE  OwnInv'
<1> DEFINE rounds == IF Page.last = w.seen THEN w.stable + 1 ELSE 0
           c == ChatOf(w.prompt)
           x == Page.last.prompt
<1>1. /\ Observing /\ Page.last \in Text /\ Page.last # NoText /\ Page = chat[c]
      /\ c \in Chats /\ Watching(c) /\ Started /\ UNCHANGED <<chat, sent>>
  BY PageType, ObservingFacts DEF Look, Started, Observing, TurnInv, Page
<1>2. CASE ~Final(rounds)
  <2>1. /\ w'.pc = w.pc /\ w'.prompt = w.prompt /\ w'.count = w.count /\ w'.before = w.before
        /\ UNCHANGED <<chat, sent, result>>
    BY <1>2, LookOn
  <2> QED  BY <1>1, <2>1, OwnObserving DEF Observing
<1>3. CASE Final(rounds)
  <2>1. x \in Prompts /\ Page.last.part = Parts /\ ~Rendering(c)
    BY <1>1, <1>3, FinalIsWhole DEF Look
  <2>2. Answered(Page.last)
    BY <1>3 DEF Look
  <2>3. /\ w.prompt \in Prompts /\ result[w.prompt].how = "none"
        /\ result'[w.prompt] = [how |-> "answer", text |-> Page.last]
        /\ \A p \in Prompts \ {w.prompt} : result'[p] = result[p]
        /\ w' = FreeTurn /\ w'.pc = "free"
    BY <1>1, <2>2, AnsweredResult, FreeTurnType
  <2>4. sent[x] > 0 /\ ChatOf(x) = c /\ x \notin Elements(chat[c].asked)
    BY <1>1 DEF WholeInv, ShownWasAsked
  <2>5. \A d \in Chats : d # c => x \notin Elements(chat[d].asked) /\ chat[d].last.prompt # x
    <3>1. ASSUME NEW d \in Chats, d # c PROVE x \notin Elements(chat[d].asked) /\ chat[d].last.prompt # x
      <4>1. x \notin Elements(chat[d].asked)
        BY <2>4, <3>1 DEF WholeInv, AskedOnce
      <4>2. CASE chat[d].last = NoText
        <5>1. chat[d].last.prompt = NoPrompt
          BY <4>2 DEF NoText
        <5> QED  BY <2>1, <4>1, <5>1, PromptFacts
      <4>3. CASE chat[d].last # NoText
        <5>1. ChatOf(chat[d].last.prompt) = d
          BY <4>3 DEF WholeInv, ShownWasAsked
        <5> HIDE DEF x, c
        <5> QED  BY <2>4, <3>1, <4>1, <5>1
      <4> QED  BY <4>1, <4>2, <4>3
    <3> QED  BY <3>1
  <2>6. ~AsBefore(c)
    <3>1. w.count \in Nat /\ Page.count \in Nat
      BY PageType DEF TurnInv, TurnTypeOK, Turn
    <3> QED  BY <1>1, <3>1 DEF Started, AsBefore
  <2>7. \A p \in Prompts : result[p].how = "answer" /\ result[p].text.prompt = x =>
          ~Qwen /\ Page.last.anew /\ ~result[p].text.anew
    BY <1>1, <2>6 DEF OwnInv, GivenIsOld, Rerendered
  <2>8. \A p \in Prompts : p # w.prompt /\ result'[p].how = "answer" => result[p].how = "answer"
    BY <2>3
  <2>9. GivenIsOld'
    <3> SUFFICES ASSUME NEW p \in Prompts, result'[p].how = "answer"
                 PROVE  LET y == result'[p].text.prompt IN
                        /\ y \in Prompts /\ sent[y] > 0
                        /\ \A d \in Chats :
                             /\ y \notin Elements(chat[d].asked)
                             /\ chat[d].last.prompt = y =>
                                  /\ chat[d].last.part = Parts
                                  /\ result'[p].text.anew => chat[d].last.anew
      BY <1>1, <2>3 DEF GivenIsOld, Observing
    <3>1. CASE p = w.prompt
      <4>1. result'[p].text.prompt = x /\ result'[p].text = chat[c].last
        BY <1>1, <2>3, <3>1
      <4> QED  BY <1>1, <2>1, <2>4, <2>5, <4>1
    <3>2. CASE p # w.prompt
      BY <2>3, <3>2 DEF OwnInv, GivenIsOld
    <3> QED  BY <3>1, <3>2
  <2>10. AnswerGivenOnce'
    <3> SUFFICES ASSUME NEW p \in Prompts, NEW q \in Prompts,
                        result'[p].how = "answer", result'[q].how = "answer",
                        result'[p].text.prompt = result'[q].text.prompt
                 PROVE  p = q \/ (~Qwen /\ result'[p].text.anew # result'[q].text.anew)
      BY DEF AnswerGivenOnce, Qwen
    <3>1. result'[w.prompt].text.prompt = x /\ result'[w.prompt].text.anew = Page.last.anew
      BY <2>3
    <3>2. CASE p = w.prompt \/ q = w.prompt
      <4>1. CASE p # w.prompt
        BY <2>3, <2>7, <3>1, <3>2, <4>1
      <4>2. CASE q # w.prompt
        BY <2>3, <2>7, <3>1, <3>2, <4>2
      <4> QED  BY <4>1, <4>2
    <3>3. CASE p # w.prompt /\ q # w.prompt
      BY <2>3, <3>3 DEF OwnInv, AnswerGivenOnce
    <3> QED  BY <3>2, <3>3
  <2>11. \/ Excused(c)
         \/ /\ chat[c].asked \in {<<>>, <<w.prompt>>}
            /\ x = w.prompt \/ Rerendered(c)
    BY <1>1, <2>6 DEF OwnInv, OwesItsPrompt, NoNews
  <2>12. \A d \in Chats : (Astray(d) => Astray(d)') /\ (Excused(d) => Excused(d)')
    BY <2>3, ExcusedKept
  <2>15. ASSUME NEW d \in Chats, d = c, Rerendered(d), x # w.prompt
         PROVE  Astray(d)'
    <3>1. /\ ChatOf(w.prompt) = d /\ result'[w.prompt].how = "answer"
          /\ result'[w.prompt].text.anew /\ result'[w.prompt].text.prompt # w.prompt
      BY <1>1, <2>3, <2>15 DEF Rerendered
    <3> QED  BY <2>3, <2>15, <3>1 DEF Astray, Rerendered, Qwen
  <2>16. ASSUME NEW d \in Chats, d = c
         PROVE  Excused(d)' \/ (chat[c].asked = <<>> /\ x = w.prompt)
    <3>1. x = w.prompt /\ chat[c].asked = <<w.prompt>> => x \in Elements(chat[c].asked)
      BY DEF Elements
    <3>2. Excused(c) => Excused(d)'
      BY <2>12, <2>16
    <3>3. Rerendered(c) /\ x # w.prompt => Excused(d)'
      BY <2>15, <2>16 DEF Excused
    <3> QED  BY <2>4, <2>11, <3>1, <3>2, <3>3
  <2>17. \A u \in Prompts : result[u].how = "uncertain" <=> result'[u].how = "uncertain"
    BY <2>3
  <2>13. OwnOrLateAnswer'
    <3> SUFFICES ASSUME NEW p \in Prompts, result'[p].how = "answer"
                 PROVE  \/ result'[p].text.prompt = p
                        \/ \E u \in Prompts \ {p} : result'[u].how = "uncertain" /\ ChatOf(u) = ChatOf(p)
                        \/ Astray(ChatOf(p))'
      BY DEF OwnOrLateAnswer, Astray
    <3>1. CASE p = w.prompt
      BY <1>1, <2>3, <2>16, <3>1 DEF Excused, Uncertain
    <3>2. CASE p # w.prompt
      <4>1. result'[p] = result[p] /\ ChatOf(p) \in Chats
        BY <2>3, <3>2 DEF ChatOf, Chats
      <4> QED  BY <2>12, <2>17, <4>1 DEF OwnInv, OwnOrLateAnswer
    <3> QED  BY <3>1, <3>2
  <2>14. OwesItsPrompt'
    <3> SUFFICES ASSUME NEW d \in Chats, ~Excused(d)'
                 PROVE  chat[d].asked = <<>> /\ ~Rendering(d)
      BY <1>1, <2>3 DEF OwesItsPrompt, Observing, Watching, Rendering
    <3>1. ~Excused(d)
      BY <2>12
    <3>2. CASE d = c
      BY <2>1, <2>16, <3>2
    <3>3. CASE d # c
      BY <3>1, <3>3 DEF OwnInv, OwesItsPrompt, Watching
    <3> QED  BY <3>2, <3>3
  <2> QED  BY <2>9, <2>10, <2>13, <2>14 DEF OwnInv
<1> QED  BY <1>2, <1>3

\* A step of the site keeps what is said of every chat if it keeps it of its own.
LEMMA OwnOfChat ==
  ASSUME TurnInv, OwnInv, NEW c \in Chats, UNCHANGED provider,
         \/ SiteAnswers(c) \/ SiteRenders(c) \/ SiteRerenders(c) \/ SiteRefuses(c) \/ PageClosed(c),
         \A x \in Prompts :
           /\ x \notin Elements(chat[c].asked)
           /\ chat[c].last.prompt = x => chat[c].last.part = Parts
           => /\ x \notin Elements(chat'[c].asked)
              /\ chat'[c].last.prompt = x =>
                   /\ chat'[c].last.part = Parts /\ chat[c].last.prompt = x
                   /\ \/ /\ chat'[c].last = chat[c].last
                         /\ w.pc # "free" /\ ChatOf(w.prompt) = c /\ AsBefore(c) => AsBefore(c)'
                      \/ /\ ~chat[c].last.anew /\ chat'[c].last.anew
                         /\ Qwen /\ AsBefore(c) => AsBefore(c)',
         ~Excused(c) =>
           IF Watching(c)
           THEN \/ chat'[c].asked = <<>> /\ chat'[c].last.prompt = w.prompt
                \/ chat'[c].asked \in {<<>>, <<w.prompt>>} /\ ~Rendering(c)' /\ NoNews(c)'
           ELSE /\ chat'[c].asked = <<>> /\ ~Rendering(c)'
                /\ w.pc = "fill" /\ ChatOf(w.prompt) = c => NoNews(c)'
  PROVE  OwnInv'
<1>0. Qwen' = Qwen
  BY DEF Qwen
<1>1. /\ \A d \in Chats : d # c => chat'[d] = chat[d]
      /\ UNCHANGED <<sent, result>>
      /\ w'.pc = w.pc /\ w'.prompt = w.prompt /\ w'.count = w.count /\ w'.before = w.before
  BY SiteFacts
<1>2. \A d \in Chats : d # c => /\ AsBefore(d)' = AsBefore(d) /\ Rendering(d)' = Rendering(d)
                              /\ Rerendered(d)' = Rerendered(d) /\ NoNews(d)' = NoNews(d)
  BY <1>1 DEF AsBefore, Rerendered, NoNews, Rendering, Qwen
<1>3. GivenIsOld'
  <2> SUFFICES ASSUME NEW p \in Prompts, result[p].how = "answer"
               PROVE  LET x == result[p].text.prompt IN
                      /\ x \in Prompts /\ sent[x] > 0
                      /\ \A d \in Chats :
                           /\ x \notin Elements(chat'[d].asked)
                           /\ chat'[d].last.prompt = x =>
                                /\ chat'[d].last.part = Parts
                                /\ result[p].text.anew => chat'[d].last.anew
                                /\ (w.pc = "fill" \/ Observing) /\ ChatOf(w.prompt) = d =>
                                     AsBefore(d)' \/ (Rerendered(d)' /\ ~result[p].text.anew)
    BY <1>1 DEF GivenIsOld, Observing
  <2> DEFINE x == result[p].text.prompt
             old == ~result[p].text.anew
  <2>1. /\ x \in Prompts /\ sent[x] > 0
        /\ \A d \in Chats :
             /\ x \notin Elements(chat[d].asked)
             /\ chat[d].last.prompt = x =>
                  /\ chat[d].last.part = Parts
                  /\ ~old => chat[d].last.anew
                  /\ (w.pc = "fill" \/ Observing) /\ ChatOf(w.prompt) = d =>
                       AsBefore(d) \/ (Rerendered(d) /\ old)
    BY DEF OwnInv, GivenIsOld
  <2>2. Observing => w.pc # "free"
    BY DEF Observing
  <2> HIDE DEF x, old
  <2>3. ASSUME NEW d \in Chats
        PROVE  /\ x \notin Elements(chat'[d].asked)
               /\ chat'[d].last.prompt = x =>
                    /\ chat'[d].last.part = Parts
                    /\ ~old => chat'[d].last.anew
                    /\ (w.pc = "fill" \/ Observing) /\ ChatOf(w.prompt) = d =>
                         AsBefore(d)' \/ (Rerendered(d)' /\ old)
    <3>1. CASE d = c
      BY <1>0, <2>1, <2>2, <3>1 DEF Rerendered
    <3>2. CASE d # c
      BY <1>1, <1>2, <2>1, <3>2
    <3> QED  BY <3>1, <3>2
  <2> QED  BY <2>1, <2>3 DEF x, old
<1>4. AnswerGivenOnce' /\ OwnOrLateAnswer'
  BY <1>1, GivenStays
<1>5. OwesItsPrompt'
  <2> SUFFICES ASSUME NEW d \in Chats, ~Excused(d)
               PROVE  IF Watching(d)
                      THEN \/ chat'[d].asked = <<>> /\ chat'[d].last.prompt = w.prompt
                           \/ chat'[d].asked \in {<<>>, <<w.prompt>>} /\ ~Rendering(d)' /\ NoNews(d)'
                      ELSE /\ chat'[d].asked = <<>> /\ ~Rendering(d)'
                           /\ w.pc = "fill" /\ ChatOf(w.prompt) = d => NoNews(d)'
    BY <1>1, ExcusedStays DEF OwesItsPrompt, Watching, Observing
  <2>1. CASE d = c
    BY <2>1
  <2>2. CASE d # c
    BY <1>1, <1>2, <2>2 DEF OwnInv, OwesItsPrompt
  <2> QED  BY <2>1, <2>2
<1> QED  BY <1>3, <1>4, <1>5 DEF OwnInv

LEMMA SiteOwn ==
  ASSUME TurnInv, WholeInv, OwnInv, NEW c \in Chats, UNCHANGED provider,
         \/ SiteAnswers(c) \/ SiteRenders(c) \/ SiteRerenders(c) \/ SiteRefuses(c) \/ PageClosed(c)
  PROVE  OwnInv'
<1>0. /\ w'.count = w.count /\ w'.before = w.before
  BY SiteFacts
<1>1. ~Excused(c) =>
        IF Watching(c)
        THEN \/ chat[c].asked = <<>> /\ chat[c].last.prompt = w.prompt
             \/ chat[c].asked \in {<<>>, <<w.prompt>>} /\ ~Rendering(c) /\ NoNews(c)
        ELSE /\ chat[c].asked = <<>> /\ ~Rendering(c)
             /\ w.pc = "fill" /\ ChatOf(w.prompt) = c => NoNews(c)
  BY DEF OwnInv, OwesItsPrompt
<1>2. Head(<<w.prompt>>) = w.prompt /\ Tail(<<w.prompt>>) = <<>>
  OBVIOUS
<1>3. CASE SiteAnswers(c)
  <2>1. /\ chat[c].asked \in Seq(Prompts) /\ chat[c].asked # <<>>
        /\ chat'[c].last.prompt = Head(chat[c].asked)
        /\ chat'[c].asked = Tail(chat[c].asked)
    <3>1. /\ chat[c].asked \in Seq(Prompts) /\ chat[c].asked # <<>>
          /\ chat'[c].last = [prompt |-> Head(chat[c].asked), part |-> 1, anew |-> FALSE]
          /\ chat'[c].asked = Tail(chat[c].asked)
      BY <1>3, SiteAnswersFacts
    <3> QED  BY <3>1
  <2>2. /\ Elements(chat'[c].asked) \subseteq Elements(chat[c].asked)
        /\ chat'[c].last.prompt \in Elements(chat[c].asked)
    BY <2>1, TailElements
  <2>3. ~Excused(c) => /\ Watching(c)
                         /\ chat'[c].asked = <<>> /\ chat'[c].last.prompt = w.prompt
    BY <1>1, <1>2, <2>1
  <2> QED  BY <1>3, <2>2, <2>3, OwnOfChat
<1>4. CASE SiteRenders(c)
  <2>1. /\ Rendering(c) /\ chat'[c].last.prompt = chat[c].last.prompt
        /\ chat'[c].asked = chat[c].asked
    BY <1>4, SiteRendersFacts
  <2>2. chat[c].last.part # Parts
    BY <2>1, ProviderTurnAssumption DEF Rendering
  <2>3. ~Excused(c) => /\ Watching(c)
                         /\ chat'[c].asked = <<>> /\ chat'[c].last.prompt = w.prompt
    BY <1>1, <2>1
  <2> QED  BY <1>4, <2>1, <2>2, <2>3, OwnOfChat
<1>5. CASE SiteRerenders(c)
  <2>1. /\ ~Rendering(c)' /\ chat[c].last.part = Parts /\ chat'[c].last.part = Parts
        /\ chat'[c].last.prompt = chat[c].last.prompt
        /\ chat'[c].asked = chat[c].asked /\ chat'[c].count = chat[c].count
        /\ ~chat[c].last.anew /\ chat'[c].last.anew
    BY <1>5, SiteRerendersFacts
  <2>2. /\ Qwen /\ AsBefore(c) => AsBefore(c)'
        /\ NoNews(c) => NoNews(c)'
    BY <1>0, <2>1 DEF AsBefore, Rerendered, NoNews, Qwen
  <2> QED  BY <1>1, <1>5, <2>1, <2>2, OwnOfChat
<1>6. CASE SiteRefuses(c)
  <2>1. /\ chat[c].asked \in Seq(Prompts) /\ chat[c].asked # <<>>
        /\ chat'[c].last = chat[c].last /\ chat'[c].count = chat[c].count
        /\ chat'[c].asked = Tail(chat[c].asked)
    BY <1>6, SiteRefusesFacts
  <2>2. Elements(chat'[c].asked) \subseteq Elements(chat[c].asked)
    BY <2>1, TailElements
  <2>3. /\ AsBefore(c)' = AsBefore(c) /\ Rendering(c)' = Rendering(c)
        /\ NoNews(c)' = NoNews(c)
    BY <1>0, <2>1 DEF AsBefore, Rerendered, NoNews, Qwen, Rendering
  <2>4. ~Excused(c) => /\ Watching(c) /\ chat'[c].asked = <<>>
                         /\ ~Rendering(c) /\ NoNews(c)
    BY <1>1, <1>2, <2>1
  <2> QED  BY <1>6, <2>1, <2>2, <2>3, <2>4, OwnOfChat
<1>7. CASE PageClosed(c)
  <2>1. /\ chat'[c].asked = <<>> /\ chat'[c].last = NoText
        /\ w.pc # "free" => ChatOf(w.prompt) # c
    BY <1>7, PageClosedFacts DEF EmptyChat
  <2>2. ~Watching(c) /\ ~(w.pc = "fill" /\ ChatOf(w.prompt) = c) /\ ~Rendering(c)'
    BY <2>1 DEF Watching, Observing, Rendering
  <2>3. NoText.prompt \notin Prompts
    BY PromptFacts DEF NoText
  <2> QED  BY <1>7, <2>1, <2>2, <2>3, NoElements, OwnOfChat
<1> QED  BY <1>3, <1>4, <1>5, <1>6, <1>7

\* Every step.
LEMMA StepOwn ==
  ASSUME TurnInv, WholeInv, OwnInv, [TurnNext]_<<turnVars, provider>>
  PROVE  OwnInv'
<1>0. UNCHANGED provider
  BY DEF TurnNext
<1>1. ASSUME (\E r \in Requests : GetLock(r)) \/ (FailUnsent /\ ~Raised("presubmit"))
      PROVE  OwnInv'
  <2>1. UNCHANGED <<chat, sent, result>> /\ w.pc \notin {"watch", "recover"}
    BY <1>1, AtRestFacts DEF GetLock, FailUnsent
  <2>2. w'.pc \in {"prepare", "backoff"}
    BY <1>1 DEF GetLock, FreeTurn, FailUnsent, BeforeSubmit, TurnInv, TurnTypeOK, Turn
  <2> QED  BY <1>0, <2>1, <2>2, OwnAtRest
<1>2. CASE FailUnsent
  <2>1. CASE Raised("presubmit")
    BY <1>0, <1>2, <2>1, RaisedOwn DEF FailUnsent, Observing
  <2> QED  BY <1>1, <1>2, <2>1
<1>3. CASE RecoverEnds
  BY <1>0, <1>3, RaisedOwn DEF RecoverEnds
<1>4. CASE RestartFails
  BY <1>0, <1>4, RaisedOwn DEF RestartFails, Observing
<1>5. CASE WatchEnds
  <2>1. /\ UNCHANGED <<chat, sent, result>>
        /\ w.pc = "watch" /\ w'.pc = "recover"
        /\ w'.prompt = w.prompt /\ w'.count = w.count /\ w'.before = w.before
    BY <1>5 DEF WatchEnds, TurnInv, TurnTypeOK, Turn
  <2> QED  BY <1>0, <2>1, OwnObserving
<1>6. CASE \E c \in Chats : SiteAnswers(c) \/ SiteRenders(c) \/ SiteRerenders(c)
                              \/ SiteRefuses(c) \/ PageClosed(c)
  BY <1>0, <1>6, SiteOwn
<1>7. CASE UNCHANGED <<turnVars, provider>>
  <2>1. AnswerGivenOnce' /\ OwnOrLateAnswer'
    BY <1>7, GivenStays DEF turnVars
  <2>2. \A c \in Chats : /\ AsBefore(c)' = AsBefore(c) /\ Rerendered(c)' = Rerendered(c)
                        /\ NoNews(c)' = NoNews(c) /\ Excused(c)' = Excused(c)
    BY <1>7, ExcusedStays DEF turnVars, AsBefore, Rerendered, NoNews, Qwen
  <2>3. GivenIsOld'
    BY <1>7, <2>2 DEF turnVars, OwnInv, GivenIsOld, Observing
  <2>4. OwesItsPrompt'
    BY <1>7, <2>2 DEF turnVars, OwnInv, OwesItsPrompt, Observing, Watching, Rendering
  <2> QED  BY <2>1, <2>3, <2>4 DEF OwnInv
<1> QED
  BY <1>0, <1>1, <1>2, <1>3, <1>4, <1>5, <1>6, <1>7, PrepareOwn, GestureOwn, LookOwn, RestartOwn
  DEF TurnNext, Serve, Site

\* What is owed and what was given, in every reachable state.
THEOREM OwnInvariant == TurnSpec => []OwnInv
<1>1. TurnInit => OwnInv
  BY NoElements
  DEF TurnInit, OwnInv, GivenIsOld, AnswerGivenOnce, OwesItsPrompt, OwnOrLateAnswer, Watching,
      Observing, Rendering, EmptyChat, FreeTurn
<1>2. TurnInv /\ WholeInv /\ OwnInv /\ [TurnNext]_<<turnVars, provider>> => OwnInv'
  BY StepOwn
<1> QED  BY <1>1, <1>2, TurnInvariant, WholeInvariant, PTL DEF TurnSpec

\* No answer of the site is handed out twice, whatever is late; DeepSeek's loop
\* may hand one out again as it was rendered anew, and then only.
THEOREM NoneGivenTwice == TurnSpec => []AnswerGivenOnce
BY OwnInvariant, PTL DEF OwnInv

\* A turn gets the answer to its own prompt unless a turn of its chat was left
\* uncertain or, at DeepSeek's, took an answer rendered anew for its own.
THEOREM AnswersAreOwnOrLate == TurnSpec => []OwnOrLateAnswer
BY OwnInvariant, PTL DEF OwnInv

-----------------------------------------------------------------------------
(* The turns implement PromptTurns.                                        *)

\* The lock holds a prompt.
FreeIsEmpty == w.pc = "free" => w.prompt = NoPrompt

\* A request goes on after answers only, and to a repair after its own answer.
RepairsFollowAnswers ==
  \A r \in Requests : req[r].outcome = "none" =>
    /\ \A k \in 1 .. 3 : result[<<r, k>>].how \in {"none", "answer"}
    /\ req[r].turn > 1 => result[<<r, 1>>].how = "answer"

OrderInv == FreeIsEmpty /\ RepairsFollowAnswers

\* A step that begins and ends no turn; its prompt may reach the site.
WithinTurn ==
  /\ UNCHANGED <<req, result>>
  /\ w'.prompt = w.prompt
  /\ w'.pc = "free" <=> w.pc = "free"
  /\ \/ UNCHANGED sent
     \/ /\ w.prompt \in Prompts
        /\ sent[w.prompt] = 0
        /\ sent' = [sent EXCEPT ![w.prompt] = 1]

\* A step that ends the turn under the lock: the request is over or goes on to
\* a later turn.
EndsTurn(how) ==
  /\ w.pc # "free"
  /\ w' = FreeTurn
  /\ UNCHANGED sent
  /\ how = "presubmit" => sent[w.prompt] = 0
  /\ \E e \in [how : Outcomes, text : Text], n \in [turn : 1 .. 3, outcome : Outcomes] :
       /\ e.how = how
       /\ result' = [result EXCEPT ![w.prompt] = e]
       /\ req' = [req EXCEPT ![w.prompt[1]] = n]
       /\ n.outcome # "none" \/ (how = "answer" /\ n.turn > w.prompt[2])

LEMMA RaisedEnds ==
  ASSUME TurnInv, w.pc # "free", NEW how \in {"presubmit", "uncertain"}, Raised(how),
         how = "presubmit" => sent[w.prompt] = 0, UNCHANGED sent
  PROVE  EndsTurn(how)
<1> DEFINE e == [result[w.prompt] EXCEPT !.how = how]
           n == [req[w.prompt[1]] EXCEPT !.outcome = how]
<1>1. /\ req \in [Requests -> [turn : 1 .. 3, outcome : Outcomes]]
      /\ result \in [Prompts -> [how : Outcomes, text : Text]]
      /\ w.prompt \in Prompts /\ w.prompt[1] \in Requests
  BY PromptFacts DEF TurnInv, TurnTypeOK, TurnIsCurrent
<1>2. e \in [how : Outcomes, text : Text] /\ e.how = how
  BY <1>1 DEF Outcomes
<1>3. n \in [turn : 1 .. 3, outcome : Outcomes] /\ n.outcome = how
  BY <1>1 DEF Outcomes
<1>4. w' = FreeTurn /\ result' = [result EXCEPT ![w.prompt] = e]
      /\ req' = [req EXCEPT ![w.prompt[1]] = n]
  BY <1>1 DEF Raised
<1> HIDE DEF e, n
<1> QED
  BY <1>2, <1>3, <1>4 DEF EndsTurn

LEMMA AnsweredEnds ==
  ASSUME TurnInv, w.pc # "free", NEW text \in Text, Answered(text), UNCHANGED sent
  PROVE  EndsTurn("answer")
<1> DEFINE r == w.prompt[1]
           e == [how |-> "answer", text |-> text]
<1>1. /\ req \in [Requests -> [turn : 1 .. 3, outcome : Outcomes]]
      /\ w.prompt \in Prompts /\ r \in Requests /\ w.prompt[2] = req[r].turn
  BY PromptFacts DEF TurnInv, TurnTypeOK, TurnIsCurrent
<1>2. PICK n \in Followups(r) : req' = [req EXCEPT ![r] = n]
  BY DEF Answered
<1>3. /\ n \in [turn : 1 .. 3, outcome : Outcomes]
      /\ n.outcome # "none" \/ n.turn > w.prompt[2]
  <2>1. ASSUME NEW o \in {"answer", "unrepaired"}, n = [req[r] EXCEPT !.outcome = o]
        PROVE  n \in [turn : 1 .. 3, outcome : Outcomes] /\ n.outcome = o
    BY <1>1, <2>1 DEF Outcomes
  <2>2. ASSUME NEW k \in 2 .. 3, req[r].turn < k, n = [req[r] EXCEPT !.turn = k]
        PROVE  n \in [turn : 1 .. 3, outcome : Outcomes] /\ n.turn > w.prompt[2]
    BY <1>1, <2>2
  <2>3. \/ \E o \in {"answer", "unrepaired"} : n = [req[r] EXCEPT !.outcome = o]
        \/ \E k \in 2 .. 3 : req[r].turn < k /\ n = [req[r] EXCEPT !.turn = k]
    BY <1>2 DEF Followups
  <2> QED
    BY <2>1, <2>2, <2>3
<1>4. e \in [how : Outcomes, text : Text] /\ e.how = "answer"
  BY DEF Outcomes
<1>5. w' = FreeTurn /\ result' = [result EXCEPT ![w.prompt] = e]
  BY DEF Answered
<1> HIDE DEF e
<1> QED
  BY <1>2, <1>3, <1>4, <1>5 DEF EndsTurn

LEMMA StepKinds ==
  ASSUME TurnInv, [TurnNext]_<<turnVars, provider>>
  PROVE  \/ WithinTurn
         \/ \E how \in {"answer", "uncertain", "presubmit"} : EndsTurn(how)
         \/ \E r \in Requests : GetLock(r)
<1>0. w \in Turn /\ (w.pc # "free" => w.prompt \in Prompts)
  BY DEF TurnInv, TurnTypeOK, TurnIsCurrent
<1>1. ASSUME UNCHANGED sent, w.pc \in {"prepare", "fill"}, BeforeSubmit
      PROVE  WithinTurn \/ EndsTurn("presubmit")
  <2>1. CASE Raised("presubmit")
    BY <1>1, <2>1, RaisedEnds DEF TurnInv, UnsentUntilGesture
  <2>2. CASE w' = [w EXCEPT !.pc = "backoff"] /\ UNCHANGED <<req, result>>
    <3>1. w'.prompt = w.prompt /\ w'.pc = "backoff"
      BY <1>0, <2>2 DEF Turn
    <3> QED
      BY <1>1, <2>2, <3>1 DEF WithinTurn
  <2> QED
    BY <1>1, <2>1, <2>2 DEF BeforeSubmit
<1>2. CASE FailUnsent
  BY <1>1, <1>2 DEF FailUnsent
<1>3. CASE RestartFails
  BY <1>3, RaisedEnds DEF RestartFails, TurnInv, UnsentUntilGesture
<1>4. CASE RecoverEnds
  BY <1>4, RaisedEnds DEF RecoverEnds
<1>5. CASE Prepare \/ WatchEnds
  <2>1. w'.prompt = w.prompt /\ w'.pc # "free" /\ w.pc # "free"
    BY <1>0, <1>5 DEF Prepare, WatchEnds, Turn
  <2> QED
    BY <1>5, <2>1 DEF Prepare, WatchEnds, WithinTurn
<1>6. CASE Restart
  <2>1. w'.prompt = w.prompt /\ w'.pc # "free" /\ w.pc # "free"
    BY <1>6, FreeTurnType DEF Restart, Turn
  <2> QED
    BY <1>6, <2>1 DEF Restart, WithinTurn
<1>7. CASE Gesture
  <2>1. PICK raises \in BOOLEAN : w' = [w EXCEPT !.pc = IF raises THEN "recover" ELSE "watch"]
    BY <1>7 DEF Gesture, UncertainAtGesture
  <2>2. w.pc = "fill" /\ w'.prompt = w.prompt /\ w'.pc # "free" /\ UNCHANGED <<req, result>>
    BY <1>0, <1>7, <2>1 DEF Gesture, UncertainAtGesture, Turn
  <2>3. w.prompt \in Prompts /\ sent[w.prompt] = 0
    BY <1>0, <2>2 DEF TurnInv, UnsentUntilGesture
  <2>4. sent' = sent \/ sent' = [sent EXCEPT ![w.prompt] = 1]
    BY <1>7, <2>3 DEF Gesture
  <2> QED
    BY <2>2, <2>3, <2>4 DEF WithinTurn
<1>8. CASE Look
  <2>1. Page.last \in Text
    BY PageType DEF TurnInv
  <2>2. CASE Answered(Page.last)
    BY <1>8, <2>1, <2>2, AnsweredEnds DEF Look
  <2>3. CASE ~Answered(Page.last)
    <3>1. /\ w'.prompt = w.prompt /\ w'.pc = w.pc /\ w.pc # "free"
          /\ UNCHANGED <<req, result, sent>>
      BY <1>0, <1>8, <2>3 DEF Look, Turn
    <3> QED
      BY <3>1 DEF WithinTurn
  <2> QED
    BY <2>2, <2>3
<1>9. CASE Site
  <2>1. /\ UNCHANGED <<req, sent, result>>
        /\ w' = w \/ w' = [w EXCEPT !.pause = 0]
    BY <1>9 DEF Site, SiteAnswers, SiteRenders, SiteRerenders, SiteRefuses, PageClosed
  <2>2. w'.prompt = w.prompt /\ w'.pc = w.pc
    BY <1>0, <2>1 DEF Turn
  <2> QED
    BY <2>1, <2>2 DEF WithinTurn
<1>10. CASE UNCHANGED <<turnVars, provider>>
  BY <1>10 DEF turnVars, WithinTurn
<1> QED
  BY <1>2, <1>3, <1>4, <1>5, <1>6, <1>7, <1>8, <1>9, <1>10 DEF TurnNext, Serve

LEMMA OrderKept ==
  ASSUME TurnInv, OrderInv, [TurnNext]_<<turnVars, provider>>
  PROVE  OrderInv'
<1>1. CASE WithinTurn
  <2>1. FreeIsEmpty'
    BY <1>1 DEF WithinTurn, OrderInv, FreeIsEmpty
  <2>2. RepairsFollowAnswers'
    BY <1>1 DEF WithinTurn, OrderInv, RepairsFollowAnswers
  <2> QED  BY <2>1, <2>2 DEF OrderInv
<1>2. ASSUME NEW how \in {"answer", "uncertain", "presubmit"}, EndsTurn(how) PROVE OrderInv'
  <2>0. PICK e \in [how : Outcomes, text : Text], n \in [turn : 1 .. 3, outcome : Outcomes] :
          /\ e.how = how
          /\ result' = [result EXCEPT ![w.prompt] = e]
          /\ req' = [req EXCEPT ![w.prompt[1]] = n]
          /\ n.outcome # "none" \/ (how = "answer" /\ n.turn > w.prompt[2])
    BY <1>2 DEF EndsTurn
  <2>1. /\ req \in [Requests -> [turn : 1 .. 3, outcome : Outcomes]]
        /\ result \in [Prompts -> [how : Outcomes, text : Text]]
        /\ w.prompt \in Prompts /\ w.prompt[1] \in Requests /\ w.prompt[2] \in 1 .. 3
        /\ w.prompt = <<w.prompt[1], w.prompt[2]>>
        /\ w.prompt[2] = req[w.prompt[1]].turn
        /\ req[w.prompt[1]].outcome = "none"
    BY <1>2, PromptFacts DEF EndsTurn, TurnInv, TurnTypeOK, TurnIsCurrent
  <2>2. FreeIsEmpty'
    BY <1>2, FreeTurnType DEF EndsTurn, FreeIsEmpty
  <2>3. ASSUME NEW r \in Requests, req'[r].outcome = "none"
        PROVE  /\ \A k \in 1 .. 3 : result'[<<r, k>>].how \in {"none", "answer"}
               /\ req'[r].turn > 1 => result'[<<r, 1>>].how = "answer"
    <3>1. \A k \in 1 .. 3 : <<r, k>> \in Prompts
      BY PromptFacts
    <3>2. CASE r = w.prompt[1]
      <4>1. how = "answer" /\ n.outcome = "none"
        BY <2>0, <2>1, <2>3, <3>2
      <4>2. /\ \A k \in 1 .. 3 : result[<<r, k>>].how \in {"none", "answer"}
            /\ req[r].turn > 1 => result[<<r, 1>>].how = "answer"
        BY <2>1, <3>2 DEF OrderInv, RepairsFollowAnswers
      <4>3. \A p \in Prompts : result'[p] = IF p = w.prompt THEN e ELSE result[p]
        BY <2>0, <2>1
      <4>4. \A k \in 1 .. 3 : result'[<<r, k>>].how \in {"none", "answer"}
        BY <2>0, <3>1, <4>1, <4>2, <4>3
      <4>5. result'[<<r, 1>>].how = "answer"
        <5>1. CASE req[r].turn > 1
          BY <2>0, <3>1, <4>1, <4>2, <4>3, <5>1
        <5>2. CASE req[r].turn = 1
          BY <2>0, <2>1, <3>1, <3>2, <4>1, <4>3, <5>2
        <5> QED  BY <2>1, <3>2, <5>1, <5>2
      <4> QED  BY <4>4, <4>5
    <3>3. CASE r # w.prompt[1]
      <4>1. req'[r] = req[r] /\ \A k \in 1 .. 3 : <<r, k>> # w.prompt
        BY <2>0, <2>1, <3>3
      <4>2. \A k \in 1 .. 3 : result'[<<r, k>>] = result[<<r, k>>]
        BY <2>0, <2>1, <3>1, <4>1
      <4>3. /\ \A k \in 1 .. 3 : result[<<r, k>>].how \in {"none", "answer"}
            /\ req[r].turn > 1 => result[<<r, 1>>].how = "answer"
        BY <2>3, <4>1 DEF OrderInv, RepairsFollowAnswers
      <4> QED  BY <4>1, <4>2, <4>3
    <3> QED  BY <3>2, <3>3
  <2> QED  BY <2>2, <2>3 DEF OrderInv, RepairsFollowAnswers
<1>3. ASSUME NEW r \in Requests, GetLock(r) PROVE OrderInv'
  <2>1. w'.pc = "prepare" /\ UNCHANGED <<req, result>>
    BY <1>3, FreeTurnType DEF GetLock, Turn
  <2> QED  BY <2>1 DEF OrderInv, FreeIsEmpty, RepairsFollowAnswers
<1> QED  BY <1>1, <1>2, <1>3, StepKinds

\* The order of a request's turns, in every reachable state.
THEOREM OrderInvariant == TurnSpec => []OrderInv
<1>1. TurnInit => OrderInv
  BY PromptFacts, FreeTurnType DEF TurnInit, OrderInv, FreeIsEmpty, RepairsFollowAnswers
<1>2. TurnInv /\ OrderInv /\ [TurnNext]_<<turnVars, provider>> => OrderInv'
  BY OrderKept
<1> QED  BY <1>1, <1>2, TurnInvariant, PTL DEF TurnSpec

LEMMA GetLockBegins ==
  ASSUME TurnInv, OrderInv, NEW r \in Requests, GetLock(r)
  PROVE  Promise!Begin(<<r, req[r].turn>>)
<1> DEFINE p == <<r, req[r].turn>>
<1>1. req[r].turn \in 1 .. 3 /\ p \in Prompts /\ p[1] = r /\ p[2] = req[r].turn
  BY PromptFacts DEF TurnInv, TurnTypeOK
<1>2. /\ w.pc = "free" /\ req[r].outcome = "none" /\ w.prompt = NoPrompt
      /\ w'.prompt = p /\ UNCHANGED <<req, sent, result>>
  BY <1>1, FreeTurnType DEF GetLock, OrderInv, FreeIsEmpty, Turn
<1>3. ASSUME NEW k \in req[r].turn .. 3
      PROVE  sent[<<r, k>>] = 0 /\ result[<<r, k>>].how = "none"
  <2>1. k \in 1 .. 3 /\ (req[r].turn < k \/ req[r].turn = k)
    BY <1>1
  <2> QED
    BY <1>2, <2>1 DEF TurnInv, FutureUntouched, Untouched
<1>4. /\ \A k \in 1 .. 3 : result[<<r, k>>].how \in {"none", "answer"}
      /\ req[r].turn > 1 => result[<<r, 1>>].how = "answer"
  BY <1>2 DEF OrderInv, RepairsFollowAnswers
<1>5. \A k \in 1 .. 3 : <<r, k>> \in Prompts /\ Ended[<<r, k>>] = result[<<r, k>>].how
  BY PromptFacts DEF Ended
<1>6. r \notin Over
  BY <1>2 DEF Over
<1>7. \A k \in req[r].turn .. 3 : Promise!Fresh(<<r, k>>)
  BY <1>1, <1>3, <1>5 DEF Promise!Fresh
<1>8. \A k \in 1 .. req[r].turn - 1 : Ended[<<r, k>>] \in {"none", "answer"}
  BY <1>1, <1>4, <1>5
<1>9. Ended' = Ended /\ Over' = Over
  BY <1>2 DEF Ended, Over
<1> QED
  BY <1>1, <1>2, <1>4, <1>5, <1>6, <1>7, <1>8, <1>9 DEF Promise!Begin

LEMMA EndsTurnEnds ==
  ASSUME TurnInv, OrderInv, NEW how \in {"answer", "uncertain", "presubmit"}, EndsTurn(how)
  PROVE  Promise!End(how)
<1>0. PICK e \in [how : Outcomes, text : Text], n \in [turn : 1 .. 3, outcome : Outcomes] :
        /\ e.how = how
        /\ result' = [result EXCEPT ![w.prompt] = e]
        /\ req' = [req EXCEPT ![w.prompt[1]] = n]
        /\ n.outcome # "none" \/ (how = "answer" /\ n.turn > w.prompt[2])
  BY DEF EndsTurn
<1>1. /\ req \in [Requests -> [turn : 1 .. 3, outcome : Outcomes]]
      /\ result \in [Prompts -> [how : Outcomes, text : Text]]
      /\ w.prompt \in Prompts /\ w.prompt[1] \in Requests /\ w.prompt[2] \in 1 .. 3
      /\ req[w.prompt[1]].outcome = "none" /\ result[w.prompt].how = "none"
  BY PromptFacts DEF EndsTurn, TurnInv, TurnTypeOK, TurnIsCurrent
<1>2. /\ w.prompt # NoPrompt /\ w'.prompt = NoPrompt /\ UNCHANGED sent
      /\ how = "presubmit" => sent[w.prompt] = 0
  BY <1>1, PromptFacts, FreeTurnType DEF EndsTurn
<1>3. Ended[w.prompt] = "none" /\ Ended' = [Ended EXCEPT ![w.prompt] = how]
  <2>1. \A p \in Prompts : result'[p].how = IF p = w.prompt THEN how ELSE result[p].how
    BY <1>0, <1>1
  <2> QED  BY <1>1, <2>1 DEF Ended
<1>4. Over' \in {Over \cup {w.prompt[1]}} \cup {o \in {Over} : how = "answer" /\ w.prompt[2] < 3}
  <2>1. \A r \in Requests : req'[r].outcome = IF r = w.prompt[1] THEN n.outcome ELSE req[r].outcome
    BY <1>0, <1>1
  <2>2. CASE n.outcome # "none"
    BY <1>1, <2>1, <2>2 DEF Over
  <2>3. CASE n.outcome = "none"
    <3>1. how = "answer" /\ w.prompt[2] < 3
      BY <1>0, <1>1, <2>3
    <3>2. Over' = Over
      BY <1>1, <2>1, <2>3 DEF Over
    <3> QED  BY <3>1, <3>2
  <2> QED  BY <2>2, <2>3
<1> QED
  BY <1>2, <1>3, <1>4 DEF Promise!End

LEMMA StepKeepsPromise ==
  ASSUME TurnInv, OrderInv, [TurnNext]_<<turnVars, provider>>
  PROVE  [Promise!Next]_Promise!turnVars
<1>1. CASE WithinTurn
  <2>1. UNCHANGED <<w.prompt, Ended, Over>>
    BY <1>1 DEF WithinTurn, Ended, Over
  <2>2. CASE UNCHANGED sent
    BY <2>1, <2>2 DEF Promise!turnVars
  <2>3. CASE ~UNCHANGED sent
    <3>1. w.prompt # NoPrompt /\ sent[w.prompt] = 0 /\ sent' = [sent EXCEPT ![w.prompt] = 1]
      BY <1>1, <2>3, PromptFacts DEF WithinTurn
    <3>2. Promise!Submit
      BY <2>1, <3>1 DEF Promise!Submit
    <3> QED  BY <3>2 DEF Promise!Next
  <2> QED  BY <2>2, <2>3
<1>2. ASSUME NEW how \in {"answer", "uncertain", "presubmit"}, EndsTurn(how)
      PROVE  Promise!Next
  BY <1>2, EndsTurnEnds DEF Promise!Next
<1>3. ASSUME NEW r \in Requests, GetLock(r) PROVE Promise!Next
  <2>1. <<r, req[r].turn>> \in Promise!Prompts
    BY DEF TurnInv, TurnTypeOK, Promise!Prompts
  <2> QED  BY <1>3, <2>1, GetLockBegins DEF Promise!Next
<1> QED  BY <1>1, <1>2, <1>3, StepKinds

\* For any requests, retries and sizes of answers, the turns keep the promise of
\* PromptTurns: a prompt is sent at most once and during its turn, one turn is
\* under way, "presubmit" is said of unsent prompts only, a failure ends the
\* request, and repairs follow answers.
THEOREM TurnsKeepPromise == TurnSpec => ImplementsPromptTurns
<1>1. TurnInit => Promise!Init
  BY FreeTurnType DEF TurnInit, Promise!Init, Promise!Prompts, Prompts, Ended, Over
<1>2. TurnInv /\ OrderInv /\ [TurnNext]_<<turnVars, provider>> => [Promise!Next]_Promise!turnVars
  BY StepKeepsPromise
<1> QED
  BY <1>1, <1>2, TurnInvariant, OrderInvariant, PTL DEF TurnSpec, ImplementsPromptTurns, Promise!Spec

-----------------------------------------------------------------------------
(* A turn counts down.                                                     *)

\* What is left of a turn: its attempts and the phases of this one, what the
\* site has yet to show on its page, and the looks at what it shows now.
Phase == CASE w.pc = "prepare" -> 4
           [] w.pc = "fill"    -> 3
           [] w.pc = "watch"   -> 2
           [] w.pc = "recover" -> 1
           [] OTHER            -> 0

StepsLeft == 5 * w.tries + Phase

Unshown(v) == (Parts + 2) * Len(v.asked)
                + (IF v.last = NoText THEN 0 ELSE Parts - v.last.part + (IF v.last.anew THEN 0 ELSE 1))

LooksLeft == IF w.seen = Page.last THEN 5 - w.stable ELSE 6

\* A step of the turn under the lock ends it, takes from its attempts and
\* phases, or looks once more at the same page.
Advances ==
  \/ w'.pc = "free"
  \/ w'.prompt = w.prompt /\ StepsLeft' < StepsLeft
  \/ /\ w'.prompt = w.prompt /\ StepsLeft' = StepsLeft
     /\ UNCHANGED Page /\ LooksLeft' < LooksLeft

\* Another step leaves the turn where it is; if it is on its page the site has
\* less to show after it.
LetsAdvance ==
  /\ w'.prompt = w.prompt /\ StepsLeft' = StepsLeft
  /\ Unshown(Page)' < Unshown(Page) \/ UNCHANGED <<w, Page>>

\* Under the lock every step takes from what is left, in lexicographic order,
\* but those of the site on the other chat.
TurnCountsDown ==
  [][w.pc # "free" => IF Serve THEN Advances ELSE LetsAdvance]_<<turnVars, provider>>

LeftInNat == StepsLeft \in Nat /\ Unshown(Page) \in Nat /\ LooksLeft \in Nat

LEMMA TextParts ==
  ASSUME NEW t \in Text, t # NoText
  PROVE  t.part \in 1 .. Parts /\ t.anew \in BOOLEAN
BY DEF Text

LEMMA LessProduct ==
  ASSUME NEW k \in Nat, NEW n \in Nat
  PROVE  /\ k * n \in Nat
         /\ n > 0 => k * (n - 1) = k * n - k
OBVIOUS

\* A page of the site: what it owes shrinks as the site answers, renders,
\* renders anew or drops a prompt.
LEMMA UnshownShrinks ==
  ASSUME NEW v \in [count : Nat, last : Text, asked : Seq(Prompts)],
         NEW u \in [count : Nat, last : Text, asked : Seq(Prompts)]
  PROVE  /\ Unshown(v) \in Nat
         /\ v.asked # <<>> /\ u.asked = Tail(v.asked) => Unshown(u) < Unshown(v)
         /\ /\ u.asked = v.asked /\ v.last # NoText /\ u.last # NoText
            /\ \/ u.last.part = v.last.part + 1 /\ u.last.anew = v.last.anew
               \/ u.last.part = v.last.part /\ u.last.anew /\ ~v.last.anew
            => Unshown(u) < Unshown(v)
<1> DEFINE left(x) == IF x.last = NoText THEN 0 ELSE Parts - x.last.part + (IF x.last.anew THEN 0 ELSE 1)
           owed(x) == (Parts + 2) * Len(x.asked)
<1>0. Parts \in Nat /\ Parts > 0
  BY ProviderTurnAssumption
<1>1. left(v) \in 0 .. Parts /\ left(u) \in 0 .. Parts
  BY <1>0, TextParts
<1>2. owed(v) \in Nat /\ owed(u) \in Nat
  <2>1. Len(v.asked) \in Nat /\ Len(u.asked) \in Nat /\ Parts + 2 \in Nat
    BY <1>0
  <2> QED  BY <2>1, LessProduct
<1>3. v.asked # <<>> /\ u.asked = Tail(v.asked) => owed(u) = owed(v) - (Parts + 2)
  <2> SUFFICES ASSUME v.asked # <<>>, u.asked = Tail(v.asked)
               PROVE  owed(u) = owed(v) - (Parts + 2)
    OBVIOUS
  <2>1. Len(v.asked) \in Nat /\ Len(v.asked) > 0 /\ Len(u.asked) = Len(v.asked) - 1 /\ Parts + 2 \in Nat
    BY <1>0
  <2> QED  BY <2>1, LessProduct
<1>4. Unshown(v) = owed(v) + left(v) /\ Unshown(u) = owed(u) + left(u)
  BY DEF Unshown
<1>5. /\ v.last # NoText /\ u.last # NoText
      /\ \/ u.last.part = v.last.part + 1 /\ u.last.anew = v.last.anew
         \/ u.last.part = v.last.part /\ u.last.anew /\ ~v.last.anew
      => left(u) < left(v)
  BY <1>0, TextParts
<1>6. u.asked = v.asked => owed(u) = owed(v)
  OBVIOUS
<1> HIDE DEF left, owed
<1>8. Unshown(v) \in Nat
  BY <1>0, <1>1, <1>2, <1>4
<1>9. v.asked # <<>> /\ u.asked = Tail(v.asked) => Unshown(u) < Unshown(v)
  <2> SUFFICES ASSUME v.asked # <<>>, u.asked = Tail(v.asked)
               PROVE  Unshown(u) < Unshown(v)
    OBVIOUS
  <2>1. owed(u) = owed(v) - (Parts + 2)
    BY <1>3
  <2> QED  BY <2>1, <1>0, <1>1, <1>2, <1>4
<1>10. owed(u) = owed(v) /\ left(u) < left(v) => Unshown(u) < Unshown(v)
  BY <1>0, <1>1, <1>2, <1>4
<1> QED
  BY <1>5, <1>6, <1>8, <1>9, <1>10

LEMMA LeftIsNat ==
  ASSUME TurnTypeOK
  PROVE  LeftInNat
<1>1. Page \in [count : Nat, last : Text, asked : Seq(Prompts)]
  BY PageType DEF TurnTypeOK, Page
<1>2. Unshown(Page) \in Nat
  BY <1>1, UnshownShrinks
<1>3. /\ w.tries \in Nat /\ w.stable \in 0 .. 5 /\ Phase \in 0 .. 4
  BY ProviderTurnAssumption DEF TurnTypeOK, Turn, Phase
<1> QED
  BY <1>2, <1>3 DEF LeftInNat, StepsLeft, LooksLeft

\* A step of the turn itself.
LEMMA ServeCounts ==
  ASSUME TurnInv, Serve
  PROVE  Advances
<1>0. w \in Turn /\ w.tries \in Nat
  BY ProviderTurnAssumption DEF TurnInv, TurnTypeOK, Turn
<1>1. /\ w'.tries = w.tries
      /\ \/ w.pc = "prepare" /\ w'.pc \in {"fill", "backoff"}
         \/ w.pc = "fill" /\ w'.pc \in {"watch", "recover", "backoff"}
         \/ w.pc = "watch" /\ w'.pc = "recover"
      => StepsLeft' < StepsLeft
  BY <1>0 DEF StepsLeft, Phase
<1>2. ASSUME w.pc \in {"prepare", "fill"}, BeforeSubmit
      PROVE  w'.pc = "free" \/ (w'.prompt = w.prompt /\ StepsLeft' < StepsLeft)
  <2>1. CASE Raised("presubmit")
    BY <2>1, FreeTurnType DEF Raised
  <2>2. CASE w' = [w EXCEPT !.pc = "backoff"]
    <3>1. w'.pc = "backoff" /\ w'.prompt = w.prompt /\ w'.tries = w.tries
      BY <1>0, <2>2 DEF Turn
    <3> QED  BY <1>1, <1>2, <3>1
  <2> QED  BY <1>2, <2>1, <2>2 DEF BeforeSubmit
<1>3. CASE FailUnsent
  BY <1>2, <1>3 DEF FailUnsent, Advances
<1>4. CASE Prepare \/ WatchEnds
  <2>1. /\ w'.prompt = w.prompt /\ w'.tries = w.tries
        /\ \/ w.pc = "prepare" /\ w'.pc = "fill"
           \/ w.pc = "watch" /\ w'.pc = "recover"
    BY <1>0, <1>4 DEF Prepare, WatchEnds, Turn
  <2> QED  BY <1>1, <2>1 DEF Advances
<1>5. CASE RecoverEnds \/ RestartFails
  BY <1>5, FreeTurnType DEF RecoverEnds, RestartFails, Raised, Advances
<1>6. CASE Restart
  <2>1. w.pc = "backoff" /\ w'.pc = "prepare" /\ w'.prompt = w.prompt /\ w'.tries = w.tries - 1
    BY <1>6, FreeTurnType DEF Restart, Turn
  <2> QED  BY <1>0, <2>1 DEF StepsLeft, Phase, Advances
<1>7. CASE Gesture
  <2>1. PICK raises \in BOOLEAN : w' = [w EXCEPT !.pc = IF raises THEN "recover" ELSE "watch"]
    BY <1>7 DEF Gesture, UncertainAtGesture
  <2>2. /\ w.pc = "fill" /\ w'.pc \in {"watch", "recover"}
        /\ w'.prompt = w.prompt /\ w'.tries = w.tries
    BY <1>0, <1>7, <2>1 DEF Gesture, Turn
  <2> QED  BY <1>1, <2>2 DEF Advances
<1>8. CASE Look
  <2> DEFINE rounds == IF Page.last = w.seen THEN w.stable + 1 ELSE 0
  <2>1. CASE Final(rounds)
    BY <1>8, <2>1, FreeTurnType DEF Look, Answered, Advances
  <2>2. CASE ~Final(rounds)
    <3>1. /\ UNCHANGED chat
          /\ w' = [w EXCEPT !.seen = Page.last, !.stable = rounds,
                            !.pause = IF Rendering(ChatOf(w.prompt)) THEN @ + 1 ELSE 0]
      BY <1>8, <2>2 DEF Look
    <3>2. /\ w'.prompt = w.prompt /\ w'.pc = w.pc /\ w'.tries = w.tries
          /\ w'.seen = Page.last /\ w'.stable = rounds
      BY <1>0, <3>1 DEF Turn
    <3>3. UNCHANGED Page /\ StepsLeft' = StepsLeft
      BY <3>1, <3>2 DEF Page, StepsLeft, Phase
    <3>4. w.stable \in 0 .. 5 /\ rounds \in 0 .. 4
      BY <1>0, <2>2 DEF Turn, Final, Stable
    <3>5. LooksLeft' = 5 - rounds
      BY <3>2, <3>3 DEF LooksLeft
    <3>6. LooksLeft' < LooksLeft
      BY <3>4, <3>5 DEF LooksLeft
    <3> QED  BY <3>2, <3>3, <3>6 DEF Advances
  <2> QED  BY <2>1, <2>2
<1> QED  BY <1>3, <1>4, <1>5, <1>6, <1>7, <1>8 DEF Serve

\* A step of the site.
LEMMA SiteCounts ==
  ASSUME TurnInv, TurnTypeOK', w.pc # "free", Site
  PROVE  LetsAdvance
<1>0. w \in Turn /\ chat \in [Chats -> [count : Nat, last : Text, asked : Seq(Prompts)]]
  BY DEF TurnInv, TurnTypeOK
<1>1. w' = w \/ w' = [w EXCEPT !.pause = 0]
  BY DEF Site, SiteAnswers, SiteRenders, SiteRerenders, SiteRefuses, PageClosed
<1>2. w'.prompt = w.prompt /\ w'.pc = w.pc /\ w'.tries = w.tries
  BY <1>0, <1>1 DEF Turn
<1>3. StepsLeft' = StepsLeft
  BY <1>2 DEF StepsLeft, Phase
<1> DEFINE d == ChatOf(w.prompt)
<1>4. /\ d \in Chats /\ Page = chat[d] /\ Page' = chat'[d]
      /\ chat'[d] \in [count : Nat, last : Text, asked : Seq(Prompts)]
      /\ w.prompt # NoPrompt
  BY <1>2, PageType, PromptFacts DEF Page, TurnInv, TurnIsCurrent, TurnTypeOK
<1>5. PICK c \in Chats : \/ SiteAnswers(c) \/ SiteRenders(c) \/ SiteRerenders(c)
                         \/ SiteRefuses(c) \/ PageClosed(c)
  BY DEF Site
<1>6. CASE c # d \/ PageClosed(c)
  <2>1. c # d
    BY <1>4, <1>6 DEF PageClosed
  <2>2. chat'[d] = chat[d]
    BY <1>0, <1>4, <1>5, <2>1 DEF SiteAnswers, SiteRenders, SiteRerenders, SiteRefuses, PageClosed
  <2>3. w' = w
    BY <1>5, <2>1 DEF SiteAnswers, SiteRenders, SiteRerenders, SiteRefuses, PageClosed
  <2> QED  BY <1>2, <1>3, <1>4, <2>2, <2>3 DEF LetsAdvance
<1>7. CASE c = d /\ ~PageClosed(c)
  <2>1. CASE SiteAnswers(c) \/ SiteRefuses(c)
    <3>1. chat[d].asked # <<>>
      BY <1>7, <2>1 DEF SiteAnswers, SiteRefuses
    <3>2. chat'[d].asked = Tail(chat[d].asked)
      <4>1. CASE SiteAnswers(c)
        <5>1. PICK n, t : chat' = [chat EXCEPT ![c] = [count |-> n, last |-> t, asked |-> Tail(@.asked)]]
          BY <4>1 DEF SiteAnswers
        <5> QED  BY <1>0, <1>4, <1>7, <5>1
      <4>2. CASE SiteRefuses(c)
        BY <1>0, <1>4, <1>7, <4>2 DEF SiteRefuses
      <4> QED  BY <2>1, <4>1, <4>2
    <3> QED  BY <1>0, <1>2, <1>3, <1>4, <3>1, <3>2, UnshownShrinks DEF LetsAdvance
  <2>2. CASE SiteRenders(c)
    <3>1. /\ chat[d].last # NoText /\ chat'[d].asked = chat[d].asked
          /\ chat'[d].last = [chat[d].last EXCEPT !.part = @ + 1]
      BY <1>0, <1>4, <1>7, <2>2 DEF SiteRenders, Rendering
    <3>2. chat'[d].last.part = chat[d].last.part + 1 /\ chat'[d].last.anew = chat[d].last.anew
      BY <1>0, <1>4, <3>1 DEF Text
    <3>3. chat'[d].last # NoText
      BY <1>0, <1>4, <3>1, <3>2, TextParts DEF NoText
    <3> QED  BY <1>0, <1>2, <1>3, <1>4, <3>1, <3>2, <3>3, UnshownShrinks DEF LetsAdvance
  <2>3. CASE SiteRerenders(c)
    <3>1. /\ chat[d].last.part = Parts /\ ~chat[d].last.anew /\ chat'[d].asked = chat[d].asked
          /\ chat'[d].last = [chat[d].last EXCEPT !.anew = TRUE]
      BY <1>0, <1>4, <1>7, <2>3 DEF SiteRerenders
    <3>2. chat[d].last # NoText
      BY <3>1, ProviderTurnAssumption DEF NoText
    <3>3. chat'[d].last.part = chat[d].last.part /\ chat'[d].last.anew /\ chat'[d].last # NoText
      BY <1>0, <1>4, <3>1, <3>2, TextParts DEF Text, NoText
    <3> QED  BY <1>0, <1>2, <1>3, <1>4, <3>1, <3>2, <3>3, UnshownShrinks DEF LetsAdvance
  <2> QED  BY <1>5, <1>7, <2>1, <2>2, <2>3
<1> QED  BY <1>6, <1>7

\* What is left of a turn is a triple of natural numbers, and every step under
\* the lock but those of the site elsewhere takes from it, in lexicographic
\* order: no turn goes on for ever, for any site, attempts and sizes of answers.
\* The site may prolong it by what it was asked, no more.
THEOREM TurnsCountDown == TurnSpec => []LeftInNat /\ TurnCountsDown
<1>1. TurnInv => LeftInNat
  BY LeftIsNat DEF TurnInv
<1>2. TurnInv /\ TurnInv' /\ [TurnNext]_<<turnVars, provider>> =>
        [w.pc # "free" => IF Serve THEN Advances ELSE LetsAdvance]_<<turnVars, provider>>
  <2> SUFFICES ASSUME TurnInv, TurnInv', TurnNext, w.pc # "free"
               PROVE  IF Serve THEN Advances ELSE LetsAdvance
    OBVIOUS
  <2>1. Serve \/ Site
    BY DEF TurnNext, GetLock
  <2>2. TurnTypeOK'
    BY DEF TurnInv
  <2> QED  BY <2>1, <2>2, ServeCounts, SiteCounts
<1> QED  BY <1>1, <1>2, TurnInvariant, PTL DEF TurnSpec, TurnCountsDown

=============================================================================
