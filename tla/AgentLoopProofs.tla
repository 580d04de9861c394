-------------------------- MODULE AgentLoopProofs ---------------------------
(***************************************************************************)
(* The tool loop, for any tools, sizes, budget and length of the history.  *)
(***************************************************************************)
EXTENDS AgentLoop, FiniteSetTheorems, SequenceTheorems, TLAPS

-----------------------------------------------------------------------------
(* The smallest number of a set, on which compaction rests.                *)

\* A set of positive numbers with an upper bound has a smallest element.
LEMMA SmallestElement ==
  ASSUME NEW n \in Nat, NEW S, S \subseteq 1 .. n, S # {}
  PROVE  \E m \in S : \A k \in S : m <= k
<1>. DEFINE T == {1 .. k : k \in S}
<1>1. IsFiniteSet(1 .. n)
  BY FS_Interval
<1>2. IsWellFoundedOn(StrictSubsetOrdering(1 .. n), FiniteSubsetsOf(1 .. n))
  BY FS_StrictSubsetOrderingWellFounded
<1>3. T \subseteq FiniteSubsetsOf(1 .. n)
  <2>1. ASSUME NEW k \in S
        PROVE  1 .. k \in FiniteSubsetsOf(1 .. n)
    BY FS_Interval DEF FiniteSubsetsOf
  <2>. QED  BY <2>1
<1>4. PICK x \in T : \A y \in T : <<y, x>> \notin StrictSubsetOrdering(1 .. n)
  <2>. HIDE DEF T
  <2>1. T # {}
    BY DEF T
  <2>. QED  BY <1>2, <1>3, <2>1, WFMin
<1>5. PICK m \in S : x = 1 .. m
  OBVIOUS
<1>6. ASSUME NEW k \in S, k < m
      PROVE  FALSE
  <2>1. 1 .. k \subseteq 1 .. m /\ m \in 1 .. m /\ m \notin 1 .. k
    BY <1>6
  <2>2. <<1 .. k, 1 .. m>> \in StrictSubsetOrdering(1 .. n)
    BY <2>1 DEF StrictSubsetOrdering
  <2>. QED  BY <1>4, <1>5, <2>2
<1>. QED  BY <1>6

-----------------------------------------------------------------------------
(* The prompt.                                                             *)

\* A message of the prompt is one of the history, its size aside.
Agree(m, n) == m.role = n.role /\ m.what = n.what /\ m.args = n.args /\ m.id = n.id

\* What a prompt keeps are messages, and they end with the end of the history.
KeepsTail(p, ms) ==
  /\ p \in [kept : Seq(Message), ledger : Nat]
  /\ p.kept # <<>> => ms # <<>> /\ Agree(p.kept[Len(p.kept)], ms[Len(ms)])

\* Bounding a result changes its size and keeps a message a message.
LEMMA BoundedIsMessage ==
  ASSUME NEW m \in Message
  PROVE  Bounded(m) \in Message /\ Agree(Bounded(m), m)
<1>1. ResultBound \in Nat \ {0}
  BY AgentLoopAssumption DEF ResultBound, AtLeast, AtMost
<1>2. AtMost(m.size, ResultBound) \in Nat \ {0}
  BY <1>1 DEF AtMost, Message
<1>. QED
  BY <1>2 DEF Bounded, Message, Agree

\* Compaction keeps a tail.
LEMMA TailKeepsTail ==
  ASSUME NEW ms \in Seq(Message)
  PROVE  KeepsTail(TailThatFits(ms), ms)
<1>. DEFINE fits  == {k \in 1 .. Len(ms) + 1 :
                        k = Len(ms) + 1 \/ Weight(SubSeq(ms, k, Len(ms))) <= Window}
            first == CHOOSE k \in fits : \A j \in fits : k <= j
            kept  == SubSeq(ms, first, Len(ms))
<1>1. TailThatFits(ms) = [kept |-> kept, ledger |-> first - 1]
  BY DEF TailThatFits
<1>2. first \in 1 .. Len(ms) + 1
  <2>1. Len(ms) + 1 \in Nat /\ fits \subseteq 1 .. Len(ms) + 1 /\ Len(ms) + 1 \in fits
    OBVIOUS
  <2>. HIDE DEF fits
  <2>2. \E k \in fits : \A j \in fits : k <= j
    BY <2>1, SmallestElement
  <2>. QED  BY <2>1, <2>2
<1>. HIDE DEF first
<1>3. /\ kept \in Seq(Message)
      /\ Len(kept) = IF first <= Len(ms) THEN Len(ms) - first + 1 ELSE 0
      /\ \A i \in 1 .. Len(ms) - first + 1 : kept[i] = ms[first + i - 1]
  BY <1>2, SubSeqProperties
<1>. HIDE DEF kept
<1>4. first - 1 \in Nat
  BY <1>2
<1>6. ASSUME kept # <<>>
      PROVE  ms # <<>> /\ Agree(kept[Len(kept)], ms[Len(ms)])
  <2>1. Len(kept) # 0
    BY <1>3, <1>6, EmptySeq
  <2>2. Len(kept) = Len(ms) - first + 1 /\ Len(kept) \in 1 .. Len(ms) - first + 1
    BY <1>2, <1>3, <2>1
  <2>3. kept[Len(kept)] = ms[Len(ms)] /\ Len(ms) # 0
    BY <1>2, <1>3, <2>2
  <2>. QED  BY <2>3 DEF Agree
<1>. QED
  BY <1>1, <1>3, <1>4, <1>6 DEF KeepsTail

\* However much of a prompt is cut for a repair, its last message is left whole
\* where it fits with the epilogue behind it.
LEMMA RepairKeepsLast ==
  ASSUME NEW p \in [kept : Seq(Message), ledger : Nat], p.kept # <<>>, NEW tools
  PROVE  LET end == Len(p.kept) IN
         \/ end \in RepairKeeps(p, tools)
         \/ /\ ~(PromptSize(p.kept, p.ledger, tools) <= RepairLimit)
            /\ ~(Weight(SubSeq(p.kept, end, end)) + Epilogue(tools) <= RepairLimit \div 2)
<1>1. Len(p.kept) \in DOMAIN p.kept
  BY EmptySeq
<1>. QED  BY <1>1 DEF RepairKeeps

\* Whether it is compacted or not, a prompt keeps a tail of the history.
LEMMA PreparedKeepsTail ==
  ASSUME NEW ms \in Seq(Message), NEW tools
  PROVE  KeepsTail(Prepared(ms, tools), ms)
<1>. DEFINE b   == [k \in 1 .. Len(ms) |-> Bounded(ms[k])]
            all == [kept |-> b, ledger |-> 0]
<1>1. \A k \in 1 .. Len(ms) : Bounded(ms[k]) \in Message /\ Agree(Bounded(ms[k]), ms[k])
  BY BoundedIsMessage, ElementOfSeq
<1>2. /\ b \in Seq(Message) /\ Len(b) = Len(ms)
      /\ \A k \in 1 .. Len(ms) : Agree(b[k], ms[k])
  BY <1>1
<1>3. Prepared(ms, tools) = IF Fits(all, tools) THEN all ELSE TailThatFits(all.kept)
  BY DEF Prepared
<1>. HIDE DEF b
<1>4. CASE Fits(all, tools)
  <2>1. KeepsTail(all, ms)
    BY <1>2, EmptySeq DEF KeepsTail
  <2>. QED  BY <1>3, <1>4, <2>1
<1>5. CASE ~Fits(all, tools)
  <2>1. KeepsTail(TailThatFits(b), b)
    BY <1>2, TailKeepsTail
  <2>2. Prepared(ms, tools) = TailThatFits(b)
    BY <1>3, <1>5
  <2>3. KeepsTail(TailThatFits(b), ms)
    BY <1>2, <2>1, EmptySeq DEF KeepsTail, Agree
  <2>. QED  BY <2>2, <2>3
<1>. QED  BY <1>4, <1>5

-----------------------------------------------------------------------------
(* The history.                                                            *)

\* A longer history has the same open calls where it is as before.
LEMMA OpenCallsOfPrefix ==
  ASSUME NEW ms \in Seq(Message), NEW new \in Seq(Message), NEW k \in 0 .. Len(ms)
  PROVE  OpenCalls(ms \o new, k) = OpenCalls(ms, k)
<1>1. \A i \in 1 .. k : (ms \o new)[i] = ms[i]
  BY ConcatProperties
<1>. QED
  BY <1>1 DEF OpenCalls

\* Nor does what was said before become invalid.
LEMMA PrefixStaysValid ==
  ASSUME NEW ms \in Seq(Message), NEW new \in Seq(Message), ValidHistory(ms),
         NEW k \in 1 .. Len(ms)
  PROVE  LET all == ms \o new IN
         CASE all[k].role = "call" -> CallIsNormal(all[k]) /\ all[k].id \notin OpenCalls(all, k - 1)
           [] all[k].role = "tool" -> all[k].id \in OpenCalls(all, k - 1)
           [] OTHER                -> OpenCalls(all, k - 1) = {}
<1>1. (ms \o new)[k] = ms[k]
  BY ConcatProperties
<1>2. OpenCalls(ms \o new, k - 1) = OpenCalls(ms, k - 1)
  BY OpenCallsOfPrefix
<1>. QED
  BY <1>1, <1>2 DEF ValidHistory

\* In a history that is empty or valid no call is open.
LEMMA NothingOpen ==
  ASSUME NEW ms \in Seq(Message), ms # <<>> => ValidHistory(ms)
  PROVE  OpenCalls(ms, Len(ms)) = {}
<1>1. CASE ms = <<>>
  <2>1. 1 .. Len(ms) = {}
    BY <1>1
  <2>. QED  BY <2>1 DEF OpenCalls
<1>2. CASE ms # <<>>
  BY <1>2 DEF ValidHistory
<1>. QED  BY <1>1, <1>2

\* A text or a word of the user may follow.
LEMMA TextMayFollow ==
  ASSUME NEW ms \in Seq(Message), ms # <<>> => ValidHistory(ms),
         NEW m \in Message, m.role \in {"user", "text"}
  PROVE  ValidHistory(ms \o <<m>>)
<1>. DEFINE all == ms \o <<m>>
<1>1. <<m>> \in Seq(Message) /\ Len(<<m>>) = 1
  OBVIOUS
<1>2. /\ Len(all) = Len(ms) + 1 /\ all[Len(all)] = m /\ all \in Seq(Message)
      /\ \A i \in 1 .. Len(ms) : all[i] = ms[i]
  BY <1>1, ConcatProperties
<1>3. OpenCalls(all, Len(ms)) = {}
  <2>1. Len(ms) \in 0 .. Len(ms)
    OBVIOUS
  <2>2. OpenCalls(all, Len(ms)) = OpenCalls(ms, Len(ms))
    BY <1>1, <2>1, OpenCallsOfPrefix
  <2>3. OpenCalls(ms, Len(ms)) = {}
    BY NothingOpen
  <2>. QED  BY <2>2, <2>3
<1>. HIDE DEF all
<1>4. OpenCalls(all, Len(all)) = {}
  BY <1>2, <1>3 DEF OpenCalls
<1>5. ASSUME NEW k \in 1 .. Len(all)
      PROVE  CASE all[k].role = "call" -> CallIsNormal(all[k]) /\ all[k].id \notin OpenCalls(all, k - 1)
               [] all[k].role = "tool" -> all[k].id \in OpenCalls(all, k - 1)
               [] OTHER                -> OpenCalls(all, k - 1) = {}
  <2>1. CASE k \in 1 .. Len(ms)
    <3>1. ms # <<>>
      BY <2>1, EmptySeq
    <3>. QED
      BY <1>1, <2>1, <3>1, PrefixStaysValid DEF all
  <2>2. CASE k = Len(ms) + 1
    BY <1>2, <1>3, <2>2
  <2>. QED  BY <1>2, <2>1, <2>2
<1>6. all # <<>>
  BY <1>2
<1>. QED
  BY <1>4, <1>5, <1>6 DEF ValidHistory, all

\* So may a call whose arguments are an object, with its result.
LEMMA PairMayFollow ==
  ASSUME NEW ms \in Seq(Message), ms # <<>> => ValidHistory(ms),
         NEW c \in Message, c.role = "call", CallIsNormal(c),
         NEW r \in Message, r.role = "tool", r.id = c.id
  PROVE  ValidHistory(ms \o <<c, r>>)
<1>. DEFINE all == ms \o <<c, r>>
<1>1. <<c, r>> \in Seq(Message) /\ Len(<<c, r>>) = 2
  OBVIOUS
<1>2. /\ Len(all) = Len(ms) + 2 /\ all \in Seq(Message)
      /\ all[Len(ms) + 1] = c /\ all[Len(ms) + 2] = r
  BY <1>1, ConcatProperties
<1>3. OpenCalls(all, Len(ms)) = {}
  <2>1. Len(ms) \in 0 .. Len(ms)
    OBVIOUS
  <2>2. OpenCalls(all, Len(ms)) = OpenCalls(ms, Len(ms))
    BY <1>1, <2>1, OpenCallsOfPrefix
  <2>3. OpenCalls(ms, Len(ms)) = {}
    BY NothingOpen
  <2>. QED  BY <2>2, <2>3
<1>. HIDE DEF all
<1>4. \A i \in 1 .. Len(ms) : all[i].role = "call" =>
        \E n \in i + 1 .. Len(ms) : all[n].role = "tool" /\ all[n].id = all[i].id
  BY <1>3 DEF OpenCalls
<1>5. c.id \in OpenCalls(all, Len(ms) + 1)
  <2>1. Len(ms) + 1 \in 1 .. Len(ms) + 1 /\ Len(ms) + 2 .. Len(ms) + 1 = {}
    OBVIOUS
  <2>. QED  BY <1>2, <2>1 DEF OpenCalls
<1>6. OpenCalls(all, Len(all)) = {}
  <2>1. ASSUME NEW i \in 1 .. Len(all), all[i].role = "call"
        PROVE  \E n \in i + 1 .. Len(all) : all[n].role = "tool" /\ all[n].id = all[i].id
    <3>1. CASE i \in 1 .. Len(ms)
      BY <1>2, <1>4, <2>1, <3>1
    <3>2. CASE i = Len(ms) + 1
      <4>1. Len(ms) + 2 \in i + 1 .. Len(all)
        BY <1>2, <3>2
      <4>. QED  BY <1>2, <3>2, <4>1
    <3>3. CASE i = Len(ms) + 2
      BY <1>2, <2>1, <3>3
    <3>. QED  BY <1>2, <3>1, <3>2, <3>3
  <2>. QED  BY <2>1 DEF OpenCalls
<1>7. ASSUME NEW k \in 1 .. Len(all)
      PROVE  CASE all[k].role = "call" -> CallIsNormal(all[k]) /\ all[k].id \notin OpenCalls(all, k - 1)
               [] all[k].role = "tool" -> all[k].id \in OpenCalls(all, k - 1)
               [] OTHER                -> OpenCalls(all, k - 1) = {}
  <2>1. CASE k \in 1 .. Len(ms)
    <3>1. ms # <<>>
      BY <2>1, EmptySeq
    <3>. QED
      BY <1>1, <2>1, <3>1, PrefixStaysValid DEF all
  <2>2. CASE k = Len(ms) + 1
    BY <1>2, <1>3, <2>2
  <2>3. CASE k = Len(ms) + 2
    BY <1>2, <1>5, <2>3
  <2>. QED  BY <1>2, <2>1, <2>2, <2>3
<1>8. all # <<>>
  BY <1>2
<1>. QED
  BY <1>6, <1>7, <1>8 DEF ValidHistory, all

-----------------------------------------------------------------------------
(* The invariant.                                                          *)

\* What the agent has kept is a history validate_chat accepts.
HistoryIsValid == hist # <<>> => ValidHistory(hist)

\* There is a prompt only while the web chat is at work.
PromptIsInUse == phase \in {"idle", "received"} => prompt = NoPrompt /\ shown = {}

\* The format of an answer is repaired only where a text may be the answer.
FormatIsLast == phase = "format" => ~CallRequired(request)

\* A call that is handed out can come back in a history.
CallsCanComeBack == outcome.kind = "call" => outcome.what \in Acts /\ outcome.args # "none"

\* All that is promised of an outcome.
OutcomeGood ==
  /\ CallsCanComeBack
  /\ LoopNeverRejected
  /\ AnswerHonoursRequest
  /\ NoMarkerLeaks

LoopInv ==
  /\ LoopTypeOK
  /\ HistoryIsValid
  /\ PromptIsInUse
  /\ FormatIsLast
  /\ OutcomeGood
  /\ PromptHoldsLast

\* At first nothing was said or asked.
LEMMA LoopInitInv == Init => LoopInv
<1>. SUFFICES ASSUME Init
              PROVE  LoopInv
  OBVIOUS
<1>. USE DEF Init, NoRequest, NoPrompt, NoOutcome
<1>1. LoopTypeOK
  BY EmptySeq DEF LoopTypeOK, Request, ToolChoices, Outcome, Arguments
<1>2. HistoryIsValid /\ FormatIsLast /\ PromptHoldsLast
  BY DEF HistoryIsValid, FormatIsLast, PromptHoldsLast
<1>3. PromptIsInUse
  BY DEF PromptIsInUse
<1>4. OutcomeGood
  BY DEF OutcomeGood, CallsCanComeBack, LoopNeverRejected, AnswerHonoursRequest, NoMarkerLeaks
<1>. QED  BY <1>1, <1>2, <1>3, <1>4 DEF LoopInv

-----------------------------------------------------------------------------
(* How a request ends.                                                     *)

\* What may be called was offered, and is what the choice allows.
LEMMA ToolsAreAllowed ==
  ASSUME NEW r \in Request
  PROVE  /\ Tools(r) \subseteq r.offered
         /\ r.choice = "none" => Tools(r) = {}
         /\ r.choice = "named" => Tools(r) \subseteq {"tool_call"}
  BY DEF Tools

\* What ends a request forgets its prompt.
LEMMA EndKeepsInv ==
  ASSUME LoopInv, UNCHANGED <<hist, request>>, phase' = "idle", prompt' = NoPrompt, shown' = {},
         outcome' \in Outcome, OutcomeGood'
  PROVE  LoopInv'
<1>1. LoopTypeOK'
  BY EmptySeq DEF LoopInv, LoopTypeOK, NoPrompt
<1>2. HistoryIsValid' /\ FormatIsLast' /\ PromptIsInUse'
  BY DEF LoopInv, HistoryIsValid, FormatIsLast, PromptIsInUse
<1>3. PromptHoldsLast'
  BY DEF PromptHoldsLast
<1>. QED  BY <1>1, <1>2, <1>3 DEF LoopInv

\* While a request is under way its outcome stays good.
LEMMA WaitingIsGood ==
  ASSUME LoopInv, UNCHANGED <<hist, request, outcome>>
  PROVE  outcome' \in Outcome /\ OutcomeGood'
<1>1. outcome' \in Outcome
  BY DEF LoopInv, LoopTypeOK
<1>2. OutcomeGood'
  BY DEF LoopInv, OutcomeGood, CallsCanComeBack, LoopNeverRejected, AnswerHonoursRequest, NoMarkerLeaks
<1>. QED  BY <1>1, <1>2

\* A repair is shown what is left of the prompt, the repair of a format nothing of it.
LEMMA AskingKeepsInv ==
  ASSUME LoopInv, UNCHANGED <<hist, request>>, phase \in {"asked", "repair", "format"},
         \/ Asks("repair", RepairKeeps(prompt, Tools(request)))
         \/ Asks("format", {}) /\ ~CallRequired(request)
  PROVE  LoopInv'
<1>1. /\ prompt \in [kept : Seq(Message), ledger : Nat]
      /\ PromptHoldsLast
  BY DEF LoopInv, LoopTypeOK
<1>2. UNCHANGED <<prompt, outcome>> /\ phase' \in {"repair", "format"}
  BY DEF Asks
<1>3. OutcomeGood' /\ outcome' \in Outcome
  BY <1>2, WaitingIsGood
<1>4. shown' \subseteq DOMAIN prompt.kept
  BY DEF Asks, RepairKeeps
<1>5. LoopTypeOK'
  BY <1>2, <1>4 DEF LoopInv, LoopTypeOK
<1>6. HistoryIsValid' /\ PromptIsInUse'
  BY <1>2 DEF LoopInv, HistoryIsValid, PromptIsInUse
<1>7. FormatIsLast'
  BY DEF Asks, FormatIsLast, CallRequired
<1>8. ASSUME phase' = "repair", prompt # NoPrompt
      PROVE  LET end == Len(prompt.kept) IN
             \/ end \in shown'
             \/ /\ ~(PromptSize(prompt.kept, prompt.ledger, Tools(request)) <= RepairLimit)
                /\ ~(Weight(SubSeq(prompt.kept, end, end)) + Epilogue(Tools(request))
                       <= RepairLimit \div 2)
  <2>1. shown' = RepairKeeps(prompt, Tools(request))
    BY <1>8 DEF Asks
  <2>2. prompt.kept # <<>>
    BY <1>1, <1>8 DEF PromptHoldsLast
  <2>. QED  BY <1>1, <2>1, <2>2, RepairKeepsLast
<1>9. PromptHoldsLast'
  BY <1>1, <1>2, <1>8 DEF PromptHoldsLast
<1>. QED  BY <1>3, <1>5, <1>6, <1>7, <1>9 DEF LoopInv

\* Errors promise nothing; "invalid" is the matter of Send.
LEMMA FailureKeepsInv ==
  ASSUME LoopInv, UNCHANGED <<hist, request>>, NEW error \in Errors \ {"invalid"}, Fails(error)
  PROVE  LoopInv'
<1>1. /\ outcome' = [kind |-> "error", what |-> error, args |-> "none"]
      /\ phase' = "idle" /\ prompt' = NoPrompt /\ shown' = {}
  BY DEF Fails, Ends
<1>2. outcome' \in Outcome
  BY <1>1 DEF Outcome, Arguments
<1>3. OutcomeGood'
  BY <1>1 DEF Errors, OutcomeGood, CallsCanComeBack, LoopNeverRejected, AnswerHonoursRequest,
              NoMarkerLeaks
<1>. QED  BY <1>1, <1>2, <1>3, EndKeepsInv

\* A call of a tool that may be called, with arguments.
LEMMA CallKeepsInv ==
  ASSUME LoopInv, UNCHANGED <<hist, request>>, NEW act \in Acts, NEW args \in {"object", "empty"},
         ToolOf(act) \in Tools(request), GiveCall(act, args)
  PROVE  LoopInv'
<1>1. /\ outcome' = [kind |-> "call", what |-> act, args |-> args]
      /\ phase' = "idle" /\ prompt' = NoPrompt /\ shown' = {}
  BY DEF GiveCall, Ends
<1>2. outcome' \in Outcome
  BY <1>1 DEF Outcome, Arguments
<1>3. CallsCanComeBack' /\ LoopNeverRejected' /\ NoMarkerLeaks'
  BY <1>1 DEF Acts, CallsCanComeBack, LoopNeverRejected, NoMarkerLeaks
<1>4. AnswerHonoursRequest'
  <2>1. request \in Request
    BY DEF LoopInv, LoopTypeOK
  <2>. QED  BY <1>1, <2>1, ToolsAreAllowed DEF AnswerHonoursRequest
<1>. QED  BY <1>1, <1>2, <1>3, <1>4, EndKeepsInv DEF OutcomeGood

\* A text that may be shown to an agent that was given these tools.
Showable(text) ==
  /\ text \in Texts \ {"blank", "unknown"}
  /\ Tools(request) # {} => text # "marker"

LEMMA TextKeepsInv ==
  ASSUME LoopInv, UNCHANGED <<hist, request>>, NEW text, Showable(text), GiveText(text),
         \/ request.title
         \/ ~CallRequired(request) /\ (request.structured => text = "json")
  PROVE  LoopInv'
<1>1. CASE Ends([kind |-> "text", what |-> text, args |-> "none"])
  <2>1. /\ outcome' = [kind |-> "text", what |-> text, args |-> "none"]
        /\ phase' = "idle" /\ prompt' = NoPrompt /\ shown' = {}
    BY <1>1 DEF Ends
  <2>2. outcome' \in Outcome
    BY <2>1 DEF Outcome, Arguments, Showable
  <2>3. LoopNeverRejected' /\ CallsCanComeBack'
    BY <2>1 DEF Texts, Showable, LoopNeverRejected, CallsCanComeBack
  <2>4. AnswerHonoursRequest'
    BY <2>1 DEF AnswerHonoursRequest
  <2>5. NoMarkerLeaks'
    BY <2>1 DEF NoMarkerLeaks, Showable
  <2>. QED  BY <2>1, <2>2, <2>3, <2>4, <2>5, EndKeepsInv DEF OutcomeGood
<1>2. CASE Fails("toolong")
  <2>1. "toolong" \in Errors \ {"invalid"}
    BY DEF Errors
  <2>. QED  BY <1>2, <2>1, FailureKeepsInv
<1>. QED  BY <1>1, <1>2 DEF GiveText

\* The end of infer_legacy for a text that may be shown.
LEMMA InferTextKeepsInv ==
  ASSUME LoopInv, UNCHANGED <<hist, request>>, phase \in {"asked", "repair"},
         NEW text, Showable(text), InferText(text)
  PROVE  LoopInv'
<1>1. CASE CallRequired(request)
  <2>1. Fails("nocall") /\ "nocall" \in Errors \ {"invalid"}
    BY <1>1 DEF InferText, Errors
  <2>. QED  BY <2>1, FailureKeepsInv
<1>2. CASE ~CallRequired(request) /\ (request.structured => text = "json")
  <2>1. request.structured \in BOOLEAN
    BY DEF LoopInv, LoopTypeOK, Request
  <2>2. GiveText(text)
    BY <1>2, <2>1 DEF InferText, InferStructured
  <2>. QED  BY <1>2, <2>2, TextKeepsInv
<1>3. CASE ~CallRequired(request) /\ request.structured /\ text # "json"
  <2>1. \/ Fails("notjson")
        \/ Asks("format", {})
    BY <1>3 DEF InferText, InferStructured
  <2>2. CASE Fails("notjson")
    <3>1. "notjson" \in Errors \ {"invalid"}
      BY DEF Errors
    <3>. QED  BY <2>2, <3>1, FailureKeepsInv
  <2>3. CASE Asks("format", {})
    BY <1>3, <2>3, AskingKeepsInv
  <2>. QED  BY <2>1, <2>2, <2>3
<1>. QED  BY <1>1, <1>2, <1>3

-----------------------------------------------------------------------------
(* The agent.                                                              *)

\* A history that is empty or valid starts a new request.
LEMMA AddKeepsInv ==
  ASSUME LoopInv, phase = "idle", NEW new \in Seq(Message), Add(new),
         hist \o new # <<>> => ValidHistory(hist \o new)
  PROVE  LoopInv'
<1>1. /\ hist' = hist \o new /\ request' = NoRequest /\ UNCHANGED <<phase, prompt, shown>>
      /\ outcome' = NoOutcome /\ prompt = NoPrompt /\ shown = {}
  BY DEF Add, LoopInv, PromptIsInUse
<1>2. LoopTypeOK'
  <2>1. hist' \in Seq(Message)
    BY <1>1, ConcatProperties DEF LoopInv, LoopTypeOK
  <2>. QED
    BY <1>1, <2>1, EmptySeq DEF LoopTypeOK, NoRequest, NoPrompt, NoOutcome, Request, ToolChoices,
                                Outcome, Arguments
<1>3. HistoryIsValid'
  BY <1>1 DEF HistoryIsValid
<1>4. PromptIsInUse' /\ FormatIsLast' /\ PromptHoldsLast'
  BY <1>1 DEF PromptIsInUse, FormatIsLast, PromptHoldsLast
<1>5. OutcomeGood'
  BY <1>1 DEF NoOutcome, OutcomeGood, CallsCanComeBack, LoopNeverRejected, AnswerHonoursRequest,
              NoMarkerLeaks
<1>. QED  BY <1>2, <1>3, <1>4, <1>5 DEF LoopInv

LEMMA AskKeepsInv ==
  ASSUME LoopInv, NEW wish \in Wishes, NEW size \in Sizes, Ask(wish, size)
  PROVE  LoopInv'
<1>. DEFINE m == [role |-> "user", what |-> wish, args |-> "none", id |-> 0, size |-> size]
<1>1. m \in Message
  BY AgentLoopAssumption DEF Message, Arguments
<1>2. ValidHistory(hist \o <<m>>)
  BY <1>1, TextMayFollow DEF LoopInv, LoopTypeOK, HistoryIsValid
<1>3. phase = "idle" /\ Add(<<m>>)
  BY DEF Ask
<1>4. <<m>> \in Seq(Message)
  BY <1>1
<1>. HIDE DEF m
<1>. QED  BY <1>2, <1>3, <1>4, AddKeepsInv

LEMMA KeepKeepsInv ==
  ASSUME LoopInv, Keep
  PROVE  LoopInv'
<1>. DEFINE m == [role |-> "text", what |-> "prose", args |-> "none", id |-> 0, size |-> 1]
<1>1. m \in Message
  BY DEF Message, Arguments, Texts
<1>2. ValidHistory(hist \o <<m>>)
  BY <1>1, TextMayFollow DEF LoopInv, LoopTypeOK, HistoryIsValid
<1>3. phase = "idle" /\ Add(<<m>>)
  BY DEF Keep
<1>4. <<m>> \in Seq(Message)
  BY <1>1
<1>. HIDE DEF m
<1>. QED  BY <1>2, <1>3, <1>4, AddKeepsInv

\* The call that was handed out comes back with its result.
LEMMA ExecuteKeepsInv ==
  ASSUME LoopInv, NEW result \in Results, NEW size \in Sizes, Execute(result, size)
  PROVE  LoopInv'
<1>. DEFINE c == [role |-> "call", what |-> outcome.what, args |-> outcome.args, id |-> FreshId,
                  size |-> 1]
            r == [role |-> "tool", what |-> result, args |-> "none", id |-> FreshId, size |-> size]
<1>1. FreshId \in Nat
  BY DEF FreshId, LoopInv, LoopTypeOK
<1>2. outcome.what \in Acts /\ outcome.args \in Arguments \ {"none"}
  BY DEF Execute, LoopInv, LoopTypeOK, Outcome, OutcomeGood, CallsCanComeBack
<1>3. c \in Message /\ CallIsNormal(c)
  BY <1>1, <1>2 DEF Message, CallIsNormal
<1>4. r \in Message
  BY <1>1, AgentLoopAssumption DEF Message, Arguments
<1>5. ValidHistory(hist \o <<c, r>>)
  BY <1>3, <1>4, PairMayFollow DEF LoopInv, LoopTypeOK, HistoryIsValid
<1>6. phase = "idle" /\ Add(<<c, r>>)
  BY DEF Execute
<1>7. <<c, r>> \in Seq(Message)
  BY <1>3, <1>4
<1>. HIDE DEF c, r
<1>. QED  BY <1>5, <1>6, <1>7, AddKeepsInv

\* Nothing is added, so the history remains what it was.
LEMMA TryAgainKeepsInv ==
  ASSUME LoopInv, TryAgain
  PROVE  LoopInv'
<1>1. hist \in Seq(Message) /\ (hist # <<>> => ValidHistory(hist)) /\ phase = "idle" /\ Add(<<>>)
  BY DEF LoopInv, LoopTypeOK, HistoryIsValid, TryAgain
<1>2. <<>> \in Seq(Message) /\ hist \o <<>> = hist
  BY <1>1, EmptySeq, ConcatEmptySeq
<1>. QED  BY <1>1, <1>2, AddKeepsInv

\* The history is valid, so what is refused is the request, or the length of it all.
LEMMA SendKeepsInv ==
  ASSUME LoopInv, NEW r \in Request, Send(r)
  PROVE  LoopInv'
<1>1. /\ UNCHANGED hist /\ request' = r /\ ValidHistory(hist)
      /\ phase = "idle" /\ prompt = NoPrompt /\ shown = {}
  BY DEF Send, LoopInv, HistoryIsValid, PromptIsInUse
<1>2. CASE ValidRequest(r) /\ ~TooLong(hist)
  <2>1. phase' = "received" /\ outcome' = NoOutcome /\ UNCHANGED <<prompt, shown>>
    BY <1>1, <1>2 DEF Send
  <2>2. LoopTypeOK'
    BY <1>1, <2>1, EmptySeq DEF LoopInv, LoopTypeOK, NoPrompt, NoOutcome, Outcome, Arguments
  <2>3. OutcomeGood' /\ FormatIsLast'
    BY <2>1 DEF NoOutcome, OutcomeGood, CallsCanComeBack, LoopNeverRejected, AnswerHonoursRequest,
                NoMarkerLeaks, FormatIsLast
  <2>4. HistoryIsValid' /\ PromptIsInUse' /\ PromptHoldsLast'
    BY <1>1, <2>1 DEF HistoryIsValid, PromptIsInUse, PromptHoldsLast
  <2>. QED  BY <2>2, <2>3, <2>4 DEF LoopInv
<1>3. CASE ~ValidRequest(r) \/ TooLong(hist)
  <2>1. /\ outcome' = [kind |-> "error", what |-> "invalid", args |-> "none"]
        /\ phase' = "idle" /\ prompt' = NoPrompt /\ shown' = {}
    BY <1>3 DEF Send, Fails, Ends
  <2>2. LoopTypeOK'
    BY <1>1, <2>1, EmptySeq DEF LoopInv, LoopTypeOK, NoPrompt, Outcome, Arguments, Errors
  <2>3. LoopNeverRejected'
    BY <1>1, <1>3 DEF LoopNeverRejected
  <2>4. OutcomeGood' /\ FormatIsLast'
    BY <2>1, <2>3 DEF OutcomeGood, CallsCanComeBack, AnswerHonoursRequest, NoMarkerLeaks,
                      FormatIsLast
  <2>5. HistoryIsValid' /\ PromptIsInUse' /\ PromptHoldsLast'
    BY <1>1, <2>1 DEF HistoryIsValid, PromptIsInUse, PromptHoldsLast
  <2>. QED  BY <2>2, <2>4, <2>5 DEF LoopInv
<1>. QED  BY <1>2, <1>3

-----------------------------------------------------------------------------
(* The gateway.                                                            *)

LEMMA TitleKeepsInv ==
  ASSUME LoopInv, AnswerTitle
  PROVE  LoopInv'
<1>1. Showable("prose")
  BY DEF Showable, Texts
<1>. QED
  BY <1>1, TextKeepsInv DEF AnswerTitle

\* A prompt that is sent fits the budget and ends with the end of the history.
LEMMA PrepareKeepsInv ==
  ASSUME LoopInv, Prepare
  PROVE  LoopInv'
<1>. DEFINE p == Prepared(hist, Tools(request))
<1>1. hist \in Seq(Message)
  BY DEF LoopInv, LoopTypeOK
<1>2. KeepsTail(p, hist)
  BY <1>1, PreparedKeepsTail
<1>3. /\ phase = "received" /\ UNCHANGED <<hist, request>>
      /\ IF p.kept = <<>> \/ ~Fits(p, Tools(request))
         THEN Fails("context")
         ELSE phase' = "asked" /\ prompt' = p /\ shown' = DOMAIN p.kept /\ UNCHANGED outcome
  BY DEF Prepare
<1>. HIDE DEF p
<1>4. CASE p.kept = <<>> \/ ~Fits(p, Tools(request))
  <2>1. "context" \in Errors \ {"invalid"}
    BY DEF Errors
  <2>. QED  BY <1>3, <1>4, <2>1, FailureKeepsInv
<1>5. CASE p.kept # <<>> /\ Fits(p, Tools(request))
  <2>1. /\ phase' = "asked" /\ prompt' = p /\ shown' = DOMAIN p.kept
        /\ UNCHANGED <<hist, request, outcome>>
    BY <1>3, <1>5
  <2>2. LoopTypeOK'
    BY <1>2, <2>1 DEF LoopInv, LoopTypeOK, KeepsTail
  <2>3. OutcomeGood' /\ FormatIsLast'
    BY <2>1, WaitingIsGood DEF FormatIsLast
  <2>4. HistoryIsValid' /\ PromptIsInUse'
    BY <2>1 DEF LoopInv, HistoryIsValid, PromptIsInUse
  <2>5. Len(p.kept) \in DOMAIN p.kept /\ Agree(p.kept[Len(p.kept)], hist[Len(hist)])
    BY <1>2, <1>5, EmptySeq DEF KeepsTail
  <2>6. Fits(prompt, Tools(request))'
    BY <1>5, <2>1 DEF Fits, PromptSize
  <2>7. PromptHoldsLast'
    BY <1>5, <2>1, <2>5, <2>6 DEF PromptHoldsLast, Agree, Last
  <2>. QED  BY <2>2, <2>3, <2>4, <2>7 DEF LoopInv
<1>. QED  BY <1>4, <1>5

\* What the next Browser step rests on.
LEMMA ContinuationMeans ==
  ASSUME NEW ms, NEW tools
  PROVE  Continuation(ms, tools) = "tool" => "tool_call" \in tools
  BY DEF Continuation

\* What a call that was found looks like.
LEMMA FoundCalls ==
  ASSUME NEW a \in Answers, NEW tools, CallFound(a, tools)
  PROVE  a.what \in Acts /\ ArgumentsRead(a) \in {"object", "empty"} /\ ToolOf(a.what) \in tools
<1>1. a.call = TRUE /\ ArgumentsRead(a) # "none" /\ ToolOf(a.what) \in tools
  BY DEF CallFound, Answers
<1>2. a.what \in Acts
  BY <1>1 DEF Answers
<1>3. ReadCurrent(a) \in {"object", "empty", "none"}
  BY DEF ReadCurrent, NormalArguments
<1>4. ReadLegacy(a) \in {"object", "none"}
  BY DEF ReadLegacy
<1>. QED  BY <1>1, <1>2, <1>3, <1>4 DEF ArgumentsRead

\* What is visible of an answer is one of the texts, and none of the gateway's own.
LEMMA VisibleTexts ==
  ASSUME NEW a \in Answers
  PROVE  Visible(a) \in Texts \ {"claim", "blocker"}
  BY DEF Visible, Answers, Texts

LEMMA ResolveKeepsInv ==
  ASSUME LoopInv, NEW a \in Answers, Resolve(a), phase = "asked",
         UNCHANGED <<hist, request>>
  PROVE  LoopInv'
<1>. DEFINE tools == Tools(request)
            next  == Continuation(prompt.kept, tools)
<1>1. CASE next = "final"
  <2>1. Showable("claim")
    BY DEF Showable, Texts
  <2>2. InferText("claim")
    BY <1>1 DEF Resolve
  <2>. QED  BY <2>1, <2>2, InferTextKeepsInv
<1>2. CASE next # "final" /\ CallFound(a, tools)
  <2>1. GiveCall(a.what, ArgumentsRead(a))
    BY <1>2 DEF Resolve
  <2>. QED  BY <1>2, <2>1, FoundCalls, CallKeepsInv
<1>3. CASE next # "final" /\ ~CallFound(a, tools) /\ ~NeedsRepair(Visible(a), tools)
  <2>1. Showable(Visible(a))
    BY <1>3, VisibleTexts DEF NeedsRepair, Unresolved, Showable
  <2>2. InferText(Visible(a))
    BY <1>3 DEF Resolve
  <2>. QED  BY <2>1, <2>2, InferTextKeepsInv
<1>4. CASE next = "tool" /\ ~CallFound(a, tools) /\ NeedsRepair(Visible(a), tools)
  <2>1. GiveCall("act", "object")
    BY <1>4 DEF Resolve
  <2>2. "act" \in Acts /\ ToolOf("act") \in tools
    BY <1>4, ContinuationMeans DEF Acts, ToolOf
  <2>. QED  BY <2>1, <2>2, CallKeepsInv
<1>5. CASE next \notin {"final", "tool"} /\ ~CallFound(a, tools) /\ NeedsRepair(Visible(a), tools)
  <2>1. Asks("repair", RepairKeeps(prompt, tools))
    BY <1>5 DEF Resolve
  <2>. QED  BY <2>1, AskingKeepsInv
<1>. QED  BY <1>1, <1>2, <1>3, <1>4, <1>5

LEMMA RepairKeepsInv ==
  ASSUME LoopInv, NEW a \in Answers, ResolveRepair(a), phase = "repair",
         UNCHANGED <<hist, request>>
  PROVE  LoopInv'
<1>. DEFINE text  == Visible(a)
            given == IF Unresolved(text, Tools(request)) \/ text = "unknown" THEN "blocker" ELSE text
<1>1. CASE CallFound(a, Tools(request))
  <2>1. GiveCall(a.what, ArgumentsRead(a))
    BY <1>1 DEF ResolveRepair
  <2>. QED  BY <1>1, <2>1, FoundCalls, CallKeepsInv
<1>2. CASE ~CallFound(a, Tools(request)) /\ text = "blank"
  <2>1. Fails("unrepaired") /\ "unrepaired" \in Errors \ {"invalid"}
    BY <1>2 DEF ResolveRepair, Errors
  <2>. QED  BY <2>1, FailureKeepsInv
<1>3. CASE ~CallFound(a, Tools(request)) /\ text # "blank"
  <2>1. InferText(given)
    BY <1>3 DEF ResolveRepair
  <2>2. Showable(given)
    BY <1>3, VisibleTexts DEF Showable, Unresolved, Texts
  <2>. HIDE DEF given
  <2>. QED  BY <2>1, <2>2, InferTextKeepsInv
<1>. QED  BY <1>1, <1>2, <1>3

LEMMA FormatKeepsInv ==
  ASSUME LoopInv, NEW a \in Answers, CheckFormat(a), phase = "format",
         UNCHANGED <<hist, request>>
  PROVE  LoopInv'
<1>1. CASE GiveText("json")
  <2>1. Showable("json")
    BY DEF Showable, Texts
  <2>2. ~CallRequired(request)
    BY DEF LoopInv, FormatIsLast
  <2>. QED  BY <1>1, <2>1, <2>2, TextKeepsInv
<1>2. CASE Fails("notjson")
  <2>1. "notjson" \in Errors \ {"invalid"}
    BY DEF Errors
  <2>. QED  BY <1>2, <2>1, FailureKeepsInv
<1>. QED  BY <1>1, <1>2 DEF CheckFormat

-----------------------------------------------------------------------------
(* The theorems.                                                           *)

\* Every step of agent and gateway keeps the invariant.
LEMMA LoopNextInv == LoopInv /\ [Next]_loopVars => LoopInv'
<1>. SUFFICES ASSUME LoopInv, [Next]_loopVars
              PROVE  LoopInv'
  OBVIOUS
<1>1. ASSUME NEW wish \in Wishes, NEW size \in Sizes, Ask(wish, size)
      PROVE  LoopInv'
  BY <1>1, AskKeepsInv
<1>2. ASSUME NEW result \in Results, NEW size \in Sizes, Execute(result, size)
      PROVE  LoopInv'
  BY <1>2, ExecuteKeepsInv
<1>3. CASE Keep \/ TryAgain
  BY <1>3, KeepKeepsInv, TryAgainKeepsInv
<1>4. ASSUME NEW r \in Request, Send(r)
      PROVE  LoopInv'
  BY <1>4, SendKeepsInv
<1>5. CASE NotReady
  BY <1>5, FailureKeepsInv DEF NotReady, Errors
<1>6. CASE AnswerTitle
  BY <1>6, TitleKeepsInv
<1>7. CASE Prepare
  BY <1>7, PrepareKeepsInv
<1>8. CASE FirstAnswer
  BY <1>8, ResolveKeepsInv DEF FirstAnswer
<1>9. CASE RepairAnswer
  BY <1>9, RepairKeepsInv DEF RepairAnswer
<1>10. CASE FormatAnswer
  BY <1>10, FormatKeepsInv DEF FormatAnswer
<1>11. CASE TurnFails
  BY <1>11, FailureKeepsInv DEF TurnFails, Errors
<1>12. CASE UNCHANGED loopVars
  <2>1. UNCHANGED <<hist, request, phase, prompt, shown, outcome>>
    BY <1>12 DEF loopVars
  <2>2. OutcomeGood'
    BY <2>1, WaitingIsGood
  <2>3. LoopTypeOK' /\ HistoryIsValid' /\ PromptIsInUse' /\ FormatIsLast' /\ PromptHoldsLast'
    BY <2>1 DEF LoopInv, LoopTypeOK, HistoryIsValid, PromptIsInUse, FormatIsLast, PromptHoldsLast
  <2>. QED  BY <2>2, <2>3 DEF LoopInv
<1>. QED
  BY <1>1, <1>2, <1>3, <1>4, <1>5, <1>6, <1>7, <1>8, <1>9, <1>10, <1>11, <1>12 DEF Next

\* The inductive invariant of the theorems below.
THEOREM LoopInvariant == Spec => []LoopInv
  BY LoopInitInv, LoopNextInv, PTL DEF Spec

\* Histories, prompts and outcomes are what they should be; a call that is
\* handed out has arguments of one of the kinds the model knows.
THEOREM LoopTypeCorrect == Spec => []LoopTypeOK
<1>1. LoopInv => LoopTypeOK
  BY DEF LoopInv
<1>. QED  BY <1>1, LoopInvariant, PTL

\* Whatever the web chat writes, the history that comes of it is refused for nothing
\* but its length.
THEOREM LoopGoesOn == Spec => []LoopNeverRejected
<1>1. LoopInv => LoopNeverRejected
  BY DEF LoopInv, OutcomeGood
<1>. QED  BY <1>1, LoopInvariant, PTL

\* The agent is handed only what it asked for.
THEOREM RequestIsHonoured == Spec => []AnswerHonoursRequest
<1>1. LoopInv => AnswerHonoursRequest
  BY DEF LoopInv, OutcomeGood
<1>. QED  BY <1>1, LoopInvariant, PTL

\* No answer in a notation the gateway looks for is shown unread.
THEOREM NoMarkerIsShown == Spec => []NoMarkerLeaks
<1>1. LoopInv => NoMarkerLeaks
  BY DEF LoopInv, OutcomeGood
<1>. QED  BY <1>1, LoopInvariant, PTL

\* For any budget, any sizes and any limit of a repair, a prompt that is sent fits and
\* ends with the last message, which a repair loses only where it and the epilogue
\* take more than half of the limit.
THEOREM LastMessageIsSent == Spec => []PromptHoldsLast
<1>1. LoopInv => PromptHoldsLast
  BY DEF LoopInv
<1>. QED  BY <1>1, LoopInvariant, PTL

=============================================================================
