----------------------------- MODULE AgentLoop -----------------------------
(***************************************************************************)
(* An agent works through the gateway: it sends its whole history, gets    *)
(* back a tool call or a text, executes the call itself, appends call and  *)
(* result to the history and sends it again (api/validation.py, the chat   *)
(* route of main.py, providers/legacy.py, protocol.py, normalizer.py and   *)
(* recovery.py).                                                           *)
(*                                                                         *)
(* Between the two lies a web chat that knows no tools.  The gateway cuts  *)
(* the history to a budget, writes it out as one prompt, looks in what the *)
(* site answers for a tool call in one of several notations, and asks once *)
(* more, with what is left of that prompt after another cut, when the      *)
(* answer is empty or its call is broken.                                  *)
(*                                                                         *)
(* Of a message the model keeps its role, its size, the identifier that    *)
(* ties a result to its call, and what the gateway looks for in its text.  *)
(* A size is in units of 512 characters.  The turns of the web chat and    *)
(* what may go wrong in them are the subject of ProviderTurn.              *)
(***************************************************************************)
EXTENDS Integers, Sequences, SequencesExt

CONSTANTS
  Offers,     \* the sets of tools an agent may come with
  Sizes,      \* the sizes of messages of agents and users
  InputLimit, \* limits.max_input_chars
  Budget,     \* context_budget_chars of the model
  RepairLimit, \* _REPAIR_CONTEXT_LIMIT
  Wording,    \* the protocol text and schemas a prompt with tools carries
  MaxHistory  \* bound: messages in the agent's history

ASSUME AgentLoopAssumption ==
  /\ Sizes \subseteq Nat \ {0}
  /\ InputLimit \in Nat
  /\ Budget \in Nat
  /\ RepairLimit \in Nat
  /\ Wording \in Nat
  /\ MaxHistory \in Nat

VARIABLES
  hist,     \* the agent's messages
  request,  \* what the agent asks besides them
  phase,    \* how far the request is
  prompt,   \* the messages the web chat is given
  shown,    \* which of them the text it is working on holds, none left out
  outcome   \* how the last request ended

loopVars == <<hist, request, phase, prompt, shown, outcome>>

\* What a call does, and the tool it names: Browser actions are reached through
\* the tool called tool_call; "other" is no tool of any agent.
Acts == {"exec", "open", "act", "other"}

ToolOf(act) == IF act \in {"open", "act"} THEN "tool_call" ELSE act

\* Arguments of a call: a JSON object, the empty object, or none.
Arguments == {"object", "empty", "none"}

\* What the texts of the web chat and the gateway's own texts are like: prose,
\* a JSON value, nothing at all, the greeting of a fresh session, a sentence
\* about a tool that does not exist, a marker that is no call, a call in a form
\* nobody takes for one; the gateway's claim that the Browser did what was asked,
\* and its note that no call came.
Texts == {"prose", "json", "blank", "greeting", "unknown", "marker", "raw", "claim", "blocker"}

\* What a user asks for: text typed in a search field, or something else.
Wishes == {"browse", "other"}

Results == {"ok", "failed"}

Message == [role : {"user", "call", "text", "tool"},
            what : Acts \cup Texts \cup Wishes \cup Results,
            args : Arguments,
            id   : Nat,
            size : Nat \ {0}]

ToolChoices == {"auto", "none", "required", "named"}

Errors ==
  {"invalid", "notready", "context", "failed", "unrepaired", "nocall", "notjson", "toolong"}

Outcome == [kind : {"none", "call", "text", "error"},
            what : {"none"} \cup Acts \cup Texts \cup Errors,
            args : Arguments]

NoOutcome == [kind |-> "none", what |-> "none", args |-> "none"]

\* A system message may ask for the title of the session.
Request == [offered : Offers \cup {{}}, choice : ToolChoices, structured : BOOLEAN,
            title : BOOLEAN]

NoRequest == [offered |-> {}, choice |-> "auto", structured |-> FALSE, title |-> FALSE]

NoPrompt == [kept |-> <<>>, ledger |-> 0]

LoopTypeOK ==
  /\ hist \in Seq(Message)
  /\ request \in Request
  /\ phase \in {"idle", "received", "asked", "repair", "format"}
  /\ prompt \in [kept : Seq(Message), ledger : Nat]
  /\ shown \subseteq DOMAIN prompt.kept
  /\ outcome \in Outcome

-----------------------------------------------------------------------------
(* Validation of a history.                                                *)

\* Mutant: a result leaves its call pending.
ResultsIgnored(ms, k) == {ms[i].id : i \in {j \in 1 .. k : ms[j].role = "call"}}

\* The calls of the first k messages that none of them answers (pending).
OpenCalls(ms, k) ==
  {ms[i].id : i \in {j \in 1 .. k :
     /\ ms[j].role = "call"
     /\ \A n \in j + 1 .. k : ~(ms[n].role = "tool" /\ ms[n].id = ms[j].id)}}

\* normalize_tool_calls: the arguments must be a JSON object.
CallIsNormal(m) == m.args # "none"

\* validate_chat, as far as it looks at the history.
ValidHistory(ms) ==
  /\ ms # <<>>
  /\ \A k \in 1 .. Len(ms) :
       CASE ms[k].role = "call" -> CallIsNormal(ms[k]) /\ ms[k].id \notin OpenCalls(ms, k - 1)
         [] ms[k].role = "tool" -> ms[k].id \in OpenCalls(ms, k - 1)
         [] OTHER               -> OpenCalls(ms, k - 1) = {}
  /\ OpenCalls(ms, Len(ms)) = {}

\* A message costs its text and one unit of framing, in JSON as in the prompt.
Weight(ms) == FoldSeq(LAMBDA m, total : total + m.size + 1, 0, ms)

\* validate_input_limit: what was said so far, but for the calls, which have no text.
TooLong(ms) ==
  FoldSeq(LAMBDA m, total : total + (IF m.role = "call" THEN 0 ELSE m.size), 0, ms) > InputLimit

\* A named choice names a supplied tool, here tool_call.
ValidRequest(r) ==
  /\ r.choice = "named" => "tool_call" \in r.offered
  /\ r.choice = "required" => r.offered # {}
  /\ r.structured => r.offered = {}

-----------------------------------------------------------------------------
(* The prompt.                                                             *)

\* Mutant: every tool that was offered.
EveryTool(r) == r.offered

\* The tools the model may call: none, one, or all that were offered.
Tools(r) == CASE r.choice = "none"  -> {}
              [] r.choice = "named" -> r.offered \cap {"tool_call"}
              [] OTHER              -> r.offered

CallRequired(r) == r.choice \in {"required", "named"}

AtLeast(a, b) == IF a < b THEN b ELSE a

AtMost(a, b) == IF a < b THEN a ELSE b

ResultBound == AtLeast(1, AtMost(16, Budget \div 8))

Window == AtLeast(2, Budget \div 2)

\* bound_tool_results.  Evidence that an excerpt drops counts as a failed result.
Bounded(m) == IF m.role = "tool" THEN [m EXCEPT !.size = AtMost(m.size, ResultBound)] ELSE m

\* What a prompt says after its messages: how to work, and the tools there are.
Epilogue(tools) == IF tools = {} THEN 1 ELSE Wording

PromptSize(ms, ledger, tools) == Weight(ms) + ledger + Epilogue(tools)

\* Mutant: the oldest messages that fit are kept.
HeadThatFits(ms) ==
  LET fits == {k \in 0 .. Len(ms) : Weight(SubSeq(ms, 1, k)) <= Window}
      last == CHOOSE k \in fits : \A j \in fits : j <= k
  IN [kept |-> SubSeq(ms, 1, last), ledger |-> Len(ms) - last]

\* compact_messages: the longest tail that fits the window, and for each message
\* before it an entry in a ledger.
TailThatFits(ms) ==
  LET fits  == {k \in 1 .. Len(ms) + 1 :
                  k = Len(ms) + 1 \/ Weight(SubSeq(ms, k, Len(ms))) <= Window}
      first == CHOOSE k \in fits : \A j \in fits : k <= j
  IN [kept |-> SubSeq(ms, first, Len(ms)), ledger |-> first - 1]

Fits(p, tools) == PromptSize(p.kept, p.ledger, tools) <= Budget

\* What infer_legacy sends: the bounded history, or a compacted one.
Prepared(ms, tools) ==
  LET all == [kept |-> [k \in 1 .. Len(ms) |-> Bounded(ms[k])], ledger |-> 0]
  IN IF Fits(all, tools) THEN all ELSE TailThatFits(all.kept)

\* _compact_context: the prompt of a repair is the first one, of which only the two
\* ends are left when it is too long.  The ledger comes first and the epilogue last.
RepairKeeps(p, tools) ==
  LET half == RepairLimit \div 2 IN
  {k \in DOMAIN p.kept :
     \/ PromptSize(p.kept, p.ledger, tools) <= RepairLimit
     \/ p.ledger + Weight(SubSeq(p.kept, 1, k)) <= half
     \/ Weight(SubSeq(p.kept, k, Len(p.kept))) + Epilogue(tools) <= half}

-----------------------------------------------------------------------------
(* What a web chat answers, and the call that is found in it.              *)

\* The notations of a call: the gateway's own marker, a DSML invocation with
\* parameters, the same in plain tags, DeepSeek's tokens or Action lines, and a
\* bare JSON object.
Notations == {"marker", "invoke", "plain", "tokens", "bare"}

\* How its arguments are written: an object, a string that holds one, such a
\* string with the quotes in it unescaped, an object whose strings hold unescaped
\* quotes, or the beginning of an object where the answer breaks off.
Writings == {"object", "quoted", "unescaped", "broken", "cut"}

\* An answer: a text, or a call in some notation.
Answers ==
  [call : {FALSE}, what : Texts \ {"raw", "claim", "blocker"}, notation : {"bare"}, args : {"object"}]
    \cup [call : {TRUE}, what : Acts, notation : Notations, args : Writings]

\* _normalize_tool_arguments: what is not an object becomes the empty one.
NormalArguments(written) == IF written = "object" THEN "object" ELSE "empty"

\* The arguments that _extract_tool_calls reads, "none" where it finds no call: in
\* a marker any JSON will do, parameters always make an object.
ReadCurrent(a) ==
  CASE a.notation = "marker" /\ a.args \in {"object", "quoted"} -> NormalArguments(a.args)
    [] a.notation = "tokens" /\ a.args = "object"              -> "object"
    [] a.notation = "invoke" /\ a.args # "cut"                 -> "object"
    [] OTHER                                                   -> "none"

\* And _extract_tool_call_legacy, which is asked when nothing was found: a string
\* of arguments is read, a marker is mended where an object can be made out in it,
\* or where the fields of the tool are known.
ReadLegacy(a) ==
  CASE a.notation = "marker" /\ a.args = "broken" -> IF a.what = "exec" THEN "object" ELSE "none"
    [] a.notation = "marker" /\ a.args \notin {"broken", "cut"} -> "object"
    [] a.notation = "plain" /\ a.args # "cut" -> "object"
    [] a.notation = "bare" /\ a.args \in {"object", "quoted"} -> "object"
    [] OTHER -> "none"

\* Mutant: arguments are handed out as they were written.
ArgumentsWritten(a) == a.args

ArgumentsRead(a) == IF ReadCurrent(a) # "none" THEN ReadCurrent(a) ELSE ReadLegacy(a)

\* Only a listed tool can be called.
CallFound(a, tools) == a.call /\ ToolOf(a.what) \in tools /\ ArgumentsRead(a) # "none"

\* The notations _has_known_tool_marker looks for.
KnownMarkers == {"marker", "invoke", "tokens"}

\* normalize_with_status: what is visible where no call was found.  A bare object
\* is an ordinary JSON answer.  Nothing tells a call in plain tags, or what is
\* left of a bare object, from prose.
Visible(a) ==
  CASE ~a.call                                                          -> a.what
    [] a.call /\ a.notation \in KnownMarkers                            -> "marker"
    [] a.call /\ a.notation = "bare" /\ a.args \in {"object", "quoted"} -> "json"
    [] OTHER                                                            -> "raw"

\* The status UNRESOLVED_MARKER; without tools a marker is ordinary text.
Unresolved(text, tools) == text = "marker" /\ tools # {}

NeedsRepair(text, tools) ==
  \/ Unresolved(text, tools)
  \/ text = "blank"
  \/ text = "greeting" /\ tools # {}
  \/ text = "unknown"

-----------------------------------------------------------------------------
(* The Browser step that is known without the model.                       *)

\* Some call of that kind succeeded, whichever request of the user it served.
Succeeded(ms, act) ==
  \E i \in DOMAIN ms, j \in DOMAIN ms :
    /\ ms[i].role = "call" /\ ms[i].what = act /\ ms[i].args = "object"
    /\ ms[j].role = "tool" /\ ms[j].id = ms[i].id /\ ms[j].what = "ok"

Wished(ms) == \E i \in DOMAIN ms : ms[i].role = "user" /\ ms[i].what = "browse"

\* _openclaw_browser_continuation: the text was entered, or the page is open and
\* the text comes next.
Continuation(ms, tools) ==
  IF "tool_call" \in tools /\ Wished(ms)
  THEN CASE Succeeded(ms, "act")                           -> "final"
         [] Succeeded(ms, "open") /\ ~Succeeded(ms, "act") -> "tool"
         [] OTHER                                          -> "none"
  ELSE "none"

-----------------------------------------------------------------------------
(* How a request ends.                                                     *)

\* The prompt is forgotten with the request.
Ends(o) == outcome' = o /\ phase' = "idle" /\ prompt' = NoPrompt /\ shown' = {}

\* The web chat is asked something, with these messages of the prompt in the text.
Asks(step, messages) == phase' = step /\ shown' = messages /\ UNCHANGED <<prompt, outcome>>

Fails(error) == Ends([kind |-> "error", what |-> error, args |-> "none"])

GiveCall(act, args) == Ends([kind |-> "call", what |-> act, args |-> args])

\* A text may be longer than limits.max_output_chars allows (_enforce_output_limit).
GiveText(text) ==
  \/ Ends([kind |-> "text", what |-> text, args |-> "none"])
  \/ Fails("toolong")

\* _infer_structured: output that is no JSON is repaired, unless it is too long.  The
\* repair is given that output and nothing of the history.
InferStructured(text) ==
  CASE ~request.structured \/ text = "json"      -> GiveText(text)
    [] request.structured /\ text # "json"       ->
         \/ text \notin {"greeting", "blocker"} /\ Fails("notjson")
         \/ Asks("format", {})

\* The end of infer_legacy for a text, which holds no call when it is read again.
InferText(text) == IF CallRequired(request) THEN Fails("nocall") ELSE InferStructured(text)

-----------------------------------------------------------------------------
(* The agent.                                                              *)

\* What the agent adds to its history is the matter of a new request.
Add(messages) ==
  /\ hist' = hist \o messages
  /\ request' = NoRequest
  /\ outcome' = NoOutcome
  /\ UNCHANGED <<phase, prompt, shown>>

\* The user says something, perhaps before the last answer arrived.
Ask(wish, size) ==
  /\ phase = "idle"
  /\ Len(hist) < MaxHistory
  /\ Add(<<[role |-> "user", what |-> wish, args |-> "none", id |-> 0, size |-> size]>>)

\* The identifier of a call is a fresh uuid: no earlier call of the history has it.
FreshId == Len(hist) + 1

\* The agent executes the call it was given and keeps call and result.
Execute(result, size) ==
  /\ phase = "idle"
  /\ outcome.kind = "call"
  /\ Len(hist) + 2 <= MaxHistory
  /\ Add(<<[role |-> "call", what |-> outcome.what, args |-> outcome.args, id |-> FreshId, size |-> 1],
           [role |-> "tool", what |-> result, args |-> "none", id |-> FreshId, size |-> size]>>)

\* The agent keeps the text it was given; what it says no longer matters.
Keep ==
  /\ phase = "idle"
  /\ outcome.kind = "text"
  /\ Len(hist) < MaxHistory
  /\ Add(<<[role |-> "text", what |-> "prose", args |-> "none", id |-> 0, size |-> 1]>>)

\* After an error the agent may send the same history again.
TryAgain ==
  /\ phase = "idle"
  /\ outcome.kind = "error"
  /\ Add(<<>>)

\* The agent sends its history; chat_completion validates it.
Send(r) ==
  /\ phase = "idle"
  /\ outcome.kind = "none"
  /\ hist # <<>>
  /\ request' = r
  /\ IF ValidRequest(r) /\ ValidHistory(hist) /\ ~TooLong(hist)
     THEN phase' = "received" /\ outcome' = NoOutcome /\ UNCHANGED <<prompt, shown>>
     ELSE Fails("invalid")
  /\ UNCHANGED hist

-----------------------------------------------------------------------------
(* The gateway.                                                            *)

\* _require_provider_ready.
NotReady ==
  /\ phase = "received"
  /\ Fails("notready")
  /\ UNCHANGED <<hist, request>>

\* _local_title: the beginning of what a user said, whatever else was asked for.
AnswerTitle ==
  /\ phase = "received"
  /\ request.title
  /\ GiveText("prose")
  /\ UNCHANGED <<hist, request>>

\* infer_legacy up to the await: a prompt within the budget, or an error.
Prepare ==
  LET p == Prepared(hist, Tools(request)) IN
  /\ phase = "received"
  /\ ~request.title
  /\ IF p.kept = <<>> \/ ~Fits(p, Tools(request))
     THEN Fails("context")
     ELSE phase' = "asked" /\ prompt' = p /\ shown' = DOMAIN p.kept /\ UNCHANGED outcome
  /\ UNCHANGED <<hist, request>>

\* ToolCallRecovery.resolve with the first answer.
Resolve(a) ==
  LET tools == Tools(request)
      next  == Continuation(prompt.kept, tools)
  IN CASE next = "final"                        -> InferText("claim")
       [] next # "final" /\ CallFound(a, tools) -> GiveCall(a.what, ArgumentsRead(a))
       [] next # "final" /\ ~CallFound(a, tools) ->
            CASE ~NeedsRepair(Visible(a), tools) -> InferText(Visible(a))
              [] next = "tool" /\ NeedsRepair(Visible(a), tools) -> GiveCall("act", "object")
              [] OTHER -> Asks("repair", RepairKeeps(prompt, tools))

FirstAnswer ==
  /\ phase = "asked"
  /\ \E a \in Answers : Resolve(a)
  /\ UNCHANGED <<hist, request>>

\* Mutant: an answer to a repair is handed out as it is.
BelieveRepair(a) ==
  IF CallFound(a, Tools(request)) THEN GiveCall(a.what, ArgumentsRead(a)) ELSE InferText(Visible(a))

\* ToolCallRecovery.resolve with the answer to its one repair, which is asked in
\* a chat of its own.
ResolveRepair(a) ==
  LET text == Visible(a) IN
  CASE CallFound(a, Tools(request))                  -> GiveCall(a.what, ArgumentsRead(a))
    [] ~CallFound(a, Tools(request)) /\ text = "blank" -> Fails("unrepaired")
    [] OTHER -> InferText(IF Unresolved(text, Tools(request)) \/ text = "unknown"
                         THEN "blocker" ELSE text)

RepairAnswer ==
  /\ phase = "repair"
  /\ \E a \in Answers : ResolveRepair(a)
  /\ UNCHANGED <<hist, request>>

\* The end of _infer_structured.
CheckFormat(a) ==
  IF Visible(a) = "json"
  THEN GiveText("json")
  ELSE Fails("notjson")

FormatAnswer ==
  /\ phase = "format"
  /\ \E a \in Answers : CheckFormat(a)
  /\ UNCHANGED <<hist, request>>

\* Any failure of a turn ends the request.
TurnFails ==
  /\ phase \in {"asked", "repair", "format"}
  /\ Fails("failed")
  /\ UNCHANGED <<hist, request>>

-----------------------------------------------------------------------------

Init ==
  /\ hist = <<>>
  /\ request = NoRequest
  /\ phase = "idle"
  /\ prompt = NoPrompt
  /\ shown = {}
  /\ outcome = NoOutcome

Next ==
  \/ \E wish \in Wishes, size \in Sizes : Ask(wish, size)
  \/ \E result \in Results, size \in Sizes : Execute(result, size)
  \/ Keep \/ TryAgain
  \/ \E r \in Request : Send(r)
  \/ NotReady \/ AnswerTitle \/ Prepare
  \/ FirstAnswer \/ RepairAnswer \/ FormatAnswer
  \/ TurnFails

Spec == Init /\ [][Next]_loopVars

-----------------------------------------------------------------------------
(* Properties.                                                             *)

\* A history made of the gateway's own calls, answered one by one, is refused for
\* its length alone: the calls it hands out come back in a form that validate_chat
\* accepts, whatever notation the model used for them.
LoopNeverRejected == outcome.what = "invalid" => ~ValidRequest(request) \/ TooLong(hist)

\* What the gateway hands out is what the agent asked for: a call names a tool
\* that was offered and that its choice allows, a required call is never
\* answered by a text, and structured output is valid.  Only the title of a
\* session is a text whatever was asked for.
AnswerHonoursRequest ==
  /\ outcome.kind = "call" => /\ ToolOf(outcome.what) \in request.offered
                              /\ request.choice # "none"
                              /\ request.choice = "named" => ToolOf(outcome.what) = "tool_call"
  /\ outcome.kind = "text" => \/ request.title
                              \/ /\ ~CallRequired(request)
                                 /\ request.structured => outcome.what = "json"

\* With tools at hand no answer shows the agent a marker the gateway knows, and none
\* shows it a complaint about a tool or nothing at all, as if it were the model's
\* final word.  Calls in plain tags and bare objects, when they name no listed tool
\* or break off, are no such marker: they are shown as they were written.
NoMarkerLeaks ==
  outcome.kind = "text" => /\ outcome.what \notin {"blank", "unknown"}
                           /\ Tools(request) # {} => outcome.what # "marker"

\* A prompt that is sent keeps within the budget, and however much of the history
\* is compacted, it ends in the message the agent sent last.  A repair is shown
\* that message too, unless the prompt is longer than a repair may be and the
\* message with the epilogue behind it takes more than half of that.
PromptHoldsLast ==
  prompt # NoPrompt =>
    LET end == Len(prompt.kept)
        tools == Tools(request)
    IN /\ Fits(prompt, tools)
       /\ prompt.kept # <<>>
       /\ prompt.kept[end].role = Last(hist).role
       /\ prompt.kept[end].what = Last(hist).what
       /\ prompt.kept[end].id = Last(hist).id
       /\ phase = "asked" => end \in shown
       /\ phase = "repair" =>
            \/ end \in shown
            \/ /\ ~(PromptSize(prompt.kept, prompt.ledger, tools) <= RepairLimit)
               /\ ~(Weight(SubSeq(prompt.kept, end, end)) + Epilogue(tools) <= RepairLimit \div 2)

=============================================================================
