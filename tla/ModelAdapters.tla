---------------------------- MODULE ModelAdapters ----------------------------
(***************************************************************************)
(* What the four model adapters make of a conversation with tool calls: the *)
(* provider's answer becomes a message, messages become the next request.   *)
(* The conversation outlives the adapter: a session is resumed under        *)
(* another configuration, and what one adapter read another one writes.     *)
(*                                                                         *)
(* Text, thinking and the system prompt are left out: each adapter passes   *)
(* them on, in its provider's form, in the place they had.                  *)
(***************************************************************************)
EXTENDS Naturals, Sequences, FiniteSets, SequencesExt, Listings

CONSTANTS
    Adapters,   \* of Config.llm.adapter
    Answers,    \* tool calls of one answer: sequences of RawCall
    MaxTalk     \* messages in a conversation

VARIABLES
    adapter,    \* of the running process
    talk,       \* the messages of the short-term memory
    todo,       \* how many calls of the last answer have no result yet
    request,    \* the messages of the last request
    bill        \* tokens of the last answer: as reported, charged and recorded

vars == <<adapter, talk, todo, request, bill>>

RawCall == [id : BOOLEAN, name : BOOLEAN, args : {"object", "broken", "missing"}]

\* Ids: given by the provider, or what stands in for one.
Given(at, nth) == [is |-> "given", at |-> at, nth |-> nth]
Other(is, nth) == [is |-> is, at |-> 0, nth |-> nth]
NoId == Other("none", 0)
Ids == [is : {"given"}, at : 1..MaxTalk, nth : 1..2]
          \union [is : {"none", "name", "blank", "toolu", "tool_call"}, at : {0}, nth : 0..2]

\* Token counts that a provider reports: a total, its parts, or both.
Reports == {"parts", "total", "both"}
Tokens == 2

\* What a user's message shows: nothing special, or an image in a data URI without base64.
Images == {"none", "data"}

User == [role |-> "user", calls |-> <<>>, of |-> NoId, name |-> FALSE, image |-> "none"]
Assistant(calls) == [User EXCEPT !.role = "assistant", !.calls = calls]
Tool(id, name) == [User EXCEPT !.role = "tool", !.of = id, !.name = name]

Calls == [id : Ids, name : BOOLEAN, args : {"object", "raw", "empty"}]
Messages == [role : {"user", "assistant", "tool"}, calls : Seq(Calls), of : Ids, name : BOOLEAN,
             image : Images]

TypeOK ==
    /\ adapter \in Adapters
    /\ Len(talk) <= MaxTalk /\ Range(talk) \subseteq Messages
    /\ todo \in 0..2
    /\ Len(request) <= MaxTalk /\ Range(request) \subseteq Messages
    /\ bill \in [by : Adapters, report : Reports, charged : 0..Tokens,
                recorded : 0..Tokens]

Init ==
    /\ adapter \in Adapters
    /\ talk = <<>> /\ todo = 0 /\ request = <<>>
    /\ bill = [by |-> adapter, report |-> "both", charged |-> Tokens, recorded |-> Tokens]

LastRole == IF talk = <<>> THEN "none" ELSE Last(talk).role

-----------------------------------------------------------------------------
(* From the provider's answer.                                               *)

\* Anthropic parses the input itself; the others hand over JSON text.
ReadArgs(a, args) ==
    CASE args = "object" -> "object"
      [] args = "broken" /\ a # "anthropic" -> "raw"
      [] OTHER -> "empty"

ReadCall(a, at, nth, c) ==
    [id |-> IF c.id THEN Given(at, nth) ELSE NoId, name |-> c.name, args |-> ReadArgs(a, c.args)]

Named(calls) == Taken(calls, {n \in DOMAIN calls : calls[n].name})

AnthropicReads(at, raw) == Named([n \in DOMAIN raw |-> ReadCall("anthropic", at, n, raw[n])])

\* LangChain keeps broken calls apart, and they are read only if all are broken.
OpenAIReads(at, raw) ==
    LET parsed == {n \in DOMAIN raw : raw[n].args # "broken"}
        kept == {n \in DOMAIN raw : parsed = {} \/ n \in parsed}
    IN  Taken([n \in DOMAIN raw |-> ReadCall("openai", at, n, raw[n])], kept)

OpenRouterReads(at, raw) ==
    [n \in DOMAIN raw |-> ReadCall("openrouter", at, n, raw[n])]

HuaweiReads(at, raw) ==
    [n \in DOMAIN raw |-> ReadCall("huawei-modelarts", at, n, raw[n])]

Reads(a, at, raw) ==
    CASE a = "anthropic" -> AnthropicReads(at, raw)
      [] a = "openai" -> OpenAIReads(at, raw)
      [] a = "openrouter" -> OpenRouterReads(at, raw)
      [] a = "huawei-modelarts" -> HuaweiReads(at, raw)

\* A missing number.
Unknown == 9

\* Mutant of AnthropicUsage: the total is looked for, not computed.
AnthropicUsageAsGiven(report) ==
    [parts |-> IF report = "total" THEN Unknown ELSE Tokens,
     total |-> IF report = "parts" THEN Unknown ELSE Tokens]

AnthropicUsage(report) ==
    [parts |-> IF report = "total" THEN Unknown ELSE Tokens, total |-> Tokens]

\* A number that is not reported is a zero for the OpenAI adapter.
OpenAIUsage(report) ==
    [parts |-> IF report = "total" THEN 0 ELSE Tokens,
     total |-> IF report = "parts" THEN 0 ELSE Tokens]

OpenRouterUsage(report) ==
    [parts |-> IF report = "total" THEN Unknown ELSE Tokens,
     total |-> IF report = "parts" THEN Unknown ELSE Tokens]

UsageOf(a, report) ==
    CASE a = "anthropic" -> AnthropicUsage(report)
      [] a = "openai" -> OpenAIUsage(report)
      [] OTHER -> OpenRouterUsage(report)

\* The ReAct and the five-layer agent add the parts up when there is no total ...
ChargedByParts(u) ==
    IF u.total # Unknown THEN u.total ELSE IF u.parts # Unknown THEN u.parts ELSE 0

\* ... the chat agent, and the ReAct agent with a smart context, do not.
ChargedByTotal(u) == IF u.total # Unknown THEN u.total ELSE 0

\* What the five-layer agent counts: a total of zero counts as none.
Recorded(u) ==
    IF u.total \in {0, Unknown} /\ u.parts # Unknown THEN u.parts ELSE u.total

\* What a run's result reports of it: nothing, where nothing was counted.
Summary(recorded) == {recorded} \ {0}

-----------------------------------------------------------------------------
(* To the provider.                                                          *)

WriteCall(c, id) == [c EXCEPT !.id = id]

\* Mutant of AnthropicCalls: every call gets a number.
AnthropicCallsNumbered(calls) ==
    Named([n \in DOMAIN calls |-> WriteCall(calls[n], Other("toolu", n))])

AnthropicCalls(calls) ==
    Named([n \in DOMAIN calls |->
              WriteCall(calls[n], IF calls[n].id = NoId THEN Other("toolu", n) ELSE calls[n].id)])

OpenAICalls(calls) == calls

OpenRouterCalls(calls) == Named(calls)

HuaweiCalls(calls) == Named(calls)

\* A result without an id and a name is sent as "tool_call", or without one.
AnthropicWrites(m) ==
    [m EXCEPT !.calls = AnthropicCalls(@), !.of = IF @.is = "blank" THEN Other("tool_call", 0) ELSE @]

OpenAIWrites(m) ==
    [m EXCEPT !.calls = OpenAICalls(@), !.of = IF @.is = "blank" THEN Other("tool_call", 0) ELSE @]

OpenRouterWrites(m) ==
    [m EXCEPT !.calls = OpenRouterCalls(@), !.of = IF @.is = "blank" THEN NoId ELSE @]

HuaweiWrites(m) ==
    [m EXCEPT !.calls = HuaweiCalls(@), !.of = IF @.is = "blank" THEN NoId ELSE @]

Writes(a, m) ==
    CASE a = "anthropic" -> AnthropicWrites(m)
      [] a = "openai" -> OpenAIWrites(m)
      [] a = "openrouter" -> OpenRouterWrites(m)
      [] a = "huawei-modelarts" -> HuaweiWrites(m)

\* _serialize_inline_image_attachment raises where the others pass the image on.
Writable(a, m) == ~(a = "anthropic" /\ m.image = "data")

-----------------------------------------------------------------------------

\* A task begins; the one before it may have failed without an answer.
UserSays ==
    /\ todo = 0 /\ Len(talk) < MaxTalk
    /\ \E image \in Images : talk' = Append(talk, [User EXCEPT !.image = image])
    /\ UNCHANGED <<adapter, todo, request, bill>>

\* One generate(), when every message can be written.  An answer without calls ends
\* the task.
Generate ==
    /\ LastRole \in {"user", "tool"} /\ todo = 0 /\ Len(talk) < MaxTalk
    /\ \A k \in DOMAIN talk : Writable(adapter, talk[k])
    /\ request' = [k \in DOMAIN talk |-> Writes(adapter, talk[k])]
    /\ \E raw \in Answers :
          LET calls == Reads(adapter, Len(talk) + 1, raw)
          IN  /\ talk' = Append(talk, Assistant(calls))
              /\ todo' = Len(calls)
    /\ \E report \in Reports, charged \in {"parts", "total"} :
          LET usage == UsageOf(adapter, report)
          IN  bill' = [by |-> adapter, report |-> report,
                       charged |-> IF charged = "parts" THEN ChargedByParts(usage)
                                                        ELSE ChargedByTotal(usage),
                       recorded |-> Recorded(usage)]
    /\ UNCHANGED adapter

\* The next call of the answer has run, whatever came of it.
ToolResult ==
    /\ todo > 0 /\ Len(talk) < MaxTalk
    /\ LET asked == Max({k \in DOMAIN talk : talk[k].role = "assistant"})
           calls == talk[asked].calls
           call == calls[Len(calls) - todo + 1]
           id == IF call.id # NoId THEN call.id
                 ELSE Other(IF call.name THEN "name" ELSE "blank", 0)
       IN  talk' = Append(talk, Tool(id, call.name))
    /\ todo' = todo - 1
    /\ UNCHANGED <<adapter, request, bill>>

\* The task is interrupted, or fails, between two results.
Interrupted ==
    /\ todo > 0 /\ todo' = 0
    /\ UNCHANGED <<adapter, talk, request, bill>>

\* The session is resumed by a process with another configuration.
Resume ==
    /\ todo = 0
    /\ \E a \in Adapters \ {adapter} : adapter' = a
    /\ UNCHANGED <<talk, todo, request, bill>>

Next == UserSays \/ Generate \/ ToolResult \/ Interrupted \/ Resume

Spec == Init /\ [][Next]_vars

-----------------------------------------------------------------------------

\* The messages between which a result and its call may lie.
Together(messages, i, j) ==
    /\ i < j /\ messages[i].role = "assistant"
    /\ \A k \in i + 1..j : messages[k].role = "tool"

CallsFor(messages, j) ==
    UNION {{<<i, n>> : n \in {n \in DOMAIN messages[i].calls : messages[i].calls[n].id = messages[j].of}} :
              i \in {i \in DOMAIN messages : Together(messages, i, j)}}

\* A result of a named call that had an id finds that call, and no other one, in
\* every later request, whichever adapters read the call and write it
\* (_normalize_tool_calls, _serialize_messages, _to_langchain_messages).
ResultsKeepTheirCalls ==
    \A j \in DOMAIN request :
        request[j].role = "tool" /\ request[j].of.is = "given" /\ request[j].name =>
            /\ Cardinality(CallsFor(request, j)) = 1
            /\ \A k \in DOMAIN request :
                  k # j /\ request[k].role = "tool" => request[k].of # request[j].of

\* Each agent charges the budget what the answer cost, if the provider says it
\* the way its adapter expects: Anthropic the parts, the others the total too; and
\* the result of a run reports it, however the provider says it
\* (_extract_usage, _usage_total_tokens, _record_token_usage).
TokensCharged ==
    /\ bill.report = "both" \/ (bill.by = "anthropic" /\ bill.report = "parts") =>
          bill.charged = Tokens
    /\ Summary(bill.recorded) = {Tokens}
=============================================================================
