------------------------------ MODULE ToolLoop ------------------------------
(***************************************************************************)
(* One call of the model: chatWithUsage of packages/llm/src/client.ts.     *)
(*                                                                         *)
(* The model is asked, runs tools, and is asked again with their results,  *)
(* for a bounded number of rounds.  An upstream rejects a conversation in  *)
(* which a tool call has no answer, so the messages must be right each     *)
(* time it is asked.  A message is its role and the id of the tool call it *)
(* is or answers; temperatures, models and tokens per completion are left  *)
(* out.                                                                    *)
(***************************************************************************)
EXTENDS Naturals, Sequences, SequencesExt

CONSTANTS
    MaxRounds,     \* maxToolRounds
    MaxCalls,      \* bound: tool calls in one completion
    ToolSets       \* the tools callers offer: sets of ToolNames

ToolNames == {"get_current_time", "web_search"}

ToolLoopAssumption ==
    MaxRounds \in Nat /\ MaxCalls \in Nat /\ ToolSets \subseteq SUBSET ToolNames

VARIABLES
    offered,   \* the tools of this call
    messages,  \* apiMessages
    round,
    calls,     \* tool calls of the last completion still to run
    at,        \* "ask", "answered" (a completion came), "tools" or how it ended
    content,   \* the text of the last completion: "empty" or "text"
    used,      \* completions counted in the tokens
    billable   \* history: completions the model was paid for

toolVars == <<offered, messages, round, calls, at, content, used, billable>>

Msg(role, ids) == [role |-> role, ids |-> ids]

ToolInit ==
    /\ offered \in ToolSets
    /\ messages = <<Msg("user", {})>>
    /\ round = 0 /\ calls = <<>> /\ at = "ask" /\ content = "empty"
    /\ used = 0 /\ billable = 0

\* createCompletion, directly or by way of the tools gateway: it fails, or
\* times out after the model has been paid, or answers.
AskFails ==
    \E paid \in {0, 1} :
        /\ at = "ask"
        /\ at' = "threw" /\ billable' = billable + paid
        /\ UNCHANGED <<offered, messages, round, calls, content, used>>

Completion(n) ==
    \E text \in {"empty", "text"} :
        /\ at = "ask"
        /\ at' = "answered" /\ content' = text
        /\ calls' = [i \in 1..n |-> <<round, i>>]
        /\ billable' = billable + 1 /\ used' = used + 1
        /\ UNCHANGED <<offered, messages, round>>

NoChoice ==
    /\ at = "ask"
    /\ at' = "threw" /\ billable' = billable + 1 /\ used' = used + 1
    /\ UNCHANGED <<offered, messages, round, calls, content>>

\* A model may call tools it was not offered, and go on calling in the last
\* round; neither is heeded.
RunsTools == offered # {} /\ calls # <<>> /\ round < MaxRounds

CallTools ==
    /\ at = "answered" /\ RunsTools
    /\ at' = "tools"
    /\ messages' = Append(messages, Msg("assistant", ToSet(calls)))
    /\ UNCHANGED <<offered, round, calls, content, used, billable>>

FirstResult(id) == IF id[2] = 1 THEN <<Msg("tool", {id})>> ELSE <<>>

\* What runBuiltinTool returns is a result or an error, never a failure, also
\* for a tool that does not exist.
ToolResult(id) == <<Msg("tool", {id})>>

RunBuiltinTool ==
    /\ at = "tools" /\ calls # <<>>
    /\ messages' = messages \o ToolResult(Head(calls))
    /\ calls' = Tail(calls)
    /\ UNCHANGED <<offered, round, at, content, used, billable>>

NextRound ==
    /\ at = "tools" /\ calls = <<>>
    /\ round' = round + 1
    /\ at' = IF round + 1 <= MaxRounds THEN "ask" ELSE "threw"
    /\ UNCHANGED <<offered, messages, calls, content, used, billable>>

Returns ==
    /\ at = "answered" /\ ~RunsTools
    /\ at' = IF content = "empty" THEN "threw" ELSE "returned"
    /\ UNCHANGED <<offered, messages, round, calls, content, used, billable>>

ToolNext ==
    \/ AskFails
    \/ \E n \in 0..MaxCalls : Completion(n)
    \/ NoChoice
    \/ CallTools
    \/ RunBuiltinTool
    \/ NextRound
    \/ Returns

ToolSpec == ToolInit /\ [][ToolNext]_toolVars
-----------------------------------------------------------------------------
ToolTypeOK ==
    /\ offered \subseteq ToolNames
    /\ round \in 0..(MaxRounds + 1)
    /\ at \in {"ask", "answered", "tools", "threw", "returned"}
    /\ content \in {"empty", "text"}
    /\ used \in 0..(MaxRounds + 1) /\ billable \in 0..(MaxRounds + 1)

\* Whenever the model is asked, each tool call of the conversation has been
\* answered, once and before the next turn of the model; it is asked at most
\* MaxRounds + 1 times; and a reply is returned only with every completion
\* it took in its token count (chatWithUsage, runBuiltinTool).
CallsAnswered ==
    LET n == Len(messages)
        Asking(i) == messages[i].role = "assistant"
        Answers(i, id) == {j \in (i + 1)..n : messages[j] = Msg("tool", {id})}
    IN  /\ at = "ask" =>
              \A i \in 1..n : Asking(i) =>
                  \A id \in messages[i].ids :
                      \E j \in Answers(i, id) :
                          /\ Answers(i, id) = {j}
                          /\ \A k \in (i + 1)..(j - 1) : ~Asking(k)
        /\ billable <= MaxRounds + 1
        /\ at = "returned" => used = billable /\ content = "text"
=============================================================================
