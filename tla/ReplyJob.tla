------------------------------ MODULE ReplyJob ------------------------------
(***************************************************************************)
(* What becomes of one job: handleJob, handleJobInner and the sends of     *)
(* worker.ts, with the plan of packages/core/src/adaptive-reply-plan.ts.   *)
(*                                                                         *)
(* The jobs of a peer run one after the other (module Inbound), so this is *)
(* one job; what runs beside it are its own posts of the typing indicator, *)
(* which nobody waits for.  Each action is a branch up to its next await;  *)
(* a send arrives or fails, and a failed one may have arrived.  What the   *)
(* chat does is module ChatTurn.  Log lines, activity events, delays and   *)
(* the text of anything are left out.                                      *)
(***************************************************************************)
EXTENDS Naturals, Sequences

CONSTANTS
    Jobs,     \* jobs: [client, limited, p2p, preflight, items, text, read]
    Replies   \* what the chat may answer: sequences of "text" and "sticker"

ReplyAssumption == Replies \subseteq Seq({"text", "sticker"})

VARIABLES
    jobIn,     \* the job
    plannedBias, \* replySkipBiasPercent: "off", "mild" or "strong"
    stage,     \* where the job is
    parts,     \* the parts of the reply, as the chat gave them
    next,      \* the part to send next
    posts,     \* history: what arrived at the peer, in order
    counted,   \* how often jobsProcessed, jobsFailed were raised
    asked,     \* history: the chat was asked
    failed,    \* history: a send to the peer failed
    typing,    \* the peer's screen shows the indicator
    starting   \* posts of startTyping under way

jobVars == <<jobIn, plannedBias, stage, parts, next, posts, counted, asked, failed, typing, starting>>

Zero == [processed |-> 0, failed |-> 0]

JobInit ==
    /\ jobIn \in Jobs
    /\ plannedBias \in {"off", "mild", "strong"}
    /\ stage = "begin"
    /\ parts = <<>> /\ next = 1 /\ posts = <<>>
    /\ counted = Zero /\ asked = FALSE /\ failed = FALSE
    /\ typing = FALSE /\ starting = 0
-----------------------------------------------------------------------------
(* planAdaptiveReply *)

SkipsUnfinished == plannedBias = "strong"

\* The messages of the batch that ask for an answer.
Obliged == {i \in DOMAIN jobIn.items : jobIn.items[i] = "request"}

Skips ==
    /\ Obliged = {} /\ plannedBias # "off"
    /\ (\A i \in DOMAIN jobIn.items : jobIn.items[i] = "filler") \/ SkipsUnfinished
-----------------------------------------------------------------------------
Counts(what) == counted' = IF what = "none" THEN counted ELSE [counted EXCEPT ![what] = @ + 1]

Post(what, part) == [what |-> what, part |-> part]

\* A send arrives, fails, or arrives though its answer is lost.
Send(post, ok) ==
    /\ posts' \in IF ok THEN {Append(posts, post)} ELSE {posts, Append(posts, post)}
    /\ failed' = (failed \/ ~ok)

Goes(at) == stage' = at
Quiet == UNCHANGED <<typing, starting>>

NoClient ==
    /\ stage = "begin" /\ ~jobIn.client
    /\ Goes("over") /\ Counts("failed")
    /\ UNCHANGED <<jobIn, plannedBias, parts, next, posts, asked, failed>> /\ Quiet

RateLimited ==
    \E ok \in BOOLEAN :
        /\ stage = "begin" /\ jobIn.client /\ jobIn.limited
        /\ Send(Post("rate", 0), ok)
        /\ Counts(IF ok THEN "processed" ELSE "failed")
        /\ Goes("clear")
        /\ UNCHANGED <<jobIn, plannedBias, parts, next, asked>> /\ Quiet

\* A command of P2P: its replies to the peer and to others.  A local reply
\* that does not get out leaves the rest unsent and the job goes on as chat.
P2PHandled ==
    \E ok \in BOOLEAN :
        /\ stage = "begin" /\ jobIn.client /\ ~jobIn.limited /\ jobIn.p2p
        /\ Send(Post("p2p", 0), ok)
        /\ Goes(IF ok THEN "remote" ELSE "ordinary")
        /\ UNCHANGED <<jobIn, plannedBias, parts, next, counted, asked>> /\ Quiet

\* sendToEndpoint never fails for its caller.
RemoteSends ==
    /\ stage = "remote"
    /\ Goes("clear") /\ Counts("processed")
    /\ UNCHANGED <<jobIn, plannedBias, parts, next, posts, asked, failed>> /\ Quiet

NoP2P ==
    /\ stage = "begin" /\ jobIn.client /\ ~jobIn.limited /\ ~jobIn.p2p
    /\ Goes("ordinary")
    /\ UNCHANGED <<jobIn, plannedBias, parts, next, posts, counted, asked, failed>> /\ Quiet

\* The gate was closed when the message came in; a failing send of its notice
\* escapes, and the job is counted neither way.
Preflight ==
    \E ok \in BOOLEAN :
        /\ stage = "ordinary" /\ jobIn.preflight
        /\ Send(Post("notice", 0), ok)
        /\ Counts(IF ok THEN "processed" ELSE "none")
        /\ Goes("clear")
        /\ UNCHANGED <<jobIn, plannedBias, parts, next, asked>> /\ Quiet

SkipBatch ==
    /\ stage = "ordinary" /\ ~jobIn.preflight /\ Skips
    /\ Goes("clear") /\ Counts("processed")
    /\ UNCHANGED <<jobIn, plannedBias, parts, next, posts, asked, failed>> /\ Quiet

\* buildAttachments: does the model get to see an image?  One that cannot be
\* fetched, or is of no use to it, is only announced.
Attachments == IF jobIn.image THEN BOOLEAN ELSE {FALSE}

Unreadable ==
    \E ok \in BOOLEAN :
        /\ stage = "ordinary" /\ ~jobIn.preflight /\ ~Skips
        /\ ~jobIn.text /\ FALSE \in Attachments
        /\ Send(Post("unreadable", 0), ok)
        /\ Counts(IF ok THEN "processed" ELSE "failed")
        /\ Goes("clear")
        /\ UNCHANGED <<jobIn, plannedBias, parts, next, asked>> /\ Quiet

AskChat ==
    /\ stage = "ordinary" /\ ~jobIn.preflight /\ ~Skips
    /\ jobIn.text \/ TRUE \in Attachments
    /\ Goes("chat")
    /\ asked' = TRUE /\ starting' = starting + 1
    /\ UNCHANGED <<jobIn, plannedBias, parts, next, posts, counted, failed, typing>>

\* The reply; nothing of one with more than four parts is sent.
Chats(r) ==
    /\ stage = "chat"
    /\ parts' = IF Len(r) > 4 THEN <<>> ELSE r
    /\ Goes("parts")
    /\ UNCHANGED <<jobIn, plannedBias, next, posts, counted, asked, failed>> /\ Quiet

\* A rejection is one text; so is what a failed one leads to.
Rejected ==
    \E ok \in BOOLEAN :
        /\ stage = "chat"
        /\ Send(Post("reject", 0), ok)
        /\ Goes(IF ok THEN "clear" ELSE "sorry")
        /\ Counts(IF ok THEN "processed" ELSE "failed")
        /\ UNCHANGED <<jobIn, plannedBias, parts, next, asked>> /\ Quiet

ChatFails ==
    /\ stage = "chat"
    /\ Goes("sorry") /\ Counts("failed") /\ failed' = TRUE
    /\ UNCHANGED <<jobIn, plannedBias, parts, next, posts, asked>> /\ Quiet

\* sendHumanParts asserts the indicator anew before each of several parts.
Announce ==
    /\ stage = "parts" /\ Len(parts) > 1 /\ next <= Len(parts)
    /\ Goes("part") /\ starting' = starting + 1
    /\ UNCHANGED <<jobIn, plannedBias, parts, next, posts, counted, asked, failed, typing>>

AfterFailureGoOn == "parts"

\* What follows a text that did not get out.
AfterFailure == "sorry"

SendText ==
    \E ok \in BOOLEAN :
        /\ stage = "part" \/ (stage = "parts" /\ Len(parts) = 1 /\ next = 1)
        /\ parts[next] = "text"
        /\ Send(Post("part", next), ok)
        /\ next' = next + 1
        /\ Goes(IF ok THEN "parts" ELSE AfterFailure)
        /\ Counts(IF ok THEN "none" ELSE "failed")
        /\ UNCHANGED <<jobIn, plannedBias, parts, asked>> /\ Quiet

\* A sticker that cannot be sent is passed over.
SendSticker ==
    \E ok \in BOOLEAN :
        /\ stage = "part" \/ (stage = "parts" /\ Len(parts) = 1 /\ next = 1)
        /\ parts[next] = "sticker"
        /\ posts' = IF ok THEN Append(posts, Post("part", next)) ELSE posts
        /\ next' = next + 1
        /\ Goes("parts")
        /\ UNCHANGED <<jobIn, plannedBias, parts, counted, asked, failed>> /\ Quiet

AllSent ==
    /\ stage = "parts" /\ next > Len(parts)
    /\ Goes("clear") /\ Counts("processed")
    /\ UNCHANGED <<jobIn, plannedBias, parts, next, posts, asked, failed>> /\ Quiet

Apologize ==
    \E ok \in BOOLEAN :
        /\ stage = "sorry"
        /\ Send(Post("sorry", 0), ok)
        /\ Goes("clear")
        /\ UNCHANGED <<jobIn, plannedBias, parts, next, counted, asked>> /\ Quiet

\* handleJob: whatever happened, the indicator is cleared.
StopTyping ==
    /\ stage = "clear"
    /\ Goes("over")
    /\ typing' = FALSE
    /\ UNCHANGED <<jobIn, plannedBias, parts, next, posts, counted, asked, failed, starting>>

\* startTyping: its ticket is fetched and its post arrives when they do, or fails.
TypingArrives ==
    \E shown \in BOOLEAN :
        /\ starting > 0
        /\ starting' = starting - 1
        /\ typing' = (typing \/ shown)
        /\ UNCHANGED <<jobIn, plannedBias, stage, parts, next, posts, counted, asked, failed>>

JobNext ==
    \/ NoClient \/ RateLimited \/ P2PHandled \/ RemoteSends \/ NoP2P \/ Preflight \/ SkipBatch
    \/ Unreadable \/ AskChat \/ (\E r \in Replies : Chats(r)) \/ Rejected \/ ChatFails
    \/ Announce \/ SendText \/ SendSticker \/ AllSent \/ Apologize
    \/ StopTyping \/ TypingArrives

JobSpec == JobInit /\ [][JobNext]_jobVars
-----------------------------------------------------------------------------
JobTypeOK ==
    /\ jobIn \in Jobs /\ plannedBias \in {"off", "mild", "strong"}
    /\ stage \in {"begin", "remote", "ordinary", "chat", "parts", "part", "sorry", "clear", "over"}
    /\ next \in 1..(Len(parts) + 1) /\ Len(parts) <= 4
    /\ counted \in [{"processed", "failed"} -> 0..1]
    /\ asked \in BOOLEAN /\ failed \in BOOLEAN /\ typing \in BOOLEAN /\ starting \in 0..5

\* The parts that arrive are those of the reply, in its order and none twice;
\* a text is never left out for a later part; an apology comes only after a
\* failure, as the last; a job ends counted once, unless nothing but a notice
\* was due and that failed; and what asks for an answer is not skipped
\* (handleJobInner, sendHumanParts, planAdaptiveReply).
RepliesInOrder ==
    LET sent == {i \in DOMAIN posts : posts[i].what = "part"}
    IN  /\ \A i, j \in sent : i < j => posts[i].part < posts[j].part
        /\ \A i \in sent : \A k \in 1..(posts[i].part - 1) :
              parts[k] = "text" => \E j \in sent : posts[j].part = k
        /\ \A i \in DOMAIN posts : posts[i].what = "sorry" => failed /\ i = Len(posts)
        /\ stage = "over" =>
              \/ counted.processed + counted.failed = 1
              \/ jobIn.preflight /\ failed /\ counted = Zero
        /\ (stage \in {"clear", "over"} /\ jobIn.client /\ ~jobIn.limited /\ ~jobIn.p2p /\ ~jobIn.preflight
              /\ jobIn.text /\ \E i \in DOMAIN jobIn.items : jobIn.items[i] = "request") => asked

\* handleJob: "Every exit path clears the typing indicator."
TypingCleared == (stage = "over" /\ starting = 0) => ~typing

\* p2p-service.ts: "true = worker must NOT call ChatService / LLM".
HandledIsNotChat == jobIn.p2p => ~asked
=============================================================================
