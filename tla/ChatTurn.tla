------------------------------ MODULE ChatTurn ------------------------------
(***************************************************************************)
(* One peer of one bot: the turns of ChatService (chat-service.ts), the    *)
(* nudges of the proactive scheduler (proactive-scheduler.ts), the owner's *)
(* requests about the peer, and the peer row they all read, change a copy  *)
(* of and write back (repos.ts, "Peers / assignments").                    *)
(*                                                                         *)
(* On a node the closures of a peer run one after the other on its chain   *)
(* (enqueuePeerChain); the scheduler computes whether the peer may be      *)
(* nudged BEFORE it takes the lock and waits for the chain, and not again. *)
(* The bot may move to another node while closures run on the first.       *)
(*                                                                         *)
(* Time is a counter of hours.  A peer is idle, the interval is over and   *)
(* the cooldown is over when at least one hour went by.  What a model      *)
(* answers is a grade: the quality check of a draft finds nothing ("good"),*)
(* something ("poor"), more ("bad"), or the draft has nothing to send      *)
(* ("empty").  Quiet hours, the switch of the bot (on), captions, prompts, *)
(* history, memories and stickers are left out.                            *)
(*                                                                         *)
(* Redis, the model and the gateway may fail at every step: a write that   *)
(* failed may have been made, and a send that failed may have delivered.   *)
(***************************************************************************)
EXTENDS Integers

CONSTANTS
    Nodes,
    MaxPerDay,   \* cap of nudges in a day
    DayHours,    \* hours in a day
    MaxClock,    \* bound: the last hour
    MaxInputs,   \* bound: messages of the peer, scans that look at it, requests of owners
    Requests,    \* the requests that may be under way at once
    MaxUpsets,   \* bound: moves of the bot to another node, crashes of a node, lapses
    Allows,      \* what allowUnapproved may be when a gate reads it
    NoRow

VARIABLES
    peerRow,   \* K.peer
    inIndex,   \* the peer is in K.proactivePeersByBot
    token,     \* K.contextToken is set
    dayCount,  \* K.proactiveDayCount, by day
    locked,    \* K.proactiveLock is set
    home,      \* the node that polls the bot
    chain,     \* by node, the closure that runs on the peer's chain
    scan,      \* by node, the scheduler's tick
    ask,       \* the owner's requests, by request
    clock,
    inputs, upsets,  \* bounded counters
    granted,   \* history: the owner's approval was acknowledged
    stale,     \* history: an approval was written while a copy from before was about
    nudged,    \* history: nudges sent, by day
    owed       \* history: calls of a model that were not billed (less those billed stale)

chatVars == <<peerRow, inIndex, token, dayCount, locked, home, chain, scan, ask, clock,
              inputs, upsets, granted, stale, nudged, owed>>

Hours == 0 .. MaxClock
Days == {h \div DayHours : h \in Hours}
Today == clock \div DayHours
Never == -1
PeerRows == [approved : BOOLEAN, wanted : BOOLEAN, active : Hours,
             sentAt : Hours \cup {Never}, triedAt : Hours \cup {Never}]

ChatAssumption ==
    /\ MaxPerDay \in Nat \ {0} /\ DayHours \in Nat \ {0}
    /\ {MaxClock, MaxInputs, MaxUpsets} \subseteq Nat
    /\ Allows # {} /\ Allows \subseteq BOOLEAN
    /\ NoRow \notin PeerRows

NewPeer == [approved |-> FALSE, wanted |-> FALSE, active |-> clock,
            sentAt |-> Never, triedAt |-> Never]
Drafts == {"good", "poor", "bad", "empty"}
Free == [work |-> "none", at |-> "end", got |-> NoRow]
NoScan == "idle"
NoAsk == [what |-> "none", at |-> "end", got |-> NoRow]

Score(draft) == CASE draft = "poor" -> 1 [] draft = "bad" -> 3 [] OTHER -> 0
\* A repaired draft replaces the first if it can be sent and is better.
Better(new, old) == new # "empty" /\ Score(new) < Score(old)
Repaired(flow, draft) == ~flow /\ Score(draft) > 0

\* The prompt mode bills each call as it returns (callPromptLlm) ...
BilledCalls(flow, first) == IF flow THEN 0 ELSE IF Repaired(flow, first) THEN 2 ELSE 1
\* ... and what a graph used is billed when the turn gets to its end.
BilledAtEnd(flow) == IF flow THEN 1 ELSE 0

\* Faulty form: off by one at the cap.
UnderCapInclusive == dayCount[Today] <= MaxPerDay
UnderCap == dayCount[Today] < MaxPerDay
Eligible ==
    /\ peerRow # NoRow /\ peerRow.approved /\ peerRow.wanted /\ token
    /\ UnderCap
    /\ peerRow.active < clock /\ peerRow.sentAt < clock
    /\ peerRow.triedAt > peerRow.sentAt => peerRow.triedAt < clock

Gate(row, allowUnapproved) == row.approved \/ allowUnapproved
Touched(row) == [row EXCEPT !.active = clock]

\* A closure or a request that may yet write an unapproved row: it found none
\* and makes it, or has a copy that is not approved.
Behind(q) == q.at = "create" \/ (q.got # NoRow /\ ~q.got.approved)
-----------------------------------------------------------------------------
Init ==
    /\ clock = 0
    /\ peerRow \in {NoRow, [NewPeer EXCEPT !.approved = TRUE, !.wanted = TRUE]}
    /\ inIndex = (peerRow # NoRow) /\ token = inIndex /\ granted = inIndex
    /\ dayCount = [d \in Days |-> 0] /\ nudged = dayCount
    /\ locked = FALSE
    /\ home \in Nodes
    /\ chain = [n \in Nodes |-> Free] /\ scan = [n \in Nodes |-> NoScan]
    /\ ask = [a \in Requests |-> NoAsk]
    /\ inputs = 0 /\ upsets = 0
    /\ stale = FALSE /\ owed = [graph |-> 0, rest |-> 0]

Grounds == <<clock, home, ask, upsets, granted>>
On(n, work, at) == chain[n].work = work /\ chain[n].at = at
Now(n, closure) == chain' = [chain EXCEPT ![n] = closure]
-----------------------------------------------------------------------------
(* handleJob stores the context token; handleInbound makes or reads the    *)
(* row and turns an unapproved peer away.                                  *)
Arrive(n) ==
    /\ n = home /\ chain[n] = Free /\ inputs < MaxInputs
    /\ inputs' = inputs + 1
    /\ token' = TRUE
    /\ IF peerRow = NoRow
       THEN Now(n, [Free EXCEPT !.work = "turn", !.at = "create"])
       ELSE \E allow \in Allows :
              Now(n, IF Gate(peerRow, allow)
                     THEN [work |-> "turn", at |-> "store", got |-> peerRow] ELSE Free)
    /\ UNCHANGED <<Grounds, peerRow, inIndex, dayCount, locked, scan, stale, nudged,
                   owed>>

(* ensurePeer writes the row of the new peer, whatever is there by now.    *)
Create(n) ==
    /\ On(n, "turn", "create")
    /\ peerRow' = NewPeer
    /\ \E allow \in Allows :
          Now(n, IF Gate(NewPeer, allow)
                 THEN [chain[n] EXCEPT !.at = "store", !.got = NewPeer] ELSE Free)
    /\ UNCHANGED <<Grounds, inIndex, token, dayCount, locked, scan, inputs, stale,
                   nudged, owed>>

(* After the captions: the message goes into the history and the row read  *)
(* at the start of the turn is written back with the hour.                 *)
Store(n) ==
    /\ On(n, "turn", "store")
    /\ peerRow' = Touched(chain[n].got)
    /\ Now(n, [chain[n] EXCEPT !.at = "model", !.got = NoRow])
    /\ UNCHANGED <<Grounds, inIndex, token, dayCount, locked, scan, inputs, stale,
                   nudged, owed>>

TurnOnly == UNCHANGED <<Grounds, peerRow, inIndex, token, dayCount, locked, scan, inputs, stale, nudged>>

(* A turn of the models ends well for the chain: the first draft and, in   *)
(* the prompt mode, the one repair of a draft the check finds fault with;  *)
(* a repair that fails leaves the draft, and its call is billed as empty.  *)
Final(flow, first, second) ==
    IF Repaired(flow, first) /\ Better(second, first) THEN second ELSE first
Seconds(flow, first) == IF Repaired(flow, first) THEN Drafts ELSE {first}
Calls(flow, first) == IF Repaired(flow, first) THEN 2 ELSE 1

(* A turn fails where it is: a write of Redis fails, made or not, or the   *)
(* call does (the prompt mode bills an empty call, and throws).            *)
TurnFails(n) ==
    /\ chain[n].work = "turn"
    /\ Now(n, Free)
    /\ peerRow' \in CASE chain[n].at = "create" -> {peerRow, NewPeer}
                      [] chain[n].at = "model" -> {peerRow}
                      [] OTHER -> {peerRow, Touched(chain[n].got)}
    /\ UNCHANGED <<Grounds, inIndex, token, dayCount, locked, scan, inputs, stale,
                   nudged, owed>>

(* Nothing is sent: the check still fails and nothing protected is at      *)
(* stake, or the draft is empty.  An empty draft of a planned reply is     *)
(* returned before the bill of a graph is written.                         *)
Skip(n) ==
    /\ On(n, "turn", "model")
    /\ Now(n, Free)
    /\ \E flow, planned \in BOOLEAN, first \in Drafts : \E second \in Seconds(flow, first) :
          LET draft == Final(flow, first, second)
              early == planned /\ draft = "empty"
              bills == BilledCalls(flow, first) + (IF early THEN 0 ELSE BilledAtEnd(flow))
              owes == Calls(flow, first) - bills IN
          /\ draft = "empty" \/ (~flow /\ Score(draft) > 0)
          /\ owed' = IF early /\ flow THEN [owed EXCEPT !.graph = @ + owes]
                                      ELSE [owed EXCEPT !.rest = @ + owes]
    /\ TurnOnly

(* The reply is billed and stored; touchPeerActivity reads the row again.  *)
Reply(n) ==
    /\ On(n, "turn", "model")
    /\ Now(n, [chain[n] EXCEPT !.at = "touch", !.got = peerRow])
    /\ \E flow \in BOOLEAN, first \in Drafts : \E second \in Seconds(flow, first) :
          /\ Final(flow, first, second) # "empty"
          /\ owed' = [owed EXCEPT !.rest = @ + Calls(flow, first)
                                   - BilledCalls(flow, first) - BilledAtEnd(flow)]
    /\ TurnOnly

Touch(n) ==
    /\ On(n, "turn", "touch")
    /\ peerRow' = Touched(chain[n].got)
    /\ Now(n, Free)
    /\ UNCHANGED <<Grounds, inIndex, token, dayCount, locked, scan, inputs, stale,
                   nudged, owed>>
-----------------------------------------------------------------------------
(* A tick of the scheduler, on the node that polls the bot, comes to the   *)
(* peer: it reads the row, the token and the count.                        *)
Look(n) ==
    /\ n = home /\ scan[n] = NoScan /\ inIndex /\ inputs < MaxInputs
    /\ Eligible
    /\ inputs' = inputs + 1
    /\ scan' = [scan EXCEPT ![n] = "lock"]
    /\ UNCHANGED <<Grounds, peerRow, inIndex, token, dayCount, locked, chain, stale,
                   nudged, owed>>

(* SET NX EX; when the answer is lost, the tick is over.                   *)
Lock(n) ==
    /\ scan[n] = "lock"
    /\ \E at \in {NoScan, IF locked THEN NoScan ELSE "wait"} :
          scan' = [scan EXCEPT ![n] = at]
    /\ locked' = TRUE
    /\ UNCHANGED <<Grounds, peerRow, inIndex, token, dayCount, chain, inputs, stale,
                   nudged, owed>>

(* A closure of the scheduler ends, well or not: the chain swallows what   *)
(* it throws (enqueuePeerChain), so the catch of the tick never runs, and  *)
(* the lock is deleted, or stays until it expires when that fails.         *)
NudgeEnds(n) ==
    /\ Now(n, Free)
    /\ scan' = [scan EXCEPT ![n] = NoScan]
    /\ locked' \in {locked, FALSE}

Nudging(n, closure) == Now(n, closure) /\ UNCHANGED <<scan, locked>>
NudgeOnly == UNCHANGED <<Grounds, inIndex, token, inputs, stale, owed>>

(* handleProactive on the chain: the row is read again, the hours are not  *)
(* looked at again.  A peer switched off, a graph: an attempt is marked.   *)
BeginNudge(n) ==
    /\ scan[n] = "wait" /\ chain[n] = Free
    /\ LET start(at) == [Free EXCEPT !.work = "nudge", !.at = at] IN
       \/ /\ \E allow \in Allows : Gate(peerRow, allow)
          /\ peerRow.wanted
          /\ Nudging(n, start("model"))
       \/ Nudging(n, [start("mark") EXCEPT !.got = peerRow])
    /\ UNCHANGED <<peerRow, dayCount, nudged>>
    /\ NudgeOnly

(* The model declines or sends nothing: the attempt will be marked.        *)
Declined(n) ==
    /\ On(n, "nudge", "model")
    /\ Nudging(n, [chain[n] EXCEPT !.at = "mark", !.got = peerRow])
    /\ UNCHANGED <<peerRow, dayCount, nudged>>
    /\ NudgeOnly

(* The model answers: the message is stored, the row is read to touch it.  *)
Composed(n) ==
    /\ On(n, "nudge", "model")
    /\ Nudging(n, [chain[n] EXCEPT !.at = "touch", !.got = peerRow])
    /\ UNCHANGED <<peerRow, dayCount, nudged>>
    /\ NudgeOnly

NudgeTouch(n) ==
    /\ On(n, "nudge", "touch")
    /\ peerRow' = Touched(chain[n].got)
    /\ Nudging(n, [chain[n] EXCEPT !.at = "send", !.got = NoRow])
    /\ UNCHANGED <<dayCount, nudged>>
    /\ NudgeOnly

(* The nudge fails before anything is delivered: Redis, made the write or  *)
(* not, the model or the send.                                             *)
Tried(row) == [row EXCEPT !.triedAt = clock]
NudgeFails(n) ==
    /\ scan[n] = "wait"
    /\ \/ chain[n] = Free /\ UNCHANGED peerRow
       \/ (On(n, "nudge", "model") \/ On(n, "nudge", "send")) /\ UNCHANGED peerRow
       \/ On(n, "nudge", "touch") /\ peerRow' \in {peerRow, Touched(chain[n].got)}
       \/ On(n, "nudge", "mark") /\ peerRow' \in {peerRow, Tried(chain[n].got)}
    /\ NudgeEnds(n)
    /\ UNCHANGED <<dayCount, nudged>>
    /\ NudgeOnly

Send(n) ==
    /\ On(n, "nudge", "send")
    /\ nudged' = [nudged EXCEPT ![Today] = @ + 1]
    /\ Nudging(n, [chain[n] EXCEPT !.at = "sent", !.got = peerRow])
    /\ UNCHANGED <<peerRow, dayCount>>
    /\ NudgeOnly

(* markPeerProactive writes the row back, with the message or without.     *)
Sent(row) == [row EXCEPT !.triedAt = clock, !.sentAt = clock, !.active = clock]
MarkSent(n) ==
    /\ On(n, "nudge", "sent")
    /\ peerRow' = Sent(chain[n].got)
    /\ Nudging(n, [chain[n] EXCEPT !.at = "count", !.got = NoRow])
    /\ UNCHANGED <<dayCount, nudged>>
    /\ NudgeOnly

MarkTried(n) ==
    /\ On(n, "nudge", "mark")
    /\ peerRow' = Tried(chain[n].got)
    /\ NudgeEnds(n)
    /\ UNCHANGED <<dayCount, nudged>>
    /\ NudgeOnly

(* INCR of the counter of the day it is by now.                            *)
Count(n) ==
    /\ On(n, "nudge", "count")
    /\ dayCount' = [dayCount EXCEPT ![Today] = @ + 1]
    /\ NudgeEnds(n)
    /\ UNCHANGED <<peerRow, nudged>>
    /\ NudgeOnly
(* A lapse: the send fails after a part was delivered, or it succeeds and  *)
(* the mark or the INCR after it fails.  The chain swallows the error, and *)
(* the nudge is not counted.                                               *)
NudgeLapses(n) ==
    /\ upsets < MaxUpsets
    /\ upsets' = upsets + 1
    /\ \/ /\ On(n, "nudge", "send")
          /\ nudged' = [nudged EXCEPT ![Today] = @ + 1]
          /\ UNCHANGED peerRow
       \/ /\ On(n, "nudge", "sent")
          /\ peerRow' \in {peerRow, Sent(chain[n].got)}
          /\ UNCHANGED nudged
       \/ On(n, "nudge", "count") /\ UNCHANGED <<peerRow, nudged>>
    /\ NudgeEnds(n)
    /\ UNCHANGED <<clock, home, ask, granted, inIndex, token, dayCount, inputs,
                   stale, owed>>
-----------------------------------------------------------------------------
OwnerOnly == UNCHANGED <<clock, home, upsets, token, dayCount, locked, chain, scan,
                         nudged, owed>>
Goes(a, request) == ask' = [ask EXCEPT ![a] = request]

(* An owner approves the peer, lets it be nudged or not: the row is read,  *)
(* or is to be made.  Only an approved peer may be nudged.  Requests       *)
(* overlap.                                                                *)
AskOwner(a, what) ==
    /\ ask[a] = NoAsk /\ inputs < MaxInputs
    /\ what = "on" /\ peerRow # NoRow => peerRow.approved
    /\ inputs' = inputs + 1
    /\ Goes(a, [what |-> what, at |-> IF peerRow = NoRow THEN "create" ELSE "write",
                got |-> peerRow])
    /\ UNCHANGED <<peerRow, inIndex, granted, stale>>
    /\ OwnerOnly

(* ensurePeer makes the row; a new peer may not be nudged.                 *)
AskCreates(a) ==
    /\ ask[a].at = "create"
    /\ peerRow' = NewPeer
    /\ Goes(a, IF ask[a].what = "on" THEN NoAsk
               ELSE [ask[a] EXCEPT !.at = "write", !.got = NewPeer])
    /\ UNCHANGED <<inIndex, inputs, granted, stale>>
    /\ OwnerOnly

Wish(what, row) ==
    CASE what = "approve" -> [row EXCEPT !.approved = TRUE]
      [] what = "on" -> [row EXCEPT !.wanted = TRUE]
      [] what = "off" -> [row EXCEPT !.wanted = FALSE]

AskWrites(a) ==
    /\ ask[a].at = "write"
    /\ peerRow' = Wish(ask[a].what, ask[a].got)
    /\ IF ask[a].what = "approve"
       THEN /\ Goes(a, NoAsk)
            /\ granted' = TRUE
            /\ stale' = (stale \/ (\E n \in Nodes : Behind(chain[n]))
                               \/ \E b \in Requests \ {a} : Behind(ask[b]))
       ELSE Goes(a, [ask[a] EXCEPT !.at = "index", !.got = NoRow]) /\ UNCHANGED <<granted, stale>>
    /\ UNCHANGED <<inputs, inIndex>>
    /\ OwnerOnly

AskIndexes(a) ==
    /\ ask[a].at = "index"
    /\ inIndex' = (ask[a].what = "on")
    /\ Goes(a, NoAsk)
    /\ UNCHANGED <<peerRow, inputs, granted, stale>>
    /\ OwnerOnly

(* A request fails, its write made or not, and is not acknowledged.        *)
AskFails(a) ==
    /\ \/ /\ ask[a].at = "create"
          /\ peerRow' \in {peerRow, NewPeer} /\ UNCHANGED inIndex
       \/ /\ ask[a].at = "write"
          /\ peerRow' \in {peerRow, Wish(ask[a].what, ask[a].got)} /\ UNCHANGED inIndex
       \/ /\ ask[a].at = "index"
          /\ inIndex' \in {inIndex, ask[a].what = "on"} /\ UNCHANGED peerRow
    /\ Goes(a, NoAsk)
    /\ UNCHANGED <<inputs, granted, stale>>
    /\ OwnerOnly
-----------------------------------------------------------------------------
World == <<peerRow, inIndex, token, dayCount, ask, inputs, granted, stale,
           nudged, owed>>

HourPasses ==
    /\ clock < MaxClock
    /\ clock' = clock + 1
    /\ UNCHANGED <<World, locked, home, chain, scan, upsets>>

(* The TTL of the lock runs out, whoever holds it.                         *)
LockExpires ==
    /\ locked
    /\ locked' = FALSE
    /\ UNCHANGED <<World, clock, home, chain, scan, upsets>>

(* The lease goes to another node; what runs on the first goes on.         *)
Move(n) ==
    /\ n # home /\ upsets < MaxUpsets
    /\ home' = n
    /\ upsets' = upsets + 1
    /\ UNCHANGED <<World, clock, locked, chain, scan>>

(* A node dies with what it was doing, and comes back.                     *)
Crash(n) ==
    /\ upsets < MaxUpsets /\ (chain[n] # Free \/ scan[n] # NoScan)
    /\ upsets' = upsets + 1
    /\ Now(n, Free)
    /\ scan' = [scan EXCEPT ![n] = NoScan]
    /\ UNCHANGED <<World, clock, locked, home>>

Next ==
    \/ \E n \in Nodes : \/ Arrive(n) \/ Create(n) \/ Store(n) \/ TurnFails(n)
                        \/ Skip(n) \/ Reply(n) \/ Touch(n)
                        \/ Look(n) \/ Lock(n) \/ BeginNudge(n) \/ Declined(n) \/ Composed(n)
                        \/ NudgeTouch(n) \/ NudgeFails(n) \/ Send(n) \/ MarkSent(n)
                        \/ MarkTried(n) \/ Count(n) \/ NudgeLapses(n)
                        \/ Move(n) \/ Crash(n)
    \/ \E a \in Requests : \/ \E what \in {"approve", "on", "off"} : AskOwner(a, what)
                           \/ AskCreates(a) \/ AskWrites(a) \/ AskIndexes(a) \/ AskFails(a)
    \/ HourPasses \/ LockExpires

Spec == Init /\ [][Next]_chatVars
-----------------------------------------------------------------------------
(* Rows, counters and closures have the shapes the code gives them.        *)
ChatTypeOK ==
    /\ peerRow \in PeerRows \cup {NoRow}
    /\ {inIndex, token, locked, granted, stale} \subseteq BOOLEAN
    /\ dayCount \in [Days -> Nat] /\ nudged \in [Days -> Nat]
    /\ home \in Nodes /\ clock \in Hours
    /\ \A n \in Nodes : /\ chain[n].got \in PeerRows \cup {NoRow}
                        /\ scan[n] \in {NoScan, "lock", "wait"}
    /\ \A a \in Requests : ask[a].got \in PeerRows \cup {NoRow}

(* An approval the owner was told of is not lost to the rows that turns,   *)
(* nudges and other requests write back, on two nodes, whatever fails:     *)
(* who reads the row after the approval writes an approved one.  What may  *)
(* take it back is only who was behind when it was written (Behind): a     *)
(* turn that allowUnapproved let pass, another request, or the making of   *)
(* the row.                                                                *)
ApprovalKept == granted /\ ~stale => peerRow # NoRow /\ peerRow.approved

(* A day sees no more nudges than its cap, and one more at most for each   *)
(* upset: the bot changed nodes, a node died, or a nudge that was          *)
(* delivered could not be counted.  The count is a key of its own that no  *)
(* stale row takes back.                                                   *)
DayCapKept == \A d \in Days : nudged[d] <= MaxPerDay + upsets

(* A message answered, skipped by the quality check or skipped as empty    *)
(* leaves every call of a model billed once, in the prompt mode and in a   *)
(* graph, whatever the repair did, but for the planned reply of a graph    *)
(* (GraphBilled).                                                          *)
TurnsBilled == owed.rest = 0

(* The three together.                                                     *)
TurnsKept == ApprovalKept /\ DayCapKept /\ TurnsBilled

(* The comment of the call accounting (chat-service.ts:774): what a graph  *)
(* used "must be recorded once after the graph completes".                 *)
GraphBilled == owed.graph = 0

(* The comment of the row (repos.ts:286): it keeps the "last proactive     *)
(* attempt including skip", "used for scan cooldown".  A nudge that ends,  *)
(* well or not, leaves its hour in the row.                                *)
AttemptsMarked ==
    [][\A n \in Nodes : chain[n].work = "nudge" /\ chain'[n] = Free
                          => peerRow'.triedAt = clock]_chatVars
=============================================================================
