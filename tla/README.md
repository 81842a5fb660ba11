# WeChat-AI: verification project

TLA+ specifications, TLC models and TLAPS proofs about WeChat-AI, a service that
puts AI personas behind WeChat bot accounts. The specifications are written
from the source; every definition that stands for code is listed with its lines in
`PROJECT.json` ("map").

The system is a set of identical Node.js processes ("nodes", "workers") that share
one Redis. There is no leader. Each node serves the HTTP API and admin pages
and runs a `BotWorkerManager`, which polls some of the bots for messages and
answers them with a language model. All coordination between nodes is done with
single Redis commands and a few pipelines: `SET NX` leases and locks, sets, JSON
rows that are read and written back as a whole. Inside a process everything runs on one
event loop, so code between two `await`s is atomic and everything else interleaves.

## 1. Inventory

Paths are relative to `src/`. The last column names the modules; `-` is not modelled.

| Component | State | Operations | What is hard | What makes it correct | Modules |
|---|---|---|---|---|---|
| **Worker fleet** (`packages/db/src/worker-fleet.ts`, `apps/api/src/worker.ts`) | Redis: pollable set, lease key per bot, bot set per worker, fence keys, pause keys, heartbeats. Process: `loops` map, `loopGen`, `fenced`, `stopped` | start, reconcile pass (fence, renew, claim, start, shed), stop/unregister, pause, resume, restart, force offline, reap, a poll loop's end | GET and SET/DEL of a lease are two round trips; passes overlap each other and admin requests of the same process; TTL expiry; crashes | one poller per bot; stopped and fenced processes poll nothing; every pollable bot ends up polled | `BotFleet` |
| **Load plan** (`worker-fleet.ts` 361-1060, `worker.ts` 1400-1767) | weights hash, heartbeats | targets from capacity and weight, shed counts, claim caps | rounding, slack, every node computing from its own snapshot | targets add up; no endless moving of bots | `LoadPlan` |
| **Inbound pipeline** (`worker.ts`, `adaptive-reply-batcher.ts`, `index.ts`) | Redis: cursor in the bot row, seen keys. Process: local seen map, open batches, inbox, consumers, peer chains, client map | poll, claim, route, batch, close, queue, consume, reply, shutdown drain | double polling during lease changes, replaced loops that still hold messages, full inbox, shutdown in the middle, deadline | at most one answer, no message skipped or forgotten, order per peer, a shutdown that drains | `Inbound` |
| **Reply jobs** (`worker.ts` handleJob, `adaptive-reply-plan.ts`) | parts still to send, typing indicator, counters | rate limit, gate, plan, attachments, parts, apology | a failure between two sends; posts of the typing indicator that nobody waits for | parts in order, none twice; one outcome counted | `ReplyJob` |
| **Chat service, peer rows** (`chat-service.ts`, `repos.ts`, `conversation-quality*.ts`) | JSON row per peer, day counters, token usage | a turn, approval, switches, quality check and repair | read-modify-write of the same row from several places and nodes | an approval is not lost; every model call billed once | `ChatTurn` |
| **Proactive scheduler** (`proactive-scheduler.ts`, `proactive.ts`) | lock per peer, last-sent stamps, timer chain | scan, lock, wait for the peer's chain, send; start, stop | checked before the lock, sent after; unconditional release; a switch during a tick | the cap of a day; one chain of timers | `ChatTurn`, `ScanTimer` |
| **Peer history and memories** (`memory-retrieve.ts`, `repos.ts`, `chat-service.ts` extractMemory) | message list, counter, fact list | say, extract, delete, clear | an extraction nobody waits for rewrites the list it read before the model call | no fact lost without a reason | `PeerMemory` |
| **Chatflow engine** (`packages/core/src/chatflow`) | a graph, a trace, a step counter | validate, choose the edge, run a node | graphs authors save; loops, dead ends, missing nodes | ends, takes only edges of the graph, answers with the last node | `GraphRun` |
| **LLM client** (`packages/llm/src/client.ts`) | messages of one call, rounds | complete, run tools, retry without tools | every tool call needs its answer before the next round | a well-formed conversation, tokens all counted | `ToolLoop` |
| **P2P sessions, binding** (`packages/core/src/p2p-service.ts`, `packages/db/src/p2p-repos.ts`) | codes, connect requests with two pointers, session row with two pointers, two bind pointers, TTLs | bind, request, accept, reject, relay/touch, end, block | pointers and row are separate keys; touch rewrites what an end deleted; codes read then deleted | a peer is in one session, both sides agree, a code binds its owner | `P2P`, `P2PBind` |
| **Broadcasts** (`broadcast-runner.ts`, `broadcast-repos.ts`) | Redis: job rows, active pointer, lock per job. Process: the runner's copy of the row | create, tick/search, lock, work, flush, cancel, resume after a crash | whole-row writes by runner and admin, lock expiry, errors at every stage | completed means everybody reached; no repeats beyond the unflushed sends; every job ends; cancel means cancel | `Broadcast` |
| **Self-update (OTA)** (`ota-apply.ts`, `ota-repos.ts`) | job and status per worker, files, stamp and dependencies on disk | publish, queue, claim, copy, stamp, install, exit, boot | crash between any two file operations | the version stamp tells the truth; a job ends | `OtaApply` |
| **Bot login, bot rows** (`bot-login-sessions.ts`, `bot-login-repos.ts`, `repos.ts`) | view per session in Redis, poller in one node; bot row, credentials, lists | create, poll, confirm, cancel, expire; edits, deletion | cancel from another node during an await; several writers of a whole row | a cancelled login binds nothing; the records of a bot agree | `BotAccounts` |
| **Runtime settings** (`runtime-config*.ts`, `runtime-settings-spec.ts`) | versioned document, lock; per node the document seen and what was pushed | patch, poll, apply, push | a lock that may be skipped; refreshes that overtake each other | no lost patch; all nodes reach the stored settings | `RuntimeSettings` |
| **Accounts, sessions, invites** (`repos.ts`, `invite-repos.ts`, `routes.ts`) | account rows, name index, sessions, code rows, lists of codes | register with roll-back, log in, OAuth, ban, delete; create, list, use, revoke codes | two registrations with one code or name; a roll-back; a ban during a login | let in by a code, one each; a name leads to its account; a banned user has no session | `Accounts` |
| **Sticker square** (`repos.ts`, `routes.ts`) | rows, images, slugs, index sets, libraries | submit, edit, review, take back, delete, shelve | a review of what is being replaced; rows and sets written apart | what others see was approved | `Stickers` |
| **Personas** (`repos.ts`, `routes.ts`) | rows, immutable versions, square, default, libraries, assignments | create, edit, publish, fork, switch, assign | version and row written apart; the default pointer | a published version is the persona's own | `Personas` |
| **Try-chat** (`try-chat-service.ts`) | session row and message list, day counter | open, send, end, expiry | a row read at the start of a send is written back after the model call | the caps of a day and of a session | `TryChat` |
| **HTTP routes, start-up** (`routes.ts`, `index.ts`, `config.ts`, ...) | none of their own | handlers that call the above | order of shutdown | see the components they call | with their components |
| **Hot cache, rate limiter** (`hot-cache.ts`, `rate-limit.ts`) | values, expiry, in-flight loads; hits per key | get, invalidate; check | invalidation during a load; eviction at the limit | bounded staleness; never more than the limit per window | - (planned) |
| **Prompts and reply text** (`packages/core`) | none | text transformation | - | left to unit tests | - |
| **Activity stream** (`activity-stream.ts`) | ring buffer, subscribers | emit, subscribe | best effort by design | none needed by other parts | - |
| **iLink client and media** (`packages/ilink`) | none shared | HTTP requests, cryptography | timeouts, retries | left to unit tests | - |
| **Edge load balancer** (`cloudflare-worker`) | none | choose an origin, retry | retry of a request that was handled | - | - (planned, last) |
| **Tools gateway, pages, scripts** (`huggingface`, `apps/api/public`, `scripts`) | none | - | - | - | - |

Interactions: the fleet decides which process runs a poll loop for a bot; poll loops feed
the inbound pipeline, whose consumers run one reply job after the other, which ask the chat
service for a reply; that runs a persona's graph or calls the model, and starts the
extraction of memories. Broadcasts, nudges and replies all run on the *peer chains* of a
process (`enqueuePeerChain`), which order the sends to one peer within that process only.
Admin routes write fleet, job, settings, bot and release keys and publish wake-ups; the
self-update fences its own worker. Users' requests (stickers, personas, accounts, try-chat, binding)
run on any node and meet only in Redis. The hard behaviours, each at its line, are the
"hazards" of `PROJECT.json`.

## 2. Modules

| Module | Role | EXTENDS / INSTANCE |
|---|---|---|
| `BotFleet` | leases, loops, fences, pauses of all processes | |
| `BotFleetProofs` | theorems about `BotFleet` | `BotFleet`, TLAPS |
| `LoadPlan` | how many bots each node holds: plan, claim, shed | |
| `InboundPromise` | abstract: what the pipeline promises about each message | |
| `Inbound` | poll loops to replies, on several processes | INSTANCE `InboundPromise` |
| `InboundProofs` | theorems about `Inbound`, the refinement among them | `Inbound`, TLAPS |
| `ReplyJob` | one job: gate, plan, sends, typing indicator | |
| `ChatTurn` | turns, nudges and the owner over one peer row | |
| `GraphRun` | one run of a persona's graph | |
| `ToolLoop` | one call of the model with its tools | |
| `PeerMemory` | history, facts and their extraction | |
| `ScanTimer` | the chain of timers of the proactive scheduler | |
| `ConversationRun` | `Inbound` and the six modules above together | EXTENDS `Inbound`, INSTANCE the others |
| `ConversationProofs` | theorems about the six modules above in it | `ConversationRun`, TLAPS |
| `Broadcast` | job rows, runners, cancellation | |
| `OtaApply` | releases, jobs, and a node that updates itself | |
| `BotAccounts` | logins by QR code and the rows of bots | |
| `RuntimeSettings` | the settings document and the nodes that follow it | |
| `ControlRun` | the four above and `LoadPlan` together, with fairness | EXTENDS `BotAccounts`, `RuntimeSettings`, `LoadPlan`, INSTANCE the others |
| `ControlProofs` | theorems about all of it | `ControlRun`, TLAPS |
| `P2P` | connect requests, sessions and block list of chat peers | |
| `P2PProofs` | theorems about `P2P` | `P2P`, TLAPS |
| `P2PKeysProofs` | the theorem that its keys agree | `P2PProofs` |
| `Stickers`, `Personas`, `Accounts`, `TryChat`, `P2PBind` | the records users' requests race over | |
| `RecordsRun` | the five above together | EXTENDS `Accounts`, INSTANCE the others |
| `AccountsProofs` | the inductive invariant of `Accounts` | `Accounts`, TLAPS |
| `RecordsProofs` | theorems about all five in it | `RecordsRun`, `AccountsProofs`, TLAPS |
| `MCBotFleet`, `MCInbound`, `MCBroadcast`, `MCLoadPlan`, `MCP2P` | models for TLC (symmetry, tables) | the module each is named after |

**Modules of a run.** The components of a `*Run` module share no key and no variable of a
process, so interleaving them would multiply states and show nothing. A behaviour
of such a module therefore chooses at the start, in `part`, the one component that runs: its `Init` disjunct
and its actions are guarded by `part`, the variables of the others stay `Off` (or as they are at the start), and
each property is stated where its component runs. One run of TLC then checks all of them, each
with all its interleavings. Where a component does depend on another one of the same module, it models it by what
it may return: `ReplyJob` lets the chat return any list of parts, `ChatTurn` any grade of draft,
`GraphRun` any outcome of a model call.

Conventions: an action ends where the code awaits Redis or the network; the name of an
action or helper is the code's where there is one. `faults` (`mishaps`, `troubles`) counts disturbances down, so
that TLC's state space is finite and liveness is about what happens once disturbances end; the
constants named `Max...` bound how many requests, edits, moves or jobs there are. A name ending
in *Faulty*, or an operator that stands unused before the one it resembles, is a mutation of the operator (a plausible bug) that no action uses.
Runs whose behaviours may end (all requests made, all messages answered) do not check deadlock; the fleet
runs do, since a fleet never comes to rest. SYMMETRY is used in runs of invariants only
(and one step property, which symmetry leaves as it is).

### 2.1 BotFleet

State: `pollable`, `paused`, `lease`, `index` (`wa:worker:*:bots`), `fence` are the Redis
keys; `proc`, `fenced`, `loops`, `cur` (the latest `loopGen` of each bot) and `loop` (all
loops that have not returned, current or replaced) are a process; `task` holds what
every asynchronous function in flight has in its local variables. A process can have
several tasks at once, because the lease timer, the wake subscriber and the admin
routes start passes without waiting for one another.

Actions: `Start`/`Reap`/`Boot` (start, reapDeadWorkers, bootstrapPollable), `CheckFence`
to `ShedDel` (one reconcile pass: applyFenceState, renewOwnedLeases,
claimBotLeases, startLoop, maybeRebalanceShed), `StopBot`/`Pause*` (pauseBotPolling,
forceReleaseBotLease), `RestartBot`/`EnsureLoop`/`Resume*`, `ForceOffline`, `Unreg*`
(unregisterWorker), `Stop`/`Exit`/`Crash`, `Expire*` (lease TTL) and
`LoopBoot` ... `FreeDel` (runPollLoop).

Simplifications, all of the kind that adds behaviour or leaves out a component that is listed
as not modelled: the numbers of the load plan (any set of loops may be shed),
heartbeat rows (a dead process is known to be dead), the OTA check, the weighted
branch of resume, markBotPollable/unmarkBotPollable at login and deletion. `Start` reaps
at most one dead worker. `CheckFence` merges the read of the fence key with the
snapshot of the loops that follows it.

The properties do not claim that double polling never happens, because it
does: shed, pause and fence delete the lease before they drop the loop, and a
forced release deletes whatever lease is there. `shaken` records the bots whose lease
was ever given up, forced or lost; for all others exactly one poller is guaranteed, and for
all of them `Converges` says the double polling ends.

| Run | Bounds | Shows |
|---|---|---|
| `fleet_safety` | 2 workers, 1 bot, 2 tasks each (2 in flight), 2 unfinished loops, 1 disturbance | `LoopTableExact`, `StoppedPollsNothing`, `UnshakenSinglePoller` under overlapping passes |
| `fleet_liveness` | 2 workers, 2 bots, room for 1 bot each, 2 unfinished loops, 1 task each, 1 disturbance, fairness | `Converges`, `FencedDrains` |
| `fleet_pause` (violation) | 2 workers, 1 bot | a renewal that read the lease before the pause deleted it sets it again; nothing ever stops that loop (`PauseStops`, a finding) |

Two workers are enough for every race over one key (the code never relates three owners);
the proofs remove the bound for the safety properties.

Fairness: strong for the steps of tasks, because a slot of the bounded pool of tasks can be
taken by another task in between, while in the program each timer's pass runs
on its own; weak for the steps of a loop, restarts of exited processes (the process manager) and the
expiry of a key nobody renews. A fence key's expiry is not fair; the properties speak
of it. `PromptRedis` (a Redis round trip is shorter than the time between two
passes) is assumed for liveness only: without it two processes may pass the GET of a renewal before
the other's SET, for ever.

### 2.2 Inbound

One bot, several peers, one Redis. State: `cursor`, `seen` in Redis; per process `loop`
(up to `Slots` poll loops, of which at most one is `live`), `local` (inboundSeen), `client`,
and `pipe` (open batches, inbox, peer chains, chains whose head is being handled).
`claimed`, `answered`, `lost`, `weak`, `overlap` are history.

Actions: `StartLoop` to `SaveCursor` are runPollLoop and acceptInboundMessage;
`CloseBatch`, `BeginJob`, `EndJob` are the batcher's close, pushInbox with the
consumers, and handleJobInner on the chain of its peer; `Stop`, `DrainNext`,
`DrainDone`, `FinishStopping`, `Exit` are stopAsync and index.ts's shutdown, `Crash` is a
SIGKILL. A job is handed to a waiting consumer synchronously, so consumers have no step of
their own. Any running node may start a loop at any time: the leases are not
modelled here, so that every overlap that BotFleet allows (and more) is covered.

Left out: what a reply says and the conversation rows it writes (a job is answered, excused or
skipped; all of them count as answered, because the code does nothing further about the
message). Batch deadlines are open (a batch may close at any time), which covers
`replyBatchEnabled = false`. The seen key's TTL is a disturbance, since a claim would have
to be ten minutes old; it may run out in every run, whether Redis fails or not. The one disturbance of
`inbound_delivery` is not enough for an expired key to break the promise; with more, a message that was lost
may be answered after all, which is why the theorem about `Delivery` (section 4) supposes `weak = {}`.
`Flush` closes the open batches in some order, as the states of the function `Flushed`.

| Run | Bounds | Shows |
|---|---|---|
| `conversation` (`ConversationRun`) | 1 node with 2 loops, 2 messages of one peer, Redis may fail or forget, 2 disturbances | `OnePlace`, `NoSkip`, `PeerOrderKept`, `CleanShutdown` |
| `inbound_delivery` | 2 nodes, 2 messages of 2 peers, 1 disturbance, fairness | refinement of `InboundPromise` (`Delivery`) and `EverySettled` |
| `inbound_stop` (violation) | 1 node | a message between its claim and the batcher is discarded when SIGTERM arrives (`GateDiscardsNothing`, a finding) |

`InboxMax` and `Consumers` are 1, so that full inbox and waiting jobs occur with two
messages; Redis fails in the run with one node, whose two loops claim like two nodes do but share
the local map; two messages are the smallest number for which order, skipping and batches of
more than one exist. `weak` marks the messages whose claim Redis did not guard (its SET
failed, or its key expired): the code documents that these may be answered twice, and the
properties exempt them. `overlap` marks nodes that started a loop while an older one held a
message: there the order of a peer's messages can really be lost.

Fairness: weak for everything a running process does by itself, for restarts, and for
`StartLoop`, which stands for the fleet's `Converges`. No fairness on disturbances,
on expiry or on polls that return no new cursor.

### 2.3 Broadcast

State: `row` (status and cursor of each job), `active`, `lock` in Redis; `runner` is the copy
of the row and the place in processJob; `admin` is a cancellation in progress. `sends`,
`lockLost`, `breaks` are history; `breaks` counts the runners that ended without writing their copy back: those
that died, those whose last write failed, and those that were stopped or done when they found the row neither running nor
cancelled (a lost race with a failure), where processJob writes nothing. Every await of processJob is an action; the search for a
job is one action, since it writes nothing. `Throws` is the failure of any Redis call: it goes to the
catch block, to finally or out of the tick, as in the code.

| Run | Bounds | Shows |
|---|---|---|
| `control` (`ControlRun`) | 2 nodes, jobs with 3 and 1 recipients, flush every 2, 1 disturbance, fairness | `CompletedReachedAll`, `RepeatsBounded`, `BroadcastEnds` |
| `broadcast_cancel` (violation) | the same | a runner's next write undoes a cancellation (`CancelSticks`, a finding) |

Three recipients with a flush every two make a flush in the middle, one at the end and
unflushed sends possible. `RepeatsBounded` excludes jobs whose lock ended under a working
runner (`lockLost`), in which case two runners really send at the same time; the class comment
"Only one job runs at a time fleet-wide" also does not hold after a cancellation, as a second node
may start the next job while the first has not noticed. `BroadcastEnds` excludes runs in
which a runner broke off: a crash between the last flush and the final write leaves a job in
status running with its cursor at the end, which no search finds.

### 2.4 LoadPlan

BotFleet lets a process claim or shed whatever its capacity allows; LoadPlan says how many, and counts
bots instead of naming them. State: `weights` (the weights hash), `bots` (size of the pollable
set), `beat` and `online` (heartbeats), `adrift` (leases of dead processes) in Redis; `held`, `snap`
(weightSnapshot), `plan` (lastPlan) and `pass` in each process. `SplitRound` and `Targets` are one round and
the whole of computeWeightedTargets. A reconcile pass is `BeginPass` (weights), `Plan` (heartbeats
and pollable set, and the slots computed from them), `Claim` with those slots, `Shed` or `NotDue` (the rebalance interval), `Heartbeat`: five places where passes
interleave, those of several nodes and, as nothing in worker.ts keeps them apart, those of one. `pass[n]` has two lanes for that: the timer's pass, and
what overlaps it (`Overlap`: the wake channel, or the timer's next one; `ResumeBot` and `TakeResumed`: resumeAndMaybeClaim). `crowded` remembers
the nodes on which two of them computed their slots before either had claimed.
`SetWeight`, `PauseBot`, `ResumeBot`, `Overlap`, `Crash` and `PlanFails`
(a Redis error) are disturbances; `KeepSnapshot` misses a refresh of the weights. Fractions are exact here, floating point in the code: only which node of a tie gets
the odd bot may differ. Left out: fenced nodes, the clean-up of weights of departed nodes, and more than two passes of a node at once.

| Run | Bounds | Shows |
|---|---|---|
| `control` (`ControlRun`) | nodes with room for 2 and 4 bots, weights 2:1 and 0:1, 4 or 5 bots, slack 1, at most 2 sheds per pass, 1 disturbance, 1 missed refresh, overlapping passes on the small node | `PlanSound` (every plan made is exact and fair, from whatever heartbeats and weights; only a crowded node holds more than it has room for); `Settles` and `SettledBalanced` under fairness |
| `load_even` (violation) | nodes with room for 1 and 5, no weights, 5 bots | claim and shed fight for ever (`Settles`, a finding) |

Five bots overflow a node with the whole weight onto the drained
one; four fit; as long as one node is online alone, it cannot place them all. The small node is the one that two passes can overfill. `NotDue` happens at most once between two sheds of a process (in the code, the interval is a few
passes). Fairness is weak: a process's timer fires and its awaited calls return (`Step`), a dead process is
started again (`Start`), keys expire (`Expire`).

Two passes of one node that compute their slots at the same time do claim more than maxBots together (worker.ts:1549); nothing gives the excess
back but the next shed, if the fleet has weights or peers. `PlanSound` says that this is the only way to exceed the room, and `Settles` and `SettledBalanced` that a
fleet gets over it.

With weights, the comment "so neither fights the other" (worker-fleet.ts:969) holds, also after nodes planned from
different snapshots. Without weights there is no plan and it does not. Both are about what a fleet does once
disturbances end; while a weight change spreads, bots do move back and forth. A drained node still holds bots
when the others are full (`SettledBalanced` compares with the targets, which say so), although
docs/admin-api.md:242 says it gives up all.

### 2.5 P2P

State: the keys `from`, `to` (connectFrom, connectTo), `sess` (p2pPeer), the rows `open` (connectReq) and `live`
(p2pSession), the block sets `blocks`, and in `cmd` the command each handler is at, with what it has read.
`party` remembers whom a request is from and to; a session has the id of the request it came from. A lookup
(pointer, row, deletion of a pointer without a row) is the same three actions wherever the code makes one: `Found`
and `Missing` say how each command goes on from it. `At`, `Answer`, `Cancel`, `InSession`, `Block`
and `Unblock` begin a command. A peer's own commands follow one another, since its bot's poll loop awaits
handleInbound; `Web` is the block list of the pages. `ExpireRequest` and `ExpireSession` are the TTLs: the keys of one
request or session expire in the order in which they were written.

| Run | Bounds | Shows |
|---|---|---|
| `p2p` | 3 peers, 2 requests, 3 commands or expiries, 2 commands at a time, from no relation, a pending request or a session | `Consent`, `KeysAgree`, `BlockBarsRequests` |
| `p2p_block` (violation) | the same | a relay writes back the session a block has ended (`BlockEndsTalk`, a finding) |

Two requests let the keys of an old relation meet those of a new one; three peers let a third interfere. The
keys of two peers do disagree for a while when commands that concern them overlap (a deletion takes both pointers
away whatever they hold); `mixed` records these peers and `KeysAgree` speaks of the others, after any history of
commands and expiries. A request that times out leaves its keys one by one, in a moment or two; only a command that concerns one of the
two in between (`Fading`) makes its peers `mixed`, an expiry alone nobody. Left out: binding (`P2PBind`), the daily limit, the reachability of a peer, and two poll loops of one
bot that handle the same peer at once.

### 2.6 ReplyJob

One job of a peer's chain from its start to its last send: `stage` is where it is, `parts` the reply and `next` the part to
send, `posts` what arrived at the peer, `typing` and `starting` the indicator and the posts of it under way, `counted` the worker's
counters. `NoClient`, `RateLimited`, `P2PHandled`, `Preflight`, `SkipBatch` are the early ends; `AskChat`, `Chats`, `Rejected`, `ChatFails` the
reply; `SendText`, `SendSticker`, `AllSent`, `Apologize`, `StopTyping` the sends. Every send arrives or fails, and a
failed one may have arrived. `conversation` checks `RepliesInOrder` with replies of up to five parts (cut to four, as the code does),
texts and stickers mixed, and batches of a request, an unfinished message or a filler.

### 2.7 ChatTurn

One peer row and everyone who reads it, changes a copy and writes it back: turns (`Arrive` to `Touch`) and nudges (`BeginNudge` to
`Count`) on the peer's chain of each node, scans (`Look`, `Lock`), and the owner's requests, which overlap (`AskOwner` to `AskIndexes`). The gate lets an unapproved peer
pass or not, as `allowUnapproved` is (`Allows`; it may be switched at any time). Every write and every call may fail (`TurnFails`, `NudgeFails`, `AskFails`), the write having been made or not. A *lapse*
(`NudgeLapses`) is a nudge that was delivered and is not counted, because the send failed after a part of it, or the mark or the INCR after it did: the chain swallows the error
(worker.ts:1027). `Move` gives
the bot to another node while closures run, `Crash` ends those of a node (`MaxUpsets` counts moves, crashes and lapses), `LockExpires` is the TTL, `HourPasses` the clock.
`conversation`: 2 nodes, 2 requests at a time, 3 messages, scans and requests in all, 1 upset, 3 hours, all of one day, a cap of 1 a day (the theorem has any number of days). `TurnsKept` is three: an
approval told to the owner is lost only to who was *behind* when it was written, that is, had an unapproved copy of the row in hand or was making the row (`Behind`, `stale`: a turn that `allowUnapproved`
let pass, another request, the first message); the cap of a day is exceeded by no more
than one for each upset; the calls of an ended turn are billed, once each.

### 2.8 GraphRun

A graph is a list of nodes and one of edges; a run is `current`, `trace`, `steps`, `tokens`. `Valid` is validate.ts, `Outgoing` the choice of
an edge, one action per type of node. `conversation` runs every graph of four nodes of a shape (a start, a condition with up to two edges of any handle, a middle node of three types, an answer that may
lead on), with loops, dead ends and missing handles, and six that validation must refuse. `GraphAnswers`: edges only, the side of the condition, the answer of the last node,
no answer only at a dead end, the cap only on a loop.

### 2.9 ToolLoop

`messages` is the conversation, `calls` what the model asked for, `round` the rounds. `CallsAnswered`: whenever the model is asked, each call in
the conversation has exactly one answer, before the next turn; at most `MaxRounds` + 1 completions, all of them counted when a
reply is returned. `conversation`: 2 rounds, 2 calls a round, with no tools, one or both.

### 2.10 PeerMemory

`history`, `userCount`, `memory` are Redis; `extract` the extractions under way (read the facts, ask the model, write the list),
`order` the owner's request. `FactsKept` is a step property: where no two rewrites overlap, a fact goes only when the owner takes it away or newer ones push
it out. `conversation`: 3 facts, room for 2, an extraction every 2 messages, up to 4 messages and 2 requests. Two extractions at once do lose
facts (`crossed` sets them apart): each writes the list it read.

### 2.11 ScanTimer

`gen`, `timer`, `ticking`, `halted` are the scheduler's fields, `Switch` is applyRuntimeOptions, `Fire` and `TickEnds` a tick. `OneScanChain`: one chain of timers
alive while the switch is on, none while it is off, wherever in a tick it was moved (4 moves).

### 2.12 OtaApply

One node: `tree`, `stamp`, `deps` on disk, `jobKey`, `status`, `released`, `current` in Redis, `proc` the running process. The content of a file is the version it
came with. `Take` to `Exit` are applyOtaJob with one action per write; `Copy(f)` is one file; `Throw` and `Crash` happen at any of
them, `Refused` is a call that fails where the code ignores it (marking a job done or failed, deleting it then); `Boot` and `MarkDone` are the next start. `control`: 2 versions of 2 files, one of which needs an install, 2 jobs, 1 crash. `DoneIsWhole` says
what the status "done" means; it sets apart an attempt at a *different* version cut short in the middle of its copies (`cut`). `JobEnds`: no job stays for ever.

### 2.13 BotAccounts

`botRow`, `creds`, `listed`, `pollable` are Redis, `view` the login session's row and `poller` its polling loop on one node; `edit` is a request or cursor save
in progress. `CheckView`, `Answer`, `LoadBot` to `Persist` are the poll of a login; `Cancel` and `Deadline` end it; `SaveCursor`, `Rename`,
`SetStatus`, `DeleteBot` begin an edit. Redis may fail and the process die before every step: a look at the view that fails is caught and the poll goes on (`CheckFails`), a login that
fails between the writes of a bot ends in an error (`BotFails`), pollers and edits die anywhere (`PollerDies`, `EditDies`); `broken` has the bots of which a writer had made some of its writes and not the others.
`control`: 1 bot, known before or not, 1 login, 2 edits. `BotsAgree`: a cancellation written while the poller was not
asking the service is final unless the poller was refused its look at the view (the others may be overwritten: `heeded` tells them apart); and for bots that no two writers were at (`mixed` has the others),
once nobody is at them, no worker polls one without row and credentials, credentials are listed and the cursor never moves back, whatever broke off, and row,
credentials, list and pollable mark agree unless a writer broke off between two of its writes. `LoginEnds` under fairness.

### 2.14 RuntimeSettings

`stored` and `lock` are Redis; `config`, `pushed`, `seen`, `reading` a node's. `Request` to `DropLock` are patchRuntimeSettings with the lock that is skipped when
it cannot be had; `ReadDoc`, `Apply`, `PatchRefresh`, `PushFails` the refresh. Two settings under the rule that relates them stand for the
registry. `control`: 2 nodes, requests reaching one of them (`Front`; which node takes a request says only whose copy is refreshed at once), 2 patches, 1 fault. `SettingsKept`: the stored document keeps the rule always, and every patch where no two were under the lock at once
(`alone`); a node that has seen a document runs with it. `NodesConverge` under fairness.

### 2.15 Accounts

`account`, `listedUsers`, `nameIndex`, `session`, `sessionIdx`, `invite`, `openInvites` are Redis; a request is a `job` at one of its awaits.
`Register` asks for a code or, on a node that requires none or for the first account of a store, does not; it claims the name, `WriteLocal` writes the row, `Take` and `Burn` consume the code (a GET and a DEL), `Drop` and `Erase` roll back.
getUser serves rows from a cache of its process: a login, a judgement, a deletion and an invite decide on any row the account ever had (`copies`), and a judgement writes that row back whole.
That covers every age of a cache; the code's is 30 seconds. Who the earliest administrator is comes from a cache too and is left out. A request may break off at every await (`Breaks`).

`AccountsKept`: a local
account was let in by a code, or where none was asked for, a code lets in one, a refusal leaves
nothing behind, a banned or deleted account has no session, and the name of a local account leads to it. Set apart (`overlap`) are codes and accounts that two requests held at once, accounts about which one decided on an
outdated row (a login just after a ban, on another node, does open a session), and accounts a request left unfinished: a registration that breaks off before it has consumed its code keeps the account and the code.
What is said of names sets apart, besides, the accounts in `robbed`, whose name a request about another one took or deleted: an OAuth login (`LookAgain`, `Upsert`) and a deletion (`Clean`, `Drop`) write the name index
by what they saw of it earlier, and a name may be claimed in between. Two local accounts never have one name otherwise.

### 2.16 Stickers, Personas, TryChat, P2PBind

All four have the same shape: the rows and sets in Redis, a table of requests each at one await, and a flag in history that tells whether two
requests ever overlapped. Part of each property holds whatever races; part only where nothing raced, since the code writes whole rows without locks.

- `SquareReviewed` (`Stickers`): what a user sees of others was approved once, whatever races and wherever a request breaks off; where nothing raced it is that very image, and sets and slugs agree with rows, but for what a request that broke off had half written (`torn`): an image is stored before the row goes back to pending (repos.ts:3969), so that one whose row is then not written is shown unreviewed.
- `PublishedIsOwn` (`Personas`): the published version exists and is the persona's own, whatever races or breaks off; where nothing raced, and no edit broke off between the square and the row (`cut`, repos.ts:1625-1661), the square lists the enabled public ones.
- `TryCaps` (`TryChat`): the cap of a day holds whatever runs at once (it is reserved by INCR before the model is asked); the cap of a session, and its end, where its requests did not overlap (the row read before the model call is written back after it).
- `BindsAgree` (`P2PBind`): a peer is only ever bound to a user whose code it sent; where commands did not overlap the two pointers agree and a code binds once.

| Run | Bounds | Shows |
|---|---|---|
| `records` (`RecordsRun`) | two requests at a time, three in all; 1 sticker with 2 images and slugs, 2 personas, 3 local and 1 known account with 1 code at a time, registrations with and without a code, 2 try sessions of 2 days with caps of 1, 2 users and 2 phones with 3 codes | `SquareReviewed`, `PublishedIsOwn`, `AccountsHold`, `TryCaps`, `BindsAgree` |
| `control` (`ControlRun`) | as in 2.3, 2.4, 2.12, 2.13, 2.14 | `CompletedReachedAll`, `RepeatsBounded`, `BroadcastEnds`, `DoneIsWhole`, `BotsAgree`, `SettingsKept`, `PlanSound`, `Settles`, `SettledBalanced`, `NodesSettle` |
| `conversation` (`ConversationRun`) | as in 2.2 and 2.6 to 2.11 | `OnePlace`, `NoSkip`, `PeerOrderKept`, `CleanShutdown`, `RepliesInOrder`, `TurnsKept`, `GraphAnswers`, `CallsAnswered`, `FactsKept`, `OneScanChain` |

In `Stickers`, `Personas` and `Accounts` a request may break off at every await, because Redis fails or its process dies (`BreaksOff`, `Breaks`), with a command of Redis taken to be made or not made. `TryChat` and
`P2PBind` leave failures of Redis and crashes out altogether: their properties are about races only.

Two requests are enough for a lost update or a stale write; the third lets a request that is not raced read what two others left.

Fairness in `ControlRun` is that of the components, each guarded by its part: `WF(InOta /\ Advance)` asks nothing when another component
runs. A process goes on with what it awaits, timers fire, supervisors restart, keys expire; disturbances, admins' requests and
crashes are never fair. Properties of the form "P leads to not P" are stated as `[]<>~P`, and "in the end always" as `<>[]`, which say the same here and keep TLC's
search for cycles small. In the fleet, several tasks share a bounded pool, hence strong fairness there.

## 3. Findings

Each with a run in which TLC finds the trace:

1. `fleet_pause`: a paused bot may be polled for ever (a renewal sets the lease the pause has just deleted).
2. `inbound_stop`: a claimed message may be discarded on SIGTERM, which the comment at worker.ts:1047 says cannot happen.
3. `broadcast_cancel`: a cancellation may be overwritten by the running job.
4. `load_even`: without weights, a large node beside a full small one sheds and claims the same bot for ever.
5. `p2p_block`: a message relayed while its session is ended by a block brings the session back.

Stated in the modules, refuted by TLC in the same way, and kept out of the runs, which check what does hold:

- `Personas!ForkKeepsGraph`: docs/chatflow.md:45 says a fork copies graph and mode; what is published of the fork (repos.ts:2100-2105) has none.
- `ReplyJob!HandledIsNotChat`: p2p-service.ts:57 says the worker must not call the model for a handled message; worker.ts:2443-2450 goes on to it when a reply of the command could not be sent.
- `ReplyJob!TypingCleared`: worker.ts:2303 says every exit path clears the typing indicator; a post of it that nobody waits for may arrive after the clearing.
- `ChatTurn!AttemptsMarked`: repos.ts:286 says the row keeps every attempt of a nudge; one whose model call or send throws leaves no mark, as enqueuePeerChain (worker.ts:1019-1040) swallows the error that the catch of the tick waits for.
- `Accounts!NamesNotStolen`: repos.ts:475 says the name index is only claimed if free or already ours; a registration may claim the name between that look (463) and the write (476), which then takes it, and its user can no longer log in. It takes a registration and an OAuth login under the same name at once.
- `ChatTurn!GraphBilled`: chat-service.ts:774 says what a graph used is recorded once; a planned reply that comes out empty returns at 986-989, before the record.

Weaker than their comments, and set apart in the properties by a history variable: invite and bind codes are said to be consumed atomically
(invite-repos.ts:185, p2p-repos.ts:101) but are a GET and a DEL; the poller of a login overwrites a cancellation written while it asked the service
(bot-login-sessions.ts:221); the version stamp is written before the install (ota-apply.ts:349); a broadcast whose last flush was followed by a crash stays running;
the chatflow engine's default cap of 32 steps is below the 40 nodes a graph may have.

## 4. Proofs

Every theorem holds for any values of the constants that satisfy the named assumption of the module: any number of
nodes, peers, bots, messages, graphs, jobs, requests, any bound. The assumptions say that bounds are natural numbers,
that flags are Boolean, that the values which stand for "nothing" (`Nil`, `Nobody`, `Unset`, `Nothing`, `Absent`,
`None`, `NoRow`) are none of the things they stand beside, that peers (`Inbound`) and bots (`BotFleet`) are finitely many, and for `GraphRun` that
a graph is two finite lists, as the JSON an author saves is, for `ToolLoop` that the tools offered to a turn are among the tools there are, and for
`ReplyJob` that a reply is a finite list of texts and stickers. TLC evaluates them in each run.

The properties are seldom inductive. Each theorem has an inductive invariant that says what the requests in flight know or
are about to write; it was given to TLC first. The proofs go action by action.

| Module | Theorem | States | Invariant, and why it is needed |
|---|---|---|---|
| `BotFleetProofs` | `TypeCorrect` | `TypeOK` | itself |
| | `LoopTableCorrect` | `LoopTableExact` | itself, with the types |
| | `StoppedProcessPollsNothing` | `StoppedPollsNothing` | itself, with the types |
| | `UnshakenSinglePollerCorrect` | `UnshakenSinglePoller` | `LeaseInv`: a task that has claimed a bot will start its loop later, and one about to delete a lease won in excess will delete it whoever holds it then; `LoopsLeased`, `TasksLeased` and `ExcessUnused` say what they rely upon |
| `InboundProofs` | `NothingSkipped` | `NoSkip` | `ClaimInv`: what a loop has behind it was claimed, a batch is a row of consecutive messages, and the cursor that came with it does not reach beyond it (`LoopSound`); the loops of old and new processes overlap at will |
| | `DrainedClean` | `CleanShutdown` | `ProcInv`: the shape the queues have at each stage of a shutdown (`Shape`); that the flush leaves no batch open is shown along the order in which it closes them |
| | `Delivered` | `Delivery` | `PlaceInv`: a message that some process holds is in one place of one process, unsettled, and its seen key exists; each step then maps to one claim, one answer, one loss or a stutter of `InboundPromise` |
| | `InOnePlace` | `OnePlace` | `LoneInv` beside `PlaceInv`: no message whose claim Redis guards stands twice in the queues of a process, which is lost if a batch, a chain and the inbox are looked at as sets |
| | `InPeerOrder` | `PeerOrderKept` | `OrderInv`: what a loop has yet to pass on comes after all it passed on (`LeadInv`), and along chain, inbox and open batch the messages of a peer are in order (`Orderly`); with `LimitInv`, by which jobs wait in the inbox of a running process only while every consumer is occupied (`Manned`), so that no batch that closes overtakes them |
| | `InboundTyped` | `InboundTypeOK` | `LimitInv`, `RestInv` and the invariants above: the jobs that consumers and the drain wait for are as many as there are of them, and no chain is too long for `Taken` to count them all |
| `ConversationProofs` | `OneChain` | `OneScanChain` | `TimerInv`: which generation a timer and a tick belong to |
| | `CallsHold` | `CallsAnswered` | `ToolInv`: in a round, which calls have been answered and which are left, in the order of the list |
| | `GraphsWalked` | `GraphAnswers` | `GraphInv`: the trace is a walk, and where it leads next; that a run cut off at the cap has entered some node twice is the pigeonhole principle on the trace |
| | `JobsAnswered` | `RepliesInOrder` | `JobInv`: parts that arrived are rising and without a hole below `next`, and what has been counted at each stage |
| | `TurnsHold` | `TurnsKept` | `ChatInv`: as long as nobody was behind when an approval was written, nobody is after it: every turn, nudge and request has an approved copy of the row or none; how many nudges of the day each upset and each nudge under way accounts for |
| | `FactsHold` | `FactsKept` (a step property) | `MemoryInv`: who is at the list alone, and that what it read is still the list; what the merge keeps and the cut drops (`Merged`, `Kept`) is shown for any lists |
| | `ConversationTyped` | `TypeOK` | `ConversationInv`, the conjunction of the invariants above and the types of jobs, graphs and tool loops (`JobTypes`, `GraphTypes`, `ToolTypes`), which bound what has been counted, posted, walked and billed; `InboundTyped` beside it |
| | `InboundKept` | `NoSkip`, `OnePlace`, `PeerOrderKept`, `CleanShutdown` of the whole conversation | by `InboundRuns`: a behaviour of the whole is one of `Inbound` |
| `ControlProofs` | `ControlTypes` | `TypeOK` | `ControlInv`, the conjunction of the invariants below |
| | `CompletedReached` | `CompletedReachedAll` | `CastInv`: the cursor of a row, of a runner's copy and of a cancellation never runs ahead of the sends |
| | `RepeatsAllowed` | `RepeatsBounded` | `RepeatInv`: of a job whose lock was never lost, the recipients reached are the first so many (`Reached`), its one runner holds the lock (`Alone`), and what was repeated with what the copy, or once nobody has one the row, lags behind stays within what the breaks so far allow (`Fits`) |
| | `PlansSound` | `PlanSound` | `LoadInv`: a node that is gone holds nothing, all that is held or adrift is at most the bots there are (`Enough`), on a node that is not crowded what is held and the slots of its passes fit its room together, at most one of them having any, and every plan was made by a round-wise split (`Planned`); that such a split is exact and fair for any nodes, weights and rooms is `TargetsFit` |
| | `DoneWhole` | `DoneIsWhole` | `OtaInv`: no status says done while an attempt is under way, and every file is of the stamped version or of the one being copied |
| | `BotsCorrect` | `BotsAgree` | `BotsInv`: how far the one writer of a bot has come, and what holds of the bot wherever it breaks off; what a cancelled login's poller may still do |
| | `SettingsCorrect` | `SettingsKept` | `SettingsInv`: what a patch alone under the lock will write is its change over what is stored |
| | `CancelledStays` | `Laid(j) => []Laid(j)` for each broadcast `j` | itself, with `CastInv`: once a cancelled row has no runner with a copy, no runner gets one, and only a runner with a copy writes another status |
| | `RecordsAgree` | `BotsAgree` and `SettingsKept` of the whole | `ControlInv` |
| `P2PProofs` | `Types` | `TypeOK` | `Inv`, with the two below: what each command has in hand |
| | `RelayNeedsConsent` | `Consent` | `Founded`: a pointer names a request of that peer, a session only a request that was accepted, and so does whatever a command has read |
| | `BlocksHold` | `BlockBarsRequests` | `Warned`: blocks complete when a command began still stand, and it went past its check for lack of them only |
| `P2PKeysProofs` | `KeysHold` | `KeysAgree` | `KeysInv`: a command nobody disturbed has brought the keys to where its place in the code says (`Posed`), and the pointers, request and session of a peer no overlapping commands concerned agree unless one is in the middle of writing them, or they expire one by one with no command about the two (`Waning`, `Agreement`) |
| `RecordsProofs` | `BindsKept` | `BindsAgree` | `BindInv`: how far a command that is alone has brought the two pointers (`Reached`), and what gives way to a new bind is about to be cleared (`Covers`) |
| | `OwnIsPublished` | `PublishedIsOwn` | `PersonaInv`: the row a request carries names a version of its persona (`CallSound`); how a request that is alone finds the square (`SquareNow`), unless one broke off |
| | `TryCapsHold` | `TryCaps` | `TryInv`: places held and answers given stay within both the day's cap and its counter (`DayKept`); the row of a session counts its answers, and its one send has read that row (`SessionKept`) |
| | `SquareIsReviewed` | `SquareReviewed` | `SquareInv`: every row a request carries that others would see was approved (`Granted`), a sticker yet to be stored is in nobody's hands (`Unborn`), and how far a request that is alone has brought the records (`Brought`), but for what those that broke off left half written |
| | `AccountsHoldThroughout` | `AccountsHold` | `AccountInv` (in `AccountsProofs`): a code that can be used has let in nobody (`CodesRight`); a name leads to an account that has it or is about to be written with it, and every request about that account knows it by this name (`NamesRight`); how far the only request about an account has brought it (`BroughtTo`); `overlap` has every account for which one decided on another row than Redis has |
| | `RecordsTyped` | `TypeOK` | the five invariants above, with the types of what each request carries |

`Delivered` reads `Spec /\ [](weak = {}) => Delivery`. `weak` gets a message when Redis does not guard its claim: the
SET failed, or the key expired after ten minutes. The code documents that such a message may be answered twice, and it may be
answered after it was lost, so that without the hypothesis the refinement does not hold. With it, all else may
happen: crashes, overlapping loops, stops at any moment, a full inbox. `OnePlace` and `PeerOrderKept` exempt the messages of `weak` one by one.

Theorems of a `*Run` module are about the specification TLC runs, for the part each is about. `SettingsCorrect` and `BotsCorrect` are about
`SettingsSpec` and `BotSpec`, those of `InboundProofs` about the `Spec` of `Inbound`, the components on their own; `RecordsAgree` and
`InboundKept` carry them over to what TLC runs (but for `Delivered`).

`CancelledStays` is the other side of the finding of `broadcast_cancel`, which shows that a cancelled broadcast may run on: a runner that
has read the row before the cancellation writes its copy back. The theorem says that this is the only way.

The provers have no induction over data. Where a proof needs one (the states of a flush, the pigeonhole principle, the first and last of a set of jobs), it takes the
least number for which the claim fails (`Least`, from the well-foundedness of the naturals). Sums over a set (`FoldFunctionOnSet`)
and the rounds of a plan, a recursive function over sets of nodes, are reasoned about by such an induction over the subsets of a finite set
(`Shrinks`, `Narrows`): `SumPeels` shows that a sum is any first element and the sum of the rest, from which `SumAdds`, `SumTimes`,
`SumParts`, `SumLess` and `SumCounts` follow; `FirstOnes` that the first k of a ranking are k; `Remains` and `RoundShares` that rounding down and giving the
rest to the largest remainders gives out everything, to each less than one off its share; `RoundsEnd` that the
rounds are well defined; and `Raised` that those left get no less when full nodes drop out.

Model-checked only: liveness (`Converges`, `FencedDrains`, `EverySettled`, `BroadcastEnds`, `NodesSettle`, `Settles`, `SettledBalanced`), which is
beyond these provers. Every invariant and every safety property of steps that a passing run checks is a theorem.

## 5. Plan

1. Done: every component of section 1 that is not marked `-`, and the theorems of section 4.
2. `HotCache` and `RateLimiter` (in-process, small), the clean-up of weights of departed nodes, pause and resume of one bot from two nodes step by step,
   the sliding window of invite quotas.
3. Composition of fleet and inbound: a poll loop of `Inbound` exists only where `BotFleet` runs one.
4. `LoadBalancer`.

Not modelled, and not planned: prompt text and formatting, the platform and media client, HTML pages, scripts,
the Python gateway, the activity stream: they keep no shared state, or lose it by design, and their content is not something these
properties tell apart.
