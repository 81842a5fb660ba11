------------------------------ MODULE BotFleet ------------------------------
(***************************************************************************)
(* The worker fleet: identical processes share the bots that want polling  *)
(* through leases kept in Redis (packages/db/src/worker-fleet.ts) and run  *)
(* one poll loop per leased bot (apps/api/src/worker.ts).                  *)
(*                                                                         *)
(* Every `await` on Redis ends an action, so that the reconcile passes,    *)
(* the admin operations and the poll loops of all processes interleave     *)
(* wherever the event loop lets them.  A process runs several tasks at     *)
(* once (the lease timer, the wake subscriber and the admin routes all     *)
(* start one without waiting for the others); `Task` names its slots.      *)
(*                                                                         *)
(* loopGen of the code is only ever compared for equality and grows with   *)
(* every start and drop, so a generation is a token that no unfinished     *)
(* loop of the same bot and process holds, and NoLoop when the last bump   *)
(* came from a drop.                                                       *)
(***************************************************************************)
EXTENDS Naturals, FiniteSets

CONSTANTS
    Worker,      \* worker ids
    Bot,         \* bot account ids, all active and with credentials
    Task,        \* asynchronous tasks one process can have in flight
    NoWorker,    \* "no lease key in Redis"
    MaxBots,     \* maxBotsPerWorker
    PromptRedis, \* a Redis round trip is shorter than the time between passes
    MaxBusy,     \* bound: tasks in flight in the whole fleet
    MaxLoops,    \* bound: unfinished poll loops of one bot, fleet-wide
    MaxFaults    \* bound: disturbances (admin operations, crashes, stalls)

ASSUME FleetConstants ==
    /\ NoWorker \notin Worker
    /\ IsFiniteSet(Bot)
    /\ MaxBots \in Nat \ {0}
    /\ PromptRedis \in BOOLEAN
    /\ MaxBusy \in Nat \ {0}
    /\ MaxLoops \in Nat \ {0}
    /\ MaxFaults \in Nat

NoLoop == 0
LoopId == 1..MaxLoops

\* Where a poll loop stands: finished, loading the bot row, in getUpdates, or
\* giving the lease back (before the GET, between the GET and the DEL).
LoopPc == {"done", "boot", "poll", "free", "del"}

TaskPc == {"idle", "reap", "boot", "fenceGet", "fenceDel", "unregGet", "unregDel",
           "renewGet", "renewSet", "claimRead", "claimSet", "claimExtra", "start",
           "shedGet", "shedDel", "pauseSrem", "pauseGet", "pauseDel",
           "resumeForce", "resumeClaim"}

VARIABLES
    pollable,  \* Redis set wa:bots:pollable
    paused,    \* bots with a paused key
    lease,     \* bot lease key: the worker named in it, or NoWorker
    index,     \* workerBots set of each worker
    fence,     \* workers with a fence key
    proc,      \* each process: "down", "up" or "stopped" (exiting)
    fenced,    \* the process's own `fenced` flag
    loops,     \* keys of the process's `loops` map
    cur,       \* loopGen: the current loop of each bot
    loop,      \* state of every loop that was started
    task,      \* the tasks in flight
    shaken,    \* history: bots whose lease was given up, forced or lost
    faults     \* disturbances left (bound)

redis == <<pollable, paused, lease, index, fence>>
local == <<proc, fenced, loops, cur, loop>>
vars == <<redis, local, task, shaken, faults>>

-----------------------------------------------------------------------------
(* Tasks: a program counter and the local variables that live across awaits *)

TaskState ==
    [pc : TaskPc,
     kind : {"pass", "restart", "resume"},  \* what a claim is part of
     bots : SUBSET Bot,          \* bots read or being acted on
     cand : SUBSET Bot,          \* claimBotLeases: pollable ids not tried yet
     won : SUBSET Bot,           \* claimBotLeases: bots kept so far
     slots : 0..MaxBots,
     whom : Worker]              \* unregister / force-offline: which worker

Idle(w) == [pc |-> "idle", kind |-> "pass", bots |-> {}, cand |-> {},
            won |-> {}, slots |-> 0, whom |-> w]

At(w, t, pc) == proc[w] # "down" /\ task[w][t].pc = pc
Busy == Cardinality({s \in Worker \X Task : task[s[1]][s[2]].pc # "idle"})
\* A running process can begin a task whatever else it has in flight.
Ready(w, t) == proc[w] = "up" /\ task[w][t].pc = "idle" /\ Busy < MaxBusy
Goto(w, t, state) == task' = [task EXCEPT ![w][t] = state]
Finish(w, t) == Goto(w, t, Idle(w))

Alive(w, b, g) == proc[w] = "up" /\ cur[w][b] = g

Disturb == faults > 0 /\ faults' = faults - 1

OwnedBy(w, B) == {b \in B : lease[b] = w}

\* The lease keys of B are deleted, and B leaves the set of worker w.
Release(w, B) ==
    /\ lease' = [b \in Bot |-> IF b \in B THEN NoWorker ELSE lease[b]]
    /\ index' = [index EXCEPT ![w] = @ \ B]
    /\ shaken' = shaken \cup B

\* The same for the leases B of worker w, whose set is deleted as a whole.
Unregister(w, B) ==
    /\ lease' = [b \in Bot |-> IF b \in B THEN NoWorker ELSE lease[b]]
    /\ index' = [index EXCEPT ![w] = {}]
    /\ shaken' = shaken \cup B

-----------------------------------------------------------------------------
(* The process's loop table *)

\* dropLocalLoop for each of B: bump the generation, delete the map entry.
DropLoops(w, B) ==
    /\ cur' = [cur EXCEPT ![w] = [b \in Bot |-> IF b \in B THEN NoLoop ELSE @[b]]]
    /\ loops' = [loops EXCEPT ![w] = @ \ B]

Unfinished(b) == {s \in Worker \X LoopId : loop[s[1]][b][s[2]] # "done"}
FreeLoopIds(w, b) == {g \in LoopId : loop[w][b][g] = "done"}
NextLoop(w, b) == CHOOSE g \in FreeLoopIds(w, b) : TRUE

\* Faulty: a stopped process goes on starting loops.
StartLoopsAlways(w, B) ==
    LET new == B \ loops[w]
    IN  /\ \A b \in new : FreeLoopIds(w, b) # {} /\ Cardinality(Unfinished(b)) < MaxLoops
        /\ loops' = [loops EXCEPT ![w] = @ \cup new]
        /\ cur' = [cur EXCEPT ![w] =
                     [b \in Bot |-> IF b \in new THEN NextLoop(w, b) ELSE @[b]]]
        /\ loop' = [loop EXCEPT ![w] =
                     [b \in Bot |-> IF b \in new
                                    THEN [@[b] EXCEPT ![NextLoop(w, b)] = "boot"]
                                    ELSE @[b]]]

\* startLoop for each of B: a stopped process starts none, and a bot that has
\* a map entry keeps its loop.
StartLoops(w, B) ==
    LET new == IF proc[w] = "up" THEN B \ loops[w] ELSE {}
    IN  /\ \A b \in new : FreeLoopIds(w, b) # {} /\ Cardinality(Unfinished(b)) < MaxLoops
        /\ loops' = [loops EXCEPT ![w] = @ \cup new]
        /\ cur' = [cur EXCEPT ![w] =
                     [b \in Bot |-> IF b \in new THEN NextLoop(w, b) ELSE @[b]]]
        /\ loop' = [loop EXCEPT ![w] =
                     [b \in Bot |-> IF b \in new
                                    THEN [@[b] EXCEPT ![NextLoop(w, b)] = "boot"]
                                    ELSE @[b]]]

\* Faulty: the finally handler does not look at the generation.
EndLoopUnguarded(w, b, g) ==
    /\ loop' = [loop EXCEPT ![w][b][g] = "done"]
    /\ loops' = [loops EXCEPT ![w] = @ \ {b}]
    /\ UNCHANGED cur

\* The loop function returns; its finally handler deletes the map entry only
\* if the entry is still this loop's.
EndLoop(w, b, g) ==
    /\ loop' = [loop EXCEPT ![w][b][g] = "done"]
    /\ IF cur[w][b] = g
       THEN DropLoops(w, {b})
       ELSE UNCHANGED <<cur, loops>>

-----------------------------------------------------------------------------
(* Process life cycle *)

\* start(): a fenced process only keeps its timer; another one first reads what
\* a dead process left (reapDeadWorkers), or the pause flags if there is none.
Start(w, t) ==
    /\ proc[w] = "down" /\ Busy < MaxBusy
    /\ proc' = [proc EXCEPT ![w] = "up"]
    /\ fenced' = [fenced EXCEPT ![w] = w \in fence]
    /\ \/ /\ w \in fence
          /\ Goto(w, t, [Idle(w) EXCEPT !.pc = "unregGet"])
       \/ /\ w \notin fence
          /\ Goto(w, t, [Idle(w) EXCEPT !.pc = "boot", !.bots = Bot \ paused])
       \/ \E d \in Worker \ {w} :
             /\ w \notin fence /\ proc[d] = "down"
             /\ Goto(w, t, [Idle(w) EXCEPT !.pc = "reap", !.whom = d,
                                           !.bots = OwnedBy(d, index[d])])
    /\ UNCHANGED <<redis, loops, cur, loop, shaken, faults>>

\* unregisterWorker of the dead process, then bootstrapPollable's reads.
Reap(w, t) ==
    /\ At(w, t, "reap")
    /\ Unregister(task[w][t].whom, task[w][t].bots)
    /\ Goto(w, t, [Idle(w) EXCEPT !.pc = "boot", !.bots = Bot \ paused])
    /\ UNCHANGED <<pollable, paused, fence, local, faults>>

\* rebuildPollableSet: SADD of the bots that were read as unpaused.
Boot(w, t) ==
    /\ At(w, t, "boot")
    /\ pollable' = pollable \cup task[w][t].bots
    /\ Finish(w, t)
    /\ UNCHANGED <<paused, lease, index, fence, local, shaken, faults>>

\* stopAsync: every loop is told to stop, then unregisterWorker runs.  Tasks in
\* flight are not cancelled.
Stop(w, t) ==
    /\ Ready(w, t) /\ Disturb
    /\ proc' = [proc EXCEPT ![w] = "stopped"]
    /\ DropLoops(w, Bot)
    /\ Goto(w, t, [Idle(w) EXCEPT !.pc = "unregGet"])
    /\ UNCHANGED <<redis, fenced, loop, shaken>>

\* The process is gone, with its loops and its tasks; Redis keeps its keys.
Die(w) ==
    /\ proc' = [proc EXCEPT ![w] = "down"]
    /\ fenced' = [fenced EXCEPT ![w] = FALSE]
    /\ DropLoops(w, Bot)
    /\ loop' = [loop EXCEPT ![w] = [b \in Bot |-> [g \in LoopId |-> "done"]]]
    /\ task' = [task EXCEPT ![w] = [t \in Task |-> Idle(w)]]
    /\ UNCHANGED <<redis, shaken>>

Exit(w) == proc[w] = "stopped" /\ Die(w) /\ UNCHANGED faults
Crash(w) == proc[w] # "down" /\ Disturb /\ Die(w)

-----------------------------------------------------------------------------
(* unregisterWorker, and the same steps in forceOfflineWorker *)

\* SMEMBERS of the worker's set and GET of the leases it lists.
UnregGet(w, t) ==
    /\ At(w, t, "unregGet")
    /\ Goto(w, t, [task[w][t] EXCEPT !.pc = "unregDel",
                     !.bots = OwnedBy(task[w][t].whom, index[task[w][t].whom])])
    /\ UNCHANGED <<redis, local, shaken, faults>>

\* DEL of those leases, then of the whole set.
UnregDel(w, t) ==
    /\ At(w, t, "unregDel")
    /\ Unregister(task[w][t].whom, task[w][t].bots)
    /\ Finish(w, t)
    /\ UNCHANGED <<pollable, paused, fence, local, faults>>

-----------------------------------------------------------------------------
(* A reconcile pass *)

\* A renewal, a loop's start or a loop's release waits for Redis.
RoundTripPending ==
    \/ \E x \in Worker, u \in Task : task[x][u].pc = "renewSet"
    \/ \E x \in Worker, b \in Bot, g \in LoopId : loop[x][b][g] \in {"boot", "free", "del"}

\* The lease timer or a wake starts a pass, whatever else is in flight;
\* applyFenceState reads the fence key first.
CheckFence(w, t) ==
    /\ Ready(w, t)
    /\ PromptRedis => ~RoundTripPending
    /\ fenced' = [fenced EXCEPT ![w] = w \in fence]
    /\ Goto(w, t, [Idle(w) EXCEPT !.bots = loops[w],
                     !.pc = IF w \notin fence THEN "renewGet"
                            ELSE IF loops[w] # {} THEN "fenceGet" ELSE "unregGet"])
    /\ UNCHANGED <<redis, proc, loops, cur, loop, shaken, faults>>

\* releaseOwnedLeasesBatch: GET the owners ...
FenceGet(w, t) ==
    /\ At(w, t, "fenceGet")
    /\ Goto(w, t, [task[w][t] EXCEPT !.pc = "fenceDel", !.cand = task[w][t].bots,
                                     !.bots = OwnedBy(w, @)])
    /\ UNCHANGED <<redis, local, shaken, faults>>

\* Faulty: the leases go, the loops stay.
FenceDelKeepsLoops(w, t) ==
    /\ At(w, t, "fenceDel")
    /\ Release(w, task[w][t].bots)
    /\ Goto(w, t, [Idle(w) EXCEPT !.pc = "unregGet"])
    /\ UNCHANGED <<pollable, paused, fence, local, faults>>

\* ... DEL what is ours, and drop every loop of the snapshot.
FenceDel(w, t) ==
    /\ At(w, t, "fenceDel")
    /\ Release(w, task[w][t].bots)
    /\ DropLoops(w, task[w][t].cand)
    /\ Goto(w, t, [Idle(w) EXCEPT !.pc = "unregGet"])
    /\ UNCHANGED <<pollable, paused, fence, proc, fenced, loop, faults>>

\* renewOwnedLeases: GET the owners ...
RenewGet(w, t) ==
    /\ At(w, t, "renewGet")
    /\ Goto(w, t, [task[w][t] EXCEPT !.pc = "renewSet", !.cand = task[w][t].bots,
                                     !.bots = OwnedBy(w, @)])
    /\ UNCHANGED <<redis, local, shaken, faults>>

\* Faulty: one bot too many.
FreeSlotsInclusive(w) == IF Cardinality(loops[w]) <= MaxBots
                         THEN MaxBots + 1 - Cardinality(loops[w]) ELSE 0

FreeSlots(w) == IF Cardinality(loops[w]) < MaxBots
                THEN MaxBots - Cardinality(loops[w]) ELSE 0

\* Faulty: the ids reported as lost are only logged.
LostLoopsIgnored(w, t) == {}

LostLoops(w, t) == task[w][t].cand \ task[w][t].bots

\* ... SET those that were ours, drop the loops of the others, and work out
\* the room for new bots.
RenewSet(w, t) ==
    LET ours == task[w][t].bots
        lost == LostLoops(w, t)
    IN  /\ At(w, t, "renewSet")
        /\ lease' = [b \in Bot |-> IF b \in ours THEN w ELSE lease[b]]
        /\ index' = [index EXCEPT ![w] = @ \ lost]
        /\ DropLoops(w, lost)
        /\ Goto(w, t, [Idle(w) EXCEPT !.pc = IF FreeSlots(w)' > 0 THEN "claimRead"
                                             ELSE "shedGet",
                                      !.slots = FreeSlots(w)'])
        /\ UNCHANGED <<pollable, paused, fence, proc, fenced, loop, shaken, faults>>

\* claimBotLeases: SMEMBERS of the pollable bots.
ClaimRead(w, t) ==
    /\ At(w, t, "claimRead")
    /\ Goto(w, t, [task[w][t] EXCEPT !.pc = IF pollable = {} THEN "start" ELSE "claimSet",
                                     !.cand = pollable, !.bots = {}])
    /\ UNCHANGED <<redis, local, shaken, faults>>

\* Faulty: SET without NX.
SetPlain(B) == B

\* The bots of B for which SET NX succeeds.
SetNx(B) == OwnedBy(NoWorker, B)

\* One batch, in the shuffled order: SET NX up to twice as many as are needed,
\* then SADD of those that are kept.
ClaimSet(w, t) ==
    LET me   == task[w][t]
        need == me.slots - Cardinality(me.won)
    IN  /\ At(w, t, "claimSet")
        /\ \E batch \in SUBSET me.cand :
             /\ Cardinality(batch) = 2 * need
                  \/ (batch = me.cand /\ Cardinality(batch) < 2 * need)
             /\ LET got == SetNx(batch) IN
                \E keep \in SUBSET got :
                  /\ Cardinality(keep) = need
                       \/ (keep = got /\ Cardinality(got) < need)
                  /\ lease' = [b \in Bot |-> IF b \in got THEN w ELSE lease[b]]
                  /\ index' = [index EXCEPT ![w] = @ \cup keep]
                  /\ LET again == Cardinality(keep) < need /\ batch # me.cand IN
                     Goto(w, t, [me EXCEPT !.cand = @ \ batch, !.won = @ \cup keep,
                                           !.bots = got \ keep,
                                           !.pc = IF got # keep THEN "claimExtra"
                                                  ELSE IF again THEN "claimSet"
                                                  ELSE "start"])
        /\ UNCHANGED <<pollable, paused, fence, local, shaken, faults>>

\* The leases that were won beyond the need are deleted, whoever holds them now.
ClaimExtra(w, t) ==
    /\ At(w, t, "claimExtra")
    /\ lease' = [b \in Bot |-> IF b \in task[w][t].bots THEN NoWorker ELSE lease[b]]
    /\ Goto(w, t, [task[w][t] EXCEPT !.pc = "start", !.bots = {}])
    /\ UNCHANGED <<pollable, paused, index, fence, local, shaken, faults>>

\* The caller starts a loop for every bot that was claimed.  A pass goes on to
\* shed; resumeAndMaybeClaim goes on to fill the free slots.
StartClaimed(w, t) ==
    LET me == task[w][t] IN
    /\ At(w, t, "start")
    /\ StartLoops(w, me.won)
    /\ CASE me.kind = "pass"   -> Goto(w, t, [Idle(w) EXCEPT !.pc = "shedGet"])
         [] me.kind = "resume" -> Finish(w, t)
         [] me.kind = "restart" ->
              IF FreeSlots(w)' > 0
              THEN Goto(w, t, [Idle(w) EXCEPT !.pc = "claimRead", !.kind = "resume",
                                              !.slots = FreeSlots(w)'])
              ELSE Finish(w, t)
    /\ UNCHANGED <<redis, proc, fenced, shaken, faults>>

\* maybeRebalanceShed: some of the loops are to go (how many is LoadPlan's
\* business), releaseOwnedLeasesBatch reads their owners ...
ShedGet(w, t) ==
    /\ At(w, t, "shedGet")
    /\ \E S \in SUBSET loops[w] :
         /\ IF S = {} THEN UNCHANGED faults ELSE Disturb
         /\ IF OwnedBy(w, S) = {}
            THEN Finish(w, t)
            ELSE Goto(w, t, [Idle(w) EXCEPT !.pc = "shedDel", !.bots = OwnedBy(w, S)])
    /\ UNCHANGED <<redis, local, shaken>>

\* ... and deletes those that are ours, before their loops are dropped.
ShedDel(w, t) ==
    /\ At(w, t, "shedDel")
    /\ Release(w, task[w][t].bots)
    /\ DropLoops(w, task[w][t].bots)
    /\ Finish(w, t)
    /\ UNCHANGED <<pollable, paused, fence, proc, fenced, loop, faults>>

-----------------------------------------------------------------------------
(* Admin operations, handled by the process that got the request *)

\* stopBot: SET paused and the GET of this worker's own releaseBotLease go out
\* together, and the local loop is dropped at once.
StopBot(w, t, b) ==
    /\ Ready(w, t) /\ Disturb
    /\ paused' = paused \cup {b}
    /\ DropLoops(w, {b})
    /\ Goto(w, t, [Idle(w) EXCEPT !.pc = "pauseSrem", !.bots = {b},
                                  !.cand = OwnedBy(w, {b})])
    /\ UNCHANGED <<pollable, lease, index, fence, proc, fenced, loop, shaken>>

\* SREM from the pollable set; the release deletes the lease if it was ours.
PauseSrem(w, t) ==
    LET me == task[w][t] IN
    /\ At(w, t, "pauseSrem")
    /\ pollable' = pollable \ me.bots
    /\ lease' = [b \in Bot |-> IF b \in me.cand THEN NoWorker ELSE lease[b]]
    /\ index' = [index EXCEPT ![w] = @ \ me.bots]
    /\ shaken' = shaken \cup me.cand
    /\ Goto(w, t, [me EXCEPT !.pc = "pauseGet", !.cand = {}])
    /\ UNCHANGED <<paused, fence, local, faults>>

\* forceReleaseBotLease: GET of the owner, only used for its set ...
OwnerRead(w, b) == IF lease[b] = NoWorker THEN w ELSE lease[b]

PauseGet(w, t) ==
    /\ At(w, t, "pauseGet")
    /\ \E b \in task[w][t].bots :
         Goto(w, t, [task[w][t] EXCEPT !.pc = "pauseDel", !.whom = OwnerRead(w, b)])
    /\ UNCHANGED <<redis, local, shaken, faults>>

\* ... and DEL of the lease, whoever holds it by now.
PauseDel(w, t) ==
    /\ At(w, t, "pauseDel")
    /\ Release(task[w][t].whom, task[w][t].bots)
    /\ Finish(w, t)
    /\ UNCHANGED <<pollable, paused, fence, local, faults>>

\* resumeBotPolling sends the unpausing pipeline and the GET of
\* forceReleaseBotLease together.
Resume(w, t, b) ==
    /\ Ready(w, t) /\ ~fenced[w] /\ Disturb
    /\ paused' = paused \ {b}
    /\ pollable' = pollable \cup {b}
    /\ Goto(w, t, [Idle(w) EXCEPT !.pc = "resumeForce", !.bots = {b},
                                  !.whom = OwnerRead(w, b)])
    /\ UNCHANGED <<lease, index, fence, proc, fenced, loop, shaken>>

\* After a re-scan or from the admin page: the local loop is dropped first.
RestartBot(w, t, b) == Resume(w, t, b) /\ DropLoops(w, {b})
\* After a first login: it is not.
EnsureLoop(w, t, b) == Resume(w, t, b) /\ UNCHANGED <<cur, loops>>

\* DEL of the lease, then the capacity check.
ResumeForce(w, t) ==
    LET me == task[w][t] IN
    /\ At(w, t, "resumeForce")
    /\ Release(me.whom, me.bots)
    /\ IF FreeSlots(w) = 0 THEN Finish(w, t)
       ELSE Goto(w, t, [Idle(w) EXCEPT !.pc = "resumeClaim", !.bots = me.bots])
    /\ UNCHANGED <<pollable, paused, fence, local, faults>>

\* SET NX of this bot for this worker, and SADD.
ResumeClaim(w, t) ==
    LET got == SetNx(task[w][t].bots) IN
    /\ At(w, t, "resumeClaim")
    /\ lease' = [b \in Bot |-> IF b \in got THEN w ELSE lease[b]]
    /\ index' = [index EXCEPT ![w] = @ \cup got]
    /\ Goto(w, t, [Idle(w) EXCEPT !.pc = "start", !.kind = "restart", !.won = got])
    /\ UNCHANGED <<pollable, paused, fence, local, shaken, faults>>

\* forceOfflineWorker writes the fence key first, then does as unregisterWorker.
ForceOffline(w, t, x) ==
    /\ Ready(w, t) /\ Disturb
    /\ fence' = fence \cup {x}
    /\ Goto(w, t, [Idle(w) EXCEPT !.pc = "unregGet", !.whom = x])
    /\ UNCHANGED <<pollable, paused, lease, index, local, shaken>>

\* The fence key expires (WORKER_STALE_SEC) or an admin clears it.
FenceGone(w) ==
    /\ w \in fence
    /\ fence' = fence \ {w}
    /\ UNCHANGED <<pollable, paused, lease, index, local, task, shaken, faults>>

-----------------------------------------------------------------------------
(* Lease expiry: the TTL is several renewal periods long *)

\* A bot that a task of w has claimed or is about to renew or give up.
InFlight(w, b) == \E t \in Task : b \in task[w][t].won \cup task[w][t].bots

\* Nobody renews the lease any more: its owner is down or has no loop for it.
ExpireUnrenewed(b) ==
    /\ lease[b] # NoWorker
    /\ b \notin loops[lease[b]] /\ ~InFlight(lease[b], b)
    /\ lease' = [lease EXCEPT ![b] = NoWorker]
    /\ UNCHANGED <<pollable, paused, index, fence, local, task, shaken, faults>>

\* The owner is too slow to renew it in time (a stalled or cut-off process).
ExpireStalled(b) ==
    /\ lease[b] # NoWorker /\ Disturb
    /\ lease' = [lease EXCEPT ![b] = NoWorker]
    /\ shaken' = shaken \cup {b}
    /\ UNCHANGED <<pollable, paused, index, fence, local, task>>

-----------------------------------------------------------------------------
(* runPollLoop *)

MoveLoop(w, b, g, pc) ==
    /\ loop' = [loop EXCEPT ![w][b][g] = pc]
    /\ UNCHANGED <<redis, proc, fenced, loops, cur, task, shaken>>

\* The bot row and token have arrived.  A loop that was dropped meanwhile goes
\* the way of a bot that is gone: it gives the lease back.
LoopBoot(w, b, g) ==
    /\ loop[w][b][g] = "boot"
    /\ MoveLoop(w, b, g, IF Alive(w, b, g) THEN "poll" ELSE "free")
    /\ UNCHANGED faults

\* Row or token missing, or Redis failed.
LoopBootFails(w, b, g) ==
    /\ loop[w][b][g] = "boot" /\ Disturb
    /\ MoveLoop(w, b, g, "free")

\* getUpdates returns to a loop that was told to stop: the result is discarded.
LoopStops(w, b, g) ==
    /\ loop[w][b][g] = "poll" /\ ~Alive(w, b, g)
    /\ EndLoop(w, b, g)
    /\ UNCHANGED <<redis, proc, fenced, task, shaken, faults>>

\* getUpdates fails with -14, or the bot is no longer active: release and end,
\* without asking whether the loop is still the current one.
SessionExpired(w, b, g) ==
    /\ loop[w][b][g] = "poll" /\ Disturb
    /\ MoveLoop(w, b, g, "free")

\* releaseBotLease: GET ...
FreeGet(w, b, g) ==
    /\ loop[w][b][g] = "free"
    /\ IF lease[b] = w
       THEN MoveLoop(w, b, g, "del")
       ELSE /\ index' = [index EXCEPT ![w] = @ \ {b}]
            /\ EndLoop(w, b, g)
            /\ UNCHANGED <<pollable, paused, lease, fence, proc, fenced, task, shaken>>
    /\ UNCHANGED faults

\* ... DEL and SREM, and the loop returns.
FreeDel(w, b, g) ==
    /\ loop[w][b][g] = "del"
    /\ Release(w, {b})
    /\ EndLoop(w, b, g)
    /\ UNCHANGED <<pollable, paused, fence, proc, fenced, task, faults>>

-----------------------------------------------------------------------------

Init ==
    /\ pollable = {} /\ paused = {} /\ fence = {} /\ shaken = {}
    /\ lease = [b \in Bot |-> NoWorker]
    /\ index = [w \in Worker |-> {}]
    /\ proc = [w \in Worker |-> "down"]
    /\ fenced = [w \in Worker |-> FALSE]
    /\ loops = [w \in Worker |-> {}]
    /\ cur = [w \in Worker |-> [b \in Bot |-> NoLoop]]
    /\ loop = [w \in Worker |-> [b \in Bot |-> [g \in LoopId |-> "done"]]]
    /\ task = [w \in Worker |-> [t \in Task |-> Idle(w)]]
    /\ faults = MaxFaults

\* What a process does by itself: the next step of a task, or a new pass.
TaskStep(w, t) ==
    \/ CheckFence(w, t) \/ FenceGet(w, t) \/ FenceDel(w, t)
    \/ RenewGet(w, t) \/ RenewSet(w, t)
    \/ ClaimRead(w, t) \/ ClaimSet(w, t) \/ ClaimExtra(w, t) \/ StartClaimed(w, t)
    \/ ShedGet(w, t) \/ ShedDel(w, t)
    \/ Reap(w, t) \/ Boot(w, t) \/ UnregGet(w, t) \/ UnregDel(w, t)
    \/ PauseSrem(w, t) \/ PauseGet(w, t) \/ PauseDel(w, t)
    \/ ResumeForce(w, t) \/ ResumeClaim(w, t)

AdminStep(w, t) ==
    \/ \E b \in Bot : StopBot(w, t, b) \/ RestartBot(w, t, b) \/ EnsureLoop(w, t, b)
    \/ \E x \in Worker : ForceOffline(w, t, x)
    \/ Stop(w, t)

\* What a poll loop does by itself.
LoopStep(w, b, g) ==
    LoopBoot(w, b, g) \/ LoopStops(w, b, g) \/ FreeGet(w, b, g) \/ FreeDel(w, b, g)

LoopFault(w, b, g) == LoopBootFails(w, b, g) \/ SessionExpired(w, b, g)

Next ==
    \/ \E w \in Worker, t \in Task : Start(w, t) \/ TaskStep(w, t) \/ AdminStep(w, t)
    \/ \E w \in Worker, b \in Bot, g \in LoopId : LoopStep(w, b, g) \/ LoopFault(w, b, g)
    \/ \E w \in Worker : Exit(w) \/ Crash(w) \/ FenceGone(w)
    \/ \E b \in Bot : ExpireUnrenewed(b) \/ ExpireStalled(b)

Spec == Init /\ [][Next]_vars

\* The timers fire again and again, Redis answers, getUpdates returns, keys expire, and the
\* supervisor restarts a process that exited.
Fairness ==
    /\ \A w \in Worker, t \in Task : SF_vars(TaskStep(w, t))
    /\ \A w \in Worker, b \in Bot, g \in LoopId : WF_vars(LoopStep(w, b, g))
    /\ \A w \in Worker : WF_vars(\E t \in Task : Start(w, t)) /\ WF_vars(Exit(w))
    /\ \A b \in Bot : WF_vars(ExpireUnrenewed(b))

FairSpec == Spec /\ Fairness

-----------------------------------------------------------------------------
(* Properties *)

TypeOK ==
    /\ pollable \subseteq Bot /\ paused \subseteq Bot /\ fence \subseteq Worker
    /\ lease \in [Bot -> Worker \cup {NoWorker}]
    /\ index \in [Worker -> SUBSET Bot]
    /\ proc \in [Worker -> {"down", "up", "stopped"}]
    /\ fenced \in [Worker -> BOOLEAN]
    /\ loops \in [Worker -> SUBSET Bot]
    /\ cur \in [Worker -> [Bot -> LoopId \cup {NoLoop}]]
    /\ loop \in [Worker -> [Bot -> [LoopId -> LoopPc]]]
    /\ task \in [Worker -> [Task -> TaskState]]
    /\ shaken \subseteq Bot
    /\ faults \in 0..MaxFaults

\* The loops map lists exactly the bots whose current loop is running: an entry
\* without a running loop would be renewed and never polled, and a running
\* loop without an entry would poll with nobody renewing or dropping it
\* (startLoop, dropLocalLoop and the finally handler keep this together).
LoopTableExact ==
    \A w \in Worker, b \in Bot :
        /\ b \in loops[w] <=> cur[w][b] # NoLoop
        /\ cur[w][b] # NoLoop => loop[w][b][cur[w][b]] # "done"

\* A process that was told to stop polls nothing, although tasks it had in
\* flight go on claiming (the `stopped` check of startLoop).
StoppedPollsNothing ==
    \A w \in Worker : proc[w] # "up" => loops[w] = {}

\* As long as a bot's lease has only been claimed, renewed and left to expire
\* behind a dead process, by any number of overlapping passes, at most one
\* worker polls the bot, and it holds the lease ("without double-poll").
UnshakenSinglePoller ==
    \A b \in Bot \ shaken : \A w \in Worker : b \in loops[w] => lease[b] = w

\* Once the disturbances end and the fences have expired, every bot that wants polling ends up, and stays,
\* with one poller, which holds its lease, whatever double polling and lost
\* leases they left.
Served(b) ==
    \E w \in Worker : /\ lease[b] = w /\ b \in loops[w]
                     /\ \A x \in Worker \ {w} : b \notin loops[x]
Converges == <>[](fence = {}) => <>[](\A b \in pollable : Served(b))

\* A worker that an admin forced offline polls nothing after a while, for as
\* long as the fence key lives (it outlives several passes).
FencedDrains == \A w \in Worker : []<>(w \notin fence \/ loops[w] = {})

\* "Stop polling a bot (delete or admin stop-worker)": a bot that stays paused is
\* in the end polled by nobody.
PauseStops ==
    \A b \in Bot : <>[](b \in paused) => <>[](\A w \in Worker : b \notin loops[w])

=============================================================================
