------------------------------ MODULE Inbound ------------------------------
(***************************************************************************)
(* The way of an inbound message of one bot from the upstream service to   *)
(* its reply (apps/api/src/worker.ts, adaptive-reply-batcher.ts): a poll   *)
(* loop fetches messages after its cursor, claims each one with a Redis    *)
(* SET NX, and hands it to the batcher or, when it is answered without the *)
(* model (rate limit, peer-to-peer relay, preflight), straight to the      *)
(* inbox; reply consumers take jobs from the inbox and run them one after  *)
(* the other on the chain of their peer.                                   *)
(*                                                                         *)
(* Which node polls the bot is decided by the leases of BotFleet, which    *)
(* may overlap for a while; here any running node may start a loop, so     *)
(* every overlap is covered.  Messages are numbered in upstream order; a    *)
(* cursor is the number of the last message it stands behind, and a poll   *)
(* returns any number of those after it, so that they arrive at any time.  *)
(* Batch deadlines are left open too: a batch may close at any moment.     *)
(***************************************************************************)
EXTENDS Naturals, FiniteSets, SequencesExt

CONSTANTS
    Node,       \* worker processes
    Peer,       \* chat partners of the bot
    PeerOf,     \* the peer each message comes from
    MaxMsg,     \* bound: messages waiting at the upstream service
    Slots,      \* bound: poll loops of one node that have not ended yet
    Consumers,  \* replyConcurrency
    InboxMax,   \* inboxMaxLen
    RedisFails, \* the SET of a claim may fail
    MaxFaults   \* bound: disturbances

Msg == 1..MaxMsg
Slot == 1..Slots

ASSUME InboundConstants ==
    /\ MaxMsg \in Nat /\ Slots \in Nat /\ IsFiniteSet(Peer)
    /\ PeerOf \in [Msg -> Peer]
    /\ Consumers \in Nat \ {0}
    /\ InboxMax \in Nat \ {0}
    /\ RedisFails \in BOOLEAN
    /\ MaxFaults \in Nat

VARIABLES
    cursor,   \* updates_cursor of the bot row in Redis
    seen,     \* messages with a wa:inbound:seen key
    proc,     \* each process: "down", "up", or a stage of its shutdown
    loop,     \* the poll loops of each node
    local,    \* inboundSeen: messages this process knows to be claimed
    client,   \* the process has an iLink client for the bot
    pipe,     \* batcher, inbox and peer chains of each process
    claimed,  \* history: messages some loop has claimed
    answered, \* history: how often each message was answered (2 = twice or more)
    lost,     \* history: what became of a claimed message that was dropped
    weak,     \* history: messages whose claim Redis did not guard throughout
    overlap,  \* history: a loop started here while an older one held messages
    faults    \* disturbances left (bound)

store == <<cursor, seen>>
past == <<claimed, answered, lost, weak, overlap>>
vars == <<store, proc, loop, local, client, pipe, past, faults>>

\* Reasons for a loss: inbox full, batcher stopped, no client, process gone.
Reason == {"no", "full", "gate", "client", "crash", "exit"}

\* Stages of a shutdown: the inbox is drained, the chains are waited for, the
\* clients are dropped (in time, or cut off by the deadline).
ProcState == {"down", "up", "draining", "closing", "closed", "cutoff"}
LoopPc == {"off", "boot", "poll", "claim", "route", "save"}
NoLoop == [pc |-> "off", live |-> FALSE, pos |-> 0, buf |-> 0, batch |-> <<>>]

\* A reply job: the messages of a closed batch or one direct message, and
\* whether the shutdown's drain took it from the inbox instead of a consumer.
Job == [msgs : Seq(Msg), direct : BOOLEAN, drain : BOOLEAN]
NewJob(ms, direct) == [msgs |-> ms, direct |-> direct, drain |-> FALSE]
JobPeer(job) == PeerOf[Head(job.msgs)]

EmptyPipe == [open |-> [p \in Peer |-> <<>>], inbox |-> <<>>,
              chain |-> [p \in Peer |-> <<>>], busy |-> {}]

Disturb == faults > 0 /\ faults' = faults - 1
Undisturbed == UNCHANGED faults
Mark(S, reason) == [m \in Msg |-> IF m \in S THEN reason ELSE lost[m]]

-----------------------------------------------------------------------------
(* Inbox, consumers and peer chains of one process.  The operators map a    *)
(* pipe to a pipe; `up` says whether consumers still take jobs.             *)

Taken(q, drain) ==
    {s \in Peer \X (1..(Consumers + 1)) :
        s[2] \in DOMAIN q.chain[s[1]] /\ q.chain[s[1]][s[2]].drain = drain}

\* Consumers that wait for their job to finish on a chain.
Occupied(q) == Cardinality(Taken(q, FALSE))

\* Faulty: one consumer too many.
IdleConsumerInclusive(q, up) == up /\ Occupied(q) <= Consumers
IdleConsumer(q, up) == up /\ Occupied(q) < Consumers

Enchain(q, job) == [q EXCEPT !.chain[JobPeer(job)] = Append(@, job)]

\* pushInbox: a waiting consumer gets the job, otherwise it is queued, or
\* dropped when the inbox is full.
Push(q, up, job) ==
    IF IdleConsumer(q, up) THEN Enchain(q, job)
    ELSE IF Len(q.inbox) < InboxMax THEN [q EXCEPT !.inbox = Append(@, job)]
    ELSE q

\* Faulty: a consumer that has finished waits although jobs are queued.
TakeNothing(q, up) == q

\* A consumer that has finished a job takes the next one, if there is one.
TakeNext(q, up) ==
    IF IdleConsumer(q, up) /\ q.inbox # <<>>
    THEN Enchain([q EXCEPT !.inbox = Tail(@)], Head(q.inbox)) ELSE q

\* The job at the head of the chain of p is over.
Finish(q, up, p) ==
    TakeNext([q EXCEPT !.chain[p] = Tail(@), !.busy = @ \ {p}], up)

\* Faulty: the newest item comes first in its batch.
AddInFront(q, p, m) == [q EXCEPT !.open[p] = <<m>> \o @]

\* AdaptiveReplyBatcher.add on a running batcher.
AddItem(q, p, m) == [q EXCEPT !.open[p] = Append(@, m)]

\* AdaptiveReplyBatcher.close and enqueueClosedBatch.
Close(q, up, p) ==
    IF q.open[p] = <<>> THEN q
    ELSE Push([q EXCEPT !.open[p] = <<>>], up, NewJob(q.open[p], FALSE))

\* Faulty: the batcher is stopped without closing its open batches.
FlushNothing(q, order) == q

\* flush: close every open batch now, one after the other.
Flushed(q, order) ==
    LET after[i \in 0..Len(order)] ==
            IF i = 0 THEN q ELSE Close(after[i - 1], TRUE, order[i])
    IN  after
Flush(q, order) == Flushed(q, order)[Len(order)]

JobMsgs(jobs) == UNION {ToSet(jobs[i].msgs) : i \in DOMAIN jobs}
Held(q) == (UNION {ToSet(q.open[p]) \cup JobMsgs(q.chain[p]) : p \in Peer})
             \cup JobMsgs(q.inbox)

\* Process n's pipe becomes q; of the messages S just pushed, those the inbox
\* had no room for are gone.
Deliver(n, q, S) ==
    /\ pipe' = [pipe EXCEPT ![n] = q]
    /\ lost' = Mark(S \ Held(q), "full")

-----------------------------------------------------------------------------
(* Poll loops *)

Goto(n, k, state) == loop' = [loop EXCEPT ![n][k] = state]
HasProcess(n) == proc[n] # "down"
Up(n) == proc[n] = "up"

\* alive() of runPollLoop: this loop is current and the process not stopped.
Alive(n, k) == Up(n) /\ loop[n][k].live

\* A message this loop has claimed and not passed on yet.
InHand(n) == {Head(loop[n][k].batch) : k \in {k \in Slot : loop[n][k].pc = "route"}}

\* startLoop: one current loop per bot; the ones it replaces run on until they
\* look at alive() again.
StartLoop(n, k) ==
    /\ Up(n) /\ loop[n][k].pc = "off" /\ \A j \in Slot : ~loop[n][j].live
    /\ Goto(n, k, [NoLoop EXCEPT !.pc = "boot", !.live = TRUE])
    /\ overlap' = IF \E j \in Slot : loop[n][j].pc \in {"claim", "route"}
                  THEN overlap \cup {n} ELSE overlap
    /\ Undisturbed
    /\ UNCHANGED <<store, proc, local, client, pipe, claimed, answered, lost, weak>>

\* The bot row is loaded and the loop set up; a loop that was replaced in the
\* meantime gives up before that.
BootLoop(n, k) ==
    /\ HasProcess(n) /\ loop[n][k].pc = "boot"
    /\ IF Alive(n, k)
       THEN /\ Goto(n, k, [loop[n][k] EXCEPT !.pc = "poll", !.pos = cursor])
            /\ client' = client \cup {n}
       ELSE Goto(n, k, NoLoop) /\ UNCHANGED client
    /\ Undisturbed
    /\ UNCHANGED <<store, proc, local, pipe, past>>

\* A loop that finds itself replaced ends, before or after getUpdates.
EndLoop(n, k) ==
    /\ HasProcess(n) /\ loop[n][k].pc = "poll" /\ ~Alive(n, k)
    /\ Goto(n, k, NoLoop)
    /\ Undisturbed
    /\ UNCHANGED <<store, proc, local, client, pipe, past>>

\* Bot inactive, session expired, or the bot row cannot be loaded.
QuitLoop(n, k) ==
    /\ Alive(n, k) /\ loop[n][k].pc \in {"boot", "poll"}
    /\ Disturb
    /\ Goto(n, k, NoLoop)
    /\ UNCHANGED <<store, proc, local, client, pipe, past>>

\* getUpdates returns the messages up to number j; `fresh` says whether it also
\* returns a cursor behind them.
GetUpdates(n, k, j, fresh) ==
    /\ Alive(n, k) /\ loop[n][k].pc = "poll"
    /\ j \in (loop[n][k].pos + 1)..MaxMsg
    /\ IF fresh THEN Undisturbed ELSE Disturb
    /\ LET pos == loop[n][k].pos
       IN  Goto(n, k, [loop[n][k] EXCEPT !.pc = "claim",
                                         !.batch = [i \in 1..(j - pos) |-> pos + i],
                                         !.buf = IF fresh THEN j ELSE pos])
    /\ UNCHANGED <<store, proc, local, client, pipe, past>>

-----------------------------------------------------------------------------
(* acceptInboundMessage, for the first message of the loop's batch *)

\* Faulty: a duplicate ends the batch.
NextMessageBreaks(l) == [l EXCEPT !.batch = <<>>, !.pc = "save"]

\* The loop is through with the first message of its batch.
NextMessage(l) ==
    [l EXCEPT !.batch = Tail(@), !.pc = IF Len(l.batch) = 1 THEN "save" ELSE "claim"]

\* Faulty: the answer of SET NX is ignored.
KnownLocally(n, m) == m \in local[n]

\* claimInboundOnce: the local map filters, the Redis key decides.
Known(n, m) == m \in local[n] \cup seen

\* Remember the client if there is none, then claim the message.  When Redis
\* fails the local map alone decides.
Claim(n, k) ==
    LET l == loop[n][k]
        m == Head(l.batch)
    IN  /\ HasProcess(n) /\ l.pc = "claim"
        /\ client' = client \cup {n}
        /\ local' = [local EXCEPT ![n] = @ \cup {m}]
        /\ \/ /\ Known(n, m)
              /\ Goto(n, k, NextMessage(l))
              /\ Undisturbed
              /\ UNCHANGED <<seen, claimed, weak>>
           \/ /\ ~Known(n, m)
              /\ Goto(n, k, [l EXCEPT !.pc = "route"])
              /\ seen' = seen \cup {m}
              /\ claimed' = claimed \cup {m}
              /\ Undisturbed
              /\ UNCHANGED weak
           \/ /\ RedisFails /\ m \notin local[n]
              /\ Goto(n, k, [l EXCEPT !.pc = "route"])
              /\ claimed' = claimed \cup {m}
              /\ weak' = weak \cup {m}
              /\ Disturb
              /\ UNCHANGED seen
        /\ UNCHANGED <<cursor, proc, pipe, answered, lost, overlap>>

\* Rate limited, handled by the peer-to-peer relay or by preflight: the job goes
\* to the inbox at once, also on a stopping node.
RouteDirect(n, k) ==
    LET m == Head(loop[n][k].batch)
    IN  /\ HasProcess(n) /\ loop[n][k].pc = "route"
        /\ Goto(n, k, NextMessage(loop[n][k]))
        /\ Deliver(n, Push(pipe[n], Up(n), NewJob(<<m>>, TRUE)), {m})
        /\ Undisturbed
        /\ UNCHANGED <<store, proc, local, client, claimed, answered, weak, overlap>>

\* Ordinary chat goes to the batcher, which a stopping node has closed.
RouteBatch(n, k) ==
    LET m == Head(loop[n][k].batch)
    IN  /\ HasProcess(n) /\ loop[n][k].pc = "route"
        /\ Goto(n, k, NextMessage(loop[n][k]))
        /\ IF Up(n)
           THEN /\ pipe' = [pipe EXCEPT ![n] = AddItem(@, PeerOf[m], m)]
                /\ UNCHANGED lost
           ELSE /\ lost' = Mark({m}, "gate")
                /\ UNCHANGED pipe
        /\ Undisturbed
        /\ UNCHANGED <<store, proc, local, client, claimed, answered, weak, overlap>>

\* The whole batch is accepted: setBotCursor, then the cursor in memory.  The
\* row is read and written back, so a lagging loop can move it backwards; a
\* failed write is only logged.
SaveCursor(n, k) ==
    LET l == loop[n][k]
    IN  /\ HasProcess(n) /\ l.pc = "save"
        /\ Goto(n, k, [l EXCEPT !.pc = "poll", !.pos = l.buf])
        /\ \/ /\ cursor' = IF l.buf # l.pos THEN l.buf ELSE cursor
              /\ Undisturbed
           \/ Disturb /\ UNCHANGED cursor
        /\ UNCHANGED <<seen, proc, local, client, pipe, past>>

-----------------------------------------------------------------------------
(* Batches, reply jobs *)

CloseBatch(n, p) ==
    /\ Up(n) /\ pipe[n].open[p] # <<>>
    /\ Deliver(n, Close(pipe[n], TRUE, p), ToSet(pipe[n].open[p]))
    /\ Undisturbed
    /\ UNCHANGED <<store, proc, loop, local, client, claimed, answered, weak, overlap>>

\* handleJobInner begins; without a client the job is dropped.
BeginJob(n, p) ==
    LET q == pipe[n]
    IN  /\ HasProcess(n) /\ q.chain[p] # <<>> /\ p \notin q.busy
        /\ IF n \in client
           THEN /\ pipe' = [pipe EXCEPT ![n].busy = @ \cup {p}]
                /\ UNCHANGED lost
           ELSE /\ pipe' = [pipe EXCEPT ![n] = Finish(q, Up(n), p)]
                /\ lost' = Mark(ToSet(Head(q.chain[p]).msgs), "client")
        /\ Undisturbed
        /\ UNCHANGED <<store, proc, loop, local, client, claimed, answered, weak, overlap>>

\* Every way out of handleJobInner that has a client: replied, skipped on
\* purpose, rejected, or excused with an apology.
EndJob(n, p) ==
    LET q == pipe[n]
        done == ToSet(Head(q.chain[p]).msgs)
    IN  /\ HasProcess(n) /\ p \in q.busy
        /\ pipe' = [pipe EXCEPT ![n] = Finish(q, Up(n), p)]
        /\ answered' = [m \in Msg |-> IF m \in done /\ answered[m] < 2
                                      THEN answered[m] + 1 ELSE answered[m]]
        /\ Undisturbed
        /\ UNCHANGED <<store, proc, loop, local, client, claimed, lost, weak, overlap>>

-----------------------------------------------------------------------------
(* Life of a process *)

Boot(n) ==
    /\ proc[n] = "down"
    /\ proc' = [proc EXCEPT ![n] = "up"]
    /\ Undisturbed
    /\ UNCHANGED <<store, loop, local, client, pipe, past>>

\* The bot's loop is told to stop and its client dropped: shed, lost lease,
\* fence, pause, restart.
DropLoop(n) ==
    /\ Up(n) /\ \E k \in Slot : loop[n][k].live
    /\ Disturb
    /\ loop' = [loop EXCEPT ![n] = [k \in Slot |-> [@[k] EXCEPT !.live = FALSE]]]
    /\ client' = client \ {n}
    /\ UNCHANGED <<store, proc, local, pipe, past>>

\* stopAsync up to its first await: the batcher flushes while consumers still
\* take jobs, then the loops and consumers are told to stop.
Stop(n) ==
    /\ Up(n)
    /\ Disturb
    /\ proc' = [proc EXCEPT ![n] = "draining"]
    /\ \E order \in SetToSeqs(Peer) :
          Deliver(n, Flush(pipe[n], order), UNION {ToSet(pipe[n].open[p]) : p \in Peer})
    /\ loop' = [loop EXCEPT ![n] = [k \in Slot |-> [@[k] EXCEPT !.live = FALSE]]]
    /\ UNCHANGED <<store, local, client, claimed, answered, weak, overlap>>

\* processNextReply: the drain puts one job at a time on its chain.
DrainNext(n) ==
    LET q == pipe[n]
    IN  /\ proc[n] = "draining" /\ q.inbox # <<>> /\ Taken(q, TRUE) = {}
        /\ pipe' = [pipe EXCEPT ![n] =
                      Enchain([q EXCEPT !.inbox = Tail(@)],
                              [Head(q.inbox) EXCEPT !.drain = TRUE])]
        /\ Undisturbed
        /\ UNCHANGED <<store, proc, loop, local, client, past>>

\* The inbox is empty: wait for the chains, without looking at the inbox again.
DrainDone(n) ==
    /\ proc[n] = "draining" /\ pipe[n].inbox = <<>> /\ Taken(pipe[n], TRUE) = {}
    /\ proc' = [proc EXCEPT ![n] = "closing"]
    /\ Undisturbed
    /\ UNCHANGED <<store, loop, local, client, pipe, past>>

\* finishStopping, when the chains are done or when the deadline has passed.
FinishStopping(n) ==
    /\ \/ /\ proc[n] = "closing" /\ \A p \in Peer : pipe[n].chain[p] = <<>>
          /\ proc' = [proc EXCEPT ![n] = "closed"]
       \/ /\ proc[n] \in {"draining", "closing"}
          /\ proc' = [proc EXCEPT ![n] = "cutoff"]
    /\ client' = client \ {n}
    /\ Undisturbed
    /\ UNCHANGED <<store, loop, local, pipe, past>>

Gone(n, reason) ==
    /\ proc' = [proc EXCEPT ![n] = "down"]
    /\ loop' = [loop EXCEPT ![n] = [k \in Slot |-> NoLoop]]
    /\ local' = [local EXCEPT ![n] = {}]
    /\ client' = client \ {n}
    /\ pipe' = [pipe EXCEPT ![n] = EmptyPipe]
    /\ lost' = Mark(Held(pipe[n]) \cup InHand(n), reason)
    /\ overlap' = overlap \ {n}
    /\ UNCHANGED <<store, claimed, answered, weak>>

Exit(n) == proc[n] \in {"closed", "cutoff"} /\ Gone(n, "exit") /\ Undisturbed
Crash(n) == HasProcess(n) /\ Gone(n, "crash") /\ Disturb

-----------------------------------------------------------------------------
(* Upstream and Redis *)

\* Ten minutes after the claim, in Redis and in the local maps.
ExpireSeen(m) ==
    /\ m \in seen
    /\ Disturb
    /\ seen' = seen \ {m}
    /\ local' = [n \in Node |-> local[n] \ {m}]
    /\ weak' = weak \cup {m}
    /\ UNCHANGED <<cursor, proc, loop, client, pipe, claimed, answered, lost, overlap>>

-----------------------------------------------------------------------------
Init ==
    /\ cursor = 0
    /\ seen = {}
    /\ proc = [n \in Node |-> "up"]
    /\ loop = [n \in Node |-> [k \in Slot |-> NoLoop]]
    /\ local = [n \in Node |-> {}]
    /\ client = {}
    /\ pipe = [n \in Node |-> EmptyPipe]
    /\ claimed = {}
    /\ answered = [m \in Msg |-> 0]
    /\ lost = [m \in Msg |-> "no"]
    /\ weak = {}
    /\ overlap = {}
    /\ faults = MaxFaults

Poll(n, k) ==
    \/ StartLoop(n, k) \/ BootLoop(n, k) \/ EndLoop(n, k) \/ QuitLoop(n, k)
    \/ \E j \in Msg, fresh \in BOOLEAN : GetUpdates(n, k, j, fresh)
    \/ Claim(n, k) \/ RouteDirect(n, k) \/ RouteBatch(n, k) \/ SaveCursor(n, k)

Reply(n, p) == CloseBatch(n, p) \/ BeginJob(n, p) \/ EndJob(n, p)

Live(n) ==
    \/ Boot(n) \/ DropLoop(n) \/ Stop(n) \/ DrainNext(n) \/ DrainDone(n)
    \/ FinishStopping(n) \/ Exit(n) \/ Crash(n)

Next ==
    \/ \E n \in Node : Live(n) \/ (\E k \in Slot : Poll(n, k)) \/ (\E p \in Peer : Reply(n, p))
    \/ \E m \in Msg : ExpireSeen(m)

Spec == Init /\ [][Next]_vars

-----------------------------------------------------------------------------
(* Correctness *)

Loop == [pc : LoopPc, live : BOOLEAN, pos : 0..MaxMsg, buf : 0..MaxMsg, batch : Seq(Msg)]

Pipe == [open : [Peer -> Seq(Msg)], inbox : Seq(Job), chain : [Peer -> Seq(Job)],
         busy : SUBSET Peer]

\* Every variable has its type, and the queues keep the limits they are
\* configured with: inboxMaxLen jobs wait, replyConcurrency consumers work, and
\* the drain of a shutdown adds at most one job to theirs.
InboundTypeOK ==
    /\ cursor \in 0..MaxMsg
    /\ seen \subseteq Msg /\ claimed \subseteq Msg /\ weak \subseteq Msg
    /\ proc \in [Node -> ProcState]
    /\ loop \in [Node -> [Slot -> Loop]]
    /\ local \in [Node -> SUBSET Msg]
    /\ client \subseteq Node /\ overlap \subseteq Node
    /\ pipe \in [Node -> Pipe]
    /\ answered \in [Msg -> 0..2]
    /\ lost \in [Msg -> Reason]
    /\ faults \in 0..MaxFaults
    /\ \A n \in Node : /\ Len(pipe[n].inbox) <= InboxMax
                       /\ Occupied(pipe[n]) <= Consumers
                       /\ Cardinality(Taken(pipe[n], TRUE)) <= 1

\* The jobs of process n in which messages of p stand: on the chain of p, in the
\* inbox, and the one its open batch will be.
Queues(n, p) == <<pipe[n].chain[p], pipe[n].inbox, <<NewJob(pipe[n].open[p], FALSE)>>>>
Places(n, p) ==
    UNION {UNION {{<<k, i, a>> : a \in DOMAIN Queues(n, p)[k][i].msgs}
                    : i \in DOMAIN Queues(n, p)[k]} : k \in 1..3}
JobAt(n, p, s) == Queues(n, p)[s[1]][s[2]]
MsgAt(n, p, s) == JobAt(n, p, s).msgs[s[3]]

\* What stands at s is answered before what stands at t.
Ahead(s, t) ==
    \/ s[1] < t[1]
    \/ s[1] = t[1] /\ s[2] < t[2]
    \/ s[1] = t[1] /\ s[2] = t[2] /\ s[3] < t[3]

Carriers(m) ==
    {s \in Node \X Slot : /\ loop[s[1]][s[2]].pc = "route"
                          /\ Head(loop[s[1]][s[2]].batch) = m}
Copies(m) ==
    {c \in UNION {{n} \X Places(n, PeerOf[m]) : n \in Node} : MsgAt(c[1], PeerOf[m], c[2]) = m}

\* Whatever overlaps, crashes and redeliveries do, a message that was claimed
\* under Redis's guard is either in exactly one place of one process, or was
\* answered exactly once, or was dropped for one known reason; a message
\* nobody claimed is nowhere (claimInboundOnce, pushInbox, handleJobInner).
OnePlace ==
    \A m \in Msg \ weak :
        Cardinality(Carriers(m)) + Cardinality(Copies(m))
          + answered[m] + (IF lost[m] = "no" THEN 0 ELSE 1)
          = IF m \in claimed THEN 1 ELSE 0

\* No cursor, in Redis or in a poll loop, stands behind a message that nobody
\* has claimed, so none is skipped ("Enqueue first so a Redis blip on
\* setBotCursor cannot drop the batch").
NoSkip ==
    \A m \in Msg \ claimed :
        /\ cursor < m
        /\ \A n \in Node, k \in Slot :
              /\ loop[n][k].pos < m
              /\ loop[n][k].pc = "save" => loop[n][k].buf < m

\* The ordinary messages of a peer wait in one process in the order in which
\* they were sent, whatever batches and jobs they are in, unless a new poll loop
\* was started there while an older one held a message in its hands.
PeerOrderKept ==
    \A n \in Node \ overlap, p \in Peer :
        LET ordinary == {s \in Places(n, p) : /\ ~JobAt(n, p, s).direct
                                             /\ MsgAt(n, p, s) \notin weak
                                             /\ PeerOf[MsgAt(n, p, s)] = p}
        IN  \A s, t \in ordinary : Ahead(s, t) => MsgAt(n, p, s) < MsgAt(n, p, t)

\* A shutdown that was not cut off by its deadline has answered every ordinary
\* message the process had batched, queued or begun (stopAsync).
CleanShutdown ==
    \A n \in Node : proc[n] = "closed" =>
        /\ \A p \in Peer : pipe[n].open[p] = <<>> /\ pipe[n].chain[p] = <<>>
        /\ \A i \in DOMAIN pipe[n].inbox : pipe[n].inbox[i].direct

\* "Flush while the worker is still accepting those callbacks; otherwise the
\* stopped gate below would discard already-claimed inbound" (worker.ts:1047).
GateDiscardsNothing == \A m \in Msg : lost[m] # "gate"

-----------------------------------------------------------------------------
(* The promise to the outside *)

Fate(m) ==
    IF answered[m] > 0 THEN "answered"
    ELSE IF lost[m] # "no" THEN "lost"
    ELSE IF m \in claimed THEN "claimed"
    ELSE "sent"

Promise == INSTANCE InboundPromise WITH fate <- [m \in Msg |-> Fate(m)]

\* While Redis guards the claims, the pipelines of all nodes together do what
\* InboundPromise says: claims once and in order, one answer or a loss.
Delivery == Promise!Spec

\* Timers fire, awaited calls return, the process manager starts a process
\* again, and the fleet goes on assigning the bot to running nodes.
Fairness ==
    \A n \in Node :
        /\ WF_vars(Boot(n)) /\ WF_vars(Exit(n)) /\ WF_vars(FinishStopping(n))
        /\ WF_vars(DrainNext(n))
        /\ \A p \in Peer : WF_vars(CloseBatch(n, p)) /\ WF_vars(BeginJob(n, p))
                             /\ WF_vars(EndJob(n, p))
        /\ \A k \in Slot :
              /\ WF_vars(StartLoop(n, k)) /\ WF_vars(BootLoop(n, k))
              /\ WF_vars(EndLoop(n, k)) /\ WF_vars(Claim(n, k))
              /\ WF_vars(\E j \in Msg : GetUpdates(n, k, j, TRUE))
              /\ WF_vars(RouteDirect(n, k) \/ RouteBatch(n, k))
              /\ WF_vars(SaveCursor(n, k))

LiveSpec == Spec /\ Fairness

\* Every message upstream is in the end answered or dropped
\* for a known reason: no cursor, queue, waiting consumer or shutdown leaves
\* one behind for good.
EverySettled == \A m \in Msg : <>[](answered[m] > 0 \/ lost[m] # "no")
=============================================================================
