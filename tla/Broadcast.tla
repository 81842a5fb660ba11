----------------------------- MODULE Broadcast -----------------------------
(***************************************************************************)
(* Admin broadcasts (apps/api/src/broadcast-runner.ts and                  *)
(* packages/db/src/broadcast-repos.ts).  A job is a Redis row with a       *)
(* status and a cursor into its recipients.  Every node ticks, looks for a *)
(* job, takes the job's lock and works on a copy of the row, which it      *)
(* writes back as a whole every few sends; an administrator cancels a job  *)
(* by rewriting the same row.  Every await on Redis ends an action, except *)
(* that a tick's search, which writes nothing, is one.                     *)
(*                                                                         *)
(* Send results, statistics and the failure list travel with the cursor    *)
(* and are left out.                                                       *)
(***************************************************************************)
EXTENDS Integers, Sequences, FiniteSetsExt, Functions

CONSTANTS
    Worker,      \* nodes with a broadcast runner
    NoOne,       \* no owner, no active job
    Totals,       \* recipients of each job; jobs are numbered as created
    FlushEvery,  \* flushEvery and cancelCheckEvery, which are equal
    MaxFaults    \* bound: crashes, errors, stops, lost locks, cancellations

Job == DOMAIN Totals

BroadcastConstants ==
    /\ NoOne \notin Worker /\ NoOne \notin Job
    /\ Totals \in Seq(Nat)
    /\ FlushEvery \in 1..5
    /\ MaxFaults \in Nat

VARIABLES
    row,      \* the job rows in Redis
    active,   \* broadcastActive pointer
    lock,     \* broadcastLock of each job
    runner,   \* each node's processJob
    stopped,  \* nodes whose runner was told to stop
    admin,    \* the cancellation in progress
    sends,    \* history: how often each recipient was sent the text (at most 3)
    lockLost, \* history: jobs whose lock ended under a working runner
    breaks,   \* history: runners that ended without writing their copy back
    faults    \* disturbances left (bound)

redis == <<row, active, lock>>
history == <<sends, lockLost, breaks>>
vars == <<redis, runner, stopped, admin, history, faults>>

Status == {"none", "pending", "running", "completed", "cancelled", "failed"}
Row == [status : Status, cursor : Nat]

\* The stages of processJob before, inside and after its try block.
Opening == {"lock", "load"}
Trying == {"mark", "point", "head", "check", "drop", "send", "renew", "renewSet",
           "flush", "final", "save", "clear"}
Failing == {"failSave", "failClear"}
Closing == {"unlock", "unlockDel"}

Idle == [pc |-> "idle", job |-> NoOne, status |-> "none", cursor |-> 0,
         flush |-> 0, check |-> 0]

Disturb == faults > 0 /\ faults' = faults - 1
Calm == UNCHANGED faults

\* Node w is past the lock of job j.
Holds(w, j) == runner[w].job = j /\ runner[w].pc # "lock"
At(w, pc) == runner[w].pc = pc
Set(w, state) == runner' = [runner EXCEPT ![w] = state]
Goto(w, pc) == runner' = [runner EXCEPT ![w].pc = pc]

-----------------------------------------------------------------------------
(* Which job comes next *)

Unfinished(j) == row[j].cursor < Totals[j]
Running == {j \in Job : row[j].status = "running" /\ Unfinished(j)}
Pending == {j \in Job : row[j].status = "pending"}

\* findNextPendingBroadcast: the active job if it has work left, else the
\* newest interrupted one, else the oldest one waiting.
FindNext ==
    IF active # NoOne /\ active \in Running \cup {j \in Pending : Unfinished(j)} THEN active
    ELSE IF Running # {} THEN Max(Running)
    ELSE IF Pending # {} THEN Min(Pending)
    ELSE NoOne

Tick(w) ==
    /\ At(w, "idle") /\ w \notin stopped /\ FindNext # NoOne
    /\ Set(w, [Idle EXCEPT !.pc = "lock", !.job = FindNext])
    /\ Calm /\ UNCHANGED <<redis, stopped, admin, history>>

-----------------------------------------------------------------------------
(* processJob *)

\* Faulty: the lock is set whoever holds it.
AcquireAlways(j) == TRUE
\* SET NX.
Acquire(j) == lock[j] = NoOne

Lock(w) ==
    LET j == runner[w].job
    IN  /\ At(w, "lock")
        /\ IF Acquire(j)
           THEN lock' = [lock EXCEPT ![j] = w] /\ Goto(w, "load")
           ELSE Set(w, Idle) /\ UNCHANGED lock
        /\ Calm /\ UNCHANGED <<row, active, stopped, admin, history>>

Load(w) ==
    LET j == runner[w].job
    IN  /\ At(w, "load")
        /\ Set(w, [Idle EXCEPT !.pc = IF row[j].status \in {"cancelled", "completed"}
                                      THEN "unlock" ELSE "mark",
                               !.job = j, !.status = row[j].status,
                               !.cursor = row[j].cursor])
        /\ Calm /\ UNCHANGED <<redis, stopped, admin, history>>

\* saveBroadcastJob of the runner's copy.
Save(w, status) ==
    row' = [row EXCEPT ![runner[w].job] = [status |-> status, cursor |-> runner[w].cursor]]

MarkRunning(w) ==
    /\ At(w, "mark")
    /\ IF runner[w].status = "pending"
       THEN /\ Save(w, "running")
            /\ Set(w, [runner[w] EXCEPT !.pc = "point", !.status = "running"])
       ELSE Goto(w, "point") /\ UNCHANGED row
    /\ Calm /\ UNCHANGED <<active, lock, stopped, admin, history>>

SetActive(w) ==
    /\ At(w, "point")
    /\ active' = runner[w].job
    /\ Goto(w, "head")
    /\ Calm /\ UNCHANGED <<row, lock, stopped, admin, history>>

\* Faulty: off by one.
AtEndInclusive(r) == r.cursor > Totals[r.job]
AtEnd(r) == r.cursor >= Totals[r.job]

\* The head of the loop, which only looks at local state.
NextRecipient(w) ==
    LET r == runner[w]
    IN  /\ At(w, "head")
        /\ Goto(w, IF AtEnd(r) \/ w \in stopped THEN "final"
                   ELSE IF r.check = 0 THEN "check" ELSE "send")
        /\ Calm /\ UNCHANGED <<redis, stopped, admin, history>>

CheckCancelled(w) ==
    LET r == runner[w]
    IN  /\ At(w, "check")
        /\ IF row[r.job].status = "cancelled"
           THEN Set(w, [r EXCEPT !.pc = "drop", !.status = "cancelled"])
           ELSE Goto(w, "send")
        /\ Calm /\ UNCHANGED <<redis, stopped, admin, history>>

SaveCancelled(w) ==
    /\ At(w, "drop")
    /\ Save(w, "cancelled")
    /\ Goto(w, "final")
    /\ Calm /\ UNCHANGED <<active, lock, stopped, admin, history>>

\* One send on the peer's chain, whatever its result; the lock is renewed when
\* the last renewal is long ago.
Send(w) ==
    LET r == runner[w]
    IN  /\ At(w, "send")
        /\ sends' = [sends EXCEPT ![r.job][r.cursor + 1] = IF @ < 3 THEN @ + 1 ELSE @]
        /\ \E pc \in {"flush", "renew"} :
              Set(w, [r EXCEPT !.pc = pc, !.cursor = @ + 1, !.flush = @ + 1,
                               !.check = (@ + 1) % FlushEvery])
        /\ Calm /\ UNCHANGED <<redis, stopped, admin, lockLost, breaks>>

RenewGet(w) ==
    /\ At(w, "renew")
    /\ Goto(w, IF lock[runner[w].job] = w THEN "renewSet" ELSE "flush")
    /\ Calm /\ UNCHANGED <<redis, stopped, admin, history>>

RenewSet(w) ==
    /\ At(w, "renewSet")
    /\ lock' = [lock EXCEPT ![runner[w].job] = w]
    /\ Goto(w, "flush")
    /\ Calm /\ UNCHANGED <<row, active, stopped, admin, history>>

FlushDue(r) == r.flush >= FlushEvery \/ AtEnd(r)

Flush(w) ==
    LET r == runner[w]
    IN  /\ At(w, "flush")
        /\ IF FlushDue(r)
           THEN Save(w, r.status) /\ Set(w, [r EXCEPT !.pc = "head", !.flush = 0])
           ELSE Goto(w, "head") /\ UNCHANGED row
        /\ Calm /\ UNCHANGED <<active, lock, stopped, admin, history>>

\* Faulty: a job that was interrupted counts as completed.
OutcomeEarly(r) == "completed"

\* A runner that was stopped midway leaves the job running.
Outcome(r) == IF AtEnd(r) THEN "completed" ELSE "running"

\* Read the row again to see whether the job was cancelled meanwhile.
ReadFinal(w) ==
    LET r == runner[w]
        live == row[r.job].status
    IN  /\ At(w, "final")
        /\ IF live = "running" THEN Set(w, [r EXCEPT !.pc = "save", !.status = Outcome(r)])
           ELSE IF live = "cancelled" /\ r.status # "cancelled"
                THEN Set(w, [r EXCEPT !.pc = "save", !.status = "cancelled"])
           ELSE Goto(w, "clear")
        /\ breaks' = IF live \notin {"running", "cancelled"} /\ r.flush > 0
                     THEN breaks + 1 ELSE breaks
        /\ Calm /\ UNCHANGED <<redis, stopped, admin, sends, lockLost>>

SaveFinal(w) ==
    /\ At(w, "save")
    /\ Save(w, runner[w].status)
    /\ Goto(w, "clear")
    /\ Calm /\ UNCHANGED <<active, lock, stopped, admin, history>>

ClearActive(w) ==
    /\ At(w, "clear")
    /\ active' = IF runner[w].status \in {"completed", "cancelled"} THEN NoOne ELSE active
    /\ Goto(w, "unlock")
    /\ Calm /\ UNCHANGED <<row, lock, stopped, admin, history>>

\* The catch block.
SaveFailed(w) ==
    /\ At(w, "failSave")
    /\ Save(w, "failed")
    /\ Goto(w, "failClear")
    /\ Calm /\ UNCHANGED <<active, lock, stopped, admin, history>>

ClearFailed(w) ==
    /\ At(w, "failClear")
    /\ active' = NoOne
    /\ Goto(w, "unlock")
    /\ Calm /\ UNCHANGED <<row, lock, stopped, admin, history>>

\* releaseBroadcastLock: GET, then DEL unless another worker was named.
UnlockGet(w) ==
    /\ At(w, "unlock")
    /\ IF lock[runner[w].job] \in {w, NoOne} THEN Goto(w, "unlockDel") ELSE Set(w, Idle)
    /\ Calm /\ UNCHANGED <<redis, stopped, admin, history>>

UnlockDel(w) ==
    LET j == runner[w].job
    IN  /\ At(w, "unlockDel")
        /\ lock' = [lock EXCEPT ![j] = NoOne]
        /\ lockLost' = IF \E v \in Worker \ {w} : Holds(v, j) /\ lock[j] = v
                       THEN lockLost \cup {j} ELSE lockLost
        /\ Set(w, Idle)
        /\ Calm /\ UNCHANGED <<row, active, stopped, admin, sends, breaks>>

\* The stage the runner is in has a Redis call to make.
CallsRedis(r) ==
    /\ r.pc \notin {"idle", "head", "send"}
    /\ r.pc = "mark" => r.status = "pending"
    /\ r.pc = "flush" => FlushDue(r)
    /\ r.pc = "clear" => r.status \in {"completed", "cancelled"}

\* A Redis call throws: the try block goes to its catch block, the catch block
\* to finally; elsewhere the tick ends, and a lock it holds waits for its TTL.
Throws(w) ==
    LET pc == runner[w].pc
    IN  /\ CallsRedis(runner[w])
        /\ Disturb
        /\ IF pc \in Trying THEN Goto(w, "failSave")
           ELSE IF pc \in Failing THEN Goto(w, "unlock") ELSE Set(w, Idle)
        /\ breaks' = IF pc = "failSave" THEN breaks + 1 ELSE breaks
        /\ UNCHANGED <<redis, stopped, admin, sends, lockLost>>

-----------------------------------------------------------------------------
(* Life of a node, locks *)

Stop(w) ==
    /\ w \notin stopped /\ Disturb
    /\ stopped' = stopped \cup {w}
    /\ UNCHANGED <<redis, runner, admin, history>>

\* The process ends, with or without a stop, and starts again.
Die(w) ==
    /\ ~At(w, "idle") /\ Disturb
    /\ Set(w, Idle)
    /\ stopped' = stopped \ {w}
    /\ breaks' = breaks + 1
    /\ UNCHANGED <<redis, admin, sends, lockLost>>

Restart(w) ==
    /\ w \in stopped /\ At(w, "idle")
    /\ stopped' = stopped \ {w}
    /\ Calm /\ UNCHANGED <<redis, runner, admin, history>>

\* Faulty: the lock is set without a TTL.
ExpireNever(j) == FALSE

\* The lock of a runner that is gone expires; that of one at work only when its
\* sends stall for longer than the TTL.
Expire(j) ==
    /\ lock[j] # NoOne
    /\ lock' = [lock EXCEPT ![j] = NoOne]
    /\ IF Holds(lock[j], j)
       THEN Disturb /\ lockLost' = lockLost \cup {j}
       ELSE Calm /\ UNCHANGED lockLost
    /\ UNCHANGED <<row, active, runner, stopped, admin, sends, breaks>>

-----------------------------------------------------------------------------
(* The administrator *)

\* createBroadcastJob, in the order of the numbers.
Create(j) ==
    /\ row[j].status = "none" /\ \A i \in Job : i < j => row[i].status # "none"
    /\ row' = [row EXCEPT ![j] = [status |-> "pending", cursor |-> 0]]
    /\ Calm /\ UNCHANGED <<active, lock, runner, stopped, admin, history>>

NoCancel == [pc |-> "none", job |-> NoOne, cursor |-> 0]

\* cancelBroadcastJob: read the row, write it back as cancelled, then take the
\* pointer away if it names the job.
CancelGet(j) ==
    /\ admin.pc = "none" /\ row[j].status \in {"pending", "running"}
    /\ Disturb
    /\ admin' = [pc |-> "set", job |-> j, cursor |-> row[j].cursor]
    /\ UNCHANGED <<redis, runner, stopped, history>>

CancelSet ==
    /\ admin.pc = "set"
    /\ row' = [row EXCEPT ![admin.job] = [status |-> "cancelled", cursor |-> admin.cursor]]
    /\ admin' = [admin EXCEPT !.pc = "active"]
    /\ Calm /\ UNCHANGED <<active, lock, runner, stopped, history>>

CancelActiveGet ==
    /\ admin.pc = "active"
    /\ admin' = IF active = admin.job THEN [admin EXCEPT !.pc = "clear"] ELSE NoCancel
    /\ Calm /\ UNCHANGED <<redis, runner, stopped, history>>

CancelActiveDel ==
    /\ admin.pc = "clear"
    /\ active' = NoOne
    /\ admin' = NoCancel
    /\ Calm /\ UNCHANGED <<row, lock, runner, stopped, history>>

-----------------------------------------------------------------------------
Init ==
    /\ row = [j \in Job |-> [status |-> "none", cursor |-> 0]]
    /\ active = NoOne
    /\ lock = [j \in Job |-> NoOne]
    /\ runner = [w \in Worker |-> Idle]
    /\ stopped = {}
    /\ admin = NoCancel
    /\ sends = [j \in Job |-> [i \in 1..Totals[j] |-> 0]]
    /\ lockLost = {}
    /\ breaks = 0
    /\ faults = MaxFaults

Step(w) ==
    \/ Lock(w) \/ Load(w) \/ MarkRunning(w) \/ SetActive(w) \/ NextRecipient(w)
    \/ CheckCancelled(w) \/ SaveCancelled(w) \/ Send(w) \/ RenewGet(w) \/ RenewSet(w)
    \/ Flush(w) \/ ReadFinal(w) \/ SaveFinal(w) \/ ClearActive(w)
    \/ SaveFailed(w) \/ ClearFailed(w) \/ UnlockGet(w) \/ UnlockDel(w)

Cancel == CancelSet \/ CancelActiveGet \/ CancelActiveDel

Next ==
    \/ \E w \in Worker : Tick(w) \/ Step(w) \/ Throws(w) \/ Stop(w) \/ Die(w) \/ Restart(w)
    \/ \E j \in Job : Expire(j) \/ Create(j) \/ CancelGet(j)
    \/ Cancel

Spec == Init /\ [][Next]_vars

\* Ticks are re-armed forever, awaited calls return, keys expire, and a stopped
\* process is started again.
Fairness ==
    /\ \A w \in Worker : WF_vars(Tick(w)) /\ WF_vars(Step(w)) /\ WF_vars(Restart(w))
    /\ \A j \in Job : WF_vars(Expire(j) /\ Calm)
    /\ WF_vars(Cancel)

LiveSpec == Spec /\ Fairness

-----------------------------------------------------------------------------
(* Correctness *)

RunnerState ==
    [pc : {"idle"} \cup Opening \cup Trying \cup Failing \cup Closing,
     job : Job \cup {NoOne}, status : Status, cursor : Nat,
     flush : 0..FlushEvery, check : 0..(FlushEvery - 1)]

\* Every variable has its type, and a cursor never passes the last recipient.
TypeOK ==
    /\ row \in [Job -> Row]
    /\ active \in Job \cup {NoOne}
    /\ lock \in [Job -> Worker \cup {NoOne}]
    /\ runner \in [Worker -> RunnerState]
    /\ stopped \subseteq Worker
    /\ admin \in [pc : {"none", "set", "active", "clear"}, job : Job \cup {NoOne}, cursor : Nat]
    /\ \A j \in Job : sends[j] \in [1..Totals[j] -> 0..3] /\ row[j].cursor <= Totals[j]
    /\ \A w \in Worker : runner[w].pc # "idle" =>
          runner[w].job \in Job /\ runner[w].cursor <= Totals[runner[w].job]
    /\ lockLost \subseteq Job /\ breaks \in Nat /\ faults \in 0..MaxFaults

\* A job that is reported as completed was sent to every one of its recipients,
\* whatever runners, crashes and cancellations wrote its row meanwhile
\* (processJob; "the job can finish as e.g. 1/N").
CompletedReachedAll ==
    \A j \in Job : row[j].status = "completed" => \A i \in 1..Totals[j] : sends[j][i] >= 1

\* Sends after the first to each recipient.
Repeats(j) ==
    SumFunction([i \in 1..Totals[j] |-> IF sends[j][i] > 1 THEN sends[j][i] - 1 ELSE 0])

\* As long as its lock is not lost under a runner, nobody is sent a broadcast
\* twice except the few sends since the last flush of a runner that broke off.
RepeatsBounded ==
    \A j \in Job \ lockLost : Repeats(j) <= FlushEvery * breaks

\* Without a break every broadcast comes to an end, whatever stops, errors, lost
\* locks and cancellations it meets, and whichever node finds it.
BroadcastEnds ==
    \A j \in Job : []<>(breaks > 0 \/ row[j].status \notin {"pending", "running"})

\* A cancelled broadcast stays cancelled: its remaining recipients are spared
\* (admin.html:14167).
CancelSticks ==
    [][\A j \in Job : row[j].status = "cancelled" => row'[j].status = "cancelled"]_vars
=============================================================================
