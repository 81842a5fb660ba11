--------------------------- MODULE BotFleetProofs ---------------------------
(***************************************************************************)
(* What TLC shows of BotFleet on two workers, for every number of workers, *)
(* bots, tasks, unfinished loops and disturbances.                         *)
(***************************************************************************)
EXTENDS BotFleet, FiniteSetTheorems, TLAPS

LocalType ==
    /\ loops \in [Worker -> SUBSET Bot]
    /\ cur \in [Worker -> [Bot -> LoopId \cup {NoLoop}]]
    /\ loop \in [Worker -> [Bot -> [LoopId -> LoopPc]]]

-----------------------------------------------------------------------------
(* The shared effects keep the types *)

\* Dropping loops keeps the tables' types (dropLocalLoop).
LEMMA DropLoopsType ==
    ASSUME TypeOK, NEW w \in Worker, NEW B, DropLoops(w, B)
    PROVE  /\ loops' \in [Worker -> SUBSET Bot]
           /\ cur' \in [Worker -> [Bot -> LoopId \cup {NoLoop}]]
  BY DEF TypeOK, DropLoops

\* A free loop id is a loop id.
LEMMA NextLoopIsFree ==
    ASSUME NEW w, NEW b, FreeLoopIds(w, b) # {}
    PROVE  /\ NextLoop(w, b) \in LoopId
           /\ loop[w][b][NextLoop(w, b)] = "done"
  BY DEF NextLoop, FreeLoopIds

\* Starting loops keeps the tables' types (startLoop).
LEMMA StartLoopsType ==
    ASSUME TypeOK, NEW w \in Worker, NEW B \in SUBSET Bot, StartLoops(w, B)
    PROVE  LocalType'
  <1> DEFINE new == IF proc[w] = "up" THEN B \ loops[w] ELSE {}
  <1>1. \A b \in new : NextLoop(w, b) \in LoopId
    BY NextLoopIsFree DEF StartLoops
  <1>2. loops' \in [Worker -> SUBSET Bot]
    BY DEF TypeOK, StartLoops
  <1>3. cur' \in [Worker -> [Bot -> LoopId \cup {NoLoop}]]
    BY <1>1 DEF TypeOK, StartLoops
  <1>4. loop' \in [Worker -> [Bot -> [LoopId -> LoopPc]]]
    <2> DEFINE row == [b \in Bot |-> IF b \in new
                                     THEN [loop[w][b] EXCEPT ![NextLoop(w, b)] = "boot"]
                                     ELSE loop[w][b]]
    <2>1. row \in [Bot -> [LoopId -> LoopPc]]
      BY <1>1 DEF TypeOK, LoopPc
    <2>2. loop' = [loop EXCEPT ![w] = row]
      BY DEF StartLoops, TypeOK
    <2> QED  BY <2>1, <2>2 DEF TypeOK
  <1> QED  BY <1>2, <1>3, <1>4 DEF LocalType

\* Ending a loop keeps the tables' types (the finally handler).
LEMMA EndLoopType ==
    ASSUME TypeOK, NEW w \in Worker, NEW b \in Bot, NEW g \in LoopId, EndLoop(w, b, g)
    PROVE  LocalType'
  <1>1. loop' \in [Worker -> [Bot -> [LoopId -> LoopPc]]]
    BY DEF TypeOK, EndLoop, LoopPc
  <1>2. loops' \in [Worker -> SUBSET Bot] /\ cur' \in [Worker -> [Bot -> LoopId \cup {NoLoop}]]
    <2>1. CASE cur[w][b] = g  BY <2>1, DropLoopsType DEF EndLoop
    <2>2. CASE cur[w][b] # g  BY <2>2 DEF EndLoop, TypeOK
    <2> QED  BY <2>1, <2>2
  <1> QED  BY <1>1, <1>2 DEF LocalType

\* Setting a task to a task state keeps the table's type.
LEMMA GotoType ==
    ASSUME TypeOK, NEW w \in Worker, NEW t \in Task, NEW state \in TaskState,
           Goto(w, t, state)
    PROVE  task' \in [Worker -> [Task -> TaskState]]
  BY DEF TypeOK, Goto

\* An idle task is a task state.
LEMMA IdleType == ASSUME NEW w \in Worker PROVE Idle(w) \in TaskState
  BY FleetConstants DEF Idle, TaskState, TaskPc

LEMMA FinishType ==
    ASSUME TypeOK, NEW w \in Worker, NEW t \in Task, Finish(w, t)
    PROVE  task' \in [Worker -> [Task -> TaskState]]
  BY GotoType, IdleType DEF Finish

\* A release empties keys only.
LEMMA ReleaseType ==
    ASSUME TypeOK, NEW w \in Worker, NEW B \in SUBSET Bot,
           Release(w, B) \/ Unregister(w, B)
    PROVE  /\ lease' \in [Bot -> Worker \cup {NoWorker}]
           /\ index' \in [Worker -> SUBSET Bot]
           /\ shaken' \subseteq Bot
  <1>1. lease' \in [Bot -> Worker \cup {NoWorker}]
    BY DEF TypeOK, Release, Unregister
  <1>2. index' \in [Worker -> SUBSET Bot]
    <2>1. CASE Release(w, B)     BY <2>1 DEF TypeOK, Release
    <2>2. CASE Unregister(w, B)  BY <2>2 DEF TypeOK, Unregister
    <2> QED  BY <2>1, <2>2
  <1>3. shaken' \subseteq Bot
    BY DEF TypeOK, Release, Unregister
  <1> QED  BY <1>1, <1>2, <1>3

\* The room a process sees for new bots is between none and maxBots.
LEMMA FreeSlotsType ==
    ASSUME NEW w \in Worker, loops \in [Worker -> SUBSET Bot]
    PROVE  FreeSlots(w) \in 0..MaxBots
  <1>1. IsFiniteSet(loops[w])  BY FleetConstants, FS_Subset
  <1>2. Cardinality(loops[w]) \in Nat  BY <1>1, FS_CardinalityType
  <1> QED  BY <1>2, FleetConstants DEF FreeSlots

\* The record of a task in flight.
LEMMA TaskRecord ==
    ASSUME TypeOK, NEW w \in Worker, NEW t \in Task
    PROVE  task[w][t] \in TaskState
  BY DEF TypeOK

\* The fenced flag takes the value of a membership test.
LEMMA FencedType ==
    ASSUME TypeOK, NEW w \in Worker, fenced' = [fenced EXCEPT ![w] = w \in fence]
    PROVE  fenced' \in [Worker -> BOOLEAN]
  <1>1. (w \in fence) \in BOOLEAN  OBVIOUS
  <1>2. fenced \in [Worker -> BOOLEAN]  BY DEF TypeOK
  <1> QED  BY <1>1, <1>2, Zenon

-----------------------------------------------------------------------------
(* Type correctness, action by action *)

\* The life cycle of a process keeps the types.
LEMMA LifeCycleType ==
    ASSUME TypeOK, NEW w \in Worker
    PROVE  /\ \A t \in Task : Start(w, t) => TypeOK'
           /\ \A t \in Task : Stop(w, t) => TypeOK'
           /\ Exit(w) => TypeOK'
           /\ Crash(w) => TypeOK'
  <1>1. ASSUME NEW t \in Task, Start(w, t) PROVE TypeOK'
    <2>1. task' \in [Worker -> [Task -> TaskState]]
      <3>1. [Idle(w) EXCEPT !.pc = "unregGet"] \in TaskState
        BY IdleType DEF TaskState, TaskPc
      <3>2. [Idle(w) EXCEPT !.pc = "boot", !.bots = Bot \ paused] \in TaskState
        <4>1. Bot \ paused \in SUBSET Bot  OBVIOUS
        <4> QED  BY <4>1, IdleType DEF Idle, TaskState, TaskPc
      <3>3. ASSUME NEW d \in Worker
            PROVE [Idle(w) EXCEPT !.pc = "reap", !.whom = d,
                                  !.bots = OwnedBy(d, index[d])] \in TaskState
        <4>1. OwnedBy(d, index[d]) \in SUBSET Bot  BY DEF TypeOK, OwnedBy
        <4> QED  BY <4>1, IdleType DEF Idle, TaskState, TaskPc
      <3> QED  BY <1>1, <3>1, <3>2, <3>3, GotoType DEF Start
    <2>2. fenced' \in [Worker -> BOOLEAN]
      BY <1>1, FencedType DEF Start
    <2>3. proc' \in [Worker -> {"down", "up", "stopped"}]
      BY <1>1 DEF TypeOK, Start
    <2>4. UNCHANGED <<redis, loops, cur, loop, shaken, faults>>
      BY <1>1 DEF Start
    <2> QED  BY <2>1, <2>2, <2>3, <2>4 DEF TypeOK, redis
  <1>2. ASSUME NEW t \in Task, Stop(w, t) PROVE TypeOK'
    <2>1. task' \in [Worker -> [Task -> TaskState]]
      <3>1. [Idle(w) EXCEPT !.pc = "unregGet"] \in TaskState
        BY IdleType DEF TaskState, TaskPc
      <3> QED  BY <1>2, <3>1, GotoType DEF Stop
    <2>2. /\ loops' \in [Worker -> SUBSET Bot]
          /\ cur' \in [Worker -> [Bot -> LoopId \cup {NoLoop}]]
      BY <1>2, DropLoopsType DEF Stop
    <2>3. proc' \in [Worker -> {"down", "up", "stopped"}]
      BY <1>2 DEF TypeOK, Stop
    <2>4. faults' \in 0..MaxFaults
      BY <1>2, FleetConstants DEF TypeOK, Stop, Disturb
    <2>5. UNCHANGED <<redis, fenced, loop, shaken>>
      BY <1>2 DEF Stop
    <2> QED  BY <2>1, <2>2, <2>3, <2>4, <2>5 DEF TypeOK, redis
  <1>3. ASSUME Die(w), faults' \in 0..MaxFaults PROVE TypeOK'
    <2>1. task' \in [Worker -> [Task -> TaskState]]
      BY <1>3, IdleType DEF TypeOK, Die
    <2>2. /\ loops' \in [Worker -> SUBSET Bot]
          /\ cur' \in [Worker -> [Bot -> LoopId \cup {NoLoop}]]
      BY <1>3, DropLoopsType DEF Die
    <2>3. loop' \in [Worker -> [Bot -> [LoopId -> LoopPc]]]
      BY <1>3 DEF TypeOK, Die, LoopPc
    <2> QED  BY <1>3, <2>1, <2>2, <2>3 DEF TypeOK, Die, redis
  <1>4. Disturb \/ UNCHANGED faults => faults' \in 0..MaxFaults
    BY FleetConstants DEF Disturb, TypeOK
  <1> QED  BY <1>1, <1>2, <1>3, <1>4 DEF Exit, Crash

\* Unregistering a worker keeps the types.
LEMMA UnregisterType ==
    ASSUME TypeOK, NEW w \in Worker, NEW t \in Task
    PROVE  Reap(w, t) \/ Boot(w, t) \/ UnregGet(w, t) \/ UnregDel(w, t) => TypeOK'
  <1> DEFINE me == task[w][t]
  <1>0. me \in TaskState  BY TaskRecord
  <1>a. me.bots \in SUBSET Bot /\ me.whom \in Worker  BY <1>0 DEF TaskState
  <1>1. ASSUME Reap(w, t) PROVE TypeOK'
    <2>1. [Idle(w) EXCEPT !.pc = "boot", !.bots = Bot \ paused] \in TaskState
      <3>1. Bot \ paused \in SUBSET Bot  OBVIOUS
      <3> QED  BY <3>1, IdleType DEF Idle, TaskState, TaskPc
    <2>2. task' \in [Worker -> [Task -> TaskState]]
      BY <1>1, <2>1, GotoType DEF Reap
    <2>3. /\ lease' \in [Bot -> Worker \cup {NoWorker}]
          /\ index' \in [Worker -> SUBSET Bot]
          /\ shaken' \subseteq Bot
      BY <1>1, <1>a, ReleaseType DEF Reap
    <2> QED  BY <1>1, <2>2, <2>3 DEF TypeOK, Reap, local
  <1>2. ASSUME Boot(w, t) PROVE TypeOK'
    <2>1. task' \in [Worker -> [Task -> TaskState]]
      BY <1>2, FinishType DEF Boot
    <2> QED  BY <1>2, <1>a, <2>1 DEF TypeOK, Boot, local
  <1>3. ASSUME UnregGet(w, t) PROVE TypeOK'
    <2>1. OwnedBy(me.whom, index[me.whom]) \in SUBSET Bot
      BY <1>a DEF TypeOK, OwnedBy
    <2>2. [me EXCEPT !.pc = "unregDel", !.bots = OwnedBy(me.whom, index[me.whom])]
            \in TaskState
      BY <1>0, <2>1 DEF TaskState, TaskPc
    <2>3. task' \in [Worker -> [Task -> TaskState]]
      BY <1>3, <2>2, GotoType DEF UnregGet
    <2> QED  BY <1>3, <2>3 DEF TypeOK, UnregGet, local, redis
  <1>4. ASSUME UnregDel(w, t) PROVE TypeOK'
    <2>1. task' \in [Worker -> [Task -> TaskState]]
      BY <1>4, FinishType DEF UnregDel
    <2>2. /\ lease' \in [Bot -> Worker \cup {NoWorker}]
          /\ index' \in [Worker -> SUBSET Bot]
          /\ shaken' \subseteq Bot
      BY <1>4, <1>a, ReleaseType DEF UnregDel
    <2> QED  BY <1>4, <2>1, <2>2 DEF TypeOK, UnregDel, local
  <1> QED  BY <1>1, <1>2, <1>3, <1>4

\* The fence check and the drain of a fenced worker keep the types.
LEMMA FencePassType ==
    ASSUME TypeOK, NEW w \in Worker, NEW t \in Task
    PROVE  CheckFence(w, t) \/ FenceGet(w, t) \/ FenceDel(w, t) => TypeOK'
  <1> DEFINE me == task[w][t]
  <1>0. me \in TaskState  BY TaskRecord
  <1>a. me.bots \in SUBSET Bot /\ me.cand \in SUBSET Bot  BY <1>0 DEF TaskState
  <1>1. ASSUME CheckFence(w, t) PROVE TypeOK'
    <2>1. loops[w] \in SUBSET Bot  BY DEF TypeOK
    <2>2. ASSUME NEW pc \in TaskPc
          PROVE  [Idle(w) EXCEPT !.bots = loops[w], !.pc = pc] \in TaskState
      BY <2>1, IdleType DEF Idle, TaskState
    <2>3. (IF w \notin fence THEN "renewGet"
           ELSE IF loops[w] # {} THEN "fenceGet" ELSE "unregGet") \in TaskPc
      BY DEF TaskPc
    <2>4. task' \in [Worker -> [Task -> TaskState]]
      BY <1>1, <2>2, <2>3, GotoType DEF CheckFence
    <2>5. fenced' \in [Worker -> BOOLEAN]  BY <1>1, FencedType DEF CheckFence
    <2>6. UNCHANGED <<redis, proc, loops, cur, loop, shaken, faults>>  BY <1>1 DEF CheckFence
    <2> QED  BY <2>4, <2>5, <2>6 DEF TypeOK, redis
  <1>2. ASSUME FenceGet(w, t) PROVE TypeOK'
    <2>1. OwnedBy(w, me.bots) \in SUBSET Bot  BY <1>a DEF OwnedBy
    <2>2. [me EXCEPT !.pc = "fenceDel", !.cand = me.bots, !.bots = OwnedBy(w, me.bots)]
            \in TaskState
      BY <1>0, <1>a, <2>1 DEF TaskState, TaskPc
    <2>3. task' \in [Worker -> [Task -> TaskState]]  BY <1>2, <2>2, GotoType DEF FenceGet
    <2> QED  BY <1>2, <2>3 DEF TypeOK, FenceGet, redis, local
  <1>3. ASSUME FenceDel(w, t) PROVE TypeOK'
    <2>1. [Idle(w) EXCEPT !.pc = "unregGet"] \in TaskState
      BY IdleType DEF TaskState, TaskPc
    <2>2. task' \in [Worker -> [Task -> TaskState]]  BY <1>3, <2>1, GotoType DEF FenceDel
    <2>3. /\ lease' \in [Bot -> Worker \cup {NoWorker}]
          /\ index' \in [Worker -> SUBSET Bot]
          /\ shaken' \subseteq Bot
      BY <1>3, <1>a, ReleaseType DEF FenceDel
    <2>4. /\ loops' \in [Worker -> SUBSET Bot]
          /\ cur' \in [Worker -> [Bot -> LoopId \cup {NoLoop}]]
      BY <1>3, DropLoopsType DEF FenceDel
    <2> QED  BY <1>3, <2>2, <2>3, <2>4 DEF TypeOK, FenceDel
  <1> QED  BY <1>1, <1>2, <1>3

\* The renewal keeps the types.
LEMMA RenewType ==
    ASSUME TypeOK, NEW w \in Worker, NEW t \in Task
    PROVE  RenewGet(w, t) \/ RenewSet(w, t) => TypeOK'
  <1> DEFINE me == task[w][t]
  <1>0. me \in TaskState  BY TaskRecord
  <1>a. me.bots \in SUBSET Bot /\ me.cand \in SUBSET Bot  BY <1>0 DEF TaskState
  <1>1. ASSUME RenewGet(w, t) PROVE TypeOK'
    <2>1. OwnedBy(w, me.bots) \in SUBSET Bot  BY <1>a DEF OwnedBy
    <2>2. [me EXCEPT !.pc = "renewSet", !.cand = me.bots, !.bots = OwnedBy(w, me.bots)]
            \in TaskState
      BY <1>0, <1>a, <2>1 DEF TaskState, TaskPc
    <2>3. task' \in [Worker -> [Task -> TaskState]]  BY <1>1, <2>2, GotoType DEF RenewGet
    <2> QED  BY <1>1, <2>3 DEF TypeOK, RenewGet, redis, local
  <1>2. ASSUME RenewSet(w, t) PROVE TypeOK'
    <2>1. /\ loops' \in [Worker -> SUBSET Bot]
          /\ cur' \in [Worker -> [Bot -> LoopId \cup {NoLoop}]]
      BY <1>2, DropLoopsType DEF RenewSet
    <2>2. FreeSlots(w)' \in 0..MaxBots
      <3>1. IsFiniteSet(loops'[w])  BY <2>1, FleetConstants, FS_Subset
      <3>2. Cardinality(loops'[w]) \in Nat  BY <3>1, FS_CardinalityType
      <3> QED  BY <3>2, FleetConstants DEF FreeSlots
    <2>3. ASSUME NEW pc \in TaskPc, NEW n \in 0..MaxBots
          PROVE  [Idle(w) EXCEPT !.pc = pc, !.slots = n] \in TaskState
      BY IdleType DEF Idle, TaskState
    <2>4. (IF FreeSlots(w)' > 0 THEN "claimRead" ELSE "shedGet") \in TaskPc  BY DEF TaskPc
    <2>5. task' \in [Worker -> [Task -> TaskState]]
      BY <1>2, <2>2, <2>3, <2>4, GotoType DEF RenewSet
    <2>6. lease' \in [Bot -> Worker \cup {NoWorker}] /\ index' \in [Worker -> SUBSET Bot]
      BY <1>2 DEF TypeOK, RenewSet
    <2> QED  BY <1>2, <2>1, <2>5, <2>6 DEF TypeOK, RenewSet
  <1> QED  BY <1>1, <1>2

\* Claiming keeps the types.
LEMMA ClaimType ==
    ASSUME TypeOK, NEW w \in Worker, NEW t \in Task
    PROVE  ClaimRead(w, t) \/ ClaimSet(w, t) \/ ClaimExtra(w, t) => TypeOK'
  <1> DEFINE me == task[w][t]
  <1>0. me \in TaskState  BY TaskRecord
  <1>a. /\ me.bots \in SUBSET Bot /\ me.cand \in SUBSET Bot
        /\ me.won \in SUBSET Bot /\ me.slots \in 0..MaxBots
    BY <1>0 DEF TaskState
  <1>1. ASSUME ClaimRead(w, t) PROVE TypeOK'
    <2>1. pollable \in SUBSET Bot  BY DEF TypeOK
    <2>2. (IF pollable = {} THEN "start" ELSE "claimSet") \in TaskPc  BY DEF TaskPc
    <2>3. ASSUME NEW pc \in TaskPc
          PROVE  [me EXCEPT !.pc = pc, !.cand = pollable, !.bots = {}] \in TaskState
      BY <1>0, <2>1 DEF TaskState
    <2>4. task' \in [Worker -> [Task -> TaskState]]
      BY <1>1, <2>2, <2>3, GotoType DEF ClaimRead
    <2> QED  BY <1>1, <2>4 DEF TypeOK, ClaimRead, redis, local
  <1>2. ASSUME ClaimSet(w, t) PROVE TypeOK'
    <2> DEFINE need == me.slots - Cardinality(me.won)
    <2>1. PICK batch \in SUBSET me.cand : \E keep \in SUBSET SetNx(batch) :
            /\ lease' = [b \in Bot |-> IF b \in SetNx(batch) THEN w ELSE lease[b]]
            /\ index' = [index EXCEPT ![w] = @ \cup keep]
            /\ LET again == Cardinality(keep) < need /\ batch # me.cand
                   got == SetNx(batch) IN
               Goto(w, t, [me EXCEPT !.cand = @ \ batch, !.won = @ \cup keep,
                                     !.bots = got \ keep,
                                     !.pc = IF got # keep THEN "claimExtra"
                                            ELSE IF again THEN "claimSet" ELSE "start"])
      BY <1>2 DEF ClaimSet
    <2>2. PICK keep \in SUBSET SetNx(batch) :
            /\ lease' = [b \in Bot |-> IF b \in SetNx(batch) THEN w ELSE lease[b]]
            /\ index' = [index EXCEPT ![w] = @ \cup keep]
            /\ \E pc \in {"claimExtra", "claimSet", "start"} :
                 Goto(w, t, [me EXCEPT !.cand = @ \ batch, !.won = @ \cup keep,
                                       !.bots = SetNx(batch) \ keep, !.pc = pc])
      BY <2>1
    <2>3. SetNx(batch) \in SUBSET Bot  BY <1>a DEF SetNx, OwnedBy
    <2>4. ASSUME NEW pc \in {"claimExtra", "claimSet", "start"}
          PROVE  [me EXCEPT !.cand = @ \ batch, !.won = @ \cup keep,
                            !.bots = SetNx(batch) \ keep, !.pc = pc] \in TaskState
      <3>1. /\ me.cand \ batch \in SUBSET Bot /\ me.won \cup keep \in SUBSET Bot
            /\ SetNx(batch) \ keep \in SUBSET Bot
        BY <1>a, <2>3
      <3>2. pc \in TaskPc  BY DEF TaskPc
      <3> HIDE DEF me
      <3> QED  BY <1>0, <3>1, <3>2 DEF TaskState
    <2>5. task' \in [Worker -> [Task -> TaskState]]  BY <2>2, <2>4, GotoType
    <2>6. lease' \in [Bot -> Worker \cup {NoWorker}] /\ index' \in [Worker -> SUBSET Bot]
      BY <2>2, <2>3 DEF TypeOK
    <2> QED  BY <1>2, <2>5, <2>6 DEF TypeOK, ClaimSet, local
  <1>3. ASSUME ClaimExtra(w, t) PROVE TypeOK'
    <2>1. [me EXCEPT !.pc = "start", !.bots = {}] \in TaskState
      BY <1>0 DEF TaskState, TaskPc
    <2>2. task' \in [Worker -> [Task -> TaskState]]  BY <1>3, <2>1, GotoType DEF ClaimExtra
    <2>3. lease' \in [Bot -> Worker \cup {NoWorker}]  BY <1>3 DEF TypeOK, ClaimExtra
    <2> QED  BY <1>3, <2>2, <2>3 DEF TypeOK, ClaimExtra, local
  <1> QED  BY <1>1, <1>2, <1>3

\* Starting what was claimed and shedding keep the types.
LEMMA StartShedType ==
    ASSUME TypeOK, NEW w \in Worker, NEW t \in Task
    PROVE  StartClaimed(w, t) \/ ShedGet(w, t) \/ ShedDel(w, t) => TypeOK'
  <1> DEFINE me == task[w][t]
  <1>0. me \in TaskState  BY TaskRecord
  <1>a. /\ me.bots \in SUBSET Bot /\ me.won \in SUBSET Bot
        /\ me.kind \in {"pass", "restart", "resume"}
    BY <1>0 DEF TaskState
  <1>1. ASSUME StartClaimed(w, t) PROVE TypeOK'
    <2>1. LocalType'  BY <1>1, <1>a, StartLoopsType DEF StartClaimed
    <2>2. FreeSlots(w)' \in 0..MaxBots
      <3>1. loops'[w] \in SUBSET Bot  BY <2>1 DEF LocalType
      <3>2. IsFiniteSet(loops'[w])  BY <3>1, FleetConstants, FS_Subset
      <3>3. Cardinality(loops'[w]) \in Nat  BY <3>2, FS_CardinalityType
      <3> QED  BY <3>3, FleetConstants DEF FreeSlots
    <2>3. task' \in [Worker -> [Task -> TaskState]]
      <3>1. [Idle(w) EXCEPT !.pc = "shedGet"] \in TaskState
        BY IdleType DEF TaskState, TaskPc
      <3>2. ASSUME NEW n \in 0..MaxBots
            PROVE  [Idle(w) EXCEPT !.pc = "claimRead", !.kind = "resume", !.slots = n]
                     \in TaskState
        BY IdleType DEF Idle, TaskState, TaskPc
      <3>3. CASE me.kind = "pass"
        BY <1>1, <3>1, <3>3, GotoType DEF StartClaimed
      <3>4. CASE me.kind = "resume"
        BY <1>1, <3>4, FinishType DEF StartClaimed
      <3>5. CASE me.kind = "restart"
        <4>1. CASE FreeSlots(w)' > 0
          <5>1. Goto(w, t, [Idle(w) EXCEPT !.pc = "claimRead", !.kind = "resume",
                                           !.slots = FreeSlots(w)'])
            BY <1>1, <3>5, <4>1 DEF StartClaimed
          <5>2. [Idle(w) EXCEPT !.pc = "claimRead", !.kind = "resume",
                                !.slots = FreeSlots(w)'] \in TaskState
            BY <3>2, <2>2
          <5> QED  BY <5>1, <5>2, GotoType
        <4>2. CASE ~(FreeSlots(w)' > 0)
          BY <1>1, <3>5, <4>2, FinishType DEF StartClaimed
        <4> QED  BY <4>1, <4>2
      <3> QED  BY <1>a, <3>3, <3>4, <3>5
    <2>4. UNCHANGED <<redis, proc, fenced, shaken, faults>>  BY <1>1 DEF StartClaimed
    <2> QED  BY <2>1, <2>3, <2>4 DEF TypeOK, LocalType, redis
  <1>2. ASSUME ShedGet(w, t) PROVE TypeOK'
    <2>1. PICK S \in SUBSET loops[w] :
            /\ IF S = {} THEN UNCHANGED faults ELSE Disturb
            /\ IF OwnedBy(w, S) = {}
               THEN Finish(w, t)
               ELSE Goto(w, t, [Idle(w) EXCEPT !.pc = "shedDel", !.bots = OwnedBy(w, S)])
      BY <1>2 DEF ShedGet
    <2>2. OwnedBy(w, S) \in SUBSET Bot  BY DEF OwnedBy, TypeOK
    <2>3. [Idle(w) EXCEPT !.pc = "shedDel", !.bots = OwnedBy(w, S)] \in TaskState
      BY <2>2, IdleType DEF Idle, TaskState, TaskPc
    <2>4. task' \in [Worker -> [Task -> TaskState]]  BY <2>1, <2>3, GotoType, FinishType
    <2>5. faults' \in 0..MaxFaults  BY <2>1, FleetConstants DEF TypeOK, Disturb
    <2>6. UNCHANGED <<redis, local, shaken>>  BY <1>2 DEF ShedGet
    <2> QED  BY <2>4, <2>5, <2>6 DEF TypeOK, redis, local
  <1>3. ASSUME ShedDel(w, t) PROVE TypeOK'
    <2>1. task' \in [Worker -> [Task -> TaskState]]  BY <1>3, FinishType DEF ShedDel
    <2>2. /\ lease' \in [Bot -> Worker \cup {NoWorker}]
          /\ index' \in [Worker -> SUBSET Bot]
          /\ shaken' \subseteq Bot
      BY <1>3, <1>a, ReleaseType DEF ShedDel
    <2>3. /\ loops' \in [Worker -> SUBSET Bot]
          /\ cur' \in [Worker -> [Bot -> LoopId \cup {NoLoop}]]
      BY <1>3, DropLoopsType DEF ShedDel
    <2> QED  BY <1>3, <2>1, <2>2, <2>3 DEF TypeOK, ShedDel
  <1> QED  BY <1>1, <1>2, <1>3

\* Pausing a bot keeps the types.
LEMMA PauseType ==
    ASSUME TypeOK, NEW w \in Worker, NEW t \in Task
    PROVE  /\ \A b \in Bot : StopBot(w, t, b) => TypeOK'
           /\ PauseSrem(w, t) \/ PauseGet(w, t) \/ PauseDel(w, t) => TypeOK'
  <1> DEFINE me == task[w][t]
  <1>0. me \in TaskState  BY TaskRecord
  <1>a. me.bots \in SUBSET Bot /\ me.cand \in SUBSET Bot /\ me.whom \in Worker
    BY <1>0 DEF TaskState
  <1>1. ASSUME NEW b \in Bot, StopBot(w, t, b) PROVE TypeOK'
    <2>1. OwnedBy(w, {b}) \in SUBSET Bot /\ {b} \in SUBSET Bot  BY DEF OwnedBy
    <2>2. [Idle(w) EXCEPT !.pc = "pauseSrem", !.bots = {b}, !.cand = OwnedBy(w, {b})]
            \in TaskState
      BY <2>1, IdleType DEF Idle, TaskState, TaskPc
    <2>3. task' \in [Worker -> [Task -> TaskState]]  BY <1>1, <2>2, GotoType DEF StopBot
    <2>4. /\ loops' \in [Worker -> SUBSET Bot]
          /\ cur' \in [Worker -> [Bot -> LoopId \cup {NoLoop}]]
      BY <1>1, DropLoopsType DEF StopBot
    <2>5. faults' \in 0..MaxFaults  BY <1>1, FleetConstants DEF TypeOK, Disturb, StopBot
    <2>6. /\ paused' \subseteq Bot
          /\ UNCHANGED <<pollable, lease, index, fence, proc, fenced, loop, shaken>>
      BY <1>1 DEF TypeOK, StopBot
    <2> QED  BY <2>3, <2>4, <2>5, <2>6 DEF TypeOK
  <1>2. ASSUME PauseSrem(w, t) PROVE TypeOK'
    <2>1. [me EXCEPT !.pc = "pauseGet", !.cand = {}] \in TaskState
      BY <1>0 DEF TaskState, TaskPc
    <2>2. task' \in [Worker -> [Task -> TaskState]]  BY <1>2, <2>1, GotoType DEF PauseSrem
    <2>3. /\ lease' \in [Bot -> Worker \cup {NoWorker}]
          /\ index' \in [Worker -> SUBSET Bot]
      BY <1>2 DEF TypeOK, PauseSrem
    <2>4. /\ pollable' \subseteq Bot /\ shaken' \subseteq Bot
          /\ UNCHANGED <<paused, fence, local, faults>>
      BY <1>2, <1>a DEF TypeOK, PauseSrem
    <2> QED  BY <2>2, <2>3, <2>4 DEF TypeOK, local
  <1>3. ASSUME PauseGet(w, t) PROVE TypeOK'
    <2>1. PICK b \in me.bots :
            Goto(w, t, [me EXCEPT !.pc = "pauseDel", !.whom = OwnerRead(w, b)])
      BY <1>3 DEF PauseGet
    <2>2. OwnerRead(w, b) \in Worker  BY <1>a DEF TypeOK, OwnerRead
    <2>3. [me EXCEPT !.pc = "pauseDel", !.whom = OwnerRead(w, b)] \in TaskState
      BY <1>0, <2>2 DEF TaskState, TaskPc
    <2>4. task' \in [Worker -> [Task -> TaskState]]  BY <2>1, <2>3, GotoType
    <2> QED  BY <1>3, <2>4 DEF TypeOK, PauseGet, redis, local
  <1>4. ASSUME PauseDel(w, t) PROVE TypeOK'
    <2>1. task' \in [Worker -> [Task -> TaskState]]  BY <1>4, FinishType DEF PauseDel
    <2>2. /\ lease' \in [Bot -> Worker \cup {NoWorker}]
          /\ index' \in [Worker -> SUBSET Bot]
          /\ shaken' \subseteq Bot
      BY <1>4, <1>a, ReleaseType DEF PauseDel
    <2> QED  BY <1>4, <2>1, <2>2 DEF TypeOK, PauseDel, local
  <1> QED  BY <1>1, <1>2, <1>3, <1>4

\* Resuming a bot keeps the types.
LEMMA ResumeType ==
    ASSUME TypeOK, NEW w \in Worker, NEW t \in Task
    PROVE  /\ \A b \in Bot : RestartBot(w, t, b) \/ EnsureLoop(w, t, b) => TypeOK'
           /\ ResumeForce(w, t) \/ ResumeClaim(w, t) => TypeOK'
           /\ \A x \in Worker : ForceOffline(w, t, x) => TypeOK'
  <1> DEFINE me == task[w][t]
  <1>0. me \in TaskState  BY TaskRecord
  <1>a. me.bots \in SUBSET Bot /\ me.whom \in Worker  BY <1>0 DEF TaskState
  <1>1. ASSUME NEW b \in Bot, RestartBot(w, t, b) \/ EnsureLoop(w, t, b) PROVE TypeOK'
    <2>1. Resume(w, t, b)  BY <1>1 DEF RestartBot, EnsureLoop
    <2>2. OwnerRead(w, b) \in Worker  BY DEF TypeOK, OwnerRead
    <2>3. [Idle(w) EXCEPT !.pc = "resumeForce", !.bots = {b}, !.whom = OwnerRead(w, b)]
            \in TaskState
      <3>1. {b} \in SUBSET Bot  OBVIOUS
      <3> QED  BY <3>1, <2>2, IdleType DEF Idle, TaskState, TaskPc
    <2>4. task' \in [Worker -> [Task -> TaskState]]  BY <2>1, <2>3, GotoType DEF Resume
    <2>5. /\ loops' \in [Worker -> SUBSET Bot]
          /\ cur' \in [Worker -> [Bot -> LoopId \cup {NoLoop}]]
      <3>1. CASE RestartBot(w, t, b)  BY <3>1, DropLoopsType DEF RestartBot
      <3>2. CASE EnsureLoop(w, t, b)  BY <3>2 DEF EnsureLoop, TypeOK
      <3> QED  BY <1>1, <3>1, <3>2
    <2>6. faults' \in 0..MaxFaults  BY <2>1, FleetConstants DEF TypeOK, Disturb, Resume
    <2>7. /\ paused' \subseteq Bot /\ pollable' \subseteq Bot
          /\ UNCHANGED <<lease, index, fence, proc, fenced, loop, shaken>>
      BY <2>1 DEF TypeOK, Resume
    <2> QED  BY <2>4, <2>5, <2>6, <2>7 DEF TypeOK
  <1>2. ASSUME ResumeForce(w, t) PROVE TypeOK'
    <2>1. [Idle(w) EXCEPT !.pc = "resumeClaim", !.bots = me.bots] \in TaskState
      BY <1>a, IdleType DEF Idle, TaskState, TaskPc
    <2>2. task' \in [Worker -> [Task -> TaskState]]
      BY <1>2, <2>1, GotoType, FinishType DEF ResumeForce
    <2>3. /\ lease' \in [Bot -> Worker \cup {NoWorker}]
          /\ index' \in [Worker -> SUBSET Bot]
          /\ shaken' \subseteq Bot
      BY <1>2, <1>a, ReleaseType DEF ResumeForce
    <2> QED  BY <1>2, <2>2, <2>3 DEF TypeOK, ResumeForce, local
  <1>3. ASSUME ResumeClaim(w, t) PROVE TypeOK'
    <2>1. SetNx(me.bots) \in SUBSET Bot  BY <1>a DEF SetNx, OwnedBy
    <2>2. [Idle(w) EXCEPT !.pc = "start", !.kind = "restart", !.won = SetNx(me.bots)]
            \in TaskState
      BY <2>1, IdleType DEF Idle, TaskState, TaskPc
    <2>3. task' \in [Worker -> [Task -> TaskState]]  BY <1>3, <2>2, GotoType DEF ResumeClaim
    <2>4. lease' \in [Bot -> Worker \cup {NoWorker}] /\ index' \in [Worker -> SUBSET Bot]
      BY <1>3, <2>1 DEF TypeOK, ResumeClaim
    <2> QED  BY <1>3, <2>3, <2>4 DEF TypeOK, ResumeClaim, local
  <1>4. ASSUME NEW x \in Worker, ForceOffline(w, t, x) PROVE TypeOK'
    <2>1. [Idle(w) EXCEPT !.pc = "unregGet", !.whom = x] \in TaskState
      BY IdleType DEF Idle, TaskState, TaskPc
    <2>2. task' \in [Worker -> [Task -> TaskState]]  BY <1>4, <2>1, GotoType DEF ForceOffline
    <2>3. faults' \in 0..MaxFaults  BY <1>4, FleetConstants DEF TypeOK, Disturb, ForceOffline
    <2>4. fence' \subseteq Worker  BY <1>4 DEF TypeOK, ForceOffline
    <2> QED  BY <1>4, <2>2, <2>3, <2>4 DEF TypeOK, ForceOffline, local
  <1> QED  BY <1>1, <1>2, <1>3, <1>4

\* The poll loops keep the types.
LEMMA LoopType ==
    ASSUME TypeOK, NEW w \in Worker, NEW b \in Bot, NEW g \in LoopId
    PROVE  LoopStep(w, b, g) \/ LoopFault(w, b, g) => TypeOK'
  <1>1. ASSUME NEW pc \in LoopPc, MoveLoop(w, b, g, pc), faults' \in 0..MaxFaults
        PROVE TypeOK'
    <2>1. loop' \in [Worker -> [Bot -> [LoopId -> LoopPc]]]
      BY <1>1 DEF TypeOK, MoveLoop
    <2> QED  BY <1>1, <2>1 DEF TypeOK, MoveLoop, redis
  <1>2. Disturb \/ UNCHANGED faults => faults' \in 0..MaxFaults
    BY FleetConstants DEF TypeOK, Disturb
  <1>3. {"poll", "free", "del"} \subseteq LoopPc  BY DEF LoopPc
  <1>4. LoopBoot(w, b, g) \/ LoopBootFails(w, b, g) \/ SessionExpired(w, b, g) => TypeOK'
    BY <1>1, <1>2, <1>3 DEF LoopBoot, LoopBootFails, SessionExpired
  <1>5. ASSUME LoopStops(w, b, g) PROVE TypeOK'
    <2>1. LocalType'  BY <1>5, EndLoopType DEF LoopStops
    <2> QED  BY <1>5, <2>1 DEF TypeOK, LoopStops, LocalType, redis
  <1>6. ASSUME FreeGet(w, b, g) PROVE TypeOK'
    <2>1. CASE lease[b] = w  BY <1>1, <1>2, <1>3, <1>6, <2>1 DEF FreeGet
    <2>2. CASE lease[b] # w
      <3>1. LocalType'  BY <1>6, <2>2, EndLoopType DEF FreeGet
      <3>2. index' \in [Worker -> SUBSET Bot]
        <4>1. index' = [index EXCEPT ![w] = @ \ {b}]  BY <1>6, <2>2 DEF FreeGet
        <4> QED  BY <4>1 DEF TypeOK
      <3> QED  BY <1>6, <2>2, <3>1, <3>2 DEF TypeOK, FreeGet, LocalType
    <2> QED  BY <2>1, <2>2
  <1>7. ASSUME FreeDel(w, b, g) PROVE TypeOK'
    <2>1. LocalType'  BY <1>7, EndLoopType DEF FreeDel
    <2>2. /\ lease' \in [Bot -> Worker \cup {NoWorker}]
          /\ index' \in [Worker -> SUBSET Bot]
          /\ shaken' \subseteq Bot
      <3>1. {b} \in SUBSET Bot  OBVIOUS
      <3> QED  BY <1>7, <3>1, ReleaseType DEF FreeDel
    <2> QED  BY <1>7, <2>1, <2>2 DEF TypeOK, FreeDel, LocalType
  <1> QED  BY <1>4, <1>5, <1>6, <1>7 DEF LoopStep, LoopFault

\* What the loops and processes do, and what Redis does by itself, keep the types.
LEMMA TypeStep == TypeOK /\ [Next]_vars => TypeOK'
  <1> SUFFICES ASSUME TypeOK, [Next]_vars PROVE TypeOK'
    OBVIOUS
  <1>1. ASSUME NEW w \in Worker, NEW t \in Task,
               Start(w, t) \/ TaskStep(w, t) \/ AdminStep(w, t)
        PROVE  TypeOK'
    BY <1>1, LifeCycleType, UnregisterType, FencePassType, RenewType, ClaimType,
       StartShedType, PauseType, ResumeType DEF TaskStep, AdminStep
  <1>2. ASSUME NEW w \in Worker, NEW b \in Bot, NEW g \in LoopId,
               LoopStep(w, b, g) \/ LoopFault(w, b, g)
        PROVE  TypeOK'
    BY <1>2, LoopType
  <1>3. ASSUME NEW w \in Worker, Exit(w) \/ Crash(w) PROVE TypeOK'
    BY <1>3, LifeCycleType
  <1>4. ASSUME NEW w \in Worker, FenceGone(w) PROVE TypeOK'
    BY <1>4 DEF TypeOK, FenceGone, local
  <1>5. ASSUME NEW b \in Bot, ExpireUnrenewed(b) PROVE TypeOK'
    BY <1>5 DEF TypeOK, ExpireUnrenewed, local
  <1>6. ASSUME NEW b \in Bot, ExpireStalled(b) PROVE TypeOK'
    BY <1>6, FleetConstants DEF TypeOK, ExpireStalled, Disturb, local
  <1>7. CASE UNCHANGED vars
    BY <1>7 DEF TypeOK, vars, redis, local
  <1> QED  BY <1>1, <1>2, <1>3, <1>4, <1>5, <1>6, <1>7 DEF Next

\* Type correctness, for every fleet.
THEOREM TypeCorrect == Spec => []TypeOK
  <1>1. Init => TypeOK
    BY FleetConstants, IdleType DEF Init, TypeOK, LoopPc, NoLoop, LoopId
  <1> QED  BY <1>1, TypeStep, PTL DEF Spec

-----------------------------------------------------------------------------
(* The loop table *)

\* Dropping loops keeps the table exact.
LEMMA DropLoopsExact ==
    ASSUME TypeOK, LoopTableExact, NEW w \in Worker, NEW B, DropLoops(w, B),
           UNCHANGED loop
    PROVE  LoopTableExact'
  <1>1. \A x \in Worker : loops'[x] = IF x = w THEN loops[x] \ B ELSE loops[x]
    BY DEF TypeOK, DropLoops
  <1>2. \A x \in Worker, b \in Bot :
          cur'[x][b] = IF x = w /\ b \in B THEN NoLoop ELSE cur[x][b]
    BY DEF TypeOK, DropLoops
  <1>3. ASSUME NEW x \in Worker, NEW b \in Bot
        PROVE  /\ b \in loops'[x] <=> cur'[x][b] # NoLoop
               /\ cur'[x][b] # NoLoop => loop'[x][b][cur'[x][b]] # "done"
    <2>1. /\ b \in loops[x] <=> cur[x][b] # NoLoop
          /\ cur[x][b] # NoLoop => loop[x][b][cur[x][b]] # "done"
      BY DEF LoopTableExact
    <2>2. CASE x = w /\ b \in B     BY <1>1, <1>2, <2>2
    <2>3. CASE ~(x = w /\ b \in B)  BY <1>1, <1>2, <2>1, <2>3
    <2> QED  BY <2>2, <2>3
  <1> QED  BY <1>3 DEF LoopTableExact

\* Starting loops keeps the table exact.
LEMMA StartLoopsExact ==
    ASSUME TypeOK, LoopTableExact, NEW w \in Worker, NEW B \in SUBSET Bot, StartLoops(w, B)
    PROVE  LoopTableExact'
  <1> DEFINE new == IF proc[w] = "up" THEN B \ loops[w] ELSE {}
  <1>1. \A b \in new : NextLoop(w, b) \in LoopId
    BY NextLoopIsFree DEF StartLoops
  <1>2. \A b \in new : NextLoop(w, b) # NoLoop
    BY <1>1 DEF NoLoop, LoopId
  <1>3. \A x \in Worker : loops'[x] = IF x = w THEN loops[x] \cup new ELSE loops[x]
    BY DEF TypeOK, StartLoops
  <1>4. \A x \in Worker, b \in Bot :
          cur'[x][b] = IF x = w /\ b \in new THEN NextLoop(w, b) ELSE cur[x][b]
    BY DEF TypeOK, StartLoops
  <1>5. \A x \in Worker, b \in Bot :
          loop'[x][b] = IF x = w /\ b \in new
                        THEN [loop[w][b] EXCEPT ![NextLoop(w, b)] = "boot"]
                        ELSE loop[x][b]
    BY DEF TypeOK, StartLoops
  <1>6. \A b \in new : loop'[w][b][NextLoop(w, b)] = "boot"
    <2> TAKE b \in new
    <2>1. loop[w][b] \in [LoopId -> LoopPc]  BY DEF TypeOK
    <2>2. loop'[w][b] = [loop[w][b] EXCEPT ![NextLoop(w, b)] = "boot"]  BY <1>5
    <2> QED  BY <1>1, <2>1, <2>2
  <1> HIDE DEF new
  <1>7. ASSUME NEW x \in Worker, NEW b \in Bot
        PROVE  /\ b \in loops'[x] <=> cur'[x][b] # NoLoop
               /\ cur'[x][b] # NoLoop => loop'[x][b][cur'[x][b]] # "done"
    <2>1. CASE x = w /\ b \in new
      BY <2>1, <1>2, <1>3, <1>4, <1>6
    <2>2. CASE ~(x = w /\ b \in new)
      <3>1. /\ b \in loops[x] <=> cur[x][b] # NoLoop
            /\ cur[x][b] # NoLoop => loop[x][b][cur[x][b]] # "done"
        BY DEF LoopTableExact
      <3>2. /\ b \in loops'[x] <=> b \in loops[x]
            /\ cur'[x][b] = cur[x][b] /\ loop'[x][b] = loop[x][b]
        BY <2>2, <1>3, <1>4, <1>5
      <3> QED  BY <3>1, <3>2
    <2> QED  BY <2>1, <2>2
  <1> QED  BY <1>7 DEF LoopTableExact

\* Ending a loop keeps the table exact: the guard of the finally handler.
LEMMA EndLoopExact ==
    ASSUME TypeOK, LoopTableExact, NEW w \in Worker, NEW b \in Bot, NEW g \in LoopId,
           EndLoop(w, b, g)
    PROVE  LoopTableExact'
  <1>1. \A x \in Worker, c \in Bot, h \in LoopId :
          (x # w \/ c # b \/ h # g) => loop'[x][c][h] = loop[x][c][h]
    BY DEF TypeOK, EndLoop
  <1>2. CASE cur[w][b] = g
    <2>1. DropLoops(w, {b})  BY <1>2 DEF EndLoop
    <2>2. \A x \in Worker : loops'[x] = IF x = w THEN loops[x] \ {b} ELSE loops[x]
      BY <2>1 DEF TypeOK, DropLoops
    <2>3. \A x \in Worker, c \in Bot :
            cur'[x][c] = IF x = w /\ c = b THEN NoLoop ELSE cur[x][c]
      BY <2>1 DEF TypeOK, DropLoops
    <2>4. \A x \in Worker, c \in Bot : cur[x][c] # NoLoop => cur[x][c] \in LoopId
      BY DEF TypeOK
    <2>5. ASSUME NEW x \in Worker, NEW c \in Bot
          PROVE  /\ c \in loops'[x] <=> cur'[x][c] # NoLoop
                 /\ cur'[x][c] # NoLoop => loop'[x][c][cur'[x][c]] # "done"
      <3>1. /\ c \in loops[x] <=> cur[x][c] # NoLoop
            /\ cur[x][c] # NoLoop => loop[x][c][cur[x][c]] # "done"
        BY DEF LoopTableExact
      <3>2. CASE x = w /\ c = b     BY <2>2, <2>3, <3>2
      <3>3. CASE ~(x = w /\ c = b)
        <4>1. c \in loops'[x] <=> c \in loops[x]    BY <2>2, <3>3
        <4>2. cur'[x][c] = cur[x][c]                BY <2>3, <3>3
        <4>3. cur[x][c] # NoLoop => loop'[x][c][cur[x][c]] = loop[x][c][cur[x][c]]
          BY <1>1, <2>4, <3>3
        <4> QED  BY <3>1, <4>1, <4>2, <4>3
      <3> QED  BY <3>2, <3>3
    <2> QED  BY <2>5 DEF LoopTableExact
  <1>3. CASE cur[w][b] # g
    <2>1. UNCHANGED <<cur, loops>>  BY <1>3 DEF EndLoop
    <2>2. \A x \in Worker, c \in Bot : cur[x][c] # NoLoop => cur[x][c] \in LoopId
      BY DEF TypeOK
    <2> QED  BY <1>1, <1>3, <2>1, <2>2 DEF LoopTableExact
  <1> QED  BY <1>2, <1>3

\* A loop that moves on without ending keeps the table exact.
LEMMA MoveLoopExact ==
    ASSUME TypeOK, LoopTableExact, NEW w \in Worker, NEW b \in Bot, NEW g \in LoopId,
           NEW pc \in LoopPc \ {"done"}, MoveLoop(w, b, g, pc)
    PROVE  LoopTableExact'
  <1>1. \A x \in Worker, c \in Bot, h \in LoopId :
          loop'[x][c][h] = IF x = w /\ c = b /\ h = g THEN pc ELSE loop[x][c][h]
    BY DEF TypeOK, MoveLoop
  <1>2. UNCHANGED <<cur, loops>>  BY DEF MoveLoop
  <1>3. \A x \in Worker, c \in Bot : cur[x][c] # NoLoop => cur[x][c] \in LoopId
    BY DEF TypeOK
  <1> QED  BY <1>1, <1>2, <1>3 DEF LoopTableExact

\* Every step keeps the loop table exact.
LEMMA LoopTableStep == TypeOK /\ LoopTableExact /\ [Next]_vars => LoopTableExact'
  <1> SUFFICES ASSUME TypeOK, LoopTableExact, [Next]_vars PROVE LoopTableExact'
    OBVIOUS
  <1>0. ASSUME UNCHANGED <<loops, cur, loop>> PROVE LoopTableExact'
    BY <1>0 DEF LoopTableExact
  <1>1. ASSUME NEW w \in Worker, NEW t \in Task, Start(w, t) PROVE LoopTableExact'
    BY <1>0, <1>1 DEF Start
  <1>2. ASSUME NEW w \in Worker, NEW t \in Task, TaskStep(w, t) PROVE LoopTableExact'
    <2>1. CASE \/ CheckFence(w, t) \/ FenceGet(w, t) \/ RenewGet(w, t) \/ ClaimRead(w, t)
               \/ ClaimSet(w, t) \/ ClaimExtra(w, t) \/ ShedGet(w, t) \/ Reap(w, t)
               \/ Boot(w, t) \/ UnregGet(w, t) \/ UnregDel(w, t) \/ PauseSrem(w, t)
               \/ PauseGet(w, t) \/ PauseDel(w, t) \/ ResumeForce(w, t)
               \/ ResumeClaim(w, t)
      BY <1>0, <2>1
         DEF CheckFence, FenceGet, RenewGet, ClaimRead, ClaimSet, ClaimExtra, ShedGet, Reap,
             Boot, UnregGet, UnregDel, PauseSrem, PauseGet, PauseDel, ResumeForce,
             ResumeClaim, local
    <2>2. CASE FenceDel(w, t)  BY <2>2, DropLoopsExact DEF FenceDel
    <2>3. CASE RenewSet(w, t)  BY <2>3, DropLoopsExact DEF RenewSet
    <2>4. CASE ShedDel(w, t)   BY <2>4, DropLoopsExact DEF ShedDel
    <2>5. CASE StartClaimed(w, t)
      <3>1. task[w][t].won \in SUBSET Bot  BY TaskRecord DEF TaskState
      <3> QED  BY <2>5, <3>1, StartLoopsExact DEF StartClaimed
    <2> QED  BY <1>2, <2>1, <2>2, <2>3, <2>4, <2>5 DEF TaskStep
  <1>3. ASSUME NEW w \in Worker, NEW t \in Task, AdminStep(w, t) PROVE LoopTableExact'
    <2>1. ASSUME NEW b \in Bot, StopBot(w, t, b) PROVE LoopTableExact'
      BY <2>1, DropLoopsExact DEF StopBot
    <2>2. ASSUME NEW b \in Bot, RestartBot(w, t, b) PROVE LoopTableExact'
      BY <2>2, DropLoopsExact DEF RestartBot, Resume
    <2>3. ASSUME NEW b \in Bot, EnsureLoop(w, t, b) PROVE LoopTableExact'
      BY <2>3, <1>0 DEF EnsureLoop, Resume
    <2>4. ASSUME NEW x \in Worker, ForceOffline(w, t, x) PROVE LoopTableExact'
      BY <2>4, <1>0 DEF ForceOffline, local
    <2>5. CASE Stop(w, t)  BY <2>5, DropLoopsExact DEF Stop
    <2> QED  BY <1>3, <2>1, <2>2, <2>3, <2>4, <2>5 DEF AdminStep
  <1>4. ASSUME NEW w \in Worker, NEW b \in Bot, NEW g \in LoopId,
               LoopStep(w, b, g) \/ LoopFault(w, b, g)
        PROVE  LoopTableExact'
    <2>1. {"poll", "free", "del"} \subseteq LoopPc \ {"done"}  BY DEF LoopPc
    <2>2. CASE LoopBoot(w, b, g)  BY <2>1, <2>2, MoveLoopExact DEF LoopBoot
    <2>3. CASE LoopBootFails(w, b, g) \/ SessionExpired(w, b, g)
      BY <2>1, <2>3, MoveLoopExact DEF LoopBootFails, SessionExpired
    <2>4. CASE LoopStops(w, b, g)  BY <2>4, EndLoopExact DEF LoopStops
    <2>5. CASE FreeGet(w, b, g)    BY <2>1, <2>5, MoveLoopExact, EndLoopExact DEF FreeGet
    <2>6. CASE FreeDel(w, b, g)    BY <2>6, EndLoopExact DEF FreeDel
    <2> QED  BY <1>4, <2>2, <2>3, <2>4, <2>5, <2>6 DEF LoopStep, LoopFault
  <1>5. ASSUME NEW w \in Worker, Die(w) PROVE LoopTableExact'
    <2>1. \A x \in Worker : x # w => UNCHANGED <<loops[x], cur[x], loop[x]>>
      BY <1>5 DEF TypeOK, Die, DropLoops
    <2>2. loops'[w] = {} /\ \A b \in Bot : cur'[w][b] = NoLoop
      BY <1>5 DEF TypeOK, Die, DropLoops
    <2> QED  BY <2>1, <2>2 DEF LoopTableExact
  <1>6. ASSUME NEW w \in Worker, FenceGone(w) PROVE LoopTableExact'
    BY <1>0, <1>6 DEF FenceGone, local
  <1>7. ASSUME NEW b \in Bot, ExpireUnrenewed(b) \/ ExpireStalled(b) PROVE LoopTableExact'
    BY <1>0, <1>7 DEF ExpireUnrenewed, ExpireStalled, local
  <1>8. CASE UNCHANGED vars
    BY <1>0, <1>8 DEF vars, local
  <1> QED  BY <1>1, <1>2, <1>3, <1>4, <1>5, <1>6, <1>7, <1>8 DEF Next, Exit, Crash

\* The loops map and the running current loops agree, in every fleet
\* (startLoop, dropLocalLoop and the guarded finally handler of worker.ts).
THEOREM LoopTableCorrect == Spec => []LoopTableExact
  <1>1. Init => LoopTableExact
    BY DEF Init, LoopTableExact
  <1> QED  BY <1>1, TypeCorrect, LoopTableStep, PTL DEF Spec

-----------------------------------------------------------------------------
(* A stopped process polls nothing *)

\* Only a running process adds to its loop table.
LEMMA StoppedStep == TypeOK /\ StoppedPollsNothing /\ [Next]_vars => StoppedPollsNothing'
  <1> SUFFICES ASSUME TypeOK, StoppedPollsNothing, [Next]_vars
               PROVE  StoppedPollsNothing'
    OBVIOUS
  <1>0. ASSUME UNCHANGED proc, \A w \in Worker : loops'[w] \subseteq loops[w]
        PROVE  StoppedPollsNothing'
    BY <1>0 DEF StoppedPollsNothing
  <1>a. ASSUME NEW w \in Worker, NEW B, DropLoops(w, B), UNCHANGED proc
        PROVE  StoppedPollsNothing'
    BY <1>0, <1>a DEF TypeOK, DropLoops
  <1>b. ASSUME NEW w \in Worker, NEW b \in Bot, NEW g \in LoopId, EndLoop(w, b, g),
               UNCHANGED proc
        PROVE  StoppedPollsNothing'
    BY <1>0, <1>a, <1>b DEF EndLoop
  <1>1. ASSUME NEW w \in Worker, NEW t \in Task, Start(w, t) PROVE StoppedPollsNothing'
    BY <1>1 DEF TypeOK, StoppedPollsNothing, Start
  <1>2. ASSUME NEW w \in Worker, NEW t \in Task, TaskStep(w, t) PROVE StoppedPollsNothing'
    <2>1. CASE \/ CheckFence(w, t) \/ FenceGet(w, t) \/ RenewGet(w, t) \/ ClaimRead(w, t)
               \/ ClaimSet(w, t) \/ ClaimExtra(w, t) \/ ShedGet(w, t) \/ Reap(w, t)
               \/ Boot(w, t) \/ UnregGet(w, t) \/ UnregDel(w, t) \/ PauseSrem(w, t)
               \/ PauseGet(w, t) \/ PauseDel(w, t) \/ ResumeForce(w, t)
               \/ ResumeClaim(w, t)
      <3>1. UNCHANGED <<proc, loops>>
        BY <2>1
           DEF CheckFence, FenceGet, RenewGet, ClaimRead, ClaimSet, ClaimExtra, ShedGet,
               Reap, Boot, UnregGet, UnregDel, PauseSrem, PauseGet, PauseDel, ResumeForce,
               ResumeClaim, local
      <3> QED  BY <1>0, <3>1
    <2>2. CASE FenceDel(w, t)  BY <1>a, <2>2 DEF FenceDel
    <2>3. CASE RenewSet(w, t)  BY <1>a, <2>3 DEF RenewSet
    <2>4. CASE ShedDel(w, t)   BY <1>a, <2>4 DEF ShedDel
    <2>5. CASE StartClaimed(w, t)
      <3>1. /\ UNCHANGED proc
            /\ \A x \in Worker : proc[x] # "up" => loops'[x] = loops[x]
        BY <2>5 DEF TypeOK, StartClaimed, StartLoops
      <3> QED  BY <3>1 DEF StoppedPollsNothing
    <2> QED  BY <1>2, <2>1, <2>2, <2>3, <2>4, <2>5 DEF TaskStep
  <1>3. ASSUME NEW w \in Worker, NEW t \in Task, AdminStep(w, t) PROVE StoppedPollsNothing'
    <2>1. ASSUME NEW b \in Bot, StopBot(w, t, b) PROVE StoppedPollsNothing'
      BY <1>a, <2>1 DEF StopBot
    <2>2. ASSUME NEW b \in Bot, RestartBot(w, t, b) PROVE StoppedPollsNothing'
      BY <1>a, <2>2 DEF RestartBot, Resume
    <2>3. ASSUME NEW b \in Bot, EnsureLoop(w, t, b) PROVE StoppedPollsNothing'
      BY <1>0, <2>3 DEF EnsureLoop, Resume
    <2>4. ASSUME NEW x \in Worker, ForceOffline(w, t, x) PROVE StoppedPollsNothing'
      BY <1>0, <2>4 DEF ForceOffline, local
    <2>5. CASE Stop(w, t)
      <3>1. \A x \in Worker : /\ x # w => proc'[x] = proc[x] /\ loops'[x] = loops[x]
                              /\ x = w => loops'[x] = {}
        BY <2>5 DEF TypeOK, Stop, DropLoops
      <3> QED  BY <3>1 DEF StoppedPollsNothing
    <2> QED  BY <1>3, <2>1, <2>2, <2>3, <2>4, <2>5 DEF AdminStep
  <1>4. ASSUME NEW w \in Worker, NEW b \in Bot, NEW g \in LoopId,
               LoopStep(w, b, g) \/ LoopFault(w, b, g)
        PROVE  StoppedPollsNothing'
    <2>1. ASSUME NEW pc, MoveLoop(w, b, g, pc) PROVE StoppedPollsNothing'
      BY <1>0, <2>1 DEF MoveLoop
    <2>2. CASE LoopBoot(w, b, g)  BY <2>1, <2>2 DEF LoopBoot
    <2>3. CASE LoopBootFails(w, b, g) \/ SessionExpired(w, b, g)
      BY <2>1, <2>3 DEF LoopBootFails, SessionExpired
    <2>4. CASE LoopStops(w, b, g)  BY <1>b, <2>4 DEF LoopStops
    <2>5. CASE FreeGet(w, b, g)    BY <1>b, <2>1, <2>5 DEF FreeGet
    <2>6. CASE FreeDel(w, b, g)    BY <1>b, <2>6 DEF FreeDel
    <2> QED  BY <1>4, <2>2, <2>3, <2>4, <2>5, <2>6 DEF LoopStep, LoopFault
  <1>5. ASSUME NEW w \in Worker, Die(w) PROVE StoppedPollsNothing'
    <2>1. \A x \in Worker : /\ x # w => proc'[x] = proc[x] /\ loops'[x] = loops[x]
                            /\ x = w => loops'[x] = {}
      BY <1>5 DEF TypeOK, Die, DropLoops
    <2> QED  BY <2>1 DEF StoppedPollsNothing
  <1>6. ASSUME NEW w \in Worker, FenceGone(w) PROVE StoppedPollsNothing'
    BY <1>0, <1>6 DEF FenceGone, local
  <1>7. ASSUME NEW b \in Bot, ExpireUnrenewed(b) \/ ExpireStalled(b)
        PROVE  StoppedPollsNothing'
    BY <1>0, <1>7 DEF ExpireUnrenewed, ExpireStalled, local
  <1>8. CASE UNCHANGED vars
    BY <1>0, <1>8 DEF vars, local
  <1> QED  BY <1>1, <1>2, <1>3, <1>4, <1>5, <1>6, <1>7, <1>8 DEF Next, Exit, Crash

\* A process that was told to stop polls nothing, whatever tasks it had in
\* flight, in every fleet (stopAsync, the `stopped` check of startLoop).
THEOREM StoppedProcessPollsNothing == Spec => []StoppedPollsNothing
  <1>1. Init => StoppedPollsNothing
    BY DEF Init, StoppedPollsNothing
  <1> QED  BY <1>1, TypeCorrect, StoppedStep, PTL DEF Spec

-----------------------------------------------------------------------------
(***************************************************************************)
(* One poller per bot                                                      *)
(*                                                                         *)
(* That a polled bot's lease names its poller is not inductive: a step can *)
(* renew, start or delete what an earlier step of the same task read.  It  *)
(* becomes inductive with what the tasks in flight rely upon: the bots     *)
(* they won, read as theirs or won in excess carry the worker's lease, and *)
(* those won in excess, whose leases ClaimExtra deletes without looking,   *)
(* are used by nothing else.                                               *)
(***************************************************************************)

\* The bots a task reads or is about to renew; those it won in excess.
Renewing(s) == IF s.pc \in {"renewGet", "renewSet"} THEN s.bots ELSE {}
Excess(s) == IF s.pc = "claimExtra" THEN s.bots ELSE {}
Uses(s) == s.won \cup Renewing(s)

LoopsLeased(b) == \A w \in Worker : b \in loops[w] => lease[b] = w

TasksLeased(b) ==
    \A w \in Worker, t \in Task :
        b \in Uses(task[w][t]) \cup Excess(task[w][t]) => lease[b] = w

ExcessUnused(b) ==
    \A w \in Worker, t \in Task : b \in Excess(task[w][t]) =>
        /\ b \notin loops[w]
        /\ \A u \in Task : b \notin Uses(task[w][u])
        /\ \A u \in Task \ {t} : b \notin Excess(task[w][u])

BotInv(b) == LoopsLeased(b) /\ TasksLeased(b) /\ ExcessUnused(b)
LeaseInv == \A b \in Bot \ shaken : BotInv(b)

\* No task uses more bots than before.
TasksShrink ==
    \A w \in Worker, t \in Task :
        /\ Uses(task'[w][t]) \subseteq Uses(task[w][t])
        /\ Excess(task'[w][t]) \subseteq Excess(task[w][t])

LoopsShrink == \A w \in Worker : loops'[w] \subseteq loops[w]

\* Goto changes one task only.
LEMMA GotoTask ==
    ASSUME TypeOK, NEW w \in Worker, NEW t \in Task, NEW s, Goto(w, t, s)
    PROVE  \A x \in Worker, u \in Task :
             task'[x][u] = IF x = w /\ u = t THEN s ELSE task[x][u]
  BY DEF TypeOK, Goto

LEMMA GotoShrinks ==
    ASSUME TypeOK, NEW w \in Worker, NEW t \in Task, NEW s, Goto(w, t, s),
           Uses(s) \subseteq Uses(task[w][t]), Excess(s) \subseteq Excess(task[w][t])
    PROVE  TasksShrink
  <1>1. ASSUME NEW x \in Worker, NEW u \in Task
        PROVE  /\ Uses(task'[x][u]) \subseteq Uses(task[x][u])
               /\ Excess(task'[x][u]) \subseteq Excess(task[x][u])
    <2>1. CASE x = w /\ u = t
      <3>1. task'[x][u] = s  BY <2>1, GotoTask
      <3> QED  BY <2>1, <3>1
    <2>2. CASE ~(x = w /\ u = t)
      <3>1. task'[x][u] = task[x][u]  BY <2>2, GotoTask
      <3> QED  BY <3>1
    <2> QED  BY <2>1, <2>2
  <1> QED  BY <1>1 DEF TasksShrink

\* A finished task uses nothing.
LEMMA FinishShrinks ==
    ASSUME TypeOK, NEW w \in Worker, NEW t \in Task, Finish(w, t)
    PROVE  TasksShrink
  <1>1. Uses(Idle(w)) = {} /\ Excess(Idle(w)) = {}
    BY DEF Idle, Uses, Renewing, Excess
  <1> QED  BY <1>1, GotoShrinks DEF Finish

\* A step that gives a bot to no loop and no task and leaves its lease alone
\* keeps the bot's part of the invariant.
LEMMA QuietBot ==
    ASSUME NEW b \in Bot, BotInv(b), lease'[b] = lease[b],
           \A w \in Worker : b \in loops'[w] => b \in loops[w],
           \A w \in Worker, t \in Task :
             /\ b \in Uses(task'[w][t]) => b \in Uses(task[w][t])
             /\ b \in Excess(task'[w][t]) => b \in Excess(task[w][t])
    PROVE  BotInv(b)'
  <1>1. LoopsLeased(b)'  BY DEF BotInv, LoopsLeased
  <1>2. TasksLeased(b)'  BY DEF BotInv, TasksLeased
  <1>3. ExcessUnused(b)'
    <2> SUFFICES ASSUME NEW w \in Worker, NEW t \in Task, b \in Excess(task'[w][t])
                 PROVE  /\ b \notin loops'[w]
                        /\ \A u \in Task : b \notin Uses(task'[w][u])
                        /\ \A u \in Task \ {t} : b \notin Excess(task'[w][u])
      BY DEF ExcessUnused
    <2>1. b \in Excess(task[w][t])  OBVIOUS
    <2> QED  BY <2>1 DEF BotInv, ExcessUnused
  <1> QED  BY <1>1, <1>2, <1>3 DEF BotInv

\* The same for all bots but those marked as shaken.
LEMMA QuietStep ==
    ASSUME LeaseInv, shaken \subseteq shaken', LoopsShrink, TasksShrink,
           \A b \in Bot \ shaken' : lease'[b] = lease[b]
    PROVE  LeaseInv'
  <1> SUFFICES ASSUME NEW b \in Bot \ shaken' PROVE BotInv(b)'
    BY DEF LeaseInv
  <1>1. BotInv(b)  BY DEF LeaseInv
  <1>2. \A w \in Worker : b \in loops'[w] => b \in loops[w]  BY DEF LoopsShrink
  <1>3. \A w \in Worker, t \in Task :
          /\ b \in Uses(task'[w][t]) => b \in Uses(task[w][t])
          /\ b \in Excess(task'[w][t]) => b \in Excess(task[w][t])
    BY DEF TasksShrink
  <1> QED  BY <1>1, <1>2, <1>3, QuietBot

\* Dropping and ending loops only shrinks the loop tables.
LEMMA DropShrinks ==
    ASSUME TypeOK, NEW w \in Worker, NEW B, DropLoops(w, B)
    PROVE  LoopsShrink
  BY DEF TypeOK, DropLoops, LoopsShrink

LEMMA EndShrinks ==
    ASSUME TypeOK, NEW w \in Worker, NEW b \in Bot, NEW g \in LoopId, EndLoop(w, b, g)
    PROVE  LoopsShrink
  <1>1. CASE cur[w][b] = g  BY <1>1, DropShrinks DEF EndLoop
  <1>2. CASE cur[w][b] # g  BY <1>2 DEF EndLoop, LoopsShrink
  <1> QED  BY <1>1, <1>2

\* A release shakes the bots whose leases it deletes.
LEMMA ReleaseShakes ==
    ASSUME NEW w, NEW B, Release(w, B) \/ Unregister(w, B)
    PROVE  shaken \subseteq shaken' /\ \A b \in Bot \ shaken' : lease'[b] = lease[b]
  BY DEF Release, Unregister

\* A bot without a lease is used by no loop and no task.
LEMMA UnleasedUnused ==
    ASSUME NEW b \in Bot, BotInv(b), lease[b] = NoWorker
    PROVE  \A w \in Worker :
             /\ b \notin loops[w]
             /\ \A t \in Task : b \notin Uses(task[w][t]) /\ b \notin Excess(task[w][t])
  BY FleetConstants DEF BotInv, LoopsLeased, TasksLeased

\* A pass takes the snapshot of the loops it is going to renew.
LEMMA CheckFenceLease ==
    ASSUME TypeOK, LeaseInv, NEW w \in Worker, NEW t \in Task, CheckFence(w, t)
    PROVE  LeaseInv'
  <1> DEFINE s == [Idle(w) EXCEPT !.bots = loops[w],
                     !.pc = IF w \notin fence THEN "renewGet"
                            ELSE IF loops[w] # {} THEN "fenceGet" ELSE "unregGet"]
  <1>1. Goto(w, t, s)  BY DEF CheckFence
  <1>2. Uses(s) \subseteq loops[w] /\ Excess(s) = {}
    BY DEF Idle, Uses, Renewing, Excess
  <1> HIDE DEF s
  <1> SUFFICES ASSUME NEW b \in Bot \ shaken' PROVE BotInv(b)'
    BY DEF LeaseInv
  <1>3. UNCHANGED <<lease, loops, shaken>>  BY DEF CheckFence, redis
  <1>4. BotInv(b)  BY <1>3 DEF LeaseInv
  <1>5. \A x \in Worker, u \in Task :
          task'[x][u] = IF x = w /\ u = t THEN s ELSE task[x][u]
    BY <1>1, GotoTask
  <1>6. LoopsLeased(b)'  BY <1>3, <1>4 DEF BotInv, LoopsLeased
  <1>7. TasksLeased(b)'
    <2> SUFFICES ASSUME NEW x \in Worker, NEW u \in Task,
                        b \in Uses(task'[x][u]) \cup Excess(task'[x][u])
                 PROVE  lease'[b] = x
      BY DEF TasksLeased
    <2>1. CASE x = w /\ u = t
      <3>1. b \in loops[w]  BY <1>2, <1>5, <2>1
      <3> QED  BY <1>3, <1>4, <2>1, <3>1 DEF BotInv, LoopsLeased
    <2>2. CASE ~(x = w /\ u = t)
      BY <1>3, <1>4, <1>5, <2>2 DEF BotInv, TasksLeased
    <2> QED  BY <2>1, <2>2
  <1>8. ExcessUnused(b)'
    <2> SUFFICES ASSUME NEW x \in Worker, NEW u \in Task, b \in Excess(task'[x][u])
                 PROVE  /\ b \notin loops'[x]
                        /\ \A v \in Task : b \notin Uses(task'[x][v])
                        /\ \A v \in Task \ {u} : b \notin Excess(task'[x][v])
      BY DEF ExcessUnused
    <2>1. ~(x = w /\ u = t)  BY <1>2, <1>5
    <2>2. b \in Excess(task[x][u])  BY <1>5, <2>1
    <2>3. /\ b \notin loops[x]
          /\ \A v \in Task : b \notin Uses(task[x][v])
          /\ \A v \in Task \ {u} : b \notin Excess(task[x][v])
      BY <1>4, <2>2 DEF BotInv, ExcessUnused
    <2>4. \A v \in Task : b \notin Uses(task'[x][v])
      BY <1>2, <1>5, <2>3
    <2>5. \A v \in Task \ {u} : b \notin Excess(task'[x][v])
      BY <1>2, <1>5, <2>3
    <2> QED  BY <1>3, <2>3, <2>4, <2>5
  <1> QED  BY <1>6, <1>7, <1>8 DEF BotInv

\* A task that claims bots without a lease becomes their only user: it keeps
\* some and may have the others in excess.
LEMMA ClaimLease ==
    ASSUME TypeOK, LeaseInv, NEW w \in Worker, NEW t \in Task, NEW s, NEW got, NEW keep,
           Goto(w, t, s), UNCHANGED <<loops, shaken>>,
           got \subseteq {b \in Bot : lease[b] = NoWorker}, keep \subseteq got,
           lease' = [b \in Bot |-> IF b \in got THEN w ELSE lease[b]],
           Uses(s) \subseteq Uses(task[w][t]) \cup keep, Excess(s) \subseteq got \ keep
    PROVE  LeaseInv'
  <1> SUFFICES ASSUME NEW b \in Bot \ shaken' PROVE BotInv(b)'
    BY DEF LeaseInv
  <1>1. BotInv(b)  BY DEF LeaseInv
  <1>2. \A x \in Worker, u \in Task :
          task'[x][u] = IF x = w /\ u = t THEN s ELSE task[x][u]
    BY GotoTask
  <1>3. CASE b \in got
    <2>1. lease[b] = NoWorker /\ lease'[b] = w  BY <1>3
    <2>2. \A x \in Worker :
            /\ b \notin loops[x]
            /\ \A u \in Task : b \notin Uses(task[x][u]) /\ b \notin Excess(task[x][u])
      BY <1>1, <2>1, UnleasedUnused
    <2>3. LoopsLeased(b)'  BY <2>2 DEF LoopsLeased
    <2>4. \A x \in Worker, u \in Task :
            ~(x = w /\ u = t) => /\ b \notin Uses(task'[x][u])
                                 /\ b \notin Excess(task'[x][u])
      BY <1>2, <2>2
    <2>5. TasksLeased(b)'  BY <2>1, <2>4 DEF TasksLeased
    <2>6. b \in Excess(task'[w][t]) => b \notin Uses(task'[w][t])
      BY <1>2, <2>2
    <2>7. ExcessUnused(b)'  BY <2>2, <2>4, <2>6 DEF ExcessUnused
    <2> QED  BY <2>3, <2>5, <2>7 DEF BotInv
  <1>4. CASE b \notin got
    <2>1. lease'[b] = lease[b]  BY <1>4
    <2>2. ASSUME NEW x \in Worker, NEW u \in Task
          PROVE  /\ b \in Uses(task'[x][u]) => b \in Uses(task[x][u])
                 /\ b \in Excess(task'[x][u]) => b \in Excess(task[x][u])
      <3>1. CASE x = w /\ u = t
        <4>1. task'[x][u] = s  BY <1>2, <3>1
        <4> QED  BY <1>4, <3>1, <4>1
      <3>2. CASE ~(x = w /\ u = t)
        <4>1. task'[x][u] = task[x][u]  BY <1>2, <3>2
        <4> QED  BY <4>1
      <3> QED  BY <3>1, <3>2
    <2> QED  BY <1>1, <2>1, <2>2, QuietBot
  <1> QED  BY <1>3, <1>4

\* The deletion of the leases won in excess hits no bot that anything uses.
LEMMA ClaimExtraLease ==
    ASSUME TypeOK, LeaseInv, NEW w \in Worker, NEW t \in Task, ClaimExtra(w, t)
    PROVE  LeaseInv'
  <1> DEFINE me == task[w][t]
  <1> DEFINE s == [me EXCEPT !.pc = "start", !.bots = {}]
  <1>0. me \in TaskState  BY TaskRecord
  <1>1. Goto(w, t, s)  BY DEF ClaimExtra
  <1>2. Uses(s) \subseteq Uses(me) /\ Excess(s) = {}
    <2>1. s.won = me.won /\ s.pc = "start"  BY <1>0 DEF TaskState
    <2> QED  BY <2>1 DEF Uses, Renewing, Excess
  <1>3. Excess(me) = me.bots  BY DEF ClaimExtra, At, Excess
  <1> HIDE DEF s
  <1> SUFFICES ASSUME NEW b \in Bot \ shaken' PROVE BotInv(b)'
    BY DEF LeaseInv
  <1>4. UNCHANGED <<loops, shaken>>  BY DEF ClaimExtra, local
  <1>5. BotInv(b)  BY <1>4 DEF LeaseInv
  <1>6. \A x \in Worker, u \in Task :
          task'[x][u] = IF x = w /\ u = t THEN s ELSE task[x][u]
    BY <1>1, GotoTask
  <1>7. TasksShrink  BY <1>1, <1>2, GotoShrinks
  <1>8. CASE b \in me.bots
    <2>1. lease[b] = w  BY <1>3, <1>5, <1>8 DEF BotInv, TasksLeased
    <2>2. /\ b \notin loops[w]
          /\ \A u \in Task : b \notin Uses(task[w][u])
          /\ \A u \in Task \ {t} : b \notin Excess(task[w][u])
      BY <1>3, <1>5, <1>8 DEF BotInv, ExcessUnused
    <2>3. \A x \in Worker \ {w} :
            /\ b \notin loops[x]
            /\ \A u \in Task : b \notin Uses(task[x][u]) /\ b \notin Excess(task[x][u])
      BY <1>5, <2>1 DEF BotInv, LoopsLeased, TasksLeased
    <2>4. \A x \in Worker : b \notin loops'[x]  BY <1>4, <2>2, <2>3
    <2>5. \A x \in Worker, u \in Task : b \notin Uses(task'[x][u])
      BY <1>7, <2>2, <2>3 DEF TasksShrink
    <2>6. \A x \in Worker, u \in Task : b \notin Excess(task'[x][u])
      <3> TAKE x \in Worker, u \in Task
      <3>1. CASE x = w /\ u = t     BY <1>2, <1>6, <3>1
      <3>2. CASE ~(x = w /\ u = t)  BY <1>6, <2>2, <2>3, <3>2
      <3> QED  BY <3>1, <3>2
    <2> QED  BY <2>4, <2>5, <2>6 DEF BotInv, LoopsLeased, TasksLeased, ExcessUnused
  <1>9. CASE b \notin me.bots
    <2>1. lease'[b] = lease[b]  BY <1>9 DEF ClaimExtra
    <2>2. \A x \in Worker : b \in loops'[x] => b \in loops[x]  BY <1>4
    <2>3. \A x \in Worker, u \in Task :
            /\ b \in Uses(task'[x][u]) => b \in Uses(task[x][u])
            /\ b \in Excess(task'[x][u]) => b \in Excess(task[x][u])
      BY <1>7 DEF TasksShrink
    <2> QED  BY <1>5, <2>1, <2>2, <2>3, QuietBot
  <1> QED  BY <1>8, <1>9

\* The loops that are started are those of bots the task won.
LEMMA StartClaimedLease ==
    ASSUME TypeOK, LeaseInv, NEW w \in Worker, NEW t \in Task, StartClaimed(w, t)
    PROVE  LeaseInv'
  <1> DEFINE me == task[w][t]
  <1>0. me \in TaskState  BY TaskRecord
  <1>1. PICK s : /\ Goto(w, t, s) /\ Uses(s) = {} /\ Excess(s) = {}
    <2>1. \A pc \in {"shedGet", "claimRead"}, k \in {"pass", "resume"}, n \in Nat :
            /\ Uses([Idle(w) EXCEPT !.pc = pc]) = {}
            /\ Excess([Idle(w) EXCEPT !.pc = pc]) = {}
            /\ Uses([Idle(w) EXCEPT !.pc = pc, !.kind = k, !.slots = n]) = {}
            /\ Excess([Idle(w) EXCEPT !.pc = pc, !.kind = k, !.slots = n]) = {}
      BY DEF Idle, Uses, Renewing, Excess
    <2>2. Uses(Idle(w)) = {} /\ Excess(Idle(w)) = {}
      BY DEF Idle, Uses, Renewing, Excess
    <2>3. LocalType'
      <3>1. me.won \in SUBSET Bot  BY <1>0 DEF TaskState
      <3> QED  BY <3>1, StartLoopsType DEF StartClaimed
    <2>4. FreeSlots(w)' \in Nat
      <3>1. IsFiniteSet(loops'[w])  BY <2>3, FleetConstants, FS_Subset DEF LocalType
      <3>2. Cardinality(loops'[w]) \in Nat  BY <3>1, FS_CardinalityType
      <3> QED  BY <3>2, FleetConstants DEF FreeSlots
    <2>5. \/ Goto(w, t, [Idle(w) EXCEPT !.pc = "shedGet"])
          \/ Goto(w, t, Idle(w))
          \/ Goto(w, t, [Idle(w) EXCEPT !.pc = "claimRead", !.kind = "resume",
                                        !.slots = FreeSlots(w)'])
      <3>1. me.kind \in {"pass", "restart", "resume"}  BY <1>0 DEF TaskState
      <3> QED  BY <3>1 DEF StartClaimed, Finish
    <2> QED  BY <2>1, <2>2, <2>4, <2>5
  <1> SUFFICES ASSUME NEW b \in Bot \ shaken' PROVE BotInv(b)'
    BY DEF LeaseInv
  <1>2. UNCHANGED <<lease, shaken>>  BY DEF StartClaimed, redis
  <1>3. BotInv(b)  BY <1>2 DEF LeaseInv
  <1>4. TasksShrink  BY <1>1, GotoShrinks
  <1>5. \A x \in Worker : b \in loops'[x] => b \in loops[x] \/ (x = w /\ b \in me.won)
    BY DEF TypeOK, StartClaimed, StartLoops
  <1>6. b \in me.won => b \in Uses(me)  BY DEF Uses
  <1>7. LoopsLeased(b)'
    BY <1>2, <1>3, <1>5, <1>6 DEF BotInv, LoopsLeased, TasksLeased
  <1>8. TasksLeased(b)'
    BY <1>2, <1>3, <1>4 DEF BotInv, TasksLeased, TasksShrink
  <1>9. ExcessUnused(b)'
    <2> SUFFICES ASSUME NEW x \in Worker, NEW u \in Task, b \in Excess(task'[x][u])
                 PROVE  /\ b \notin loops'[x]
                        /\ \A v \in Task : b \notin Uses(task'[x][v])
                        /\ \A v \in Task \ {u} : b \notin Excess(task'[x][v])
      BY DEF ExcessUnused
    <2>1. b \in Excess(task[x][u])  BY <1>4 DEF TasksShrink
    <2>2. /\ b \notin loops[x]
          /\ \A v \in Task : b \notin Uses(task[x][v])
          /\ \A v \in Task \ {u} : b \notin Excess(task[x][v])
      BY <1>3, <2>1 DEF BotInv, ExcessUnused
    <2>3. b \notin loops'[x]  BY <1>5, <1>6, <2>2
    <2> QED  BY <1>4, <2>2, <2>3 DEF TasksShrink
  <1> QED  BY <1>7, <1>8, <1>9 DEF BotInv

\* A lease that nobody renews has no loop and no task behind it.
LEMMA ExpireLease ==
    ASSUME TypeOK, LeaseInv, NEW e \in Bot, ExpireUnrenewed(e)
    PROVE  LeaseInv'
  <1> SUFFICES ASSUME NEW b \in Bot \ shaken' PROVE BotInv(b)'
    BY DEF LeaseInv
  <1>1. UNCHANGED <<loops, task, shaken>>  BY DEF ExpireUnrenewed, local
  <1>2. BotInv(b)  BY <1>1 DEF LeaseInv
  <1>3. CASE b = e
    <2>1. lease[b] \in Worker  BY <1>3 DEF TypeOK, ExpireUnrenewed
    <2>2. b \notin loops[lease[b]]  BY <1>3 DEF ExpireUnrenewed
    <2>3. \A t \in Task : b \notin Uses(task[lease[b]][t]) \cup Excess(task[lease[b]][t])
      BY <1>3 DEF ExpireUnrenewed, InFlight, Uses, Renewing, Excess
    <2>4. \A w \in Worker :
            /\ b \notin loops[w]
            /\ \A t \in Task : b \notin Uses(task[w][t]) \cup Excess(task[w][t])
      BY <1>2, <2>1, <2>2, <2>3 DEF BotInv, LoopsLeased, TasksLeased
    <2> QED  BY <1>1, <2>4 DEF BotInv, LoopsLeased, TasksLeased, ExcessUnused
  <1>4. CASE b # e
    <2>1. lease'[b] = lease[b]  BY <1>4 DEF TypeOK, ExpireUnrenewed
    <2> QED  BY <1>1, <1>2, <2>1, QuietBot
  <1> QED  BY <1>3, <1>4

\* A task that goes on outside a renewal, with the same bots won or none, uses
\* no more bots than before.
LEMMA MovedShrinks ==
    ASSUME TypeOK, NEW w \in Worker, NEW t \in Task, NEW s, Goto(w, t, s),
           s.won \subseteq task[w][t].won,
           s.pc \notin {"renewGet", "renewSet", "claimExtra"}
    PROVE  TasksShrink
  <1>1. Uses(s) \subseteq Uses(task[w][t]) /\ Excess(s) = {}
    BY DEF Uses, Renewing, Excess
  <1> QED  BY <1>1, GotoShrinks

\* Steps of a pass, of the boot and of unregistering that give bots to nobody.
LEMMA PassLease ==
    ASSUME TypeOK, LeaseInv, NEW w \in Worker, NEW t \in Task
    PROVE  /\ FenceGet(w, t) \/ FenceDel(w, t) => LeaseInv'
           /\ RenewGet(w, t) \/ RenewSet(w, t) => LeaseInv'
           /\ ClaimRead(w, t) \/ ShedGet(w, t) \/ ShedDel(w, t) => LeaseInv'
           /\ Reap(w, t) \/ Boot(w, t) \/ UnregGet(w, t) \/ UnregDel(w, t) => LeaseInv'
  <1> DEFINE me == task[w][t]
  <1>0. me \in TaskState  BY TaskRecord
  <1>a. ASSUME UNCHANGED <<loops, lease, shaken>>, TasksShrink PROVE LeaseInv'
    BY <1>a, QuietStep DEF LoopsShrink
  <1>1. ASSUME FenceGet(w, t) PROVE LeaseInv'
    <2> DEFINE s == [me EXCEPT !.pc = "fenceDel", !.cand = me.bots, !.bots = OwnedBy(w, @)]
    <2>1. Goto(w, t, s)  BY <1>1 DEF FenceGet
    <2>2. s.won = me.won /\ s.pc = "fenceDel"  BY <1>0 DEF TaskState
    <2> QED  BY <1>1, <1>a, <2>1, <2>2, MovedShrinks DEF FenceGet, redis, local
  <1>2. ASSUME FenceDel(w, t) PROVE LeaseInv'
    <2>1. TasksShrink
      <3> DEFINE s == [Idle(w) EXCEPT !.pc = "unregGet"]
      <3>1. Goto(w, t, s) /\ s.won = {} /\ s.pc = "unregGet"
        BY <1>2 DEF FenceDel, Idle
      <3> QED  BY <3>1, MovedShrinks
    <2>2. LoopsShrink  BY <1>2, DropShrinks DEF FenceDel
    <2> QED  BY <1>2, <2>1, <2>2, ReleaseShakes, QuietStep DEF FenceDel
  <1>3. ASSUME RenewGet(w, t) PROVE LeaseInv'
    <2> DEFINE s == [me EXCEPT !.pc = "renewSet", !.cand = me.bots, !.bots = OwnedBy(w, @)]
    <2>1. Goto(w, t, s) /\ me.pc = "renewGet"  BY <1>3 DEF RenewGet, At
    <2>2. s.won = me.won /\ s.pc = "renewSet" /\ s.bots = OwnedBy(w, me.bots)
      BY <1>0 DEF TaskState
    <2>3. Uses(s) \subseteq Uses(me) /\ Excess(s) = {}
      BY <2>1, <2>2 DEF Uses, Renewing, Excess, OwnedBy
    <2>4. TasksShrink  BY <2>1, <2>3, GotoShrinks
    <2> QED  BY <1>3, <1>a, <2>4 DEF RenewGet, redis, local
  <1>4. ASSUME RenewSet(w, t) PROVE LeaseInv'
    <2>1. TasksShrink
      <3> DEFINE s == [Idle(w) EXCEPT !.pc = IF FreeSlots(w)' > 0 THEN "claimRead"
                                             ELSE "shedGet",
                                      !.slots = FreeSlots(w)']
      <3>1. Goto(w, t, s)  BY <1>4 DEF RenewSet
      <3>2. s.won = {} /\ s.pc \notin {"renewGet", "renewSet", "claimExtra"}
        BY DEF Idle
      <3> QED  BY <3>1, <3>2, MovedShrinks
    <2>2. LoopsShrink  BY <1>4, DropShrinks DEF RenewSet
    <2>3. shaken' = shaken  BY <1>4 DEF RenewSet
    <2>4. ASSUME NEW b \in Bot \ shaken' PROVE lease'[b] = lease[b]
      <3>1. BotInv(b)  BY <2>3 DEF LeaseInv
      <3>2. b \in me.bots => b \in Uses(me)
        BY <1>4 DEF RenewSet, At, Uses, Renewing
      <3>3. b \in me.bots => lease[b] = w  BY <3>1, <3>2 DEF BotInv, TasksLeased
      <3> QED  BY <1>4, <3>3 DEF RenewSet
    <2> QED  BY <2>1, <2>2, <2>3, <2>4, QuietStep
  <1>5. ASSUME ClaimRead(w, t) PROVE LeaseInv'
    <2> DEFINE s == [me EXCEPT !.pc = IF pollable = {} THEN "start" ELSE "claimSet",
                               !.cand = pollable, !.bots = {}]
    <2>1. Goto(w, t, s)  BY <1>5 DEF ClaimRead
    <2>2. s.won = me.won /\ s.pc \in {"start", "claimSet"}  BY <1>0 DEF TaskState
    <2> QED  BY <1>5, <1>a, <2>1, <2>2, MovedShrinks DEF ClaimRead, redis, local
  <1>6. ASSUME ShedGet(w, t) PROVE LeaseInv'
    <2>1. PICK S \in SUBSET loops[w] :
            \/ Finish(w, t)
            \/ Goto(w, t, [Idle(w) EXCEPT !.pc = "shedDel", !.bots = OwnedBy(w, S)])
      BY <1>6 DEF ShedGet
    <2>2. TasksShrink
      <3> DEFINE s == [Idle(w) EXCEPT !.pc = "shedDel", !.bots = OwnedBy(w, S)]
      <3>1. s.won = {} /\ s.pc = "shedDel"  BY DEF Idle
      <3> QED  BY <2>1, <3>1, FinishShrinks, MovedShrinks
    <2> QED  BY <1>6, <1>a, <2>2 DEF ShedGet, redis, local
  <1>7. ASSUME ShedDel(w, t) PROVE LeaseInv'
    <2>1. LoopsShrink  BY <1>7, DropShrinks DEF ShedDel
    <2>2. TasksShrink  BY <1>7, FinishShrinks DEF ShedDel
    <2> QED  BY <1>7, <2>1, <2>2, ReleaseShakes, QuietStep DEF ShedDel
  <1>8. ASSUME Reap(w, t) PROVE LeaseInv'
    <2>1. TasksShrink
      <3> DEFINE s == [Idle(w) EXCEPT !.pc = "boot", !.bots = Bot \ paused]
      <3>1. Goto(w, t, s)  BY <1>8 DEF Reap
      <3>2. s.won = {} /\ s.pc = "boot"  BY DEF Idle
      <3> QED  BY <3>1, <3>2, MovedShrinks
    <2> QED  BY <1>8, <2>1, ReleaseShakes, QuietStep DEF Reap, LoopsShrink, local
  <1>9. ASSUME Boot(w, t) PROVE LeaseInv'
    BY <1>9, <1>a, FinishShrinks DEF Boot, local
  <1>10. ASSUME UnregGet(w, t) PROVE LeaseInv'
    <2> DEFINE s == [me EXCEPT !.pc = "unregDel", !.bots = OwnedBy(me.whom, index[me.whom])]
    <2>1. Goto(w, t, s)  BY <1>10 DEF UnregGet
    <2>2. s.won = me.won /\ s.pc = "unregDel"  BY <1>0 DEF TaskState
    <2> QED  BY <1>10, <1>a, <2>1, <2>2, MovedShrinks DEF UnregGet, redis, local
  <1>11. ASSUME UnregDel(w, t) PROVE LeaseInv'
    <2>1. TasksShrink  BY <1>11, FinishShrinks DEF UnregDel
    <2> QED  BY <1>11, <2>1, ReleaseShakes, QuietStep DEF UnregDel, LoopsShrink, local
  <1> QED  BY <1>1, <1>2, <1>3, <1>4, <1>5, <1>6, <1>7, <1>8, <1>9, <1>10, <1>11

\* A claim by SET NX.
LEMMA ClaimSetLease ==
    ASSUME TypeOK, LeaseInv, NEW w \in Worker, NEW t \in Task
    PROVE  ClaimSet(w, t) \/ ResumeClaim(w, t) => LeaseInv'
  <1> DEFINE me == task[w][t]
  <1>0. me \in TaskState  BY TaskRecord
  <1>1. ASSUME ClaimSet(w, t) PROVE LeaseInv'
    <2>1. PICK batch \in SUBSET me.cand : \E keep \in SUBSET SetNx(batch) :
            /\ lease' = [b \in Bot |-> IF b \in SetNx(batch) THEN w ELSE lease[b]]
            /\ \E pc \in {"claimExtra", "claimSet", "start"} :
                 Goto(w, t, [me EXCEPT !.cand = @ \ batch, !.won = @ \cup keep,
                                       !.bots = SetNx(batch) \ keep, !.pc = pc])
      BY <1>1 DEF ClaimSet
    <2>2. PICK keep \in SUBSET SetNx(batch), pc \in {"claimExtra", "claimSet", "start"} :
            /\ lease' = [b \in Bot |-> IF b \in SetNx(batch) THEN w ELSE lease[b]]
            /\ Goto(w, t, [me EXCEPT !.cand = @ \ batch, !.won = @ \cup keep,
                                     !.bots = SetNx(batch) \ keep, !.pc = pc])
      BY <2>1
    <2> DEFINE s == [me EXCEPT !.cand = @ \ batch, !.won = @ \cup keep,
                               !.bots = SetNx(batch) \ keep, !.pc = pc]
    <2>3. s.won = me.won \cup keep /\ s.bots = SetNx(batch) \ keep /\ s.pc = pc
      BY <1>0 DEF TaskState
    <2>4. Goto(w, t, s)  BY <2>2
    <2> HIDE DEF s
    <2>5. Uses(s) \subseteq Uses(me) \cup keep /\ Excess(s) \subseteq SetNx(batch) \ keep
      BY <2>3 DEF Uses, Renewing, Excess
    <2>6. SetNx(batch) \subseteq {b \in Bot : lease[b] = NoWorker}
      BY <1>0 DEF SetNx, OwnedBy, TaskState
    <2>7. UNCHANGED <<loops, shaken>>  BY <1>1 DEF ClaimSet, local
    <2> QED  BY <2>2, <2>4, <2>5, <2>6, <2>7, ClaimLease
  <1>2. ASSUME ResumeClaim(w, t) PROVE LeaseInv'
    <2> DEFINE got == SetNx(me.bots)
    <2> DEFINE s == [Idle(w) EXCEPT !.pc = "start", !.kind = "restart", !.won = got]
    <2>1. Goto(w, t, s)  BY <1>2 DEF ResumeClaim
    <2>2. s.won = got /\ s.pc = "start"  BY DEF Idle
    <2> HIDE DEF s
    <2>3. Uses(s) \subseteq Uses(me) \cup got /\ Excess(s) \subseteq got \ got
      BY <2>2 DEF Uses, Renewing, Excess
    <2>4. got \subseteq {b \in Bot : lease[b] = NoWorker}
      BY <1>0 DEF SetNx, OwnedBy, TaskState
    <2>5. lease' = [b \in Bot |-> IF b \in got THEN w ELSE lease[b]]
      BY <1>2 DEF ResumeClaim
    <2>6. UNCHANGED <<loops, shaken>>  BY <1>2 DEF ResumeClaim, local
    <2> HIDE DEF got
    <2> QED  BY <2>1, <2>3, <2>4, <2>5, <2>6, ClaimLease
  <1> QED  BY <1>1, <1>2

\* Admin operations and the life cycle give bots to nobody.
LEMMA AdminLease ==
    ASSUME TypeOK, LeaseInv, NEW w \in Worker, NEW t \in Task
    PROVE  /\ AdminStep(w, t) \/ Start(w, t) => LeaseInv'
           /\ PauseSrem(w, t) \/ PauseGet(w, t) \/ PauseDel(w, t) => LeaseInv'
           /\ ResumeForce(w, t) => LeaseInv'
  <1> DEFINE me == task[w][t]
  <1>0. me \in TaskState  BY TaskRecord
  <1>a. ASSUME UNCHANGED <<lease, shaken>>, LoopsShrink, TasksShrink PROVE LeaseInv'
    BY <1>a, QuietStep
  <1>b. ASSUME UNCHANGED loops PROVE LoopsShrink
    BY <1>b DEF LoopsShrink
  <1>1. ASSUME NEW b \in Bot, StopBot(w, t, b) PROVE LeaseInv'
    <2> DEFINE s == [Idle(w) EXCEPT !.pc = "pauseSrem", !.bots = {b},
                                    !.cand = OwnedBy(w, {b})]
    <2>1. Goto(w, t, s)  BY <1>1 DEF StopBot
    <2>2. s.won = {} /\ s.pc = "pauseSrem"  BY DEF Idle
    <2>3. LoopsShrink  BY <1>1, DropShrinks DEF StopBot
    <2> QED  BY <1>1, <1>a, <2>1, <2>2, <2>3, MovedShrinks DEF StopBot
  <1>2. ASSUME NEW b \in Bot, RestartBot(w, t, b) \/ EnsureLoop(w, t, b) PROVE LeaseInv'
    <2> DEFINE s == [Idle(w) EXCEPT !.pc = "resumeForce", !.bots = {b},
                                    !.whom = OwnerRead(w, b)]
    <2>1. Goto(w, t, s)  BY <1>2 DEF RestartBot, EnsureLoop, Resume
    <2>2. s.won = {} /\ s.pc = "resumeForce"  BY DEF Idle
    <2>3. LoopsShrink  BY <1>2, <1>b, DropShrinks DEF RestartBot, EnsureLoop
    <2> QED  BY <1>2, <1>a, <2>1, <2>2, <2>3, MovedShrinks DEF RestartBot, EnsureLoop, Resume
  <1>3. ASSUME NEW x \in Worker, ForceOffline(w, t, x) PROVE LeaseInv'
    <2> DEFINE s == [Idle(w) EXCEPT !.pc = "unregGet", !.whom = x]
    <2>1. Goto(w, t, s)  BY <1>3 DEF ForceOffline
    <2>2. s.won = {} /\ s.pc = "unregGet"  BY DEF Idle
    <2> QED  BY <1>3, <1>a, <1>b, <2>1, <2>2, MovedShrinks DEF ForceOffline, local
  <1>4. ASSUME Stop(w, t) PROVE LeaseInv'
    <2> DEFINE s == [Idle(w) EXCEPT !.pc = "unregGet"]
    <2>1. Goto(w, t, s)  BY <1>4 DEF Stop
    <2>2. s.won = {} /\ s.pc = "unregGet"  BY DEF Idle
    <2>3. LoopsShrink  BY <1>4, DropShrinks DEF Stop
    <2> QED  BY <1>4, <1>a, <2>1, <2>2, <2>3, MovedShrinks DEF Stop, redis
  <1>5. ASSUME Start(w, t) PROVE LeaseInv'
    <2>1. PICK pc \in {"unregGet", "boot", "reap"}, B \in SUBSET Bot, x \in Worker :
            \/ Goto(w, t, [Idle(w) EXCEPT !.pc = pc])
            \/ Goto(w, t, [Idle(w) EXCEPT !.pc = pc, !.bots = B])
            \/ Goto(w, t, [Idle(w) EXCEPT !.pc = pc, !.whom = x, !.bots = B])
      <3>1. Bot \ paused \in SUBSET Bot  OBVIOUS
      <3>2. \A d \in Worker : OwnedBy(d, index[d]) \in SUBSET Bot  BY DEF TypeOK, OwnedBy
      <3> QED  BY <1>5, <3>1, <3>2 DEF Start
    <2> DEFINE s1 == [Idle(w) EXCEPT !.pc = pc]
    <2> DEFINE s2 == [Idle(w) EXCEPT !.pc = pc, !.bots = B]
    <2> DEFINE s3 == [Idle(w) EXCEPT !.pc = pc, !.whom = x, !.bots = B]
    <2>2. /\ s1.won = {} /\ s2.won = {} /\ s3.won = {}
          /\ s1.pc = pc /\ s2.pc = pc /\ s3.pc = pc
      BY DEF Idle
    <2>3. Goto(w, t, s1) \/ Goto(w, t, s2) \/ Goto(w, t, s3)  BY <2>1
    <2> HIDE DEF s1, s2, s3
    <2>4. TasksShrink  BY <2>2, <2>3, MovedShrinks
    <2> QED  BY <1>5, <1>a, <1>b, <2>4 DEF Start, redis
  <1>6. ASSUME PauseSrem(w, t) PROVE LeaseInv'
    <2> DEFINE s == [me EXCEPT !.pc = "pauseGet", !.cand = {}]
    <2>1. Goto(w, t, s)  BY <1>6 DEF PauseSrem
    <2>2. s.won = me.won /\ s.pc = "pauseGet"  BY <1>0 DEF TaskState
    <2>3. TasksShrink  BY <2>1, <2>2, MovedShrinks
    <2>4. shaken \subseteq shaken' /\ \A b \in Bot \ shaken' : lease'[b] = lease[b]
      BY <1>6 DEF PauseSrem
    <2> QED  BY <1>6, <1>b, <2>3, <2>4, QuietStep DEF PauseSrem, local
  <1>7. ASSUME PauseGet(w, t) PROVE LeaseInv'
    <2>1. PICK x : Goto(w, t, [me EXCEPT !.pc = "pauseDel", !.whom = x])
      BY <1>7 DEF PauseGet
    <2> DEFINE s == [me EXCEPT !.pc = "pauseDel", !.whom = x]
    <2>2. s.won = me.won /\ s.pc = "pauseDel"  BY <1>0 DEF TaskState
    <2> QED  BY <1>7, <1>a, <1>b, <2>1, <2>2, MovedShrinks DEF PauseGet, redis, local
  <1>8. ASSUME PauseDel(w, t) PROVE LeaseInv'
    <2>1. TasksShrink  BY <1>8, FinishShrinks DEF PauseDel
    <2> QED  BY <1>8, <1>b, <2>1, ReleaseShakes, QuietStep DEF PauseDel, local
  <1>9. ASSUME ResumeForce(w, t) PROVE LeaseInv'
    <2> DEFINE s == [Idle(w) EXCEPT !.pc = "resumeClaim", !.bots = me.bots]
    <2>1. Finish(w, t) \/ Goto(w, t, s)  BY <1>9 DEF ResumeForce
    <2>2. s.won = {} /\ s.pc = "resumeClaim"  BY DEF Idle
    <2>3. TasksShrink  BY <2>1, <2>2, FinishShrinks, MovedShrinks
    <2> QED  BY <1>9, <1>b, <2>3, ReleaseShakes, QuietStep DEF ResumeForce, local
  <1> QED  BY <1>1, <1>2, <1>3, <1>4, <1>5, <1>6, <1>7, <1>8, <1>9 DEF AdminStep

\* A poll loop gives a lease back or leaves it alone, and adds no loop.
LEMMA LoopLease ==
    ASSUME TypeOK, LeaseInv, NEW w \in Worker, NEW b \in Bot, NEW g \in LoopId
    PROVE  LoopStep(w, b, g) \/ LoopFault(w, b, g) => LeaseInv'
  <1>0. UNCHANGED task => TasksShrink  BY DEF TasksShrink
  <1>1. ASSUME NEW pc, MoveLoop(w, b, g, pc) PROVE LeaseInv'
    BY <1>0, <1>1, QuietStep DEF MoveLoop, LoopsShrink, redis
  <1>2. LoopBoot(w, b, g) \/ LoopBootFails(w, b, g) \/ SessionExpired(w, b, g) => LeaseInv'
    BY <1>1 DEF LoopBoot, LoopBootFails, SessionExpired
  <1>3. ASSUME LoopStops(w, b, g) PROVE LeaseInv'
    <2>1. LoopsShrink  BY <1>3, EndShrinks DEF LoopStops
    <2> QED  BY <1>0, <1>3, <2>1, QuietStep DEF LoopStops, redis
  <1>4. ASSUME FreeGet(w, b, g) PROVE LeaseInv'
    <2>1. CASE lease[b] = w  BY <1>1, <1>4, <2>1 DEF FreeGet
    <2>2. CASE lease[b] # w
      <3>1. LoopsShrink  BY <1>4, <2>2, EndShrinks DEF FreeGet
      <3> QED  BY <1>0, <1>4, <2>2, <3>1, QuietStep DEF FreeGet
    <2> QED  BY <2>1, <2>2
  <1>5. ASSUME FreeDel(w, b, g) PROVE LeaseInv'
    <2>1. LoopsShrink  BY <1>5, EndShrinks DEF FreeDel
    <2> QED  BY <1>0, <1>5, <2>1, ReleaseShakes, QuietStep DEF FreeDel
  <1> QED  BY <1>2, <1>3, <1>4, <1>5 DEF LoopStep, LoopFault

\* Every step keeps the leases of unshaken bots with their users.
LEMMA LeaseStep == TypeOK /\ LeaseInv /\ [Next]_vars => LeaseInv'
  <1> SUFFICES ASSUME TypeOK, LeaseInv, [Next]_vars PROVE LeaseInv'
    OBVIOUS
  <1>0. UNCHANGED task => TasksShrink  BY DEF TasksShrink
  <1>a. UNCHANGED loops => LoopsShrink  BY DEF LoopsShrink
  <1>1. ASSUME NEW w \in Worker, NEW t \in Task,
               Start(w, t) \/ TaskStep(w, t) \/ AdminStep(w, t)
        PROVE  LeaseInv'
    BY <1>1, CheckFenceLease, PassLease, ClaimSetLease, ClaimExtraLease, StartClaimedLease,
       AdminLease DEF TaskStep
  <1>2. ASSUME NEW w \in Worker, NEW b \in Bot, NEW g \in LoopId,
               LoopStep(w, b, g) \/ LoopFault(w, b, g)
        PROVE  LeaseInv'
    BY <1>2, LoopLease
  <1>3. ASSUME NEW w \in Worker, Die(w) PROVE LeaseInv'
    <2>1. LoopsShrink  BY <1>3, DropShrinks DEF Die
    <2>2. TasksShrink
      <3>1. \A x \in Worker, u \in Task :
              task'[x][u] = IF x = w THEN Idle(w) ELSE task[x][u]
        BY <1>3 DEF TypeOK, Die
      <3>2. Uses(Idle(w)) = {} /\ Excess(Idle(w)) = {}
        BY DEF Idle, Uses, Renewing, Excess
      <3>3. ASSUME NEW x \in Worker, NEW u \in Task
            PROVE  /\ Uses(task'[x][u]) \subseteq Uses(task[x][u])
                   /\ Excess(task'[x][u]) \subseteq Excess(task[x][u])
        <4>1. CASE x = w
          <5>1. task'[x][u] = Idle(w)  BY <3>1, <4>1
          <5> QED  BY <3>2, <5>1
        <4>2. CASE x # w
          <5>1. task'[x][u] = task[x][u]  BY <3>1, <4>2
          <5> QED  BY <5>1
        <4> QED  BY <4>1, <4>2
      <3> QED  BY <3>3 DEF TasksShrink
    <2> QED  BY <1>3, <2>1, <2>2, QuietStep DEF Die, redis
  <1>4. ASSUME NEW w \in Worker, FenceGone(w) PROVE LeaseInv'
    BY <1>0, <1>4, <1>a, QuietStep DEF FenceGone, local
  <1>5. ASSUME NEW b \in Bot, ExpireUnrenewed(b) PROVE LeaseInv'
    BY <1>5, ExpireLease
  <1>6. ASSUME NEW b \in Bot, ExpireStalled(b) PROVE LeaseInv'
    <2>1. shaken \subseteq shaken' /\ \A c \in Bot \ shaken' : lease'[c] = lease[c]
      BY <1>6 DEF TypeOK, ExpireStalled
    <2> QED  BY <1>0, <1>6, <1>a, <2>1, QuietStep DEF ExpireStalled, local
  <1>7. CASE UNCHANGED vars
    BY <1>0, <1>7, <1>a, QuietStep DEF vars, redis, local
  <1> QED  BY <1>1, <1>2, <1>3, <1>4, <1>5, <1>6, <1>7 DEF Next, Exit, Crash

\* As long as no lease of a bot was given up, forced or lost, at most one worker
\* polls the bot and holds its lease: for any number of workers and of
\* overlapping passes ("without double-poll", class comment of worker.ts).
THEOREM UnshakenSinglePollerCorrect == Spec => []UnshakenSinglePoller
  <1>1. Init => LeaseInv
    BY DEF Init, LeaseInv, BotInv, LoopsLeased, TasksLeased, ExcessUnused, Uses, Renewing,
           Excess, Idle
  <1>2. LeaseInv => UnshakenSinglePoller
    BY DEF LeaseInv, BotInv, LoopsLeased, UnshakenSinglePoller
  <1> QED  BY <1>1, <1>2, TypeCorrect, LeaseStep, PTL DEF Spec
=============================================================================
