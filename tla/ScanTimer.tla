----------------------------- MODULE ScanTimer -----------------------------
(***************************************************************************)
(* The timer of the proactive scheduler (proactive-scheduler.ts: start,    *)
(* stop, scheduleNext, the frame of tick, applyRuntimeOptions): a chain of *)
(* timeouts in which each tick arms the next when it is over, started and  *)
(* stopped by an administrator's switch while a tick may be under way.     *)
(*                                                                         *)
(* A chain is known by the generation it was started in.  Functions are    *)
(* synchronous but for the tick, which is a step from its start to its end.*)
(***************************************************************************)
EXTENDS Naturals

CONSTANTS MaxSwitches  \* bound: times the switch is moved

TimerAssumption == MaxSwitches \in Nat

VARIABLES
    switchOn,   \* opts.globalEnabled
    halted,     \* this.stopped
    gen,        \* this.gen
    timer,      \* this.timer, by the generation of its callback; 0 is null
    atWork,     \* this.running
    ticking,    \* by generation, ticks under way
    switches

timerVars == <<switchOn, halted, gen, timer, atWork, ticking, switches>>

None == 0
Gens == 1 .. 2 * MaxSwitches + 1

(* scheduleNext: stopped or of an old chain, it arms nothing.              *)
Armed(g, stopped, now) == IF ~stopped /\ g = now THEN g ELSE None

\* Faulty form: a stop leaves the generation as it was.
StoppedGenKept == gen
StoppedGen == gen + 1

TimerInit ==
    /\ switchOn \in BOOLEAN
    /\ halted = ~switchOn
    /\ gen = 1 /\ timer = (IF switchOn THEN 1 ELSE None)
    /\ atWork = FALSE
    /\ ticking = [g \in Gens |-> 0]
    /\ switches = 0

(* applyRuntimeOptions: switched on, stop() then start(); switched off,    *)
(* stop(), which clears the timer but not a tick under way.                *)
Switch ==
    /\ switches < MaxSwitches
    /\ switches' = switches + 1
    /\ switchOn' = ~switchOn
    /\ halted' = switchOn
    /\ gen' = StoppedGen
    /\ timer' = IF switchOn THEN None ELSE Armed(gen', FALSE, gen')
    /\ UNCHANGED <<atWork, ticking>>

(* The timer fires.  A tick that finds another at work, or the scheduler   *)
(* stopped, is over at once and arms the next.                             *)
Fire ==
    /\ timer # None
    /\ IF timer # gen
       THEN timer' = None /\ UNCHANGED <<atWork, ticking>>
       ELSE IF halted \/ atWork
            THEN timer' = Armed(timer, halted, gen) /\ UNCHANGED <<atWork, ticking>>
            ELSE /\ timer' = None
                 /\ atWork' = TRUE
                 /\ ticking' = [ticking EXCEPT ![timer] = @ + 1]
    /\ UNCHANGED <<switchOn, halted, gen, switches>>

(* A tick ends, well or not, and arms the next of its chain.               *)
TickEnds(g) ==
    /\ ticking[g] > 0
    /\ ticking' = [ticking EXCEPT ![g] = @ - 1]
    /\ atWork' = FALSE
    /\ timer' = IF Armed(g, halted, gen) = None THEN timer ELSE g
    /\ UNCHANGED <<switchOn, halted, gen, switches>>

TimerNext == Switch \/ Fire \/ \E g \in Gens : TickEnds(g)

TimerSpec == TimerInit /\ [][TimerNext]_timerVars
-----------------------------------------------------------------------------
(* The timer's fields have the types of the class.                         *)
TimerTypeOK ==
    /\ {switchOn, halted, atWork} \subseteq BOOLEAN
    /\ gen \in Gens /\ timer \in Gens \cup {None}
    /\ ticking \in [Gens -> 0 .. 1]

(* While it is switched on the scheduler has exactly one chain alive, its  *)
(* next timer or its tick under way, and none while it is off, wherever    *)
(* the switch was moved: the comment on `gen` says what a second chain     *)
(* would do to the rate of the scans.                                      *)
OneScanChain ==
    (IF timer = gen THEN 1 ELSE 0) + ticking[gen] = IF switchOn THEN 1 ELSE 0
=============================================================================
