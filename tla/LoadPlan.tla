------------------------------ MODULE LoadPlan ------------------------------
(***************************************************************************)
(* How many bots each node of the fleet holds: the planner of              *)
(* packages/db/src/worker-fleet.ts and the reconcile pass of               *)
(* apps/api/src/worker.ts that claims up to the plan and sheds what is     *)
(* above it.  BotFleet says which bot is whose; here bots are counted.     *)
(*                                                                         *)
(* A node plans from its own copy of the weights, from the heartbeats in   *)
(* Redis and from the number of pollable bots, each read at another time,  *)
(* and acts on the plan later.  As long as no weight differs from the      *)
(* default there is no plan: a node claims what it has room for, and sheds *)
(* what is above an even share of the counts in the heartbeats.            *)
(*                                                                         *)
(* Nothing keeps the passes of a node apart: the timer, the wake channel   *)
(* and a resumed bot start theirs whether another is under way or not, and *)
(* each claims with the slots it computed before its round trips.  Here a  *)
(* node has two lanes: its pass of the timer, and what may overlap it.     *)
(***************************************************************************)
EXTENDS Integers, FiniteSets, Functions, TLC

CONSTANTS
    Node,         \* worker ids, numbered in the order of their strings
    MaxBots,      \* maxBotsPerWorker of each node
    Default,      \* DEFAULT_WORKER_WEIGHT
    Weights,      \* the weight tables an admin may set up
    BotCounts,         \* numbers of pollable bots
    Slack,        \* rebalanceSlack
    MaxPerTick,   \* rebalanceMaxPerTick
    MaxUpsets,    \* bound: admin changes, crashes, plans that fail, overlapping passes
    MaxMissed,    \* bound: refreshes of the weights that are missed
    Overlapping   \* bound: nodes with passes that overlap, and resumed bots

LoadPlanConstants ==
    /\ Node \subseteq Nat /\ IsFiniteSet(Node) /\ Node # {}
    /\ MaxBots \in [Node -> Nat \ {0}]
    /\ Default \in Nat \ {0}
    /\ Weights \subseteq [Node -> Nat]
    /\ BotCounts \subseteq Nat
    /\ Slack \in Nat /\ MaxPerTick \in Nat \ {0} /\ MaxUpsets \in Nat
    /\ MaxMissed \in Nat /\ Overlapping \subseteq Node

VARIABLES
    weights,  \* wa:workers:weights, a missing entry being the default
    bots,     \* size of wa:bots:pollable
    beat,     \* heartbeats: bot count and weight as each node last wrote them
    online,   \* nodes whose heartbeat is fresh
    adrift,   \* leases of dead processes that have not expired
    up,       \* running processes
    held,     \* bots each process holds (loops.size)
    snap,     \* weightSnapshot of each process
    pass,     \* its reconcile passes: step, plan and slots
    plan,     \* lastPlan of each process
    crowded,  \* history: processes two passes of which computed their slots at once
    early,    \* processes that put off shedding in their last pass
    upsets,   \* disturbances left (bound)
    missed    \* refreshes that may still be missed (bound)

fleet == <<weights, bots, beat, online, adrift>>
loadVars == <<fleet, up, held, snap, pass, plan, crowded, early, upsets, missed>>

Smaller(a, b) == IF a < b THEN a ELSE b
NonNeg(a) == IF a < 0 THEN 0 ELSE a
Total(f, S) == FoldFunctionOnSet(+, 0, f, S)

-----------------------------------------------------------------------------
(* computeWeightedTargets *)

\* One round: `rest` bots are split over the pool by weight, rounded down, and
\* what is left goes to the largest remainders.  (Where the code's floating
\* point sees equal remainders as different, another node of the tie gets it.)
SplitRound(pool, w, rest) ==
    LET all == Total(w, pool)
        num(n) == IF all > 0 THEN rest * w[n] ELSE rest
        den == IF all > 0 THEN all ELSE Cardinality(pool)
        low == [n \in pool |-> num(n) \div den]
        before(m, n) == \/ num(m) % den > num(n) % den
                        \/ num(m) % den = num(n) % den /\ m < n
        left == rest - Total(low, pool)
    IN  [n \in pool |->
            IF Cardinality({m \in pool : before(m, n)}) < left THEN low[n] + 1 ELSE low[n]]

\* Faulty: what the full nodes cannot take is not given to the others.
TargetsOneRound(nodes, w, room, total) ==
    LET share == SplitRound(nodes, w, total)
    IN  [n \in nodes |-> Smaller(share[n], room[n])]

\* Nodes whose share exceeds their room get what they have room for, and the
\* rest is split again over the others.
Targets(nodes, w, room, total) ==
    LET T[pool \in SUBSET nodes] == [rest \in 0..total |->
            LET share == SplitRound(pool, w, rest)
                full == {n \in pool : share[n] > room[n]}
                others == T[pool \ full][rest - Total(room, full)]
            IN  IF full = {} THEN share
                ELSE [n \in pool |-> IF n \in full THEN room[n] ELSE others[n]]]
    IN  IF total = 0 THEN [n \in nodes |-> 0] ELSE T[nodes][total]

\* Every plan there can be; the comparison makes TLC compute the table once.
WeightValue == {Default} \cup {table[n] : table \in Weights, n \in Node}

TargetsOf ==
    CHOOSE table \in {[nodes \in SUBSET Node |-> [w \in [Node -> WeightValue] |->
                         [total \in BotCounts |-> Targets(nodes, w, MaxBots, total)]]]} :
        table = table

-----------------------------------------------------------------------------
(* planNodeLoad *)

NoPlan == [targets |-> <<>>, weight |-> <<>>, slack |-> 0, unplaceable |-> 0]

Drained(n, w, nodes) == w[n] = 0 /\ \E m \in nodes : w[m] > 0

PlanNodeLoad(n, nodes, w, total) ==
    LET targets == TargetsOf[nodes][w][total]
    IN  [targets |-> targets,
         weight |-> w,
         slack |-> IF Drained(n, w, nodes) THEN 0 ELSE Slack,
         unplaceable |-> total - Total(targets, nodes)]

ClaimCap(n, p) == p.targets[n] + p.slack

\* shedAboveTarget
ShedAboveTarget(count, target, slack) ==
    Smaller(NonNeg(count - (target + slack)), MaxPerTick)

\* computeWeightedShedCount, over the counts in the heartbeats.
FairShare(n, peers, w) ==
    LET total == held[n] + Total([m \in peers |-> beat[m].count], peers)
        all == w[n] + Total(w, peers)
    IN  IF all > 0 THEN (total * w[n]) \div all ELSE total \div (Cardinality(peers) + 1)

WeightedShedCount(n, peers, w) ==
    IF peers = {} THEN 0
    ELSE ShedAboveTarget(held[n], FairShare(n, peers, w),
                         IF Drained(n, w, peers \cup {n}) THEN 0 ELSE Slack)

-----------------------------------------------------------------------------
Disturb == upsets > 0 /\ upsets' = upsets - 1 /\ UNCHANGED missed
Calm == UNCHANGED <<upsets, missed>>

Free == bots - Total(held, up) - adrift
FleetWeighted(n) == \E m \in Node : snap[n][m] # Default

\* weightOf, with table s: an override, else what the node says of itself.
WeightOf(n, s, m) == IF m = n \/ s[m] # Default THEN s[m] ELSE beat[m].weight

\* onlinePlanNodes, and the weights it gives them.
PlanNodes(n) == online \cup {n}
PlanWeights(n, s) == [m \in Node |-> WeightOf(n, s, m)]

-----------------------------------------------------------------------------
(* A reconcile pass *)

Lane == {1, 2}
Idle == [at |-> "idle", plan |-> NoPlan, slots |-> 0]
At(n, l, at) == pass[n][l].at = at
Goes(n, l, at) == pass' = [pass EXCEPT ![n][l].at = at]
Ends(n, l) == pass' = [pass EXCEPT ![n][l] = Idle]

\* A pass that computes slots while another of the node has not claimed with its own.
Unspent(n, l) == pass[n][l].at \in {"claim", "take", "fill"}
Crowd(n, l) ==
    crowded' = IF \E k \in Lane \ {l} : Unspent(n, k) THEN crowded \cup {n} ELSE crowded

\* The timer's pass.  refreshWeightSnapshot: HGETALL.
BeginPass(n) ==
    /\ n \in up /\ At(n, 1, "idle")
    /\ snap' = [snap EXCEPT ![n] = weights]
    /\ Goes(n, 1, "plan")
    /\ Calm /\ UNCHANGED <<fleet, up, held, plan, crowded, early>>

\* The copy is young enough, or Redis fails.
KeepSnapshot(n) ==
    /\ n \in up /\ At(n, 1, "idle") /\ snap[n] # weights
    /\ Goes(n, 1, "plan")
    /\ missed > 0 /\ missed' = missed - 1
    /\ UNCHANGED <<fleet, up, held, snap, plan, crowded, early, upsets>>

\* While it is under way, a pass of the wake channel starts, or the timer's next.
Overlap(n) ==
    /\ n \in Overlapping \cap up /\ At(n, 2, "idle") /\ ~At(n, 1, "idle")
    /\ \E s \in {snap[n], weights} : snap' = [snap EXCEPT ![n] = s]
    /\ Goes(n, 2, "plan")
    /\ Disturb /\ UNCHANGED <<fleet, up, held, plan, crowded, early>>

\* Faulty: a plan limits shedding only.
SlotsUnplanned(n, p) == MaxBots[n] - held[n]

Slots(n, p) ==
    Smaller(MaxBots[n], IF p = NoPlan THEN MaxBots[n] ELSE ClaimCap(n, p)) - held[n]

Computes(n, l, p) ==
    /\ At(n, l, "plan")
    /\ plan' = [plan EXCEPT ![n] = p]
    /\ pass' = [pass EXCEPT ![n][l] = [at |-> "claim", plan |-> p, slots |-> NonNeg(Slots(n, p))]]
    /\ Crowd(n, l)
    /\ UNCHANGED <<fleet, up, held, snap, early>>

\* Heartbeats and pollable ids are read, then the slots computed.
Plan(n, l) ==
    /\ Computes(n, l, IF FleetWeighted(n)
                      THEN PlanNodeLoad(n, PlanNodes(n), PlanWeights(n, snap[n]), bots)
                      ELSE NoPlan)
    /\ Calm

\* Redis fails: no plan this time.
PlanFails(n, l) ==
    /\ FleetWeighted(n)
    /\ Computes(n, l, NoPlan)
    /\ Disturb

\* claimBotLeases and startLoop, some round trips later.
Claim(n, l) ==
    /\ pass[n][l].at \in {"claim", "fill"}
    /\ held' = [held EXCEPT ![n] = @ + Smaller(pass[n][l].slots, Free)]
    /\ pass' = [pass EXCEPT ![n][l].at = IF At(n, l, "claim") THEN "shed" ELSE "beat",
                            ![n][l].slots = 0]
    /\ Calm /\ UNCHANGED <<fleet, up, snap, plan, crowded, early>>

\* maybeRebalanceShed with plan p and table s of the weights.
ShedCount(n, p, s) ==
    IF held[n] <= Slack /\ s[n] # 0 THEN 0
    ELSE IF p # NoPlan
         THEN ShedAboveTarget(held[n], p.targets[n], p.slack)
         ELSE WeightedShedCount(n, online \ {n}, PlanWeights(n, s))

\* The rebalance interval is over; the weights may be read again first.
Shed(n, l) ==
    /\ At(n, l, "shed")
    /\ Goes(n, l, "beat")
    /\ early' = early \ {n}
    /\ \E s \in {snap[n], weights} :
          /\ snap' = [snap EXCEPT ![n] = s]
          /\ held' = [held EXCEPT ![n] = @ - ShedCount(n, pass[n][l].plan, s)]
    /\ Calm /\ UNCHANGED <<fleet, up, plan, crowded>>

\* The interval is not over; it is shorter than two passes of the timer (bound).
NotDue(n, l) ==
    /\ At(n, l, "shed") /\ (n \notin early \/ l = 2)
    /\ Goes(n, l, "beat")
    /\ early' = early \cup {n}
    /\ Calm /\ UNCHANGED <<fleet, up, held, snap, plan, crowded>>

Heartbeat(n, l) ==
    /\ At(n, l, "beat")
    /\ Ends(n, l)
    /\ beat' = [beat EXCEPT ![n] = [count |-> held[n], weight |-> snap[n][n]]]
    /\ online' = online \cup {n}
    /\ Calm /\ UNCHANGED <<weights, bots, adrift, up, held, snap, plan, crowded, early>>

-----------------------------------------------------------------------------
(* Admin operations and the life of nodes *)

SetWeight(table) ==
    /\ weights' = table
    /\ table # weights
    /\ Disturb /\ UNCHANGED <<bots, beat, online, adrift, up, held, snap, pass, plan, crowded, early>>

\* A bot is paused wherever it is held.
PauseBot ==
    /\ bots - 1 \in BotCounts /\ bots' = bots - 1
    /\ \/ Free > 0 /\ UNCHANGED held
       \/ \E n \in up : held[n] > 0 /\ held' = [held EXCEPT ![n] = @ - 1]
    /\ Disturb /\ UNCHANGED <<weights, beat, online, adrift, up, snap, pass, plan, crowded, early>>

\* resumeAndMaybeClaim on node n of a bot nobody polls, beside whatever pass is
\* under way: unless the node is drained or full it takes the bot, if nobody was
\* faster, then fills up to the last plan, and sends a heartbeat.
ResumeBot(n) ==
    LET takes == ~(FleetWeighted(n) /\ snap[n][n] = 0) /\ held[n] < MaxBots[n]
    IN  /\ n \in Overlapping \cap up /\ At(n, 2, "idle") /\ bots + 1 \in BotCounts
        /\ bots' = bots + 1
        /\ Goes(n, 2, IF takes THEN "take" ELSE "beat")
        /\ IF takes THEN Crowd(n, 2) ELSE UNCHANGED crowded
        /\ Disturb /\ UNCHANGED <<weights, beat, online, adrift, up, held, snap, plan, early>>

TakeResumed(n) ==
    /\ At(n, 2, "take")
    /\ \E got \in {0, 1} :
          /\ got <= Free
          /\ held' = [held EXCEPT ![n] = @ + got]
          /\ pass' = [pass EXCEPT ![n][2] =
                        [at |-> "fill", plan |-> NoPlan, slots |-> NonNeg(Slots(n, plan[n]) - got)]]
    /\ Crowd(n, 2)
    /\ Calm /\ UNCHANGED <<fleet, up, snap, plan, early>>

\* The leases of a process that is gone stay until they expire, and so does its
\* heartbeat.
Crash(n) ==
    /\ n \in up
    /\ up' = up \ {n}
    /\ adrift' = adrift + held[n]
    /\ held' = [held EXCEPT ![n] = 0]
    /\ pass' = [pass EXCEPT ![n] = [l \in Lane |-> Idle]]
    /\ plan' = [plan EXCEPT ![n] = NoPlan]
    /\ crowded' = crowded \ {n}
    /\ Disturb /\ UNCHANGED <<weights, bots, beat, online, snap, early>>

Expire ==
    /\ adrift > 0 \/ online \ up # {}
    /\ adrift' = 0
    /\ online' = online \cap up
    /\ Calm /\ UNCHANGED <<weights, bots, beat, up, held, snap, pass, plan, crowded, early>>

\* start(): the snapshot is read before the first heartbeat.
Start(n) ==
    /\ n \notin up
    /\ up' = up \cup {n}
    /\ snap' = [snap EXCEPT ![n] = weights]
    /\ beat' = [beat EXCEPT ![n] = [count |-> 0, weight |-> weights[n]]]
    /\ online' = online \cup {n}
    /\ Calm /\ UNCHANGED <<weights, bots, adrift, held, pass, plan, crowded, early>>

-----------------------------------------------------------------------------
LoadInit ==
    /\ weights \in Weights
    /\ bots \in BotCounts
    /\ beat = [n \in Node |-> [count |-> 0, weight |-> Default]]
    /\ online = {} /\ adrift = 0 /\ up = {}
    /\ held = [n \in Node |-> 0]
    /\ snap = [n \in Node |-> [m \in Node |-> Default]]
    /\ pass = [n \in Node |-> [l \in Lane |-> Idle]]
    /\ plan = [n \in Node |-> NoPlan] /\ crowded = {}
    /\ early = {}
    /\ upsets = MaxUpsets /\ missed = MaxMissed

Step(n, l) == \/ l = 1 /\ BeginPass(n)
              \/ l = 2 /\ TakeResumed(n)
              \/ Plan(n, l) \/ Claim(n, l) \/ Shed(n, l) \/ NotDue(n, l) \/ Heartbeat(n, l)

LoadNext ==
    \/ \E n \in Node : \/ \E l \in Lane : Step(n, l) \/ PlanFails(n, l)
                       \/ KeepSnapshot(n) \/ Overlap(n)
                       \/ ResumeBot(n) \/ Crash(n) \/ Start(n)
    \/ \E table \in Weights : SetWeight(table)
    \/ PauseBot \/ Expire

LoadSpec == LoadInit /\ [][LoadNext]_loadVars

\* Timers fire, the awaited calls of their passes return, keys expire, processes are
\* started again.  Of a pass that overlaps nothing is asked.
LoadFairness ==
    /\ \A n \in Node : WF_loadVars(Step(n, 1)) /\ WF_loadVars(Start(n))
    /\ WF_loadVars(Expire)

LoadFairSpec == LoadSpec /\ LoadFairness

-----------------------------------------------------------------------------
(* Correctness *)

IsPlan(p) ==
    /\ DOMAIN p.targets \subseteq Node /\ p.targets \in [DOMAIN p.targets -> Nat]
    /\ p.slack \in {0, Slack} /\ p.unplaceable \in Nat

\* Every variable has its type, no more bots are held than want polling, and a
\* process holds more than it has room for only if two of its passes, or a pass
\* and a resumed bot, computed their slots before either had claimed
\* (worker.ts:1549, 731, 1145, 1215).
LoadTypeOK ==
    /\ weights \in Weights /\ bots \in Nat /\ adrift \in Nat
    /\ beat \in [Node -> [count : Nat, weight : Nat]]
    /\ online \subseteq Node /\ up \subseteq Node /\ early \subseteq Node
    /\ held \in [Node -> Nat] /\ \A n \in Node \ crowded : held[n] <= MaxBots[n]
    /\ snap \in [Node -> [Node -> Nat]]
    /\ \A n \in Node, l \in Lane :
          /\ pass[n][l].at \in {"idle", "plan", "claim", "shed", "beat", "take", "fill"}
          /\ IsPlan(pass[n][l].plan) /\ pass[n][l].slots \in Nat
    /\ \A n \in Node : IsPlan(plan[n])
    /\ Free >= 0
    /\ upsets \in 0..MaxUpsets /\ missed \in 0..MaxMissed

\* The plans that nodes act on.
PlansMade == {plan[n] : n \in Node} \cup {pass[n][l].plan : n \in Node, l \in Lane}

\* A plan leaves a bot without a place only when every node in it is full, and
\* overfills none ("Exact: ... flooring never strands bots").
PlanExact ==
    \A p \in PlansMade : \A m \in DOMAIN p.targets :
        /\ p.targets[m] <= MaxBots[m]
        /\ p.unplaceable > 0 => p.targets[m] = MaxBots[m]

\* A plan is fair by weight up to rounding: what node m gets per unit of weight,
\* one bot less, is below what any node with room left gets, one bot more; a
\* drained node gets nothing as long as another one has room.
PlanFair ==
    \A p \in PlansMade :
        LET t == p.targets
            w == p.weight
        IN  \A m, k \in DOMAIN t :
                t[k] < MaxBots[k] /\ w[m] + w[k] > 0
                    => (t[m] - 1) * w[k] < (t[k] + 1) * w[m]

\* The two together, with what they mean for what a node holds.
PlanSound == LoadTypeOK /\ PlanExact /\ PlanFair

\* Once weights, bots and nodes stay as they are, bots stop moving: claiming and
\* shedding do not fight ("so neither fights the other", worker-fleet.ts:969).
Settles == <>[][held' = held]_loadVars

\* ... and then every bot is polled unless all nodes are full, and no node holds
\* more than the weights give it plus the slack, a drained one nothing more.
Balanced ==
    LET target == TargetsOf[Node][weights][bots]
    IN  /\ Free > 0 => \A n \in Node : held[n] >= MaxBots[n]
        /\ \A n \in Node :
              held[n] <= target[n] + (IF Drained(n, weights, Node) THEN 0 ELSE Slack)
=============================================================================
