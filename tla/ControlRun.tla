----------------------------- MODULE ControlRun -----------------------------
(* What the administrators steer: Broadcast, OtaApply, BotAccounts,         *)
(* RuntimeSettings and LoadPlan.  They share no key, so a behaviour runs    *)
(* one of them, chosen at the start in `part`, and the others stay as they  *)
(* are at the start.                                                        *)
EXTENDS BotAccounts, RuntimeSettings, LoadPlan

CONSTANTS
    Worker, NoOne, Totals, FlushEvery, MaxMishaps,
    Versions, Files, Shipped, Heavy, AllowInstall, MaxJobs, MaxCrashes, Nothing

VARIABLES
    part,
    row, active, jobLock, runner, stopped, admin, sends, lockLost, breaks, mishaps,
    released, current, jobKey, status, queueing, tree, stamp, deps, proc, asked,
    fallen, cut, thrown

Cast == INSTANCE Broadcast
    WITH lock <- jobLock, faults <- mishaps, MaxFaults <- MaxMishaps
Ota == INSTANCE OtaApply

ASSUME ControlAssumption ==
    /\ Cast!BroadcastConstants /\ Ota!OtaAssumption
    /\ BotAccountsAssumption /\ SettingsAssumption /\ LoadPlanConstants

broadcastVars ==
    <<row, active, jobLock, runner, stopped, admin, sends, lockLost, breaks, mishaps>>
otaVars ==
    <<released, current, jobKey, status, queueing, tree, stamp, deps, proc, asked,
      fallen, cut, thrown>>
controlVars == <<part, broadcastVars, otaVars, botVars, settingsVars, loadVars>>
-----------------------------------------------------------------------------
ControlInit ==
    /\ part \in {"broadcast", "ota", "bots", "settings", "load"}
    /\ Cast!Init /\ Ota!Init /\ BotInit /\ SettingsInit /\ LoadInit
    /\ part = "bots" \/ listed = {}
    /\ \/ part = "load"
       \/ weights = (CHOOSE t \in Weights : TRUE) /\ bots = (CHOOSE b \in BotCounts : TRUE)

\* Only the component that runs takes steps.
InBroadcast == part = "broadcast"
InOta == part = "ota"
InBots == part = "bots"
InSettings == part = "settings"
InLoad == part = "load"
RestBroadcast == UNCHANGED <<part, otaVars, botVars, settingsVars, loadVars>>
RestOta == UNCHANGED <<part, broadcastVars, botVars, settingsVars, loadVars>>
RestBots == UNCHANGED <<part, broadcastVars, otaVars, settingsVars, loadVars>>
RestSettings == UNCHANGED <<part, broadcastVars, otaVars, botVars, loadVars>>
RestLoad == UNCHANGED <<part, broadcastVars, otaVars, botVars, settingsVars>>

BroadcastNext ==
    \/ \E w \in Worker :
         \/ InBroadcast /\ Cast!Tick(w) /\ RestBroadcast
         \/ InBroadcast /\ Cast!Lock(w) /\ RestBroadcast
         \/ InBroadcast /\ Cast!Load(w) /\ RestBroadcast
         \/ InBroadcast /\ Cast!MarkRunning(w) /\ RestBroadcast
         \/ InBroadcast /\ Cast!SetActive(w) /\ RestBroadcast
         \/ InBroadcast /\ Cast!NextRecipient(w) /\ RestBroadcast
         \/ InBroadcast /\ Cast!CheckCancelled(w) /\ RestBroadcast
         \/ InBroadcast /\ Cast!SaveCancelled(w) /\ RestBroadcast
         \/ InBroadcast /\ Cast!Send(w) /\ RestBroadcast
         \/ InBroadcast /\ Cast!RenewGet(w) /\ RestBroadcast
         \/ InBroadcast /\ Cast!RenewSet(w) /\ RestBroadcast
         \/ InBroadcast /\ Cast!Flush(w) /\ RestBroadcast
         \/ InBroadcast /\ Cast!ReadFinal(w) /\ RestBroadcast
         \/ InBroadcast /\ Cast!SaveFinal(w) /\ RestBroadcast
         \/ InBroadcast /\ Cast!ClearActive(w) /\ RestBroadcast
         \/ InBroadcast /\ Cast!SaveFailed(w) /\ RestBroadcast
         \/ InBroadcast /\ Cast!ClearFailed(w) /\ RestBroadcast
         \/ InBroadcast /\ Cast!UnlockGet(w) /\ RestBroadcast
         \/ InBroadcast /\ Cast!UnlockDel(w) /\ RestBroadcast
         \/ InBroadcast /\ Cast!Throws(w) /\ RestBroadcast
         \/ InBroadcast /\ Cast!Stop(w) /\ RestBroadcast
         \/ InBroadcast /\ Cast!Die(w) /\ RestBroadcast
         \/ InBroadcast /\ Cast!Restart(w) /\ RestBroadcast
    \/ \E j \in Cast!Job :
         \/ InBroadcast /\ Cast!Expire(j) /\ RestBroadcast
         \/ InBroadcast /\ Cast!Create(j) /\ RestBroadcast
         \/ InBroadcast /\ Cast!CancelGet(j) /\ RestBroadcast
    \/ InBroadcast /\ Cast!CancelSet /\ RestBroadcast
    \/ InBroadcast /\ Cast!CancelActiveGet /\ RestBroadcast
    \/ InBroadcast /\ Cast!CancelActiveDel /\ RestBroadcast

OtaNext ==
    \/ InOta /\ Ota!Boot /\ RestOta
    \/ InOta /\ Ota!MarkDone /\ RestOta
    \/ InOta /\ Ota!ClearMarked /\ RestOta
    \/ InOta /\ Ota!Take /\ RestOta
    \/ InOta /\ Ota!SkipDone /\ RestOta
    \/ InOta /\ Ota!Fetch /\ RestOta
    \/ InOta /\ Ota!Stage /\ RestOta
    \/ InOta /\ Ota!Stamp /\ RestOta
    \/ InOta /\ Ota!Install /\ RestOta
    \/ InOta /\ Ota!Installed /\ RestOta
    \/ InOta /\ Ota!Restarting /\ RestOta
    \/ InOta /\ Ota!ClearJob /\ RestOta
    \/ InOta /\ Ota!Exit /\ RestOta
    \/ InOta /\ Ota!Fail /\ RestOta
    \/ InOta /\ Ota!Throw /\ RestOta
    \/ InOta /\ Ota!Refused /\ RestOta
    \/ InOta /\ Ota!Crash /\ RestOta
    \/ \E f \in Files : InOta /\ Ota!Copy(f) /\ RestOta
    \/ \E v \in Versions :
         \/ InOta /\ Ota!SetCurrent(v) /\ RestOta
         \/ InOta /\ Ota!Queued(v) /\ RestOta
         \/ \E b \in BOOLEAN :
              \/ InOta /\ Ota!Publish(v, b) /\ RestOta
              \/ InOta /\ Ota!Enqueue(v, b) /\ RestOta
              \/ InOta /\ Ota!UpdateOutdated(v, b) /\ RestOta

BotsRun ==
    \/ \E s \in Logins :
         \/ InBots /\ CheckView(s) /\ RestBots
         \/ InBots /\ CheckFails(s) /\ RestBots
         \/ InBots /\ LoadBot(s) /\ RestBots
         \/ InBots /\ BotFails(s) /\ RestBots
         \/ InBots /\ WriteBot(s) /\ RestBots
         \/ InBots /\ ListBot(s) /\ RestBots
         \/ InBots /\ SaveCreds(s) /\ RestBots
         \/ InBots /\ MarkPollable(s) /\ RestBots
         \/ InBots /\ Persist(s) /\ RestBots
         \/ InBots /\ Deadline(s) /\ RestBots
         \/ InBots /\ PollerDies(s) /\ RestBots
         \/ InBots /\ ViewExpires(s) /\ RestBots
         \/ \E reply \in {"wait_scan", "scanned", "expired", "error", "network", "token"} :
              InBots /\ Answer(s, reply) /\ RestBots
         \/ \E b \in Bots, rebind \in BOOLEAN :
              InBots /\ StartLogin(s, b, rebind) /\ RestBots
         \/ \E here \in BOOLEAN : InBots /\ Cancel(s, here) /\ RestBots
    \/ \E e \in Edits :
         \/ InBots /\ WriteRow(e) /\ RestBots
         \/ InBots /\ Mark(e) /\ RestBots
         \/ InBots /\ Unmark(e) /\ RestBots
         \/ InBots /\ DropRow(e) /\ RestBots
         \/ InBots /\ DropCreds(e) /\ RestBots
         \/ InBots /\ Unlist(e) /\ RestBots
         \/ InBots /\ EditDies(e) /\ RestBots
    \/ \E b \in Bots :
         \/ InBots /\ Rename(b) /\ RestBots
         \/ InBots /\ SaveCursor(b) /\ RestBots
         \/ InBots /\ DeleteBot(b) /\ RestBots
         \/ \E on \in BOOLEAN : InBots /\ SetStatus(b, on) /\ RestBots

SettingsRun ==
    \/ \E p \in Patchers :
         \/ InSettings /\ TakeLock(p) /\ RestSettings
         \/ InSettings /\ ReadBase(p) /\ RestSettings
         \/ InSettings /\ WriteDoc(p) /\ RestSettings
         \/ InSettings /\ CheckLock(p) /\ RestSettings
         \/ InSettings /\ DropLock(p) /\ RestSettings
         \/ InSettings /\ WithoutLock(p) /\ RestSettings
         \/ InSettings /\ RefusedRead(p) /\ RestSettings
    \/ \E n \in Nodes :
         \/ InSettings /\ ReadDoc(n) /\ RestSettings
         \/ InSettings /\ Apply(n) /\ RestSettings
         \/ InSettings /\ PatchRefresh(n) /\ RestSettings
         \/ InSettings /\ Restart(n) /\ RestSettings
         \/ \E reached \in SUBSET Services :
              InSettings /\ PushFails(n, reached) /\ RestSettings
    \/ \E n \in Front :
         \/ InSettings /\ ResetAll(n) /\ RestSettings
         \/ \E change \in Changes : InSettings /\ Request(n, change) /\ RestSettings
    \/ InSettings /\ LockExpires /\ RestSettings

LoadRun ==
    \/ \E n \in Node :
         \/ InLoad /\ BeginPass(n) /\ RestLoad
         \/ InLoad /\ KeepSnapshot(n) /\ RestLoad
         \/ InLoad /\ Overlap(n) /\ RestLoad
         \/ InLoad /\ ResumeBot(n) /\ RestLoad
         \/ InLoad /\ TakeResumed(n) /\ RestLoad
         \/ InLoad /\ Crash(n) /\ RestLoad
         \/ InLoad /\ Start(n) /\ RestLoad
         \/ \E l \in Lane :
              \/ InLoad /\ Plan(n, l) /\ RestLoad
              \/ InLoad /\ PlanFails(n, l) /\ RestLoad
              \/ InLoad /\ Claim(n, l) /\ RestLoad
              \/ InLoad /\ Shed(n, l) /\ RestLoad
              \/ InLoad /\ NotDue(n, l) /\ RestLoad
              \/ InLoad /\ Heartbeat(n, l) /\ RestLoad
    \/ \E table \in Weights : InLoad /\ SetWeight(table) /\ RestLoad
    \/ InLoad /\ PauseBot /\ RestLoad
    \/ InLoad /\ Expire /\ RestLoad

ControlNext == BroadcastNext \/ OtaNext \/ BotsRun \/ SettingsRun \/ LoadRun

\* The fairness of each component.
ControlFairness ==
    /\ \A w \in Worker : /\ WF_broadcastVars(InBroadcast /\ Cast!Tick(w))
                        /\ WF_broadcastVars(InBroadcast /\ Cast!Step(w))
                        /\ WF_broadcastVars(InBroadcast /\ Cast!Restart(w))
    /\ \A j \in Cast!Job : WF_broadcastVars(InBroadcast /\ Cast!Expire(j) /\ Cast!Calm)
    /\ WF_broadcastVars(InBroadcast /\ Cast!Cancel)
    /\ WF_otaVars(InOta /\ Ota!Advance)
    /\ \A s \in Logins : /\ WF_botVars(InBots /\ PollStep(s))
                        /\ WF_botVars(InBots /\ Deadline(s))
                        /\ WF_botVars(InBots /\ ViewExpires(s))
    /\ \A n \in Nodes : /\ WF_settingsVars(InSettings /\ ReadDoc(n))
                       /\ WF_settingsVars(InSettings /\ Apply(n))
    /\ \A p \in Patchers : WF_settingsVars(InSettings /\ PatchStep(p))
    /\ \A n \in Node : /\ WF_loadVars(InLoad /\ Step(n, 1))
                       /\ WF_loadVars(InLoad /\ Start(n))
    /\ WF_loadVars(InLoad /\ Expire)

ControlSpec == ControlInit /\ [][ControlNext]_controlVars /\ ControlFairness
-----------------------------------------------------------------------------
(* The properties of the components, each where it runs.  BotsAgree,        *)
(* SettingsKept, PlanSound and Settles are those of BotAccounts,            *)
(* RuntimeSettings and LoadPlan; they hold of a component that rests, too.  *)

\* The records of the running component have their types.
TypeOK ==
    /\ InBroadcast => Cast!TypeOK
    /\ InOta => Ota!OtaTypeOK
    /\ InBots => BotTypeOK
    /\ InSettings => SettingsTypeOK

\* A completed broadcast reached everybody (Broadcast).
CompletedReachedAll == InBroadcast => Cast!CompletedReachedAll

\* Nobody is sent a broadcast again but for the sends since a flush (Broadcast).
RepeatsBounded == InBroadcast => Cast!RepeatsBounded

\* A broadcast ends (Broadcast).
BroadcastEnds == Cast!BroadcastEnds

\* A node that says it is done runs the whole of that version (OtaApply).
DoneIsWhole == InOta => Ota!DoneIsWhole

\* Bots come to rest where the weights say (LoadPlan).
SettledBalanced == <>[](InLoad => Balanced)

\* An update asked for and a login come to an end, and every node comes to run
\* with the stored settings (OtaApply, BotAccounts, RuntimeSettings).
NodesSettle == Ota!JobEnds /\ LoginEnds /\ NodesConverge

-----------------------------------------------------------------------------
(* Instances for TLC                                                        *)

\* One small node and one large one; a two-to-one split and a drained small node.
MCMaxBots == [n \in Node |-> IF n = 1 THEN 2 ELSE 4]
MCWeights ==
    {[n \in Node |-> IF n = 1 THEN w ELSE 1] : w \in {0, 2}}

\* Three recipients, then one.
MCTotal == <<3, 1>>

\* A request that sets one setting and leaves the other, and one that sets both.
Setting(silence, wait) ==
    [k \in {"silence", "wait"} |-> IF k = "silence" THEN silence ELSE wait]
MCChanges == {Setting(2, Unset), Setting(1, 1)}
=============================================================================
