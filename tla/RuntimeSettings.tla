-------------------------- MODULE RuntimeSettings --------------------------
(***************************************************************************)
(* Runtime settings: overrides of the environment in one document in       *)
(* Redis, which administrators patch under a lock and every node polls     *)
(* (runtime-config.ts, runtime-config-apply.ts, the settings routes).      *)
(*                                                                         *)
(* Two settings stand for the registry of runtime-settings-spec.ts, those  *)
(* that a rule relates: the silence that ends a batch of messages must not *)
(* exceed the longest wait.  A value is a number; masks of secrets, the    *)
(* coercion of other types and the warnings are left out.  All nodes have  *)
(* the same environment.                                                   *)
(***************************************************************************)
EXTENDS Naturals, FiniteSets

CONSTANTS
    Nodes,
    Front,       \* bound: the nodes that requests reach
    Services,    \* what a node pushes its settings to
    Values,      \* values a setting may take, numbers
    Changes,     \* what a request may ask for: a value or Unset for each setting
    DefaultSilence, DefaultWait,
    MaxPatches,  \* bound: PATCH requests in all
    MaxFaults,   \* bound: locks that expire, reads and pushes that fail
    Unset

SettingsAssumption ==
    /\ Front \subseteq Nodes
    /\ Values \subseteq Nat /\ Unset \notin Values \cup 1..MaxPatches
    /\ {DefaultSilence, DefaultWait} \subseteq Values /\ DefaultSilence <= DefaultWait
    /\ Changes \subseteq [{"silence", "wait"} -> Values \cup {Unset}]
    /\ MaxPatches \in Nat /\ MaxFaults \in Nat

VARIABLES
    stored,    \* K.runtimeSettings: the overrides
    lock,      \* K.runtimeSettingsLock: the patch whose token it holds
    config,    \* cfg of each node
    pushed,    \* the options of the services of each node
    seen,      \* lastSeen: the document a node applied last, Unset when forced
    reading,   \* refreshes between their read and the rest
    patch,     \* the PATCH requests, in the order they arrive
    patches, faults,
    last,      \* history: what the patch written last said of each setting
    alone,     \* history: no two patches held the document at once
    partial    \* history: nodes where a push reached some services only

settingsVars == <<stored, lock, config, pushed, seen, reading, patch, patches,
                  faults, last, alone, partial>>

Patchers == 1..MaxPatches
Settings == {"silence", "wait"}
Defaults == [k \in Settings |-> IF k = "silence" THEN DefaultSilence ELSE DefaultWait]
Docs == [Settings -> Values \cup {Unset}]
NoDoc == [k \in Settings |-> Unset]
Effective(doc) == [k \in Settings |-> IF doc[k] = Unset THEN Defaults[k] ELSE doc[k]]
Valid(doc) == Effective(doc)["silence"] <= Effective(doc)["wait"]

(* A patch over the document it read: a setting set to the default of the  *)
(* environment loses its override.                                         *)
Merged(doc, change) ==
    [k \in Settings |-> IF change[k] = Unset THEN doc[k]
                        ELSE IF change[k] = Defaults[k] THEN Unset ELSE change[k]]
\* Faulty form: only what the patch itself says is checked.
AcceptsAlone(doc, change) == Valid(Merged(NoDoc, change))
Accepts(doc, change) == Valid(Merged(doc, change))

NoPatchYet == [at |-> "end", node |-> Unset, change |-> NoDoc, doc |-> NoDoc]
-----------------------------------------------------------------------------
SettingsInit ==
    /\ stored = NoDoc /\ lock = Unset
    /\ config = [n \in Nodes |-> Defaults]
    /\ pushed = [n \in Nodes |-> [s \in Services |-> Defaults]]
    /\ seen = [n \in Nodes |-> NoDoc]
    /\ reading = [n \in Nodes |-> Unset]
    /\ patch = [p \in Patchers |-> NoPatchYet]
    /\ patches = 0 /\ faults = 0
    /\ last = Defaults /\ alone = TRUE /\ partial = {}

OfNodes == <<config, pushed, seen, reading, partial>>
Fault == faults < MaxFaults /\ faults' = faults + 1
PatchAt(p, at) == patch[p].at = at
PatchTo(p, at) == patch' = [patch EXCEPT ![p] = IF at = "end" THEN NoPatchYet ELSE [@ EXCEPT !.at = at]]

(* PATCH; reset asks for every default.                                    *)
Request(n, change) ==
    /\ patches < MaxPatches
    /\ patches' = patches + 1
    /\ patch' = [patch EXCEPT ![patches'] = [at |-> "lock", node |-> n, change |-> change, doc |-> NoDoc]]
    /\ UNCHANGED <<stored, lock, OfNodes, faults, last, alone>>

ResetAll(n) == Request(n, Defaults)

(* SET NX, five times; without the lock the patch goes on all the same.    *)
LockFree == lock = Unset
TakeLock(p) ==
    /\ PatchAt(p, "lock") /\ LockFree
    /\ lock' = p
    /\ PatchTo(p, "read")
    /\ UNCHANGED <<stored, OfNodes, patches, faults, last, alone>>

WithoutLock(p) ==
    /\ PatchAt(p, "lock") /\ ~LockFree /\ Fault
    /\ PatchTo(p, "read")
    /\ alone' = FALSE
    /\ UNCHANGED <<stored, lock, OfNodes, patches, last>>

LockExpires ==
    /\ lock # Unset /\ Fault
    /\ lock' = Unset
    /\ alone' = (alone /\ ~PatchAt(lock, "read") /\ ~PatchAt(lock, "write"))
    /\ UNCHANGED <<stored, OfNodes, patch, patches, last>>

(* patchLocked reads the document; a patch that would break the rule, or a *)
(* read that fails, is refused.                                            *)
ReadBase(p) ==
    /\ PatchAt(p, "read")
    /\ \/ Accepts(stored, patch[p].change)
          /\ patch' = [patch EXCEPT ![p].at = "write", ![p].doc = Merged(stored, patch[p].change)]
       \/ ~Accepts(stored, patch[p].change) /\ PatchTo(p, "unlock")
    /\ UNCHANGED <<stored, lock, OfNodes, patches, faults, last, alone>>

(* A reset needs no base: it is written even if the read fails.            *)
RefusedRead(p) ==
    /\ PatchAt(p, "read") /\ Fault
    /\ IF patch[p].change = Defaults THEN PatchTo(p, "write") ELSE PatchTo(p, "unlock")
    /\ UNCHANGED <<stored, lock, OfNodes, patches, last, alone>>

(* The whole document is written, and the node made to read it again.      *)
WriteDoc(p) ==
    LET q == patch[p] IN
    /\ PatchAt(p, "write")
    /\ stored' = q.doc
    /\ last' = [k \in Settings |-> IF q.change[k] = Unset THEN last[k] ELSE q.change[k]]
    /\ seen' = [seen EXCEPT ![q.node] = Unset]
    /\ PatchTo(p, "unlock")
    /\ UNCHANGED <<lock, config, pushed, reading, partial, patches, faults, alone>>

(* releaseLock: GET, and DEL if it is the own token.                       *)
CheckLock(p) ==
    /\ PatchAt(p, "unlock")
    /\ PatchTo(p, IF lock = p THEN "drop" ELSE "end")
    /\ UNCHANGED <<stored, lock, OfNodes, patches, faults, last, alone>>

DropLock(p) ==
    /\ PatchAt(p, "drop")
    /\ lock' = Unset
    /\ alone' = (alone /\ lock \in {p, Unset})
    /\ PatchTo(p, "end")
    /\ UNCHANGED <<stored, OfNodes, patches, faults, last>>

(* refresh, from the timer or after a patch.  Between its read and the     *)
(* rest another refresh of the node may run, with a later document.        *)
ReadDoc(n) ==
    /\ reading[n] = Unset
    /\ reading' = [reading EXCEPT ![n] = stored]
    /\ UNCHANGED <<stored, lock, config, pushed, seen, partial, patch, patches, faults, last, alone>>

Push(n, doc, reached) ==
    [pushed EXCEPT ![n] = [s \in Services |-> IF s \in reached THEN Effective(doc) ELSE @[s]]]

Use(n, doc) ==
    /\ Valid(doc) /\ seen[n] # doc
    /\ config' = [config EXCEPT ![n] = Effective(doc)]
    /\ pushed' = Push(n, doc, IF config[n] = Effective(doc) THEN {} ELSE Services)
    /\ seen' = [seen EXCEPT ![n] = doc]
    /\ UNCHANGED <<stored, lock, partial, patch, patches, faults, last, alone>>

Apply(n) ==
    /\ reading[n] # Unset
    /\ reading' = [reading EXCEPT ![n] = Unset]
    /\ \/ Use(n, reading[n])
       \/ /\ ~Valid(reading[n]) \/ seen[n] = reading[n]
          /\ UNCHANGED <<stored, lock, config, pushed, seen, partial, patch, patches,
                         faults, last, alone>>

PatchRefresh(n) == Use(n, stored) /\ UNCHANGED reading

(* A push that throws: some services have the new options, the node keeps  *)
(* its settings and tries again with the next refresh.                     *)
SeenAfterFailure(n) == seen[n]
PushFails(n, reached) ==
    /\ reading[n] # Unset /\ Valid(reading[n]) /\ config[n] # Effective(reading[n])
    /\ Fault
    /\ reading' = [reading EXCEPT ![n] = Unset]
    /\ pushed' = Push(n, reading[n], reached)
    /\ seen' = [seen EXCEPT ![n] = SeenAfterFailure(n)]
    /\ partial' = partial \cup {n}
    /\ UNCHANGED <<stored, lock, config, patch, patches, last, alone>>

Restart(n) ==
    /\ Fault
    /\ config' = [config EXCEPT ![n] = Defaults]
    /\ pushed' = [pushed EXCEPT ![n] = [s \in Services |-> Defaults]]
    /\ seen' = [seen EXCEPT ![n] = NoDoc]
    /\ reading' = [reading EXCEPT ![n] = Unset]
    /\ partial' = partial \ {n}
    /\ patch' = [p \in Patchers |-> IF patch[p].node = n THEN NoPatchYet ELSE patch[p]]
    /\ UNCHANGED <<stored, lock, patches, last, alone>>

PatchStep(p) == TakeLock(p) \/ ReadBase(p) \/ WriteDoc(p) \/ CheckLock(p) \/ DropLock(p)

SettingsNext ==
    \/ \E p \in Patchers :
         \/ PatchStep(p) \/ WithoutLock(p) \/ RefusedRead(p)
    \/ \E n \in Nodes :
         \/ ReadDoc(n) \/ Apply(n) \/ PatchRefresh(n) \/ Restart(n)
         \/ \E reached \in SUBSET Services : PushFails(n, reached)
    \/ \E n \in Front : ResetAll(n) \/ \E change \in Changes : Request(n, change)
    \/ LockExpires

\* Timers fire, and awaited calls return.
SettingsFairness ==
    /\ \A n \in Nodes : WF_settingsVars(ReadDoc(n)) /\ WF_settingsVars(Apply(n))
    /\ \A p \in Patchers : WF_settingsVars(PatchStep(p))

SettingsSpec == SettingsInit /\ [][SettingsNext]_settingsVars /\ SettingsFairness
-----------------------------------------------------------------------------
(* Type invariant.                                                         *)
SettingsTypeOK ==
    /\ stored \in Docs /\ lock \in Patchers \cup {Unset}
    /\ config \in [Nodes -> [Settings -> Values]]
    /\ pushed \in [Nodes -> [Services -> [Settings -> Values]]]
    /\ seen \in [Nodes -> Docs \cup {Unset}] /\ reading \in [Nodes -> Docs \cup {Unset}]
    /\ patches \in 0..MaxPatches /\ faults \in 0..MaxFaults
    /\ partial \subseteq Nodes /\ alone \in BOOLEAN

(* Whatever patches race, with the lock or without it, the document keeps  *)
(* the rule (runtime-config.ts:573); and where no two patches held it at   *)
(* once, it says of every setting what the last patch said: none drops     *)
(* another's edit (runtime-config.ts:430).                                 *)
EditsKept == Valid(stored) /\ (alone => Effective(stored) = last)

(* A node that has seen a document runs with it, and so do its services,   *)
(* unless a push failed halfway: one that takes itself to be up to date is *)
(* (runtime-config.ts:30), and one that is not reads again, whatever order *)
(* its refreshes end in.                                                   *)
SeenIsApplied ==
    \A n \in Nodes : seen[n] # Unset =>
      /\ config[n] = Effective(seen[n])
      /\ n \in partial \/ \A s \in Services : pushed[n][s] = config[n]

(* The two together.                                                       *)
SettingsKept == EditsKept /\ SeenIsApplied

(* Once the patches are over every node runs with the stored settings,     *)
(* whatever pushes, locks and restarts failed (runtime-config.ts:30).      *)
NodesConverge == \A n \in Nodes : <>[](config[n] = Effective(stored))
=============================================================================
