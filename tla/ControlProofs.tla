--------------------------- MODULE ControlProofs ---------------------------
(***************************************************************************)
(* What TLC shows of the components of ControlRun on small instances, for  *)
(* every value of their constants.                                         *)
(***************************************************************************)
EXTENDS ControlRun, Sequences, FiniteSetTheorems, WellFoundedInduction, TLAPS

-----------------------------------------------------------------------------
(* RuntimeSettings                                                         *)

PatchRecs == [at : {"lock", "read", "write", "unlock", "drop", "end"},
              node : Nodes \cup {Unset}, change : Docs, doc : Docs]

\* The type invariant, with the requests under way and the history.
SettingsTypes ==
    /\ SettingsTypeOK
    /\ patch \in [Patchers -> PatchRecs]
    /\ last \in [Settings -> Values]

\* Every document that is stored, or about to be, keeps the rule.
RuleKept == Valid(stored) /\ \A p \in Patchers : PatchAt(p, "write") => Valid(patch[p].doc)

\* A patch has no document before its read.
ReadLater == \A p \in Patchers : patch[p].at \in {"lock", "read"} => patch[p].doc = NoDoc

\* As long as patches are alone with the document, the one that holds it has
\* the lock, and what it will write is its change over what is stored.
HeldAlone ==
    alone => \A p \in Patchers :
        /\ patch[p].at \in {"read", "write"} => lock = p
        /\ PatchAt(p, "write") => patch[p].doc = Merged(stored, patch[p].change)

\* The services of a node run with its settings, read again or not.
PushedIsConfig ==
    \A n \in Nodes : n \in partial \/ \A s \in Services : pushed[n][s] = config[n]

SettingsInv == SettingsTypes /\ RuleKept /\ ReadLater /\ HeldAlone /\ PushedIsConfig /\ SettingsKept

\* What the proofs need of the constants.
LEMMA SettingsConstants ==
    /\ Values \subseteq Nat /\ Unset \notin Values /\ Unset \notin Patchers
    /\ Defaults \in [Settings -> Values] /\ Defaults \in Docs /\ NoDoc \in Docs
    /\ Effective(NoDoc) = Defaults /\ Valid(NoDoc)
    /\ Changes \subseteq Docs /\ Front \subseteq Nodes
  BY ControlAssumption
     DEF ControlAssumption, SettingsAssumption, Defaults, Docs, NoDoc, Settings, Effective, Valid,
         Patchers

\* A document with its defaults filled in gives every setting a value.
LEMMA EffectiveType ==
    ASSUME NEW doc \in Docs
    PROVE  Effective(doc) \in [Settings -> Values]
  BY SettingsConstants DEF Effective, Docs

\* A patch over a document is a document, and says of every setting what the
\* patch says or else what the document said (patchLocked).
LEMMA MergedSays ==
    ASSUME NEW doc \in Docs, NEW change \in Docs
    PROVE  /\ Merged(doc, change) \in Docs
           /\ Effective(Merged(doc, change))
                = [k \in Settings |-> IF change[k] = Unset THEN Effective(doc)[k] ELSE change[k]]
  BY SettingsConstants DEF Merged, Effective, Docs

\* A reset leaves no override.
LEMMA ResetSays ==
    ASSUME NEW doc \in Docs
    PROVE  Merged(doc, Defaults) = NoDoc
  BY SettingsConstants DEF Merged, NoDoc, Docs

\* The invariant holds at the start.
LEMMA SettingsStart == SettingsInit => SettingsInv
  <1> SUFFICES ASSUME SettingsInit PROVE SettingsInv
    OBVIOUS
  <1>1. NoPatchYet \in PatchRecs /\ NoPatchYet.at = "end"
    BY SettingsConstants DEF NoPatchYet, PatchRecs
  <1>2. \A p \in Patchers : patch[p] = NoPatchYet  BY DEF SettingsInit
  <1>3. SettingsTypes
    BY <1>1, SettingsConstants, ControlAssumption
       DEF SettingsInit, SettingsTypes, SettingsTypeOK, ControlAssumption, SettingsAssumption
  <1>4. RuleKept /\ ReadLater /\ HeldAlone
    BY <1>1, <1>2, SettingsConstants DEF SettingsInit, RuleKept, ReadLater, HeldAlone, PatchAt
  <1>5. PushedIsConfig /\ SettingsKept
    BY SettingsConstants
       DEF SettingsInit, PushedIsConfig, SettingsKept, EditsKept, SeenIsApplied
  <1> QED  BY <1>3, <1>4, <1>5 DEF SettingsInv

\* What moving a request on does to the requests.
LEMMA PatchMoves ==
    ASSUME SettingsTypes, NEW p \in Patchers, NEW at \in {"lock", "read", "write", "unlock", "drop", "end"},
           PatchTo(p, at)
    PROVE  /\ patch' \in [Patchers -> PatchRecs]
           /\ \A q \in Patchers \ {p} : patch'[q] = patch[q]
           /\ patch'[p].at = at
           /\ at # "end" => patch'[p].doc = patch[p].doc /\ patch'[p].change = patch[p].change
  <1>1. NoPatchYet \in PatchRecs /\ NoPatchYet.at = "end"
    BY SettingsConstants DEF NoPatchYet, PatchRecs
  <1>2. [patch[p] EXCEPT !.at = at] \in PatchRecs
    BY DEF SettingsTypes, PatchRecs
  <1>3. patch' = [patch EXCEPT ![p] = IF at = "end" THEN NoPatchYet ELSE [patch[p] EXCEPT !.at = at]]
    BY DEF PatchTo, SettingsTypes
  <1> QED  BY <1>1, <1>2, <1>3 DEF SettingsTypes, PatchRecs

\* A step that leaves the document, the nodes and `last` alone, keeps who may
\* hold the document, and changes no patch about to write keeps the invariant.
LEMMA SettingsQuiet ==
    ASSUME SettingsInv, UNCHANGED <<stored, OfNodes, last>>,
           patch' \in [Patchers -> PatchRecs], lock' \in Patchers \cup {Unset},
           patches' \in 0..MaxPatches, faults' \in 0..MaxFaults,
           alone' \in BOOLEAN, alone' => alone,
           \A p \in Patchers :
              /\ patch'[p].at = "write" => /\ patch[p].at = "write"
                                           /\ patch'[p].doc = patch[p].doc
                                           /\ patch'[p].change = patch[p].change
              /\ patch'[p].at \in {"lock", "read"} => patch'[p].doc = NoDoc
              /\ alone' /\ patch'[p].at \in {"read", "write"} => lock' = p
    PROVE  SettingsInv'
  BY DEF SettingsInv, SettingsTypes, SettingsTypeOK, RuleKept, ReadLater, HeldAlone, PushedIsConfig,
         SettingsKept, EditsKept, SeenIsApplied, PatchAt, OfNodes

\* Requests and the lock: no step of these writes the document.
LEMMA LockSteps ==
    ASSUME SettingsInv
    PROVE  /\ \A n \in Front, change \in Docs : Request(n, change) => SettingsInv'
           /\ \A p \in Patchers : TakeLock(p) \/ WithoutLock(p) \/ CheckLock(p) \/ DropLock(p)
                                    => SettingsInv'
           /\ LockExpires => SettingsInv'
  <1>0. /\ patch \in [Patchers -> PatchRecs] /\ lock \in Patchers \cup {Unset}
        /\ patches \in 0..MaxPatches /\ faults \in 0..MaxFaults /\ alone \in BOOLEAN
        /\ MaxPatches \in Nat /\ MaxFaults \in Nat
    BY ControlAssumption
       DEF SettingsInv, SettingsTypes, SettingsTypeOK, ControlAssumption, SettingsAssumption
  <1>a. \A p \in Patchers : alone /\ patch[p].at \in {"read", "write"} => lock = p
    BY DEF SettingsInv, HeldAlone
  <1>b. SettingsTypes /\ ReadLater  BY DEF SettingsInv
  <1>1. ASSUME NEW n \in Front, NEW change \in Docs, Request(n, change) PROVE SettingsInv'
    <2> DEFINE new == [at |-> "lock", node |-> n, change |-> change, doc |-> NoDoc]
    <2>1. patches' \in Patchers /\ patches' \in 0..MaxPatches
      BY <1>0, <1>1 DEF Request, Patchers
    <2>2. new \in PatchRecs  BY SettingsConstants DEF PatchRecs
    <2>3. patch' = [patch EXCEPT ![patches'] = new]  BY <1>1 DEF Request
    <2>4. patch' \in [Patchers -> PatchRecs]  BY <1>0, <2>1, <2>2, <2>3
    <2>5. \A p \in Patchers : patch'[p].at # "lock" => patch'[p] = patch[p]
      BY <1>0, <2>1, <2>3
    <2> QED  BY <1>0, <1>1, <1>a, <1>b, <2>1, <2>3, <2>4, <2>5, SettingsQuiet DEF Request, ReadLater
  <1>2. ASSUME NEW p \in Patchers, TakeLock(p) PROVE SettingsInv'
    <2>1. PatchTo(p, "read")  BY <1>2 DEF TakeLock
    <2>2. \A q \in Patchers : alone => patch[q].at \notin {"read", "write"}
      BY <1>2, <1>a, SettingsConstants DEF TakeLock, LockFree
    <2> QED  BY <1>0, <1>2, <1>b, <2>1, <2>2, PatchMoves, SettingsQuiet DEF TakeLock, ReadLater, PatchAt
  <1>3. ASSUME NEW p \in Patchers, WithoutLock(p) PROVE SettingsInv'
    <2>1. PatchTo(p, "read")  BY <1>3 DEF WithoutLock
    <2>2. faults' \in 0..MaxFaults  BY <1>0, <1>3 DEF WithoutLock, Fault
    <2> QED  BY <1>0, <1>3, <1>b, <2>1, <2>2, PatchMoves, SettingsQuiet DEF WithoutLock, ReadLater, PatchAt
  <1>4. ASSUME NEW p \in Patchers, CheckLock(p) PROVE SettingsInv'
    <2>1. PatchTo(p, "drop") \/ PatchTo(p, "end")  BY <1>4 DEF CheckLock
    <2> QED  BY <1>0, <1>4, <1>a, <1>b, <2>1, PatchMoves, SettingsQuiet DEF CheckLock, ReadLater
  <1>5. ASSUME NEW p \in Patchers, DropLock(p) PROVE SettingsInv'
    <2>1. PatchTo(p, "end")  BY <1>5 DEF DropLock
    <2>2. PatchAt(p, "drop") /\ lock' = Unset /\ (alone' <=> alone /\ lock \in {p, Unset})
      BY <1>5 DEF DropLock
    <2>3. \A q \in Patchers : alone' => patch[q].at \notin {"read", "write"}
      BY <1>a, <2>2, SettingsConstants DEF PatchAt
    <2> QED  BY <1>0, <1>5, <1>b, <2>1, <2>2, <2>3, PatchMoves, SettingsQuiet DEF DropLock, ReadLater
  <1>6. ASSUME LockExpires PROVE SettingsInv'
    <2>1. \A q \in Patchers : alone' => patch[q].at \notin {"read", "write"}
      BY <1>0, <1>6, <1>a DEF LockExpires, PatchAt
    <2>2. faults' \in 0..MaxFaults  BY <1>0, <1>6 DEF LockExpires, Fault
    <2> QED  BY <1>0, <1>6, <1>b, <2>1, <2>2, SettingsQuiet DEF LockExpires, ReadLater
  <1> QED  BY <1>1, <1>2, <1>3, <1>4, <1>5, <1>6

\* Reading the base, failing to, and writing the document.
LEMMA PatchSteps ==
    ASSUME SettingsInv, NEW p \in Patchers, ReadBase(p) \/ RefusedRead(p) \/ WriteDoc(p)
    PROVE  SettingsInv'
  <1> DEFINE q == patch[p]
  <1>0. /\ patch \in [Patchers -> PatchRecs] /\ stored \in Docs /\ q.change \in Docs /\ q.doc \in Docs
        /\ faults \in 0..MaxFaults /\ MaxFaults \in Nat
    BY ControlAssumption
       DEF SettingsInv, SettingsTypes, SettingsTypeOK, PatchRecs, ControlAssumption, SettingsAssumption
  <1>b. SettingsTypes /\ ReadLater  BY DEF SettingsInv
  <1>1. ASSUME ReadBase(p), Accepts(stored, q.change) PROVE SettingsInv'
    <2> DEFINE merged == Merged(stored, q.change)
    <2> DEFINE new == [q EXCEPT !.at = "write", !.doc = merged]
    <2>1. merged \in Docs /\ q \in PatchRecs  BY <1>0, MergedSays
    <2>2. Valid(merged)  BY <1>1 DEF Accepts
    <2>3. PatchAt(p, "read") /\ UNCHANGED <<stored, lock, OfNodes, patches, faults, last, alone>>
      BY <1>1 DEF ReadBase
    <2>4. patch' = [patch EXCEPT ![p].at = "write", ![p].doc = merged]
      BY <1>1 DEF ReadBase
    <2> HIDE DEF merged
    <2>5. /\ new \in PatchRecs
          /\ new.at = "write" /\ new.doc = merged /\ new.change = q.change
      BY <2>1 DEF PatchRecs
    <2>6. patch' = [patch EXCEPT ![p] = new]
      BY <1>0, <2>4
    <2>7. /\ patch' \in [Patchers -> PatchRecs] /\ patch'[p] = new
          /\ \A r \in Patchers \ {p} : patch'[r] = patch[r]
      BY <1>0, <2>5, <2>6
    <2> HIDE DEF new
    <2>8. SettingsTypes'  BY <1>b, <2>3, <2>7 DEF SettingsTypes, SettingsTypeOK, OfNodes
    <2>9. RuleKept' /\ ReadLater'
      BY <2>2, <2>3, <2>5, <2>7 DEF SettingsInv, RuleKept, ReadLater, PatchAt
    <2>10. HeldAlone'
      BY <2>3, <2>5, <2>7 DEF SettingsInv, HeldAlone, PatchAt, merged
    <2> QED  BY <2>3, <2>8, <2>9, <2>10
             DEF SettingsInv, PushedIsConfig, SettingsKept, EditsKept, SeenIsApplied, OfNodes
  <1>2. ASSUME ReadBase(p), ~Accepts(stored, q.change) PROVE SettingsInv'
    <2>1. PatchTo(p, "unlock") /\ UNCHANGED <<stored, lock, OfNodes, patches, faults, last, alone>>
      BY <1>2 DEF ReadBase
    <2> QED  BY <1>b, <2>1, PatchMoves, SettingsQuiet
             DEF SettingsInv, SettingsTypes, SettingsTypeOK, HeldAlone, ReadLater
  <1>3. ASSUME RefusedRead(p) PROVE SettingsInv'
    <2>1. PatchAt(p, "read") /\ UNCHANGED <<stored, lock, OfNodes, patches, last, alone>>
      BY <1>3 DEF RefusedRead
    <2>2. faults' \in 0..MaxFaults  BY <1>0, <1>3 DEF RefusedRead, Fault
    <2>3. CASE q.change # Defaults
      <3>1. PatchTo(p, "unlock")  BY <1>3, <2>3 DEF RefusedRead
      <3> QED  BY <1>b, <2>1, <2>2, <3>1, PatchMoves, SettingsQuiet
               DEF SettingsInv, SettingsTypes, SettingsTypeOK, HeldAlone, ReadLater
    <2>4. CASE q.change = Defaults
      <3>1. PatchTo(p, "write")  BY <1>3, <2>4 DEF RefusedRead
      <3>2. q.doc = NoDoc  BY <1>b, <2>1 DEF ReadLater, PatchAt
      <3>3. /\ patch' \in [Patchers -> PatchRecs]
            /\ \A r \in Patchers \ {p} : patch'[r] = patch[r]
            /\ patch'[p].at = "write" /\ patch'[p].doc = NoDoc /\ patch'[p].change = Defaults
        BY <1>b, <2>4, <3>1, <3>2, PatchMoves
      <3>4. SettingsTypes'  BY <1>b, <2>1, <2>2, <3>3 DEF SettingsTypes, SettingsTypeOK, OfNodes
      <3>5. RuleKept' /\ ReadLater'
        BY <2>1, <3>3, SettingsConstants DEF SettingsInv, RuleKept, ReadLater, PatchAt
      <3>6. Merged(stored, Defaults) = NoDoc  BY <1>0, ResetSays
      <3>7. HeldAlone'
        BY <2>1, <3>3, <3>6 DEF SettingsInv, HeldAlone, PatchAt
      <3> QED  BY <2>1, <3>4, <3>5, <3>7
               DEF SettingsInv, PushedIsConfig, SettingsKept, EditsKept, SeenIsApplied, OfNodes
    <2> QED  BY <2>3, <2>4
  <1>4. ASSUME WriteDoc(p) PROVE SettingsInv'
    <2>1. /\ PatchAt(p, "write") /\ PatchTo(p, "unlock")
          /\ stored' = q.doc /\ seen' = [seen EXCEPT ![q.node] = Unset]
          /\ last' = [k \in Settings |-> IF q.change[k] = Unset THEN last[k] ELSE q.change[k]]
          /\ UNCHANGED <<lock, config, pushed, reading, partial, patches, faults, alone>>
      BY <1>4 DEF WriteDoc
    <2>2. /\ patch' \in [Patchers -> PatchRecs]
          /\ \A r \in Patchers \ {p} : patch'[r] = patch[r]
          /\ patch'[p].at = "unlock"
      BY <1>b, <2>1, PatchMoves
    <2>3. SettingsTypes'
      <3>1. last' \in [Settings -> Values]
        BY <1>0, <1>b, <2>1 DEF SettingsTypes, Docs
      <3> QED  BY <1>0, <1>b, <2>1, <2>2, <3>1 DEF SettingsTypes, SettingsTypeOK
    <2>4. RuleKept' /\ ReadLater'
      BY <1>b, <2>1, <2>2 DEF SettingsInv, RuleKept, ReadLater, PatchAt
    <2>5. HeldAlone'
      <3>1. ASSUME alone, NEW r \in Patchers, patch'[r].at \in {"read", "write"}
            PROVE  lock = r /\ r # p /\ patch[r].at \in {"read", "write"}
        BY <2>2, <3>1 DEF SettingsInv, HeldAlone
      <3>2. alone => lock = p  BY <2>1 DEF SettingsInv, HeldAlone, PatchAt
      <3> QED  BY <2>1, <3>1, <3>2 DEF HeldAlone, PatchAt
    <2>6. alone => Effective(stored') = last'
      <3>1. alone => q.doc = Merged(stored, q.change) /\ Effective(stored) = last
        BY <2>1 DEF SettingsInv, HeldAlone, SettingsKept, EditsKept, PatchAt
      <3> QED  BY <1>0, <2>1, <3>1, MergedSays
    <2>7. SettingsKept'
      <3>1. Valid(stored')  BY <2>1 DEF SettingsInv, RuleKept
      <3>2. SeenIsApplied'
        BY <1>b, <2>1 DEF SettingsInv, SettingsKept, SeenIsApplied, SettingsTypes, SettingsTypeOK
      <3> QED  BY <2>1, <2>6, <3>1, <3>2 DEF SettingsKept, EditsKept
    <2> QED  BY <2>1, <2>3, <2>4, <2>5, <2>7 DEF SettingsInv, PushedIsConfig
  <1> QED  BY <1>1, <1>2, <1>3, <1>4

\* The steps of a node leave the document and the lock alone.
LEMMA NodeSteps ==
    ASSUME SettingsInv, UNCHANGED <<stored, lock, patch, patches, last, alone>>,
           faults' \in 0..MaxFaults,
           config' \in [Nodes -> [Settings -> Values]],
           pushed' \in [Nodes -> [Services -> [Settings -> Values]]],
           seen' \in [Nodes -> Docs \cup {Unset}], reading' \in [Nodes -> Docs \cup {Unset}],
           partial' \subseteq Nodes,
           \A n \in Nodes :
              /\ seen'[n] # Unset => config'[n] = Effective(seen'[n])
              /\ n \in partial' \/ \A s \in Services : pushed'[n][s] = config'[n]
    PROVE  SettingsInv'
  BY DEF SettingsInv, SettingsTypes, SettingsTypeOK, RuleKept, ReadLater, HeldAlone,
         PushedIsConfig, SettingsKept, EditsKept, SeenIsApplied, PatchAt

\* Pushing fills in the options of the services reached and no others.
LEMMA PushSays ==
    ASSUME SettingsTypes, NEW n \in Nodes, NEW doc \in Docs, NEW R \in SUBSET Services
    PROVE  /\ Push(n, doc, R) \in [Nodes -> [Services -> [Settings -> Values]]]
           /\ \A m \in Nodes \ {n} : Push(n, doc, R)[m] = pushed[m]
           /\ \A s \in Services : Push(n, doc, R)[n][s] = IF s \in R THEN Effective(doc) ELSE pushed[n][s]
  BY EffectiveType DEF SettingsTypes, SettingsTypeOK, Push

\* A node that uses a document runs with it, and so do its services.
LEMMA UseStep ==
    ASSUME SettingsInv, NEW n \in Nodes, NEW doc \in Docs, Use(n, doc),
           reading' \in [Nodes -> Docs \cup {Unset}]
    PROVE  SettingsInv'
  <1>0. SettingsTypes  BY DEF SettingsInv
  <1> DEFINE E == Effective(doc)
  <1> DEFINE R == IF config[n] = E THEN {} ELSE Services
  <1>1. /\ config' = [config EXCEPT ![n] = E] /\ pushed' = Push(n, doc, R)
        /\ seen' = [seen EXCEPT ![n] = doc]
        /\ UNCHANGED <<stored, lock, partial, patch, patches, faults, last, alone>>
    BY DEF Use
  <1>2. E \in [Settings -> Values]  BY EffectiveType
  <1>3. R \in SUBSET Services  OBVIOUS
  <1>4. /\ pushed' \in [Nodes -> [Services -> [Settings -> Values]]]
        /\ \A m \in Nodes \ {n} : pushed'[m] = pushed[m]
        /\ \A s \in Services : pushed'[n][s] = IF s \in R THEN E ELSE pushed[n][s]
    BY <1>0, <1>1, <1>3, PushSays
  <1>5. \A m \in Nodes :
           /\ seen'[m] # Unset => config'[m] = Effective(seen'[m])
           /\ m \in partial' \/ \A s \in Services : pushed'[m][s] = config'[m]
    <2> TAKE m \in Nodes
    <2>1. CASE m = n
      <3>1. config'[n] = E /\ seen'[n] = doc
        BY <1>0, <1>1 DEF SettingsTypes, SettingsTypeOK
      <3>2. n \in partial \/ \A s \in Services : pushed[n][s] = config[n]
        BY DEF SettingsInv, PushedIsConfig
      <3> QED  BY <1>1, <1>4, <2>1, <3>1, <3>2
    <2>2. CASE m # n
      <3>1. config'[m] = config[m] /\ seen'[m] = seen[m]
        BY <1>0, <1>1, <2>2 DEF SettingsTypes, SettingsTypeOK
      <3> QED  BY <1>1, <1>4, <2>2, <3>1
               DEF SettingsInv, PushedIsConfig, SettingsKept, SeenIsApplied
    <2> QED  BY <2>1, <2>2
  <1> QED  BY <1>0, <1>1, <1>2, <1>4, <1>5, NodeSteps DEF SettingsTypes, SettingsTypeOK

\* Every step of the settings keeps the invariant.
LEMMA SettingsStep == SettingsInv /\ [SettingsNext]_settingsVars => SettingsInv'
  <1> SUFFICES ASSUME SettingsInv, [SettingsNext]_settingsVars PROVE SettingsInv'
    OBVIOUS
  <1>0. SettingsTypes /\ SettingsTypeOK /\ stored \in Docs
    BY DEF SettingsInv, SettingsTypes, SettingsTypeOK
  <1>a. \A n \in Nodes :
           /\ seen[n] # Unset => config[n] = Effective(seen[n])
           /\ n \in partial \/ \A s \in Services : pushed[n][s] = config[n]
    BY DEF SettingsInv, PushedIsConfig, SettingsKept, SeenIsApplied
  <1>1. ASSUME NEW p \in Patchers, PatchStep(p) \/ WithoutLock(p) \/ RefusedRead(p)
        PROVE  SettingsInv'
    BY <1>1, LockSteps, PatchSteps DEF PatchStep
  <1>2. ASSUME NEW n \in Front, ResetAll(n) \/ \E change \in Changes : Request(n, change)
        PROVE  SettingsInv'
    BY <1>2, LockSteps, SettingsConstants DEF ResetAll
  <1>3. ASSUME LockExpires PROVE SettingsInv'
    BY <1>3, LockSteps
  <1>4. ASSUME NEW n \in Nodes, ReadDoc(n) PROVE SettingsInv'
    <2>1. reading' \in [Nodes -> Docs \cup {Unset}]
      BY <1>0, <1>4 DEF SettingsTypeOK, ReadDoc
    <2> QED  BY <1>0, <1>4, <1>a, <2>1, NodeSteps DEF SettingsTypeOK, ReadDoc
  <1>5. ASSUME NEW n \in Nodes, Apply(n) PROVE SettingsInv'
    <2>1. reading' \in [Nodes -> Docs \cup {Unset}] /\ reading[n] \in Docs
      BY <1>0, <1>5 DEF SettingsTypeOK, Apply
    <2>2. CASE Use(n, reading[n])  BY <2>1, <2>2, UseStep
    <2>3. CASE ~Use(n, reading[n])
      BY <1>0, <1>5, <1>a, <2>1, <2>3, NodeSteps DEF SettingsTypeOK, Apply
    <2> QED  BY <2>2, <2>3
  <1>6. ASSUME NEW n \in Nodes, PatchRefresh(n) PROVE SettingsInv'
    BY <1>0, <1>6, UseStep DEF SettingsTypeOK, PatchRefresh
  <1>7. ASSUME NEW n \in Nodes, NEW R \in SUBSET Services, PushFails(n, R) PROVE SettingsInv'
    <2>1. /\ reading[n] \in Docs /\ pushed' = Push(n, reading[n], R)
          /\ reading' \in [Nodes -> Docs \cup {Unset}]
          /\ seen' = seen /\ partial' = partial \cup {n}
          /\ UNCHANGED <<stored, lock, config, patch, patches, last, alone>>
      BY <1>0, <1>7 DEF SettingsTypeOK, PushFails, SeenAfterFailure
    <2>2. faults' \in 0..MaxFaults
      BY <1>0, <1>7, ControlAssumption
         DEF SettingsTypeOK, PushFails, Fault, ControlAssumption, SettingsAssumption
    <2>3. /\ pushed' \in [Nodes -> [Services -> [Settings -> Values]]]
          /\ \A m \in Nodes \ {n} : pushed'[m] = pushed[m]
      BY <1>0, <2>1, PushSays
    <2> QED  BY <1>0, <1>a, <2>1, <2>2, <2>3, NodeSteps DEF SettingsTypeOK
  <1>8. ASSUME NEW n \in Nodes, Restart(n) PROVE SettingsInv'
    <2>1. faults' \in 0..MaxFaults
      BY <1>0, <1>8, ControlAssumption
         DEF SettingsTypeOK, Restart, Fault, ControlAssumption, SettingsAssumption
    <2>2. /\ patch' \in [Patchers -> PatchRecs]
          /\ \A p \in Patchers : patch'[p] = patch[p] \/ patch'[p] = NoPatchYet
      BY <1>0, <1>8, SettingsConstants DEF SettingsTypes, Restart, NoPatchYet, PatchRecs
    <2>3. NoPatchYet.at = "end"  BY DEF NoPatchYet
    <2>4. /\ SettingsTypes'
      BY <1>0, <1>8, <2>1, <2>2, SettingsConstants DEF SettingsTypes, SettingsTypeOK, Restart
    <2>5. RuleKept' /\ ReadLater' /\ HeldAlone'
      BY <1>8, <2>2, <2>3 DEF SettingsInv, RuleKept, ReadLater, HeldAlone, PatchAt, Restart
    <2>6. \A m \in Nodes :
             /\ seen'[m] # Unset => config'[m] = Effective(seen'[m])
             /\ m \in partial' \/ \A s \in Services : pushed'[m][s] = config'[m]
      BY <1>0, <1>8, <1>a, SettingsConstants DEF SettingsTypeOK, Restart
    <2> QED  BY <1>8, <2>4, <2>5, <2>6
             DEF SettingsInv, PushedIsConfig, SettingsKept, EditsKept, SeenIsApplied, Restart
  <1>9. CASE UNCHANGED settingsVars
    BY <1>0, <1>9, <1>a, NodeSteps DEF settingsVars, SettingsTypeOK
  <1> QED  BY <1>1, <1>2, <1>3, <1>4, <1>5, <1>6, <1>7, <1>8, <1>9 DEF SettingsNext

\* Whatever patches race, with the lock or without it, the stored document keeps
\* the rule, no patch drops the edit of another it was not under way with, and
\* a node that takes itself to be up to date runs with what it read.
THEOREM SettingsCorrect == SettingsSpec => []SettingsKept
  <1>1. SettingsInv => SettingsKept  BY DEF SettingsInv
  <1> QED  BY <1>1, SettingsStart, SettingsStep, PTL DEF SettingsSpec

-----------------------------------------------------------------------------
(* BotAccounts                                                             *)

Writing == {"write", "list", "creds", "mark"}
PollRecs ==
    [at : Writing \cup {"off", "check", "ask", "load", "persist"}, bot : Bots \cup {Absent},
     rebind : BOOLEAN, status : Open \cup Ended, row : BotRows \cup {Absent},
     local : BOOLEAN, late : BOOLEAN]
EditRecs ==
    [op : {"none", "rename", "cursor", "status", "delete"},
     at : {"end", "write", "mark", "unmark", "row", "creds", "unlist"},
     bot : Bots \cup {Absent}, row : BotRows \cup {Absent}, to : 0..MaxCursor]

\* The type invariant, with logins and edits; what did not begin is idle.
BotTypes ==
    /\ BotTypeOK
    /\ poller \in [Logins -> PollRecs] /\ edit \in [Edits -> EditRecs]
    /\ \A s \in Logins : poller[s].at = "off" <=> poller[s].bot = Absent
    /\ \A s \in Logins : view[s] = "none" => poller[s].at = "off"
    /\ \A e \in Edits : edit[e].at = "end" <=> edit[e].bot = Absent
    /\ \A e \in Edits : e > edits => edit[e].bot = Absent

WritesAt(s, b) == poller[s].bot = b /\ poller[s].at \in Writing
\* A login that may still come to bind its bot, and makes it up.
Fresh(s, b) ==
    /\ poller[s].bot = b /\ ~poller[s].rebind
    /\ \/ poller[s].at \in {"check", "ask", "load"}
       \/ poller[s].at = "persist" /\ poller[s].status \notin {"confirmed", "error"}

\* What is said of a bot that nobody is at.
Agree(b) == RowsSafe(b) /\ (b \notin broken => RowsWhole(b))

\* No two writers are at the bot.
OneWriter(b) ==
    /\ \A s, t \in Logins : WritesAt(s, b) /\ WritesAt(t, b) => s = t
    /\ \A e, f \in Edits : edit[e].bot = b /\ edit[f].bot = b => e = f
    /\ \A s \in Logins, e \in Edits : ~(WritesAt(s, b) /\ edit[e].bot = b)

\* How far a login that binds the bot has got, and what it has left to do; of a
\* bot a writer broke off at, less is known.
PollStage(s, b) ==
    LET at == poller[s].at
        kept == poller[s].row
    IN  /\ at = "write" => Agree(b) /\ kept = botRow[b] /\ (kept = Absent => saved[b] = 0)
        /\ at \in {"list", "creds", "mark"} =>
              /\ botRow[b] = Upserted(kept) /\ Upserted(kept).cursor = saved[b]
              /\ RowsSafe(b)
              /\ b \notin broken => (b \in pollable <=> kept # Absent /\ kept.active)
        /\ at = "list" /\ b \notin broken => (b \in listed <=> kept # Absent)
        /\ at \in {"list", "creds"} /\ b \notin broken => (b \in creds <=> kept # Absent)
        /\ at \in {"creds", "mark"} => b \in listed
        /\ at = "mark" => b \in creds

\* How far a request that changes or deletes the bot has got.
EditStage(e, b) ==
    LET q == edit[e] IN
        /\ RowsSafe(b)
        /\ q.at = "write" =>
              /\ Agree(b) /\ botRow[b] # Absent /\ q.row \in BotRows /\ q.op # "delete"
              /\ q.op # "status" => q.row.active = botRow[b].active
              /\ q.row.cursor = IF q.op = "cursor" THEN q.to ELSE saved[b]
        /\ q.at \in {"mark", "unmark", "row"} =>
              /\ botRow[b] # Absent
              /\ b \notin broken => b \in listed /\ b \in creds
        /\ q.at = "mark" => q.op = "status" /\ botRow[b].active /\ b \in creds
        /\ q.at = "unmark" =>
              \/ q.op = "delete" /\ Agree(b)
              \/ q.op = "status" /\ (b \notin broken => ~botRow[b].active)
        /\ q.at = "row" => q.op = "delete" /\ b \notin pollable
        /\ q.at \in {"creds", "unlist"} =>
              /\ q.op = "delete" /\ botRow[b] = Absent /\ b \notin pollable
              /\ b \notin broken => b \in listed
        /\ q.at = "creds" => (b \notin broken => b \in creds)
        /\ q.at = "unlist" => b \notin creds

\* The bots that no two writers were at.
BotInv(b) ==
    /\ OneWriter(b)
    /\ ~BusyWith(b) => Agree(b)
    /\ \A s \in Logins : WritesAt(s, b) => PollStage(s, b)
    /\ \A e \in Edits : edit[e].bot = b => EditStage(e, b)
    /\ \A s \in Logins : Fresh(s, b) => /\ botRow[b] = Absent /\ saved[b] = 0
                                        /\ \A t \in Logins : poller[t].bot = b => t = s

\* A cancelled login, with what its poller is about to write.
CancelHeld ==
    \A s \in heeded : /\ view[s] \in {"cancelled", "expired", Absent}
                      /\ poller[s].at \in {"off", "check", "persist"}
                      /\ poller[s].at = "persist" => poller[s].status = "expired"
                      /\ poller[s].at = "check" => view[s] = "cancelled"

RowsInv == \A b \in Bots \ mixed : BotInv(b)
BotsInv == BotTypes /\ CancelHeld /\ RowsInv

LEMMA BotConstants ==
    /\ Absent \notin Bots /\ Absent \notin Open /\ Absent \notin Ended /\ Absent # "none" /\ Absent \notin BotRows
    /\ MaxEdits \in Nat /\ MaxCursor \in Nat
  BY ControlAssumption DEF ControlAssumption, BotAccountsAssumption

LEMMA BotStart == BotInit => BotsInv
  <1> SUFFICES ASSUME BotInit PROVE BotsInv
    OBVIOUS
  <1>1. /\ NoPoll \in PollRecs /\ NoPoll.at = "off" /\ NoPoll.bot = Absent
        /\ NoEdit \in EditRecs /\ NoEdit.at = "end" /\ NoEdit.bot = Absent
    BY BotConstants DEF NoPoll, NoEdit, PollRecs, EditRecs, Open, Writing
  <1>2. /\ \A s \in Logins : poller[s] = NoPoll
        /\ \A e \in Edits : edit[e] = NoEdit
    BY DEF BotInit
  <1>3. [active |-> TRUE, cursor |-> 0] \in BotRows
    BY BotConstants DEF BotRows
  <1>4. BotTypeOK
    BY <1>1, <1>2, <1>3, BotConstants DEF BotInit, BotTypeOK, PollRecs
  <1>5. BotTypes
    BY <1>1, <1>2, <1>4 DEF BotInit, BotTypes
  <1>6. CancelHeld  BY DEF BotInit, CancelHeld
  <1>7. ASSUME NEW b \in Bots PROVE BotInv(b)
    <2>1. Agree(b)  BY <1>3, BotConstants DEF BotInit, Agree, RowsSafe, RowsWhole
    <2> QED  BY <1>1, <1>2, <2>1, BotConstants DEF BotInv, OneWriter, WritesAt, Fresh
  <1> QED  BY <1>5, <1>6, <1>7 DEF BotsInv, RowsInv

LEMMA PollIdle == NoPoll \in PollRecs /\ NoPoll.at = "off" /\ NoPoll.bot = Absent /\ NoPoll.row = Absent
  BY BotConstants DEF NoPoll, PollRecs, Open, Writing

LEMMA EditIdle == NoEdit \in EditRecs /\ NoEdit.at = "end" /\ NoEdit.bot = Absent
  BY BotConstants DEF NoEdit, EditRecs

\* A step that moves one poll loop, and only to a state of a poll loop.
LEMMA PollTypes ==
    ASSUME BotTypes, NEW s \in Logins, NEW r \in PollRecs,
           poller' = [poller EXCEPT ![s] = r], r.at = "off" <=> r.bot = Absent,
           edit' = edit, edits' = edits,
           botRow' \in [Bots -> BotRows \cup {Absent}], saved' = saved,
           creds' \subseteq Bots, pollable' \subseteq Bots, listed' \subseteq Bots,
           view' \in [Logins -> Open \cup Ended \cup {"none", Absent}],
           heeded' \subseteq Logins, mixed' \subseteq Bots, broken' \subseteq Bots,
           \A t \in Logins : view'[t] = "none" => poller'[t].at = "off"
    PROVE  BotTypes'
  <1>1. poller' \in [Logins -> PollRecs]  BY DEF BotTypes
  <1>2. \A t \in Logins : poller'[t].at = "off" <=> poller'[t].bot = Absent
    BY DEF BotTypes
  <1>3. \A t \in Logins : poller'[t].row \in BotRows \cup {Absent}
    BY <1>1 DEF PollRecs
  <1>4. BotTypeOK'  BY <1>3 DEF BotTypes, BotTypeOK
  <1> QED  BY <1>1, <1>2, <1>4 DEF BotTypes

\* A step that leaves everything at a bot as it is keeps what is said of the bot.
LEMMA BotFrame ==
    ASSUME BotTypes, NEW b \in Bots, BotInv(b),
           botRow'[b] = botRow[b], saved'[b] = saved[b],
           b \in creds' <=> b \in creds, b \in listed' <=> b \in listed,
           b \in pollable' <=> b \in pollable, b \in broken' <=> b \in broken,
           \A e \in Edits : edit'[e].bot = b <=> edit[e].bot = b,
           \A e \in Edits : edit[e].bot = b => edit'[e] = edit[e],
           \A s \in Logins : poller'[s].bot = b => poller[s].bot = b,
           \A s \in Logins : WritesAt(s, b)' <=> WritesAt(s, b),
           \A s \in Logins : WritesAt(s, b) =>
               poller'[s].at = poller[s].at /\ poller'[s].row = poller[s].row,
           \A s \in Logins : Fresh(s, b)' => Fresh(s, b)
    PROVE  BotInv(b)'
  <1>1. /\ Agree(b)' <=> Agree(b)
        /\ RowsSafe(b)' <=> RowsSafe(b)
    BY DEF Agree, RowsSafe, RowsWhole
  <1>2. OneWriter(b)'  BY DEF BotInv, OneWriter
  <1>3. BusyWith(b)' <=> BusyWith(b)  BY DEF BusyWith, WritesAt, Writing
  <1>4. ASSUME NEW s \in Logins, WritesAt(s, b)' PROVE PollStage(s, b)'
    <2>1. WritesAt(s, b) /\ PollStage(s, b)  BY <1>4 DEF BotInv
    <2> QED  BY <2>1, <1>1 DEF PollStage
  <1>5. ASSUME NEW e \in Edits, edit'[e].bot = b PROVE EditStage(e, b)'
    <2>1. edit[e].bot = b /\ edit'[e] = edit[e] /\ EditStage(e, b)  BY <1>5 DEF BotInv
    <2> QED  BY <2>1, <1>1 DEF EditStage
  <1>6. ASSUME NEW s \in Logins, Fresh(s, b)'
        PROVE  /\ botRow'[b] = Absent /\ saved'[b] = 0
               /\ \A t \in Logins : poller'[t].bot = b => t = s
    BY <1>6 DEF BotInv
  <1> QED  BY <1>1, <1>2, <1>3, <1>4, <1>5, <1>6 DEF BotInv

\* The same for a step of one poll loop that is about to write nothing, or goes
\* on with what it writes.
LEMMA QuietPoll ==
    ASSUME BotTypes, RowsInv, NEW s \in Logins, NEW r \in PollRecs,
           poller' = [poller EXCEPT ![s] = r],
           UNCHANGED <<Rows, edit, mixed>>,
           r.bot = poller[s].bot \/ r.bot = Absent,
           r.at \in Writing <=> poller[s].at \in Writing,
           r.at \in Writing => r.at = poller[s].at /\ r.row = poller[s].row /\ r.bot = poller[s].bot,
           \A b \in Bots : Fresh(s, b)' => Fresh(s, b)
    PROVE  RowsInv'
  <1>1. ASSUME NEW b \in Bots, BotInv(b) PROVE BotInv(b)'
    <2>1. /\ \A t \in Logins \ {s} : poller'[t] = poller[t]
          /\ poller'[s] = r
      BY DEF BotTypes
    <2>2. b # Absent  BY BotConstants
    <2>3. \A t \in Logins : /\ poller'[t].bot = b => poller[t].bot = b
                            /\ WritesAt(t, b)' <=> WritesAt(t, b)
                            /\ WritesAt(t, b) => /\ poller'[t].at = poller[t].at
                                                 /\ poller'[t].row = poller[t].row
      BY <2>1, <2>2 DEF WritesAt
    <2>4. \A t \in Logins : Fresh(t, b)' => Fresh(t, b)
      BY <2>1 DEF Fresh
    <2> QED  BY <1>1, <2>3, <2>4, BotFrame DEF Rows
  <1> QED  BY <1>1 DEF RowsInv

\* A login is cancelled for good as long as its own poller and view move as here.
LEMMA CancelFrame ==
    ASSUME CancelHeld, NEW s \in Logins,
           heeded' \subseteq heeded \cup {s},
           \A t \in Logins \ {s} : poller'[t] = poller[t] /\ view'[t] = view[t],
           heeded \subseteq Logins,
           s \in heeded' => /\ view'[s] \in {"cancelled", "expired", Absent}
                            /\ poller'[s].at \in {"off", "check", "persist"}
                            /\ poller'[s].at = "persist" => poller'[s].status = "expired"
                            /\ poller'[s].at = "check" => view'[s] = "cancelled"
    PROVE  CancelHeld'
  BY DEF CancelHeld

LEMMA PollQuietly ==
    ASSUME BotsInv, NEW s \in Logins,
           \/ CheckView(s) \/ CheckFails(s) \/ Persist(s) \/ Deadline(s)
           \/ (BotFails(s) \/ PollerDies(s)) /\ poller[s].at \notin Writing
           \/ \E reply \in {"wait_scan", "scanned", "expired", "error", "network", "token"} :
                  Answer(s, reply)
    PROVE  BotsInv'
  <1>0. /\ BotTypes /\ CancelHeld /\ RowsInv
        /\ poller[s] \in PollRecs /\ heeded \subseteq Logins
    BY DEF BotsInv, BotTypes, BotTypeOK
  <1>a. ASSUME NEW r \in PollRecs, poller' = [poller EXCEPT ![s] = r],
               UNCHANGED <<Rows, edit, edits, mixed>>, heeded' \subseteq heeded,
               r.at = "off" <=> r.bot = Absent,
               r.bot = poller[s].bot \/ r.bot = Absent,
               r.at \in Writing <=> poller[s].at \in Writing,
               r.at \in Writing => r.at = poller[s].at /\ r.row = poller[s].row /\ r.bot = poller[s].bot,
               \A b \in Bots : Fresh(s, b)' => Fresh(s, b),
               view' \in [Logins -> Open \cup Ended \cup {"none", Absent}],
               view'[s] # "none" \/ r.at = "off",
               \A t \in Logins \ {s} : view'[t] = view[t],
               s \in heeded' => /\ view'[s] \in {"cancelled", "expired", Absent}
                                /\ r.at \in {"off", "check", "persist"}
                                /\ r.at = "persist" => r.status = "expired"
                                /\ r.at = "check" => view'[s] = "cancelled"
        PROVE  BotsInv'
    <2>1. poller'[s] = r /\ \A t \in Logins \ {s} : poller'[t] = poller[t]
      BY <1>0, <1>a DEF BotTypes
    <2>2. BotTypes'
      <3>1. \A t \in Logins : view'[t] = "none" => poller'[t].at = "off"
        BY <1>0, <1>a, <2>1 DEF BotTypes
      <3> QED  BY <1>0, <1>a, <3>1, PollTypes DEF BotTypes, BotTypeOK, Rows
    <2>3. RowsInv'  BY <1>0, <1>a, QuietPoll
    <2>4. CancelHeld'  BY <1>0, <1>a, <2>1, CancelFrame
    <2> QED  BY <2>2, <2>3, <2>4 DEF BotsInv
  <1>1. CASE CheckView(s)
    <2>1. CASE LoopOver(s)
      <3> DEFINE r == [poller[s] EXCEPT !.at = "persist", !.status = "expired"]
      <3>1. r \in PollRecs /\ r.at = "persist" /\ r.status = "expired" /\ r.bot = poller[s].bot
            /\ r.rebind = poller[s].rebind
        BY <1>0 DEF PollRecs, Ended
      <3>2. poller' = [poller EXCEPT ![s] = r]  BY <1>1, <2>1 DEF CheckView
      <3>3. poller'[s] = r  BY <1>0, <3>2 DEF BotTypes
      <3>4. \A b \in Bots : Fresh(s, b)' => Fresh(s, b)
        BY <1>1, <3>1, <3>3 DEF Fresh, CheckView, PollerAt
      <3> HIDE DEF r
      <3> QED  BY <1>0, <1>1, <1>a, <3>1, <3>2, <3>4
               DEF CheckView, PollerAt, NoEdits, BotTypes, BotTypeOK, Writing, CancelHeld
    <2>2. CASE ~LoopOver(s) /\ GoesOn(s)
      <3> DEFINE r == [poller[s] EXCEPT !.at = "ask"]
      <3>1. r \in PollRecs /\ r.at = "ask" /\ r.bot = poller[s].bot /\ r.rebind = poller[s].rebind
        BY <1>0 DEF PollRecs
      <3>2. poller' = [poller EXCEPT ![s] = r]  BY <1>1, <2>2 DEF CheckView
      <3>3. poller'[s] = r  BY <1>0, <3>2 DEF BotTypes
      <3>4. \A b \in Bots : Fresh(s, b)' => Fresh(s, b)
        BY <1>1, <3>1, <3>3 DEF Fresh, CheckView, PollerAt
      <3> HIDE DEF r
      <3> QED  BY <1>0, <1>1, <2>2, <1>a, <3>1, <3>2, <3>4
               DEF CheckView, PollerAt, GoesOn, NoEdits, BotTypes, BotTypeOK, Writing, CancelHeld
    <2>3. CASE ~LoopOver(s) /\ ~GoesOn(s)
      <3>1. poller' = [poller EXCEPT ![s] = NoPoll]  BY <1>1, <2>3 DEF CheckView
      <3>2. poller'[s] = NoPoll  BY <1>0, <3>1 DEF BotTypes
      <3>3. \A b \in Bots : Fresh(s, b)' => Fresh(s, b)
        BY <3>2, PollIdle, BotConstants DEF Fresh
      <3> QED  BY <1>0, <1>1, <1>a, <3>1, <3>3, PollIdle
               DEF CheckView, PollerAt, NoEdits, BotTypes, BotTypeOK, Writing, CancelHeld
    <2> QED  BY <2>1, <2>2, <2>3
  <1>2. CASE Persist(s)
    <2>0. /\ poller[s].at = "persist"
          /\ view' \in {view, [view EXCEPT ![s] = poller[s].status]}
          /\ UNCHANGED <<Rows, edit, edits, mixed, heeded>>
      BY <1>2 DEF Persist, PollerAt, NoEdits
    <2>1. /\ view' \in [Logins -> Open \cup Ended \cup {"none", Absent}]
          /\ view'[s] \in {view[s], poller[s].status} /\ view'[s] # "none"
          /\ \A t \in Logins \ {s} : view'[t] = view[t]
      BY <1>0, <2>0, BotConstants DEF BotTypes, BotTypeOK, PollRecs, Open, Ended
    <2>2. CASE poller[s].status \notin Ended \ {"cancelled"} /\ PollTo(s, "check")
      <3> DEFINE r == [poller[s] EXCEPT !.at = "check"]
      <3>1. r \in PollRecs /\ r.at = "check" /\ r.bot = poller[s].bot /\ r.rebind = poller[s].rebind
        BY <1>0 DEF PollRecs
      <3>2. poller' = [poller EXCEPT ![s] = r]  BY <2>2 DEF PollTo
      <3>3. poller'[s] = r  BY <1>0, <3>2 DEF BotTypes
      <3>4. poller[s].status \notin {"confirmed", "expired", "error"}
        BY <2>2 DEF Ended
      <3>5. \A b \in Bots : Fresh(s, b)' => Fresh(s, b)
        BY <2>0, <3>1, <3>3, <3>4 DEF Fresh
      <3>6. s \notin heeded  BY <1>0, <2>0, <3>4 DEF CancelHeld
      <3>7. r.at = "off" <=> r.bot = Absent  BY <1>0, <2>0, <3>1 DEF BotTypes
      <3> HIDE DEF r
      <3> QED  BY <1>a, <2>0, <2>1, <3>1, <3>2, <3>5, <3>6, <3>7 DEF Writing
    <2>3. CASE poller' = [poller EXCEPT ![s] = NoPoll]
      <3>1. poller'[s] = NoPoll  BY <1>0, <2>3 DEF BotTypes
      <3>2. \A b \in Bots : Fresh(s, b)' => Fresh(s, b)
        BY <3>1, PollIdle, BotConstants DEF Fresh
      <3>3. s \in heeded => view'[s] \in {"cancelled", "expired", Absent}
        BY <1>0, <2>0, <2>1 DEF CancelHeld
      <3> QED  BY <1>a, <2>0, <2>1, <2>3, <3>2, <3>3, PollIdle DEF Writing
    <2> QED  BY <1>2, <2>2, <2>3 DEF Persist
  <1>3. CASE Deadline(s)
    <2> DEFINE r == [poller[s] EXCEPT !.late = TRUE]
    <2>1. r \in PollRecs /\ r.at = poller[s].at /\ r.bot = poller[s].bot
          /\ r.rebind = poller[s].rebind /\ r.status = poller[s].status /\ r.row = poller[s].row
      BY <1>0 DEF PollRecs
    <2>2. poller' = [poller EXCEPT ![s] = r]  BY <1>3 DEF Deadline
    <2>3. poller'[s] = r  BY <1>0, <2>2 DEF BotTypes
    <2>4. \A b \in Bots : Fresh(s, b)' => Fresh(s, b)  BY <2>1, <2>3 DEF Fresh
    <2> HIDE DEF r
    <2>5. /\ UNCHANGED <<Rows, view, edit, edits, mixed, heeded>>
          /\ poller[s].at # "off"
      BY <1>3 DEF Deadline, NoEdits
    <2>6. s \in heeded => /\ view'[s] \in {"cancelled", "expired", Absent}
                          /\ r.at \in {"off", "check", "persist"}
                          /\ r.at = "persist" => r.status = "expired"
                          /\ r.at = "check" => view'[s] = "cancelled"
      BY <1>0, <2>1, <2>5 DEF CancelHeld
    <2>7. /\ view' \in [Logins -> Open \cup Ended \cup {"none", Absent}]
          /\ r.at = "off" <=> r.bot = Absent
          /\ view'[s] # "none"
      BY <1>0, <2>1, <2>5 DEF BotTypes, BotTypeOK
    <2> QED  BY <1>a, <2>1, <2>2, <2>4, <2>5, <2>6, <2>7
  <1>4. CASE PollerDies(s) /\ poller[s].at \notin Writing
    <2>1. poller' = [poller EXCEPT ![s] = NoPoll]  BY <1>4 DEF PollerDies
    <2>2. poller'[s] = NoPoll  BY <1>0, <2>1 DEF BotTypes
    <2>3. \A b \in Bots : Fresh(s, b)' => Fresh(s, b)
      BY <2>2, PollIdle, BotConstants DEF Fresh
    <2>4. UNCHANGED <<Rows, view, edit, edits, mixed, heeded>>
      BY <1>4 DEF PollerDies, NoEdits, BreaksOff, Half, Writing, Rows
    <2> QED  BY <1>0, <1>4, <1>a, <2>1, <2>3, <2>4, PollIdle
             DEF PollerDies, PollerAt, BotTypes, BotTypeOK, Writing, CancelHeld
  <1>6. CASE BotFails(s) /\ poller[s].at \notin Writing
    <2> DEFINE r == [poller[s] EXCEPT !.at = "persist", !.status = "error", !.row = Absent]
    <2>1. r \in PollRecs /\ r.at = "persist" /\ r.status = "error" /\ r.bot = poller[s].bot
      BY <1>0 DEF PollRecs, Ended
    <2>2. poller' = [poller EXCEPT ![s] = r]  BY <1>6 DEF BotFails
    <2>3. poller'[s] = r  BY <1>0, <2>2 DEF BotTypes
    <2>4. \A b \in Bots : Fresh(s, b)' => Fresh(s, b)  BY <2>1, <2>3 DEF Fresh
    <2>5. /\ UNCHANGED <<Rows, view, edit, edits, mixed, heeded>>
          /\ poller[s].at = "load" /\ s \notin heeded
      BY <1>0, <1>6 DEF BotFails, NoEdits, BreaksOff, Half, Writing, Rows, CancelHeld
    <2> HIDE DEF r
    <2> QED  BY <1>0, <1>a, <2>1, <2>2, <2>4, <2>5 DEF BotTypes, BotTypeOK, Writing
  <1>7. CASE CheckFails(s)
    <2> DEFINE r == [poller[s] EXCEPT !.at = "ask"]
    <2>1. r \in PollRecs /\ r.at = "ask" /\ r.bot = poller[s].bot /\ r.rebind = poller[s].rebind
      BY <1>0 DEF PollRecs
    <2>2. poller' = [poller EXCEPT ![s] = r]  BY <1>7 DEF CheckFails, PollTo
    <2>3. poller'[s] = r  BY <1>0, <2>2 DEF BotTypes
    <2>4. /\ UNCHANGED <<Rows, view, edit, edits, mixed>>
          /\ poller[s].at = "check" /\ heeded' = heeded \ {s}
      BY <1>7 DEF CheckFails, PollerAt, NoEdits
    <2>5. \A b \in Bots : Fresh(s, b)' => Fresh(s, b)  BY <2>1, <2>3, <2>4 DEF Fresh
    <2> HIDE DEF r
    <2> QED  BY <1>0, <1>a, <2>1, <2>2, <2>4, <2>5 DEF BotTypes, BotTypeOK, Writing
  <1>5. ASSUME NEW reply \in {"wait_scan", "scanned", "expired", "error", "network", "token"},
               Answer(s, reply)
        PROVE  BotsInv'
    <2>0. /\ poller[s].at = "ask" /\ s \notin heeded
          /\ UNCHANGED <<Rows, view, edit, edits, mixed, heeded>>
      BY <1>0, <1>5 DEF Answer, PollerAt, NoEdits, CancelHeld
    <2>1. PICK r \in PollRecs : /\ poller' = [poller EXCEPT ![s] = r] /\ r.at \in {"load", "persist"}
                                /\ r.bot = poller[s].bot /\ r.rebind = poller[s].rebind
      <3>1. CASE reply = "token"
        <4> DEFINE r == [poller[s] EXCEPT !.at = "load"]
        <4>1. r \in PollRecs /\ r.at = "load" /\ r.bot = poller[s].bot /\ r.rebind = poller[s].rebind
          BY <1>0 DEF PollRecs
        <4> QED  BY <1>5, <3>1, <4>1 DEF Answer, PollTo
      <3>2. CASE reply = "network"
        <4> DEFINE r == [poller[s] EXCEPT !.at = "persist"]
        <4>1. r \in PollRecs /\ r.at = "persist" /\ r.bot = poller[s].bot /\ r.rebind = poller[s].rebind
          BY <1>0 DEF PollRecs
        <4> QED  BY <1>5, <3>2, <4>1 DEF Answer, PollTo
      <3>3. CASE reply \in {"wait_scan", "scanned", "expired", "error"}
        <4> DEFINE r == [poller[s] EXCEPT !.at = "persist", !.status = reply]
        <4>1. r \in PollRecs /\ r.at = "persist" /\ r.bot = poller[s].bot /\ r.rebind = poller[s].rebind
          BY <1>0, <3>3 DEF PollRecs, Open, Ended
        <4>2. poller' = [poller EXCEPT ![s] = r]  BY <1>5, <3>3 DEF Answer
        <4> QED  BY <4>1, <4>2
      <3> QED  BY <3>1, <3>2, <3>3
    <2>2. poller'[s] = r  BY <1>0, <2>1 DEF BotTypes
    <2>3. \A b \in Bots : Fresh(s, b)' => Fresh(s, b)  BY <2>0, <2>1, <2>2 DEF Fresh
    <2> QED  BY <1>0, <1>a, <2>0, <2>1, <2>3 DEF BotTypes, BotTypeOK, Writing
  <1> QED  BY <1>1, <1>2, <1>3, <1>4, <1>5, <1>6, <1>7

LEMMA LoginStarts ==
    ASSUME BotsInv, NEW s \in Logins, NEW c \in Bots, NEW rebind \in BOOLEAN,
           StartLogin(s, c, rebind)
    PROVE  BotsInv'
  <1> DEFINE r == [NoPoll EXCEPT !.at = "check", !.bot = c, !.rebind = rebind]
  <1>0. /\ BotTypes /\ CancelHeld /\ RowsInv
        /\ poller[s].at = "off" /\ poller[s].bot = Absent /\ view[s] = "none"
    BY DEF BotsInv, BotTypes, StartLogin
  <1>1. /\ r \in PollRecs /\ r.at = "check" /\ r.bot = c /\ r.rebind = rebind /\ c # Absent
    BY PollIdle, BotConstants DEF PollRecs, NoPoll
  <1>2. /\ poller' = [poller EXCEPT ![s] = r] /\ view' = [view EXCEPT ![s] = "wait_scan"]
        /\ UNCHANGED <<Rows, edit, edits, mixed, heeded>>
    BY DEF StartLogin, NoEdits
  <1> HIDE DEF r
  <1>3. /\ poller'[s] = r /\ \A t \in Logins \ {s} : poller'[t] = poller[t]
        /\ view'[s] = "wait_scan" /\ \A t \in Logins \ {s} : view'[t] = view[t]
        /\ view' \in [Logins -> Open \cup Ended \cup {"none", Absent}]
    BY <1>0, <1>2 DEF BotTypes, BotTypeOK, Open
  <1>4. BotTypes'
    <2>1. \A t \in Logins : view'[t] = "none" => poller'[t].at = "off"
      BY <1>0, <1>3 DEF BotTypes
    <2> QED  BY <1>0, <1>1, <1>2, <1>3, <2>1, PollTypes DEF BotTypes, BotTypeOK, Rows
  <1>5. CancelHeld'
    <2>1. s \notin heeded  BY <1>0, BotConstants DEF CancelHeld
    <2>2. heeded \subseteq Logins  BY <1>0 DEF BotTypes, BotTypeOK
    <2> QED  BY <1>0, <1>2, <1>3, <2>1, <2>2, CancelFrame
  <1>6. ASSUME NEW b \in Bots, BotInv(b) PROVE BotInv(b)'
    <2>1. \A t \in Logins : /\ WritesAt(t, b)' <=> WritesAt(t, b)
                            /\ WritesAt(t, b) => poller'[t] = poller[t]
      BY <1>0, <1>1, <1>3, BotConstants DEF WritesAt, Writing
    <2>2. CASE b # c \/ rebind
      <3>1. \A t \in Logins : Fresh(t, b)' => Fresh(t, b)
        BY <1>1, <1>3, <2>2 DEF Fresh
      <3>2. CASE b # c
        <4>1. \A t \in Logins : poller'[t].bot = b => poller[t].bot = b
          BY <1>1, <1>3, <3>2
        <4> QED  BY <1>0, <1>2, <1>6, <2>1, <3>1, <4>1, BotFrame DEF Rows
      <3>3. CASE b = c /\ rebind
        <4>1. botRow[b] # Absent  BY <3>3 DEF StartLogin
        <4>2. \A t \in Logins : ~Fresh(t, b)  BY <1>6, <4>1 DEF BotInv
        <4>3. /\ (Agree(b)' <=> Agree(b)) /\ (RowsSafe(b)' <=> RowsSafe(b))
              /\ BusyWith(b)' <=> BusyWith(b)
          BY <1>2, <2>1 DEF Agree, RowsSafe, RowsWhole, BusyWith, WritesAt, Writing, Rows
        <4>4. OneWriter(b)'  BY <1>2, <1>6, <2>1 DEF OneWriter, BotInv
        <4>5. \A t \in Logins : WritesAt(t, b)' => PollStage(t, b)'
          BY <1>2, <1>6, <2>1, <4>3 DEF PollStage, BotInv, Rows
        <4>6. \A e \in Edits : edit'[e].bot = b => EditStage(e, b)'
          BY <1>2, <1>6, <4>3 DEF EditStage, BotInv, Rows
        <4> QED  BY <1>6, <3>1, <4>2, <4>3, <4>4, <4>5, <4>6 DEF BotInv
      <3> QED  BY <2>2, <3>2, <3>3
    <2>3. CASE b = c /\ ~rebind
      <3>1. /\ botRow[b] = Absent /\ saved[b] = 0 /\ \A t \in Logins : poller[t].bot # b
        BY <2>3 DEF StartLogin
      <3>2. /\ (Agree(b)' <=> Agree(b)) /\ (RowsSafe(b)' <=> RowsSafe(b))
            /\ BusyWith(b)' <=> BusyWith(b)
        BY <1>2, <2>1 DEF Agree, RowsSafe, RowsWhole, BusyWith, WritesAt, Writing, Rows
      <3>3. OneWriter(b)'  BY <1>2, <1>6, <2>1 DEF OneWriter, BotInv
      <3>4. \A t \in Logins : WritesAt(t, b)' => PollStage(t, b)'
        BY <1>2, <1>6, <2>1, <3>2 DEF PollStage, BotInv, Rows
      <3>5. \A e \in Edits : edit'[e].bot = b => EditStage(e, b)'
        BY <1>2, <1>6, <3>2 DEF EditStage, BotInv, Rows
      <3>6. \A t \in Logins : poller'[t].bot = b => t = s  BY <1>3, <3>1
      <3> QED  BY <1>2, <1>6, <3>1, <3>2, <3>3, <3>4, <3>5, <3>6 DEF BotInv, Rows, Fresh
    <2> QED  BY <2>2, <2>3
  <1> QED  BY <1>0, <1>2, <1>4, <1>5, <1>6 DEF BotsInv, RowsInv

\* A cancellation stops no write that is under way.
LEMMA LoginCancelled ==
    ASSUME BotsInv, NEW s \in Logins, NEW local \in BOOLEAN, Cancel(s, local)
    PROVE  BotsInv'
  <1> DEFINE r == [poller[s] EXCEPT
                     !.local = @ \/ (local /\ poller[s].at # "off"),
                     !.status = IF local /\ poller[s].at # "persist" THEN "cancelled" ELSE @]
  <1>0. /\ BotTypes /\ CancelHeld /\ RowsInv
        /\ poller[s] \in PollRecs /\ heeded \subseteq Logins
    BY DEF BotsInv, BotTypes, BotTypeOK
  <1>1. /\ r \in PollRecs /\ r.at = poller[s].at /\ r.bot = poller[s].bot
        /\ r.rebind = poller[s].rebind /\ r.row = poller[s].row
        /\ r.at = "persist" => r.status = poller[s].status
    BY <1>0 DEF PollRecs, Ended
  <1>2. /\ poller' = [poller EXCEPT ![s] = r] /\ view' = [view EXCEPT ![s] = "cancelled"]
        /\ UNCHANGED <<Rows, edit, edits, mixed>>
        /\ heeded' \subseteq heeded \cup {s} /\ heeded \subseteq heeded'
        /\ s \in heeded' => s \in heeded \/ poller[s].at = "check"
        /\ view[s] \in Open
    BY DEF Cancel, NoEdits, PollerAt
  <1> HIDE DEF r
  <1>3. /\ poller'[s] = r /\ \A t \in Logins \ {s} : poller'[t] = poller[t]
        /\ view'[s] = "cancelled" /\ \A t \in Logins \ {s} : view'[t] = view[t]
        /\ view' \in [Logins -> Open \cup Ended \cup {"none", Absent}]
    BY <1>0, <1>2 DEF BotTypes, BotTypeOK, Ended
  <1>4. BotTypes'
    <2>1. \A t \in Logins : view'[t] = "none" => poller'[t].at = "off"
      BY <1>0, <1>3 DEF BotTypes
    <2>2. r.at = "off" <=> r.bot = Absent  BY <1>0, <1>1 DEF BotTypes
    <2>3. heeded' \subseteq Logins  BY <1>0, <1>2
    <2> QED  BY <1>0, <1>1, <1>2, <1>3, <2>1, <2>2, <2>3, PollTypes DEF BotTypes, BotTypeOK, Rows
  <1>5. CancelHeld'
    <2>1. s \notin heeded  BY <1>0, <1>2, BotConstants DEF CancelHeld, Open
    <2>2. s \in heeded' => r.at = "check"  BY <1>1, <1>2, <2>1
    <2> QED  BY <1>0, <1>2, <1>3, <2>2, CancelFrame
  <1>6. \A b \in Bots : Fresh(s, b)' => Fresh(s, b)  BY <1>1, <1>3 DEF Fresh
  <1>7. RowsInv'  BY <1>0, <1>1, <1>2, <1>6, QuietPoll
  <1> QED  BY <1>4, <1>5, <1>7 DEF BotsInv

LEMMA ViewGoes ==
    ASSUME BotsInv, NEW s \in Logins, ViewExpires(s)
    PROVE  BotsInv'
  <1>0. /\ BotTypes /\ CancelHeld /\ RowsInv
        /\ view' = [view EXCEPT ![s] = Absent] /\ poller[s].at = "off"
        /\ UNCHANGED <<Rows, poller, heeded, mixed, edit, edits>>
    BY DEF BotsInv, ViewExpires, NoEdits, PollerAt
  <1>1. view' \in [Logins -> Open \cup Ended \cup {"none", Absent}]
        /\ view'[s] = Absent /\ \A t \in Logins \ {s} : view'[t] = view[t]
    BY <1>0 DEF BotTypes, BotTypeOK
  <1>2. BotTypes'
    <2>1. \A t \in Logins : view'[t] = "none" => poller'[t].at = "off"
      BY <1>0, <1>1, BotConstants DEF BotTypes
    <2>2. BotTypeOK'  BY <1>0, <1>1 DEF BotTypes, BotTypeOK, Rows
    <2> QED  BY <1>0, <2>1, <2>2 DEF BotTypes
  <1>3. CancelHeld'  BY <1>0, <1>1 DEF CancelHeld, BotTypes, BotTypeOK
  <1>4. RowsInv'
    <2>1. ASSUME NEW b \in Bots, BotInv(b) PROVE BotInv(b)'
      BY <1>0, <2>1, BotFrame DEF Rows, WritesAt, Fresh
    <2> QED  BY <1>0, <2>1 DEF RowsInv
  <1> QED  BY <1>2, <1>3, <1>4 DEF BotsInv

\* What a login writes of its bot leaves the other bots as they are.
LEMMA OtherBots ==
    ASSUME BotTypes, NEW s \in Logins, NEW r \in PollRecs,
           poller' = [poller EXCEPT ![s] = r], r.bot = poller[s].bot, edit' = edit,
           NEW b \in Bots, b # poller[s].bot, BotInv(b),
           botRow'[b] = botRow[b], saved'[b] = saved[b],
           b \in creds' <=> b \in creds, b \in listed' <=> b \in listed,
           b \in pollable' <=> b \in pollable, b \in broken' <=> b \in broken
    PROVE  BotInv(b)'
  <1>1. /\ poller'[s] = r /\ \A t \in Logins \ {s} : poller'[t] = poller[t]
    BY DEF BotTypes
  <1>2. \A t \in Logins : /\ poller'[t].bot = b => poller[t].bot = b
                          /\ WritesAt(t, b)' <=> WritesAt(t, b)
                          /\ WritesAt(t, b) => poller'[t] = poller[t]
                          /\ Fresh(t, b)' => Fresh(t, b)
    BY <1>1 DEF WritesAt, Fresh
  <1> QED  BY <1>2, BotFrame

\* What it writes of its own bot has to reach the next stage, or to complete it.
LEMMA OwnBot ==
    ASSUME BotTypes, NEW s \in Logins, NEW r \in PollRecs,
           poller' = [poller EXCEPT ![s] = r], r.bot = poller[s].bot, edit' = edit,
           NEW b \in Bots, b = poller[s].bot, BotInv(b),
           poller[s].at \in Writing,
           \/ r.at \in Writing /\ PollStage(s, b)'
           \/ r.at = "persist" /\ r.status \in {"confirmed", "error"} /\ Agree(b)'
    PROVE  BotInv(b)'
  <1>1. /\ poller'[s] = r /\ \A t \in Logins \ {s} : poller'[t] = poller[t]
    BY DEF BotTypes
  <1>2. /\ \A t \in Logins \ {s} : ~WritesAt(t, b)
        /\ \A e \in Edits : edit[e].bot # b
    BY DEF BotInv, OneWriter, WritesAt
  <1>3. \A t \in Logins : WritesAt(t, b)' => t = s /\ r.at \in Writing
    BY <1>1, <1>2 DEF WritesAt
  <1>4. \A t \in Logins : ~Fresh(t, b)'
    BY <1>1 DEF BotInv, Fresh, Writing
  <1>5. ~BusyWith(b)' => Agree(b)'
    BY <1>1 DEF BusyWith, Writing
  <1>6. OneWriter(b)'  BY <1>2, <1>3 DEF OneWriter
  <1>7. \A t \in Logins : WritesAt(t, b)' => PollStage(t, b)'
    BY <1>3 DEF Writing
  <1> QED  BY <1>2, <1>4, <1>5, <1>6, <1>7 DEF BotInv

LEMMA UpsertedRow ==
    ASSUME NEW kept \in BotRows \cup {Absent}
    PROVE  /\ Upserted(kept) \in BotRows /\ Upserted(kept) # Absent
           /\ kept = Absent => Upserted(kept).active /\ Upserted(kept).cursor = 0
           /\ kept # Absent => Upserted(kept) = kept
  <1>1. [active |-> TRUE, cursor |-> 0] \in BotRows  BY BotConstants DEF BotRows
  <1> QED  BY <1>1, BotConstants DEF Upserted

LEMMA BotLoaded ==
    ASSUME BotsInv, NEW s \in Logins, LoadBot(s)
    PROVE  BotsInv'
  <1> DEFINE c == poller[s].bot
             r == IF poller[s].rebind /\ botRow[c] = Absent
                  THEN [poller[s] EXCEPT !.at = "persist", !.status = "error"]
                  ELSE [poller[s] EXCEPT !.at = "write", !.row = botRow[c]]
  <1>0. /\ BotTypes /\ CancelHeld /\ RowsInv /\ BotTypeOK
        /\ poller[s] \in PollRecs /\ poller[s].at = "load" /\ c \in Bots
        /\ UNCHANGED <<Rows, view, heeded, edit, edits>>
    BY BotConstants DEF BotsInv, BotTypes, LoadBot, PollerAt, NoEdits, PollRecs
  <1>1. /\ r \in PollRecs /\ r.bot = c /\ r.rebind = poller[s].rebind
        /\ poller' = [poller EXCEPT ![s] = r]
    <2>1. botRow[c] \in BotRows \cup {Absent}  BY <1>0 DEF BotTypeOK
    <2> QED  BY <1>0, <2>1 DEF LoadBot, PollRecs, Writing, Ended
  <1>2. /\ poller'[s] = r /\ \A t \in Logins \ {s} : poller'[t] = poller[t]
    BY <1>0, <1>1 DEF BotTypes
  <1>3. /\ r.at # "off"
        /\ mixed \subseteq mixed' /\ mixed' \subseteq Bots
    BY <1>0 DEF LoadBot, PollRecs, BotTypeOK
  <1>4. BotTypes'
    <2>1. /\ \A t \in Logins : view'[t] = "none" => poller'[t].at = "off"
          /\ r.at = "off" <=> r.bot = Absent
          /\ heeded' \subseteq Logins
      BY <1>0, <1>1, <1>2, <1>3, BotConstants DEF BotTypes, BotTypeOK
    <2> HIDE DEF r
    <2> QED  BY <1>0, <1>1, <1>3, <2>1, PollTypes DEF BotTypeOK, Rows
  <1>5. CancelHeld'
    <2>1. s \notin heeded  BY <1>0 DEF CancelHeld
    <2> QED  BY <1>0, <1>2, <2>1 DEF CancelHeld, BotTypeOK
  <1>6. ASSUME NEW b \in Bots \ mixed', b = c, BotInv(b) PROVE BotInv(b)'
    <2>1. CASE poller[s].rebind /\ botRow[c] = Absent
      <3>1. r.at = "persist"  BY <1>0, <2>1 DEF PollRecs
      <3>2. \A t \in Logins : /\ poller'[t].bot = b => poller[t].bot = b
                              /\ WritesAt(t, b)' <=> WritesAt(t, b)
                              /\ WritesAt(t, b) => poller'[t] = poller[t]
                              /\ Fresh(t, b)' => Fresh(t, b)
        BY <1>0, <1>1, <1>2, <2>1, <3>1 DEF WritesAt, Fresh, Writing
      <3> HIDE DEF r
      <3> QED  BY <1>0, <1>6, <3>2, BotFrame DEF Rows
    <2>2. CASE ~(poller[s].rebind /\ botRow[c] = Absent)
      <3>1. r.at = "write" /\ r.row = botRow[c]  BY <1>0, <2>2 DEF PollRecs
      <3>2. ~BusyWith(b)
        BY <1>6, <2>2 DEF LoadBot
      <3>3. Agree(b)  BY <1>6, <3>2 DEF BotInv
      <3>4. botRow[b] = Absent => saved[b] = 0
        BY <1>0, <1>6, <2>2 DEF BotInv, Fresh
      <3>5. /\ \A t \in Logins \ {s} : ~WritesAt(t, b)'
            /\ \A e \in Edits : edit'[e].bot # b
        BY <1>0, <1>2, <3>2 DEF BusyWith, WritesAt, Writing
      <3>6. PollStage(s, b)'
        BY <1>0, <1>2, <1>6, <3>1, <3>3, <3>4 DEF PollStage, Agree, RowsSafe, RowsWhole, Rows
      <3>7. \A t \in Logins : ~Fresh(t, b)'
        BY <1>0, <1>1, <1>2, <1>6, <3>1 DEF BotInv, Fresh, Writing
      <3>8. BusyWith(b)'  BY <1>1, <1>2, <1>6, <3>1 DEF BusyWith
      <3>9. OneWriter(b)'  BY <3>5 DEF OneWriter
      <3> QED  BY <3>5, <3>6, <3>7, <3>8, <3>9 DEF BotInv
    <2> QED  BY <2>1, <2>2
  <1>7. ASSUME NEW b \in Bots, b # c, BotInv(b) PROVE BotInv(b)'
    <2> HIDE DEF r
    <2> QED  BY <1>0, <1>1, <1>7, OtherBots DEF Rows
  <1>8. RowsInv'
    <2> SUFFICES ASSUME NEW b \in Bots \ mixed' PROVE BotInv(b)'
      BY DEF RowsInv
    <2>1. BotInv(b)  BY <1>0, <1>3 DEF RowsInv
    <2> QED  BY <1>6, <1>7, <2>1
  <1> QED  BY <1>4, <1>5, <1>8 DEF BotsInv

LEMMA BotBound ==
    ASSUME BotsInv, NEW s \in Logins,
           WriteBot(s) \/ ListBot(s) \/ SaveCreds(s) \/ MarkPollable(s)
    PROVE  BotsInv'
  <1> DEFINE c == poller[s].bot
             kept == poller[s].row
  <1>0. /\ BotTypes /\ CancelHeld /\ RowsInv /\ BotTypeOK
        /\ poller[s] \in PollRecs /\ poller[s].at \in Writing /\ c \in Bots
        /\ kept \in BotRows \cup {Absent}
        /\ UNCHANGED <<saved, view, heeded, edit, edits, mixed, broken>>
    BY BotConstants DEF BotsInv, BotTypes, BotTypeOK, WriteBot, ListBot, SaveCreds, MarkPollable,
       PollerAt, NoEdits, PollRecs, Writing
  <1>1. PICK r \in PollRecs :
          /\ poller' = [poller EXCEPT ![s] = r] /\ r.bot = c
          /\ WriteBot(s) => r.at = "list" /\ r.row = kept
          /\ ListBot(s) => r.at = "creds" /\ r.row = kept
          /\ SaveCreds(s) => r.at = "mark" /\ r.row = kept
          /\ MarkPollable(s) => r.at = "persist" /\ r.status \in {"confirmed", "error"}
    <2>1. CASE WriteBot(s)
      <3> DEFINE r == [poller[s] EXCEPT !.at = "list"]
      <3>1. r \in PollRecs /\ r.at = "list" /\ r.row = kept /\ r.bot = c
        BY <1>0 DEF PollRecs, Writing
      <3> QED  BY <2>1, <3>1 DEF WriteBot, ListBot, SaveCreds, MarkPollable, PollTo, PollerAt
    <2>2. CASE ListBot(s)
      <3> DEFINE r == [poller[s] EXCEPT !.at = "creds"]
      <3>1. r \in PollRecs /\ r.at = "creds" /\ r.row = kept /\ r.bot = c
        BY <1>0 DEF PollRecs, Writing
      <3> QED  BY <2>2, <3>1 DEF WriteBot, ListBot, SaveCreds, MarkPollable, PollTo, PollerAt
    <2>3. CASE SaveCreds(s)
      <3> DEFINE r == [poller[s] EXCEPT !.at = "mark"]
      <3>1. r \in PollRecs /\ r.at = "mark" /\ r.row = kept /\ r.bot = c
        BY <1>0 DEF PollRecs, Writing
      <3> QED  BY <2>3, <3>1 DEF WriteBot, ListBot, SaveCreds, MarkPollable, PollTo, PollerAt
    <2>4. CASE MarkPollable(s)
      <3>0. PICK result \in {"confirmed", "error"} :
              poller' = [poller EXCEPT ![s].at = "persist", ![s].status = result, ![s].row = Absent]
        BY <2>4 DEF MarkPollable
      <3> DEFINE r == [poller[s] EXCEPT !.at = "persist", !.status = result, !.row = Absent]
      <3>1. r \in PollRecs /\ r.at = "persist" /\ r.status \in {"confirmed", "error"} /\ r.bot = c
        BY <1>0 DEF PollRecs, Ended
      <3>2. poller' = [poller EXCEPT ![s] = r]  BY <3>0
      <3> QED  BY <2>4, <3>1, <3>2 DEF WriteBot, ListBot, SaveCreds, MarkPollable, PollerAt
    <2> QED  BY <2>1, <2>2, <2>3, <2>4
  <1>2. /\ poller'[s] = r /\ \A t \in Logins \ {s} : poller'[t] = poller[t]
        /\ r.at # "off"
    BY <1>0, <1>1 DEF BotTypes
  <1>3. /\ botRow' \in [Bots -> BotRows \cup {Absent}]
        /\ creds' \subseteq Bots /\ pollable' \subseteq Bots /\ listed' \subseteq Bots
        /\ \A b \in Bots \ {c} : /\ botRow'[b] = botRow[b]
                                 /\ b \in creds' <=> b \in creds
                                 /\ b \in listed' <=> b \in listed
                                 /\ b \in pollable' <=> b \in pollable
    BY <1>0, UpsertedRow DEF BotTypeOK, WriteBot, ListBot, SaveCreds, MarkPollable
  <1>4. BotTypes'
    <2>1. /\ \A t \in Logins : view'[t] = "none" => poller'[t].at = "off"
          /\ r.at = "off" <=> r.bot = Absent
      BY <1>0, <1>1, <1>2, BotConstants DEF BotTypes
    <2> QED  BY <1>0, <1>1, <1>3, <2>1, PollTypes DEF BotTypeOK
  <1>5. CancelHeld'
    <2>1. s \notin heeded  BY <1>0 DEF CancelHeld, Writing
    <2> QED  BY <1>0, <1>2, <2>1 DEF CancelHeld, BotTypeOK
  <1>6. ASSUME NEW b \in Bots, b = c, BotInv(b) PROVE BotInv(b)'
    <2>0. PollStage(s, b)  BY <1>0, <1>6 DEF BotInv, WritesAt
    <2>u. /\ Upserted(kept) \in BotRows /\ Upserted(kept) # Absent
          /\ kept = Absent => Upserted(kept).active /\ Upserted(kept).cursor = 0
          /\ kept # Absent => Upserted(kept) = kept
      BY <1>0, UpsertedRow
    <2>1. CASE WriteBot(s)
      <3>1. PollStage(s, b)'
        BY <1>0, <1>1, <1>2, <1>6, <2>0, <2>1, <2>u
           DEF WriteBot, PollStage, PollerAt, Agree, RowsSafe, RowsWhole, BotTypeOK
      <3> QED  BY <1>0, <1>1, <1>6, <2>1, <3>1, OwnBot DEF Writing
    <2>2. CASE ListBot(s)
      <3>1. PollStage(s, b)'
        BY <1>0, <1>1, <1>2, <1>6, <2>0, <2>2 DEF ListBot, PollStage, PollerAt, RowsSafe
      <3> QED  BY <1>0, <1>1, <1>6, <2>2, <3>1, OwnBot DEF Writing
    <2>3. CASE SaveCreds(s)
      <3>1. PollStage(s, b)'
        BY <1>0, <1>1, <1>2, <1>6, <2>0, <2>3 DEF SaveCreds, PollStage, PollerAt, RowsSafe
      <3> QED  BY <1>0, <1>1, <1>6, <2>3, <3>1, OwnBot DEF Writing
    <2>4. CASE MarkPollable(s)
      <3>1. Agree(b)'
        BY <1>0, <1>6, <2>0, <2>4, <2>u DEF MarkPollable, PollStage, PollerAt, Agree, RowsSafe, RowsWhole
      <3> QED  BY <1>0, <1>1, <1>6, <2>4, <3>1, OwnBot
    <2> QED  BY <2>1, <2>2, <2>3, <2>4
  <1>7. ASSUME NEW b \in Bots, b # c, BotInv(b) PROVE BotInv(b)'
    <2>1. /\ botRow'[b] = botRow[b] /\ saved'[b] = saved[b]
          /\ b \in creds' <=> b \in creds
          /\ b \in listed' <=> b \in listed
          /\ b \in pollable' <=> b \in pollable
      BY <1>0, <1>3, <1>7
    <2> QED  BY <1>0, <1>1, <1>7, <2>1, OtherBots
  <1>8. RowsInv'  BY <1>0, <1>6, <1>7 DEF RowsInv
  <1> QED  BY <1>4, <1>5, <1>8 DEF BotsInv

\* A login that breaks off while it binds its bot leaves what it has written.
LEMMA BindBreaksOff ==
    ASSUME BotsInv, NEW s \in Logins, BotFails(s) \/ PollerDies(s), poller[s].at \in Writing
    PROVE  BotsInv'
  <1> DEFINE c == poller[s].bot
  <1>0. /\ BotTypes /\ CancelHeld /\ RowsInv /\ BotTypeOK
        /\ poller[s] \in PollRecs /\ c \in Bots
        /\ UNCHANGED <<botRow, creds, pollable, listed, saved, view, heeded, edit, edits, mixed>>
        /\ broken' = IF poller[s].at \in {"list", "creds", "mark"} THEN broken \cup {c} ELSE broken
    BY BotConstants DEF BotsInv, BotTypes, BotTypeOK, BotFails, PollerDies, BreaksOff, Half,
       PollerAt, NoEdits, PollRecs, Writing
  <1>1. PICK r \in PollRecs :
          /\ poller' = [poller EXCEPT ![s] = r]
          /\ \/ r.bot = c /\ r.at = "persist" /\ r.status = "error"
             \/ r.bot = Absent /\ r.at = "off"
    <2>1. CASE PollerDies(s)  BY <2>1, PollIdle DEF PollerDies
    <2>2. CASE BotFails(s)
      <3> DEFINE r == [poller[s] EXCEPT !.at = "persist", !.status = "error", !.row = Absent]
      <3>1. r \in PollRecs /\ r.at = "persist" /\ r.status = "error" /\ r.bot = c
        BY <1>0 DEF PollRecs, Ended
      <3>2. poller' = [poller EXCEPT ![s] = r]  BY <2>2 DEF BotFails
      <3> QED  BY <3>1, <3>2
    <2> QED  BY <2>1, <2>2
  <1>2. /\ poller'[s] = r /\ \A t \in Logins \ {s} : poller'[t] = poller[t]
    BY <1>0, <1>1 DEF BotTypes
  <1>3. BotTypes'
    <2>1. /\ \A t \in Logins : view'[t] = "none" => poller'[t].at = "off"
          /\ r.at = "off" <=> r.bot = Absent
          /\ broken' \subseteq Bots
      BY <1>0, <1>1, <1>2, BotConstants DEF BotTypes, BotTypeOK, Writing
    <2> QED  BY <1>0, <1>1, <2>1, PollTypes DEF BotTypeOK
  <1>4. CancelHeld'
    <2>1. s \notin heeded  BY <1>0 DEF CancelHeld, Writing
    <2> QED  BY <1>0, <1>2, <2>1 DEF CancelHeld, BotTypeOK
  <1>5. ASSUME NEW b \in Bots, b = c, BotInv(b) PROVE BotInv(b)'
    <2>1. PollStage(s, b)  BY <1>5 DEF BotInv, WritesAt
    <2>2. Agree(b)'
      BY <1>0, <1>5, <2>1 DEF PollStage, Agree, RowsSafe, RowsWhole, Writing
    <2>3. /\ \A t \in Logins \ {s} : ~WritesAt(t, b)
          /\ \A e \in Edits : edit[e].bot # b
      BY <1>5 DEF BotInv, OneWriter, WritesAt
    <2>4. \A t \in Logins : ~WritesAt(t, b)'
      BY <1>1, <1>2, <2>3 DEF WritesAt, Writing
    <2>5. \A t \in Logins : ~Fresh(t, b)'
      BY <1>1, <1>2, <1>5, BotConstants DEF BotInv, Fresh, Writing
    <2> QED  BY <1>0, <2>2, <2>3, <2>4, <2>5 DEF BotInv, OneWriter
  <1>6. ASSUME NEW b \in Bots, b # c, BotInv(b) PROVE BotInv(b)'
    <2>1. b # r.bot /\ (b \in broken' <=> b \in broken)
      BY <1>0, <1>1, <1>6, BotConstants
    <2>2. \A t \in Logins : /\ poller'[t].bot = b => poller[t].bot = b
                            /\ WritesAt(t, b)' <=> WritesAt(t, b)
                            /\ WritesAt(t, b) => poller'[t] = poller[t]
                            /\ Fresh(t, b)' => Fresh(t, b)
      BY <1>2, <1>6, <2>1 DEF WritesAt, Fresh
    <2> QED  BY <1>0, <1>6, <2>1, <2>2, BotFrame
  <1>7. RowsInv'  BY <1>0, <1>5, <1>6 DEF RowsInv
  <1> QED  BY <1>3, <1>4, <1>7 DEF BotsInv

\* A step of a request moves that request, and at most its own bot.
LEMMA EditTypes ==
    ASSUME BotTypes, NEW e \in Edits, NEW r \in EditRecs,
           edit' = [edit EXCEPT ![e] = r], r.at = "end" <=> r.bot = Absent,
           edits' \in 0..MaxEdits, edits <= edits', r.bot = Absent \/ e <= edits',
           UNCHANGED <<view, poller, heeded>>,
           botRow' \in [Bots -> BotRows \cup {Absent}], saved' \in [Bots -> 0..MaxCursor],
           creds' \subseteq Bots, pollable' \subseteq Bots, listed' \subseteq Bots,
           mixed' \subseteq Bots, broken' \subseteq Bots
    PROVE  BotTypes'
  <1>1. /\ edit'[e] = r /\ \A f \in Edits \ {e} : edit'[f] = edit[f]
        /\ edit' \in [Edits -> EditRecs]
    BY DEF BotTypes
  <1>2. BotTypeOK'  BY DEF BotTypes, BotTypeOK
  <1>3. \A f \in Edits : f > edits' => edit'[f].bot = Absent
    BY <1>1, BotConstants DEF BotTypes, BotTypeOK, Edits
  <1>4. \A f \in Edits : edit'[f].at = "end" <=> edit'[f].bot = Absent
    BY <1>1 DEF BotTypes
  <1> QED  BY <1>1, <1>2, <1>3, <1>4 DEF BotTypes

LEMMA OtherEdits ==
    ASSUME BotTypes, NEW e \in Edits, NEW r \in EditRecs,
           edit' = [edit EXCEPT ![e] = r], UNCHANGED poller,
           NEW b \in Bots, b # edit[e].bot, b # r.bot, BotInv(b),
           botRow'[b] = botRow[b], saved'[b] = saved[b],
           b \in creds' <=> b \in creds, b \in listed' <=> b \in listed,
           b \in pollable' <=> b \in pollable, b \in broken' <=> b \in broken
    PROVE  BotInv(b)'
  <1>1. /\ edit'[e] = r /\ \A f \in Edits \ {e} : edit'[f] = edit[f]
    BY DEF BotTypes
  <1>2. \A f \in Edits : edit'[f].bot = b <=> edit[f].bot = b
    BY <1>1
  <1>3. \A f \in Edits : edit[f].bot = b => edit'[f] = edit[f]
    BY <1>1
  <1> QED  BY <1>2, <1>3, BotFrame DEF WritesAt, Fresh

LEMMA OwnEdit ==
    ASSUME BotTypes, NEW e \in Edits, NEW r \in EditRecs,
           edit' = [edit EXCEPT ![e] = r], UNCHANGED poller,
           NEW b \in Bots, BotInv(b), edit[e].bot = b \/ ~BusyWith(b),
           \A s \in Logins : ~Fresh(s, b) \/ (botRow'[b] = Absent /\ saved'[b] = 0),
           \/ r.bot = b /\ EditStage(e, b)'
           \/ r.bot = Absent /\ Agree(b)'
    PROVE  BotInv(b)'
  <1>1. /\ edit'[e] = r /\ \A f \in Edits \ {e} : edit'[f] = edit[f]
    BY DEF BotTypes
  <1>2. /\ \A f \in Edits \ {e} : edit[f].bot # b
        /\ \A s \in Logins : ~WritesAt(s, b)
    BY DEF BotInv, OneWriter, BusyWith, WritesAt, Writing
  <1>3. /\ \A f \in Edits : edit'[f].bot = b => f = e /\ r.bot = b
        /\ \A s \in Logins : ~WritesAt(s, b)'
    BY <1>1, <1>2 DEF WritesAt
  <1>4. OneWriter(b)'  BY <1>3 DEF OneWriter
  <1>5. \A s \in Logins : Fresh(s, b)' => Fresh(s, b)  BY DEF Fresh
  <1>6. ~BusyWith(b)' => Agree(b)'
    BY <1>1 DEF BusyWith
  <1>7. \A f \in Edits : edit'[f].bot = b => EditStage(f, b)'
    BY <1>3, BotConstants
  <1>8. \A s \in Logins : Fresh(s, b)' =>
            /\ botRow'[b] = Absent /\ saved'[b] = 0
            /\ \A t \in Logins : poller'[t].bot = b => t = s
    BY <1>5 DEF BotInv
  <1> QED  BY <1>3, <1>4, <1>6, <1>7, <1>8 DEF BotInv

LEMMA EditBegins ==
    ASSUME BotsInv, NEW c \in Bots,
           Rename(c) \/ SaveCursor(c) \/ DeleteBot(c) \/ \E on \in BOOLEAN : SetStatus(c, on)
    PROVE  BotsInv'
  <1>0. /\ BotTypes /\ CancelHeld /\ RowsInv /\ BotTypeOK
    BY DEF BotsInv, BotTypes
  <1>1. PICK op \in {"rename", "cursor", "status", "delete"} : \E kept, to :
          /\ Begin(op, c, kept, to)
          /\ op = "rename" => kept = botRow[c] /\ to = 0
          /\ op = "delete" => kept = botRow[c] /\ to = 0
          /\ op = "cursor" => /\ kept = [botRow[c] EXCEPT !.cursor = saved[c] + 1]
                              /\ saved[c] < MaxCursor /\ to = saved[c] + 1
          /\ op = "status" => /\ \E on \in BOOLEAN : kept = [botRow[c] EXCEPT !.active = on]
                              /\ to = 0
    BY DEF Rename, SaveCursor, DeleteBot, SetStatus
  <1>h. PICK kept, to :
          /\ Begin(op, c, kept, to)
          /\ op = "rename" => kept = botRow[c] /\ to = 0
          /\ op = "delete" => kept = botRow[c] /\ to = 0
          /\ op = "cursor" => /\ kept = [botRow[c] EXCEPT !.cursor = saved[c] + 1]
                              /\ saved[c] < MaxCursor /\ to = saved[c] + 1
          /\ op = "status" => /\ \E on \in BOOLEAN : kept = [botRow[c] EXCEPT !.active = on]
                              /\ to = 0
    BY <1>1
  <1>2. /\ edits < MaxEdits /\ botRow[c] # Absent /\ edits' = edits + 1
        /\ UNCHANGED <<Rows, view, poller, heeded>>
        /\ mixed' = IF BusyWith(c) THEN mixed \cup {c} ELSE mixed
    BY <1>h DEF Begin
  <1>3. /\ botRow[c] \in BotRows /\ botRow[c].active \in BOOLEAN
        /\ botRow[c].cursor \in 0..MaxCursor /\ saved[c] \in 0..MaxCursor
    BY <1>0, <1>2 DEF BotTypeOK, BotRows
  <1>4. /\ kept \in BotRows /\ to \in 0..MaxCursor
        /\ op # "status" => kept.active = botRow[c].active
        /\ kept.cursor = IF op = "cursor" THEN to ELSE botRow[c].cursor
    <2>1. CASE op \in {"rename", "delete"}  BY <1>1, <1>h, <1>3, <2>1, BotConstants
    <2>2. CASE op = "cursor"
      <3>1. to \in 0..MaxCursor  BY <1>1, <1>h, <1>3, <2>2, BotConstants
      <3> QED  BY <1>1, <1>h, <1>3, <2>2, <3>1 DEF BotRows
    <2>3. CASE op = "status"
      BY <1>1, <1>h, <1>3, <2>3, BotConstants DEF BotRows
    <2> QED  BY <2>1, <2>2, <2>3
  <1>e. PICK e \in Edits : e = edits + 1
    BY <1>0, <1>2, BotConstants DEF BotTypeOK, Edits
  <1> DEFINE r == [op |-> op, bot |-> c, row |-> kept, to |-> to,
                   at |-> IF op = "delete" THEN "unmark" ELSE "write"]
  <1>5. /\ r \in EditRecs /\ r.bot = c /\ r.op = op /\ r.row = kept /\ r.to = to
        /\ r.at = IF op = "delete" THEN "unmark" ELSE "write"
    BY <1>4 DEF EditRecs
  <1>6. /\ e \in Edits /\ edit' = [edit EXCEPT ![e] = r] /\ edits' = e
        /\ edits' \in 0..MaxEdits /\ edits <= edits' /\ edit[e].bot = Absent
    BY <1>0, <1>h, <1>2, <1>e, BotConstants DEF Begin, Edits, BotTypes, BotTypeOK
  <1> HIDE DEF r
  <1>7. BotTypes'
    <2>1. mixed' \subseteq Bots /\ r.at # "end" /\ r.bot # Absent /\ e <= edits'
      BY <1>0, <1>2, <1>5, <1>6, BotConstants DEF BotTypeOK, Edits
    <2> QED  BY <1>0, <1>2, <1>5, <1>6, <2>1, EditTypes DEF BotTypeOK, Rows
  <1>8. CancelHeld'  BY <1>0, <1>2 DEF CancelHeld
  <1>9. ASSUME NEW b \in Bots \ mixed', b = c, BotInv(b) PROVE BotInv(b)'
    <2>1. ~BusyWith(b) /\ Agree(b)  BY <1>2, <1>9 DEF BotInv
    <2>2. edit'[e] = r  BY <1>0, <1>6 DEF BotTypes
    <2>3. EditStage(e, b)'
      <3>1. Agree(b)' /\ botRow'[b] # Absent /\ botRow'[b].cursor = saved'[b]
        BY <1>2, <1>9, <2>1 DEF Agree, RowsSafe, RowsWhole, Rows
      <3>2. CASE op = "delete"
        BY <1>2, <1>5, <1>9, <2>1, <2>2, <3>1, <3>2 DEF EditStage, Agree, RowsSafe, RowsWhole, Rows
      <3>3. CASE op # "delete"
        <4>1. edit'[e].row.cursor = IF op = "cursor" THEN to ELSE saved'[b]
          BY <1>2, <1>4, <1>5, <1>9, <2>2, <3>1 DEF Rows
        <4> QED  BY <1>2, <1>4, <1>5, <1>9, <2>2, <3>1, <3>3, <4>1 DEF EditStage, Agree, Rows
      <3> QED  BY <3>2, <3>3
    <2>4. \A s \in Logins : ~Fresh(s, b)  BY <1>2, <1>9 DEF BotInv
    <2>5. b \in Bots /\ UNCHANGED poller /\ BotInv(b) /\ r.bot = b
      BY <1>2, <1>5, <1>9
    <2> QED  BY <1>0, <1>5, <1>6, <2>1, <2>3, <2>4, <2>5, OwnEdit
  <1>10. ASSUME NEW b \in Bots, b # c, BotInv(b) PROVE BotInv(b)'
    BY <1>0, <1>2, <1>5, <1>6, <1>10, OtherEdits, BotConstants DEF Rows
  <1>11. RowsInv'
    <2> SUFFICES ASSUME NEW b \in Bots \ mixed' PROVE BotInv(b)'
      BY DEF RowsInv
    <2>1. BotInv(b)  BY <1>0, <1>2 DEF RowsInv
    <2> QED  BY <1>9, <1>10, <2>1
  <1> QED  BY <1>7, <1>8, <1>11 DEF BotsInv

LEMMA EditMoves ==
    ASSUME BotsInv, NEW e \in Edits, EditStep(e)
    PROVE  BotsInv'
  <1> DEFINE c == edit[e].bot
  <1>0. /\ BotTypes /\ CancelHeld /\ RowsInv /\ BotTypeOK
        /\ edit[e] \in EditRecs /\ edit[e].at # "end" /\ c \in Bots
        /\ UNCHANGED <<view, poller, heeded, edits, mixed>>
    BY BotConstants DEF BotsInv, BotTypes, EditStep, WriteRow, Mark, Unmark, DropRow, DropCreds,
       Unlist, EditDies, EditAt, EditTo, EditRecs
  <1>1. PICK at \in {"end", "mark", "unmark", "row", "creds", "unlist"} :
          /\ EditTo(e, at)
          /\ WriteRow(e) => at = IF edit[e].op # "status" THEN "end"
                                 ELSE IF edit[e].row.active /\ c \in creds THEN "mark" ELSE "unmark"
          /\ Mark(e) => at = "end"
          /\ Unmark(e) => at = IF edit[e].op = "delete" THEN "row" ELSE "end"
          /\ DropRow(e) => at = "creds"
          /\ DropCreds(e) => at = "unlist"
          /\ Unlist(e) => at = "end"
          /\ EditDies(e) => at = "end"
    <2>1. ASSUME NEW at, EditTo(e, at) PROVE edit'[e].at = at
      BY <1>0, <2>1, EditIdle DEF EditTo, BotTypes, EditRecs
    <2>2. PICK at \in {"end", "mark", "unmark", "row", "creds", "unlist"} : EditTo(e, at)
      BY DEF EditStep, WriteRow, Mark, Unmark, DropRow, DropCreds, Unlist, EditDies
    <2>3. \A x : EditTo(e, x) => x = at
      BY <2>1, <2>2
    <2>4. /\ WriteRow(e) => at = IF edit[e].op # "status" THEN "end"
                                 ELSE IF edit[e].row.active /\ c \in creds THEN "mark" ELSE "unmark"
          /\ Mark(e) => at = "end"
          /\ Unmark(e) => at = IF edit[e].op = "delete" THEN "row" ELSE "end"
      BY <2>3 DEF WriteRow, Mark, Unmark
    <2>5. /\ DropRow(e) => at = "creds"
          /\ DropCreds(e) => at = "unlist"
          /\ Unlist(e) => at = "end"
          /\ EditDies(e) => at = "end"
      <3>1. (DropRow(e) => EditTo(e, "creds")) /\ (DropCreds(e) => EditTo(e, "unlist"))
        BY DEF DropRow, DropCreds
      <3>2. (Unlist(e) => EditTo(e, "end")) /\ (EditDies(e) => EditTo(e, "end"))
        BY DEF Unlist, EditDies
      <3> QED  BY <2>3, <3>1, <3>2
    <2> QED  BY <2>2, <2>4, <2>5
  <1> DEFINE r == IF at = "end" THEN NoEdit ELSE [edit[e] EXCEPT !.at = at]
  <1>2. /\ r \in EditRecs /\ edit' = [edit EXCEPT ![e] = r]
        /\ at = "end" => r.bot = Absent /\ r.at = "end"
        /\ at # "end" => /\ r.bot = c /\ r.at = at /\ r.op = edit[e].op /\ r.row = edit[e].row
                         /\ r.to = edit[e].to
    BY <1>0, <1>1, EditIdle DEF EditTo, EditRecs
  <1> HIDE DEF r
  <1>3. /\ botRow' \in [Bots -> BotRows \cup {Absent}] /\ saved' \in [Bots -> 0..MaxCursor]
        /\ creds' \subseteq Bots /\ pollable' \subseteq Bots /\ listed' \subseteq Bots
        /\ broken' \subseteq Bots
        /\ \A b \in Bots \ {c} : /\ botRow'[b] = botRow[b] /\ saved'[b] = saved[b]
                                 /\ b \in broken' <=> b \in broken
                                 /\ b \in creds' <=> b \in creds
                                 /\ b \in listed' <=> b \in listed
                                 /\ b \in pollable' <=> b \in pollable
    <2>1. edit[e].row \in BotRows \cup {Absent} /\ edit[e].to \in 0..MaxCursor
      BY <1>0 DEF EditRecs
    <2>2. CASE WriteRow(e)  BY <1>0, <2>1, <2>2 DEF BotTypeOK, WriteRow
    <2>3. CASE DropRow(e)  BY <1>0, <2>3 DEF BotTypeOK, DropRow
    <2>4. CASE Mark(e) \/ Unmark(e) \/ DropCreds(e) \/ Unlist(e)
      BY <1>0, <2>4 DEF BotTypeOK, Mark, Unmark, DropCreds, Unlist
    <2>5. CASE EditDies(e)  BY <1>0, <2>5 DEF BotTypeOK, EditDies, BreaksOff
    <2> QED  BY <2>2, <2>3, <2>4, <2>5 DEF EditStep
  <1>4. BotTypes'
    <2>1. /\ r.at = "end" <=> r.bot = Absent
          /\ edits' \in 0..MaxEdits /\ edits <= edits' /\ e <= edits'
      BY <1>0, <1>2, BotConstants DEF BotTypes, BotTypeOK, Edits
    <2> QED  BY <1>0, <1>2, <1>3, <2>1, EditTypes DEF BotTypeOK
  <1>5. CancelHeld'  BY <1>0 DEF CancelHeld
  <1>6. ASSUME NEW b \in Bots, b = c, BotInv(b) PROVE BotInv(b)'
    <2>0. EditStage(e, b)  BY <1>6 DEF BotInv
    <2>1. edit'[e] = r  BY <1>0, <1>2 DEF BotTypes
    <2>2. /\ at # "end" => EditStage(e, b)'
          /\ at = "end" => Agree(b)'
      <3>1. CASE WriteRow(e)
        <4>1. /\ edit[e].at = "write" /\ Agree(b) /\ botRow[b] # Absent
              /\ edit[e].row \in BotRows /\ edit[e].row # Absent
          BY <2>0, <3>1, BotConstants DEF WriteRow, EditAt, EditStage
        <4>2. /\ botRow'[b] = edit[e].row
              /\ saved'[b] = IF edit[e].op = "cursor" THEN edit[e].to ELSE saved[b]
              /\ UNCHANGED <<creds, pollable, listed, broken>>
          BY <1>0, <1>6, <3>1 DEF WriteRow, BotTypeOK
        <4>3. edit[e].row.cursor = saved'[b]
          BY <2>0, <4>1, <4>2 DEF EditStage
        <4>4. CASE edit[e].op # "status"
          BY <1>1, <2>0, <3>1, <4>1, <4>2, <4>3, <4>4 DEF EditStage, Agree, RowsSafe, RowsWhole
        <4>5. CASE edit[e].op = "status"
          BY <1>1, <1>2, <1>6, <2>0, <2>1, <3>1, <4>1, <4>2, <4>3, <4>5
             DEF EditStage, Agree, RowsSafe, RowsWhole
        <4> QED  BY <4>4, <4>5
      <3>2. CASE Mark(e)
        BY <1>0, <1>1, <1>6, <2>0, <3>2 DEF Mark, EditAt, EditStage, Agree, RowsSafe, RowsWhole
      <3>3. CASE Unmark(e)
        BY <1>0, <1>1, <1>2, <1>6, <2>0, <2>1, <3>3 DEF Unmark, EditAt, EditStage, Agree, RowsSafe, RowsWhole
      <3>4. CASE DropRow(e)
        BY <1>0, <1>1, <1>2, <1>6, <2>0, <2>1, <3>4 DEF DropRow, EditAt, EditStage, RowsSafe, BotTypeOK
      <3>5. CASE DropCreds(e)
        BY <1>0, <1>1, <1>2, <1>6, <2>0, <2>1, <3>5 DEF DropCreds, EditAt, EditStage, RowsSafe
      <3>6. CASE Unlist(e)
        BY <1>0, <1>1, <1>6, <2>0, <3>6 DEF Unlist, EditAt, EditStage, Agree, RowsSafe, RowsWhole
      <3>7. CASE EditDies(e)
        <4>1. /\ at = "end" /\ UNCHANGED <<botRow, creds, pollable, listed, saved>>
              /\ edit[e].at \in {"mark", "row", "creds", "unlist"} => b \in broken'
              /\ edit[e].at = "unmark" /\ edit[e].op = "status" => b \in broken'
              /\ b \in broken => b \in broken'
          BY <1>1, <1>6, <3>7 DEF EditDies, EditAt, BreaksOff
        <4>2. \/ b \in broken'
              \/ Agree(b)
          BY <1>0, <2>0, <4>1 DEF EditStage, EditRecs
        <4> QED  BY <2>0, <4>1, <4>2 DEF EditStage, Agree, RowsSafe, RowsWhole
      <3> QED  BY <3>1, <3>2, <3>3, <3>4, <3>5, <3>6, <3>7 DEF EditStep
    <2>3. \A s \in Logins : ~Fresh(s, b) \/ (botRow'[b] = Absent /\ saved'[b] = 0)
      <3> SUFFICES ASSUME NEW s \in Logins, Fresh(s, b) PROVE botRow'[b] = Absent /\ saved'[b] = 0
        OBVIOUS
      <3>1. botRow[b] = Absent /\ saved[b] = 0  BY <1>6 DEF BotInv
      <3>2. edit[e].at \in {"creds", "unlist"}
        BY <1>0, <2>0, <3>1 DEF EditStage, EditRecs
      <3> QED  BY <3>1, <3>2 DEF EditStep, WriteRow, Mark, Unmark, DropRow, DropCreds, Unlist, EditDies, EditAt
    <2> QED  BY <1>0, <1>2, <1>6, <2>2, <2>3, OwnEdit
  <1>7. ASSUME NEW b \in Bots, b # c, BotInv(b) PROVE BotInv(b)'
    <2>1. /\ botRow'[b] = botRow[b] /\ saved'[b] = saved[b]
          /\ b \in creds' <=> b \in creds
          /\ b \in listed' <=> b \in listed
          /\ b \in pollable' <=> b \in pollable
          /\ b \in broken' <=> b \in broken
      BY <1>3, <1>7
    <2>2. b # r.bot  BY <1>2, <1>7, BotConstants
    <2> QED  BY <1>0, <1>2, <1>7, <2>1, <2>2, OtherEdits
  <1>8. RowsInv'  BY <1>0, <1>6, <1>7 DEF RowsInv
  <1> QED  BY <1>4, <1>5, <1>8 DEF BotsInv

LEMMA BotStep == BotsInv /\ [BotNext]_botVars => BotsInv'
  <1> SUFFICES ASSUME BotsInv, [BotNext]_botVars PROVE BotsInv'
    OBVIOUS
  <1>1. CASE BotNext
    BY <1>1, PollQuietly, LoginStarts, LoginCancelled, ViewGoes, BotLoaded, BotBound, BindBreaksOff,
       EditBegins, EditMoves DEF BotNext, PollStep
  <1>2. CASE UNCHANGED botVars
    <2>1. BotTypes'  BY <1>2 DEF botVars, Rows, BotsInv, BotTypes, BotTypeOK
    <2>2. CancelHeld'  BY <1>2 DEF botVars, BotsInv, CancelHeld
    <2>3. ASSUME NEW b \in Bots, BotInv(b) PROVE BotInv(b)'
      BY <1>2, <2>3, BotFrame DEF botVars, BotsInv, WritesAt, Fresh
    <2>4. RowsInv'  BY <1>2, <2>3 DEF botVars, BotsInv, RowsInv
    <2> QED  BY <2>1, <2>2, <2>4 DEF BotsInv
  <1> QED  BY <1>1, <1>2

LEMMA BotsSay == BotsInv => BotsAgree
  <1> SUFFICES ASSUME BotsInv PROVE BotsAgree
    OBVIOUS
  <1>1. CancelIsFinal  BY DEF BotsInv, CancelHeld, CancelIsFinal
  <1>2. RowsAgree  BY DEF BotsInv, RowsInv, BotInv, Agree, RowsAgree
  <1> QED  BY <1>1, <1>2 DEF BotsAgree

\* Whatever calls of Redis fail and whatever processes go down: a login cancelled
\* while its poller asked nobody stays cancelled unless the poller was refused its
\* look at the view; and where no two writers were at a bot at once, as soon as
\* nobody is at it, no worker polls it without row and credentials, its cursor
\* never goes back, and its row, credentials, lists and pollable set agree unless a
\* writer broke off between two writes.
THEOREM BotsCorrect == BotSpec => []BotsAgree
  BY BotsSay, BotStart, BotStep, PTL DEF BotSpec

-----------------------------------------------------------------------------
(* OtaApply                                                                *)

Busy == {"noop", "clearskip", "fetch", "stage", "copy", "install", "pnpm", "restart", "clear", "exit", "fail"}
Updating == {"stage", "copy", "install", "pnpm", "restart", "clear", "exit"}
SaysDone == status # Nothing /\ status.phase = "done"

\* A process at work has a job: the version it runs if it is to be skipped, that
\* of the stamp once it is stamped.
JobHeld ==
    /\ proc.at \in Busy => proc.job # Nothing
    /\ proc.at = "noop" => proc.job.version = proc.runs
    /\ proc.at \in {"install", "pnpm"} => stamp = proc.job.version

\* While an update is under way, no status says done; and where one says that the
\* stamped version is done, the process runs it.
DoneTold ==
    /\ proc.at \in Updating => ~SaysDone
    /\ SaysDone /\ stamp = status.version => proc.runs = stamp \/ proc.at = "boot"

\* Unless an attempt at another version was cut short, every file is of the
\* stamped version, or of the one that is being copied.
TreeWhole ==
    cut \subseteq {stamp} =>
        \A f \in Files : \/ tree[f] = stamp
                         \/ proc.at = "copy" /\ tree[f] = proc.job.version

\* Without crash and failure, dependencies are installed with the version.
DepsMatch ==
    fallen = 0 /\ ~thrown /\ proc.at \notin {"install", "pnpm"} /\ stamp \in Heavy => deps = stamp

ProcRec ==
    proc \in [at : Busy \cup {"boot", "idle", "mark", "clearmark"}, runs : Versions,
              job : Ota!OtaJobs \cup {Nothing}]

OtaInv == Ota!OtaTypeOK /\ ProcRec /\ JobHeld /\ DoneTold /\ TreeWhole /\ DepsMatch

LEMMA OtaConstants ==
    /\ Shipped \in Versions /\ MaxJobs \in Nat /\ MaxCrashes \in Nat
    /\ Nothing \notin Versions /\ Nothing \notin Ota!OtaJobs /\ Nothing \notin Ota!Statuses
  BY ControlAssumption DEF ControlAssumption, Ota!OtaAssumption

LEMMA OtaStart == Ota!Init => OtaInv
  <1> SUFFICES ASSUME Ota!Init PROVE OtaInv
    OBVIOUS
  <1>0. proc.at = "boot" /\ proc.runs = Shipped /\ proc.job = Nothing  BY DEF Ota!Init
  <1>1. Ota!OtaTypeOK
    <2>1. /\ tree \in [Files -> Versions] /\ {stamp, deps, proc.runs} \subseteq Versions
          /\ asked \in 0..MaxJobs /\ fallen \in 0..MaxCrashes
      BY <1>0, OtaConstants DEF Ota!Init
    <2> QED  BY <1>0, <2>1 DEF Ota!Init, Ota!OtaTypeOK, Ota!Working
  <1>2. ProcRec
    <2>1. proc = [at |-> "boot", runs |-> Shipped, job |-> Nothing]  BY DEF Ota!Init
    <2> QED  BY <2>1, OtaConstants DEF ProcRec
  <1> QED  BY <1>1, <1>2 DEF Ota!Init, OtaInv, JobHeld, DoneTold, TreeWhole, DepsMatch, SaysDone, Busy, Updating

\* An administrator changes nothing of the process and its files, and says of no
\* version that it is done.
LEMMA OtaAsked ==
    ASSUME OtaInv,
           \E v \in Versions : \/ Ota!SetCurrent(v) \/ Ota!Queued(v)
                               \/ \E b \in BOOLEAN : \/ Ota!Publish(v, b) \/ Ota!Enqueue(v, b)
                                                     \/ Ota!UpdateOutdated(v, b)
    PROVE  OtaInv'
  <1> USE OtaConstants
  <1>1. PICK v \in Versions : \/ Ota!SetCurrent(v) \/ Ota!Queued(v)
                              \/ \E b \in BOOLEAN : Ota!Publish(v, b) \/ Ota!Enqueue(v, b)
    BY DEF Ota!UpdateOutdated
  <1>2. /\ UNCHANGED <<tree, stamp, deps, cut, thrown, proc, fallen>>
        /\ status' = status \/ status' = [version |-> v, phase |-> "pending"]
    BY <1>1 DEF Ota!SetCurrent, Ota!Queued, Ota!Publish, Ota!Enqueue, Ota!Tell, Ota!Disk
  <1>3. status' \in Ota!Statuses \cup {Nothing}
    BY <1>2 DEF OtaInv, Ota!OtaTypeOK, Ota!Statuses, Ota!Phases
  <1>4. Ota!OtaTypeOK'
    <2>1. CASE Ota!SetCurrent(v)
      BY <1>2, <1>3, <2>1 DEF OtaInv, Ota!OtaTypeOK, Ota!SetCurrent
    <2>2. CASE Ota!Queued(v)
      BY <1>2, <1>3, <2>2 DEF OtaInv, Ota!OtaTypeOK, Ota!Queued
    <2>3. ASSUME NEW b \in BOOLEAN, Ota!Publish(v, b) PROVE Ota!OtaTypeOK'
      BY <1>2, <1>3, <2>3 DEF OtaInv, Ota!OtaTypeOK, Ota!Publish
    <2>4. ASSUME NEW b \in BOOLEAN, Ota!Enqueue(v, b) PROVE Ota!OtaTypeOK'
      BY <1>2, <1>3, <2>4 DEF OtaInv, Ota!OtaTypeOK, Ota!Enqueue, Ota!OtaJobs
    <2> QED  BY <1>1, <2>1, <2>2, <2>3, <2>4
  <1>5. SaysDone' => SaysDone /\ status' = status
    BY <1>2 DEF SaysDone
  <1> QED  BY <1>2, <1>4, <1>5 DEF OtaInv, ProcRec, JobHeld, DoneTold, TreeWhole, DepsMatch

\* The types of what the process changes.
LEMMA OtaTypes ==
    ASSUME OtaInv, Ota!Advance \/ Ota!Throw \/ Ota!Refused \/ Ota!Crash
    PROVE  Ota!OtaTypeOK' /\ ProcRec'
  <1> USE OtaConstants
  <1>1. /\ proc \in [at : Busy \cup {"boot", "idle", "mark", "clearmark"}, runs : Versions,
                     job : Ota!OtaJobs \cup {Nothing}]
        /\ proc.at \in Busy => /\ proc.job \in Ota!OtaJobs /\ proc.job.version \in Versions
    BY DEF OtaInv, ProcRec, JobHeld, Ota!OtaJobs
  <1>2. /\ UNCHANGED <<released, current, queueing, asked>>
        /\ jobKey' = jobKey \/ jobKey' = Nothing
    BY DEF Ota!Advance, Ota!Throw, Ota!Refused, Ota!Crash, Ota!Boot, Ota!MarkDone, Ota!ClearMarked, Ota!Take,
       Ota!SkipDone, Ota!Fetch, Ota!Stage, Ota!Copy, Ota!Stamp, Ota!Install, Ota!Installed,
       Ota!Restarting, Ota!ClearJob, Ota!Exit, Ota!Fail, Ota!Redis, Ota!NoAdmin
  <1>3. ProcRec'
    <2>1. CASE Ota!Boot
      BY <2>1 DEF Ota!Boot, OtaInv, Ota!OtaTypeOK, ProcRec
    <2>2. CASE Ota!Take
      BY <1>1, <2>2 DEF Ota!Take, OtaInv, Ota!OtaTypeOK, ProcRec, Busy
    <2>3. CASE proc' = proc
      BY <2>3 DEF OtaInv, ProcRec
    <2>4. ASSUME NEW at \in Busy \cup {"boot", "idle", "mark", "clearmark"}, Ota!To(at) \/ Ota!NoJob(at)
          PROVE  ProcRec'
      BY <1>1, <2>4 DEF Ota!To, Ota!NoJob, ProcRec
    <2> QED
      BY <2>1, <2>2, <2>3, <2>4 DEF Busy, Ota!AfterFailure,
         Ota!Advance, Ota!Throw, Ota!Refused, Ota!Crash, Ota!MarkDone, Ota!ClearMarked,
         Ota!SkipDone, Ota!Fetch, Ota!Stage, Ota!Copy, Ota!Stamp, Ota!Install, Ota!Installed,
         Ota!Restarting, Ota!ClearJob, Ota!Exit, Ota!Fail
  <1>4. status' \in Ota!Statuses \cup {Nothing}
    BY <1>1 DEF OtaInv, Ota!OtaTypeOK, Busy, Ota!Statuses, Ota!Phases, Ota!Tell,
       Ota!Advance, Ota!Throw, Ota!Refused, Ota!Crash, Ota!Boot, Ota!MarkDone, Ota!ClearMarked, Ota!Take,
       Ota!SkipDone, Ota!Fetch, Ota!Stage, Ota!Copy, Ota!Stamp, Ota!Install, Ota!Installed,
       Ota!Restarting, Ota!ClearJob, Ota!Exit, Ota!Fail, Ota!AtOta, Ota!Redis
  <1>5. /\ stamp' \in Versions /\ deps' \in Versions /\ cut' \subseteq Versions
        /\ tree' \in [Files -> Versions] /\ thrown' \in BOOLEAN
    BY <1>1 DEF OtaInv, Ota!OtaTypeOK, Busy, Ota!Cut,
       Ota!Advance, Ota!Throw, Ota!Refused, Ota!Crash, Ota!Boot, Ota!MarkDone, Ota!ClearMarked, Ota!Take,
       Ota!SkipDone, Ota!Fetch, Ota!Stage, Ota!Copy, Ota!Stamp, Ota!Install, Ota!Installed,
       Ota!Restarting, Ota!ClearJob, Ota!Exit, Ota!Fail, Ota!AtOta, Ota!Disk
  <1>6. fallen' \in 0..MaxCrashes
    BY DEF OtaInv, Ota!OtaTypeOK,
       Ota!Advance, Ota!Throw, Ota!Refused, Ota!Crash, Ota!Boot, Ota!MarkDone, Ota!ClearMarked, Ota!Take,
       Ota!SkipDone, Ota!Fetch, Ota!Stage, Ota!Copy, Ota!Stamp, Ota!Install, Ota!Installed,
       Ota!Restarting, Ota!ClearJob, Ota!Exit, Ota!Fail
  <1>7. /\ proc'.at \in Busy \cup {"boot", "idle", "mark", "clearmark"}
        /\ proc'.runs \in Versions /\ proc'.job \in Ota!OtaJobs \cup {Nothing}
    BY <1>3 DEF ProcRec
  <1>8. Ota!OtaTypeOK'
    BY <1>2, <1>4, <1>5, <1>6, <1>7 DEF OtaInv, Ota!OtaTypeOK, Busy, Ota!Working
  <1> QED  BY <1>3, <1>8

\* The steps that move the process and tell a status, and leave the files alone.
LEMMA OtaTells ==
    ASSUME OtaInv,
           \/ Ota!Boot \/ Ota!MarkDone \/ Ota!ClearMarked \/ Ota!Take \/ Ota!SkipDone
           \/ Ota!Fetch \/ Ota!Stage \/ Ota!Install \/ Ota!Restarting \/ Ota!ClearJob
           \/ Ota!Exit \/ Ota!Fail \/ Ota!Refused
    PROVE  JobHeld' /\ DoneTold' /\ TreeWhole' /\ DepsMatch'
  <1> USE OtaConstants DEF OtaInv, ProcRec, Busy, Updating, SaysDone, Ota!AtOta, Ota!To, Ota!Tell,
          Ota!NoJob, Ota!NoAdmin, Ota!Redis, Ota!Disk, Ota!OtaTypeOK, Ota!Statuses
  <1>1. CASE Ota!Boot
    BY <1>1 DEF Ota!Boot, JobHeld, DoneTold, TreeWhole, DepsMatch
  <1>2. CASE Ota!MarkDone
    BY <1>2 DEF Ota!MarkDone, JobHeld, DoneTold, TreeWhole, DepsMatch
  <1>3. CASE Ota!ClearMarked
    BY <1>3 DEF Ota!ClearMarked, JobHeld, DoneTold, TreeWhole, DepsMatch
  <1>4. CASE Ota!Take
    BY <1>4 DEF Ota!Take, JobHeld, DoneTold, TreeWhole, DepsMatch
  <1>5. CASE Ota!SkipDone
    BY <1>5 DEF Ota!SkipDone, JobHeld, DoneTold, TreeWhole, DepsMatch
  <1>6. CASE Ota!Fetch
    BY <1>6 DEF Ota!Fetch, JobHeld, DoneTold, TreeWhole, DepsMatch
  <1>7. CASE Ota!Stage
    BY <1>7 DEF Ota!Stage, JobHeld, DoneTold, TreeWhole, DepsMatch
  <1>8. CASE Ota!Install
    BY <1>8 DEF Ota!Install, Ota!RequiresInstall, JobHeld, DoneTold, TreeWhole, DepsMatch
  <1>9. CASE Ota!Restarting
    BY <1>9 DEF Ota!Restarting, JobHeld, DoneTold, TreeWhole, DepsMatch
  <1>10. CASE Ota!ClearJob
    BY <1>10 DEF Ota!ClearJob, JobHeld, DoneTold, TreeWhole, DepsMatch
  <1>11. CASE Ota!Exit
    BY <1>11 DEF Ota!Exit, JobHeld, DoneTold, TreeWhole, DepsMatch
  <1>12. CASE Ota!Fail
    BY <1>12 DEF Ota!Fail, Ota!AfterFailure, JobHeld, DoneTold, TreeWhole, DepsMatch
  <1>13. CASE Ota!Refused
    BY <1>13 DEF Ota!Refused, Ota!AfterFailure, JobHeld, DoneTold, TreeWhole, DepsMatch
  <1> QED  BY <1>1, <1>2, <1>3, <1>4, <1>5, <1>6, <1>7, <1>8, <1>9, <1>10, <1>11, <1>12, <1>13

\* The steps that change the files, or break off.
LEMMA OtaWrites ==
    ASSUME OtaInv, (\E f \in Files : Ota!Copy(f)) \/ Ota!Stamp \/ Ota!Installed \/ Ota!Throw \/ Ota!Crash
    PROVE  JobHeld' /\ DoneTold' /\ TreeWhole' /\ DepsMatch'
  <1> USE OtaConstants DEF OtaInv, ProcRec, Busy, Updating, SaysDone, Ota!AtOta, Ota!To,
          Ota!NoJob, Ota!Redis, Ota!OtaTypeOK, Ota!Needed
  <1>1. ASSUME NEW f \in Files, Ota!Copy(f) PROVE JobHeld' /\ DoneTold' /\ TreeWhole' /\ DepsMatch'
    BY <1>1 DEF Ota!Copy, JobHeld, DoneTold, TreeWhole, DepsMatch
  <1>2. CASE Ota!Stamp
    BY <1>2 DEF Ota!Stamp, Ota!ReadyToStamp, JobHeld, DoneTold, TreeWhole, DepsMatch
  <1>3. CASE Ota!Installed
    BY <1>3 DEF Ota!Installed, JobHeld, DoneTold, TreeWhole, DepsMatch
  <1>4. ASSUME cut' = Ota!Cut, UNCHANGED <<tree, stamp>>, cut' \subseteq {stamp}
        PROVE  \A f \in Files : tree[f] = stamp
    <2>1. CASE proc.at # "copy"  BY <1>4, <2>1 DEF Ota!Cut, TreeWhole
    <2>2. CASE proc.at = "copy" /\ Ota!Needed(proc.job.version) = Files
      BY <1>4, <2>2 DEF Ota!Cut, TreeWhole
    <2>3. CASE proc.at = "copy" /\ Ota!Needed(proc.job.version) # Files
      BY <1>4, <2>3 DEF Ota!Cut, TreeWhole
    <2> QED  BY <2>1, <2>2, <2>3
  <1>5. CASE Ota!Throw
    BY <1>4, <1>5 DEF Ota!Throw, Ota!Working, JobHeld, DoneTold, TreeWhole, DepsMatch
  <1>6. CASE Ota!Crash
    BY <1>4, <1>6 DEF Ota!Crash, JobHeld, DoneTold, TreeWhole, DepsMatch
  <1> QED  BY <1>1, <1>2, <1>3, <1>5, <1>6

LEMMA OtaStep == OtaInv /\ [Ota!Next]_otaVars => OtaInv'
  <1> SUFFICES ASSUME OtaInv, [Ota!Next]_otaVars PROVE OtaInv'
    OBVIOUS
  <1>1. CASE Ota!Advance \/ Ota!Throw \/ Ota!Refused \/ Ota!Crash
    BY <1>1, OtaTypes, OtaTells, OtaWrites DEF Ota!Advance, OtaInv
  <1>2. CASE \E v \in Versions : \/ Ota!SetCurrent(v) \/ Ota!Queued(v)
                                 \/ \E b \in BOOLEAN : \/ Ota!Publish(v, b) \/ Ota!Enqueue(v, b)
                                                       \/ Ota!UpdateOutdated(v, b)
    BY <1>2, OtaAsked
  <1>3. CASE UNCHANGED otaVars
    BY <1>3 DEF otaVars, OtaInv, Ota!OtaTypeOK, ProcRec, JobHeld, DoneTold, TreeWhole, DepsMatch, SaysDone
  <1> QED  BY <1>1, <1>2, <1>3 DEF Ota!Next

-----------------------------------------------------------------------------
(* Sums over finite sets                                                   *)

\* A set of naturals that is not empty has a least element.
LEMMA Least ==
    ASSUME NEW U \in SUBSET Nat, U # {}
    PROVE  \E u \in U : \A v \in U : u <= v
  <1>1. PICK u \in U : \A v \in U : ~(<<v, u>> \in OpToRel(<, Nat))
    BY NatLessThanWellFounded, WFMin
  <1>2. \A v \in U : ~(v < u)
    BY <1>1 DEF OpToRel
  <1> QED  BY <1>2

\* Induction over the subsets of a finite set: what holds of a set when it holds
\* of the set without any one of its elements, holds of them all.
LEMMA Shrinks ==
    ASSUME NEW S, IsFiniteSet(S), NEW P, \A T \in SUBSET S : (\A x \in T : T \ {x} \in P) => T \in P
    PROVE  \A T \in SUBSET S : T \in P
  <1> DEFINE Size(T) == Cardinality(T)
             U == {n \in Nat : \E T \in SUBSET S : T \notin P /\ Cardinality(T) = n}
  <1>1. SUFFICES ASSUME NEW R \in SUBSET S, R \notin P PROVE FALSE
    OBVIOUS
  <1>2. \A T \in SUBSET S : IsFiniteSet(T) /\ Cardinality(T) \in Nat
    BY FS_Subset, FS_CardinalityType
  <1>3. U \in SUBSET Nat /\ U # {}
    BY <1>1, <1>2
  <1>4. PICK u \in U : \A v \in U : u <= v
    BY <1>3, Least
  <1>5. PICK T \in SUBSET S : T \notin P /\ Cardinality(T) = u
    BY <1>4
  <1>6. ASSUME NEW x \in T PROVE T \ {x} \in P
    <2>1. Cardinality(T \ {x}) = u - 1 /\ Cardinality(T \ {x}) \in Nat
      BY <1>2, <1>5, FS_RemoveElement
    <2>2. T \ {x} \in SUBSET S /\ u \in Nat
      BY <1>4
    <2>3. u - 1 \notin U
      BY <1>4, <2>1, <2>2
    <2> QED  BY <2>1, <2>2, <2>3
  <1> QED  BY <1>5, <1>6

\* The element a fold takes first, and what Total(f, S) is defined from.
First(s) == CHOOSE x \in s : TRUE
SumsUp(g, f, S) == g = [s \in SUBSET S |-> IF s = {} THEN 0 ELSE f[First(s)] + g[s \ {First(s)}]]

LEMMA TotalIs == ASSUME NEW f, NEW S PROVE Total(f, S) = (CHOOSE g : SumsUp(g, f, S))[S]
  BY DEF Total, FoldFunctionOnSet, MapThenFoldSet, SumsUp, First

LEMMA FirstIn == ASSUME NEW s, s # {} PROVE First(s) \in s
  BY DEF First

LEMMA SumsAgree ==
    ASSUME NEW f, NEW S, IsFiniteSet(S), NEW g, SumsUp(g, f, S), NEW h, SumsUp(h, f, S)
    PROVE  g[S] = h[S]
  <1> DEFINE P == {s \in SUBSET S : g[s] = h[s]}
  <1>1. ASSUME NEW s \in SUBSET S, \A x \in s : s \ {x} \in P PROVE s \in P
    <2>1. g[s] = (IF s = {} THEN 0 ELSE f[First(s)] + g[s \ {First(s)}])
      BY DEF SumsUp
    <2>2. h[s] = (IF s = {} THEN 0 ELSE f[First(s)] + h[s \ {First(s)}])
      BY DEF SumsUp
    <2>3. s # {} => s \ {First(s)} \in P
      BY <1>1, FirstIn
    <2> QED  BY <2>1, <2>2, <2>3
  <1> HIDE DEF P
  <1>2. S \in P
    BY <1>1, Shrinks
  <1> QED  BY <1>2 DEF P

\* A sum is its first element and the sum of the rest.
Peels(f, s) == Total(f, s) = IF s = {} THEN 0 ELSE f[First(s)] + Total(f, s \ {First(s)})

LEMMA SumPeels == ASSUME NEW f, NEW S, IsFiniteSet(S) PROVE Peels(f, S)
  <1> DEFINE P == {T \in SUBSET S : \A s \in SUBSET T : Peels(f, s)}
  <1>1. ASSUME NEW T \in SUBSET S, \A x \in T : T \ {x} \in P PROVE T \in P
    <2>1. ASSUME NEW s \in SUBSET T, s # T PROVE Peels(f, s)
      <3>1. PICK x \in T : x \notin s
        BY <2>1
      <3> QED  BY <1>1, <3>1
    <2> DEFINE whole == IF T = {} THEN 0 ELSE f[First(T)] + Total(f, T \ {First(T)})
               g == [s \in SUBSET T |-> IF s = T THEN whole ELSE Total(f, s)]
    <2>2. SumsUp(g, f, T)
      <3>1. ASSUME NEW s \in SUBSET T
            PROVE  g[s] = IF s = {} THEN 0 ELSE f[First(s)] + g[s \ {First(s)}]
        <4>1. s # {} => First(s) \in s /\ s \ {First(s)} # T /\ s \ {First(s)} \in SUBSET T
          BY FirstIn
        <4>2. s # {} => g[s \ {First(s)}] = Total(f, s \ {First(s)})
          BY <4>1
        <4>3. CASE s = T
          <5>1. g[s] = whole  BY <4>3
          <5> QED  BY <4>2, <4>3, <5>1
        <4>4. CASE s # T
          <5>1. g[s] = Total(f, s) /\ Peels(f, s)  BY <2>1, <4>4
          <5> QED  BY <4>2, <5>1 DEF Peels
        <4> QED  BY <4>3, <4>4
      <3> HIDE DEF whole
      <3>2. g = [s \in SUBSET T |-> g[s]]
        OBVIOUS
      <3> HIDE DEF g
      <3> QED  BY <3>1, <3>2 DEF SumsUp
    <2>3. g[T] = whole
      OBVIOUS
    <2> HIDE DEF g, whole
    <2>4. PICK h : h = CHOOSE e : SumsUp(e, f, T)
      OBVIOUS
    <2>5. SumsUp(h, f, T)
      BY <2>2, <2>4
    <2>6. Total(f, T) = h[T]
      BY <2>4, TotalIs
    <2>7. IsFiniteSet(T)
      BY FS_Subset
    <2>8. h[T] = g[T]
      BY <2>2, <2>5, <2>7, SumsAgree
    <2>9. Peels(f, T)
      BY <2>3, <2>6, <2>8 DEF Peels, whole
    <2> QED  BY <2>1, <2>9
  <1> HIDE DEF P
  <1>2. S \in P
    BY <1>1, Shrinks
  <1> QED  BY <1>2 DEF P

\* A sum of integers is one, and is any of them and the sum of the rest.
SumsWell(f, S) == Total(f, S) \in Int /\ \A x \in S : Total(f, S) = f[x] + Total(f, S \ {x})

LEMMA SumOne ==
    ASSUME NEW D, NEW f \in [D -> Int], NEW S \in SUBSET D, IsFiniteSet(S)
    PROVE  SumsWell(f, S)
  <1> DEFINE P == {T \in SUBSET S : \A s \in SUBSET T : SumsWell(f, s)}
  <1>1. ASSUME NEW T \in SUBSET S, \A x \in T : T \ {x} \in P PROVE T \in P
    <2>1. ASSUME NEW s \in SUBSET T, s # T PROVE SumsWell(f, s)
      <3>1. PICK x \in T : x \notin s
        BY <2>1
      <3> QED  BY <1>1, <3>1
    <2>2. IsFiniteSet(T)
      BY FS_Subset
    <2>3. Peels(f, T)
      BY <2>2, SumPeels
    <2>4. CASE T = {}
      <3>1. Total(f, T) = 0
        BY <2>3, <2>4 DEF Peels
      <3>2. SumsWell(f, T)
        BY <2>4, <3>1 DEF SumsWell
      <3> QED  BY <2>1, <3>2
    <2>5. CASE T # {}
      <3>1. PICK c \in T : c = First(T)
        BY <2>5, FirstIn
      <3>2. Total(f, T) = f[c] + Total(f, T \ {c})
        BY <2>3, <2>5, <3>1 DEF Peels
      <3>3. SumsWell(f, T \ {c}) /\ f[c] \in Int
        BY <2>1
      <3>4. Total(f, T) \in Int
        BY <3>2, <3>3 DEF SumsWell
      <3>5. ASSUME NEW x \in T, x # c PROVE Total(f, T) = f[x] + Total(f, T \ {x})
        <4>1. SumsWell(f, T \ {x}) /\ f[x] \in Int
          BY <2>1
        <4>2. x \in T \ {c} /\ c \in T \ {x}
          BY <3>5
        <4>3. PICK R : R = (T \ {c}) \ {x}
          OBVIOUS
        <4>4. (T \ {x}) \ {c} = R
          BY <4>3
        <4>5. SumsWell(f, R)
          <5>1. R \in SUBSET T /\ R # T
            BY <4>3
          <5> QED  BY <2>1, <5>1
        <4>6. Total(f, T \ {c}) = f[x] + Total(f, R)
          BY <3>3, <4>2, <4>3 DEF SumsWell
        <4>7. Total(f, T \ {x}) = f[c] + Total(f, R)
          BY <4>1, <4>2, <4>4 DEF SumsWell
        <4>8. Total(f, R) \in Int
          BY <4>5 DEF SumsWell
        <4> QED  BY <3>2, <3>3, <4>1, <4>6, <4>7, <4>8
      <3>6. SumsWell(f, T)
        BY <3>2, <3>4, <3>5 DEF SumsWell
      <3> QED  BY <2>1, <3>6
    <2> QED  BY <2>4, <2>5
  <1> HIDE DEF P
  <1>2. S \in P
    BY <1>1, Shrinks
  <1> QED  BY <1>2 DEF P

LEMMA SumEmpty == ASSUME NEW f PROVE Total(f, {}) = 0
  BY SumPeels, FS_EmptySet DEF Peels

\* A sum over a set with an element more.
LEMMA SumMore ==
    ASSUME NEW D, NEW f \in [D -> Int], NEW S \in SUBSET D, IsFiniteSet(S), NEW x \in D \ S
    PROVE  Total(f, S \cup {x}) = f[x] + Total(f, S)
  <1>1. PICK R : R = S \cup {x}
    OBVIOUS
  <1>2. R \in SUBSET D /\ IsFiniteSet(R) /\ x \in R /\ R \ {x} = S
    BY <1>1, FS_AddElement
  <1>3. SumsWell(f, R)
    BY <1>2, SumOne
  <1> QED  BY <1>1, <1>2, <1>3 DEF SumsWell

\* Sums of functions that are related element by element are related alike.
LEMMA SumLess ==
    ASSUME NEW D, NEW f \in [D -> Int], NEW g \in [D -> Int], NEW S \in SUBSET D, IsFiniteSet(S),
           \A x \in S : f[x] <= g[x]
    PROVE  Total(f, S) <= Total(g, S)
  <1> DEFINE P == {T \in SUBSET S : Total(f, T) <= Total(g, T)}
  <1>1. ASSUME NEW T \in SUBSET S, \A x \in T : T \ {x} \in P PROVE T \in P
    <2>1. SumsWell(f, T) /\ SumsWell(g, T)
      BY FS_Subset, SumOne
    <2>2. CASE T = {}
      BY <2>2, SumEmpty
    <2>3. CASE T # {}
      <3>1. PICK x \in T : TRUE
        BY <2>3
      <3>2. IsFiniteSet(T \ {x})
        BY FS_Subset
      <3>3. SumsWell(f, T \ {x}) /\ SumsWell(g, T \ {x})
        BY <3>2, SumOne
      <3>4. Total(f, T \ {x}) <= Total(g, T \ {x})
        BY <1>1
      <3>5. f[x] <= g[x] /\ f[x] \in Int /\ g[x] \in Int
        OBVIOUS
      <3>6. Total(f, T) = f[x] + Total(f, T \ {x}) /\ Total(g, T) = g[x] + Total(g, T \ {x})
        BY <2>1 DEF SumsWell
      <3>7. Total(f, T) <= Total(g, T)
        BY <3>3, <3>4, <3>5, <3>6 DEF SumsWell
      <3> QED  BY <3>7
    <2> QED  BY <2>2, <2>3
  <1> HIDE DEF P
  <1>2. S \in P
    BY <1>1, Shrinks
  <1> QED  BY <1>2 DEF P

LEMMA SumSame ==
    ASSUME NEW D, NEW f \in [D -> Int], NEW g \in [D -> Int], NEW S \in SUBSET D, IsFiniteSet(S),
           \A x \in S : f[x] = g[x]
    PROVE  Total(f, S) = Total(g, S)
  <1>1. \A x \in S : f[x] <= g[x] /\ g[x] <= f[x]
    OBVIOUS
  <1>2. Total(f, S) <= Total(g, S) /\ Total(g, S) <= Total(f, S)
    BY <1>1, SumLess
  <1>3. SumsWell(f, S) /\ SumsWell(g, S)
    BY SumOne
  <1> QED  BY <1>2, <1>3 DEF SumsWell

LEMMA SumAdds ==
    ASSUME NEW D, NEW f \in [D -> Int], NEW g \in [D -> Int], NEW h \in [D -> Int],
           NEW S \in SUBSET D, IsFiniteSet(S), \A x \in S : h[x] = f[x] + g[x]
    PROVE  Total(h, S) = Total(f, S) + Total(g, S)
  <1> DEFINE P == {T \in SUBSET S : Total(h, T) = Total(f, T) + Total(g, T)}
  <1>1. ASSUME NEW T \in SUBSET S, \A x \in T : T \ {x} \in P PROVE T \in P
    <2>1. SumsWell(f, T) /\ SumsWell(g, T) /\ SumsWell(h, T)
      BY FS_Subset, SumOne
    <2>2. CASE T = {}
      BY <2>2, SumEmpty
    <2>3. CASE T # {}
      <3>1. PICK x \in T : TRUE
        BY <2>3
      <3>2. IsFiniteSet(T \ {x})
        BY FS_Subset
      <3>3. SumsWell(f, T \ {x}) /\ SumsWell(g, T \ {x}) /\ SumsWell(h, T \ {x})
        BY <3>2, SumOne
      <3>4. Total(h, T \ {x}) = Total(f, T \ {x}) + Total(g, T \ {x})
        BY <1>1
      <3> QED  BY <2>1, <3>3, <3>4 DEF SumsWell
    <2> QED  BY <2>2, <2>3
  <1> HIDE DEF P
  <1>2. S \in P
    BY <1>1, Shrinks
  <1> QED  BY <1>2 DEF P

LEMMA SumTimes ==
    ASSUME NEW D, NEW f \in [D -> Int], NEW h \in [D -> Int], NEW k \in Int,
           NEW S \in SUBSET D, IsFiniteSet(S), \A x \in S : h[x] = k * f[x]
    PROVE  Total(h, S) = k * Total(f, S)
  <1> DEFINE P == {T \in SUBSET S : Total(h, T) = k * Total(f, T)}
  <1>1. ASSUME NEW T \in SUBSET S, \A x \in T : T \ {x} \in P PROVE T \in P
    <2>1. SumsWell(f, T) /\ SumsWell(h, T)
      BY FS_Subset, SumOne
    <2>2. CASE T = {}
      BY <2>2, SumEmpty
    <2>3. CASE T # {}
      <3>1. PICK x \in T : TRUE
        BY <2>3
      <3>2. IsFiniteSet(T \ {x})
        BY FS_Subset
      <3>3. SumsWell(f, T \ {x})
        BY <3>2, SumOne
      <3>4. Total(h, T \ {x}) = k * Total(f, T \ {x})
        BY <1>1
      <3>5. PICK a \in Int, b \in Int : a = f[x] /\ b = Total(f, T \ {x})
        BY <3>3 DEF SumsWell
      <3>6. Total(h, T) = k * a + k * b /\ Total(f, T) = a + b
        BY <2>1, <3>4, <3>5 DEF SumsWell
      <3>7. k * (a + b) = k * a + k * b
        OBVIOUS
      <3> QED  BY <3>6, <3>7
    <2> QED  BY <2>2, <2>3
  <1> HIDE DEF P
  <1>2. S \in P
    BY <1>1, Shrinks
  <1> QED  BY <1>2 DEF P

\* A sum over a set is that over a part of it and over the rest.
LEMMA SumParts ==
    ASSUME NEW D, NEW f \in [D -> Int], NEW S \in SUBSET D, IsFiniteSet(S), NEW R \in SUBSET S
    PROVE  Total(f, S) = Total(f, R) + Total(f, S \ R)
  <1> DEFINE P == {T \in SUBSET R : Total(f, S) = Total(f, T) + Total(f, S \ T)}
  <1>1. ASSUME NEW T \in SUBSET R, \A x \in T : T \ {x} \in P PROVE T \in P
    <2>1. CASE T = {}
      <3>1. S \ T = S /\ Total(f, S) \in Int
        BY <2>1, SumOne DEF SumsWell
      <3> QED  BY <2>1, <3>1, SumEmpty
    <2>2. CASE T # {}
      <3>1. PICK x \in T : TRUE
        BY <2>2
      <3>2. PICK U : U = S \ (T \ {x})
        OBVIOUS
      <3>3. U \in SUBSET D /\ IsFiniteSet(U) /\ IsFiniteSet(T) /\ x \in U /\ U \ {x} = S \ T
            /\ IsFiniteSet(T \ {x})
        BY <3>2, FS_Subset
      <3>4. SumsWell(f, U) /\ SumsWell(f, T) /\ SumsWell(f, T \ {x})
        BY <3>3, SumOne
      <3>5. IsFiniteSet(S \ T) /\ S \ T \in SUBSET D
        BY FS_Subset
      <3>6. SumsWell(f, S \ T)
        BY <3>5, SumOne
      <3>7. Total(f, S) = Total(f, T \ {x}) + Total(f, U)
        BY <1>1, <3>2
      <3>8. Total(f, U) = f[x] + Total(f, S \ T) /\ Total(f, T) = f[x] + Total(f, T \ {x})
        BY <3>3, <3>4 DEF SumsWell
      <3>9. f[x] \in Int /\ Total(f, S \ T) \in Int /\ Total(f, T \ {x}) \in Int
        BY <3>4, <3>6 DEF SumsWell
      <3> QED  BY <3>7, <3>8, <3>9
    <2> QED  BY <2>1, <2>2
  <1> HIDE DEF P
  <1>2. IsFiniteSet(R)
    BY FS_Subset
  <1>3. R \in P
    BY <1>1, <1>2, Shrinks
  <1> QED  BY <1>3 DEF P

\* How many elements of S are in L.
LEMMA SumCounts ==
    ASSUME NEW D, NEW f \in [D -> Int], NEW S \in SUBSET D, IsFiniteSet(S), NEW L,
           \A x \in S : f[x] = IF x \in L THEN 1 ELSE 0
    PROVE  Total(f, S) = Cardinality(S \cap L)
  <1> DEFINE P == {T \in SUBSET S : Total(f, T) = Cardinality(T \cap L)}
  <1>1. ASSUME NEW T \in SUBSET S, \A x \in T : T \ {x} \in P PROVE T \in P
    <2>1. SumsWell(f, T)
      BY FS_Subset, SumOne
    <2>2. CASE T = {}
      BY <2>2, SumEmpty, FS_EmptySet
    <2>3. CASE T # {}
      <3>1. PICK x \in T : TRUE
        BY <2>3
      <3>2. PICK U : U = T \cap L
        OBVIOUS
      <3>3. IsFiniteSet(U) /\ Cardinality(U) \in Nat
        BY <3>2, FS_Subset, FS_CardinalityType
      <3>4. Total(f, T \ {x}) = Cardinality((T \ {x}) \cap L) /\ (T \ {x}) \cap L = U \ {x}
        BY <1>1, <3>2
      <3>5. Cardinality(U \ {x}) = IF x \in U THEN Cardinality(U) - 1 ELSE Cardinality(U)
        BY <3>3, FS_RemoveElement
      <3>6. Total(f, T) = f[x] + Cardinality(U \ {x})
        BY <2>1, <3>4 DEF SumsWell
      <3>7. x \in U <=> x \in L
        BY <3>2
      <3> QED  BY <3>2, <3>3, <3>5, <3>6, <3>7
    <2> QED  BY <2>2, <2>3
  <1> HIDE DEF P
  <1>2. S \in P
    BY <1>1, Shrinks
  <1> QED  BY <1>2 DEF P

LEMMA SumNat ==
    ASSUME NEW D, NEW f \in [D -> Int], NEW S \in SUBSET D, IsFiniteSet(S), \A x \in S : f[x] \in Nat
    PROVE  Total(f, S) \in Nat /\ \A x \in S : f[x] <= Total(f, S)
  <1> DEFINE P == {T \in SUBSET S : Total(f, T) \in Nat}
  <1>1. ASSUME NEW T \in SUBSET S, \A x \in T : T \ {x} \in P PROVE T \in P
    <2>1. SumsWell(f, T)
      BY FS_Subset, SumOne
    <2>2. CASE T = {}
      BY <2>2, SumEmpty
    <2>3. CASE T # {}
      <3>1. PICK x \in T : TRUE
        BY <2>3
      <3>2. Total(f, T \ {x}) \in Nat
        BY <1>1
      <3> QED  BY <2>1, <3>2 DEF SumsWell
    <2> QED  BY <2>2, <2>3
  <1> HIDE DEF P
  <1>2. \A T \in SUBSET S : T \in P
    BY <1>1, Shrinks
  <1>3. ASSUME NEW x \in S PROVE f[x] <= Total(f, S)
    <2>1. Total(f, S \ {x}) \in Nat
      BY <1>2 DEF P
    <2>2. SumsWell(f, S)
      BY SumOne
    <2> QED  BY <2>1, <2>2 DEF SumsWell
  <1> QED  BY <1>2, <1>3 DEF P

-----------------------------------------------------------------------------
(* Broadcast                                                               *)

\* What Min and Max choose from the jobs, which are numbered.
LEMMA MinMax ==
    ASSUME NEW n \in Nat, NEW T \in SUBSET (1..n), T # {}
    PROVE  /\ Cast!Min(T) \in T /\ \A x \in T : Cast!Min(T) <= x
           /\ Cast!Max(T) \in T /\ \A x \in T : x <= Cast!Max(T)
  <1>1. \E m \in T : \A x \in T : m <= x
    BY Least
  <1>2. \E m \in T : \A x \in T : m >= x
    <2>1. {n - x : x \in T} \in SUBSET Nat /\ {n - x : x \in T} # {}
      <3>1. \A x \in T : n - x \in Nat  OBVIOUS
      <3> QED  BY <3>1
    <2>2. PICK u \in {n - x : x \in T} : \A v \in {n - x : x \in T} : u <= v
      BY <2>1, Least
    <2>3. PICK m \in T : u = n - m
      BY <2>2
    <2>4. \A x \in T : n - m <= n - x
      BY <2>2, <2>3
    <2> QED  BY <2>4
  <1> QED  BY <1>1, <1>2 DEF Cast!Min, Cast!Max

\* The first n recipients of a job were sent the text.
Sent(table, j, n) == \A i \in 1..n : table[j][i] >= 1

\* What a runner's copy says of its job: it is at most as far as the sends, and
\* finished only at the last recipient.
RunnerOK(r, table) ==
    /\ r \in Cast!RunnerState
    /\ r.pc # "idle" => /\ r.job \in Cast!Job /\ r.cursor <= Totals[r.job]
                        /\ Sent(table, r.job, r.cursor)
                        /\ r.status = "completed" => r.cursor = Totals[r.job]
    /\ r.pc \in {"check", "send"} => r.cursor < Totals[r.job]
    /\ r.pc \in {"mark", "point", "head", "check", "send"} => r.flush < FlushEvery

\* The same of the row of a job.
RowOK(j, q, table) ==
    /\ q \in Cast!Row /\ q.cursor <= Totals[j] /\ Sent(table, j, q.cursor)
    /\ q.status = "completed" => q.cursor = Totals[j]

\* The same of what a cancellation is about to write.
AdminOK(q, table) ==
    /\ q \in [pc : {"none", "set", "active", "clear"}, job : Cast!Job \cup {NoOne}, cursor : Nat]
    /\ q.pc # "none" => q.job \in Cast!Job /\ q.cursor <= Totals[q.job]
    /\ q.pc = "set" => Sent(table, q.job, q.cursor)

SendsOK(table) == DOMAIN table = Cast!Job /\ \A j \in Cast!Job : table[j] \in [1..Totals[j] -> 0..3]

CastInv ==
    /\ DOMAIN row = Cast!Job /\ row = [j \in Cast!Job |-> row[j]]
    /\ \A j \in Cast!Job : RowOK(j, row[j], sends)
    /\ DOMAIN runner = Worker /\ runner = [w \in Worker |-> runner[w]]
    /\ \A w \in Worker : RunnerOK(runner[w], sends)
    /\ AdminOK(admin, sends) /\ SendsOK(sends)
    /\ active \in Cast!Job \cup {NoOne} /\ jobLock \in [Cast!Job -> Worker \cup {NoOne}]
    /\ stopped \subseteq Worker
    /\ lockLost \subseteq Cast!Job /\ breaks \in Nat /\ mishaps \in 0..MaxMishaps

LEMMA CastConstants ==
    /\ NoOne \notin Worker /\ NoOne \notin Cast!Job
    /\ FlushEvery \in 1..5 /\ FlushEvery \in Nat /\ FlushEvery > 0 /\ MaxMishaps \in Nat
    /\ Len(Totals) \in Nat /\ Cast!Job = 1..Len(Totals) /\ \A j \in Cast!Job : Totals[j] \in Nat
  <1>1. Totals \in Seq(Nat)  BY ControlAssumption DEF ControlAssumption, Cast!BroadcastConstants
  <1> QED
    BY <1>1, ControlAssumption DEF ControlAssumption, Cast!BroadcastConstants, Cast!Job

LEMMA CastTyped == CastInv => Cast!TypeOK /\ Cast!CompletedReachedAll
  <1> SUFFICES ASSUME CastInv PROVE Cast!TypeOK /\ Cast!CompletedReachedAll
    OBVIOUS
  <1>1. Cast!TypeOK
    BY CastConstants DEF CastInv, Cast!TypeOK, RowOK, RunnerOK, AdminOK, SendsOK
  <1>2. Cast!CompletedReachedAll
    BY DEF CastInv, RowOK, Sent, Cast!CompletedReachedAll
  <1> QED  BY <1>1, <1>2

LEMMA CastIdle ==
    /\ Cast!Idle \in Cast!RunnerState
    /\ Cast!Idle.pc = "idle" /\ Cast!Idle.status = "none" /\ Cast!Idle.cursor = 0 /\ Cast!Idle.flush = 0
    /\ \A table : RunnerOK(Cast!Idle, table)
  BY CastConstants DEF RunnerOK, Cast!Idle, Cast!RunnerState, Cast!Status

LEMMA CastStart == Cast!Init => CastInv
  <1> SUFFICES ASSUME Cast!Init PROVE CastInv
    OBVIOUS
  <1>1. \A j \in Cast!Job : RowOK(j, row[j], sends)
    BY CastConstants DEF Cast!Init, RowOK, Cast!Row, Cast!Status, Sent
  <1>2. \A w \in Worker : RunnerOK(runner[w], sends)
    BY CastIdle DEF Cast!Init
  <1>3. AdminOK(admin, sends)
    BY DEF Cast!Init, Cast!NoCancel, AdminOK
  <1>4. SendsOK(sends)
    BY CastConstants DEF Cast!Init, SendsOK
  <1> QED  BY <1>1, <1>2, <1>3, <1>4, CastConstants DEF Cast!Init, CastInv

\* A step of a runner, together with the row it may write.
LEMMA CastMove ==
    ASSUME CastInv, NEW w \in Worker, NEW r, runner' = [runner EXCEPT ![w] = r],
           RunnerOK(r, sends), sends' = sends, admin' = admin,
           \/ row' = row
           \/ \E j \in Cast!Job : \E q : RowOK(j, q, sends) /\ row' = [row EXCEPT ![j] = q],
           active' \in Cast!Job \cup {NoOne}, jobLock' \in [Cast!Job -> Worker \cup {NoOne}],
           stopped' \subseteq Worker, lockLost' \subseteq Cast!Job,
           breaks' \in Nat, mishaps' \in 0..MaxMishaps
    PROVE  CastInv'
  <1>1. /\ DOMAIN row' = Cast!Job /\ row' = [j \in Cast!Job |-> row'[j]]
        /\ \A j \in Cast!Job : RowOK(j, row'[j], sends)
    BY DEF CastInv
  <1>2. /\ DOMAIN runner' = Worker /\ runner' = [v \in Worker |-> runner'[v]]
        /\ \A v \in Worker : RunnerOK(runner'[v], sends)
    BY DEF CastInv
  <1> QED  BY <1>1, <1>2 DEF CastInv

LEMMA CastRunner ==
    ASSUME CastInv, NEW w \in Worker
    PROVE  /\ RunnerOK(runner[w], sends) /\ runner[w] \in Cast!RunnerState
           /\ runner[w].pc # "idle" =>
                 /\ runner[w].job \in Cast!Job /\ Totals[runner[w].job] \in Nat
                 /\ RowOK(runner[w].job, row[runner[w].job], sends)
  BY CastConstants DEF CastInv, RunnerOK

\* The copy of a runner that only goes on to another stage.
LEMMA CastGoto ==
    ASSUME CastInv, NEW w \in Worker, NEW stage, runner[w].pc # "idle",
           stage \in {"lock", "load", "mark", "point", "head", "check", "drop", "send", "renew", "renewSet",
                   "flush", "final", "save", "clear", "failSave", "failClear", "unlock", "unlockDel"},
           stage \in {"check", "send"} => runner[w].cursor < Totals[runner[w].job],
           stage \in {"mark", "point", "head", "check", "send"} => runner[w].flush < FlushEvery
    PROVE  RunnerOK([runner[w] EXCEPT !.pc = stage], sends)
  <1> DEFINE r == [runner[w] EXCEPT !.pc = stage]
  <1>1. /\ runner[w] \in Cast!RunnerState /\ RunnerOK(runner[w], sends)  BY CastRunner
  <1>2. /\ r \in Cast!RunnerState /\ r.pc = stage /\ r.job = runner[w].job /\ r.cursor = runner[w].cursor
        /\ r.status = runner[w].status /\ r.flush = runner[w].flush
    BY <1>1 DEF Cast!RunnerState, Cast!Opening, Cast!Trying, Cast!Failing, Cast!Closing
  <1> HIDE DEF r
  <1>3. RunnerOK(r, sends)  BY <1>1, <1>2 DEF RunnerOK
  <1> QED  BY <1>3 DEF r

\* What a runner writes of its job, with a status that claims no more than it.
LEMMA CastSave ==
    ASSUME CastInv, NEW w \in Worker, runner[w].pc # "idle", NEW says \in Cast!Status,
           says = "completed" => runner[w].cursor = Totals[runner[w].job],
           Cast!Save(w, says)
    PROVE  \E j \in Cast!Job : \E q : RowOK(j, q, sends) /\ row' = [row EXCEPT ![j] = q]
  <1> DEFINE q == [status |-> says, cursor |-> runner[w].cursor]
  <1>1. /\ runner[w].job \in Cast!Job /\ runner[w].cursor \in Nat /\ RunnerOK(runner[w], sends)
    BY CastRunner DEF Cast!RunnerState
  <1>2. RowOK(runner[w].job, q, sends)
    BY <1>1 DEF RowOK, RunnerOK, Cast!Row
  <1> QED  BY <1>1, <1>2 DEF Cast!Save

LEMMA CastTick ==
    ASSUME CastInv, NEW w \in Worker, Cast!Tick(w)
    PROVE  CastInv'
  <1>1. Cast!FindNext \in Cast!Job
    <2>1. /\ Cast!Running \in SUBSET (1..Len(Totals)) /\ Cast!Pending \in SUBSET (1..Len(Totals))
      BY CastConstants DEF Cast!Running, Cast!Pending
    <2>2. /\ Cast!Running # {} => Cast!Max(Cast!Running) \in Cast!Job
          /\ Cast!Pending # {} => Cast!Min(Cast!Pending) \in Cast!Job
      BY <2>1, MinMax, CastConstants
    <2>3. Cast!FindNext # NoOne  BY DEF Cast!Tick
    <2> QED  BY <2>2, <2>3, CastConstants DEF Cast!FindNext, CastInv
  <1> DEFINE r == [Cast!Idle EXCEPT !.pc = "lock", !.job = Cast!FindNext]
  <1>2. r \in Cast!RunnerState /\ r.pc = "lock" /\ r.job = Cast!FindNext /\ r.cursor = 0
        /\ r.status = "none"
    BY <1>1, CastIdle DEF Cast!RunnerState, Cast!Opening
  <1>3. /\ runner' = [runner EXCEPT ![w] = r]
        /\ UNCHANGED <<row, active, jobLock, stopped, admin, sends, lockLost, breaks, mishaps>>
    BY DEF Cast!Tick, Cast!Set, Cast!Calm, Cast!redis, Cast!history
  <1> HIDE DEF r
  <1>4. RunnerOK(r, sends)
    BY <1>1, <1>2, CastConstants DEF RunnerOK, Sent
  <1> QED  BY <1>3, <1>4, CastMove DEF CastInv

LEMMA CastOpens ==
    ASSUME CastInv, NEW w \in Worker, Cast!Lock(w) \/ Cast!Load(w) \/ Cast!MarkRunning(w) \/ Cast!SetActive(w)
    PROVE  CastInv'
  <1>0. /\ RunnerOK(runner[w], sends) /\ runner[w] \in Cast!RunnerState
        /\ runner[w].job \in Cast!Job /\ Totals[runner[w].job] \in Nat
        /\ RowOK(runner[w].job, row[runner[w].job], sends) /\ runner[w].pc # "idle"
    BY CastRunner DEF Cast!Lock, Cast!Load, Cast!MarkRunning, Cast!SetActive, Cast!At
  <1>1. CASE Cast!Lock(w)
    <2>0. /\ runner[w].pc = "lock"
          /\ UNCHANGED <<row, active, stopped, admin, sends, lockLost, breaks, mishaps>>
      BY <1>1 DEF Cast!Lock, Cast!At, Cast!Calm, Cast!history
    <2>1. CASE Cast!Acquire(runner[w].job)
      <3>1. /\ jobLock' = [jobLock EXCEPT ![runner[w].job] = w]
            /\ runner' = [runner EXCEPT ![w] = [runner[w] EXCEPT !.pc = "load"]]
        BY <1>1, <2>1 DEF Cast!Lock, Cast!Goto, CastInv
      <3>2. RunnerOK([runner[w] EXCEPT !.pc = "load"], sends)  BY <1>0, CastGoto
      <3> QED  BY <1>0, <2>0, <3>1, <3>2, CastMove DEF CastInv
    <2>2. CASE ~Cast!Acquire(runner[w].job)
      <3>1. jobLock' = jobLock /\ runner' = [runner EXCEPT ![w] = Cast!Idle]
        BY <1>1, <2>2 DEF Cast!Lock, Cast!Set
      <3> QED  BY <2>0, <3>1, CastIdle, CastMove DEF CastInv
    <2> QED  BY <2>1, <2>2
  <1>2. CASE Cast!Load(w)
    <2> DEFINE j == runner[w].job
               r == [Cast!Idle EXCEPT !.pc = IF row[j].status \in {"cancelled", "completed"}
                                             THEN "unlock" ELSE "mark",
                                      !.job = j, !.status = row[j].status, !.cursor = row[j].cursor]
    <2>1. /\ runner' = [runner EXCEPT ![w] = r]
          /\ UNCHANGED <<row, active, jobLock, stopped, admin, sends, lockLost, breaks, mishaps>>
      BY <1>2 DEF Cast!Load, Cast!Set, Cast!Calm, Cast!redis, Cast!history
    <2>2. /\ r \in Cast!RunnerState /\ r.pc \in {"unlock", "mark"} /\ r.job = j /\ r.flush = 0
          /\ r.status = row[j].status /\ r.cursor = row[j].cursor
      <3>1. row[j].status \in Cast!Status /\ row[j].cursor \in Nat  BY <1>0 DEF RowOK, Cast!Row
      <3> QED  BY <1>0, <3>1, CastIdle DEF Cast!RunnerState, Cast!Trying, Cast!Closing
    <2> HIDE DEF r
    <2>3. RunnerOK(r, sends)  BY <1>0, <2>2, CastConstants DEF RunnerOK, RowOK
    <2> QED  BY <2>1, <2>3, CastMove DEF CastInv
  <1>3. CASE Cast!MarkRunning(w)
    <2>0. /\ runner[w].pc = "mark" /\ runner[w].flush < FlushEvery
          /\ UNCHANGED <<active, jobLock, stopped, admin, sends, lockLost, breaks, mishaps>>
      BY <1>0, <1>3 DEF Cast!MarkRunning, Cast!At, Cast!Calm, Cast!history, RunnerOK
    <2>1. CASE runner[w].status = "pending"
      <3> DEFINE r == [runner[w] EXCEPT !.pc = "point", !.status = "running"]
      <3>1. r \in Cast!RunnerState /\ r.pc = "point" /\ r.job = runner[w].job
            /\ r.status = "running" /\ r.cursor = runner[w].cursor /\ r.flush = runner[w].flush
        BY <1>0 DEF Cast!RunnerState, Cast!Trying, Cast!Status
      <3>2. Cast!Save(w, "running") /\ runner' = [runner EXCEPT ![w] = r]
        BY <1>3, <2>1 DEF Cast!MarkRunning, Cast!Set
      <3> HIDE DEF r
      <3>3. RunnerOK(r, sends)  BY <1>0, <2>0, <3>1 DEF RunnerOK
      <3>4. \E j \in Cast!Job : \E q : RowOK(j, q, sends) /\ row' = [row EXCEPT ![j] = q]
        BY <1>0, <3>2, CastSave DEF Cast!Status
      <3> QED  BY <2>0, <3>2, <3>3, <3>4, CastMove DEF CastInv
    <2>2. CASE runner[w].status # "pending"
      <3>1. row' = row /\ runner' = [runner EXCEPT ![w] = [runner[w] EXCEPT !.pc = "point"]]
        BY <1>3, <2>2 DEF Cast!MarkRunning, Cast!Goto, CastInv
      <3>2. RunnerOK([runner[w] EXCEPT !.pc = "point"], sends)  BY <1>0, <2>0, CastGoto
      <3> QED  BY <2>0, <3>1, <3>2, CastMove DEF CastInv
    <2> QED  BY <2>1, <2>2
  <1>4. CASE Cast!SetActive(w)
    <2>0. /\ runner[w].pc = "point" /\ runner[w].flush < FlushEvery /\ active' = runner[w].job
          /\ runner' = [runner EXCEPT ![w] = [runner[w] EXCEPT !.pc = "head"]]
          /\ UNCHANGED <<row, jobLock, stopped, admin, sends, lockLost, breaks, mishaps>>
      BY <1>0, <1>4 DEF Cast!SetActive, Cast!At, Cast!Goto, Cast!Calm, Cast!history, RunnerOK, CastInv
    <2>1. RunnerOK([runner[w] EXCEPT !.pc = "head"], sends)  BY <1>0, <2>0, CastGoto
    <2> QED  BY <1>0, <2>0, <2>1, CastMove DEF CastInv
  <1> QED  BY <1>1, <1>2, <1>3, <1>4

LEMMA CastLoops ==
    ASSUME CastInv, NEW w \in Worker,
           \/ Cast!NextRecipient(w) \/ Cast!CheckCancelled(w) \/ Cast!SaveCancelled(w)
           \/ Cast!RenewGet(w) \/ Cast!RenewSet(w)
    PROVE  CastInv'
  <1>0. /\ RunnerOK(runner[w], sends) /\ runner[w] \in Cast!RunnerState
        /\ runner[w].job \in Cast!Job /\ Totals[runner[w].job] \in Nat
        /\ runner[w].pc # "idle" /\ runner[w].cursor \in Nat
        /\ UNCHANGED <<active, stopped, admin, sends, lockLost, breaks, mishaps>>
    BY CastRunner DEF Cast!NextRecipient, Cast!CheckCancelled, Cast!SaveCancelled, Cast!RenewGet,
       Cast!RenewSet, Cast!At, Cast!Calm, Cast!redis, Cast!history, Cast!RunnerState
  <1>1. CASE Cast!NextRecipient(w)
    <2>1. PICK stage \in {"final", "check", "send"} :
            /\ runner' = [runner EXCEPT ![w] = [runner[w] EXCEPT !.pc = stage]]
            /\ stage # "final" => ~Cast!AtEnd(runner[w])
      BY <1>1 DEF Cast!NextRecipient, Cast!Goto, CastInv
    <2>2. /\ runner[w].pc = "head" /\ runner[w].flush < FlushEvery
          /\ UNCHANGED <<row, jobLock>>
      BY <1>0, <1>1 DEF Cast!NextRecipient, Cast!At, Cast!redis, RunnerOK
    <2>3. RunnerOK([runner[w] EXCEPT !.pc = stage], sends)
      BY <1>0, <2>1, <2>2, CastGoto DEF Cast!AtEnd, RunnerOK
    <2> QED  BY <1>0, <2>1, <2>2, <2>3, CastMove DEF CastInv
  <1>2. CASE Cast!CheckCancelled(w)
    <2>0. /\ runner[w].pc = "check" /\ runner[w].flush < FlushEvery
          /\ runner[w].cursor < Totals[runner[w].job] /\ UNCHANGED <<row, jobLock>>
      BY <1>0, <1>2 DEF Cast!CheckCancelled, Cast!At, Cast!redis, RunnerOK
    <2>1. CASE row[runner[w].job].status = "cancelled"
      <3> DEFINE r == [runner[w] EXCEPT !.pc = "drop", !.status = "cancelled"]
      <3>1. r \in Cast!RunnerState /\ r.pc = "drop" /\ r.job = runner[w].job
            /\ r.status = "cancelled" /\ r.cursor = runner[w].cursor
        BY <1>0 DEF Cast!RunnerState, Cast!Trying, Cast!Status
      <3>2. runner' = [runner EXCEPT ![w] = r]
        BY <1>2, <2>1 DEF Cast!CheckCancelled, Cast!Set
      <3> HIDE DEF r
      <3>3. RunnerOK(r, sends)  BY <1>0, <3>1 DEF RunnerOK
      <3> QED  BY <1>0, <2>0, <3>2, <3>3, CastMove DEF CastInv
    <2>2. CASE row[runner[w].job].status # "cancelled"
      <3>1. runner' = [runner EXCEPT ![w] = [runner[w] EXCEPT !.pc = "send"]]
        BY <1>2, <2>2 DEF Cast!CheckCancelled, Cast!Goto, CastInv
      <3>2. RunnerOK([runner[w] EXCEPT !.pc = "send"], sends)  BY <1>0, <2>0, CastGoto
      <3> QED  BY <1>0, <2>0, <3>1, <3>2, CastMove DEF CastInv
    <2> QED  BY <2>1, <2>2
  <1>3. CASE Cast!SaveCancelled(w)
    <2>1. /\ Cast!Save(w, "cancelled") /\ jobLock' = jobLock
          /\ runner' = [runner EXCEPT ![w] = [runner[w] EXCEPT !.pc = "final"]]
      BY <1>3 DEF Cast!SaveCancelled, Cast!Goto, CastInv
    <2>2. RunnerOK([runner[w] EXCEPT !.pc = "final"], sends)  BY <1>0, CastGoto
    <2>3. \E j \in Cast!Job : \E q : RowOK(j, q, sends) /\ row' = [row EXCEPT ![j] = q]
      BY <1>0, <2>1, CastSave DEF Cast!Status
    <2> QED  BY <1>0, <2>1, <2>2, <2>3, CastMove DEF CastInv
  <1>4. CASE Cast!RenewGet(w) \/ Cast!RenewSet(w)
    <2>1. PICK stage \in {"renewSet", "flush"} :
            runner' = [runner EXCEPT ![w] = [runner[w] EXCEPT !.pc = stage]]
      BY <1>4 DEF Cast!RenewGet, Cast!RenewSet, Cast!Goto, CastInv
    <2>2. row' = row /\ jobLock' \in [Cast!Job -> Worker \cup {NoOne}]
      BY <1>0, <1>4 DEF Cast!RenewGet, Cast!RenewSet, Cast!redis, CastInv
    <2>3. RunnerOK([runner[w] EXCEPT !.pc = stage], sends)  BY <1>0, CastGoto
    <2> QED  BY <1>0, <2>1, <2>2, <2>3, CastMove DEF CastInv
  <1> QED  BY <1>1, <1>2, <1>3, <1>4

LEMMA CheckRange ==
    ASSUME NEW c \in 0..(FlushEvery - 1) PROVE (c + 1) % FlushEvery \in 0..(FlushEvery - 1)
  <1>1. CASE FlushEvery = 1  BY <1>1
  <1>2. CASE FlushEvery = 2  BY <1>2
  <1>3. CASE FlushEvery = 3  BY <1>3
  <1>4. CASE FlushEvery = 4  BY <1>4
  <1>5. CASE FlushEvery = 5  BY <1>5
  <1> QED  BY <1>1, <1>2, <1>3, <1>4, <1>5, CastConstants

\* The one step that sends: what everybody has reached stays true, and the next
\* recipient is reached, too.
LEMMA CastSends ==
    ASSUME CastInv, NEW w \in Worker, Cast!Send(w)
    PROVE  CastInv'
  <1> DEFINE c == runner[w].cursor
             d == runner[w].job
  <1>0. /\ RunnerOK(runner[w], sends) /\ runner[w] \in Cast!RunnerState
        /\ d \in Cast!Job /\ Totals[d] \in Nat /\ c \in Nat /\ c < Totals[d]
        /\ runner[w].flush \in 0..FlushEvery /\ runner[w].flush < FlushEvery
        /\ runner[w].check \in 0..(FlushEvery - 1) /\ runner[w].pc = "send"
        /\ UNCHANGED <<row, active, jobLock, stopped, admin, lockLost, breaks, mishaps>>
    BY CastRunner DEF Cast!Send, Cast!At, Cast!Calm, Cast!redis, RunnerOK, Cast!RunnerState
  <1>1. PICK r : /\ runner' = [runner EXCEPT ![w] = r]
                 /\ r \in Cast!RunnerState /\ r.pc \in {"flush", "renew"} /\ r.job = d
                 /\ r.cursor = c + 1 /\ r.status = runner[w].status
    <2>1. PICK stage \in {"flush", "renew"} :
            runner' = [runner EXCEPT ![w] =
                        [runner[w] EXCEPT !.pc = stage, !.cursor = @ + 1, !.flush = @ + 1,
                                          !.check = (@ + 1) % FlushEvery]]
      BY DEF Cast!Send, Cast!Set
    <2> DEFINE r == [runner[w] EXCEPT !.pc = stage, !.cursor = @ + 1, !.flush = @ + 1,
                                      !.check = (@ + 1) % FlushEvery]
    <2>2. /\ runner[w].flush + 1 \in 0..FlushEvery /\ c + 1 \in Nat
          /\ (runner[w].check + 1) % FlushEvery \in 0..(FlushEvery - 1)
      <3>1. (runner[w].check + 1) % FlushEvery \in 0..(FlushEvery - 1)  BY <1>0, CheckRange
      <3>2. runner[w].flush + 1 \in 0..FlushEvery /\ c + 1 \in Nat  BY <1>0, CastConstants
      <3> QED  BY <3>1, <3>2
    <2>3. /\ r \in Cast!RunnerState /\ r.pc \in {"flush", "renew"} /\ r.job = d
          /\ r.cursor = c + 1 /\ r.status = runner[w].status
      BY <1>0, <2>2 DEF Cast!RunnerState, Cast!Trying
    <2> QED  BY <2>1, <2>3
  <1>2. /\ SendsOK(sends')
        /\ \A j \in Cast!Job : \A i \in 1..Totals[j] : sends[j][i] >= 1 => sends'[j][i] >= 1
        /\ sends'[d][c + 1] >= 1
    <2>1. c + 1 \in 1..Totals[d]  BY <1>0
    <2>2. SendsOK(sends)  BY DEF CastInv
    <2>3. sends' = [sends EXCEPT ![d][c + 1] = IF @ < 3 THEN @ + 1 ELSE @]
      BY DEF Cast!Send
    <2>4. /\ DOMAIN sends' = Cast!Job
          /\ \A j \in Cast!Job \ {d} : sends'[j] = sends[j]
          /\ sends'[d] = [sends[d] EXCEPT ![c + 1] = IF @ < 3 THEN @ + 1 ELSE @]
      BY <1>0, <2>2, <2>3 DEF SendsOK
    <2>5. sends[d] \in [1..Totals[d] -> 0..3]  BY <1>0, <2>2 DEF SendsOK
    <2>6. /\ sends'[d] \in [1..Totals[d] -> 0..3]
          /\ \A i \in 1..Totals[d] : sends[d][i] >= 1 => sends'[d][i] >= 1
          /\ sends'[d][c + 1] >= 1
      <3> DEFINE e == IF sends[d][c + 1] < 3 THEN sends[d][c + 1] + 1 ELSE sends[d][c + 1]
      <3>1. e \in 0..3 /\ e >= 1
        <4>1. sends[d][c + 1] \in 0..3  BY <2>1, <2>5
        <4> QED  BY <4>1
      <3>2. sends'[d] = [sends[d] EXCEPT ![c + 1] = e]  BY <2>4
      <3> HIDE DEF e
      <3> QED  BY <2>1, <2>5, <3>1, <3>2
    <2> QED  BY <2>2, <2>4, <2>6 DEF SendsOK
  <1>3. \A j \in Cast!Job : \A n \in Nat : n <= Totals[j] /\ Sent(sends, j, n) => Sent(sends', j, n)
    BY <1>2, CastConstants DEF Sent
  <1>4. Sent(sends', d, c + 1)
    BY <1>0, <1>2, <1>3 DEF Sent, RunnerOK
  <1>5. RunnerOK(r, sends')
    <2>1. runner[w].status # "completed"  BY <1>0 DEF RunnerOK
    <2> QED  BY <1>0, <1>1, <1>4, <2>1 DEF RunnerOK
  <1>6. ASSUME NEW q \in Cast!RunnerState, RunnerOK(q, sends) PROVE RunnerOK(q, sends')
    BY <1>3, <1>6 DEF RunnerOK, Cast!RunnerState
  <1>7. ASSUME NEW j \in Cast!Job PROVE RowOK(j, row[j], sends')
    BY <1>3 DEF CastInv, RowOK, Cast!Row
  <1>8. AdminOK(admin, sends')
    <2>1. AdminOK(admin, sends)  BY DEF CastInv
    <2>2. admin.cursor \in Nat  BY <2>1 DEF AdminOK
    <2> QED  BY <1>3, <2>1, <2>2 DEF AdminOK
  <1>9. \A v \in Worker : RunnerOK(runner'[v], sends')
    BY <1>1, <1>5, <1>6, CastRunner DEF CastInv
  <1>10. DOMAIN runner' = Worker /\ runner' = [v \in Worker |-> runner'[v]]
    BY <1>1 DEF CastInv
  <1> QED  BY <1>0, <1>2, <1>7, <1>8, <1>9, <1>10 DEF CastInv

LEMMA CastEnds ==
    ASSUME CastInv, NEW w \in Worker,
           \/ Cast!Flush(w) \/ Cast!ReadFinal(w) \/ Cast!SaveFinal(w) \/ Cast!ClearActive(w)
           \/ Cast!SaveFailed(w) \/ Cast!ClearFailed(w) \/ Cast!UnlockGet(w) \/ Cast!UnlockDel(w)
    PROVE  CastInv'
  <1>0. /\ RunnerOK(runner[w], sends) /\ runner[w] \in Cast!RunnerState
        /\ runner[w].job \in Cast!Job /\ Totals[runner[w].job] \in Nat
        /\ runner[w].pc # "idle" /\ runner[w].cursor \in Nat /\ runner[w].status \in Cast!Status
        /\ runner[w].flush \in 0..FlushEvery
        /\ runner[w].status = "completed" => runner[w].cursor = Totals[runner[w].job]
        /\ UNCHANGED <<stopped, admin, sends, mishaps>> /\ breaks' \in Nat
    BY CastRunner DEF CastInv, Cast!Flush, Cast!ReadFinal, Cast!SaveFinal, Cast!ClearActive, Cast!SaveFailed,
       Cast!ClearFailed, Cast!UnlockGet, Cast!UnlockDel, Cast!At, Cast!Calm, Cast!history,
       Cast!RunnerState, RunnerOK
  <1>1. CASE Cast!Flush(w)
    <2>0. UNCHANGED <<active, jobLock, lockLost>>  BY <1>1 DEF Cast!Flush, Cast!history
    <2>1. CASE Cast!FlushDue(runner[w])
      <3> DEFINE r == [runner[w] EXCEPT !.pc = "head", !.flush = 0]
      <3>1. r \in Cast!RunnerState /\ r.pc = "head" /\ r.job = runner[w].job /\ r.flush = 0
            /\ r.status = runner[w].status /\ r.cursor = runner[w].cursor
        <4>1. 0 \in 0..FlushEvery  BY CastConstants
        <4> QED  BY <1>0, <4>1 DEF Cast!RunnerState, Cast!Trying
      <3>2. Cast!Save(w, runner[w].status) /\ runner' = [runner EXCEPT ![w] = r]
        BY <1>1, <2>1 DEF Cast!Flush, Cast!Set
      <3> HIDE DEF r
      <3>3. RunnerOK(r, sends)  BY <1>0, <3>1, CastConstants DEF RunnerOK
      <3>4. \E j \in Cast!Job : \E q : RowOK(j, q, sends) /\ row' = [row EXCEPT ![j] = q]
        BY <1>0, <3>2, CastSave
      <3> QED  BY <1>0, <2>0, <3>2, <3>3, <3>4, CastMove DEF CastInv
    <2>2. CASE ~Cast!FlushDue(runner[w])
      <3>1. row' = row /\ runner' = [runner EXCEPT ![w] = [runner[w] EXCEPT !.pc = "head"]]
        BY <1>1, <2>2 DEF Cast!Flush, Cast!Goto, CastInv
      <3>2. RunnerOK([runner[w] EXCEPT !.pc = "head"], sends)
        <4>1. runner[w].flush < FlushEvery  BY <1>0, <2>2, CastConstants DEF Cast!FlushDue
        <4> QED  BY <1>0, <4>1, CastGoto
      <3> QED  BY <1>0, <2>0, <3>1, <3>2, CastMove DEF CastInv
    <2> QED  BY <2>1, <2>2
  <1>2. CASE Cast!ReadFinal(w)
    <2>0. UNCHANGED <<row, active, jobLock, lockLost>>
      BY <1>2 DEF Cast!ReadFinal, Cast!redis, Cast!history
    <2>1. ASSUME NEW says \in Cast!Status,
                 says = "completed" => runner[w].cursor = Totals[runner[w].job],
                 runner' = [runner EXCEPT ![w] = [runner[w] EXCEPT !.pc = "save", !.status = says]]
          PROVE  CastInv'
      <3> DEFINE r == [runner[w] EXCEPT !.pc = "save", !.status = says]
      <3>1. r \in Cast!RunnerState /\ r.pc = "save" /\ r.job = runner[w].job
            /\ r.status = says /\ r.cursor = runner[w].cursor
        BY <1>0 DEF Cast!RunnerState, Cast!Trying
      <3>2. runner' = [runner EXCEPT ![w] = r]  BY <2>1
      <3> HIDE DEF r
      <3>3. RunnerOK(r, sends)  BY <1>0, <2>1, <3>1 DEF RunnerOK
      <3> QED  BY <1>0, <2>0, <3>2, <3>3, CastMove DEF CastInv
    <2>2. /\ Cast!Outcome(runner[w]) \in Cast!Status
          /\ Cast!Outcome(runner[w]) = "completed" => runner[w].cursor = Totals[runner[w].job]
      BY <1>0 DEF Cast!Outcome, Cast!AtEnd, Cast!Status, RunnerOK
    <2>3. CASE runner' = [runner EXCEPT ![w] = [runner[w] EXCEPT !.pc = "clear"]]
      <3>1. RunnerOK([runner[w] EXCEPT !.pc = "clear"], sends)  BY <1>0, CastGoto
      <3> QED  BY <1>0, <2>0, <2>3, <3>1, CastMove DEF CastInv
    <2>4. "cancelled" \in Cast!Status  BY DEF Cast!Status
    <2> QED  BY <1>2, <2>1, <2>2, <2>3, <2>4 DEF Cast!ReadFinal, Cast!Set, Cast!Goto, CastInv
  <1>3. CASE Cast!SaveFinal(w) \/ Cast!SaveFailed(w)
    <2>1. PICK stage \in {"clear", "failClear"}, says \in {"failed", runner[w].status} :
            /\ runner' = [runner EXCEPT ![w] = [runner[w] EXCEPT !.pc = stage]]
            /\ Cast!Save(w, says) /\ UNCHANGED <<active, jobLock, lockLost>>
      BY <1>3 DEF Cast!SaveFinal, Cast!SaveFailed, Cast!Goto, Cast!history, CastInv
    <2>2. RunnerOK([runner[w] EXCEPT !.pc = stage], sends)  BY <1>0, CastGoto
    <2>3. \E j \in Cast!Job : \E q : RowOK(j, q, sends) /\ row' = [row EXCEPT ![j] = q]
      BY <1>0, <2>1, CastSave DEF Cast!Status
    <2> QED  BY <1>0, <2>1, <2>2, <2>3, CastMove DEF CastInv
  <1>4. CASE Cast!ClearActive(w) \/ Cast!ClearFailed(w)
    <2>1. /\ runner' = [runner EXCEPT ![w] = [runner[w] EXCEPT !.pc = "unlock"]]
          /\ active' \in {NoOne, active} /\ UNCHANGED <<row, jobLock, lockLost>>
      BY <1>4 DEF Cast!ClearActive, Cast!ClearFailed, Cast!Goto, Cast!history, CastInv
    <2>2. RunnerOK([runner[w] EXCEPT !.pc = "unlock"], sends)  BY <1>0, CastGoto
    <2> QED  BY <1>0, <2>1, <2>2, CastMove DEF CastInv
  <1>5. CASE Cast!UnlockGet(w)
    <2>0. UNCHANGED <<row, active, jobLock, lockLost>>
      BY <1>5 DEF Cast!UnlockGet, Cast!redis, Cast!history
    <2>1. CASE runner' = [runner EXCEPT ![w] = [runner[w] EXCEPT !.pc = "unlockDel"]]
      <3>1. RunnerOK([runner[w] EXCEPT !.pc = "unlockDel"], sends)  BY <1>0, CastGoto
      <3> QED  BY <1>0, <2>0, <2>1, <3>1, CastMove DEF CastInv
    <2>2. CASE runner' = [runner EXCEPT ![w] = Cast!Idle]
      BY <1>0, <2>0, <2>2, CastIdle, CastMove DEF CastInv
    <2> QED  BY <1>5, <2>1, <2>2 DEF Cast!UnlockGet, Cast!Goto, Cast!Set, CastInv
  <1>6. CASE Cast!UnlockDel(w)
    <2>1. /\ runner' = [runner EXCEPT ![w] = Cast!Idle] /\ UNCHANGED <<row, active>>
          /\ jobLock' = [jobLock EXCEPT ![runner[w].job] = NoOne]
          /\ lockLost' \subseteq lockLost \cup {runner[w].job}
      BY <1>6 DEF Cast!UnlockDel, Cast!Set
    <2> QED  BY <1>0, <2>1, CastIdle, CastMove DEF CastInv
  <1> QED  BY <1>1, <1>2, <1>3, <1>4, <1>5, <1>6

LEMMA CastUpset ==
    ASSUME CastInv, NEW w \in Worker,
           Cast!Throws(w) \/ Cast!Stop(w) \/ Cast!Die(w) \/ Cast!Restart(w)
    PROVE  CastInv'
  <1>0. /\ mishaps' \in 0..MaxMishaps
        /\ UNCHANGED <<row, active, jobLock, admin, sends, lockLost>>
    BY CastConstants DEF CastInv, Cast!Throws, Cast!Stop, Cast!Die, Cast!Restart, Cast!Disturb,
       Cast!Calm, Cast!redis, Cast!history
  <1>1. stopped' \subseteq Worker /\ breaks' \in Nat
    BY DEF CastInv, Cast!Throws, Cast!Stop, Cast!Die, Cast!Restart, Cast!history
  <1>2. CASE Cast!Throws(w)
    <2>1. runner[w].pc # "idle"  BY <1>2 DEF Cast!Throws, Cast!CallsRedis
    <2>2. CASE runner' = [runner EXCEPT ![w] = Cast!Idle]
      BY <1>0, <1>1, <2>2, CastIdle, CastMove DEF CastInv
    <2>3. ASSUME NEW stage \in {"failSave", "unlock"},
                 runner' = [runner EXCEPT ![w] = [runner[w] EXCEPT !.pc = stage]]
          PROVE  CastInv'
      <3>1. RunnerOK([runner[w] EXCEPT !.pc = stage], sends)  BY <2>1, CastGoto
      <3> QED  BY <1>0, <1>1, <2>3, <3>1, CastMove DEF CastInv
    <2> QED  BY <1>2, <2>2, <2>3 DEF Cast!Throws, Cast!Goto, Cast!Set, CastInv
  <1>3. CASE Cast!Die(w)
    <2>1. runner' = [runner EXCEPT ![w] = Cast!Idle]  BY <1>3 DEF Cast!Die, Cast!Set
    <2> QED  BY <1>0, <1>1, <2>1, CastIdle, CastMove DEF CastInv
  <1>4. CASE Cast!Stop(w) \/ Cast!Restart(w)
    <2>1. runner' = runner  BY <1>4 DEF Cast!Stop, Cast!Restart
    <2> QED  BY <1>0, <1>1, <2>1 DEF CastInv
  <1> QED  BY <1>2, <1>3, <1>4

\* What is not a runner's: locks expire, jobs are created and cancelled.
LEMMA CastJobs ==
    ASSUME CastInv,
           \/ \E j \in Cast!Job : Cast!Expire(j) \/ Cast!Create(j) \/ Cast!CancelGet(j)
           \/ Cast!Cancel
    PROVE  CastInv'
  <1>1. ASSUME NEW j \in Cast!Job, Cast!Expire(j) PROVE CastInv'
    <2>1. /\ jobLock' = [jobLock EXCEPT ![j] = NoOne] /\ lockLost' \subseteq lockLost \cup {j}
          /\ mishaps' \in 0..MaxMishaps
          /\ UNCHANGED <<row, active, runner, stopped, admin, sends, breaks>>
      BY <1>1, CastConstants DEF Cast!Expire, Cast!Disturb, Cast!Calm, CastInv
    <2> QED  BY <1>1, <2>1 DEF CastInv
  <1>2. ASSUME NEW j \in Cast!Job, Cast!Create(j) PROVE CastInv'
    <2>1. /\ row' = [row EXCEPT ![j] = [status |-> "pending", cursor |-> 0]]
          /\ UNCHANGED <<active, jobLock, runner, stopped, admin, sends, lockLost, breaks, mishaps>>
      BY <1>2 DEF Cast!Create, Cast!Calm, Cast!history
    <2>2. RowOK(j, [status |-> "pending", cursor |-> 0], sends)
      BY <1>2, CastConstants DEF RowOK, Cast!Row, Cast!Status, Sent
    <2>3. \A i \in Cast!Job : RowOK(i, row'[i], sends)  BY <1>2, <2>1, <2>2 DEF CastInv
    <2> QED  BY <1>2, <2>1, <2>3 DEF CastInv
  <1>3. ASSUME NEW j \in Cast!Job, Cast!CancelGet(j) PROVE CastInv'
    <2>1. /\ admin' = [pc |-> "set", job |-> j, cursor |-> row[j].cursor]
          /\ mishaps' \in 0..MaxMishaps
          /\ UNCHANGED <<row, active, jobLock, runner, stopped, sends, lockLost, breaks>>
      BY <1>3, CastConstants DEF Cast!CancelGet, Cast!Disturb, Cast!redis, Cast!history, CastInv
    <2>2. AdminOK(admin', sends)
      BY <1>3, <2>1 DEF AdminOK, CastInv, RowOK, Cast!Row
    <2> QED  BY <2>1, <2>2 DEF CastInv
  <1>4. CASE Cast!CancelSet
    <2> DEFINE q == [status |-> "cancelled", cursor |-> admin.cursor]
    <2>1. /\ AdminOK(admin, sends) /\ admin.pc = "set"
          /\ row' = [row EXCEPT ![admin.job] = q] /\ admin' = [admin EXCEPT !.pc = "active"]
          /\ UNCHANGED <<active, jobLock, runner, stopped, sends, lockLost, breaks, mishaps>>
      BY <1>4 DEF Cast!CancelSet, Cast!Calm, Cast!history, CastInv
    <2>2. RowOK(admin.job, q, sends) /\ admin.job \in Cast!Job
      BY <2>1 DEF AdminOK, RowOK, Cast!Row, Cast!Status
    <2>3. AdminOK(admin', sends)  BY <2>1 DEF AdminOK
    <2> HIDE DEF q
    <2>4. \A i \in Cast!Job : RowOK(i, row'[i], sends)  BY <2>1, <2>2 DEF CastInv
    <2>5. DOMAIN row' = Cast!Job /\ row' = [j \in Cast!Job |-> row'[j]]  BY <2>1 DEF CastInv
    <2> QED  BY <2>1, <2>3, <2>4, <2>5 DEF CastInv
  <1>5. CASE Cast!CancelActiveGet \/ Cast!CancelActiveDel
    <2>1. /\ active' \in {active, NoOne}
          /\ admin' = Cast!NoCancel \/ (admin.pc = "active" /\ admin' = [admin EXCEPT !.pc = "clear"])
          /\ UNCHANGED <<row, jobLock, runner, stopped, sends, lockLost, breaks, mishaps>>
      BY <1>5 DEF Cast!CancelActiveGet, Cast!CancelActiveDel, Cast!Calm, Cast!redis, Cast!history
    <2>2. AdminOK(Cast!NoCancel, sends)  BY DEF AdminOK, Cast!NoCancel
    <2>3. AdminOK(admin', sends)  BY <2>1, <2>2 DEF AdminOK, CastInv
    <2> QED  BY <2>1, <2>3 DEF CastInv
  <1> QED  BY <1>1, <1>2, <1>3, <1>4, <1>5 DEF Cast!Cancel

LEMMA CastStep == CastInv /\ [Cast!Next]_broadcastVars => CastInv'
  <1> SUFFICES ASSUME CastInv, [Cast!Next]_broadcastVars PROVE CastInv'
    OBVIOUS
  <1>1. CASE Cast!Next
    BY <1>1, CastTick, CastOpens, CastLoops, CastSends, CastEnds, CastUpset, CastJobs
       DEF Cast!Next, Cast!Step
  <1>2. CASE UNCHANGED broadcastVars
    BY <1>2 DEF broadcastVars, CastInv
  <1> QED  BY <1>1, <1>2

-----------------------------------------------------------------------------
(* Broadcast: how often a recipient is sent the text again                 *)

\* The stages in which a runner's copy is ahead of the row.
CopyStages == Cast!Trying \cup {"failSave"}
Working(w, j) == runner[w].job = j /\ runner[w].pc \notin {"idle", "lock"}
Reached(j, h) == \A i \in 1..Totals[j] : sends[j][i] >= 1 <=> i <= h

\* With R repeats and h recipients reached, what is left to send again is within
\* the bound B: from the copy of runner r, or from row q once nobody has a copy.
Fits(R, h, r, q, B) ==
    /\ R <= B
    /\ r.pc \in CopyStages => R + h - r.cursor <= B
    /\ r.pc \in CopyStages /\ q.status # "cancelled" => r.cursor - q.cursor <= r.flush
    /\ r.pc \notin CopyStages \ {"clear"} /\ q.status # "cancelled" => R + h - q.cursor <= B

Allowed == FlushEvery * breaks

\* Of a job whose lock was never lost: its runner holds the lock, so that it is
\* the only one, and what the runner or the next one sends again is allowed for.
Alone(j) == \A w \in Worker : Working(w, j) => jobLock[j] = w
FitsAt(j, h) ==
    /\ h \in 0..Totals[j] /\ Reached(j, h)
    /\ \A w \in Worker : Working(w, j) => Fits(Cast!Repeats(j), h, runner[w], row[j], Allowed)
    /\ (\A w \in Worker : ~Working(w, j)) => Fits(Cast!Repeats(j), h, Cast!Idle, row[j], Allowed)
JobInv(j) == Alone(j) /\ \E h : FitsAt(j, h)

\* A job without a row has no runner.
NamedRows ==
    /\ \A j \in Cast!Job : row[j].status = "none" => row[j].cursor = 0
    /\ \A w \in Worker : runner[w].pc # "idle" => row[runner[w].job].status # "none"
    /\ \A w \in Worker : runner[w].pc \notin {"idle", "lock", "load"} => runner[w].status # "none"

RepeatInv == NamedRows /\ \A j \in Cast!Job \ lockLost : JobInv(j)

LEMMA AllowedMore ==
    ASSUME breaks \in Nat, breaks' \in {breaks, breaks + 1}
    PROVE  /\ Allowed \in Int /\ Allowed' \in Int /\ Allowed <= Allowed'
           /\ breaks' = breaks => Allowed' = Allowed
           /\ breaks' = breaks + 1 => Allowed' = Allowed + FlushEvery
  <1>1. PICK e \in Nat : e = FlushEvery
    BY CastConstants
  <1>2. PICK b \in Nat : b = breaks
    OBVIOUS
  <1>3. e * (b + 1) = e * b + e /\ e * b \in Nat
    OBVIOUS
  <1>4. Allowed = e * b  BY <1>1, <1>2 DEF Allowed
  <1>5. CASE breaks' = breaks
    <2>1. Allowed' = e * b  BY <1>1, <1>2, <1>5 DEF Allowed
    <2> QED  BY <1>2, <1>3, <1>4, <1>5, <2>1
  <1>6. CASE breaks' = breaks + 1
    <2>1. Allowed' = e * (b + 1)  BY <1>1, <1>2, <1>6 DEF Allowed
    <2> QED  BY <1>1, <1>2, <1>3, <1>4, <1>6, <2>1
  <1> QED  BY <1>5, <1>6

\* The repeats of each recipient of job j, by a table of sends.
Extra(table, j) == [i \in 1..Totals[j] |-> IF table[j][i] > 1 THEN table[j][i] - 1 ELSE 0]

LEMMA RepeatsAre ==
    ASSUME NEW j \in Cast!Job
    PROVE  /\ Cast!Repeats(j) = Total(Extra(sends, j), 1..Totals[j])
           /\ Cast!Repeats(j)' = Total(Extra(sends', j), 1..Totals[j])
           /\ IsFiniteSet(1..Totals[j])
  <1>1. DOMAIN Extra(sends, j) = 1..Totals[j] /\ DOMAIN Extra(sends', j) = 1..Totals[j]
    BY DEF Extra
  <1>2. ASSUME NEW f PROVE Cast!SumFunction(f) = Total(f, DOMAIN f)
    BY DEF Cast!SumFunction, Cast!SumFunctionOnSet, Cast!FoldFunctionOnSet, Cast!MapThenFoldSet,
           Total, FoldFunctionOnSet, MapThenFoldSet
  <1>3. Cast!Repeats(j) = Cast!SumFunction(Extra(sends, j))
    BY DEF Cast!Repeats, Extra
  <1>4. Cast!Repeats(j)' = Cast!SumFunction(Extra(sends', j))
    BY DEF Cast!Repeats, Extra
  <1>5. IsFiniteSet(1..Totals[j])
    <2>1. PICK n \in Int : n = Totals[j]
      BY CastConstants
    <2>2. IsFiniteSet(1..n)
      BY FS_Interval
    <2> QED  BY <2>1, <2>2
  <1> QED  BY <1>1, <1>2, <1>3, <1>4, <1>5

LEMMA ExtraType ==
    ASSUME NEW table, SendsOK(table), NEW j \in Cast!Job
    PROVE  Extra(table, j) \in [1..Totals[j] -> Int]
  <1>1. ASSUME NEW i \in 1..Totals[j] PROVE table[j][i] \in Int
    <2>1. PICK f, N : f = table[j] /\ N = 1..Totals[j]
      OBVIOUS
    <2>2. f \in [N -> 0..3]
      BY <2>1 DEF SendsOK
    <2>3. f[i] \in 0..3
      BY <2>1, <2>2
    <2> QED  BY <2>1, <2>3
  <1>2. \A i \in 1..Totals[j] : (IF table[j][i] > 1 THEN table[j][i] - 1 ELSE 0) \in Int
    BY <1>1
  <1> QED  BY <1>2 DEF Extra

LEMMA RepeatsType ==
    ASSUME CastInv, NEW j \in Cast!Job
    PROVE  Cast!Repeats(j) \in Int
  <1>1. Extra(sends, j) \in [1..Totals[j] -> Int]
    BY ExtraType DEF CastInv
  <1>2. SumsWell(Extra(sends, j), 1..Totals[j])
    BY <1>1, RepeatsAre, SumOne
  <1> QED  BY <1>2, RepeatsAre DEF SumsWell

\* One send more adds at most one repeat, and none to a recipient not yet reached.
LEMMA RepeatsSent ==
    ASSUME CastInv, NEW j \in Cast!Job, NEW k \in 1..Totals[j], SendsOK(sends'),
           \A i \in 1..Totals[j] : i # k => sends'[j][i] = sends[j][i],
           sends'[j][k] = IF sends[j][k] < 3 THEN sends[j][k] + 1 ELSE sends[j][k]
    PROVE  /\ Cast!Repeats(j)' \in Int
           /\ Cast!Repeats(j)' <= Cast!Repeats(j) + 1
           /\ sends[j][k] = 0 => Cast!Repeats(j)' = Cast!Repeats(j)
  <1> DEFINE N == 1..Totals[j]
             f == Extra(sends, j)
             g == Extra(sends', j)
  <1>1. f \in [N -> Int] /\ g \in [N -> Int]
    BY ExtraType DEF CastInv
  <1>2. IsFiniteSet(N) /\ Cast!Repeats(j) = Total(f, N) /\ Cast!Repeats(j)' = Total(g, N)
    BY RepeatsAre
  <1>3. \A i \in N : i # k => g[i] = f[i]
    BY DEF Extra
  <1>4. g[k] <= f[k] + 1 /\ (sends[j][k] = 0 => g[k] = f[k])
    <2>1. sends[j][k] \in 0..3
      BY DEF CastInv, SendsOK
    <2> QED  BY <2>1 DEF Extra
  <1> HIDE DEF f, g, N
  <1>5. k \in N  BY DEF N
  <1>6. PICK M : M = N \ {k}
    OBVIOUS
  <1>7. M \in SUBSET N /\ IsFiniteSet(M) /\ \A i \in M : g[i] = f[i]
    BY <1>2, <1>3, <1>6, FS_Subset
  <1>8. Total(g, M) = Total(f, M)
    BY <1>1, <1>7, SumSame
  <1>9. SumsWell(f, N) /\ SumsWell(g, N) /\ SumsWell(f, M)
    BY <1>1, <1>2, <1>7, SumOne
  <1>10. Total(f, N) = f[k] + Total(f, M) /\ Total(g, N) = g[k] + Total(f, M)
    BY <1>5, <1>6, <1>8, <1>9 DEF SumsWell
  <1>11. Total(f, M) \in Int /\ f[k] \in Int /\ g[k] \in Int
    BY <1>1, <1>5, <1>9 DEF SumsWell
  <1> QED  BY <1>2, <1>4, <1>10, <1>11

\* A runner that writes its copy, or has none, leaves no more behind than before.
LEMMA FitsMore ==
    ASSUME NEW R \in Int, NEW h \in Int, NEW r, NEW q, NEW B \in Int, NEW C \in Int, B <= C,
           r.cursor \in Int, q.cursor \in Int, Fits(R, h, r, q, B)
    PROVE  Fits(R, h, r, q, C)
  BY DEF Fits

\* A job that no step touches.
LEMMA JobFrame ==
    ASSUME CastInv, NEW j \in Cast!Job, JobInv(j), sends' = sends, breaks' \in {breaks, breaks + 1},
           row'[j] = row[j], jobLock'[j] = jobLock[j],
           \A w \in Worker : IF Working(w, j) THEN runner'[w] = runner[w] ELSE ~Working(w, j)'
    PROVE  JobInv(j)'
  <1>1. PICK h : FitsAt(j, h)
    BY DEF JobInv
  <1>2. Alone(j)'
    BY DEF JobInv, Alone, Working
  <1>3. /\ Cast!Repeats(j)' = Cast!Repeats(j) /\ Cast!Repeats(j) \in Int
        /\ row[j].cursor \in Int /\ Allowed \in Int /\ Allowed' \in Int /\ Allowed <= Allowed'
        /\ Cast!Idle.cursor \in Int
    BY RepeatsAre, RepeatsType, AllowedMore, CastIdle DEF CastInv, RowOK, Cast!Row
  <1>4. Reached(j, h)' /\ h \in 0..Totals[j] /\ h \in Int
    BY <1>1, CastConstants DEF Reached, FitsAt
  <1>5. ASSUME NEW w \in Worker, Working(w, j)'
        PROVE  Fits(Cast!Repeats(j), h, runner'[w], row'[j], Allowed')
    <2>1. Working(w, j) /\ runner'[w] = runner[w]
      BY <1>5
    <2>2. Fits(Cast!Repeats(j), h, runner[w], row[j], Allowed)
      BY <1>1, <2>1 DEF FitsAt
    <2>3. runner[w].cursor \in Int
      BY DEF CastInv, RunnerOK, Cast!RunnerState
    <2> QED  BY <1>3, <1>4, <2>1, <2>2, <2>3, FitsMore
  <1>6. ASSUME \A w \in Worker : ~Working(w, j)'
        PROVE  Fits(Cast!Repeats(j), h, Cast!Idle, row'[j], Allowed')
    <2>1. \A w \in Worker : ~Working(w, j)
      BY <1>6 DEF Working
    <2>2. Fits(Cast!Repeats(j), h, Cast!Idle, row[j], Allowed)
      BY <1>1, <2>1 DEF FitsAt
    <2> QED  BY <1>3, <1>4, <2>2, FitsMore
  <1>7. FitsAt(j, h)'
    BY <1>3, <1>4, <1>5, <1>6 DEF FitsAt
  <1> QED  BY <1>2, <1>7 DEF JobInv

\* A step of a runner past the lock, without a send: it is enough that what the
\* runner leaves behind still fits.
LEMMA RunnerStep ==
    ASSUME CastInv, RepeatInv, NEW w \in Worker, NEW r, NEW j \in Cast!Job, j = runner[w].job,
           runner[w].pc \notin {"idle", "lock"},
           runner' = [runner EXCEPT ![w] = r], r.pc # "idle" => r.job = j /\ r.pc # "lock",
           r.pc \notin {"idle", "lock", "load"} => r.status # "none", r.cursor \in Int,
           sends' = sends, breaks' \in {breaks, breaks + 1}, lockLost \subseteq lockLost',
           row' = row \/ \E q : q.status # "none" /\ q.cursor \in Int /\ row' = [row EXCEPT ![j] = q],
           \/ jobLock' = jobLock \/ jobLock' = [jobLock EXCEPT ![j] = w]
           \/ r.pc = "idle" /\ jobLock' = [jobLock EXCEPT ![j] = NoOne],
           \A R, h \in Int : /\ runner[w].cursor <= h
                             /\ Fits(R, h, runner[w], row[j], Allowed)
                             => Fits(R, h, r, row'[j], Allowed')
    PROVE  RepeatInv'
  <1>0. /\ DOMAIN runner = Worker /\ DOMAIN row = Cast!Job /\ jobLock \in [Cast!Job -> Worker \cup {NoOne}]
        /\ NamedRows
    BY DEF CastInv, RepeatInv
  <1>1. \A v \in Worker : v # w => runner'[v] = runner[v]
    BY <1>0
  <1>2. runner'[w] = r
    BY <1>0
  <1>3. \A i \in Cast!Job : i # j => row'[i] = row[i] /\ jobLock'[i] = jobLock[i]
    BY <1>0
  <1>4. NamedRows'
    <2>1. ASSUME NEW i \in Cast!Job, row'[i].status = "none"
          PROVE  row'[i] = row[i] /\ row[i].status = "none"
      BY <1>0, <2>1
    <2>2. ASSUME NEW v \in Worker, runner'[v].pc # "idle" PROVE row'[runner'[v].job].status # "none"
      <3>1. runner[v].pc # "idle" /\ runner'[v].job = runner[v].job
        BY <1>1, <1>2, <2>2
      <3>2. runner[v].job \in Cast!Job
        BY <3>1, CastRunner
      <3> QED  BY <1>0, <2>1, <3>1, <3>2 DEF NamedRows
    <2>3. ASSUME NEW v \in Worker, runner'[v].pc \notin {"idle", "lock", "load"}
          PROVE  runner'[v].status # "none"
      BY <1>0, <1>1, <1>2, <2>3 DEF NamedRows
    <2>4. \A i \in Cast!Job : row'[i].status = "none" => row'[i].cursor = 0
      BY <1>0, <2>1 DEF NamedRows
    <2> QED  BY <2>2, <2>3, <2>4 DEF NamedRows
  <1>5. ASSUME NEW i \in Cast!Job \ lockLost', i # j PROVE JobInv(i)'
    <2>1. i \in Cast!Job \ lockLost
      BY <1>5
    <2>2. JobInv(i)
      BY <2>1 DEF RepeatInv
    <2>3. \A v \in Worker : IF Working(v, i) THEN runner'[v] = runner[v] ELSE ~Working(v, i)'
      BY <1>1, <1>2, <1>5 DEF Working
    <2> QED  BY <1>3, <1>5, <2>2, <2>3, JobFrame
  <1>6. ASSUME j \notin lockLost' PROVE JobInv(j)'
    <2>1. JobInv(j)
      BY <1>6 DEF RepeatInv
    <2>2. PICK h : FitsAt(j, h)
      BY <2>1 DEF JobInv
    <2>3. Working(w, j)
      BY DEF Working
    <2>4. jobLock[j] = w /\ \A v \in Worker : v # w => ~Working(v, j)
      BY <2>1, <2>3 DEF JobInv, Alone
    <2>5. \A v \in Worker : v # w => ~Working(v, j)'
      BY <1>1, <2>4 DEF Working
    <2>6. Alone(j)'
      BY <1>0, <1>2, <2>4, <2>5 DEF Alone, Working
    <2>7. /\ Cast!Repeats(j)' = Cast!Repeats(j) /\ Cast!Repeats(j) \in Int
      BY RepeatsAre, RepeatsType
    <2>8. Reached(j, h)' /\ h \in 0..Totals[j] /\ h \in Int
      BY <2>2, CastConstants DEF Reached, FitsAt
    <2>9. runner[w].cursor <= h
      <3>1. /\ runner[w].cursor \in Nat /\ runner[w].cursor <= Totals[j] /\ Sent(sends, j, runner[w].cursor)
            /\ Totals[j] \in Nat
        BY CastRunner, CastConstants DEF RunnerOK, Cast!RunnerState
      <3> QED  BY <2>2, <2>8, <3>1 DEF Sent, Reached, FitsAt
    <2>10. Fits(Cast!Repeats(j), h, runner[w], row[j], Allowed)
      BY <2>2, <2>3 DEF FitsAt
    <2>11. Fits(Cast!Repeats(j), h, r, row'[j], Allowed')
      BY <2>7, <2>8, <2>9, <2>10
    <2>12. \A v \in Worker : Working(v, j)' => Fits(Cast!Repeats(j)', h, runner'[v], row'[j], Allowed')
      BY <1>2, <2>5, <2>7, <2>11
    <2>13. ASSUME \A v \in Worker : ~Working(v, j)'
           PROVE  Fits(Cast!Repeats(j)', h, Cast!Idle, row'[j], Allowed')
      <3>1. r.pc = "idle"
        BY <1>2, <2>13 DEF Working
      <3>2. "idle" \notin CopyStages /\ Cast!Idle.pc = "idle"
        BY CastIdle DEF CopyStages, Cast!Trying
      <3> QED  BY <2>7, <2>11, <3>1, <3>2 DEF Fits
    <2>14. FitsAt(j, h)'
      BY <2>8, <2>12, <2>13 DEF FitsAt
    <2> QED  BY <2>6, <2>14 DEF JobInv
  <1> QED  BY <1>4, <1>5, <1>6 DEF RepeatInv

\* The bound in numbers, for the steps of a runner.
LEMMA FitsNumbers ==
    ASSUME CastInv, NEW w \in Worker, breaks' \in {breaks, breaks + 1}
    PROVE  /\ Allowed \in Int /\ Allowed' \in Int /\ Allowed <= Allowed'
           /\ breaks' = breaks + 1 => Allowed' = Allowed + FlushEvery
           /\ runner[w].cursor \in Int /\ runner[w].flush \in Int /\ FlushEvery \in Int
           /\ 0 <= runner[w].flush /\ runner[w].flush <= FlushEvery
           /\ \A j \in Cast!Job : row[j].cursor \in Int
  <1>1. runner[w] \in Cast!RunnerState /\ \A j \in Cast!Job : row[j] \in Cast!Row
    BY DEF CastInv, RunnerOK, RowOK
  <1> QED  BY <1>1, AllowedMore, CastConstants DEF CastInv, Cast!RunnerState, Cast!Row

\* Moving on within the stages in which the copy is ahead, to any but the last.
LEMMA FitsOn ==
    ASSUME NEW R \in Int, NEW h \in Int, NEW r, NEW q, NEW B \in Int, NEW C \in Int, B <= C, NEW s,
           Fits(R, h, r, q, B), r.pc \in CopyStages, s.pc \in CopyStages \ {"clear"},
           s.cursor = r.cursor, s.flush = r.flush, r.cursor \in Int
    PROVE  Fits(R, h, s, q, C)
  BY DEF Fits

\* The copy is written.
LEMMA FitsSaved ==
    ASSUME NEW R \in Int, NEW h \in Int, NEW r, NEW q, NEW B \in Int, NEW C \in Int, B <= C, NEW s, NEW p,
           Fits(R, h, r, q, B), r.pc \in CopyStages, s.cursor = r.cursor, p.cursor = r.cursor,
           r.cursor \in Int, s.flush \in Int, 0 <= s.flush
    PROVE  Fits(R, h, s, p, C)
  BY DEF Fits

\* The copy is given up: that is a break.
LEMMA FitsLost ==
    ASSUME NEW R \in Int, NEW h \in Int, NEW r, NEW q, NEW B \in Int, NEW C \in Int, NEW s,
           Fits(R, h, r, q, B), r.pc \in CopyStages, s.pc \notin CopyStages \/ s.pc = "clear",
           s.cursor = r.cursor \/ s.pc \notin CopyStages, s.flush = r.flush \/ s.pc \notin CopyStages,
           r.cursor \in Int, q.cursor \in Int, r.flush \in Int, 0 <= r.flush,
           C = B + FlushEvery, r.flush <= FlushEvery, FlushEvery \in Int
    PROVE  Fits(R, h, s, q, C)
  BY DEF Fits

\* There is no copy, or none any more that is ahead of the row.
LEMMA FitsRests ==
    ASSUME NEW R \in Int, NEW h \in Int, NEW r, NEW q, NEW B \in Int, NEW C \in Int, B <= C, NEW s,
           Fits(R, h, r, q, B), r.pc \notin CopyStages \ {"clear"}, s.pc \notin CopyStages, q.cursor \in Int
    PROVE  Fits(R, h, s, q, C)
  BY DEF Fits

\* Nothing was sent since the copy was written.
LEMMA FitsEven ==
    ASSUME NEW R \in Int, NEW h \in Int, NEW r, NEW q, NEW B \in Int, NEW s,
           Fits(R, h, r, q, B), r.pc \in CopyStages, s.cursor = r.cursor, s.flush = r.flush,
           r.flush = 0 \/ q.status = "cancelled", r.cursor \in Int, q.cursor \in Int
    PROVE  Fits(R, h, s, q, B)
  BY DEF Fits

LEMMA StageSets ==
    /\ CopyStages = {"mark", "point", "head", "check", "drop", "send", "renew", "renewSet",
                     "flush", "final", "save", "clear", "failSave"}
    /\ Cast!Idle.pc \notin CopyStages /\ Cast!Idle.pc = "idle" /\ Cast!Idle.cursor = 0
  BY CastIdle DEF CopyStages, Cast!Trying

\* The record of a runner whose stage alone changes.
LEMMA GotoIs ==
    ASSUME CastInv, NEW w \in Worker, NEW stage, Cast!Goto(w, stage)
    PROVE  \E r : /\ runner' = [runner EXCEPT ![w] = r] /\ r.pc = stage /\ r.job = runner[w].job
                  /\ r.status = runner[w].status /\ r.cursor = runner[w].cursor
                  /\ r.flush = runner[w].flush
  <1> DEFINE r == [runner[w] EXCEPT !.pc = stage]
  <1>1. runner' = [runner EXCEPT ![w] = r]
    BY DEF Cast!Goto, CastInv
  <1>2. runner[w] \in Cast!RunnerState
    BY CastRunner
  <1>3. /\ r.pc = stage /\ r.job = runner[w].job /\ r.status = runner[w].status
        /\ r.cursor = runner[w].cursor /\ r.flush = runner[w].flush
    BY <1>2 DEF Cast!RunnerState
  <1> HIDE DEF r
  <1> QED  BY <1>1, <1>3

\* A step of a runner that neither writes its copy nor gives it up.
LEMMA CopyMoves ==
    ASSUME CastInv, RepeatInv, NEW w \in Worker, NEW r, runner' = [runner EXCEPT ![w] = r],
           runner[w].pc \in CopyStages, r.pc \in CopyStages \ {"clear"}, r.job = runner[w].job,
           r.cursor = runner[w].cursor, r.flush = runner[w].flush, r.status # "none",
           UNCHANGED <<row, sends, breaks, lockLost>>,
           jobLock' = jobLock \/ jobLock' = [jobLock EXCEPT ![runner[w].job] = w]
    PROVE  RepeatInv'
  <1>1. PICK j \in Cast!Job : j = runner[w].job
    BY CastRunner, StageSets
  <1>2. \A R, h \in Int : Fits(R, h, runner[w], row[j], Allowed) => Fits(R, h, r, row'[j], Allowed')
    BY FitsNumbers, FitsOn
  <1>3. /\ runner[w].pc \notin {"idle", "lock"} /\ r.pc # "idle" /\ r.pc # "lock" /\ r.job = j
        /\ r.cursor \in Int /\ breaks' \in {breaks, breaks + 1} /\ lockLost \subseteq lockLost'
    BY <1>1, StageSets, FitsNumbers
  <1>4. jobLock' = jobLock \/ jobLock' = [jobLock EXCEPT ![j] = w]
    BY <1>1
  <1>5. row' = row /\ sends' = sends
    OBVIOUS
  <1> QED  BY <1>1, <1>2, <1>3, <1>4, <1>5, RunnerStep

\* A step of a runner that writes its copy.
LEMMA CopySaved ==
    ASSUME CastInv, RepeatInv, NEW w \in Worker, NEW r, NEW says, runner' = [runner EXCEPT ![w] = r],
           runner[w].pc \in CopyStages, r.pc \notin {"idle", "lock"}, r.job = runner[w].job,
           r.cursor = runner[w].cursor, r.flush \in Nat, r.status # "none", says # "none",
           Cast!Save(w, says), UNCHANGED <<jobLock, sends, breaks, lockLost>>
    PROVE  RepeatInv'
  <1>1. PICK j \in Cast!Job : j = runner[w].job
    BY CastRunner, StageSets
  <1>2. PICK q : q = [status |-> says, cursor |-> runner[w].cursor]
    OBVIOUS
  <1>3. q.status # "none" /\ q.cursor \in Int /\ q.cursor = runner[w].cursor
        /\ row' = [row EXCEPT ![j] = q]
    BY <1>1, <1>2, FitsNumbers DEF Cast!Save
  <1>4. row'[j] = q
    BY <1>1, <1>3 DEF CastInv
  <1>5. \A R, h \in Int : Fits(R, h, runner[w], row[j], Allowed) => Fits(R, h, r, row'[j], Allowed')
    BY <1>3, <1>4, FitsNumbers, FitsSaved
  <1>6. /\ runner[w].pc \notin {"idle", "lock"} /\ r.pc # "idle" /\ r.pc # "lock"
        /\ r.cursor \in Int /\ breaks' \in {breaks, breaks + 1} /\ lockLost \subseteq lockLost'
    BY StageSets, FitsNumbers
  <1> QED  BY <1>1, <1>3, <1>5, <1>6, RunnerStep

\* A step of a runner that has no copy, or leaves it as it is in the row.
LEMMA CopyRests ==
    ASSUME CastInv, RepeatInv, NEW w \in Worker, NEW r, runner' = [runner EXCEPT ![w] = r],
           runner[w].pc \notin {"idle", "lock"}, runner[w].pc \notin CopyStages \ {"clear"},
           r.pc \notin CopyStages, r.pc # "idle" => r.job = runner[w].job /\ r.pc # "lock",
           r.pc \notin {"idle", "load"} => r.status # "none", r.cursor \in Int,
           UNCHANGED <<row, sends>>, breaks' \in {breaks, breaks + 1}, lockLost \subseteq lockLost',
           \/ jobLock' = jobLock
           \/ r.pc = "idle" /\ jobLock' = [jobLock EXCEPT ![runner[w].job] = NoOne]
    PROVE  RepeatInv'
  <1>1. PICK j \in Cast!Job : j = runner[w].job
    BY CastRunner
  <1>2. \A R, h \in Int : Fits(R, h, runner[w], row[j], Allowed) => Fits(R, h, r, row'[j], Allowed')
    BY FitsNumbers, FitsRests
  <1> QED  BY <1>1, <1>2, RunnerStep

LEMMA RepeatStart == Cast!Init => RepeatInv
  <1> SUFFICES ASSUME Cast!Init PROVE RepeatInv
    OBVIOUS
  <1>0. /\ CastInv /\ breaks = 0
        /\ \A w \in Worker : runner[w] = Cast!Idle
        /\ \A j \in Cast!Job : row[j].status = "none" /\ row[j].cursor = 0
        /\ \A j \in Cast!Job : \A i \in 1..Totals[j] : sends[j][i] = 0
    BY CastStart DEF Cast!Init
  <1>1. NamedRows
    BY <1>0, CastIdle DEF NamedRows
  <1>2. Allowed = 0
    <2>1. PICK e \in Int : e = FlushEvery
      BY CastConstants
    <2>2. e * 0 = 0  OBVIOUS
    <2> QED  BY <1>0, <2>1, <2>2 DEF Allowed
  <1>3. ASSUME NEW j \in Cast!Job PROVE JobInv(j)
    <2>1. \A w \in Worker : ~Working(w, j)
      BY <1>0, CastIdle DEF Working
    <2>2. Reached(j, 0) /\ 0 \in 0..Totals[j]
      BY <1>0, CastConstants DEF Reached
    <2>3. Cast!Repeats(j) = 0
      <3> DEFINE N == 1..Totals[j]
      <3>1. PICK f : f = Extra(sends, j)
        OBVIOUS
      <3>2. f \in [N -> Int] /\ IsFiniteSet(N) /\ Cast!Repeats(j) = Total(f, N)
        BY <1>0, <3>1, ExtraType, RepeatsAre DEF CastInv
      <3>3. \A i \in N : f[i] = 0
        BY <1>0, <3>1 DEF Extra
      <3> HIDE DEF N
      <3>4. \A i \in N : f[i] = IF i \in {} THEN 1 ELSE 0
        BY <3>3
      <3>5. Total(f, N) = Cardinality(N \cap {})
        BY <3>2, <3>4, SumCounts
      <3>6. N \cap {} = {}
        OBVIOUS
      <3> QED  BY <3>2, <3>5, <3>6, FS_EmptySet
    <2>4. Fits(0, 0, Cast!Idle, row[j], 0)
      BY <1>0, StageSets DEF Fits
    <2>5. FitsAt(j, 0)
      BY <1>2, <2>1, <2>2, <2>3, <2>4 DEF FitsAt
    <2> QED  BY <2>1, <2>5 DEF JobInv, Alone
  <1> QED  BY <1>1, <1>3 DEF RepeatInv

LEMMA RepeatTick ==
    ASSUME CastInv, RepeatInv, NEW w \in Worker, Cast!Tick(w)
    PROVE  RepeatInv'
  <1>1. Cast!FindNext \in Cast!Running \cup Cast!Pending
    <2>1. /\ Cast!Running \in SUBSET (1..Len(Totals)) /\ Cast!Pending \in SUBSET (1..Len(Totals))
      BY CastConstants DEF Cast!Running, Cast!Pending
    <2>2. /\ Cast!Running # {} => Cast!Max(Cast!Running) \in Cast!Running
          /\ Cast!Pending # {} => Cast!Min(Cast!Pending) \in Cast!Pending
      BY <2>1, MinMax, CastConstants
    <2>3. Cast!FindNext # NoOne  BY DEF Cast!Tick
    <2> QED  BY <2>2, <2>3 DEF Cast!FindNext
  <1>2. PICK n \in Cast!Job : n = Cast!FindNext /\ row[n].status # "none"
    BY <1>1 DEF Cast!Running, Cast!Pending
  <1>3. PICK r : r = [Cast!Idle EXCEPT !.pc = "lock", !.job = n]
    OBVIOUS
  <1>4. r.pc = "lock" /\ r.job = n
    BY <1>3, CastIdle DEF Cast!RunnerState
  <1>5. /\ runner' = [runner EXCEPT ![w] = r] /\ runner[w].pc = "idle"
        /\ UNCHANGED <<row, active, jobLock, stopped, admin, sends, lockLost, breaks, mishaps>>
    BY <1>2, <1>3 DEF Cast!Tick, Cast!Set, Cast!Calm, Cast!redis, Cast!history, Cast!At
  <1>6. runner'[w] = r /\ \A v \in Worker : v # w => runner'[v] = runner[v]
    BY <1>5 DEF CastInv
  <1>7. NamedRows'
    BY <1>2, <1>4, <1>5, <1>6 DEF RepeatInv, NamedRows
  <1>8. ASSUME NEW j \in Cast!Job \ lockLost PROVE JobInv(j)'
    <2>1. \A v \in Worker : IF Working(v, j) THEN runner'[v] = runner[v] ELSE ~Working(v, j)'
      BY <1>4, <1>5, <1>6 DEF Working
    <2> QED  BY <1>5, <2>1, JobFrame DEF RepeatInv
  <1> QED  BY <1>5, <1>7, <1>8 DEF RepeatInv

\* A runner that waits for the lock: it goes on alone, or not at all.
LEMMA RepeatLock ==
    ASSUME CastInv, RepeatInv, NEW w \in Worker, NEW r, runner[w].pc = "lock",
           runner' = [runner EXCEPT ![w] = r], UNCHANGED <<row, sends, lockLost>>,
           breaks' \in {breaks, breaks + 1},
           \/ r.pc = "idle" /\ jobLock' = jobLock
           \/ /\ r.pc = "load" /\ r.job = runner[w].job /\ jobLock[runner[w].job] = NoOne
              /\ jobLock' = [jobLock EXCEPT ![runner[w].job] = w]
    PROVE  RepeatInv'
  <1>1. PICK n \in Cast!Job : n = runner[w].job
    BY CastRunner
  <1>2. runner'[w] = r /\ \A v \in Worker : v # w => runner'[v] = runner[v]
    BY DEF CastInv
  <1>3. NamedRows'
    BY <1>1, <1>2 DEF RepeatInv, NamedRows
  <1>4. \A v \in Worker : v # w => \A j : Working(v, j)' <=> Working(v, j)
    BY <1>2 DEF Working
  <1>5. \A j : ~Working(w, j)
    BY DEF Working
  <1>6. ASSUME NEW j \in Cast!Job \ lockLost, ~Working(w, j)' PROVE JobInv(j)'
    <2>1. \A v \in Worker : IF Working(v, j) THEN runner'[v] = runner[v] ELSE ~Working(v, j)'
      BY <1>2, <1>4, <1>5, <1>6
    <2>2. JobInv(j)
      BY DEF RepeatInv
    <2>3. CASE jobLock'[j] = jobLock[j]
      BY <2>1, <2>2, <2>3, JobFrame
    <2>4. CASE jobLock'[j] # jobLock[j]
      <3>1. j = n /\ r.pc = "load" /\ r.job = n
        BY <1>1, <2>4 DEF CastInv
      <3> QED  BY <1>2, <1>6, <3>1 DEF Working
    <2> QED  BY <2>3, <2>4
  <1>7. ASSUME NEW j \in Cast!Job \ lockLost, Working(w, j)' PROVE JobInv(j)'
    <2>1. j = n /\ r.pc = "load" /\ jobLock[n] = NoOne /\ jobLock'[n] = w
      BY <1>1, <1>2, <1>7 DEF Working, CastInv
    <2>2. JobInv(j)
      BY DEF RepeatInv
    <2>3. \A v \in Worker : ~Working(v, j)
      BY <2>1, <2>2, CastConstants DEF JobInv, Alone
    <2>4. PICK h : FitsAt(j, h)
      BY <2>2 DEF JobInv
    <2>5. Fits(Cast!Repeats(j), h, Cast!Idle, row[j], Allowed)
      BY <2>3, <2>4 DEF FitsAt
    <2>6. /\ Cast!Repeats(j)' = Cast!Repeats(j) /\ Cast!Repeats(j) \in Int
          /\ Allowed \in Int /\ Allowed' \in Int /\ Allowed <= Allowed' /\ row[j].cursor \in Int
      BY RepeatsAre, RepeatsType, FitsNumbers
    <2>7. Reached(j, h)' /\ h \in 0..Totals[j] /\ h \in Int
      BY <2>4, CastConstants DEF Reached, FitsAt
    <2>8. r.pc \notin CopyStages
      BY <2>1, StageSets
    <2>9. Fits(Cast!Repeats(j), h, r, row[j], Allowed')
      <3>1. Cast!Idle.pc \notin CopyStages \ {"clear"}
        BY StageSets
      <3> QED  BY <2>5, <2>6, <2>7, <2>8, <3>1, FitsRests
    <2>10. \A v \in Worker : v # w => ~Working(v, j)'
      BY <1>4, <2>3
    <2>11. FitsAt(j, h)'
      BY <1>2, <1>7, <2>6, <2>7, <2>9, <2>10 DEF FitsAt
    <2>12. Alone(j)'
      BY <2>1, <2>10 DEF Alone
    <2> QED  BY <2>11, <2>12 DEF JobInv
  <1> QED  BY <1>3, <1>6, <1>7 DEF RepeatInv

\* A send.
LEMMA RepeatSend ==
    ASSUME CastInv, CastInv', RepeatInv, NEW w \in Worker, Cast!Send(w)
    PROVE  RepeatInv'
  <1>0. /\ runner[w].pc = "send" /\ runner[w] \in Cast!RunnerState /\ RunnerOK(runner[w], sends)
        /\ UNCHANGED <<row, jobLock, lockLost, breaks>>
    BY CastRunner DEF Cast!Send, Cast!At, Cast!redis
  <1>1. PICK n \in Cast!Job : n = runner[w].job
    BY <1>0, CastRunner
  <1>2. PICK c \in Nat : c = runner[w].cursor
    BY <1>0 DEF Cast!RunnerState
  <1>3. PICK r : /\ runner' = [runner EXCEPT ![w] = r] /\ r.pc \in {"flush", "renew"} /\ r.job = n
                 /\ r.cursor = c + 1 /\ r.flush = runner[w].flush + 1 /\ r.status = runner[w].status
    <2>1. PICK stage \in {"flush", "renew"} :
             runner' = [runner EXCEPT ![w] = [runner[w] EXCEPT !.pc = stage, !.cursor = @ + 1,
                          !.flush = @ + 1, !.check = (@ + 1) % FlushEvery]]
      BY DEF Cast!Send, Cast!Set
    <2>2. PICK r : r = [runner[w] EXCEPT !.pc = stage, !.cursor = @ + 1,
                          !.flush = @ + 1, !.check = (@ + 1) % FlushEvery]
      OBVIOUS
    <2>3. /\ r.pc = stage /\ r.job = n /\ r.cursor = c + 1 /\ r.flush = runner[w].flush + 1
          /\ r.status = runner[w].status
      BY <1>0, <1>1, <1>2, <2>2 DEF Cast!RunnerState
    <2> QED  BY <2>1, <2>2, <2>3
  <1>4. runner'[w] = r /\ \A v \in Worker : v # w => runner'[v] = runner[v]
    BY <1>3 DEF CastInv
  <1>5. Working(w, n) /\ Working(w, n)' /\ \A j : j # n => ~Working(w, j) /\ ~Working(w, j)'
    BY <1>0, <1>1, <1>3, <1>4 DEF Working
  <1>6. NamedRows'
    <2>1. runner[w].status # "none"
      BY <1>0 DEF RepeatInv, NamedRows
    <2> QED  BY <1>0, <1>1, <1>3, <1>4, <2>1 DEF RepeatInv, NamedRows
  <1>7. PICK k : /\ k = c + 1 /\ k \in 1..Totals[n]
                 /\ \A j \in Cast!Job : j # n => sends'[j] = sends[j]
                 /\ \A i \in 1..Totals[n] : i # k => sends'[n][i] = sends[n][i]
                 /\ sends'[n][k] = IF sends[n][k] < 3 THEN sends[n][k] + 1 ELSE sends[n][k]
    <2>1. c < Totals[n] /\ Totals[n] \in Nat
      BY <1>0, <1>1, <1>2, CastConstants DEF RunnerOK
    <2>2. c + 1 \in 1..Totals[n]
      BY <2>1
    <2>3. sends' = [sends EXCEPT ![n][c + 1] = IF @ < 3 THEN @ + 1 ELSE @]
      BY <1>1, <1>2 DEF Cast!Send
    <2>4. DOMAIN sends = Cast!Job /\ DOMAIN sends[n] = 1..Totals[n]
      BY DEF CastInv, SendsOK
    <2> QED  BY <2>2, <2>3, <2>4
  <1>8. ASSUME NEW j \in Cast!Job \ lockLost, j # n PROVE JobInv(j)'
    <2>1. \A v \in Worker : IF Working(v, j) THEN runner'[v] = runner[v] ELSE ~Working(v, j)'
      BY <1>4, <1>5, <1>8 DEF Working
    <2>2. JobInv(j)
      BY DEF RepeatInv
    <2>3. PICK h : FitsAt(j, h)
      BY <2>2 DEF JobInv
    <2>4. Cast!Repeats(j)' = Cast!Repeats(j)
      <3>1. PICK f, g, N : f = Extra(sends, j) /\ g = Extra(sends', j) /\ N = 1..Totals[j]
        OBVIOUS
      <3>2. f = g
        BY <1>7, <1>8, <3>1 DEF Extra
      <3> QED  BY <3>1, <3>2, RepeatsAre
    <2>5. Reached(j, h)' /\ h \in 0..Totals[j]
      BY <1>7, <1>8, <2>3 DEF Reached, FitsAt
    <2>6. \A v \in Worker : Working(v, j)' => Working(v, j) /\ runner'[v] = runner[v]
      BY <2>1
    <2>7. (\A v \in Worker : ~Working(v, j)') => \A v \in Worker : ~Working(v, j)
      BY <2>1 DEF Working
    <2>8. Allowed' = Allowed /\ row'[j] = row[j] /\ jobLock'[j] = jobLock[j]
      BY <1>0 DEF Allowed
    <2>9. FitsAt(j, h)'
      BY <2>3, <2>4, <2>5, <2>6, <2>7, <2>8 DEF FitsAt
    <2>10. Alone(j)'
      BY <2>2, <2>6, <2>8 DEF JobInv, Alone
    <2> QED  BY <2>9, <2>10 DEF JobInv
  <1>9. ASSUME n \notin lockLost PROVE JobInv(n)'
    <2>1. JobInv(n)
      BY <1>9 DEF RepeatInv
    <2>2. PICK h : FitsAt(n, h)
      BY <2>1 DEF JobInv
    <2>3. jobLock[n] = w /\ \A v \in Worker : v # w => ~Working(v, n)'
      <3>1. jobLock[n] = w
        BY <1>5, <2>1 DEF JobInv, Alone
      <3>2. \A v \in Worker : v # w => ~Working(v, n)
        BY <2>1, <3>1 DEF JobInv, Alone
      <3> QED  BY <1>4, <3>1, <3>2 DEF Working
    <2>4. Alone(n)'
      BY <1>0, <2>3 DEF Alone
    <2>5. Fits(Cast!Repeats(n), h, runner[w], row[n], Allowed)
      BY <1>5, <2>2 DEF FitsAt
    <2>6. PICK R \in Int, S \in Int : R = Cast!Repeats(n) /\ S = Cast!Repeats(n)'
      BY <1>7, RepeatsType, RepeatsSent DEF CastInv
    <2>7. S <= R + 1 /\ (sends[n][k] = 0 => S = R)
      BY <1>7, <2>6, RepeatsSent DEF CastInv
    <2>8. Reached(n, h) /\ h \in 0..Totals[n] /\ h \in Nat /\ Totals[n] \in Nat
      BY <2>2, CastConstants DEF FitsAt
    <2>9. Allowed' = Allowed /\ Allowed \in Int /\ row'[n] = row[n] /\ row[n].cursor \in Int
          /\ runner[w].flush \in Int
      BY <1>0, FitsNumbers DEF Allowed
    <2>10. c <= h
      <3>1. Sent(sends, n, c) /\ c <= Totals[n]
        BY <1>0, <1>1, <1>2 DEF RunnerOK
      <3> QED  BY <2>8, <3>1 DEF Sent, Reached
    <2>11. R + h - c <= Allowed /\ (row[n].status # "cancelled" => c - row[n].cursor <= runner[w].flush)
      BY <1>0, <1>2, <2>5, <2>6, StageSets DEF Fits
    <2>12. sends[n][k] \in 0..3 /\ (k <= h <=> sends[n][k] >= 1)
      BY <1>7, <2>8 DEF CastInv, SendsOK, Reached
    <2>13. \A i \in 1..Totals[n] : sends'[n][i] >= 1 <=> sends[n][i] >= 1 \/ i = k
      BY <1>7, <2>12
    <2>14. PICK g : g = IF k <= h THEN h ELSE h + 1
      OBVIOUS
    <2>15. g \in 0..Totals[n] /\ g \in Nat /\ k <= g
      BY <1>7, <2>8, <2>10, <2>14
    <2>16. Reached(n, g)'
      BY <1>7, <2>8, <2>10, <2>13, <2>14 DEF Reached
    <2>17. S + g - k <= Allowed /\ S <= Allowed
      <3>1. PICK A \in Int : A = Allowed
        BY <2>9
      <3>2. R + h - c <= A /\ k = c + 1
        BY <1>7, <2>11, <3>1
      <3>3. CASE k <= h
        BY <2>7, <2>8, <2>10, <2>14, <3>1, <3>2, <3>3
      <3>4. CASE ~(k <= h)
        <4>1. S = R
          BY <2>7, <2>12, <3>4
        <4> QED  BY <2>8, <2>10, <2>14, <3>1, <3>2, <3>4, <4>1
      <3> QED  BY <3>3, <3>4
    <2>18. Fits(S, g, r, row[n], Allowed)
      BY <1>3, <1>7, <2>9, <2>11, <2>15, <2>17, StageSets DEF Fits
    <2>19. FitsAt(n, g)'
      BY <1>4, <1>5, <2>3, <2>6, <2>9, <2>15, <2>16, <2>18 DEF FitsAt
    <2> QED  BY <2>4, <2>19 DEF JobInv
  <1> QED  BY <1>0, <1>6, <1>8, <1>9 DEF RepeatInv

LEMMA CopyStatus ==
    ASSUME CastInv, RepeatInv, NEW w \in Worker, runner[w].pc \in CopyStages
    PROVE  runner[w].status # "none"
  BY StageSets DEF RepeatInv, NamedRows

\* Going on to another stage within the loop.
LEMMA RepeatLoops ==
    ASSUME CastInv, RepeatInv, NEW w \in Worker,
           \/ Cast!SetActive(w) \/ Cast!NextRecipient(w) \/ Cast!CheckCancelled(w)
           \/ Cast!RenewGet(w) \/ Cast!RenewSet(w)
    PROVE  RepeatInv'
  <1>0. /\ runner[w].pc \in CopyStages /\ runner[w].status # "none"
        /\ UNCHANGED <<row, sends, breaks, lockLost>>
        /\ jobLock' = jobLock \/ jobLock' = [jobLock EXCEPT ![runner[w].job] = w]
    <2>1. runner[w].pc \in CopyStages
      BY StageSets DEF Cast!SetActive, Cast!NextRecipient, Cast!CheckCancelled, Cast!RenewGet,
         Cast!RenewSet, Cast!At
    <2>2. /\ UNCHANGED <<row, sends, breaks, lockLost>>
          /\ jobLock' = jobLock \/ jobLock' = [jobLock EXCEPT ![runner[w].job] = w]
      BY DEF Cast!SetActive, Cast!NextRecipient, Cast!CheckCancelled, Cast!RenewGet,
         Cast!RenewSet, Cast!redis, Cast!history
    <2> QED  BY <2>1, <2>2, CopyStatus
  <1>1. CASE \E stage \in CopyStages \ {"clear"} : Cast!Goto(w, stage)
    BY <1>0, <1>1, GotoIs, CopyMoves
  <1>2. CASE runner' = [runner EXCEPT ![w] = [runner[w] EXCEPT !.pc = "drop", !.status = "cancelled"]]
    <2>1. PICK r : r = [runner[w] EXCEPT !.pc = "drop", !.status = "cancelled"]
      OBVIOUS
    <2>2. /\ r.pc = "drop" /\ r.job = runner[w].job /\ r.status = "cancelled"
          /\ r.cursor = runner[w].cursor /\ r.flush = runner[w].flush
      BY <2>1, CastRunner DEF Cast!RunnerState
    <2>3. r.pc \in CopyStages \ {"clear"} /\ r.status # "none"
      BY <2>2, StageSets
    <2>4. runner' = [runner EXCEPT ![w] = r]
      BY <1>2, <2>1
    <2> QED  BY <1>0, <2>2, <2>3, <2>4, CopyMoves
  <1>3. \/ \E stage \in {"head", "final", "check", "send", "renewSet", "flush"} : Cast!Goto(w, stage)
        \/ runner' = [runner EXCEPT ![w] = [runner[w] EXCEPT !.pc = "drop", !.status = "cancelled"]]
    BY DEF Cast!SetActive, Cast!NextRecipient, Cast!CheckCancelled, Cast!RenewGet, Cast!RenewSet, Cast!Set
  <1> QED  BY <1>1, <1>2, <1>3, StageSets

\* Taking the lock, reading the row, marking it as running.
LEMMA RepeatOpens ==
    ASSUME CastInv, RepeatInv, NEW w \in Worker, Cast!Lock(w) \/ Cast!Load(w) \/ Cast!MarkRunning(w)
    PROVE  RepeatInv'
  <1>1. CASE Cast!Lock(w)
    <2>0. /\ runner[w].pc = "lock" /\ UNCHANGED <<row, sends, lockLost, breaks>>
          /\ breaks' \in {breaks, breaks + 1}
      BY <1>1 DEF Cast!Lock, Cast!At, Cast!history
    <2>1. CASE jobLock[runner[w].job] = NoOne
      <3>1. jobLock' = [jobLock EXCEPT ![runner[w].job] = w] /\ Cast!Goto(w, "load")
        BY <1>1, <2>1 DEF Cast!Lock, Cast!Acquire
      <3>2. PICK r : /\ runner' = [runner EXCEPT ![w] = r] /\ r.pc = "load" /\ r.job = runner[w].job
        BY <3>1, GotoIs
      <3> QED  BY <2>0, <2>1, <3>1, <3>2, RepeatLock
    <2>2. CASE jobLock[runner[w].job] # NoOne
      <3>1. jobLock' = jobLock /\ runner' = [runner EXCEPT ![w] = Cast!Idle]
        BY <1>1, <2>2 DEF Cast!Lock, Cast!Acquire, Cast!Set
      <3> QED  BY <2>0, <3>1, CastIdle, RepeatLock
    <2> QED  BY <2>1, <2>2
  <1>2. CASE Cast!Load(w)
    <2>0. /\ runner[w].pc = "load" /\ UNCHANGED <<row, jobLock, sends, breaks, lockLost>>
      BY <1>2 DEF Cast!Load, Cast!At, Cast!redis, Cast!history
    <2>1. PICK j \in Cast!Job : j = runner[w].job
      BY <2>0, CastRunner
    <2>2. PICK r : /\ runner' = [runner EXCEPT ![w] = r] /\ r.job = j /\ r.flush = 0
                   /\ r.status = row[j].status /\ r.cursor = row[j].cursor
                   /\ r.pc = IF row[j].status \in {"cancelled", "completed"} THEN "unlock" ELSE "mark"
      <3>1. PICK r : r = [Cast!Idle EXCEPT !.pc = IF row[j].status \in {"cancelled", "completed"}
                                                  THEN "unlock" ELSE "mark",
                                           !.job = j, !.status = row[j].status, !.cursor = row[j].cursor]
        OBVIOUS
      <3>2. runner' = [runner EXCEPT ![w] = r]
        BY <1>2, <2>1, <3>1 DEF Cast!Load, Cast!Set
      <3>3. /\ r.job = j /\ r.flush = 0 /\ r.status = row[j].status /\ r.cursor = row[j].cursor
            /\ r.pc = IF row[j].status \in {"cancelled", "completed"} THEN "unlock" ELSE "mark"
        BY <3>1, CastIdle DEF Cast!RunnerState
      <3> QED  BY <3>2, <3>3
    <2>3. row[j].cursor \in Int /\ row[j].status # "none"
      BY <2>0, <2>1, FitsNumbers DEF RepeatInv, NamedRows
    <2>4. \A R, h \in Int : Fits(R, h, runner[w], row[j], Allowed) => Fits(R, h, r, row'[j], Allowed')
      <3>1. runner[w].pc \notin CopyStages
        BY <2>0, StageSets
      <3>2. row[j].status = "cancelled" => r.pc \notin CopyStages
        BY <2>2, StageSets
      <3>3. r.pc # "clear" /\ row' = row /\ Allowed' = Allowed
        BY <2>0, <2>2 DEF Allowed
      <3> QED  BY <2>2, <2>3, <3>1, <3>2, <3>3 DEF Fits
    <2>5. /\ r.pc # "idle" /\ r.pc # "lock" /\ r.status # "none" /\ r.cursor \in Int
          /\ breaks' \in {breaks, breaks + 1} /\ lockLost \subseteq lockLost'
      BY <2>0, <2>2, <2>3
    <2> QED  BY <2>0, <2>1, <2>2, <2>4, <2>5, RunnerStep
  <1>3. CASE Cast!MarkRunning(w)
    <2>0. /\ runner[w].pc = "mark" /\ runner[w].pc \in CopyStages /\ runner[w].status # "none"
          /\ UNCHANGED <<jobLock, sends, breaks, lockLost>>
      BY <1>3, StageSets, CopyStatus DEF Cast!MarkRunning, Cast!At, Cast!history
    <2>1. CASE runner[w].status = "pending"
      <3>1. PICK r : r = [runner[w] EXCEPT !.pc = "point", !.status = "running"]
        OBVIOUS
      <3>2. /\ r.pc = "point" /\ r.job = runner[w].job /\ r.status = "running"
            /\ r.cursor = runner[w].cursor /\ r.flush = runner[w].flush /\ r.flush \in Nat
        BY <3>1, CastRunner DEF Cast!RunnerState
      <3>3. Cast!Save(w, "running") /\ runner' = [runner EXCEPT ![w] = r]
        BY <1>3, <2>1, <3>1 DEF Cast!MarkRunning, Cast!Set
      <3> QED  BY <2>0, <3>2, <3>3, CopySaved
    <2>2. CASE runner[w].status # "pending"
      <3>1. row' = row /\ Cast!Goto(w, "point")
        BY <1>3, <2>2 DEF Cast!MarkRunning
      <3>2. PICK r : /\ runner' = [runner EXCEPT ![w] = r] /\ r.pc = "point" /\ r.job = runner[w].job
                     /\ r.status = runner[w].status /\ r.cursor = runner[w].cursor
                     /\ r.flush = runner[w].flush
        BY <3>1, GotoIs
      <3>3. r.pc \in CopyStages \ {"clear"}
        BY <3>2, StageSets
      <3> QED  BY <2>0, <3>1, <3>2, <3>3, CopyMoves
    <2> QED  BY <2>1, <2>2
  <1> QED  BY <1>1, <1>2, <1>3

\* Writing the copy: a flush, a cancellation seen, the end, the catch block.
LEMMA RepeatSaves ==
    ASSUME CastInv, RepeatInv, NEW w \in Worker,
           \/ Cast!Flush(w) \/ Cast!SaveCancelled(w) \/ Cast!SaveFinal(w) \/ Cast!SaveFailed(w)
    PROVE  RepeatInv'
  <1>0. /\ runner[w].pc \in CopyStages /\ runner[w].status # "none"
        /\ UNCHANGED <<jobLock, sends, breaks, lockLost>>
    <2>1. runner[w].pc \in CopyStages
      BY StageSets DEF Cast!Flush, Cast!SaveCancelled, Cast!SaveFinal, Cast!SaveFailed, Cast!At
    <2> QED
      BY <2>1, CopyStatus DEF Cast!Flush, Cast!SaveCancelled, Cast!SaveFinal, Cast!SaveFailed, Cast!history
  <1>1. /\ runner[w].flush \in Nat /\ runner[w].cursor \in Int
    BY CastRunner DEF Cast!RunnerState
  <1>2. ASSUME NEW stage \in {"final", "clear", "failClear"}, NEW says, says # "none",
               Cast!Goto(w, stage), Cast!Save(w, says)
        PROVE  RepeatInv'
    <2>1. PICK r : /\ runner' = [runner EXCEPT ![w] = r] /\ r.pc = stage /\ r.job = runner[w].job
                   /\ r.status = runner[w].status /\ r.cursor = runner[w].cursor
                   /\ r.flush = runner[w].flush
      BY <1>2, GotoIs
    <2>2. r.pc \notin {"idle", "lock"} /\ r.flush \in Nat
      BY <1>1, <1>2, <2>1
    <2> QED  BY <1>0, <1>2, <2>1, <2>2, CopySaved
  <1>3. CASE Cast!Flush(w) /\ Cast!FlushDue(runner[w])
    <2>1. PICK r : r = [runner[w] EXCEPT !.pc = "head", !.flush = 0]
      OBVIOUS
    <2>2. /\ r.pc = "head" /\ r.job = runner[w].job /\ r.status = runner[w].status
          /\ r.cursor = runner[w].cursor /\ r.flush = 0
      BY <2>1, CastRunner DEF Cast!RunnerState
    <2>4. r.flush \in Nat /\ r.pc \notin {"idle", "lock"} /\ r.status # "none"
      BY <1>0, <2>2
    <2>3. Cast!Save(w, runner[w].status) /\ runner' = [runner EXCEPT ![w] = r]
      BY <1>3, <2>1 DEF Cast!Flush, Cast!Set
    <2> QED  BY <1>0, <2>2, <2>3, <2>4, CopySaved
  <1>4. CASE Cast!Flush(w) /\ ~Cast!FlushDue(runner[w])
    <2>1. Cast!Goto(w, "head") /\ row' = row
      BY <1>4 DEF Cast!Flush
    <2>2. PICK r : /\ runner' = [runner EXCEPT ![w] = r] /\ r.pc = "head" /\ r.job = runner[w].job
                   /\ r.status = runner[w].status /\ r.cursor = runner[w].cursor
                   /\ r.flush = runner[w].flush
      BY <2>1, GotoIs
    <2>3. r.pc \in CopyStages \ {"clear"}
      BY <2>2, StageSets
    <2> QED  BY <1>0, <2>1, <2>2, <2>3, CopyMoves
  <1>5. ASSUME Cast!SaveCancelled(w) \/ Cast!SaveFinal(w) \/ Cast!SaveFailed(w)
        PROVE  \E stage \in {"final", "clear", "failClear"}, says \in {"cancelled", "failed", runner[w].status} :
                  Cast!Goto(w, stage) /\ Cast!Save(w, says)
    BY <1>5 DEF Cast!SaveCancelled, Cast!SaveFinal, Cast!SaveFailed
  <1> QED  BY <1>0, <1>2, <1>3, <1>4, <1>5

\* The end of a pass: a copy that is neither written nor in the row is a break.
LEMMA RepeatEnds ==
    ASSUME CastInv, RepeatInv, NEW w \in Worker,
           \/ Cast!ReadFinal(w) \/ Cast!ClearActive(w) \/ Cast!ClearFailed(w)
           \/ Cast!UnlockGet(w) \/ Cast!UnlockDel(w)
    PROVE  RepeatInv'
  <1>1. CASE Cast!ReadFinal(w)
    <2>0. /\ runner[w].pc = "final" /\ runner[w].pc \in CopyStages /\ runner[w].status # "none"
          /\ UNCHANGED <<row, jobLock, sends, lockLost>> /\ breaks' \in {breaks, breaks + 1}
      <3>1. runner[w].pc = "final" /\ runner[w].pc \in CopyStages
        BY <1>1, StageSets DEF Cast!ReadFinal, Cast!At
      <3> QED  BY <1>1, <3>1, CopyStatus DEF Cast!ReadFinal, Cast!redis
    <2>1. PICK j \in Cast!Job : j = runner[w].job
      BY <2>0, CastRunner
    <2>2. PICK live : live = row[j].status
      OBVIOUS
    <2>3. ASSUME NEW says, says # "none", breaks' = breaks,
                 runner' = [runner EXCEPT ![w] = [runner[w] EXCEPT !.pc = "save", !.status = says]]
          PROVE  RepeatInv'
      <3>1. PICK r : r = [runner[w] EXCEPT !.pc = "save", !.status = says]
        OBVIOUS
      <3>2. /\ r.pc = "save" /\ r.job = runner[w].job /\ r.status = says
            /\ r.cursor = runner[w].cursor /\ r.flush = runner[w].flush
        BY <3>1, CastRunner DEF Cast!RunnerState
      <3>3. r.pc \in CopyStages \ {"clear"} /\ runner' = [runner EXCEPT ![w] = r]
        BY <2>3, <3>1, <3>2, StageSets
      <3> QED  BY <2>0, <2>3, <3>2, <3>3, CopyMoves
    <2>4. ASSUME Cast!Goto(w, "clear"),
                 \/ breaks' = breaks + 1
                 \/ breaks' = breaks /\ (runner[w].flush = 0 \/ row[j].status = "cancelled")
          PROVE  RepeatInv'
      <3>1. PICK r : /\ runner' = [runner EXCEPT ![w] = r] /\ r.pc = "clear" /\ r.job = runner[w].job
                     /\ r.status = runner[w].status /\ r.cursor = runner[w].cursor
                     /\ r.flush = runner[w].flush
        BY <2>4, GotoIs
      <3>2. /\ runner[w].cursor \in Int /\ row[j].cursor \in Int /\ runner[w].flush \in Int
            /\ 0 <= runner[w].flush /\ runner[w].flush <= FlushEvery /\ FlushEvery \in Int
            /\ Allowed \in Int /\ Allowed' \in Int /\ row' = row
            /\ breaks' = breaks + 1 => Allowed' = Allowed + FlushEvery
            /\ breaks' = breaks => Allowed' = Allowed
        BY <2>0, FitsNumbers DEF Allowed
      <3>3. CASE breaks' = breaks + 1
        <4>1. \A R, h \in Int : Fits(R, h, runner[w], row[j], Allowed) => Fits(R, h, r, row'[j], Allowed')
          BY <2>0, <3>1, <3>2, <3>3, FitsLost
        <4> QED  BY <2>0, <2>1, <3>1, <3>2, <4>1, RunnerStep
      <3>4. CASE breaks' = breaks /\ (runner[w].flush = 0 \/ row[j].status = "cancelled")
        <4>1. \A R, h \in Int : Fits(R, h, runner[w], row[j], Allowed) => Fits(R, h, r, row'[j], Allowed')
          BY <2>0, <3>1, <3>2, <3>4, FitsEven
        <4> QED  BY <2>0, <2>1, <3>1, <3>2, <4>1, RunnerStep
      <3> QED  BY <2>4, <3>3, <3>4
    <2>5. runner[w].flush \in Nat
      BY CastRunner DEF Cast!RunnerState
    <2>6. CASE live = "running"
      <3>1. Cast!Outcome(runner[w]) # "none" /\ breaks' = breaks
        BY <1>1, <2>1, <2>2, <2>6 DEF Cast!ReadFinal, Cast!Outcome
      <3>2. runner' = [runner EXCEPT ![w] = [runner[w] EXCEPT !.pc = "save", !.status = Cast!Outcome(runner[w])]]
        BY <1>1, <2>1, <2>2, <2>6 DEF Cast!ReadFinal, Cast!Set
      <3> QED  BY <2>3, <3>1, <3>2
    <2>7. CASE live = "cancelled" /\ runner[w].status # "cancelled"
      <3>1. breaks' = breaks
        BY <1>1, <2>1, <2>2, <2>7 DEF Cast!ReadFinal
      <3>2. runner' = [runner EXCEPT ![w] = [runner[w] EXCEPT !.pc = "save", !.status = "cancelled"]]
        BY <1>1, <2>1, <2>2, <2>7 DEF Cast!ReadFinal, Cast!Set
      <3> QED  BY <2>3, <3>1, <3>2
    <2>8. CASE live # "running" /\ ~(live = "cancelled" /\ runner[w].status # "cancelled")
      <3>1. Cast!Goto(w, "clear")
        BY <1>1, <2>1, <2>2, <2>8 DEF Cast!ReadFinal
      <3>2. \/ breaks' = breaks + 1
            \/ breaks' = breaks /\ (runner[w].flush = 0 \/ row[j].status = "cancelled")
        BY <1>1, <2>1, <2>2, <2>5, <2>8 DEF Cast!ReadFinal
      <3> QED  BY <2>4, <3>1, <3>2
    <2> QED  BY <2>6, <2>7, <2>8
  <1>2. CASE Cast!ClearActive(w) \/ Cast!ClearFailed(w)
    <2>1. /\ runner[w].pc \in {"clear", "failClear"} /\ Cast!Goto(w, "unlock")
          /\ UNCHANGED <<row, jobLock, sends, breaks, lockLost>>
      BY <1>2 DEF Cast!ClearActive, Cast!ClearFailed, Cast!At, Cast!history
    <2>2. PICK r : /\ runner' = [runner EXCEPT ![w] = r] /\ r.pc = "unlock" /\ r.job = runner[w].job
                   /\ r.status = runner[w].status /\ r.cursor = runner[w].cursor
      BY <2>1, GotoIs
    <2>3. r.status # "none" /\ r.cursor \in Int
      BY <2>1, <2>2, FitsNumbers DEF RepeatInv, NamedRows
    <2>4. /\ runner[w].pc \notin {"idle", "lock"} /\ runner[w].pc \notin CopyStages \ {"clear"}
          /\ r.pc \notin CopyStages /\ r.pc # "lock" /\ lockLost \subseteq lockLost'
          /\ breaks' \in {breaks, breaks + 1}
      BY <2>1, <2>2, StageSets
    <2> QED  BY <2>1, <2>2, <2>3, <2>4, CopyRests
  <1>3. CASE Cast!UnlockGet(w) \/ Cast!UnlockDel(w)
    <2>1. /\ runner[w].pc \in {"unlock", "unlockDel"}
          /\ UNCHANGED <<row, sends, breaks>> /\ lockLost \subseteq lockLost'
      BY <1>3 DEF Cast!UnlockGet, Cast!UnlockDel, Cast!At, Cast!redis, Cast!history
    <2>2. /\ runner[w].pc \notin {"idle", "lock"} /\ runner[w].pc \notin CopyStages \ {"clear"}
          /\ breaks' \in {breaks, breaks + 1} /\ runner[w].status # "none"
      BY <2>1, StageSets DEF RepeatInv, NamedRows
    <2>3. CASE Cast!Goto(w, "unlockDel") /\ jobLock' = jobLock
      <3>1. PICK r : /\ runner' = [runner EXCEPT ![w] = r] /\ r.pc = "unlockDel" /\ r.job = runner[w].job
                     /\ r.status = runner[w].status /\ r.cursor = runner[w].cursor
        BY <2>3, GotoIs
      <3>2. r.pc \notin CopyStages /\ r.pc # "lock" /\ r.status # "none" /\ r.cursor \in Int
        BY <2>2, <3>1, StageSets, FitsNumbers
      <3> QED  BY <2>1, <2>2, <2>3, <3>1, <3>2, CopyRests
    <2>4. CASE /\ runner' = [runner EXCEPT ![w] = Cast!Idle]
               /\ jobLock' = jobLock \/ jobLock' = [jobLock EXCEPT ![runner[w].job] = NoOne]
      <3>1. Cast!Idle.pc = "idle" /\ Cast!Idle.pc \notin CopyStages /\ Cast!Idle.cursor \in Int
        BY StageSets
      <3> QED  BY <2>1, <2>2, <2>4, <3>1, CopyRests
    <2>5. \/ Cast!Goto(w, "unlockDel") /\ jobLock' = jobLock
          \/ /\ runner' = [runner EXCEPT ![w] = Cast!Idle]
             /\ jobLock' = jobLock \/ jobLock' = [jobLock EXCEPT ![runner[w].job] = NoOne]
      BY <1>3 DEF Cast!UnlockGet, Cast!UnlockDel, Cast!Set, Cast!redis
    <2> QED  BY <2>3, <2>4, <2>5
  <1> QED  BY <1>1, <1>2, <1>3

\* Errors and the life of a node.
LEMMA RepeatUpset ==
    ASSUME CastInv, RepeatInv, NEW w \in Worker,
           Cast!Throws(w) \/ Cast!Stop(w) \/ Cast!Die(w) \/ Cast!Restart(w)
    PROVE  RepeatInv'
  <1>0. /\ UNCHANGED <<row, jobLock, sends, lockLost>> /\ breaks' \in {breaks, breaks + 1}
        /\ lockLost \subseteq lockLost'
    BY DEF Cast!Throws, Cast!Stop, Cast!Die, Cast!Restart, Cast!redis, Cast!history
  <1>1. ASSUME runner[w].pc \in CopyStages, breaks' = breaks + 1, NEW r, r.pc \notin CopyStages,
               runner' = [runner EXCEPT ![w] = r], r.pc # "idle" => r.job = runner[w].job /\ r.pc # "lock",
               r.pc # "idle" => r.status # "none", r.cursor \in Int
        PROVE  RepeatInv'
    <2>1. PICK j \in Cast!Job : j = runner[w].job
      BY <1>1, StageSets, CastRunner
    <2>2. \A R, h \in Int : Fits(R, h, runner[w], row[j], Allowed) => Fits(R, h, r, row'[j], Allowed')
      BY <1>0, <1>1, FitsNumbers, FitsLost
    <2>3. runner[w].pc \notin {"idle", "lock"}
      BY <1>1, StageSets
    <2> QED  BY <1>0, <1>1, <2>1, <2>2, <2>3, RunnerStep
  <1>2. ASSUME runner[w].pc \notin CopyStages, runner[w].pc \notin {"idle", "lock"}, NEW r, r.pc \notin CopyStages,
               runner' = [runner EXCEPT ![w] = r], r.pc # "idle" => r.job = runner[w].job /\ r.pc # "lock",
               r.pc # "idle" => r.status # "none", r.cursor \in Int
        PROVE  RepeatInv'
    BY <1>0, <1>2, CopyRests
  <1>3. ASSUME runner[w].pc = "lock", runner' = [runner EXCEPT ![w] = Cast!Idle]
        PROVE  RepeatInv'
    BY <1>0, <1>3, StageSets, RepeatLock
  <1>4. Cast!Idle.pc = "idle" /\ Cast!Idle.pc \notin CopyStages /\ Cast!Idle.cursor \in Int
    BY StageSets
  <1>5. CASE Cast!Throws(w)
    <2>1. runner[w].pc # "idle"
      BY <1>5 DEF Cast!Throws, Cast!CallsRedis
    <2>2. CASE runner[w].pc \in Cast!Trying
      <3>1. Cast!Goto(w, "failSave") /\ breaks' = breaks /\ runner[w].pc \in CopyStages
        BY <1>5, <2>2 DEF Cast!Throws, CopyStages, Cast!Trying
      <3>2. PICK r : /\ runner' = [runner EXCEPT ![w] = r] /\ r.pc = "failSave" /\ r.job = runner[w].job
                     /\ r.status = runner[w].status /\ r.cursor = runner[w].cursor
                     /\ r.flush = runner[w].flush
        BY <3>1, GotoIs
      <3>3. r.pc \in CopyStages \ {"clear"} /\ r.status # "none"
        BY <3>1, <3>2, StageSets, CopyStatus
      <3> QED  BY <1>0, <3>1, <3>2, <3>3, CopyMoves
    <2>3. CASE runner[w].pc \in Cast!Failing
      <3>1. /\ Cast!Goto(w, "unlock") /\ runner[w].pc \in {"failSave", "failClear"}
            /\ runner[w].pc = "failSave" => breaks' = breaks + 1
        BY <1>5, <2>3 DEF Cast!Throws, Cast!Failing, Cast!Trying
      <3>2. PICK r : /\ runner' = [runner EXCEPT ![w] = r] /\ r.pc = "unlock" /\ r.job = runner[w].job
                     /\ r.status = runner[w].status /\ r.cursor = runner[w].cursor
        BY <3>1, GotoIs
      <3>3. r.status # "none" /\ r.cursor \in Int /\ r.pc \notin CopyStages
        <4>1. runner[w].status # "none"
          BY <3>1 DEF RepeatInv, NamedRows
        <4>2. runner[w].cursor \in Int
          BY <1>0, FitsNumbers
        <4> QED  BY <3>2, <4>1, <4>2, StageSets
      <3>4. CASE runner[w].pc = "failSave"
        BY <1>1, <3>1, <3>2, <3>3, <3>4, StageSets
      <3>5. CASE runner[w].pc = "failClear"
        BY <1>2, <3>1, <3>2, <3>3, <3>5, StageSets
      <3> QED  BY <3>1, <3>4, <3>5
    <2>4. CASE runner[w].pc \notin Cast!Trying \cup Cast!Failing
      <3>1. runner' = [runner EXCEPT ![w] = Cast!Idle]
        BY <1>5, <2>4 DEF Cast!Throws, Cast!Set
      <3>2. runner[w].pc \notin CopyStages
        BY <2>4 DEF CopyStages, Cast!Failing
      <3> QED  BY <1>2, <1>3, <1>4, <2>1, <3>1, <3>2
    <2> QED  BY <2>2, <2>3, <2>4
  <1>6. CASE Cast!Die(w)
    <2>1. /\ runner' = [runner EXCEPT ![w] = Cast!Idle] /\ breaks' = breaks + 1 /\ runner[w].pc # "idle"
      BY <1>6 DEF Cast!Die, Cast!Set, Cast!At
    <2> QED  BY <1>1, <1>2, <1>3, <1>4, <2>1
  <1>7. CASE Cast!Stop(w) \/ Cast!Restart(w)
    <2>1. runner' = runner
      BY <1>7 DEF Cast!Stop, Cast!Restart
    <2>2. NamedRows'
      BY <1>0, <2>1 DEF RepeatInv, NamedRows
    <2>3. ASSUME NEW j \in Cast!Job \ lockLost PROVE JobInv(j)'
      <3>1. \A v \in Worker : IF Working(v, j) THEN runner'[v] = runner[v] ELSE ~Working(v, j)'
        BY <2>1 DEF Working
      <3> QED  BY <1>0, <3>1, JobFrame DEF RepeatInv
    <2> QED  BY <1>0, <2>2, <2>3 DEF RepeatInv
  <1> QED  BY <1>5, <1>6, <1>7

\* What is not a runner's.
LEMMA RepeatJobs ==
    ASSUME CastInv, RepeatInv,
           \/ \E j \in Cast!Job : Cast!Expire(j) \/ Cast!Create(j) \/ Cast!CancelGet(j)
           \/ Cast!Cancel
    PROVE  RepeatInv'
  <1>0. /\ UNCHANGED <<runner, sends, breaks>> /\ lockLost \subseteq lockLost'
        /\ breaks' \in {breaks, breaks + 1}
    BY DEF Cast!Expire, Cast!Create, Cast!CancelGet, Cast!Cancel, Cast!CancelSet,
           Cast!CancelActiveGet, Cast!CancelActiveDel, Cast!redis, Cast!history
  <1>1. \A w \in Worker : \A j : (Working(w, j)' <=> Working(w, j)) /\ runner'[w] = runner[w]
    BY <1>0 DEF Working
  <1>2. ASSUME NEW j \in Cast!Job \ lockLost, row'[j] = row[j], jobLock'[j] = jobLock[j]
        PROVE  JobInv(j)'
    <2>1. \A v \in Worker : IF Working(v, j) THEN runner'[v] = runner[v] ELSE ~Working(v, j)'
      BY <1>1
    <2> QED  BY <1>0, <1>2, <2>1, JobFrame DEF RepeatInv
  <1>3. ASSUME NEW j \in Cast!Job, Cast!Expire(j) PROVE RepeatInv'
    <2>1. row' = row /\ jobLock' = [jobLock EXCEPT ![j] = NoOne]
      BY <1>3 DEF Cast!Expire
    <2>2. NamedRows'
      BY <1>0, <2>1 DEF RepeatInv, NamedRows
    <2>3. \A i \in Cast!Job : i # j => row'[i] = row[i] /\ jobLock'[i] = jobLock[i]
      BY <2>1 DEF CastInv
    <2>4. ASSUME j \notin lockLost' PROVE JobInv(j)'
      <3>1. JobInv(j) /\ Alone(j)
        BY <1>0, <2>4 DEF RepeatInv, JobInv
      <3>2. \A w \in Worker : ~Working(w, j)
        <4>1. ~Cast!Holds(jobLock[j], j)
          BY <1>3, <2>4 DEF Cast!Expire
        <4> QED  BY <3>1, <4>1 DEF Alone, Working, Cast!Holds
      <3>3. PICK h : FitsAt(j, h)
        BY <3>1 DEF JobInv
      <3>4. Alone(j)'
        BY <1>1, <3>2 DEF Alone
      <3>5. Cast!Repeats(j)' = Cast!Repeats(j) /\ Reached(j, h)' /\ Allowed' = Allowed
        BY <1>0, <3>3, RepeatsAre DEF FitsAt, Reached, Allowed
      <3>6. FitsAt(j, h)'
        BY <1>1, <2>1, <3>2, <3>3, <3>5 DEF FitsAt
      <3> QED  BY <3>4, <3>6 DEF JobInv
    <2> QED  BY <1>0, <1>2, <2>2, <2>3, <2>4 DEF RepeatInv
  \* A row that is written by nobody but its administrator.
  <1>4. ASSUME NEW j \in Cast!Job, NEW q, q.status # "none", q.cursor \in Int,
               row' = [row EXCEPT ![j] = q], jobLock' = jobLock, lockLost' = lockLost,
               q.status = "cancelled" \/ (row[j].status # "cancelled" /\ q.cursor = row[j].cursor)
        PROVE  RepeatInv'
    <2>1. row'[j] = q /\ \A i \in Cast!Job : i # j => row'[i] = row[i]
      BY <1>4 DEF CastInv
    <2>2. NamedRows'
      <3>1. \A i \in Cast!Job : row'[i].status = "none" => row[i].status = "none" /\ row'[i] = row[i]
        BY <1>4, <2>1
      <3>2. \A w \in Worker : runner[w].pc # "idle" => runner[w].job \in Cast!Job
        BY CastRunner
      <3> QED  BY <1>0, <3>1, <3>2 DEF RepeatInv, NamedRows
    <2>3. ASSUME j \notin lockLost PROVE JobInv(j)'
      <3>1. JobInv(j) /\ Alone(j)
        BY <2>3 DEF RepeatInv, JobInv
      <3>2. PICK h : FitsAt(j, h)
        BY <3>1 DEF JobInv
      <3>3. Alone(j)'
        BY <1>1, <1>4, <3>1 DEF Alone
      <3>4. /\ Cast!Repeats(j)' = Cast!Repeats(j) /\ Reached(j, h)' /\ Allowed' = Allowed
            /\ Cast!Repeats(j) \in Int /\ h \in Int /\ Allowed \in Int
        BY <1>0, <3>2, RepeatsAre, RepeatsType, AllowedMore, CastConstants DEF FitsAt, Reached, Allowed, CastInv
      <3>5. ASSUME NEW r, r.cursor \in Int, Fits(Cast!Repeats(j), h, r, row[j], Allowed)
            PROVE  Fits(Cast!Repeats(j), h, r, q, Allowed)
        BY <1>4, <3>4, <3>5 DEF Fits
      <3>6. \A w \in Worker : runner[w].cursor \in Int
        BY FitsNumbers, <1>0
      <3>7. Cast!Idle.cursor \in Int
        BY StageSets
      <3>8. FitsAt(j, h)'
        BY <1>1, <2>1, <3>2, <3>4, <3>5, <3>6, <3>7 DEF FitsAt
      <3> QED  BY <3>3, <3>8 DEF JobInv
    <2> QED  BY <1>2, <1>4, <2>1, <2>2, <2>3 DEF RepeatInv
  <1>5. ASSUME NEW j \in Cast!Job, Cast!Create(j) PROVE RepeatInv'
    <2>1. PICK q : q = [status |-> "pending", cursor |-> 0]
      OBVIOUS
    <2>2. /\ row' = [row EXCEPT ![j] = q] /\ UNCHANGED <<jobLock, lockLost>> /\ row[j].status = "none"
      BY <1>5, <2>1 DEF Cast!Create, Cast!history
    <2>3. row[j].cursor = 0
      BY <2>2 DEF RepeatInv, NamedRows
    <2>4. q.status # "none" /\ q.cursor \in Int /\ row[j].status # "cancelled" /\ q.cursor = row[j].cursor
      BY <2>1, <2>2, <2>3
    <2> QED  BY <1>4, <2>2, <2>4
  <1>6. CASE Cast!CancelSet
    <2>1. PICK q : q = [status |-> "cancelled", cursor |-> admin.cursor]
      OBVIOUS
    <2>2. admin.job \in Cast!Job /\ admin.cursor \in Int
      BY <1>6 DEF Cast!CancelSet, CastInv, AdminOK
    <2>3. /\ row' = [row EXCEPT ![admin.job] = q] /\ UNCHANGED <<jobLock, lockLost>>
      BY <1>6, <2>1 DEF Cast!CancelSet, Cast!history
    <2>4. q.status # "none" /\ q.cursor \in Int /\ q.status = "cancelled"
      BY <2>1, <2>2
    <2>5. PICK n \in Cast!Job : n = admin.job
      BY <2>2
    <2>6. row' = [row EXCEPT ![n] = q] /\ jobLock' = jobLock /\ lockLost' = lockLost
      BY <2>3, <2>5
    <2> QED  BY <1>4, <2>4, <2>6
  <1>7. ASSUME UNCHANGED <<row, jobLock, lockLost>> PROVE RepeatInv'
    <2>1. NamedRows'
      BY <1>0, <1>7 DEF RepeatInv, NamedRows
    <2> QED  BY <1>2, <1>7, <2>1 DEF RepeatInv
  <1>8. ASSUME (\E j \in Cast!Job : Cast!CancelGet(j)) \/ Cast!CancelActiveGet \/ Cast!CancelActiveDel
        PROVE  UNCHANGED <<row, jobLock, lockLost>>
    BY <1>8 DEF Cast!CancelGet, Cast!CancelActiveGet, Cast!CancelActiveDel, Cast!redis, Cast!history
  <1> QED  BY <1>3, <1>5, <1>6, <1>7, <1>8 DEF Cast!Cancel

LEMMA RepeatStep == CastInv /\ CastInv' /\ RepeatInv /\ [Cast!Next]_broadcastVars => RepeatInv'
  <1> SUFFICES ASSUME CastInv, CastInv', RepeatInv, [Cast!Next]_broadcastVars PROVE RepeatInv'
    OBVIOUS
  <1>1. CASE Cast!Next
    BY <1>1, RepeatTick, RepeatOpens, RepeatLoops, RepeatSend, RepeatSaves, RepeatEnds, RepeatUpset,
       RepeatJobs
       DEF Cast!Next, Cast!Step
  <1>2. CASE UNCHANGED broadcastVars
    <2>1. /\ UNCHANGED <<row, jobLock, runner, sends, breaks, lockLost>> /\ breaks' \in {breaks, breaks + 1}
      BY <1>2 DEF broadcastVars
    <2>2. NamedRows'
      BY <2>1 DEF RepeatInv, NamedRows
    <2>3. ASSUME NEW j \in Cast!Job \ lockLost PROVE JobInv(j)'
      <3>1. \A v \in Worker : IF Working(v, j) THEN runner'[v] = runner[v] ELSE ~Working(v, j)'
        BY <2>1 DEF Working
      <3> QED  BY <2>1, <3>1, JobFrame DEF RepeatInv
    <2> QED  BY <2>1, <2>2, <2>3 DEF RepeatInv
  <1> QED  BY <1>1, <1>2

LEMMA RepeatHolds == CastInv /\ RepeatInv => Cast!RepeatsBounded
  <1> SUFFICES ASSUME CastInv, RepeatInv, NEW j \in Cast!Job \ lockLost
               PROVE  Cast!Repeats(j) <= FlushEvery * breaks
    BY DEF Cast!RepeatsBounded
  <1>1. PICK h : FitsAt(j, h)
    BY DEF RepeatInv, JobInv
  <1>2. \E r : Fits(Cast!Repeats(j), h, r, row[j], Allowed)
    BY <1>1 DEF FitsAt
  <1> QED  BY <1>2 DEF Fits, Allowed

-----------------------------------------------------------------------------
(* LoadPlan: one round of the split by weight                              *)

\* Induction over the subsets of a finite set, each from its proper subsets.
LEMMA Narrows ==
    ASSUME NEW S, IsFiniteSet(S), NEW P,
           \A T \in SUBSET S : (\A R \in SUBSET T : R # T => R \in P) => T \in P
    PROVE  \A T \in SUBSET S : T \in P
  <1> DEFINE Q == {T \in SUBSET S : \A R \in SUBSET T : R \in P}
  <1>1. ASSUME NEW T \in SUBSET S, \A x \in T : T \ {x} \in Q PROVE T \in Q
    <2>1. ASSUME NEW R \in SUBSET T, R # T PROVE R \in P
      <3>1. PICK x \in T : x \notin R  BY <2>1
      <3>2. R \in SUBSET (T \ {x})  BY <2>1, <3>1
      <3> QED  BY <1>1, <3>1, <3>2
    <2>2. T \in P  BY <2>1
    <2> QED  BY <2>1, <2>2
  <1> HIDE DEF Q
  <1>2. \A T \in SUBSET S : T \in Q
    BY <1>1, Shrinks
  <1> QED  BY <1>2 DEF Q

\* Those of T that are ahead of n by the strict order B, a set of pairs.
Ahead(B, T, n) == {m \in T : <<m, n>> \in B}
Ranks(B, S) ==
    /\ \A m, n \in S : m # n => (<<m, n>> \in B <=> <<n, m>> \notin B)
    /\ \A n \in S : <<n, n>> \notin B
    /\ \A m, n, k \in S : <<m, n>> \in B /\ <<n, k>> \in B => <<m, k>> \in B

\* The last of a finite set by such an order.
LEMMA LastOf ==
    ASSUME NEW S, IsFiniteSet(S), S # {}, NEW B, Ranks(B, S)
    PROVE  \E x \in S : \A y \in S \ {x} : <<y, x>> \in B
  <1> DEFINE P == {T \in SUBSET S : T # {} => \E x \in T : \A y \in T \ {x} : <<y, x>> \in B}
  <1>1. ASSUME NEW T \in SUBSET S, \A x \in T : T \ {x} \in P PROVE T \in P
    <2>1. SUFFICES ASSUME T # {} PROVE \E x \in T : \A y \in T \ {x} : <<y, x>> \in B
      OBVIOUS
    <2>2. PICK x \in T : TRUE
      BY <2>1
    <2>3. CASE T \ {x} = {}
      BY <2>3
    <2>4. CASE T \ {x} # {}
      <3>1. PICK z \in T \ {x} : \A y \in (T \ {x}) \ {z} : <<y, z>> \in B
        BY <1>1, <2>4
      <3>2. CASE <<x, z>> \in B
        <4>1. \A y \in T \ {z} : <<y, z>> \in B  BY <3>1, <3>2
        <4> QED  BY <4>1
      <3>3. CASE <<z, x>> \in B
        <4>1. ASSUME NEW y \in T \ {x} PROVE <<y, x>> \in B
          <5>1. CASE y = z  BY <3>3, <5>1
          <5>2. CASE y # z
            <6>1. <<y, z>> \in B /\ y \in S /\ z \in S /\ x \in S  BY <3>1, <5>2
            <6> QED  BY <3>3, <6>1 DEF Ranks
          <5> QED  BY <5>1, <5>2
        <4> QED  BY <4>1
      <3> QED  BY <3>2, <3>3 DEF Ranks
    <2> QED  BY <2>3, <2>4
  <1> HIDE DEF P
  <1>2. S \in P
    BY <1>1, Shrinks
  <1> QED  BY <1>2 DEF P

\* The first k are k.
Places(B, T, k) == {n \in T : Cardinality(Ahead(B, T, n)) < k}

LEMMA FirstOnes ==
    ASSUME NEW S, IsFiniteSet(S), NEW B, Ranks(B, S)
    PROVE  \A k \in 0..Cardinality(S) : Cardinality(Places(B, S, k)) = k
  <1> DEFINE P == {T \in SUBSET S : \A k \in 0..Cardinality(T) : Cardinality(Places(B, T, k)) = k}
  <1>1. ASSUME NEW T \in SUBSET S, \A x \in T : T \ {x} \in P PROVE T \in P
    <2>0. /\ \A R \in SUBSET T : IsFiniteSet(R) /\ Cardinality(R) \in Nat /\ Cardinality(R) <= Cardinality(T)
          /\ IsFiniteSet(T) /\ Cardinality(T) \in Nat
      <3>1. IsFiniteSet(T)  BY FS_Subset
      <3> QED  BY <3>1, FS_Subset, FS_CardinalityType
    <2>1. CASE T = {}
      <3>1. Cardinality(T) = 0 /\ \A k : Places(B, T, k) = {}
        BY <2>1, FS_EmptySet DEF Places
      <3>2. Cardinality({}) = 0  BY FS_EmptySet
      <3> QED  BY <3>1, <3>2
    <2>2. CASE T # {}
      <3>1. PICK x \in T : \A y \in T \ {x} : <<y, x>> \in B
        <4>1. Ranks(B, T)  BY DEF Ranks
        <4> QED  BY <2>0, <2>2, <4>1, LastOf
      <3> DEFINE R == T \ {x}
      <3>2. Cardinality(R) = Cardinality(T) - 1 /\ Cardinality(R) \in Nat /\ R \in SUBSET T
        BY <2>0, FS_RemoveElement
      <3>3. Ahead(B, T, x) = R
        BY <3>1 DEF Ahead, Ranks
      <3>4. \A n \in R : Ahead(B, T, n) = Ahead(B, R, n)
        BY <3>1 DEF Ahead, Ranks
      <3>5. ASSUME NEW k \in 0..Cardinality(T) PROVE Cardinality(Places(B, T, k)) = k
        <4>1. CASE k = Cardinality(T)
          <5>1. ASSUME NEW n \in T PROVE Cardinality(Ahead(B, T, n)) < k
            <6>1. Ahead(B, T, n) \in SUBSET (T \ {n}) /\ T \ {n} \in SUBSET T
              BY DEF Ahead, Ranks
            <6>2. Cardinality(T \ {n}) = Cardinality(T) - 1 /\ IsFiniteSet(T \ {n})
              BY <2>0, FS_RemoveElement
            <6>3. Cardinality(Ahead(B, T, n)) <= Cardinality(T \ {n}) /\ Cardinality(Ahead(B, T, n)) \in Nat
              BY <6>1, <6>2, FS_Subset, FS_CardinalityType
            <6> QED  BY <2>0, <4>1, <6>2, <6>3
          <5>2. Places(B, T, k) = T
            BY <5>1 DEF Places
          <5> QED  BY <4>1, <5>2
        <4>2. CASE k # Cardinality(T)
          <5>1. k \in 0..Cardinality(R)
            BY <2>0, <3>2, <4>2
          <5>2. Places(B, T, k) = Places(B, R, k)
            <6>1. ~(Cardinality(Ahead(B, T, x)) < k)  BY <3>2, <3>3, <5>1
            <6>2. ASSUME NEW n \in R PROVE n \in Places(B, T, k) <=> n \in Places(B, R, k)
              BY <3>4 DEF Places
            <6> QED  BY <6>1, <6>2 DEF Places
          <5>3. R \in P  BY <1>1
          <5> QED  BY <5>1, <5>2, <5>3
        <4> QED  BY <4>1, <4>2
      <3> QED  BY <3>5
    <2> QED  BY <2>1, <2>2
  <1> HIDE DEF P
  <1>2. S \in P
    BY <1>1, Shrinks
  <1> QED  BY <1>2 DEF P

LEMMA Quotients ==
    ASSUME NEW a \in Nat, NEW d \in Nat, d > 0
    PROVE  a \div d \in Nat /\ a % d \in Nat /\ a % d < d /\ a = d * (a \div d) + (a % d)
  <1>1. a \div d \in Int /\ a % d \in 0..(d - 1)
    BY Z3
  <1>2. a = d * (a \div d) + (a % d)
    BY Z3
  <1>3. a \div d >= 0
    <2>1. ASSUME a \div d < 0 PROVE FALSE
      <3>1. PICK e \in Nat : a \div d = -e /\ e > 0
        BY <1>1, <2>1
      <3>2. d * e >= d
        BY <3>1
      <3> QED  BY <1>1, <1>2, <3>1, <3>2
    <2> QED  BY <1>1, <2>1
  <1> QED  BY <1>1, <1>2, <1>3

\* What node n is due of rest is Due[n] / Parts; the quotients, what remains of
\* each, and who is served first of what they leave.
Due(S, w, rest) == [n \in S |-> IF Total(w, S) > 0 THEN rest * w[n] ELSE rest]
Parts(S, w) == IF Total(w, S) > 0 THEN Total(w, S) ELSE Cardinality(S)
Lows(S, f, d) == [n \in S |-> f[n] \div d]
Rems(S, f, d) == [n \in S |-> f[n] % d]
Served(S, rem) == {p \in S \X S : rem[p[1]] > rem[p[2]] \/ (rem[p[1]] = rem[p[2]] /\ p[1] < p[2])}

LEMMA ServedRanks ==
    ASSUME NEW S \in SUBSET Nat, NEW rem \in [S -> Nat]
    PROVE  Ranks(Served(S, rem), S)
  <1>1. \A m, n \in S : /\ <<m, n>> \in Served(S, rem) <=>
                              (rem[m] > rem[n] \/ (rem[m] = rem[n] /\ m < n))
                        /\ rem[m] \in Nat /\ rem[n] \in Nat /\ m \in Nat /\ n \in Nat
    BY DEF Served
  <1>2. \A m, n \in S : m # n => (<<m, n>> \in Served(S, rem) <=> <<n, m>> \notin Served(S, rem))
    BY <1>1
  <1>3. \A n \in S : <<n, n>> \notin Served(S, rem)
    BY <1>1
  <1>4. ASSUME NEW m \in S, NEW n \in S, NEW k \in S,
               <<m, n>> \in Served(S, rem), <<n, k>> \in Served(S, rem)
        PROVE  <<m, k>> \in Served(S, rem)
    <2>1. rem[m] > rem[n] \/ (rem[m] = rem[n] /\ m < n)  BY <1>1, <1>4
    <2>2. rem[n] > rem[k] \/ (rem[n] = rem[k] /\ n < k)  BY <1>1, <1>4
    <2>3. rem[m] > rem[k] \/ (rem[m] = rem[k] /\ m < k)  BY <1>1, <2>1, <2>2
    <2> QED  BY <1>1, <2>3
  <1> QED  BY <1>2, <1>3, <1>4 DEF Ranks

Inexact(S, rem) == {n \in S : rem[n] > 0}

LEMMA Scaled ==
    ASSUME NEW S, IsFiniteSet(S), NEW low \in [S -> Nat], NEW d \in Nat,
           NEW g, g = [n \in S |-> d * low[n]]
    PROVE  g \in [S -> Int] /\ Total(g, S) = d * Total(low, S)
  <1>1. S \in SUBSET S /\ d \in Int  OBVIOUS
  <1>2. low \in [S -> Int] /\ g \in [S -> Int] /\ \A x \in S : g[x] = d * low[x]
    OBVIOUS
  <1> QED  BY <1>1, <1>2, SumTimes

LEMMA Counted ==
    ASSUME NEW S, IsFiniteSet(S), NEW P, NEW g, g = [n \in S |-> IF n \in P THEN 1 ELSE 0]
    PROVE  g \in [S -> Nat] /\ Total(g, S) = Cardinality(S \cap P)
  <1>1. S \in SUBSET S  OBVIOUS
  <1>2. g \in [S -> Int] /\ g \in [S -> Nat] /\ \A x \in S : g[x] = IF x \in P THEN 1 ELSE 0
    OBVIOUS
  <1> QED  BY <1>1, <1>2, SumCounts

\* What is left over of f[n] = d * low[n] + rem[n], which add up to d * rest, is at
\* most one for each of those that leave a remainder.
Divided(S, f, low, rem, d, rest) ==
    /\ IsFiniteSet(S) /\ f \in [S -> Nat] /\ low \in [S -> Nat] /\ rem \in [S -> Nat]
    /\ d \in Nat /\ d > 0 /\ rest \in Nat /\ Total(f, S) = rest * d
    /\ \A n \in S : rem[n] < d /\ f[n] = d * low[n] + rem[n]
LeavesFew(S, low, rem, rest) ==
    rest - Total(low, S) \in Nat /\ rest - Total(low, S) <= Cardinality(Inexact(S, rem))

LEMMA Remains ==
    ASSUME NEW S, IsFiniteSet(S), NEW f \in [S -> Nat], NEW low \in [S -> Nat], NEW rem \in [S -> Nat],
           NEW d \in Nat, d > 0, NEW rest \in Nat
    PROVE  Divided(S, f, low, rem, d, rest) => LeavesFew(S, low, rem, rest)
  <1> DEFINE Some == {n \in S : rem[n] > 0}
  <1>1. PICK dlow : dlow = [n \in S |-> d * low[n]]
    OBVIOUS
  <1>2. PICK one : one = [n \in S |-> IF n \in Some THEN 1 ELSE 0]
    OBVIOUS
  <1>3. PICK done : done = [n \in S |-> d * one[n]]
    OBVIOUS
  <1>4. dlow \in [S -> Int] /\ Total(dlow, S) = d * Total(low, S)
    BY <1>1, Scaled
  <1>5. one \in [S -> Nat] /\ Total(one, S) = Cardinality(Some)
    <2>1. S \cap Some = Some  OBVIOUS
    <2> HIDE DEF Some
    <2> QED  BY <1>2, <2>1, Counted
  <1>6. done \in [S -> Int] /\ Total(done, S) = d * Total(one, S)
    BY <1>3, <1>5, Scaled
  <1>7. S \in SUBSET S /\ f \in [S -> Int] /\ low \in [S -> Int] /\ rem \in [S -> Int]
    OBVIOUS
  <1>8. ASSUME \A n \in S : f[n] = dlow[n] + rem[n] PROVE Total(f, S) = Total(dlow, S) + Total(rem, S)
    BY <1>4, <1>7, <1>8, SumAdds
  <1>9. ASSUME \A n \in S : rem[n] <= done[n] PROVE Total(rem, S) <= Total(done, S)
    BY <1>6, <1>7, <1>9, SumLess
  <1>10. Total(low, S) \in Nat /\ Total(rem, S) \in Nat
    BY <1>7, SumNat
  <1>11. Cardinality(Some) \in Nat
    BY FS_Subset, FS_CardinalityType
  <1> SUFFICES ASSUME Total(f, S) = rest * d, \A n \in S : rem[n] < d /\ f[n] = d * low[n] + rem[n]
               PROVE  rest - Total(low, S) \in Nat /\ rest - Total(low, S) <= Cardinality(Some)
    BY DEF Inexact, Divided, LeavesFew
  <1>12. \A n \in S : f[n] = dlow[n] + rem[n]
    BY <1>1
  <1>13. ASSUME NEW n \in S PROVE rem[n] <= done[n]
    <2>1. done[n] = IF rem[n] > 0 THEN d ELSE 0  BY <1>2, <1>3
    <2> QED  BY <2>1
  <1> HIDE DEF Some
  <1>14. PICK a \in Nat, b \in Nat, c \in Nat :
          a = Total(low, S) /\ b = Total(rem, S) /\ c = Cardinality(Some)
    BY <1>10, <1>11
  <1>15. rest * d = d * a + b /\ b <= d * c
    BY <1>4, <1>5, <1>6, <1>8, <1>9, <1>12, <1>13, <1>14
  <1>16. d * (rest - a) = b /\ rest - a \in Int
    BY <1>15
  <1>17. rest - a >= 0
    <2>1. ASSUME rest - a < 0 PROVE FALSE
      <3>1. PICK e \in Nat : e = a - rest /\ e > 0  BY <2>1
      <3>2. d * (rest - a) = -(d * e) /\ d * e > 0  BY <3>1
      <3> QED  BY <1>16, <3>2
    <2> QED  BY <2>1
  <1>18. rest - a <= c
    <2>1. ASSUME rest - a > c PROVE FALSE
      <3>1. PICK e \in Nat : e = rest - a - c /\ e > 0  BY <2>1
      <3>2. d * (rest - a) = d * c + d * e /\ d * e > 0  BY <3>1
      <3> QED  BY <1>15, <1>16, <3>2
    <2> QED  BY <2>1
  <1> QED  BY <1>14, <1>16, <1>17, <1>18

LEMMA LowsAndRems ==
    ASSUME NEW S, NEW f \in [S -> Nat], NEW d \in Nat, d > 0,
           NEW low, low = Lows(S, f, d), NEW rem, rem = Rems(S, f, d)
    PROVE  /\ low \in [S -> Nat] /\ rem \in [S -> Nat]
           /\ \A n \in S : rem[n] < d /\ f[n] = d * low[n] + rem[n]
  <1>1. \A n \in S : f[n] \in Nat /\ low[n] = f[n] \div d /\ rem[n] = f[n] % d
    BY DEF Lows, Rems
  <1>2. ASSUME NEW n \in S
        PROVE  low[n] \in Nat /\ rem[n] \in Nat /\ rem[n] < d /\ f[n] = d * low[n] + rem[n]
    <2>1. PICK a \in Nat : a = f[n]
      BY <1>1
    <2>2. low[n] = a \div d /\ rem[n] = a % d
      BY <1>1, <2>1
    <2>3. a \div d \in Nat /\ a % d \in Nat /\ a % d < d /\ a = d * (a \div d) + (a % d)
      BY Quotients
    <2> QED  BY <2>1, <2>2, <2>3
  <1>3. low = [n \in S |-> low[n]] /\ rem = [n \in S |-> rem[n]]
    BY DEF Lows, Rems
  <1> QED  BY <1>2, <1>3

\* A sum in which those of L count one more.
Upped(S, low, L, s) ==
    s \in [S -> Nat] /\ \A x \in S : s[x] = IF x \in L THEN low[x] + 1 ELSE low[x]

LEMMA SumUpped ==
    ASSUME NEW S, IsFiniteSet(S), NEW low \in [S -> Nat], NEW L \in SUBSET S, NEW s, Upped(S, low, L, s)
    PROVE  Total(s, S) = Total(low, S) + Cardinality(L)
  <1>1. PICK one : one = [n \in S |-> IF n \in L THEN 1 ELSE 0]
    OBVIOUS
  <1>2. one \in [S -> Nat] /\ Total(one, S) = Cardinality(S \cap L)
    BY <1>1, Counted
  <1>3. S \cap L = L /\ S \in SUBSET S
    OBVIOUS
  <1>4. /\ low \in [S -> Int] /\ one \in [S -> Int] /\ s \in [S -> Int]
        /\ \A x \in S : s[x] = low[x] + one[x]
    BY <1>1, <1>2 DEF Upped
  <1> QED  BY <1>2, <1>3, <1>4, SumAdds

LEMMA SumInt ==
    ASSUME NEW S, IsFiniteSet(S), NEW f \in [S -> Nat]
    PROVE  Total(f, S) \in Nat /\ \A x \in S : f[x] <= Total(f, S)
  <1>1. f \in [S -> Int] /\ S \in SUBSET S /\ \A x \in S : f[x] \in Nat
    OBVIOUS
  <1> QED  BY <1>1, SumNat

\* Rounding down f[n] / d, which add up to rest, leaves as many as there are
\* places to give, all of them to elements whose quotient was not exact.
LEMMA Leftover ==
    ASSUME NEW S \in SUBSET Nat, IsFiniteSet(S), NEW f \in [S -> Nat], NEW d \in Nat, d > 0,
           NEW rest \in Nat, Total(f, S) = rest * d,
           NEW low, low = Lows(S, f, d), NEW rem, rem = Rems(S, f, d),
           NEW left, left = rest - Total(low, S),
           NEW L, L = Places(Served(S, rem), S, left)
    PROVE  /\ Cardinality(L) = left /\ left \in Nat
           /\ \A n \in L : rem[n] > 0
  <1>1. /\ low \in [S -> Nat] /\ rem \in [S -> Nat]
        /\ \A n \in S : rem[n] < d /\ f[n] = d * low[n] + rem[n]
    BY LowsAndRems
  <1> DEFINE Some == {n \in S : rem[n] > 0}
  <1>9. \A R \in SUBSET S : IsFiniteSet(R) /\ Cardinality(R) \in Nat /\ Cardinality(R) <= Cardinality(S)
    BY FS_Subset, FS_CardinalityType
  <1>10. left \in Nat /\ left <= Cardinality(Some)
    <2>1. Divided(S, f, low, rem, d, rest)
      BY <1>1 DEF Divided
    <2>2. \A lo, re \in [S -> Nat] : Divided(S, f, lo, re, d, rest) => LeavesFew(S, lo, re, rest)
      BY Remains
    <2>3. LeavesFew(S, low, rem, rest)
      BY <1>1, <2>1, <2>2
    <2> QED  BY <2>3 DEF LeavesFew, Inexact
  <1>11. Ranks(Served(S, rem), S)
    BY <1>1, ServedRanks
  <1>12. Cardinality(L) = left
    <2>1. left \in 0..Cardinality(S)
      BY <1>9, <1>10
    <2> QED  BY <1>11, <2>1, FirstOnes
  <1>13. ASSUME NEW n \in L, rem[n] = 0 PROVE FALSE
    <2>1. n \in S /\ Cardinality(Ahead(Served(S, rem), S, n)) < left
      BY DEF Places
    <2>2. Some \in SUBSET Ahead(Served(S, rem), S, n) /\ Ahead(Served(S, rem), S, n) \in SUBSET S
      BY <1>1, <1>13, <2>1 DEF Ahead, Served
    <2>3. Cardinality(Some) <= Cardinality(Ahead(Served(S, rem), S, n))
      BY <1>9, <2>2, FS_Subset
    <2>4. Cardinality(Ahead(Served(S, rem), S, n)) \in Nat /\ Cardinality(Some) \in Nat
      BY <1>9, <2>2
    <2> QED  BY <1>10, <2>1, <2>3, <2>4
  <1> QED  BY <1>1, <1>10, <1>12, <1>13 DEF Places

LEMMA LoadConstants ==
    /\ Node \in SUBSET Nat /\ IsFiniteSet(Node) /\ Node # {}
    /\ MaxBots \in [Node -> Nat] /\ Default \in Nat /\ Weights \in SUBSET [Node -> Nat]
    /\ BotCounts \in SUBSET Nat /\ Slack \in Nat /\ MaxPerTick \in Nat
    /\ MaxUpsets \in Nat /\ MaxMissed \in Nat
  BY ControlAssumption DEF ControlAssumption, LoadPlanConstants

\* Sums over a set depend on no more than what the functions are there.
LEMMA SumAlike ==
    ASSUME NEW S, IsFiniteSet(S), NEW f, NEW g, \A x \in S : f[x] = g[x]
    PROVE  Total(f, S) = Total(g, S)
  <1> DEFINE P == {T \in SUBSET S : Total(f, T) = Total(g, T)}
  <1>1. ASSUME NEW T \in SUBSET S, \A x \in T : T \ {x} \in P PROVE T \in P
    <2>1. Peels(f, T) /\ Peels(g, T)
      BY FS_Subset, SumPeels
    <2>2. T # {} => First(T) \in T /\ T \ {First(T)} \in P
      BY <1>1, FirstIn
    <2> QED  BY <2>1, <2>2 DEF Peels
  <1> HIDE DEF P
  <1>2. \A T \in SUBSET S : T \in P
    BY <1>1, Shrinks, Zenon
  <1> QED  BY <1>2 DEF P

LEMMA SplitIs ==
    ASSUME NEW pool, NEW w, NEW rest,
           NEW f, f = Due(pool, w, rest), NEW d, d = Parts(pool, w),
           NEW low, low = Lows(pool, f, d), NEW rem, rem = Rems(pool, f, d),
           NEW left, left = rest - Total(low, pool)
    PROVE  SplitRound(pool, w, rest) =
             [n \in pool |-> IF n \in Places(Served(pool, rem), pool, left) THEN low[n] + 1 ELSE low[n]]
  <1> DEFINE num(n) == IF Total(w, pool) > 0 THEN rest * w[n] ELSE rest
             den == IF Total(w, pool) > 0 THEN Total(w, pool) ELSE Cardinality(pool)
             down == [n \in pool |-> num(n) \div den]
             over == rest - Total(down, pool)
             before(m, n) == \/ num(m) % den > num(n) % den
                             \/ (num(m) % den = num(n) % den /\ m < n)
  <1>1. SplitRound(pool, w, rest) =
          [n \in pool |-> IF Cardinality({m \in pool : before(m, n)}) < over THEN down[n] + 1 ELSE down[n]]
    BY DEF SplitRound
  <1>2. d = den /\ \A n \in pool : f[n] = num(n)
    BY DEF Parts, Due
  <1>3. low = down
    BY <1>2 DEF Lows
  <1>4. left = over
    BY <1>3
  <1>5. \A n \in pool : rem[n] = num(n) % den
    BY <1>2 DEF Rems
  <1>6. ASSUME NEW n \in pool PROVE {m \in pool : before(m, n)} = Ahead(Served(pool, rem), pool, n)
    <2>1. \A m \in pool : before(m, n) <=> (rem[m] > rem[n] \/ (rem[m] = rem[n] /\ m < n))
      BY <1>5
    <2> HIDE DEF before
    <2> QED  BY <2>1 DEF Ahead, Served
  <1> HIDE DEF before, over, down
  <1> QED  BY <1>1, <1>3, <1>4, <1>6 DEF Places

\* A round gives out all there is, to each what its weight is worth, less than
\* one off.
Shared(pool, w, rest, s) ==
    /\ s \in [pool -> Nat] /\ Total(s, pool) = rest
    /\ \A n \in pool : Total(w, pool) > 0 => /\ (s[n] - 1) * Total(w, pool) < rest * w[n]
                                             /\ rest * w[n] < (s[n] + 1) * Total(w, pool)

LEMMA PoolSums ==
    ASSUME NEW pool \in SUBSET Node, NEW w \in [Node -> Nat]
    PROVE  /\ IsFiniteSet(pool) /\ Cardinality(pool) \in Nat /\ (pool # {} => Cardinality(pool) > 0)
           /\ Total(w, pool) \in Nat /\ \A n \in pool : w[n] \in Nat /\ w[n] <= Total(w, pool)
  <1>1. IsFiniteSet(pool)
    BY LoadConstants, FS_Subset
  <1>2. w \in [Node -> Int] /\ \A n \in pool : w[n] \in Nat
    OBVIOUS
  <1> QED  BY <1>1, <1>2, SumNat, FS_CardinalityType, FS_EmptySet

LEMMA DueSums ==
    ASSUME NEW pool \in SUBSET Node, pool # {}, NEW w \in [Node -> Nat], NEW rest \in Nat
    PROVE  /\ Due(pool, w, rest) \in [pool -> Nat] /\ Parts(pool, w) \in Nat /\ Parts(pool, w) > 0
           /\ Total(Due(pool, w, rest), pool) = rest * Parts(pool, w)
  <1>0. /\ IsFiniteSet(pool) /\ Cardinality(pool) \in Nat /\ Cardinality(pool) > 0
        /\ Total(w, pool) \in Nat /\ pool \in SUBSET pool
    BY PoolSums
  <1>1. CASE Total(w, pool) > 0
    <2>1. PICK g : g = [n \in pool |-> rest * w[n]]
      OBVIOUS
    <2>2. PICK v : v = [n \in pool |-> w[n]]
      OBVIOUS
    <2>3. v \in [pool -> Nat] /\ v \in [pool -> Int] /\ g = [n \in pool |-> rest * v[n]]
      BY <2>1, <2>2
    <2>4. Total(g, pool) = rest * Total(v, pool)
      BY <1>0, <2>3, Scaled
    <2>5. Total(v, pool) = Total(w, pool)
      <3>1. \A n \in pool : v[n] = w[n]
        BY <2>2
      <3> QED  BY <1>0, <3>1, SumAlike
    <2>6. g \in [pool -> Nat]
      BY <2>1
    <2> QED  BY <1>0, <1>1, <2>1, <2>4, <2>5, <2>6 DEF Due, Parts
  <1>2. CASE ~(Total(w, pool) > 0)
    <2>1. PICK one : one = [n \in pool |-> IF n \in pool THEN 1 ELSE 0]
      OBVIOUS
    <2>2. PICK g : g = [n \in pool |-> rest * one[n]]
      OBVIOUS
    <2>3. one \in [pool -> Nat] /\ Total(one, pool) = Cardinality(pool \cap pool)
      BY <1>0, <2>1, Counted
    <2>4. Total(g, pool) = rest * Total(one, pool)
      BY <1>0, <2>2, <2>3, Scaled
    <2>5. pool \cap pool = pool
      OBVIOUS
    <2>6. g = [n \in pool |-> rest]
      BY <2>1, <2>2
    <2> QED  BY <1>0, <1>2, <2>3, <2>4, <2>5, <2>6 DEF Due, Parts
  <1> QED  BY <1>1, <1>2

\* Rounding f[n] / d, of sum rest, down, and up for as many as that leaves.
Rounded(S, f, d, rest, s) ==
    /\ s \in [S -> Nat] /\ Total(s, S) = rest
    /\ \A n \in S : (s[n] - 1) * d < f[n] /\ f[n] < (s[n] + 1) * d

Rounding(S, f, d, rest, low, rem, left, L, s) ==
    /\ S \in SUBSET Nat /\ IsFiniteSet(S) /\ f \in [S -> Nat] /\ d \in Nat /\ d > 0
    /\ rest \in Nat /\ Total(f, S) = rest * d
    /\ low = Lows(S, f, d) /\ rem = Rems(S, f, d) /\ left = rest - Total(low, S)
    /\ L = Places(Served(S, rem), S, left)
    /\ s = [n \in S |-> IF n \in L THEN low[n] + 1 ELSE low[n]]

LEMMA Rounds ==
    ASSUME NEW S, NEW f, NEW d, NEW rest, NEW low, NEW rem, NEW left, NEW L, NEW s,
           Rounding(S, f, d, rest, low, rem, left, L, s)
    PROVE  Rounded(S, f, d, rest, s)
  <1>0. IsFiniteSet(S) /\ d \in Nat /\ rest \in Nat
    BY DEF Rounding
  <1>1. /\ Cardinality(L) = left /\ left \in Nat /\ \A n \in L : rem[n] > 0
    BY Leftover DEF Rounding
  <1>2. /\ low \in [S -> Nat] /\ rem \in [S -> Nat]
        /\ \A n \in S : rem[n] < d /\ f[n] = d * low[n] + rem[n]
    BY LowsAndRems DEF Rounding
  <1>3. L \in SUBSET S /\ left = rest - Total(low, S)
    BY DEF Places, Rounding
  <1>4. Upped(S, low, L, s)
    BY <1>2 DEF Rounding, Upped
  <1>5. Total(s, S) = Total(low, S) + Cardinality(L)
    BY <1>0, <1>2, <1>3, <1>4, SumUpped
  <1>6. Total(low, S) \in Nat
    BY <1>0, <1>2, SumInt
  <1>7. ASSUME NEW n \in S PROVE (s[n] - 1) * d < f[n] /\ f[n] < (s[n] + 1) * d
    <2>1. PICK a \in Nat, r \in Nat : a = low[n] /\ r = rem[n] /\ r < d /\ f[n] = d * a + r
      BY <1>2
    <2>0. s[n] = IF n \in L THEN a + 1 ELSE a
      BY <1>4, <2>1 DEF Upped
    <2>2. CASE n \in L
      <3>1. s[n] = a + 1 /\ r > 0
        BY <1>1, <2>0, <2>1, <2>2
      <3>2. (a + 1 - 1) * d < d * a + r /\ d * a + r < (a + 1 + 1) * d
        BY <1>0, <2>1, <3>1
      <3> QED  BY <2>1, <3>1, <3>2
    <2>3. CASE n \notin L
      <3>1. s[n] = a
        BY <2>0, <2>3
      <3>2. (a - 1) * d < d * a + r /\ d * a + r < (a + 1) * d
        BY <1>0, <2>1
      <3> QED  BY <2>1, <3>1, <3>2
    <2> QED  BY <2>2, <2>3
  <1>8. Total(s, S) = rest
    BY <1>0, <1>1, <1>3, <1>5, <1>6
  <1> QED  BY <1>4, <1>7, <1>8 DEF Rounded, Upped

LEMMA RoundShares ==
    ASSUME NEW pool \in SUBSET Node, pool # {}, NEW w \in [Node -> Nat], NEW rest \in Nat
    PROVE  Shared(pool, w, rest, SplitRound(pool, w, rest))
  <1>1. PICK f, d : f = Due(pool, w, rest) /\ d = Parts(pool, w)
    OBVIOUS
  <1>2. PICK low, rem : low = Lows(pool, f, d) /\ rem = Rems(pool, f, d)
    OBVIOUS
  <1>3. PICK left, L : left = rest - Total(low, pool) /\ L = Places(Served(pool, rem), pool, left)
    OBVIOUS
  <1>4. PICK s : s = SplitRound(pool, w, rest)
    OBVIOUS
  <1>5. s = [n \in pool |-> IF n \in L THEN low[n] + 1 ELSE low[n]]
    BY <1>1, <1>2, <1>3, <1>4, SplitIs
  <1>6. /\ pool \in SUBSET Nat /\ IsFiniteSet(pool) /\ f \in [pool -> Nat] /\ d \in Nat /\ d > 0
        /\ Total(f, pool) = rest * d
    BY <1>1, DueSums, PoolSums, LoadConstants
  <1>7. Rounded(pool, f, d, rest, s)
    <2>1. Rounding(pool, f, d, rest, low, rem, left, L, s)
      BY <1>2, <1>3, <1>5, <1>6 DEF Rounding
    <2> QED  BY <2>1, Rounds
  <1>8. ASSUME NEW n \in pool, Total(w, pool) > 0
        PROVE  d = Total(w, pool) /\ f[n] = rest * w[n]
    BY <1>1, <1>8 DEF Due, Parts
  <1> QED  BY <1>4, <1>7, <1>8 DEF Rounded, Shared

-----------------------------------------------------------------------------
(* LoadPlan: the rounds of a plan                                          *)

\* The nodes that a round gives more than they have room for, what is left for the
\* others, and a round of a table g of the later ones.
FullOf(pool, w, rest) == {n \in pool : SplitRound(pool, w, rest)[n] > MaxBots[n]}
RestOf(pool, w, rest) == rest - Total(MaxBots, FullOf(pool, w, rest))
RoundOf(g, pool, w, rest) ==
    IF FullOf(pool, w, rest) = {} THEN SplitRound(pool, w, rest)
    ELSE [n \in pool |-> IF n \in FullOf(pool, w, rest) THEN MaxBots[n]
                         ELSE g[pool \ FullOf(pool, w, rest)][RestOf(pool, w, rest)][n]]
AllRounds(g, N, w, K) == g = [pool \in SUBSET N |-> [rest \in 0..K |-> RoundOf(g, pool, w, rest)]]

LEMMA TargetsAre ==
    ASSUME NEW N, NEW w, NEW K
    PROVE  Targets(N, w, MaxBots, K) =
             IF K = 0 THEN [n \in N |-> 0] ELSE (CHOOSE g : AllRounds(g, N, w, K))[N][K]
  BY DEF Targets, AllRounds, RoundOf, FullOf, RestOf

LEMMA RoundLeaves ==
    ASSUME NEW pool \in SUBSET Node, NEW w \in [Node -> Nat], NEW rest \in Nat
    PROVE  /\ Total(MaxBots, FullOf(pool, w, rest)) \in Nat
           /\ Total(MaxBots, FullOf(pool, w, rest)) <= rest
  <1> DEFINE full == FullOf(pool, w, rest)
             s == SplitRound(pool, w, rest)
  <1>1. full \in SUBSET pool /\ IsFiniteSet(full)
    <2>1. IsFiniteSet(pool)  BY PoolSums
    <2> QED  BY <2>1, FS_Subset DEF FullOf
  <1>2. MaxBots \in [Node -> Int] /\ \A n \in Node : MaxBots[n] \in Nat
    BY LoadConstants
  <1>3. Total(MaxBots, full) \in Nat
    <2> HIDE DEF full
    <2> QED  BY <1>1, <1>2, SumNat
  <1>4. CASE pool = {}
    <2>1. full = {}  BY <1>1, <1>4
    <2> QED  BY <1>3, <2>1, SumEmpty
  <1>5. CASE pool # {}
    <2>1. s \in [pool -> Nat] /\ Total(s, pool) = rest
      BY <1>5, RoundShares DEF Shared
    <2>2. \A n \in full : MaxBots[n] <= s[n]
      BY <1>1, <1>2, <2>1 DEF FullOf
    <2>3. PICK m : m = [n \in pool |-> MaxBots[n]]
      OBVIOUS
    <2> HIDE DEF full, s
    <2>4. m \in [pool -> Int] /\ s \in [pool -> Int] /\ pool \in SUBSET pool /\ IsFiniteSet(pool)
      BY <1>2, <2>1, <2>3, PoolSums
    <2>5. Total(m, full) <= Total(s, full)
      <3>1. \A n \in full : m[n] <= s[n]  BY <1>1, <2>2, <2>3
      <3> QED  BY <1>1, <2>4, <3>1, SumLess
    <2>6. Total(m, full) = Total(MaxBots, full)
      <3>1. \A n \in full : m[n] = MaxBots[n]  BY <1>1, <2>3
      <3> QED  BY <1>1, <3>1, SumAlike
    <2>7. Total(s, pool) = Total(s, full) + Total(s, pool \ full)
      BY <1>1, <2>4, SumParts
    <2>8. Total(s, pool \ full) \in Nat /\ Total(s, full) \in Nat
      <3>1. IsFiniteSet(pool \ full) /\ pool \ full \in SUBSET pool  BY <2>4, FS_Subset
      <3> QED  BY <1>1, <2>1, <2>4, <3>1, SumNat
    <2> QED  BY <1>3, <2>1, <2>5, <2>6, <2>7, <2>8 DEF full
  <1> QED  BY <1>4, <1>5

LEMMA RestFits ==
    ASSUME NEW pool \in SUBSET Node, NEW w \in [Node -> Nat], NEW K \in Nat, NEW rest \in 0..K
    PROVE  /\ FullOf(pool, w, rest) \in SUBSET pool
           /\ RestOf(pool, w, rest) \in 0..K /\ RestOf(pool, w, rest) <= rest
  <1>1. Total(MaxBots, FullOf(pool, w, rest)) \in Nat /\ Total(MaxBots, FullOf(pool, w, rest)) <= rest
    BY RoundLeaves
  <1> QED  BY <1>1 DEF FullOf, RestOf

LEMMA RoundAt ==
    ASSUME NEW N, NEW w, NEW K, NEW g, AllRounds(g, N, w, K), NEW p \in SUBSET N, NEW rest \in 0..K
    PROVE  g[p][rest] = RoundOf(g, p, w, rest)
  <1>1. PICK h : h = [pool \in SUBSET N |-> [r \in 0..K |-> RoundOf(g, pool, w, r)]]
    OBVIOUS
  <1>2. g = h
    BY <1>1 DEF AllRounds
  <1>3. h[p][rest] = RoundOf(g, p, w, rest)
    BY <1>1
  <1> QED  BY <1>2, <1>3

\* Tables of rounds agree wherever both say anything.
LEMMA RoundsAgree ==
    ASSUME NEW N \in SUBSET Node, NEW M \in SUBSET Node, NEW w \in [Node -> Nat], NEW K \in Nat,
           NEW g, AllRounds(g, N, w, K), NEW h, AllRounds(h, M, w, K)
    PROVE  \A s \in SUBSET (N \cap M) : \A rest \in 0..K : g[s][rest] = h[s][rest]
  <1>0. PICK S : S = N \cap M
    OBVIOUS
  <1> DEFINE P == {T \in SUBSET S : \A rest \in 0..K : g[T][rest] = h[T][rest]}
  <1>1. ASSUME NEW T \in SUBSET S, \A R \in SUBSET T : R # T => R \in P PROVE T \in P
    <2>1. ASSUME NEW rest \in 0..K PROVE g[T][rest] = h[T][rest]
      <3>1. g[T][rest] = RoundOf(g, T, w, rest) /\ h[T][rest] = RoundOf(h, T, w, rest)
        BY <1>0, RoundAt
      <3>2. FullOf(T, w, rest) \in SUBSET T /\ RestOf(T, w, rest) \in 0..K
        BY <1>0, RestFits
      <3>3. CASE FullOf(T, w, rest) = {}
        BY <3>1, <3>3 DEF RoundOf
      <3>4. CASE FullOf(T, w, rest) # {}
        <4>1. T \ FullOf(T, w, rest) \in P
          BY <1>1, <3>2, <3>4
        <4>2. g[T \ FullOf(T, w, rest)][RestOf(T, w, rest)] = h[T \ FullOf(T, w, rest)][RestOf(T, w, rest)]
          BY <3>2, <4>1
        <4> QED  BY <3>1, <4>2 DEF RoundOf
      <3> QED  BY <3>3, <3>4
    <2> QED  BY <2>1
  <1>2. IsFiniteSet(S)
    BY <1>0, LoadConstants, FS_Subset
  <1> HIDE DEF P
  <1>3. \A T \in SUBSET S : T \in P
    BY <1>1, <1>2, Narrows
  <1> QED  BY <1>0, <1>3 DEF P

\* There is a table of rounds.
TableOf(N, w, K) == CHOOSE g : AllRounds(g, N, w, K)

LEMMA RoundsEnd ==
    ASSUME NEW N \in SUBSET Node, NEW w \in [Node -> Nat], NEW K \in Nat
    PROVE  AllRounds(TableOf(N, w, K), N, w, K)
  <1> DEFINE P == {T \in SUBSET N : AllRounds(TableOf(T, w, K), T, w, K)}
  <1>1. ASSUME NEW T \in SUBSET N, \A R \in SUBSET T : R # T => R \in P PROVE T \in P
    <2> DEFINE old(p) == [rest \in 0..K |-> TableOf(p, w, K)[p][rest]]
               base == [p \in SUBSET T |-> old(p)]
               g == [p \in SUBSET T |-> IF p = T THEN [rest \in 0..K |-> RoundOf(base, p, w, rest)]
                                        ELSE old(p)]
    <2>1. ASSUME NEW p \in SUBSET T, NEW rest \in 0..K
          PROVE  g[p][rest] = RoundOf(g, p, w, rest)
      <3>0. FullOf(p, w, rest) \in SUBSET p /\ RestOf(p, w, rest) \in 0..K
        BY RestFits
      <3> DEFINE q == p \ FullOf(p, w, rest)
                 r == RestOf(p, w, rest)
      <3>1. FullOf(p, w, rest) # {} => g[q][r] = TableOf(q, w, K)[q][r] /\ base[q][r] = g[q][r]
        BY <3>0
      <3>2. CASE p = T
        <4>1. g[p][rest] = RoundOf(base, p, w, rest)
          BY <3>2
        <4> HIDE DEF g, base
        <4> QED  BY <3>1, <4>1 DEF RoundOf
      <3>3. CASE p # T
        <4>1. g[p][rest] = TableOf(p, w, K)[p][rest]
          BY <3>3
        <4>2. AllRounds(TableOf(p, w, K), p, w, K)
          BY <1>1, <3>3
        <4>3. TableOf(p, w, K)[p][rest] = RoundOf(TableOf(p, w, K), p, w, rest)
          <5>1. p \in SUBSET p
            OBVIOUS
          <5> QED  BY <4>2, <5>1, RoundAt
        <4>4. FullOf(p, w, rest) # {} => TableOf(p, w, K)[q][r] = TableOf(q, w, K)[q][r]
          <5>1. FullOf(p, w, rest) # {} => q \in SUBSET T /\ q # T /\ q \in SUBSET (p \cap q)
            BY <3>0
          <5>2. FullOf(p, w, rest) # {} => AllRounds(TableOf(q, w, K), q, w, K)
            BY <1>1, <5>1
          <5>3. p \in SUBSET Node /\ q \in SUBSET Node
            OBVIOUS
          <5> HIDE DEF q, r
          <5>4. r \in 0..K
            BY <3>0 DEF r
          <5> QED  BY <4>2, <5>1, <5>2, <5>3, <5>4, RoundsAgree
        <4> HIDE DEF g, base
        <4> QED  BY <3>1, <4>1, <4>3, <4>4 DEF RoundOf
      <3> QED  BY <3>2, <3>3
    <2>2. g = [p \in SUBSET T |-> [rest \in 0..K |-> g[p][rest]]]
      <3>1. ASSUME NEW p \in SUBSET T PROVE g[p] = [rest \in 0..K |-> g[p][rest]]
        <4>1. CASE p = T
          BY <4>1
        <4>2. CASE p # T
          BY <4>2
        <4> QED  BY <4>1, <4>2
      <3>2. g = [p \in SUBSET T |-> g[p]]
        OBVIOUS
      <3> HIDE DEF g
      <3> QED  BY <3>1, <3>2
    <2> HIDE DEF g
    <2>3. AllRounds(g, T, w, K)
      BY <2>1, <2>2 DEF AllRounds
    <2> QED  BY <2>3 DEF TableOf
  <1>2. IsFiniteSet(N)
    BY LoadConstants, FS_Subset
  <1> HIDE DEF P
  <1>3. \A T \in SUBSET N : T \in P
    BY <1>1, <1>2, Narrows
  <1> QED  BY <1>3 DEF P

LEMMA LessTimes ==
    ASSUME NEW u \in Int, NEW v \in Int, u < v, NEW y \in Nat, y > 0
    PROVE  u * y < v * y
  <1>1. PICK e \in Nat : v = u + e /\ e > 0
    <2>1. v - u \in Nat /\ v = u + (v - u) /\ v - u > 0  OBVIOUS
    <2> QED  BY <2>1
  <1>2. (u + e) * y = u * y + e * y /\ e * y > 0
    BY <1>1
  <1>3. u * y \in Int /\ e * y \in Int
    OBVIOUS
  <1> QED  BY <1>1, <1>2, <1>3

LEMMA AtMostTimes ==
    ASSUME NEW u \in Int, NEW v \in Int, u <= v, NEW y \in Nat
    PROVE  u * y <= v * y
  <1>1. CASE u < v /\ y > 0
    <2>1. u * y < v * y /\ u * y \in Int /\ v * y \in Int
      BY <1>1, LessTimes
    <2> QED  BY <2>1
  <1>2. CASE u = v
    <2>1. u * y \in Int  OBVIOUS
    <2> QED  BY <1>2, <2>1
  <1>3. CASE y = 0
    BY <1>3
  <1> QED  BY <1>1, <1>2, <1>3

\* Two shares of R by weights x and y of W, a below the one and b above the other.
LEMMA Crossed ==
    ASSUME NEW a \in Int, a >= -1, NEW b \in Nat, b >= 1, NEW W \in Nat, W > 0,
           NEW R \in Nat, NEW x \in Nat, NEW y \in Nat, x + y > 0, a * W < R * x, R * y < b * W
    PROVE  a * y < b * x
  <1>1. CASE y = 0
    <2>1. x > 0 /\ b * x > 0  BY <1>1
    <2> QED  BY <1>1, <2>1
  <1>2. CASE y > 0
    <2>1. (a * W) * y < (R * x) * y
      <3>1. a * W \in Int /\ R * x \in Int  OBVIOUS
      <3> QED  BY <1>2, <3>1, LessTimes
    <2>2. (R * y) * x <= (b * W) * x
      <3>1. R * y \in Int /\ b * W \in Int  OBVIOUS
      <3> QED  BY <3>1, AtMostTimes
    <2>3. /\ (a * W) * y = (a * y) * W /\ (R * x) * y = (R * y) * x /\ (b * W) * x = (b * x) * W
          /\ (a * y) * W \in Int /\ (R * y) * x \in Int /\ (b * x) * W \in Int
      OBVIOUS
    <2>4. (a * y) * W < (b * x) * W
      BY <2>1, <2>2, <2>3
    <2>5. ASSUME b * x <= a * y PROVE FALSE
      <3>1. a * y \in Int /\ b * x \in Int  OBVIOUS
      <3>2. (b * x) * W <= (a * y) * W
        BY <2>5, <3>1, AtMostTimes
      <3> QED  BY <2>3, <2>4, <3>2
    <2>6. a * y \in Int /\ b * x \in Int
      OBVIOUS
    <2> QED  BY <2>5, <2>6
  <1> QED  BY <1>1, <1>2

\* What is above a share of Q by weight x of V is above one of R by x of W, if Q is
\* more per V than R is per W.
LEMMA Raised ==
    ASSUME NEW R \in Nat, NEW Q \in Nat, NEW W \in Nat, W > 0, NEW V \in Nat, NEW x \in Nat,
           NEW b \in Nat, b >= 1, R * V <= Q * W, V > 0 => Q * x < b * V, V = 0 => x = 0
    PROVE  R * x < b * W
  <1>1. CASE V = 0
    <2>1. x = 0 /\ b * W > 0  BY <1>1
    <2> QED  BY <2>1
  <1>2. CASE V > 0
    <2>1. (R * V) * x <= (Q * W) * x
      <3>1. R * V \in Int /\ Q * W \in Int  OBVIOUS
      <3> QED  BY <3>1, AtMostTimes
    <2>2. (Q * x) * W < (b * V) * W
      <3>1. Q * x \in Int /\ b * V \in Int  OBVIOUS
      <3> QED  BY <1>2, <3>1, LessTimes
    <2>3. /\ (R * V) * x = (R * x) * V /\ (Q * W) * x = (Q * x) * W /\ (b * V) * W = (b * W) * V
          /\ (R * x) * V \in Int /\ (Q * x) * W \in Int /\ (b * W) * V \in Int
      OBVIOUS
    <2>4. (R * x) * V < (b * W) * V
      BY <2>1, <2>2, <2>3
    <2>5. ASSUME b * W <= R * x PROVE FALSE
      <3>1. b * W \in Int /\ R * x \in Int  OBVIOUS
      <3>2. (b * W) * V <= (R * x) * V
        BY <2>5, <3>1, AtMostTimes
      <3> QED  BY <2>3, <2>4, <3>2
    <2>6. b * W \in Int /\ R * x \in Int
      OBVIOUS
    <2> QED  BY <2>5, <2>6
  <1> QED  BY <1>1, <1>2

LEMMA SumBelow ==
    ASSUME NEW S \in SUBSET Node, NEW a \in [Node -> Nat], NEW b \in [Node -> Nat],
           NEW W \in Nat, NEW R \in Nat, \A n \in S : W * a[n] <= R * b[n]
    PROVE  W * Total(a, S) <= R * Total(b, S)
  <1>1. PICK g, h : g = [n \in Node |-> W * a[n]] /\ h = [n \in Node |-> R * b[n]]
    OBVIOUS
  <1>2. /\ IsFiniteSet(S) /\ W \in Int /\ R \in Int
        /\ a \in [Node -> Int] /\ b \in [Node -> Int] /\ g \in [Node -> Int] /\ h \in [Node -> Int]
        /\ \A n \in S : g[n] = W * a[n] /\ h[n] = R * b[n]
    BY <1>1, PoolSums
  <1>3. Total(g, S) = W * Total(a, S) /\ Total(h, S) = R * Total(b, S)
    BY <1>2, SumTimes
  <1>4. \A n \in S : g[n] <= h[n]
    BY <1>2
  <1>5. Total(g, S) <= Total(h, S)
    BY <1>2, <1>4, SumLess
  <1> QED  BY <1>3, <1>5

\* What a plan t for rest bots over a pool is to be: nobody gets more than there is
\* room for, nothing is left over while somebody has room, and who has room left
\* gets no less than its weight says (HighEnough), nor less than others (Even).
HighEnough(pool, w, rest, t) ==
    \A k \in pool : t[k] < MaxBots[k] /\ Total(w, pool) > 0 => rest * w[k] < (t[k] + 1) * Total(w, pool)
Even(pool, w, t) ==
    \A m, k \in pool : t[k] < MaxBots[k] /\ w[m] + w[k] > 0 => (t[m] - 1) * w[k] < (t[k] + 1) * w[m]
Fit(pool, w, rest, t) ==
    /\ t \in [pool -> Nat] /\ \A n \in pool : t[n] <= MaxBots[n]
    /\ Total(t, pool) <= rest /\ (Total(t, pool) < rest => \A n \in pool : t[n] = MaxBots[n])
    /\ HighEnough(pool, w, rest, t) /\ Even(pool, w, t)

\* Who has room left is not given less than anybody whose part is below its weight.
LEMMA EvenPair ==
    ASSUME NEW pool \in SUBSET Node, NEW w \in [Node -> Nat], NEW rest \in Nat,
           NEW m \in pool, NEW k \in pool, NEW a \in Nat, NEW b \in Nat,
           Total(w, pool) > 0 => (a - 1) * Total(w, pool) < rest * w[m],
           Total(w, pool) > 0 => rest * w[k] < (b + 1) * Total(w, pool), w[m] + w[k] > 0
    PROVE  (a - 1) * w[k] < (b + 1) * w[m]
  <1>1. PICK W \in Nat, x \in Nat, y \in Nat :
          /\ W = Total(w, pool) /\ x = w[m] /\ y = w[k] /\ x <= W /\ y <= W
    BY PoolSums
  <1>2. PICK c \in Int, d \in Nat : c = a - 1 /\ d = b + 1 /\ c >= -1 /\ d >= 1
    OBVIOUS
  <1>3. W > 0 /\ x + y > 0
    BY <1>1
  <1>4. c * W < rest * x /\ rest * y < d * W
    BY <1>1, <1>2, <1>3
  <1>5. c * y < d * x
    BY <1>2, <1>3, <1>4, Crossed
  <1> QED  BY <1>1, <1>2, <1>5

LEMMA FitAtOnce ==
    ASSUME NEW pool \in SUBSET Node, NEW w \in [Node -> Nat], NEW rest \in Nat,
           FullOf(pool, w, rest) = {}, pool # {}
    PROVE  Fit(pool, w, rest, SplitRound(pool, w, rest))
  <1>1. PICK s : s = SplitRound(pool, w, rest)
    OBVIOUS
  <1>2. Shared(pool, w, rest, s)
    BY <1>1, RoundShares
  <1>3. s \in [pool -> Nat] /\ Total(s, pool) = rest
    BY <1>2 DEF Shared
  <1>4. \A n \in pool : s[n] <= MaxBots[n]
    <2>1. \A n \in pool : s[n] \in Nat /\ MaxBots[n] \in Nat  BY <1>3, LoadConstants
    <2> QED  BY <1>1, <2>1 DEF FullOf
  <1>5. HighEnough(pool, w, rest, s)
    BY <1>2 DEF Shared, HighEnough
  <1>6. ASSUME NEW m \in pool, NEW k \in pool, w[m] + w[k] > 0
        PROVE  (s[m] - 1) * w[k] < (s[k] + 1) * w[m]
    <2>1. /\ Total(w, pool) > 0 => (s[m] - 1) * Total(w, pool) < rest * w[m]
          /\ Total(w, pool) > 0 => rest * w[k] < (s[k] + 1) * Total(w, pool)
      BY <1>2 DEF Shared
    <2>2. s[m] \in Nat /\ s[k] \in Nat
      BY <1>3
    <2> QED  BY <1>6, <2>1, <2>2, EvenPair
  <1>7. Even(pool, w, s)
    BY <1>6 DEF Even
  <1> QED  BY <1>1, <1>3, <1>4, <1>5, <1>7 DEF Fit

\* A full node takes less than its weight says.
LEMMA FullBelow ==
    ASSUME NEW pool \in SUBSET Node, NEW w \in [Node -> Nat], NEW rest \in Nat,
           NEW n \in FullOf(pool, w, rest)
    PROVE  Total(w, pool) > 0 => Total(w, pool) * MaxBots[n] < rest * w[n]
  <1>0. n \in pool
    BY DEF FullOf
  <1>1. PICK s : s = SplitRound(pool, w, rest)
    OBVIOUS
  <1>2. Shared(pool, w, rest, s)
    BY <1>0, <1>1, RoundShares
  <1>3. PICK W \in Nat, b \in Nat, c \in Nat, x \in Nat :
          W = Total(w, pool) /\ b = MaxBots[n] /\ c = s[n] /\ x = w[n]
    BY <1>0, <1>2, PoolSums, LoadConstants DEF Shared
  <1>4. b <= c - 1
    BY <1>1, <1>3 DEF FullOf
  <1>5. b * W <= (c - 1) * W
    BY <1>4, AtMostTimes
  <1>6. W > 0 => (c - 1) * W < rest * x
    BY <1>0, <1>2, <1>3 DEF Shared
  <1>7. b * W \in Int /\ (c - 1) * W \in Int /\ rest * x \in Int /\ b * W = W * b
    OBVIOUS
  <1>8. W > 0 => W * b < rest * x
    BY <1>5, <1>6, <1>7
  <1> QED  BY <1>3, <1>8

Spliced(pool, w, rest, o, t) ==
    t = [n \in pool |-> IF n \in FullOf(pool, w, rest) THEN MaxBots[n] ELSE o[n]]

LEMMA FitLater ==
    ASSUME NEW pool \in SUBSET Node, NEW w \in [Node -> Nat], NEW rest \in Nat,
           FullOf(pool, w, rest) # {}, NEW o,
           Fit(pool \ FullOf(pool, w, rest), w, RestOf(pool, w, rest), o),
           NEW t, Spliced(pool, w, rest, o, t)
    PROVE  Fit(pool, w, rest, t)
  <1>1. PICK full, left : full = FullOf(pool, w, rest) /\ left = RestOf(pool, w, rest)
    OBVIOUS
  <1>2. PICK others : others = pool \ full
    OBVIOUS
  <1>3. full \in SUBSET pool /\ others \in SUBSET pool /\ full \in SUBSET Node /\ others \in SUBSET Node
    BY <1>1, <1>2 DEF FullOf
  <1>4. /\ Fit(others, w, left, o)
        /\ \A n \in full : n \in pool /\ t[n] = MaxBots[n]
        /\ \A n \in others : n \in pool /\ t[n] = o[n]
        /\ \A n \in pool : n \in full \/ n \in others
        /\ t = [n \in pool |-> t[n]]
    BY <1>1, <1>2, <1>3 DEF Spliced
  <1>5. Fit(others, w, left, o) => o \in [others -> Nat] /\ \A n \in others : o[n] <= MaxBots[n]
    BY DEF Fit
  <1>6. t \in [pool -> Nat] /\ \A n \in pool : t[n] <= MaxBots[n]
    BY <1>3, <1>4, <1>5, LoadConstants
  <1>7. PICK F \in Nat : F = Total(MaxBots, full) /\ F <= rest /\ left = rest - F
    BY <1>1, RoundLeaves DEF RestOf
  <1>8. Total(t, pool) = F + Total(o, others) /\ Total(o, others) \in Nat
    <2>1. IsFiniteSet(pool) /\ IsFiniteSet(full) /\ IsFiniteSet(others)
      BY <1>3, PoolSums
    <2>2. Total(t, full) = Total(MaxBots, full)
      BY <1>4, <2>1, SumAlike
    <2>3. Total(t, others) = Total(o, others)
      BY <1>4, <2>1, SumAlike
    <2>4. t \in [pool -> Int] /\ pool \in SUBSET pool
      BY <1>6
    <2>5. Total(t, pool) = Total(t, full) + Total(t, pool \ full)
      BY <1>3, <2>1, <2>4, SumParts
    <2>6. Total(o, others) \in Nat
      BY <1>4, <1>5, <2>1, SumInt
    <2> QED  BY <1>2, <1>7, <2>2, <2>3, <2>5, <2>6
  <1>9. Total(t, pool) <= rest /\ (Total(t, pool) < rest => \A n \in pool : t[n] = MaxBots[n])
    <2>1. Total(o, others) <= left /\ (Total(o, others) < left => \A n \in others : o[n] = MaxBots[n])
      BY <1>4 DEF Fit
    <2> QED  BY <1>4, <1>7, <1>8, <2>1
  <1>10. PICK W \in Nat, V \in Nat, U \in Nat :
           W = Total(w, pool) /\ V = Total(w, others) /\ U = Total(w, full) /\ W = U + V
    <2>1. /\ IsFiniteSet(pool) /\ Total(w, pool) \in Nat /\ Total(w, others) \in Nat /\ Total(w, full) \in Nat
          /\ w \in [Node -> Int]
      BY <1>3, PoolSums
    <2>2. Total(w, pool) = Total(w, full) + Total(w, pool \ full)
      BY <1>3, <2>1, SumParts
    <2> QED  BY <1>2, <2>1, <2>2
  <1>11. rest * V <= left * W
    <2>1. ASSUME NEW n \in full PROVE W * MaxBots[n] <= rest * w[n]
      <3>1. PICK b \in Nat, x \in Nat : b = MaxBots[n] /\ x = w[n]
        BY <1>3, LoadConstants
      <3>2. W > 0 => W * b < rest * x
        BY <1>1, <1>10, <2>1, <3>1, FullBelow
      <3>3. W * b \in Int /\ rest * x \in Int /\ rest * x >= 0 /\ (W = 0 => W * b = 0)
        OBVIOUS
      <3>4. W * b <= rest * x
        BY <3>2, <3>3
      <3> QED  BY <3>1, <3>4
    <2>2. W * Total(MaxBots, full) <= rest * Total(w, full)
      BY <1>3, <2>1, LoadConstants, SumBelow
    <2>3. W * F <= rest * U
      BY <1>7, <1>10, <2>2
    <2>4. rest * W = rest * U + rest * V /\ (rest - F) * W = rest * W - W * F
      BY <1>10
    <2>5. rest * U \in Int /\ rest * V \in Int /\ W * F \in Int /\ rest * W \in Int
      OBVIOUS
    <2> QED  BY <1>7, <2>3, <2>4, <2>5
  <1>12. ASSUME NEW k \in others, t[k] < MaxBots[k], W > 0
         PROVE  rest * w[k] < (t[k] + 1) * W
    <2>1. PICK x \in Nat, b \in Nat : x = w[k] /\ b = t[k] + 1 /\ b >= 1 /\ x <= V
      <3>1. w[k] \in Nat /\ w[k] <= V /\ t[k] \in Nat
        BY <1>3, <1>6, <1>10, PoolSums
      <3> QED  BY <3>1
    <2>2. V > 0 => left * x < b * V
      <3>1. V > 0 => left * w[k] < (o[k] + 1) * V
        BY <1>4, <1>10, <1>12 DEF Fit, HighEnough
      <3> QED  BY <1>4, <2>1, <3>1
    <2>3. left \in Nat /\ (V = 0 => x = 0)
      BY <1>7, <2>1
    <2>4. rest * x < b * W
      BY <1>11, <1>12, <2>1, <2>2, <2>3, Raised
    <2> QED  BY <2>1, <2>4
  <1>13. ASSUME NEW k \in pool, t[k] < MaxBots[k] PROVE k \in others
    <2>1. t[k] \in Nat  BY <1>6
    <2>2. k \in full => t[k] = MaxBots[k]  BY <1>4
    <2> QED  BY <1>4, <1>13, <2>1, <2>2
  <1>14. HighEnough(pool, w, rest, t)
    BY <1>10, <1>12, <1>13 DEF HighEnough
  <1>15. ASSUME NEW m \in pool, NEW k \in pool, t[k] < MaxBots[k], w[m] + w[k] > 0
         PROVE  (t[m] - 1) * w[k] < (t[k] + 1) * w[m]
    <2>1. k \in others
      BY <1>13, <1>15
    <2>2. CASE m \in others
      <3>1. (o[m] - 1) * w[k] < (o[k] + 1) * w[m]
        BY <1>4, <1>15, <2>1, <2>2 DEF Fit, Even
      <3> QED  BY <1>4, <2>1, <2>2, <3>1
    <2>3. CASE m \in full
      <3>1. t[m] \in Nat /\ t[k] \in Nat /\ t[m] = MaxBots[m]
        BY <1>4, <1>6, <2>3
      <3>2. ASSUME W > 0 PROVE (t[m] - 1) * W < rest * w[m]
        <4>1. PICK b \in Nat, x \in Nat : b = MaxBots[m] /\ x = w[m]
          BY <3>1
        <4>2. W * b < rest * x
          BY <1>1, <1>10, <2>3, <3>2, <4>1, FullBelow
        <4>3. (b - 1) * W = W * b - W /\ W * b \in Int /\ rest * x \in Int
          OBVIOUS
        <4>4. (b - 1) * W < rest * x
          BY <3>2, <4>2, <4>3
        <4> QED  BY <3>1, <4>1, <4>4
      <3>3. W > 0 => rest * w[k] < (t[k] + 1) * W
        BY <1>12, <1>15, <2>1
      <3> QED  BY <1>10, <1>15, <3>1, <3>2, <3>3, EvenPair
    <2> QED  BY <1>4, <2>2, <2>3
  <1>16. Even(pool, w, t)
    BY <1>15 DEF Even
  <1> QED  BY <1>6, <1>9, <1>14, <1>16 DEF Fit

\* Without nodes, and without bots.
LEMMA FitNone ==
    ASSUME NEW w \in [Node -> Nat], NEW K \in Nat, NEW N \in SUBSET Node, NEW g, AllRounds(g, N, w, K),
           NEW rest \in 0..K
    PROVE  Fit({}, w, rest, g[{}][rest])
  <1>1. g[{}][rest] = RoundOf(g, {}, w, rest)
    BY RoundAt
  <1>2. FullOf({}, w, rest) = {}
    BY DEF FullOf
  <1>3. PICK t : t = SplitRound({}, w, rest)
    OBVIOUS
  <1>4. g[{}][rest] = t
    BY <1>1, <1>2, <1>3 DEF RoundOf
  <1>5. t \in [{} -> Nat]
    BY <1>3 DEF SplitRound
  <1>6. Total(t, {}) = 0
    BY SumEmpty
  <1> QED  BY <1>4, <1>5, <1>6 DEF Fit, HighEnough, Even

LEMMA FitZero ==
    ASSUME NEW N \in SUBSET Node, NEW w \in [Node -> Nat]
    PROVE  Fit(N, w, 0, [n \in N |-> 0])
  <1>1. PICK t : t = [n \in N |-> 0]
    OBVIOUS
  <1>2. t \in [N -> Nat] /\ \A n \in N : t[n] = 0 /\ t[n] <= MaxBots[n]
    BY <1>1, LoadConstants
  <1>3. Total(t, N) = 0
    <2>1. IsFiniteSet(N) /\ N \in SUBSET N /\ t = [n \in N |-> IF n \in {} THEN 1 ELSE 0]
      BY <1>1, PoolSums
    <2>2. Total(t, N) = Cardinality(N \cap {})
      BY <2>1, Counted
    <2>3. N \cap {} = {}
      OBVIOUS
    <2> QED  BY <2>2, <2>3, FS_EmptySet
  <1>4. HighEnough(N, w, 0, t)
    <2>1. ASSUME NEW k \in N, Total(w, N) > 0 PROVE 0 * w[k] < (t[k] + 1) * Total(w, N)
      <3>1. PICK W \in Nat, x \in Nat : W = Total(w, N) /\ x = w[k] /\ W > 0
        BY <2>1, PoolSums
      <3> QED  BY <1>2, <3>1
    <2> QED  BY <2>1 DEF HighEnough
  <1>5. Even(N, w, t)
    <2>1. ASSUME NEW m \in N, NEW k \in N, w[m] + w[k] > 0
          PROVE  (t[m] - 1) * w[k] < (t[k] + 1) * w[m]
      <3>1. PICK x \in Nat, y \in Nat : x = w[m] /\ y = w[k] /\ x + y > 0
        BY <2>1
      <3>2. (0 - 1) * y < (0 + 1) * x
        BY <3>1
      <3> QED  BY <1>2, <3>1, <3>2
    <2> QED  BY <2>1 DEF Even
  <1> QED  BY <1>1, <1>2, <1>3, <1>4, <1>5 DEF Fit

\* Every plan is one, for any nodes, weights and number of bots.
LEMMA TargetsFit ==
    ASSUME NEW N \in SUBSET Node, N # {}, NEW w \in [Node -> Nat], NEW K \in Nat
    PROVE  Fit(N, w, K, Targets(N, w, MaxBots, K))
  <1>0. PICK g : g = TableOf(N, w, K)
    OBVIOUS
  <1> DEFINE P == {T \in SUBSET N : T # {} => \A rest \in 0..K : Fit(T, w, rest, g[T][rest])}
  <1>1. AllRounds(g, N, w, K)
    BY <1>0, RoundsEnd
  <1>2. ASSUME NEW T \in SUBSET N, \A R \in SUBSET T : R # T => R \in P PROVE T \in P
    <2>1. ASSUME T # {}, NEW rest \in 0..K PROVE Fit(T, w, rest, g[T][rest])
      <3>1. g[T][rest] = RoundOf(g, T, w, rest)
        BY <1>1, RoundAt
      <3>2. T \in SUBSET Node /\ rest \in Nat
        OBVIOUS
      <3>3. FullOf(T, w, rest) \in SUBSET T /\ RestOf(T, w, rest) \in 0..K
        BY <3>2, RestFits
      <3>4. CASE FullOf(T, w, rest) = {}
        BY <2>1, <3>1, <3>2, <3>4, FitAtOnce DEF RoundOf
      <3>5. CASE FullOf(T, w, rest) # {}
        <4>1. PICK o : o = g[T \ FullOf(T, w, rest)][RestOf(T, w, rest)]
          OBVIOUS
        <4>2. Fit(T \ FullOf(T, w, rest), w, RestOf(T, w, rest), o)
          <5>1. T \ FullOf(T, w, rest) \in P
            BY <1>2, <3>3, <3>5
          <5>2. CASE T \ FullOf(T, w, rest) # {}
            BY <3>3, <4>1, <5>1, <5>2
          <5>3. CASE T \ FullOf(T, w, rest) = {}
            BY <1>1, <3>3, <4>1, <5>3, FitNone
          <5> QED  BY <5>2, <5>3
        <4>3. Spliced(T, w, rest, o, g[T][rest])
          BY <3>1, <3>5, <4>1 DEF RoundOf, Spliced
        <4> QED  BY <3>2, <3>5, <4>2, <4>3, FitLater
      <3> QED  BY <3>4, <3>5
    <2> QED  BY <2>1
  <1>3. IsFiniteSet(N)
    BY PoolSums
  <1> HIDE DEF P
  <1>4. \A T \in SUBSET N : T \in P
    BY <1>2, <1>3, Narrows
  <1>5. Fit(N, w, K, g[N][K])
    BY <1>4 DEF P
  <1>6. CASE K = 0
    <2>1. Targets(N, w, MaxBots, K) = [n \in N |-> 0]
      BY <1>6, TargetsAre
    <2> QED  BY <1>6, <2>1, FitZero
  <1>7. CASE K # 0
    BY <1>0, <1>5, <1>7, TargetsAre DEF TableOf
  <1> QED  BY <1>6, <1>7

-----------------------------------------------------------------------------
(* LoadPlan: the plans and the bots that nodes hold                        *)

LoadTypes ==
    /\ weights \in Weights /\ bots \in BotCounts /\ adrift \in Nat
    /\ beat \in [Node -> [count : Nat, weight : WeightValue]]
    /\ online \subseteq Node /\ up \subseteq Node /\ early \subseteq Node
    /\ held \in [Node -> Nat]
    /\ snap \in [Node -> [Node -> WeightValue]]
    /\ upsets \in 0..MaxUpsets /\ missed \in 0..MaxMissed

\* A process that is gone holds nothing and does nothing.
GoneHolds == \A n \in Node \ up : held[n] = 0 /\ \A l \in Lane : pass[n][l].at = "idle"

\* Nobody holds a bot that is not there.
Enough == Total(held, up) + adrift <= bots

\* What a plan p of node n says, if it is one: n is part of it, and it is as the
\* two parts of PlanSound want it.
Planned(n, p) ==
    /\ n \in DOMAIN p.targets /\ DOMAIN p.targets \subseteq Node
    /\ p.targets \in [DOMAIN p.targets -> Nat] /\ p.slack \in {0, Slack} /\ p.unplaceable \in Nat
    /\ \A m \in DOMAIN p.targets : /\ p.targets[m] <= MaxBots[m]
                                   /\ p.unplaceable > 0 => p.targets[m] = MaxBots[m]
    /\ Even(DOMAIN p.targets, p.weight, p.targets)
MayPlan(n, p) == p = NoPlan \/ Planned(n, p)
Plans == DOMAIN plan = Node /\ \A n \in Node : MayPlan(n, plan[n])

\* The passes of a node, each with its plan and its slots.
PassOf(n, r) ==
    /\ DOMAIN r = {"at", "plan", "slots"} /\ r.slots \in Nat /\ MayPlan(n, r.plan)
    /\ r.at \in {"idle", "plan", "claim", "shed", "beat", "take", "fill"}
Passes ==
    /\ DOMAIN pass = Node
    /\ \A n \in Node : DOMAIN pass[n] = Lane /\ \A l \in Lane : PassOf(n, pass[n][l])

\* Slots computed and not yet claimed with; what they may add to what is held.  As
\* long as no two passes had some at once, there is room for it.
Unclaimed(r) == r.at \in {"claim", "take", "fill"}
Adds(r) == IF r.at = "take" THEN 1 ELSE r.slots
Room(n) ==
    n \notin crowded =>
        /\ held[n] <= MaxBots[n]
        /\ \A l \in Lane : Unclaimed(pass[n][l]) =>
               /\ held[n] + Adds(pass[n][l]) <= MaxBots[n]
               /\ \A k \in Lane \ {l} : ~Unclaimed(pass[n][k])
Rooms == \A n \in Node : Room(n)

\* Pass l of node n computes slots, coming to r as the node comes to hold v.
Counts(n, l, v, r) ==
    /\ \/ n \in crowded
       \/ v + Adds(r) <= MaxBots[n]
       \/ v <= held[n] /\ Adds(r) = 0
    /\ crowded' = IF \E k \in Lane \ {l} : Unclaimed(pass[n][k]) THEN crowded \cup {n} ELSE crowded

LoadInv == LoadTypes /\ Passes /\ Rooms /\ GoneHolds /\ Enough /\ Plans

LEMMA WeightValues ==
    /\ WeightValue \in SUBSET Nat /\ Default \in WeightValue
    /\ [Node -> WeightValue] \in SUBSET [Node -> Nat]
    /\ \A table \in Weights : table \in [Node -> WeightValue]
  <1>1. \A table \in Weights : table \in [Node -> Nat] /\ \A n \in Node : table[n] \in WeightValue
    BY LoadConstants DEF WeightValue
  <1>2. WeightValue \in SUBSET Nat /\ Default \in WeightValue
    BY LoadConstants DEF WeightValue
  <1> QED  BY <1>1, <1>2

LEMMA TableTells ==
    ASSUME NEW N \in SUBSET Node, NEW w \in [Node -> WeightValue], NEW K \in BotCounts
    PROVE  TargetsOf[N][w][K] = Targets(N, w, MaxBots, K)
  <1> DEFINE whole == [nodes \in SUBSET Node |-> [u \in [Node -> WeightValue] |->
                         [total \in BotCounts |-> Targets(nodes, u, MaxBots, total)]]]
  <1>1. TargetsOf = CHOOSE table \in {whole} : table = table
    BY DEF TargetsOf
  <1>2. TargetsOf = whole
    BY <1>1
  <1> QED  BY <1>2

LEMMA LoadStart == LoadInit => LoadInv
  <1> SUFFICES ASSUME LoadInit PROVE LoadInv
    OBVIOUS
  <1>1. LoadTypes
    BY WeightValues, LoadConstants DEF LoadInit, LoadTypes
  <1>2. Total(held, up) = 0
    BY SumEmpty DEF LoadInit
  <1>3. Enough
    BY <1>1, <1>2, LoadConstants DEF LoadInit, LoadTypes, Enough
  <1>4. Plans /\ GoneHolds
    BY DEF LoadInit, Plans, MayPlan, GoneHolds, Idle
  <1>5. /\ DOMAIN Idle = {"at", "plan", "slots"}
        /\ Idle.at = "idle" /\ Idle.plan = NoPlan /\ Idle.slots = 0
    BY DEF Idle
  <1>6. /\ DOMAIN pass = Node
        /\ \A n \in Node : DOMAIN pass[n] = Lane /\ \A l \in Lane : pass[n][l] = Idle
    BY DEF LoadInit
  <1>7. Passes
    BY <1>5, <1>6 DEF Passes, PassOf, MayPlan
  <1>8. Rooms
    BY <1>5, <1>6, LoadConstants DEF LoadInit, Rooms, Room, Unclaimed
  <1> QED  BY <1>1, <1>3, <1>4, <1>7, <1>8 DEF LoadInv

\* What planNodeLoad makes is a plan.
LEMMA PlanMade ==
    ASSUME LoadInv, NEW n \in Node, NEW N \in SUBSET Node, n \in N, NEW w \in [Node -> WeightValue]
    PROVE  Planned(n, PlanNodeLoad(n, N, w, bots))
  <1>1. bots \in Nat /\ bots \in BotCounts /\ w \in [Node -> Nat]
    BY WeightValues, LoadConstants DEF LoadInv, LoadTypes
  <1>2. PICK t : t = TargetsOf[N][w][bots]
    OBVIOUS
  <1>3. Fit(N, w, bots, t)
    BY <1>1, <1>2, TableTells, TargetsFit
  <1>4. t \in [N -> Nat] /\ \A m \in N : t[m] <= MaxBots[m]
    BY <1>3 DEF Fit
  <1>5. Total(t, N) \in Nat
    <2>1. IsFiniteSet(N)  BY <1>1, PoolSums
    <2> QED  BY <1>4, <2>1, SumInt
  <1>6. bots - Total(t, N) \in Nat /\ (bots - Total(t, N) > 0 => \A m \in N : t[m] = MaxBots[m])
    BY <1>1, <1>3, <1>5 DEF Fit
  <1>7. Even(N, w, t)
    BY <1>3 DEF Fit
  <1>8. PICK p : p = PlanNodeLoad(n, N, w, bots)
    OBVIOUS
  <1>9. /\ p.targets = t /\ p.weight = w /\ p.slack \in {0, Slack}
        /\ p.unplaceable = bots - Total(t, N) /\ DOMAIN p.targets = N
    BY <1>2, <1>4, <1>8 DEF PlanNodeLoad
  <1> QED  BY <1>4, <1>6, <1>7, <1>8, <1>9 DEF Planned

LEMMA LoadSums ==
    ASSUME LoadInv
    PROVE  /\ bots \in Nat /\ adrift \in Nat /\ Total(held, up) \in Nat /\ Free \in Nat
           /\ \A n \in Node : held[n] \in Nat /\ MaxBots[n] \in Nat
           /\ \A n \in up : n \in Node /\ held[n] <= Total(held, up)
  <1>1. /\ bots \in Nat /\ adrift \in Nat /\ held \in [Node -> Nat] /\ up \in SUBSET Node
        /\ \A n \in Node : held[n] \in Nat /\ MaxBots[n] \in Nat
    BY LoadConstants DEF LoadInv, LoadTypes
  <1>2. Total(held, up) \in Nat /\ \A n \in up : held[n] <= Total(held, up)
    BY <1>1, PoolSums
  <1> QED  BY <1>1, <1>2 DEF LoadInv, Enough, Free

LEMMA HeldSum ==
    ASSUME NEW f \in [Node -> Nat], NEW g \in [Node -> Nat], NEW S \in SUBSET Node, NEW n \in S,
           \A m \in S \ {n} : f[m] = g[m]
    PROVE  /\ Total(g, S) - g[n] = Total(f, S) - f[n]
           /\ Total(f, S) \in Nat /\ Total(g, S) \in Nat /\ Total(f, S \ {n}) = Total(f, S) - f[n]
  <1>1. IsFiniteSet(S) /\ Total(f, S) \in Nat /\ Total(g, S) \in Nat
    BY PoolSums
  <1>2. IsFiniteSet(S \ {n}) /\ Total(f, S \ {n}) \in Nat
    BY PoolSums
  <1>3. f \in [Node -> Int] /\ g \in [Node -> Int]
    OBVIOUS
  <1>4. SumsWell(f, S) /\ SumsWell(g, S)
    BY <1>1, <1>3, SumOne
  <1>5. Total(f, S \ {n}) = Total(g, S \ {n})
    BY <1>2, SumAlike
  <1> QED  BY <1>1, <1>2, <1>4, <1>5 DEF SumsWell

\* A pass comes to be r, the other stays.
LEMMA PassSet ==
    ASSUME LoadInv, NEW n \in Node, NEW l \in Lane, NEW r, PassOf(n, r),
           pass' = [pass EXCEPT ![n][l] = r]
    PROVE  /\ Passes' /\ pass'[n][l] = r
           /\ \A k \in Lane \ {l} : pass'[n][k] = pass[n][k]
           /\ \A m \in Node \ {n} : pass'[m] = pass[m]
  <1>1. DOMAIN pass = Node /\ \A m \in Node : DOMAIN pass[m] = Lane
    BY DEF LoadInv, Passes
  <1>2. pass' = [m \in Node |-> IF m = n THEN [pass[n] EXCEPT ![l] = r] ELSE pass[m]]
    BY <1>1
  <1>3. pass'[n] = [k \in Lane |-> IF k = l THEN r ELSE pass[n][k]]
    BY <1>1, <1>2
  <1>4. \A m \in Node \ {n} : pass'[m] = pass[m]
    BY <1>2
  <1>5. DOMAIN pass' = Node
    BY <1>2
  <1>6. pass'[n][l] = r /\ \A k \in Lane \ {l} : pass'[n][k] = pass[n][k]
    BY <1>3
  <1>7. \A m \in Node : DOMAIN pass'[m] = Lane
    BY <1>1, <1>3, <1>4
  <1>8. \A m \in Node, k \in Lane : PassOf(m, pass'[m][k])
    BY <1>4, <1>6 DEF LoadInv, Passes
  <1> QED  BY <1>4, <1>5, <1>6, <1>7, <1>8 DEF Passes

\* A pass goes on, with its slots or without.
Going(r, x) == [r EXCEPT !.at = x]
Spent(r, x) == [r EXCEPT !.at = x, !.slots = 0]

LEMMA PassGoes ==
    ASSUME LoadInv, NEW n \in Node, NEW l \in Lane,
           NEW x \in {"idle", "plan", "claim", "shed", "beat", "take", "fill"}
    PROVE  /\ PassOf(n, Going(pass[n][l], x)) /\ Going(pass[n][l], x).at = x
           /\ PassOf(n, Spent(pass[n][l], x)) /\ Spent(pass[n][l], x).at = x
  <1>1. PICK r : r = pass[n][l]
    OBVIOUS
  <1>2. PassOf(n, r)
    BY <1>1 DEF LoadInv, Passes
  <1>3. PassOf(n, Going(r, x)) /\ Going(r, x).at = x
    BY <1>2 DEF PassOf, Going
  <1>4. PassOf(n, Spent(r, x)) /\ Spent(r, x).at = x
    BY <1>2 DEF PassOf, Spent
  <1> QED  BY <1>1, <1>3, <1>4

\* The room of node n is as it was for the others, and of its passes only l changed.
LEMMA RoomStays ==
    ASSUME LoadInv, NEW n \in Node, NEW l \in Lane, NEW v \in Nat, NEW r,
           Passes', held' = [held EXCEPT ![n] = v],
           pass'[n][l] = r, \A k \in Lane \ {l} : pass'[n][k] = pass[n][k],
           \A m \in Node \ {n} : pass'[m] = pass[m],
           v <= held[n] \/ (Unclaimed(pass[n][l]) /\ v <= held[n] + Adds(pass[n][l])),
           Counts(n, l, v, r) \/ (~Unclaimed(r) /\ crowded' = crowded)
    PROVE  Rooms'
  <1>1. /\ held \in [Node -> Nat] /\ held'[n] = v /\ \A m \in Node \ {n} : held'[m] = held[m]
        /\ held[n] \in Nat /\ MaxBots[n] \in Nat
    BY LoadConstants DEF LoadInv, LoadTypes
  <1>2. ASSUME NEW m \in Node \ {n} PROVE Room(m)'
    <2>1. m \notin crowded' => m \notin crowded
      BY DEF Counts
    <2>2. Room(m) /\ pass'[m] = pass[m] /\ held'[m] = held[m]
      BY <1>1 DEF LoadInv, Rooms
    <2> QED  BY <2>1, <2>2 DEF Room
  <1>3. ASSUME n \notin crowded' PROVE Room(n)'
    <2>1. n \notin crowded /\ Room(n)
      BY <1>3 DEF LoadInv, Rooms, Counts
    <2>2. \A k \in Lane : pass[n][k].slots \in Nat /\ Adds(pass[n][k]) \in Nat
      BY DEF LoadInv, Passes, PassOf, Adds
    <2>3. Adds(r) \in Nat
      BY DEF Passes, PassOf, Adds
    <2>4. held[n] <= MaxBots[n] /\ v <= MaxBots[n]
      BY <1>1, <2>1, <2>2 DEF Room
    <2>5. ASSUME NEW k \in Lane, Unclaimed(pass'[n][k])
          PROVE  /\ v + Adds(pass'[n][k]) <= MaxBots[n]
                 /\ \A j \in Lane \ {k} : ~Unclaimed(pass'[n][j])
      <3>1. CASE k = l
        <4>1. \A j \in Lane \ {l} : ~Unclaimed(pass[n][j])
          BY <1>3, <2>5, <3>1 DEF Counts
        <4>2. v + Adds(r) <= MaxBots[n]
          BY <2>1, <2>3, <2>4, <2>5, <3>1 DEF Counts
        <4> QED  BY <3>1, <4>1, <4>2
      <3>2. CASE k # l
        <4>1. Unclaimed(pass[n][k]) /\ pass'[n][k] = pass[n][k]
          BY <2>5, <3>2
        <4>2. \A j \in Lane \ {k} : ~Unclaimed(pass[n][j])
          BY <2>1, <4>1 DEF Room
        <4>3. held[n] + Adds(pass[n][k]) <= MaxBots[n]
          BY <2>1, <4>1 DEF Room
        <4>4. v <= held[n]
          BY <3>2, <4>2
        <4>5. ~Unclaimed(r)
          BY <1>3, <3>2, <4>1 DEF Counts
        <4>6. \A j \in Lane \ {k} : ~Unclaimed(pass'[n][j])
          BY <3>2, <4>2, <4>5
        <4> QED  BY <1>1, <2>2, <4>1, <4>3, <4>4, <4>6
      <3> QED  BY <3>1, <3>2
    <2> QED  BY <1>1, <2>4, <2>5 DEF Room
  <1>4. n \in crowded' => Room(n)'
    BY DEF Room
  <1> QED  BY <1>2, <1>3, <1>4 DEF Rooms

\* A step that moves no bot: as far as the sums go, all is as before.
LEMMA LoadKeeps ==
    ASSUME LoadInv, LoadTypes', Passes', Rooms', Plans', UNCHANGED <<bots, adrift, up, held>>,
           \A n \in Node \ up : pass'[n] = pass[n]
    PROVE  LoadInv'
  <1>1. GoneHolds'
    BY DEF LoadInv, GoneHolds
  <1>2. Total(held', up') = Total(held, up)
    OBVIOUS
  <1>3. Enough'
    BY <1>2 DEF LoadInv, Enough
  <1> QED  BY <1>1, <1>3 DEF LoadInv

\* Only a process that is there has a pass under way.
LEMMA PassRuns ==
    ASSUME LoadInv, NEW n \in Node, NEW l \in Lane, pass[n][l].at # "idle"
    PROVE  n \in up
  BY DEF LoadInv, GoneHolds

\* A step in which pass l of node n, which runs, becomes r with nothing to claim.
LEMMA PassKeeps ==
    ASSUME LoadInv, LoadTypes', NEW n \in up, NEW l \in Lane, NEW r, PassOf(n, r), ~Unclaimed(r),
           pass' = [pass EXCEPT ![n][l] = r], crowded' = crowded,
           UNCHANGED <<bots, adrift, up, held, plan>>
    PROVE  LoadInv'
  <1>1. n \in Node /\ held \in [Node -> Nat] /\ held[n] \in Nat
    BY DEF LoadInv, LoadTypes
  <1>2. /\ Passes' /\ pass'[n][l] = r
        /\ \A k \in Lane \ {l} : pass'[n][k] = pass[n][k]
        /\ \A m \in Node \ {n} : pass'[m] = pass[m]
    BY <1>1, PassSet
  <1>3. \A m \in Node, k \in Lane :
           Unclaimed(pass'[m][k]) => Unclaimed(pass[m][k]) /\ pass'[m][k] = pass[m][k]
    BY <1>2
  <1>4. Rooms'
    BY <1>3 DEF LoadInv, Rooms, Room
  <1>5. Plans'
    BY DEF LoadInv, Plans
  <1> QED  BY <1>2, <1>4, <1>5, LoadKeeps

LEMMA IdlePass == \A n \in Node : PassOf(n, Idle) /\ Idle.at = "idle" /\ ~Unclaimed(Idle)
  BY DEF Idle, PassOf, MayPlan, Unclaimed

\* Goes and Ends, with the pass spelt out.
LEMMA PassGone ==
    ASSUME LoadInv, NEW n \in Node, NEW l \in Lane, NEW x \in {"plan", "shed", "beat"},
           Goes(n, l, x)
    PROVE  \E r : PassOf(n, r) /\ ~Unclaimed(r) /\ pass' = [pass EXCEPT ![n][l] = r]
  <1>1. PICK r : r = Going(pass[n][l], x)
    OBVIOUS
  <1>2. PassOf(n, r) /\ r.at = x
    BY <1>1, PassGoes
  <1>3. pass' = [pass EXCEPT ![n][l] = r]
    BY <1>1 DEF Goes, Going
  <1> QED  BY <1>2, <1>3 DEF Unclaimed

LEMMA PassMoves ==
    ASSUME LoadInv, NEW n \in Node, NEW l \in Lane,
           \/ BeginPass(n) /\ l = 1
           \/ KeepSnapshot(n) /\ l = 1
           \/ Overlap(n) /\ l = 2
           \/ NotDue(n, l) \/ Heartbeat(n, l)
    PROVE  LoadInv'
  <1>1. UNCHANGED <<bots, adrift, up, held, plan, crowded>>
    BY DEF BeginPass, KeepSnapshot, Overlap, NotDue, Heartbeat, fleet
  <1>2. n \in up
    BY PassRuns DEF BeginPass, KeepSnapshot, Overlap, NotDue, Heartbeat, At
  <1>3. \E r : PassOf(n, r) /\ ~Unclaimed(r) /\ pass' = [pass EXCEPT ![n][l] = r]
    <2>1. CASE Heartbeat(n, l)
      BY <2>1, IdlePass DEF Heartbeat, Ends
    <2>2. CASE ~Heartbeat(n, l)
      <3>1. \E x \in {"plan", "beat"} : Goes(n, l, x)
        BY <2>2 DEF BeginPass, KeepSnapshot, Overlap, NotDue
      <3> QED  BY <3>1, PassGone
    <2> QED  BY <2>1, <2>2
  <1>4. LoadTypes'
    <2>1. CASE BeginPass(n)
      BY <2>1, WeightValues DEF LoadInv, LoadTypes, BeginPass, Calm, fleet
    <2>2. CASE KeepSnapshot(n)
      BY <2>2, LoadConstants DEF LoadInv, LoadTypes, KeepSnapshot, fleet
    <2>3. CASE NotDue(n, l)
      BY <2>3 DEF LoadInv, LoadTypes, NotDue, Calm, fleet
    <2>4. CASE Heartbeat(n, l)
      <3>1. [count |-> held[n], weight |-> snap[n][n]] \in [count : Nat, weight : WeightValue]
        BY DEF LoadInv, LoadTypes
      <3> QED  BY <2>4, <3>1 DEF LoadInv, LoadTypes, Heartbeat, Calm
    <2>5. CASE Overlap(n)
      <3>1. snap' \in [Node -> [Node -> WeightValue]]
        BY <2>5, WeightValues DEF LoadInv, LoadTypes, Overlap
      <3> QED  BY <2>5, <3>1, LoadConstants DEF LoadInv, LoadTypes, Overlap, Disturb, fleet
    <2> QED  BY <2>1, <2>2, <2>3, <2>4, <2>5
  <1> QED  BY <1>1, <1>2, <1>3, <1>4, PassKeeps

LEMMA PlanTypes ==
    ASSUME NEW n \in Node, NEW p, MayPlan(n, p), p # NoPlan
    PROVE  p.targets[n] \in Nat /\ p.slack \in Nat
  BY LoadConstants DEF MayPlan, Planned

\* The slots a pass computes fit into the room there is.
LEMMA SlotsFit ==
    ASSUME LoadInv, NEW n \in Node, NEW p, MayPlan(n, p)
    PROVE  Slots(n, p) \in Int /\ Slots(n, p) <= MaxBots[n] - held[n]
  <1>1. p # NoPlan => ClaimCap(n, p) \in Nat
    BY PlanTypes DEF ClaimCap
  <1> QED  BY <1>1, LoadSums DEF Slots, Smaller

LEMMA PassPlans ==
    ASSUME LoadInv, NEW n \in Node, NEW l \in Lane, Plan(n, l) \/ PlanFails(n, l)
    PROVE  LoadInv'
  <1>1. PICK p : Computes(n, l, p) /\ MayPlan(n, p)
    <2>1. CASE PlanFails(n, l)
      BY <2>1 DEF PlanFails, MayPlan
    <2>2. CASE Plan(n, l) /\ ~FleetWeighted(n)
      BY <2>2 DEF Plan, MayPlan
    <2>3. CASE Plan(n, l) /\ FleetWeighted(n)
      <3>1. PlanNodes(n) \in SUBSET Node /\ n \in PlanNodes(n)
        BY DEF PlanNodes, LoadInv, LoadTypes
      <3>2. PlanWeights(n, snap[n]) \in [Node -> WeightValue]
        BY DEF PlanWeights, WeightOf, LoadInv, LoadTypes
      <3>3. Planned(n, PlanNodeLoad(n, PlanNodes(n), PlanWeights(n, snap[n]), bots))
        BY <3>1, <3>2, PlanMade
      <3>4. Computes(n, l, PlanNodeLoad(n, PlanNodes(n), PlanWeights(n, snap[n]), bots))
        BY <2>3 DEF Plan
      <3> QED  BY <3>3, <3>4 DEF MayPlan
    <2> QED  BY <2>1, <2>2, <2>3
  <1>2. PICK r : r = [at |-> "claim", plan |-> p, slots |-> NonNeg(Slots(n, p))]
    OBVIOUS
  <1>3. /\ UNCHANGED <<weights, bots, beat, online, adrift, up, held, snap, early, missed>>
        /\ plan' = [plan EXCEPT ![n] = p] /\ pass[n][l].at = "plan"
        /\ pass' = [pass EXCEPT ![n][l] = r]
        /\ crowded' = IF \E k \in Lane \ {l} : Unclaimed(pass[n][k]) THEN crowded \cup {n} ELSE crowded
    <2>1. UNCHANGED missed
      BY DEF Plan, PlanFails, Calm, Disturb
    <2> QED  BY <1>1, <1>2, <2>1 DEF Computes, Crowd, Unspent, Unclaimed, At, fleet
  <1>4. Slots(n, p) \in Int /\ Slots(n, p) <= MaxBots[n] - held[n]
    BY <1>1, SlotsFit
  <1>5. /\ NonNeg(Slots(n, p)) \in Nat
        /\ NonNeg(Slots(n, p)) = 0 \/ NonNeg(Slots(n, p)) <= MaxBots[n] - held[n]
    BY <1>4 DEF NonNeg
  <1>6. PassOf(n, r) /\ Adds(r) = NonNeg(Slots(n, p))
    BY <1>1, <1>2, <1>5 DEF PassOf, Adds
  <1>7. /\ Passes' /\ pass'[n][l] = r
        /\ \A k \in Lane \ {l} : pass'[n][k] = pass[n][k]
        /\ \A m \in Node \ {n} : pass'[m] = pass[m]
    BY <1>3, <1>6, PassSet
  <1>8. Rooms'
    <2>1. PICK v \in Nat : v = held[n]
      BY LoadSums
    <2>2. held' = [held EXCEPT ![n] = v] /\ v <= held[n] /\ MaxBots[n] \in Nat
      BY <1>3, <2>1, LoadSums DEF LoadInv, LoadTypes
    <2>3. Counts(n, l, v, r)
      BY <1>3, <1>5, <1>6, <2>1, <2>2 DEF Counts
    <2> QED  BY <1>7, <2>2, <2>3, RoomStays
  <1>9. Plans'
    BY <1>1, <1>3 DEF LoadInv, Plans
  <1>10. \A m \in Node \ up : pass'[m] = pass[m]
    BY <1>3, <1>7, PassRuns
  <1>11. LoadTypes'
    <2>1. upsets' \in 0..MaxUpsets
      BY LoadConstants DEF LoadInv, LoadTypes, Plan, PlanFails, Calm, Disturb
    <2> QED  BY <1>3, <2>1 DEF LoadInv, LoadTypes
  <1> QED  BY <1>3, <1>7, <1>8, <1>9, <1>10, <1>11, LoadKeeps

\* A step in which node n of those that run comes to hold v bots, and the bots
\* there are become b.
LEMMA LoadHolds ==
    ASSUME LoadInv, LoadTypes', Passes', Rooms', Plans', NEW n \in up, NEW v \in Nat,
           held' = [held EXCEPT ![n] = v],
           UNCHANGED <<adrift, up>>, \A m \in Node \ up : pass'[m] = pass[m],
           v - held[n] <= Free + (bots' - bots)
    PROVE  LoadInv'
  <1>1. /\ n \in Node /\ up \in SUBSET Node /\ held \in [Node -> Nat] /\ held' \in [Node -> Nat]
        /\ held'[n] = v /\ \A m \in Node \ {n} : held'[m] = held[m]
    BY DEF LoadInv, LoadTypes
  <1>2. \A m \in up \ {n} : held[m] = held'[m]
    BY <1>1
  <1>3. Total(held', up) - v = Total(held, up) - held[n] /\ Total(held', up) \in Nat
    <2>1. PICK f, g : f = held /\ g = held'
      OBVIOUS
    <2>2. /\ f \in [Node -> Nat] /\ g \in [Node -> Nat] /\ g[n] = v /\ \A m \in up \ {n} : f[m] = g[m]
          /\ up \in SUBSET Node
      BY <1>1, <1>2, <2>1
    <2>3. Total(g, up) - g[n] = Total(f, up) - f[n] /\ Total(g, up) \in Nat
      BY <2>2, HeldSum, Zenon
    <2> QED  BY <2>1, <2>2, <2>3
  <1>4. bots' \in Nat
    BY LoadConstants DEF LoadTypes
  <1>5. Enough'
    BY <1>1, <1>3, <1>4, LoadSums DEF Enough, Free
  <1>6. GoneHolds'
    BY <1>1 DEF LoadInv, GoneHolds
  <1> QED  BY <1>5, <1>6 DEF LoadInv

\* Pass l of node n claims with what it computed, or sheds: the node comes to hold v.
LEMMA PassHolds ==
    ASSUME LoadInv, LoadTypes', NEW n \in Node, NEW l \in Lane, NEW r, PassOf(n, r), NEW v \in Nat,
           held' = [held EXCEPT ![n] = v], pass' = [pass EXCEPT ![n][l] = r],
           pass[n][l].at # "idle", UNCHANGED <<bots, adrift, up, plan>>, v - held[n] <= Free,
           v <= held[n] \/ (Unclaimed(pass[n][l]) /\ v <= held[n] + Adds(pass[n][l])),
           Counts(n, l, v, r) \/ (~Unclaimed(r) /\ crowded' = crowded)
    PROVE  LoadInv'
  <1>1. /\ Passes' /\ pass'[n][l] = r
        /\ \A k \in Lane \ {l} : pass'[n][k] = pass[n][k]
        /\ \A m \in Node \ {n} : pass'[m] = pass[m]
    BY PassSet
  <1>2. n \in up
    BY PassRuns
  <1>3. Rooms'
    BY <1>1, RoomStays
  <1>4. \A m \in Node \ up : pass'[m] = pass[m]
    BY <1>1, <1>2
  <1>5. Plans'
    BY DEF LoadInv, Plans
  <1>6. v - held[n] <= Free + (bots' - bots)
    BY LoadSums
  <1> QED  BY <1>1, <1>2, <1>3, <1>4, <1>5, <1>6, LoadHolds

LEMMA PassClaims ==
    ASSUME LoadInv, NEW n \in Node, NEW l \in Lane, Claim(n, l)
    PROVE  LoadInv'
  <1>1. pass[n][l].slots \in Nat /\ pass[n][l].at \in {"claim", "fill"}
    BY DEF Claim, LoadInv, Passes, PassOf
  <1>2. PICK v \in Nat : v = held[n] + Smaller(pass[n][l].slots, Free)
    BY <1>1, LoadSums DEF Smaller
  <1>3. v - held[n] <= Free /\ Unclaimed(pass[n][l]) /\ v <= held[n] + Adds(pass[n][l])
    BY <1>1, <1>2, LoadSums DEF Smaller, Unclaimed, Adds
  <1>4. PICK x \in {"shed", "beat"} : x = IF At(n, l, "claim") THEN "shed" ELSE "beat"
    OBVIOUS
  <1>5. PICK r : r = Spent(pass[n][l], x)
    OBVIOUS
  <1>6. PassOf(n, r) /\ ~Unclaimed(r)
    <2>1. PassOf(n, r) /\ r.at = x
      BY <1>4, <1>5, PassGoes
    <2> QED  BY <2>1 DEF Unclaimed
  <1>7. pass' = [pass EXCEPT ![n][l].at = x, ![n][l].slots = 0]
    BY <1>4 DEF Claim
  <1>8. pass' = [pass EXCEPT ![n][l] = r]
    BY <1>5, <1>7 DEF LoadInv, Passes, Spent
  <1>9. held' = [held EXCEPT ![n] = v] /\ UNCHANGED <<bots, adrift, up, plan, crowded>>
    BY <1>2 DEF Claim, fleet
  <1>10. LoadTypes'
    BY <1>9 DEF LoadInv, LoadTypes, Claim, Calm, fleet
  <1> QED  BY <1>1, <1>3, <1>6, <1>8, <1>9, <1>10, PassHolds

\* A node sheds no more than it holds.
LEMMA ShedsHeld ==
    ASSUME LoadInv, NEW n \in Node, NEW s \in [Node -> WeightValue], NEW p, MayPlan(n, p)
    PROVE  ShedCount(n, p, s) \in Nat /\ ShedCount(n, p, s) <= held[n]
  <1>1. ASSUME NEW target \in Nat, NEW slack \in Nat
        PROVE  /\ ShedAboveTarget(held[n], target, slack) \in Nat
               /\ ShedAboveTarget(held[n], target, slack) <= held[n]
    BY LoadSums, LoadConstants DEF ShedAboveTarget, Smaller, NonNeg
  <1>2. p # NoPlan => /\ ShedAboveTarget(held[n], p.targets[n], p.slack) \in Nat
                            /\ ShedAboveTarget(held[n], p.targets[n], p.slack) <= held[n]
    BY <1>1, PlanTypes
  <1> DEFINE peers == online \ {n}
             w == PlanWeights(n, s)
             slack == IF Drained(n, w, peers \cup {n}) THEN 0 ELSE Slack
  <1>3. slack \in Nat
    BY LoadConstants
  <1>4. FairShare(n, peers, w) \in Nat
    <2>1. peers \in SUBSET Node /\ w \in [Node -> Nat] /\ w[n] \in Nat
      BY WeightValues DEF PlanWeights, WeightOf, LoadInv, LoadTypes
    <2>2. IsFiniteSet(peers) /\ Cardinality(peers) \in Nat /\ Total(w, peers) \in Nat
      <3> HIDE DEF peers, w
      <3> QED  BY <2>1, PoolSums
    <2>3. PICK c : c = [m \in peers |-> beat[m].count]
      OBVIOUS
    <2>4. c \in [peers -> Nat]
      BY <2>1, <2>3 DEF LoadInv, LoadTypes
    <2>5. Total(c, peers) \in Nat
      <3> HIDE DEF peers
      <3> QED  BY <2>2, <2>4, SumInt
    <2>6. PICK all \in Nat, total \in Nat, x \in Nat, e \in Nat :
            /\ all = w[n] + Total(w, peers) /\ total = held[n] + Total(c, peers) /\ x = w[n]
            /\ e = Cardinality(peers) + 1 /\ e > 0
      <3>1. held[n] \in Nat /\ w[n] \in Nat
        BY <2>1, LoadSums
      <3> HIDE DEF peers, w
      <3> QED  BY <2>2, <2>5, <3>1
    <2>7. FairShare(n, peers, w) = IF all > 0 THEN (total * x) \div all ELSE total \div e
      BY <2>3, <2>6 DEF FairShare
    <2>8. total * x \in Nat
      OBVIOUS
    <2>9. all > 0 => (total * x) \div all \in Nat
      BY <2>8, Quotients
    <2>10. total \div e \in Nat
      BY <2>6, Quotients
    <2> QED  BY <2>7, <2>9, <2>10
  <1>5. /\ WeightedShedCount(n, peers, w) \in Nat
        /\ WeightedShedCount(n, peers, w) <= held[n]
    <2>1. WeightedShedCount(n, peers, w) =
            IF peers = {} THEN 0 ELSE ShedAboveTarget(held[n], FairShare(n, peers, w), slack)
      BY DEF WeightedShedCount
    <2>2. 0 \in Nat /\ 0 <= held[n]
      BY LoadSums
    <2> HIDE DEF slack, w, peers
    <2> QED  BY <1>1, <1>3, <1>4, <2>1, <2>2
  <1>6. 0 \in Nat /\ 0 <= held[n]
    BY LoadSums
  <1> QED  BY <1>2, <1>5, <1>6 DEF ShedCount

LEMMA PassSheds ==
    ASSUME LoadInv, NEW n \in Node, NEW l \in Lane, Shed(n, l)
    PROVE  LoadInv'
  <1>1. PICK p : p = pass[n][l].plan /\ MayPlan(n, p)
    BY DEF LoadInv, Passes, PassOf
  <1>2. PICK s \in {snap[n], weights} : /\ snap' = [snap EXCEPT ![n] = s]
                                        /\ held' = [held EXCEPT ![n] = @ - ShedCount(n, p, s)]
    BY <1>1 DEF Shed
  <1>3. s \in [Node -> WeightValue]
    BY <1>2, WeightValues DEF LoadInv, LoadTypes
  <1>4. PICK v \in Nat : v = held[n] - ShedCount(n, p, s) /\ v <= held[n]
    BY <1>1, <1>3, ShedsHeld, LoadSums
  <1>5. held' = [held EXCEPT ![n] = v] /\ UNCHANGED <<bots, adrift, up, plan, crowded>>
    BY <1>2, <1>4 DEF Shed, fleet
  <1>6. PICK r : PassOf(n, r) /\ ~Unclaimed(r) /\ pass' = [pass EXCEPT ![n][l] = r]
    BY PassGone DEF Shed
  <1>7. LoadTypes'
    <2>1. snap' \in [Node -> [Node -> WeightValue]]
      BY <1>2, <1>3 DEF LoadInv, LoadTypes
    <2>2. held' \in [Node -> Nat]
      BY <1>4, <1>5 DEF LoadInv, LoadTypes
    <2>3. early' = early \ {n} /\ UNCHANGED <<weights, beat, online, upsets, missed>>
      BY DEF Shed, Calm, fleet
    <2> QED  BY <1>5, <2>1, <2>2, <2>3 DEF LoadInv, LoadTypes
  <1>8. pass[n][l].at # "idle" /\ v - held[n] <= Free
    BY <1>4, LoadSums DEF Shed, At
  <1> QED  BY <1>4, <1>5, <1>6, <1>7, <1>8, PassHolds

LEMMA BotPaused ==
    ASSUME LoadInv, PauseBot
    PROVE  LoadInv'
  <1>0. bots' \in BotCounts /\ bots' = bots - 1 /\ UNCHANGED <<adrift, up, plan, pass, crowded>>
    BY DEF PauseBot
  <1>1. Plans' /\ Passes'
    BY <1>0 DEF LoadInv, Plans, Passes
  <1>2. CASE Free > 0 /\ UNCHANGED held
    <2>1. LoadTypes'
      BY <1>0, <1>2, LoadConstants DEF LoadInv, LoadTypes, PauseBot, Disturb
    <2>2. GoneHolds' /\ Rooms'
      BY <1>0, <1>2 DEF LoadInv, GoneHolds, Rooms, Room
    <2>3. Total(held', up') = Total(held, up) /\ adrift' = adrift
      BY <1>0, <1>2
    <2>4. Enough'
      BY <1>0, <1>2, <2>3, LoadSums DEF Enough, Free
    <2> QED  BY <1>1, <2>1, <2>2, <2>4 DEF LoadInv
  <1>3. ASSUME NEW n \in up, held[n] > 0, held' = [held EXCEPT ![n] = @ - 1]
        PROVE  LoadInv'
    <2>0. n \in Node /\ held[n] \in Nat
      BY LoadSums
    <2>1. PICK v \in Nat : v = held[n] - 1 /\ v <= held[n] /\ v - held[n] = -1
      BY <1>3, <2>0
    <2>2. held' = [held EXCEPT ![n] = v]
      BY <1>3, <2>1
    <2>3. LoadTypes'
      BY <1>0, <2>1, <2>2, LoadConstants DEF LoadInv, LoadTypes, PauseBot, Disturb
    <2>4. v - held[n] <= Free + (bots' - bots)
      BY <1>0, <2>1, LoadSums
    <2>5. Rooms'
      <3>1. /\ \A m \in Node : held'[m] <= held[m] /\ held'[m] \in Nat /\ held[m] \in Nat
            /\ \A m \in Node : MaxBots[m] \in Nat
        BY <2>0, <2>1, <2>2, LoadSums DEF LoadInv, LoadTypes
      <3>2. \A m \in Node, k \in Lane : Adds(pass[m][k]) \in Nat
        BY DEF LoadInv, Passes, PassOf, Adds
      <3> QED  BY <1>0, <3>1, <3>2 DEF LoadInv, Rooms, Room
    <2> QED  BY <1>0, <1>1, <2>1, <2>2, <2>3, <2>4, <2>5, LoadHolds
  <1> QED  BY <1>2, <1>3 DEF PauseBot

LEMMA BotResumed ==
    ASSUME LoadInv, NEW n \in Node, ResumeBot(n)
    PROVE  LoadInv'
  <1> DEFINE takes == ~(FleetWeighted(n) /\ snap[n][n] = 0) /\ held[n] < MaxBots[n]
  <1>1. PICK t \in BOOLEAN : (t <=> takes) /\ (t => held[n] < MaxBots[n])
    OBVIOUS
  <1> HIDE DEF takes
  <1>2. PICK x \in {"take", "beat"} : x = IF t THEN "take" ELSE "beat"
    OBVIOUS
  <1>3. PICK r : r = Going(pass[n][2], x)
    OBVIOUS
  <1>4. /\ n \in up /\ bots' \in BotCounts /\ bots' = bots + 1
        /\ UNCHANGED <<weights, beat, online, adrift, up, held, snap, plan, early>> /\ Disturb
        /\ pass' = [pass EXCEPT ![n][2] = r]
        /\ IF t THEN Crowd(n, 2) ELSE UNCHANGED crowded
    BY <1>1, <1>2, <1>3 DEF ResumeBot, Goes, Going, takes
  <1>5. 2 \in Lane
    BY DEF Lane
  <1>6. PassOf(n, r) /\ r.at = x
    BY <1>2, <1>3, <1>5, PassGoes
  <1>7. /\ Passes' /\ pass'[n][2] = r
        /\ \A k \in Lane \ {2} : pass'[n][k] = pass[n][k]
        /\ \A m \in Node \ {n} : pass'[m] = pass[m]
    BY <1>4, <1>5, <1>6, PassSet
  <1>8. Rooms'
    <2>1. PICK v \in Nat : v = held[n]
      BY LoadSums
    <2>2. held' = [held EXCEPT ![n] = v] /\ v <= held[n] /\ MaxBots[n] \in Nat
      BY <1>4, <2>1, LoadSums DEF LoadInv, LoadTypes
    <2>3. ~t => ~Unclaimed(r) /\ crowded' = crowded
      BY <1>2, <1>4, <1>6 DEF Unclaimed
    <2>4. t => Counts(n, 2, v, r)
      <3>1. t => v + Adds(r) <= MaxBots[n]
        BY <1>1, <1>2, <1>6, <2>1, <2>2 DEF Adds
      <3> QED  BY <1>4, <3>1 DEF Crowd, Unspent, Unclaimed, Counts
    <2> QED  BY <1>5, <1>7, <2>2, <2>3, <2>4, RoomStays
  <1>9. Plans'
    BY <1>4 DEF LoadInv, Plans
  <1>10. LoadTypes'
    BY <1>4, LoadConstants DEF LoadInv, LoadTypes, Disturb
  <1>11. \A m \in Node \ up : pass'[m] = pass[m]
    BY <1>4, <1>7
  <1>12. PICK v \in Nat : v = held[n]
    BY LoadSums
  <1>13. held' = [held EXCEPT ![n] = v] /\ v - held[n] <= Free + (bots' - bots)
    BY <1>4, <1>12, LoadSums DEF LoadInv, LoadTypes
  <1> QED  BY <1>4, <1>7, <1>8, <1>9, <1>10, <1>11, <1>13, LoadHolds

LEMMA ResumedTaken ==
    ASSUME LoadInv, NEW n \in Node, TakeResumed(n)
    PROVE  LoadInv'
  <1>1. 2 \in Lane /\ pass[n][2].at = "take"
    BY DEF TakeResumed, At, Lane
  <1>2. PICK got \in {0, 1} :
          /\ got <= Free /\ held' = [held EXCEPT ![n] = @ + got]
          /\ pass' = [pass EXCEPT ![n][2] = [at |-> "fill", plan |-> NoPlan,
                                             slots |-> NonNeg(Slots(n, plan[n]) - got)]]
    BY DEF TakeResumed
  <1>3. PICK v \in Nat : v = held[n] + got
    BY LoadSums
  <1>4. PICK r : r = [at |-> "fill", plan |-> NoPlan, slots |-> NonNeg(Slots(n, plan[n]) - got)]
    OBVIOUS
  <1>5. Slots(n, plan[n]) \in Int /\ Slots(n, plan[n]) <= MaxBots[n] - held[n]
    BY SlotsFit DEF LoadInv, Plans
  <1>6. /\ NonNeg(Slots(n, plan[n]) - got) \in Nat
        /\ \/ NonNeg(Slots(n, plan[n]) - got) = 0
           \/ v + NonNeg(Slots(n, plan[n]) - got) <= MaxBots[n]
    BY <1>3, <1>5, LoadSums DEF NonNeg
  <1>7. PassOf(n, r) /\ Adds(r) = NonNeg(Slots(n, plan[n]) - got)
    BY <1>4, <1>6 DEF PassOf, Adds, MayPlan
  <1>8. /\ UNCHANGED <<weights, beat, online, bots, adrift, up, snap, plan, early, upsets, missed>>
        /\ crowded' = IF \E k \in Lane \ {2} : Unclaimed(pass[n][k]) THEN crowded \cup {n} ELSE crowded
    BY DEF TakeResumed, Crowd, Unspent, Unclaimed, Calm, fleet
  <1>9. Unclaimed(pass[n][2]) /\ v <= held[n] + Adds(pass[n][2]) /\ v - held[n] <= Free
    BY <1>1, <1>2, <1>3, LoadSums DEF Unclaimed, Adds
  <1>10. held' = [held EXCEPT ![n] = v] /\ pass' = [pass EXCEPT ![n][2] = r]
    BY <1>2, <1>3, <1>4
  <1>11. LoadTypes'
    BY <1>8, <1>10 DEF LoadInv, LoadTypes
  <1>12. Counts(n, 2, v, r)
    <2>1. n \notin crowded => held[n] + 1 <= MaxBots[n]
      BY <1>1 DEF LoadInv, Rooms, Room, Unclaimed, Adds
    <2>2. MaxBots[n] \in Nat /\ held[n] \in Nat /\ got \in {0, 1}
      BY LoadSums
    <2> QED  BY <1>3, <1>6, <1>7, <1>8, <2>1, <2>2 DEF Counts
  <1> QED  BY <1>1, <1>7, <1>8, <1>9, <1>10, <1>11, <1>12, PassHolds

LEMMA NodeGoes ==
    ASSUME LoadInv, NEW n \in Node, Crash(n)
    PROVE  LoadInv'
  <1>1. /\ n \in up /\ up' = up \ {n} /\ adrift' = adrift + held[n] /\ held' = [held EXCEPT ![n] = 0]
        /\ pass' = [pass EXCEPT ![n] = [l \in Lane |-> Idle]] /\ plan' = [plan EXCEPT ![n] = NoPlan]
        /\ bots' = bots /\ crowded' = crowded \ {n}
    BY DEF Crash
  <1>2. LoadTypes'
    BY <1>1, LoadSums, LoadConstants DEF LoadInv, LoadTypes, Crash, Disturb
  <1>3. Plans'
    BY <1>1 DEF LoadInv, Plans, MayPlan
  <1>4. /\ DOMAIN pass' = Node /\ \A m \in Node \ {n} : pass'[m] = pass[m]
        /\ pass'[n] = [l \in Lane |-> Idle]
    BY <1>1 DEF LoadInv, Passes
  <1>5. Passes'
    BY <1>4, IdlePass DEF LoadInv, Passes
  <1>6. held'[n] = 0 /\ \A m \in Node \ {n} : held'[m] = held[m]
    BY <1>1 DEF LoadInv, LoadTypes
  <1>7. GoneHolds'
    BY <1>1, <1>4, <1>6, IdlePass DEF LoadInv, GoneHolds
  <1>8. Rooms'
    <2>1. MaxBots[n] \in Nat
      BY LoadSums
    <2>2. Room(n)'
      BY <1>4, <1>6, <2>1, IdlePass DEF Room
    <2>3. ASSUME NEW m \in Node \ {n} PROVE Room(m)'
      <3>1. m \notin crowded' => m \notin crowded
        BY <1>1
      <3> QED  BY <1>4, <1>6, <3>1 DEF LoadInv, Rooms, Room
    <2> QED  BY <2>2, <2>3 DEF Rooms
  <1>9. Total(held', up \ {n}) = Total(held, up) - held[n]
    <2>1. /\ up \in SUBSET Node /\ held \in [Node -> Nat] /\ held' \in [Node -> Nat]
          /\ \A m \in up \ {n} : held[m] = held'[m]
      BY <1>1, <1>2 DEF LoadInv, LoadTypes
    <2>2. Total(held, up \ {n}) = Total(held, up) - held[n]
      BY <1>1, <2>1, HeldSum
    <2>3. IsFiniteSet(up \ {n})
      BY <2>1, PoolSums
    <2> QED  BY <2>1, <2>2, <2>3, SumAlike
  <1>10. Enough'
    BY <1>1, <1>9, LoadSums DEF LoadInv, Enough
  <1> QED  BY <1>2, <1>3, <1>5, <1>7, <1>8, <1>10 DEF LoadInv

LEMMA NodeComes ==
    ASSUME LoadInv, NEW n \in Node, Start(n)
    PROVE  LoadInv'
  <1>1. /\ n \notin up /\ up' = up \cup {n} /\ UNCHANGED <<bots, adrift, held, pass, crowded, plan>>
    BY DEF Start
  <1>2. LoadTypes'
    <2>1. weights \in [Node -> WeightValue]
      BY WeightValues DEF LoadInv, LoadTypes
    <2>2. [count |-> 0, weight |-> weights[n]] \in [count : Nat, weight : WeightValue]
      BY <2>1
    <2> QED  BY <1>1, <2>1, <2>2 DEF LoadInv, LoadTypes, Start, Calm
  <1>3. Plans' /\ GoneHolds'
    BY <1>1 DEF LoadInv, Plans, GoneHolds
  <1>4. Passes' /\ Rooms'
    BY <1>1 DEF LoadInv, Passes, Rooms, Room
  <1>5. held[n] = 0
    BY <1>1 DEF LoadInv, GoneHolds
  <1>6. Total(held, up \cup {n}) = held[n] + Total(held, up)
    <2>1. held \in [Node -> Nat] /\ held \in [Node -> Int] /\ up \in SUBSET Node /\ n \in Node \ up
      BY <1>1 DEF LoadInv, LoadTypes
    <2>2. IsFiniteSet(up)
      BY <2>1, PoolSums
    <2> QED  BY <2>1, <2>2, SumMore
  <1>7. Enough'
    BY <1>1, <1>5, <1>6, LoadSums DEF LoadInv, Enough
  <1> QED  BY <1>2, <1>3, <1>4, <1>7 DEF LoadInv

LEMMA LoadStep == LoadInv /\ [LoadNext]_loadVars => LoadInv'
  <1> SUFFICES ASSUME LoadInv, [LoadNext]_loadVars PROVE LoadInv'
    OBVIOUS
  <1>0. 1 \in Lane /\ 2 \in Lane
    BY DEF Lane
  <1>1. ASSUME NEW n \in Node, \E l \in Lane : Step(n, l) \/ PlanFails(n, l)
        PROVE  LoadInv'
    BY <1>0, <1>1, PassMoves, PassPlans, PassClaims, PassSheds, ResumedTaken DEF Step
  <1>2. ASSUME NEW n \in Node,
               KeepSnapshot(n) \/ Overlap(n) \/ ResumeBot(n) \/ Crash(n) \/ Start(n)
        PROVE  LoadInv'
    BY <1>0, <1>2, PassMoves, BotResumed, NodeGoes, NodeComes
  <1>3. ASSUME NEW table \in Weights, SetWeight(table) PROVE LoadInv'
    <2>1. UNCHANGED <<bots, adrift, up, held, pass, crowded, plan>> /\ LoadTypes'
      BY <1>3, LoadConstants DEF SetWeight, LoadInv, LoadTypes, Disturb
    <2>2. Plans' /\ Passes' /\ Rooms'
      BY <2>1 DEF LoadInv, Plans, Passes, Rooms, Room
    <2> QED  BY <2>1, <2>2, LoadKeeps
  <1>4. CASE PauseBot
    BY <1>4, BotPaused
  <1>5. CASE Expire
    <2>1. UNCHANGED <<bots, up, held, pass, crowded, plan>> /\ LoadTypes' /\ adrift' = 0
      BY <1>5 DEF Expire, LoadInv, LoadTypes, Calm
    <2>2. Plans' /\ Passes' /\ Rooms' /\ GoneHolds'
      BY <2>1 DEF LoadInv, Plans, Passes, Rooms, Room, GoneHolds
    <2>3. Total(held', up') = Total(held, up)
      BY <2>1
    <2>4. Enough'
      BY <2>1, <2>3, LoadSums DEF LoadInv, Enough
    <2> QED  BY <2>1, <2>2, <2>4 DEF LoadInv
  <1>6. CASE UNCHANGED loadVars
    <2>1. UNCHANGED <<bots, adrift, up, held, pass, crowded, plan>> /\ LoadTypes'
      BY <1>6 DEF loadVars, fleet, LoadInv, LoadTypes
    <2>2. Plans' /\ Passes' /\ Rooms'
      BY <2>1 DEF LoadInv, Plans, Passes, Rooms, Room
    <2> QED  BY <2>1, <2>2, LoadKeeps
  <1> QED  BY <1>1, <1>2, <1>3, <1>4, <1>5, <1>6 DEF LoadNext

\* The invariant says what PlanSound does.
LEMMA LoadSays == LoadInv => PlanSound
  <1> SUFFICES ASSUME LoadInv PROVE PlanSound
    OBVIOUS
  <1>1. ASSUME NEW n \in Node, NEW p, MayPlan(n, p) PROVE IsPlan(p)
    <2>1. CASE p = NoPlan
      <3>1. /\ p.targets = <<>> /\ p.slack = 0 /\ p.unplaceable = 0
            /\ DOMAIN <<>> = {} /\ <<>> \in [{} -> Nat]
        BY <2>1 DEF NoPlan
      <3> QED  BY <3>1 DEF IsPlan
    <2>2. CASE Planned(n, p)
      BY <2>2 DEF Planned, IsPlan
    <2> QED  BY <1>1, <2>1, <2>2 DEF MayPlan
  <1>2. LoadTypeOK
    <2>1. Free >= 0 /\ bots \in Nat
      BY LoadSums
    <2>2. beat \in [Node -> [count : Nat, weight : Nat]] /\ snap \in [Node -> [Node -> Nat]]
      BY WeightValues DEF LoadInv, LoadTypes
    <2>3. \A n \in Node : IsPlan(plan[n])
      BY <1>1 DEF LoadInv, Plans
    <2>4. \A n \in Node, l \in Lane :
             /\ pass[n][l].at \in {"idle", "plan", "claim", "shed", "beat", "take", "fill"}
             /\ IsPlan(pass[n][l].plan) /\ pass[n][l].slots \in Nat
      BY <1>1 DEF LoadInv, Passes, PassOf
    <2>5. \A n \in Node \ crowded : held[n] <= MaxBots[n]
      BY DEF LoadInv, Rooms, Room
    <2> QED  BY <2>1, <2>2, <2>3, <2>4, <2>5 DEF LoadInv, LoadTypes, LoadTypeOK
  <1>3. \A p \in PlansMade : p = NoPlan \/ \E n \in Node : Planned(n, p)
    BY DEF PlansMade, LoadInv, Plans, Passes, PassOf, MayPlan
  <1>4. DOMAIN NoPlan.targets = {}
    BY DEF NoPlan
  <1>5. ASSUME NEW p \in PlansMade, p # NoPlan
        PROVE  \E n \in Node : Planned(n, p)
    BY <1>3, <1>5
  <1>6. PlanExact
    BY <1>4, <1>5 DEF Planned, PlanExact
  <1>7. PlanFair
    BY <1>4, <1>5 DEF Planned, Even, PlanFair
  <1> QED  BY <1>2, <1>6, <1>7 DEF PlanSound

-----------------------------------------------------------------------------
(* Broadcast: when a cancellation sticks                                   *)

\* Job j is cancelled, and no runner has a copy of it that it may yet write.
Laid(j) ==
    /\ row[j].status = "cancelled"
    /\ \A w \in Worker : runner[w].pc \in CopyStages => runner[w].job # j

\* What node w does to its runner and, if the runner has a copy, to the row of its
\* job; it gets a copy only of a job that is not cancelled.
Acts(w) ==
    /\ \E r : /\ runner' = [runner EXCEPT ![w] = r] /\ r.job \in {runner[w].job, NoOne}
              /\ r.pc \in CopyStages =>
                    \/ runner[w].pc \in CopyStages
                    \/ r.job = runner[w].job /\ row[r.job].status # "cancelled"
    /\ \/ row' = row
       \/ runner[w].pc \in CopyStages /\ \E q : row' = [row EXCEPT ![runner[w].job] = q]

LEMMA ActsMeans ==
    ASSUME CastInv, NEW w \in Worker, NEW r, runner' = [runner EXCEPT ![w] = r],
           r.job \in {runner[w].job, NoOne},
           r.pc \in CopyStages =>
              \/ runner[w].pc \in CopyStages
              \/ r.job = runner[w].job /\ row[r.job].status # "cancelled",
           row' = row \/ (runner[w].pc \in CopyStages /\ \E q : row' = [row EXCEPT ![runner[w].job] = q])
    PROVE  Acts(w)
  BY Zenon DEF Acts

\* A runner that only goes to another stage.
LEMMA GotoActs ==
    ASSUME CastInv, NEW w \in Worker, NEW stage, Cast!Goto(w, stage),
           stage \in CopyStages => runner[w].pc \in CopyStages,
           row' = row \/ (runner[w].pc \in CopyStages /\ \E q : row' = [row EXCEPT ![runner[w].job] = q])
    PROVE  Acts(w)
  <1> DEFINE r == [runner[w] EXCEPT !.pc = stage]
  <1>1. runner[w] \in Cast!RunnerState  BY CastRunner
  <1>2. runner' = [runner EXCEPT ![w] = r]  BY DEF Cast!Goto, CastInv
  <1>3. r.pc = stage /\ r.job = runner[w].job  BY <1>1 DEF Cast!RunnerState
  <1> HIDE DEF r
  <1> QED  BY <1>2, <1>3, ActsMeans

LEMMA OpensActs ==
    ASSUME CastInv, NEW w \in Worker,
           \/ Cast!Lock(w) \/ Cast!Load(w) \/ Cast!MarkRunning(w) \/ Cast!SetActive(w)
           \/ Cast!NextRecipient(w) \/ Cast!CheckCancelled(w) \/ Cast!SaveCancelled(w)
    PROVE  Acts(w)
  <1> USE DEF Cast!At
  <1>0. runner[w] \in Cast!RunnerState  BY CastRunner
  <1>a. /\ {"load", "lock", "idle", "unlock"} \cap CopyStages = {}
        /\ {"mark", "point", "head", "check", "drop", "send", "final"} \subseteq CopyStages
    BY DEF CopyStages, Cast!Trying
  <1>b. Cast!Idle.pc = "idle" /\ Cast!Idle.job = NoOne  BY DEF Cast!Idle
  <1>1. CASE Cast!Lock(w)
    <2>1. row' = row /\ (Cast!Goto(w, "load") \/ runner' = [runner EXCEPT ![w] = Cast!Idle])
      BY <1>1 DEF Cast!Lock, Cast!Set
    <2>2. CASE Cast!Goto(w, "load")  BY <1>a, <2>1, <2>2, GotoActs
    <2>3. CASE runner' = [runner EXCEPT ![w] = Cast!Idle]
      BY <1>a, <1>b, <2>1, <2>3, ActsMeans
    <2> QED  BY <2>1, <2>2, <2>3
  <1>2. CASE Cast!Load(w)
    <2> DEFINE j == runner[w].job
               r == [Cast!Idle EXCEPT !.pc = IF row[j].status \in {"cancelled", "completed"}
                                             THEN "unlock" ELSE "mark",
                                      !.job = j, !.status = row[j].status, !.cursor = row[j].cursor]
    <2>1. row' = row /\ runner' = [runner EXCEPT ![w] = r]
      BY <1>2 DEF Cast!Load, Cast!Set, Cast!redis
    <2>2. r.job = j /\ (row[j].status = "cancelled" => r.pc = "unlock")
      BY DEF Cast!Idle
    <2> HIDE DEF r
    <2>3. r.pc \in CopyStages => r.job = runner[w].job /\ row[r.job].status # "cancelled"
      BY <1>a, <2>2
    <2> QED  BY <2>1, <2>2, <2>3, ActsMeans
  <1>3. CASE Cast!MarkRunning(w)
    <2>1. runner[w].pc \in CopyStages  BY <1>3, <1>a DEF Cast!MarkRunning
    <2>2. CASE runner[w].status = "pending"
      <3> DEFINE r == [runner[w] EXCEPT !.pc = "point", !.status = "running"]
      <3>1. r.job = runner[w].job  BY <1>0 DEF Cast!RunnerState
      <3>2. Cast!Save(w, "running") /\ runner' = [runner EXCEPT ![w] = r]
        BY <1>3, <2>2 DEF Cast!MarkRunning, Cast!Set
      <3>3. \E q : row' = [row EXCEPT ![runner[w].job] = q]  BY <3>2 DEF Cast!Save
      <3> HIDE DEF r
      <3> QED  BY <2>1, <3>1, <3>2, <3>3, ActsMeans
    <2>3. CASE runner[w].status # "pending"
      <3>1. Cast!Goto(w, "point") /\ row' = row  BY <1>3, <2>3 DEF Cast!MarkRunning
      <3> QED  BY <2>1, <3>1, GotoActs
    <2> QED  BY <2>2, <2>3
  <1>4. CASE Cast!SetActive(w)
    BY <1>4, <1>a, GotoActs DEF Cast!SetActive
  <1>5. CASE Cast!NextRecipient(w)
    <2>1. runner[w].pc \in CopyStages /\ row' = row /\ \E stage : Cast!Goto(w, stage)
      BY <1>5, <1>a DEF Cast!NextRecipient, Cast!redis
    <2> QED  BY <2>1, GotoActs
  <1>6. CASE Cast!CheckCancelled(w)
    <2> DEFINE r == [runner[w] EXCEPT !.pc = "drop", !.status = "cancelled"]
    <2>1. /\ runner[w].pc \in CopyStages /\ row' = row
          /\ Cast!Goto(w, "send") \/ runner' = [runner EXCEPT ![w] = r]
      BY <1>6, <1>a DEF Cast!CheckCancelled, Cast!Set, Cast!redis
    <2>2. r.job = runner[w].job  BY <1>0 DEF Cast!RunnerState
    <2> HIDE DEF r
    <2>3. CASE Cast!Goto(w, "send")  BY <2>1, <2>3, GotoActs
    <2>4. CASE runner' = [runner EXCEPT ![w] = r]  BY <2>1, <2>2, <2>4, ActsMeans
    <2> QED  BY <2>1, <2>3, <2>4
  <1>7. CASE Cast!SaveCancelled(w)
    <2>1. /\ runner[w].pc \in CopyStages /\ Cast!Goto(w, "final")
          /\ \E q : row' = [row EXCEPT ![runner[w].job] = q]
      BY <1>7, <1>a DEF Cast!SaveCancelled, Cast!Save
    <2> QED  BY <2>1, GotoActs
  <1> QED  BY <1>1, <1>2, <1>3, <1>4, <1>5, <1>6, <1>7

LEMMA GoesActs ==
    ASSUME CastInv, NEW w \in Worker,
           \/ Cast!Send(w) \/ Cast!RenewGet(w) \/ Cast!RenewSet(w) \/ Cast!Flush(w)
           \/ Cast!ReadFinal(w) \/ Cast!SaveFinal(w) \/ Cast!ClearActive(w)
           \/ Cast!SaveFailed(w) \/ Cast!ClearFailed(w) \/ Cast!UnlockGet(w) \/ Cast!UnlockDel(w)
           \/ Cast!Throws(w) \/ Cast!Die(w)
    PROVE  Acts(w)
  <1> USE DEF Cast!At
  <1>0. runner[w] \in Cast!RunnerState  BY CastRunner
  <1>a. /\ {"idle", "lock", "load", "failClear", "unlock", "unlockDel"} \cap CopyStages = {}
        /\ {"send", "renew", "renewSet", "flush", "final", "save", "clear", "failSave", "head"} \subseteq CopyStages
    BY DEF CopyStages, Cast!Trying
  <1>b. Cast!Idle.pc = "idle" /\ Cast!Idle.job = NoOne  BY DEF Cast!Idle
  <1>c. ASSUME runner' = [runner EXCEPT ![w] = Cast!Idle], row' = row PROVE Acts(w)
    BY <1>a, <1>b, <1>c, ActsMeans
  <1>1. CASE Cast!Send(w)
    <2>1. PICK stage : /\ row' = row
                       /\ Cast!Set(w, [runner[w] EXCEPT !.pc = stage, !.cursor = @ + 1, !.flush = @ + 1,
                                                        !.check = (@ + 1) % FlushEvery])
      BY <1>1 DEF Cast!Send, Cast!redis
    <2> DEFINE r == [runner[w] EXCEPT !.pc = stage, !.cursor = @ + 1, !.flush = @ + 1,
                                      !.check = (@ + 1) % FlushEvery]
    <2>2. r.job = runner[w].job  BY <1>0 DEF Cast!RunnerState
    <2>3. runner' = [runner EXCEPT ![w] = r] /\ runner[w].pc \in CopyStages
      BY <1>1, <1>a, <2>1 DEF Cast!Set, Cast!Send
    <2> HIDE DEF r
    <2> QED  BY <2>1, <2>2, <2>3, ActsMeans
  <1>2. CASE Cast!RenewGet(w) \/ Cast!RenewSet(w)
    <2>1. runner[w].pc \in CopyStages /\ row' = row /\ \E stage : Cast!Goto(w, stage)
      BY <1>2, <1>a DEF Cast!RenewGet, Cast!RenewSet, Cast!redis
    <2> QED  BY <2>1, GotoActs
  <1>3. CASE Cast!Flush(w)
    <2>1. runner[w].pc \in CopyStages  BY <1>3, <1>a DEF Cast!Flush
    <2>2. CASE Cast!FlushDue(runner[w])
      <3> DEFINE r == [runner[w] EXCEPT !.pc = "head", !.flush = 0]
      <3>1. r.job = runner[w].job  BY <1>0 DEF Cast!RunnerState
      <3>2. /\ \E q : row' = [row EXCEPT ![runner[w].job] = q]
            /\ runner' = [runner EXCEPT ![w] = r]
        BY <1>3, <2>2 DEF Cast!Flush, Cast!Set, Cast!Save
      <3> HIDE DEF r
      <3> QED  BY <2>1, <3>1, <3>2, ActsMeans
    <2>3. CASE ~Cast!FlushDue(runner[w])
      <3>1. Cast!Goto(w, "head") /\ row' = row  BY <1>3, <2>3 DEF Cast!Flush
      <3> QED  BY <2>1, <3>1, GotoActs
    <2> QED  BY <2>2, <2>3
  <1>4. CASE Cast!ReadFinal(w)
    <2>1. runner[w].pc \in CopyStages /\ row' = row  BY <1>4, <1>a DEF Cast!ReadFinal, Cast!redis
    <2>2. \/ \E says : runner' = [runner EXCEPT ![w] = [runner[w] EXCEPT !.pc = "save", !.status = says]]
          \/ Cast!Goto(w, "clear")
      BY <1>4 DEF Cast!ReadFinal, Cast!Set
    <2>3. CASE Cast!Goto(w, "clear")  BY <2>1, <2>3, GotoActs
    <2>4. ASSUME NEW says,
                 runner' = [runner EXCEPT ![w] = [runner[w] EXCEPT !.pc = "save", !.status = says]]
          PROVE  Acts(w)
      <3> DEFINE r == [runner[w] EXCEPT !.pc = "save", !.status = says]
      <3>1. r.job = runner[w].job /\ runner' = [runner EXCEPT ![w] = r]
        BY <1>0, <2>4 DEF Cast!RunnerState
      <3> HIDE DEF r
      <3> QED  BY <2>1, <3>1, ActsMeans
    <2> QED  BY <2>2, <2>3, <2>4
  <1>5. CASE Cast!SaveFinal(w) \/ Cast!SaveFailed(w)
    <2>1. /\ runner[w].pc \in CopyStages /\ \E q : row' = [row EXCEPT ![runner[w].job] = q]
          /\ \E stage : Cast!Goto(w, stage)
      BY <1>5, <1>a DEF Cast!SaveFinal, Cast!SaveFailed, Cast!Save
    <2> QED  BY <2>1, GotoActs
  <1>6. CASE Cast!ClearActive(w) \/ Cast!ClearFailed(w)
    <2>1. row' = row /\ Cast!Goto(w, "unlock")
      BY <1>6 DEF Cast!ClearActive, Cast!ClearFailed
    <2> QED  BY <1>a, <2>1, GotoActs
  <1>7. CASE Cast!UnlockGet(w)
    <2>1. row' = row /\ (Cast!Goto(w, "unlockDel") \/ runner' = [runner EXCEPT ![w] = Cast!Idle])
      BY <1>7 DEF Cast!UnlockGet, Cast!Set, Cast!redis
    <2> QED  BY <1>a, <1>c, <2>1, GotoActs
  <1>8. CASE Cast!UnlockDel(w) \/ Cast!Die(w)
    BY <1>8, <1>c DEF Cast!UnlockDel, Cast!Die, Cast!Set, Cast!redis
  <1>9. CASE Cast!Throws(w)
    <2>1. /\ row' = row
          /\ \/ runner[w].pc \in Cast!Trying /\ Cast!Goto(w, "failSave")
             \/ Cast!Goto(w, "unlock")
             \/ runner' = [runner EXCEPT ![w] = Cast!Idle]
      BY <1>9 DEF Cast!Throws, Cast!Set, Cast!redis
    <2>2. Cast!Trying \subseteq CopyStages  BY DEF CopyStages
    <2> QED  BY <1>a, <1>c, <2>1, <2>2, GotoActs
  <1> QED  BY <1>1, <1>2, <1>3, <1>4, <1>5, <1>6, <1>7, <1>8, <1>9

LEMMA LaidStays ==
    ASSUME CastInv, [Cast!Next]_broadcastVars, NEW j \in Cast!Job, Laid(j) PROVE Laid(j)'
  <1>0. /\ DOMAIN row = Cast!Job /\ DOMAIN runner = Worker /\ NoOne \notin Cast!Job
    BY CastConstants DEF CastInv
  <1>1. ASSUME NEW w \in Worker, Acts(w) PROVE Laid(j)'
    <2>1. PICK r : /\ runner' = [runner EXCEPT ![w] = r] /\ r.job \in {runner[w].job, NoOne}
                   /\ r.pc \in CopyStages =>
                         \/ runner[w].pc \in CopyStages
                         \/ r.job = runner[w].job /\ row[r.job].status # "cancelled"
      BY <1>1, Zenon DEF Acts
    <2>2. r.pc \in CopyStages => r.job # j  BY <1>0, <2>1 DEF Laid
    <2>3. \A v \in Worker : runner'[v].pc \in CopyStages => runner'[v].job # j
      BY <1>0, <2>1, <2>2 DEF Laid
    <2>4. row'[j] = row[j]
      BY <1>0, <1>1 DEF Acts, Laid
    <2> QED  BY <2>3, <2>4 DEF Laid
  <1>2. ASSUME UNCHANGED <<row, runner>> PROVE Laid(j)'
    BY <1>2 DEF Laid
  <1>3. ASSUME NEW w \in Worker, Cast!Tick(w) PROVE Laid(j)'
    <2> DEFINE r == [Cast!Idle EXCEPT !.pc = "lock", !.job = Cast!FindNext]
    <2>1. runner' = [runner EXCEPT ![w] = r] /\ row' = row
      BY <1>3 DEF Cast!Tick, Cast!Set, Cast!redis
    <2>2. r.pc \notin CopyStages  BY DEF Cast!Idle, CopyStages, Cast!Trying
    <2> HIDE DEF r
    <2> QED  BY <1>0, <2>1, <2>2 DEF Laid
  <1>4. ASSUME NEW w \in Worker, Cast!Step(w) \/ Cast!Throws(w) \/ Cast!Die(w) PROVE Laid(j)'
    BY <1>1, <1>4, OpensActs, GoesActs DEF Cast!Step
  <1>5. ASSUME NEW w \in Worker, Cast!Stop(w) \/ Cast!Restart(w) PROVE Laid(j)'
    BY <1>2, <1>5 DEF Cast!Stop, Cast!Restart, Cast!redis
  <1>6. ASSUME NEW i \in Cast!Job, Cast!Expire(i) \/ Cast!CancelGet(i) PROVE Laid(j)'
    BY <1>2, <1>6 DEF Cast!Expire, Cast!CancelGet, Cast!redis
  <1>7. ASSUME NEW i \in Cast!Job, Cast!Create(i) PROVE Laid(j)'
    <2>1. i # j /\ row' = [row EXCEPT ![i] = [status |-> "pending", cursor |-> 0]] /\ runner' = runner
      BY <1>7 DEF Cast!Create, Laid
    <2>2. row'[j] = row[j]  BY <1>0, <2>1
    <2> QED  BY <2>1, <2>2 DEF Laid
  <1>8. CASE Cast!CancelSet
    <2>1. /\ row' = [row EXCEPT ![admin.job] = [status |-> "cancelled", cursor |-> admin.cursor]]
          /\ runner' = runner
      BY <1>8 DEF Cast!CancelSet
    <2>2. row'[j].status = "cancelled"  BY <1>0, <2>1 DEF Laid
    <2> QED  BY <2>1, <2>2 DEF Laid
  <1>9. CASE Cast!CancelActiveGet \/ Cast!CancelActiveDel
    BY <1>2, <1>9 DEF Cast!CancelActiveGet, Cast!CancelActiveDel, Cast!redis
  <1>10. CASE UNCHANGED broadcastVars
    BY <1>2, <1>10 DEF broadcastVars
  <1> QED  BY <1>3, <1>4, <1>5, <1>6, <1>7, <1>8, <1>9, <1>10 DEF Cast!Next, Cast!Cancel

-----------------------------------------------------------------------------
(* ControlRun                                                              *)

\* A step of the whole is one of the component that runs, and leaves the others.
LEMMA ControlSteps ==
    [ControlNext]_controlVars => /\ part' = part
                                 /\ [Cast!Next]_broadcastVars /\ [Ota!Next]_otaVars
                                 /\ [BotNext]_botVars /\ [SettingsNext]_settingsVars
                                 /\ [LoadNext]_loadVars
  <1> SUFFICES ASSUME [ControlNext]_controlVars
               PROVE  /\ part' = part
                      /\ [Cast!Next]_broadcastVars /\ [Ota!Next]_otaVars
                      /\ [BotNext]_botVars /\ [SettingsNext]_settingsVars
                      /\ [LoadNext]_loadVars
    OBVIOUS
  <1>1. CASE UNCHANGED controlVars  BY <1>1 DEF controlVars
  <1>2. CASE BroadcastNext
    <2>1. RestBroadcast  BY <1>2 DEF BroadcastNext
    <2>2. Cast!Next
      BY <1>2 DEF BroadcastNext, Cast!Next, Cast!Step, Cast!Cancel
    <2> QED  BY <2>1, <2>2 DEF RestBroadcast
  <1>3. CASE OtaNext
    <2>1. RestOta  BY <1>3 DEF OtaNext
    <2>2. Ota!Next  BY <1>3 DEF OtaNext, Ota!Next, Ota!Advance
    <2> QED  BY <2>1, <2>2 DEF RestOta
  <1>4. CASE BotsRun
    <2>1. RestBots  BY <1>4 DEF BotsRun
    <2>2. BotNext  BY <1>4 DEF BotsRun, BotNext, PollStep, EditStep
    <2> QED  BY <2>1, <2>2 DEF RestBots
  <1>5. CASE SettingsRun
    <2>1. RestSettings  BY <1>5 DEF SettingsRun
    <2>2. SettingsNext  BY <1>5 DEF SettingsRun, SettingsNext, PatchStep
    <2> QED  BY <2>1, <2>2 DEF RestSettings
  <1>6. CASE LoadRun
    <2>1. RestLoad  BY <1>6 DEF LoadRun
    <2>2. 1 \in Lane /\ 2 \in Lane  BY DEF Lane
    <2>3. LoadNext
      <3>1. ASSUME NEW n \in Node, NEW l \in Lane,
                   \/ Plan(n, l) \/ PlanFails(n, l) \/ Claim(n, l) \/ Shed(n, l)
                   \/ NotDue(n, l) \/ Heartbeat(n, l)
            PROVE  LoadNext
        BY <3>1 DEF LoadNext, Step
      <3>2. ASSUME NEW n \in Node, BeginPass(n) \/ TakeResumed(n)
            PROVE  LoadNext
        BY <2>2, <3>2 DEF LoadNext, Step
      <3>3. ASSUME NEW n \in Node,
                   KeepSnapshot(n) \/ Overlap(n) \/ ResumeBot(n) \/ Crash(n) \/ Start(n)
            PROVE  LoadNext
        BY <3>3 DEF LoadNext
      <3>4. CASE (\E table \in Weights : SetWeight(table)) \/ PauseBot \/ Expire
        BY <3>4 DEF LoadNext
      <3> QED  BY <1>6, <3>1, <3>2, <3>3, <3>4, Zenon DEF LoadRun
    <2> QED  BY <2>1, <2>3 DEF RestLoad
  <1> QED  BY <1>1, <1>2, <1>3, <1>4, <1>5, <1>6 DEF ControlNext

ControlInv == CastInv /\ RepeatInv /\ OtaInv /\ BotsInv /\ SettingsInv /\ LoadInv

LEMMA ControlStart == ControlInit => ControlInv
  BY CastStart, RepeatStart, OtaStart, BotStart, SettingsStart, LoadStart DEF ControlInit, ControlInv

LEMMA ControlStep == ControlInv /\ [ControlNext]_controlVars => ControlInv'
  BY ControlSteps, CastStep, RepeatStep, OtaStep, BotStep, SettingsStep, LoadStep DEF ControlInv

LEMMA ControlInvariant == ControlSpec => []ControlInv
  BY ControlStart, ControlStep, PTL DEF ControlSpec

\* The rows, keys, files, processes and requests of every component keep their
\* types.
THEOREM ControlTypes == ControlSpec => []TypeOK
  <1>1. ControlInv => TypeOK
    BY CastTyped DEF ControlInv, OtaInv, BotsInv, BotTypes, SettingsInv, SettingsTypes, TypeOK
  <1> QED  BY <1>1, ControlInvariant, PTL

\* A broadcast that is reported as completed was sent to every recipient,
\* whatever runners, crashes, errors and cancellations wrote its row meanwhile.
THEOREM CompletedReached == ControlSpec => []CompletedReachedAll
  <1>1. ControlInv => CompletedReachedAll
    BY CastTyped DEF ControlInv, CompletedReachedAll
  <1> QED  BY <1>1, ControlInvariant, PTL

\* However runners, locks, crashes and cancellations meet, as long as the lock of
\* a broadcast is not lost under its runner, the sends repeated to its recipients
\* are at most those one flush may lag behind, once for each runner that ended
\* without writing its copy back.
THEOREM RepeatsAllowed == ControlSpec => []RepeatsBounded
  <1>1. ControlInv => RepeatsBounded
    BY RepeatHolds DEF ControlInv, RepeatsBounded
  <1> QED  BY <1>1, ControlInvariant, PTL

\* A node that says it is done with the version of its stamp runs that version,
\* whole, unless an attempt at another one was cut short.
THEOREM DoneWhole == ControlSpec => []DoneIsWhole
  <1>1. OtaInv => Ota!DoneIsWhole
    BY DEF OtaInv, DoneTold, TreeWhole, DepsMatch, SaysDone, Updating, Ota!DoneIsWhole, Ota!AtOta
  <1>2. ControlInv => DoneIsWhole  BY <1>1 DEF ControlInv, DoneIsWhole
  <1> QED  BY <1>2, ControlInvariant, PTL

\* Whatever weights, heartbeats and numbers of bots a node plans from, its plan
\* leaves no bot without a place while a node of it has room, overfills none and
\* divides by weight, to the rounding; and a node holds more bots than it has room
\* for only if two of its passes, or a pass and a resumed bot, computed their slots
\* before either had claimed; never do all of them hold more than there are.
THEOREM PlansSound == ControlSpec => []PlanSound
  <1>1. ControlInv => PlanSound
    BY LoadSays DEF ControlInv
  <1> QED  BY <1>1, ControlInvariant, PTL

\* A cancellation that meets no runner with a copy of the broadcast sticks: nothing
\* takes the row out of "cancelled" again, and no runner takes the job up.  (With a
\* runner at work it need not: what the runner has read is written back.)
THEOREM CancelledStays == ASSUME NEW j \in Cast!Job PROVE ControlSpec => [](Laid(j) => []Laid(j))
  <1>1. ControlInv /\ Laid(j) /\ [ControlNext]_controlVars => Laid(j)'
    BY ControlSteps, LaidStays DEF ControlInv
  <1> QED  BY <1>1, ControlInvariant, PTL DEF ControlSpec

\* However reads of the view fail, requests break off and pollers die between two of
\* their writes, a cancellation that was heeded stays, and row, lists, credentials and
\* pollable set of a bot agree as far as BotsAgree says; and no patch of the settings
\* drops the edit of another it was not under way with.
THEOREM RecordsAgree == ControlSpec => [](BotsAgree /\ SettingsKept)
  <1>1. ControlInv => BotsAgree /\ SettingsKept
    BY BotsSay DEF ControlInv, SettingsInv
  <1> QED  BY <1>1, ControlInvariant, PTL
=============================================================================
