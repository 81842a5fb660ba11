------------------------------ MODULE OtaApply ------------------------------
(***************************************************************************)
(* The self-update of a node (ota-apply.ts, ota-repos.ts, the start of     *)
(* worker.ts's reconcile pass, the release and update routes).  An         *)
(* administrator publishes a release and leaves a job for the node under   *)
(* one key and its state under another; the node takes the job in its      *)
(* reconcile pass, copies the files that differ, stamps its tree with the  *)
(* version, installs dependencies, and exits for its supervisor to start   *)
(* it again.  It runs the version of the stamp.                            *)
(*                                                                         *)
(* One node; the content of a file is the version it came with.  Release   *)
(* versions keep their content; progress counters, times, the backup       *)
(* (never read) and staging (private to an attempt) are left out, and so   *)
(* are the keys' expiry (half an hour) and the node's fence (BotFleet).    *)
(***************************************************************************)
EXTENDS Naturals, FiniteSets

CONSTANTS
    Versions, Files,
    Shipped,      \* the version the node was installed with
    Heavy,        \* releases that bring a package.json (requiresInstall)
    AllowInstall, \* OTA_ALLOW_INSTALL
    MaxJobs,      \* bound: updates asked for
    MaxCrashes,   \* bound: crashes, and exits of the process for other reasons
    Nothing

VARIABLES
    released,  \* K.releaseMeta: versions published
    current,   \* K.releaseCurrent
    jobKey,    \* K.workerUpdate
    status,    \* K.workerUpdateStatus
    queueing,  \* requests between their two writes
    tree,      \* the files of the node
    stamp,     \* .wa-version
    deps,      \* the version whose dependencies are installed
    proc,      \* the process: where it is, the version it runs, its job
    asked, fallen,
    cut,       \* history: versions whose files were left half copied
    thrown     \* history: an attempt failed

otaVars == <<released, current, jobKey, status, queueing, tree, stamp, deps,
             proc, asked, fallen, cut, thrown>>
Redis == <<released, current, jobKey, status, queueing, asked>>
Disk == <<tree, stamp, deps, cut, thrown>>

Phases == {"pending", "downloading", "applying", "installing", "restarting",
           "done", "failed"}
Unfinished == Phases \ {"done", "failed"}
Working == {"noop", "clearskip", "fetch", "stage", "copy", "install", "pnpm", "restart", "clear",
            "exit", "fail"}
OtaJobs == [version : Versions, force : BOOLEAN]
Statuses == [version : Versions, phase : Phases]

OtaAssumption ==
    /\ Shipped \in Versions /\ Heavy \subseteq Versions
    /\ Nothing \notin Versions \cup OtaJobs \cup Statuses
    /\ AllowInstall \in BOOLEAN /\ MaxJobs \in Nat /\ MaxCrashes \in Nat
-----------------------------------------------------------------------------
Init ==
    /\ released = {} /\ current = Nothing
    /\ jobKey = Nothing /\ status = Nothing /\ queueing = {}
    /\ tree = [f \in Files |-> Shipped] /\ stamp = Shipped /\ deps = Shipped
    /\ proc = [at |-> "boot", runs |-> Shipped, job |-> Nothing]
    /\ asked = 0 /\ fallen = 0 /\ cut = {} /\ thrown = FALSE

Tell(v, phase) == status' = [version |-> v, phase |-> phase]
AtOta(at) == proc.at = at
To(at) == proc' = [proc EXCEPT !.at = at]
NoAdmin == UNCHANGED <<released, current, queueing, asked>>
NoJob(at) == proc' = [proc EXCEPT !.at = at, !.job = Nothing]

(* POST releases, its writes in one; POST releases/current.                *)
Publish(v, makeCurrent) ==
    /\ v \notin released
    /\ released' = released \cup {v}
    /\ current' = IF makeCurrent THEN v ELSE current
    /\ UNCHANGED <<jobKey, status, queueing, asked, Disk, proc, fallen>>

SetCurrent(v) ==
    /\ v \in released /\ current' = v /\ current # v
    /\ UNCHANGED <<released, jobKey, status, queueing, asked, Disk, proc, fallen>>

(* POST nodes/:id/update, or update-outdated, which passes over a node     *)
(* that is down or, unless forced, on the version: the job, then its       *)
(* status.                                                                 *)
Outdated(v, force) == ~AtOta("boot") /\ (force \/ proc.runs # v)
Enqueue(v, force) ==
    /\ asked < MaxJobs /\ v \in released
    /\ jobKey' = [version |-> v, force |-> force]
    /\ queueing' = queueing \cup {v}
    /\ asked' = asked + 1
    /\ UNCHANGED <<released, current, status, Disk, proc, fallen>>

UpdateOutdated(v, force) == Outdated(v, force) /\ Enqueue(v, force)

Queued(v) ==
    /\ v \in queueing
    /\ queueing' = queueing \ {v}
    /\ Tell(v, "pending")
    /\ UNCHANGED <<released, current, jobKey, asked, Disk, proc, fallen>>

(* The process starts, with the version of the stamp; start reads the      *)
(* status (markOtaDoneIfMatched) and, if it is of an update to this        *)
(* version, writes it back as done, then deletes the job.                  *)
Boot ==
    /\ AtOta("boot")
    /\ proc' = [at |-> IF status # Nothing /\ status.version = stamp
                          /\ status.phase \in Unfinished THEN "mark" ELSE "idle",
                runs |-> stamp, job |-> Nothing]
    /\ UNCHANGED <<Redis, Disk, fallen>>

MarkDone ==
    /\ AtOta("mark")
    /\ Tell(proc.runs, "done")
    /\ To("clearmark")
    /\ UNCHANGED <<jobKey, Disk, fallen>> /\ NoAdmin

ClearMarked ==
    /\ proc.at \in {"clearmark", "clearskip"}
    /\ jobKey' = Nothing
    /\ To("idle")
    /\ UNCHANGED <<status, Disk, fallen>> /\ NoAdmin

(* A reconcile pass finds the job.                                         *)
Take ==
    /\ AtOta("idle") /\ jobKey # Nothing
    /\ proc' = [proc EXCEPT !.job = jobKey,
                  !.at = IF ~jobKey.force /\ jobKey.version = proc.runs THEN "noop" ELSE "fetch"]
    /\ UNCHANGED <<Redis, Disk, fallen>>

SkipDone ==
    /\ AtOta("noop")
    /\ Tell(proc.job.version, "done")
    /\ To("clearskip")
    /\ UNCHANGED <<jobKey, Disk, fallen>> /\ NoAdmin

(* The release is read, the tree scanned and what differs downloaded.      *)
Needed(v) == {f \in Files : tree[f] # v}
RequiresInstall(v) == v \in Heavy
Fetch ==
    /\ AtOta("fetch")
    /\ Tell(proc.job.version, "downloading")
    /\ To("stage")
    /\ UNCHANGED <<jobKey, Disk, fallen>> /\ NoAdmin

Stage ==
    /\ AtOta("stage")
    /\ Tell(proc.job.version, "applying")
    /\ To("copy")
    /\ UNCHANGED <<jobKey, Disk, fallen>> /\ NoAdmin

(* One file after the other, and after the last the stamp.                 *)
\* Faulty form: a file that cannot be copied is passed over.
ReadyAfterFirst(v) == \E f \in Files : tree[f] = v
ReadyToStamp(v) == Needed(v) = {}
Copy(f) ==
    /\ AtOta("copy") /\ f \in Needed(proc.job.version)
    /\ tree' = [tree EXCEPT ![f] = proc.job.version]
    /\ UNCHANGED <<Redis, stamp, deps, cut, thrown, proc, fallen>>

Stamp ==
    /\ AtOta("copy") /\ ReadyToStamp(proc.job.version)
    /\ stamp' = proc.job.version
    /\ To("install")
    /\ cut' = cut \ {proc.job.version}
    /\ UNCHANGED <<Redis, tree, deps, thrown, fallen>>

(* pnpm install, when the release asks for it; then the node announces its *)
(* restart, deletes whatever job is there and exits (worker.ts releases    *)
(* its leases before).                                                     *)
Install ==
    /\ AtOta("install")
    /\ IF RequiresInstall(proc.job.version)
       THEN AllowInstall /\ Tell(proc.job.version, "installing") /\ To("pnpm")
       ELSE To("restart") /\ UNCHANGED status
    /\ UNCHANGED <<jobKey, Disk, fallen>> /\ NoAdmin

Installed ==
    /\ AtOta("pnpm")
    /\ deps' = proc.job.version
    /\ To("restart")
    /\ UNCHANGED <<Redis, tree, stamp, cut, thrown, fallen>>

Restarting ==
    /\ AtOta("restart")
    /\ Tell(proc.job.version, "restarting")
    /\ To("clear")
    /\ UNCHANGED <<jobKey, Disk, fallen>> /\ NoAdmin

ClearJob ==
    /\ AtOta("clear")
    /\ jobKey' = Nothing
    /\ To("exit")
    /\ UNCHANGED <<status, Disk, fallen>> /\ NoAdmin

Exit ==
    /\ AtOta("exit")
    /\ NoJob("boot")
    /\ UNCHANGED <<Redis, Disk, fallen>>

(* Any step may throw: Redis fails, a release or blob is missing, a file   *)
(* cannot be written, an install fails or is not allowed.  What is done    *)
(* before the exit catches its own errors.                                 *)
Cut == IF AtOta("copy") /\ Needed(proc.job.version) # Files
       THEN cut \cup {proc.job.version} ELSE cut
Throw ==
    /\ proc.at \in Working \ {"exit", "fail"}
    /\ cut' = Cut /\ thrown' = TRUE
    /\ To("fail")
    /\ UNCHANGED <<Redis, tree, stamp, deps, fallen>>

\* Faulty form: the job stays, to be tried again.
AfterFailureAgain == "idle"
AfterFailure == "clearmark"
Fail ==
    /\ AtOta("fail")
    /\ Tell(proc.job.version, "failed")
    /\ To(AfterFailure)
    /\ UNCHANGED <<jobKey, Disk, fallen>> /\ NoAdmin

(* A call that marks a job done or failed, or deletes it then, fails too,  *)
(* which is caught and forgotten; counted with the crashes.                *)
Refused ==
    /\ fallen < MaxCrashes
    /\ fallen' = fallen + 1
    /\ \/ proc.at \in {"mark", "clearmark"} /\ To("idle")
       \/ AtOta("fail") /\ To(AfterFailure)
    /\ UNCHANGED <<Redis, Disk>>

Crash ==
    /\ fallen < MaxCrashes /\ ~AtOta("boot")
    /\ fallen' = fallen + 1
    /\ cut' = Cut
    /\ NoJob("boot")
    /\ UNCHANGED <<Redis, tree, stamp, deps, thrown>>

Advance ==
    \/ Boot \/ MarkDone \/ ClearMarked \/ Take \/ SkipDone \/ Fetch \/ Stage
    \/ (\E f \in Files : Copy(f)) \/ Stamp \/ Install \/ Installed
    \/ Restarting \/ ClearJob \/ Exit \/ Fail

Next ==
    \/ Advance \/ Throw \/ Refused \/ Crash
    \/ \E v \in Versions : \/ SetCurrent(v) \/ Queued(v)
                           \/ \E b \in BOOLEAN : Publish(v, b) \/ Enqueue(v, b) \/ UpdateOutdated(v, b)

OtaFairness == WF_otaVars(Advance)
Spec == Init /\ [][Next]_otaVars /\ OtaFairness
-----------------------------------------------------------------------------
(* Type invariant.                                                         *)
OtaTypeOK ==
    /\ released \subseteq Versions /\ current \in Versions \cup {Nothing}
    /\ jobKey \in OtaJobs \cup {Nothing} /\ proc.job \in OtaJobs \cup {Nothing}
    /\ status \in Statuses \cup {Nothing}
    /\ queueing \subseteq Versions /\ cut \subseteq Versions
    /\ tree \in [Files -> Versions] /\ {stamp, deps, proc.runs} \subseteq Versions
    /\ proc.at \in Working \cup {"boot", "idle", "mark", "clearmark"}
    /\ asked \in 0..MaxJobs /\ fallen \in 0..MaxCrashes /\ thrown \in BOOLEAN

(* When the status of a node says done and its stamp agrees, the node runs *)
(* that version and its tree is that version, whole, whatever crashes and  *)
(* failures came between, unless an attempt at a DIFFERENT version was cut *)
(* short while it copied (ota-apply.ts:349, worker.ts:1619); and where     *)
(* nothing crashed or failed its dependencies were installed too.          *)
DoneIsWhole ==
    status # Nothing /\ status.phase = "done" /\ stamp = status.version =>
      /\ proc.runs = stamp \/ AtOta("boot")
      /\ cut \subseteq {stamp} => \A f \in Files : tree[f] = stamp
      /\ fallen = 0 /\ ~thrown /\ stamp \in Heavy => deps = stamp

(* A job does not stay: the node takes it, and finishes it, fails it or    *)
(* (ota-repos.ts:370) deletes it together with an earlier one.             *)
JobEnds == []<>(jobKey = Nothing)
=============================================================================
