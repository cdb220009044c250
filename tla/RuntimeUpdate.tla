---------------------------- MODULE RuntimeUpdate ----------------------------
(***************************************************************************)
(* The managed Aera Runtime on this computer: the pointer journal of       *)
(* src/main/agentera-runtime-distribution/state-store.ts, the bootstrap    *)
(* that runs before the application (bootstrap.ts), the update manager     *)
(* (manager.ts) and the packaged-Seed installer (seed-installer.ts), which *)
(* writes the same journal through a store of its own.                     *)
(*                                                                         *)
(* A Runtime version is the number of its directory under versions/; every *)
(* extraction gets a directory of its own.  One pointer is replaced        *)
(* atomically, several are not: each pointer write is a step, and the      *)
(* process can die between any two.  current, previous, candidate,         *)
(* approved (its applyOnNextLaunch), failure (the last-failure record),    *)
(* versions and damaged are on disk; proven, seeds, asked, rejected, died  *)
(* and misread are history variables, which no step asks; the others are   *)
(* the process's memory.                                                   *)
(***************************************************************************)
EXTENDS Naturals

CONSTANTS MaxDirs,    \* bound: version directories ever created
          MaxCrashes, \* bound: process deaths
          MaxDamage,  \* bound: installed versions lost or altered from outside
          MaxFaults   \* bound: double faults (see RareFault)

ASSUME BoundsAssumption ==
  MaxDirs \in Nat /\ MaxCrashes \in Nat /\ MaxDamage \in Nat /\ MaxFaults \in Nat

VARIABLES
  current, previous, candidate, approved,
  failure, versions, damaged,
  used,      \* directories created so far
  step,      \* "off", the step the bootstrap is at, or "up"
  op,        \* the manager's operation in progress (its queue runs one)
  held,      \* the version that operation, or the bootstrap, works on
  caller,    \* who asked for the repair in progress
  shown,     \* the manager's cached phase; "none" before it is initialized
  offer,     \* the manager holds an update offer
  observed,  \* the current pointer the manager saw last
  offline,   \* no checks for the rest of the launch (packagedSeedVersion)
  welcome,   \* the start-install request of the welcome screen
  fresh,     \* the directory each installer has published
  proven, seeds, asked,
  rejected,  \* the version a launch rejected last, and nobody asked for since
  died,      \* the step at which the process died while it rejected it
  misread,   \* versions that were usable when pointerIsUsable said no
  crashes, damage, faults

journal  == <<current, previous, candidate, approved>>
disk     == <<failure, versions, damaged, used>>
manager  == <<op, held, caller, shown, offer, observed, offline>>
installs == <<welcome, fresh>>
history  == <<proven, seeds, asked, rejected, died, misread>>
bounds   == <<crashes, damage, faults>>
vars == <<journal, disk, step, manager, installs, history, bounds>>

Dirs       == 1..MaxDirs
None       == 0
Installers == {"welcome", "repair"}

BootSteps == {"dropCurrent", "dropPrevious", "dropCandidate", "baseline",
              "rollCurrent", "rollPrevious", "rollCandidate", "clearCurrent",
              "clearPrevious", "candidate", "suppress", "record",
              "keepCurrent", "promote", "discard"}
Operations == {"idle", "download", "restart", "relaunch", "repairClear",
               "repairRemove", "install"}
Phases     == {"none", "missing", "current", "ready", "rollback", "available",
               "repair"}

-----------------------------------------------------------------------------
(* The journal. *)

\* A pointer parses: there is none, or its directory exists.
Valid(d)     == d = None \/ d \in versions
JournalValid == Valid(current) /\ Valid(previous) /\ Valid(candidate)

\* Signature, layout and the whole inventory verify.
Usable(d) == d \in versions \ damaged

ClearCandidate == candidate' = None /\ approved' = FALSE

\* A second failure while the first is handled, or a pointer that was renamed
\* into place before its write failed, at the sync of the directory.
RareFault == faults < MaxFaults /\ faults' = faults + 1

-----------------------------------------------------------------------------
(* The process: launch, death, damage from outside. *)

Exit ==
  /\ step' = "off"
  /\ op' = "idle" /\ held' = None /\ caller' = "settings"
  /\ shown' = "none" /\ offer' = FALSE /\ observed' = None
  /\ offline' = FALSE /\ welcome' = "idle"
  /\ fresh' = [i \in Installers |-> None]

Launch ==
  /\ step = "off"
  /\ step' = "dropCurrent"
  /\ UNCHANGED <<journal, disk, manager, installs, history, bounds>>

\* The user quits, also in the middle of a download or an installation.
Quit ==
  /\ step = "up"
  /\ Exit
  /\ UNCHANGED <<journal, disk, history, bounds>>

\* The process dies while the bootstrap is at work; once the application is
\* up, a death leaves what Quit leaves.
Crash ==
  /\ step \in BootSteps /\ crashes < MaxCrashes
  /\ crashes' = crashes + 1
  /\ died' = IF step \in {"suppress", "record"} THEN step ELSE died
  /\ Exit
  /\ UNCHANGED <<journal, disk, proven, seeds, asked, rejected, misread, damage,
                 faults>>

\* An installed version is altered or disappears between two bootstraps.
Damage(d) ==
  /\ step \in {"off", "up"} /\ damage < MaxDamage
  /\ d \in {current, previous, candidate} \cap versions
  /\ damage' = damage + 1
  /\ \/ damaged' = damaged \cup {d} /\ versions' = versions
     \/ versions' = versions \ {d} /\ damaged' = damaged
  /\ UNCHANGED <<journal, failure, used, step, manager, installs, history,
                 crashes, faults>>

-----------------------------------------------------------------------------
(* bootstrapRuntimeDistribution. *)

At(s) == step = s
Go(s) == step' = s

\* recoverForBootstrap drops pointers that do not parse, one by one.
DropCurrent ==
  /\ At("dropCurrent") /\ Go("dropPrevious")
  /\ current' = IF Valid(current) THEN current ELSE None
  /\ UNCHANGED <<previous, candidate, approved, disk, manager, installs,
                 history, bounds>>
DropPrevious ==
  /\ At("dropPrevious") /\ Go("dropCandidate")
  /\ previous' = IF Valid(previous) THEN previous ELSE None
  /\ UNCHANGED <<current, candidate, approved, disk, manager, installs,
                 history, bounds>>
DropCandidate ==
  /\ At("dropCandidate") /\ Go("baseline")
  /\ IF Valid(candidate) THEN UNCHANGED <<candidate, approved>>
                         ELSE ClearCandidate
  /\ UNCHANGED <<current, previous, disk, manager, installs, history, bounds>>

\* pointerIsUsable takes every error for a no, also a passing one such as too
\* many open files: of the versions in S, those it was wrong about.
Misjudged(S) == {d \in S : Usable(d)}

\* Altered: previous is not looked at.
Baseline_NoFallback ==
  /\ At("baseline")
  /\ \/ Usable(current) /\ Go("candidate") /\ misread' = misread
     \/ Go("clearCurrent") /\ misread' = misread \cup Misjudged({current})
  /\ UNCHANGED <<journal, disk, manager, installs, proven, seeds, asked,
                 rejected, died, bounds>>

\* recoverUsableCurrent: keep current, fall back to previous, or give up both.
\* What verifies is usable; what is usable may all the same not verify.
Baseline ==
  /\ At("baseline")
  /\ \/ Usable(current) /\ Go("candidate") /\ misread' = misread
     \/ /\ Usable(previous) /\ Go("rollCurrent")
        /\ misread' = misread \cup Misjudged({current})
     \/ /\ Go("clearCurrent")
        /\ misread' = misread \cup Misjudged({current, previous})
  /\ UNCHANGED <<journal, disk, manager, installs, proven, seeds, asked,
                 rejected, died, bounds>>

\* RuntimeStateStore.rollback; held is the pointer current replaces.
RollCurrent ==
  /\ At("rollCurrent") /\ JournalValid /\ Go("rollPrevious")
  /\ held' = current
  /\ current' = previous
  /\ UNCHANGED <<previous, candidate, approved, disk, op, caller, shown, offer,
                 observed, offline, installs, history, bounds>>
RollPrevious ==
  /\ At("rollPrevious") /\ Valid(held) /\ Go("rollCandidate")
  /\ previous' = held
  /\ UNCHANGED <<current, candidate, approved, disk, manager, installs,
                 history, bounds>>
RollCandidate ==
  /\ At("rollCandidate") /\ Go("candidate")
  /\ ClearCandidate
  /\ held' = None
  /\ UNCHANGED <<current, previous, disk, op, caller, shown, offer, observed,
                 offline, installs, history, bounds>>

ClearCurrent ==
  /\ At("clearCurrent") /\ Go("clearPrevious")
  /\ current' = None
  /\ UNCHANGED <<previous, candidate, approved, disk, manager, installs,
                 history, bounds>>
ClearPrevious ==
  /\ At("clearPrevious") /\ Go("candidate")
  /\ previous' = None
  /\ UNCHANGED <<current, candidate, approved, disk, manager, installs,
                 history, bounds>>

NoCandidate ==
  /\ At("candidate") /\ ~approved /\ Go("up")
  /\ UNCHANGED <<journal, disk, manager, installs, history, bounds>>

\* The candidate does not verify, or fails its isolated health check.
RejectCandidate ==
  /\ At("candidate") /\ approved /\ Go("suppress")
  /\ held' = candidate
  /\ rejected' = candidate /\ died' = "none"
  /\ UNCHANGED <<journal, disk, op, caller, shown, offer, observed, offline,
                 installs, proven, seeds, asked, misread, bounds>>

\* Altered: the health check is left out.
AcceptCandidate_Unverified ==
  /\ At("candidate") /\ approved /\ Go("keepCurrent")
  /\ UNCHANGED <<journal, disk, manager, installs, history, bounds>>

AcceptCandidate ==
  /\ At("candidate") /\ approved /\ Usable(candidate) /\ Go("keepCurrent")
  /\ proven' = proven \cup {candidate} /\ rejected' = None
  /\ UNCHANGED <<journal, disk, manager, installs, seeds, asked, died, misread,
                 bounds>>

\* Altered: the candidate is staged again as it was.
Suppress_AsItWas ==
  /\ At("suppress") /\ Go("record")
  /\ UNCHANGED <<journal, disk, manager, installs, history, bounds>>

\* suppressFailedCandidate: stage it unapproved, else remove the pointer; an
\* error of the removal is swallowed.
Suppress ==
  /\ At("suppress") /\ Go("record")
  /\ \/ Valid(candidate) /\ approved' = FALSE /\ UNCHANGED <<candidate, faults>>
     \/ ClearCandidate /\ faults' = faults
     \/ UNCHANGED <<candidate, approved>> /\ RareFault
  /\ UNCHANGED <<current, previous, disk, manager, installs, history, crashes,
                 damage>>

\* writeFailureRecord, whose errors are swallowed; the launch goes on.
Record ==
  /\ At("record") /\ Go("up")
  /\ \/ failure' = held /\ faults' = faults
     \/ failure' = failure /\ RareFault
  /\ held' = None
  /\ UNCHANGED <<journal, versions, damaged, used, op, caller, shown, offer,
                 observed, offline, installs, history, crashes, damage>>

\* Altered: a promotion that was interrupted is done all over.
KeepCurrent_Again ==
  /\ At("keepCurrent") /\ JournalValid /\ Go("promote")
  /\ previous' = IF current = None THEN previous ELSE current
  /\ UNCHANGED <<current, candidate, approved, disk, manager, installs,
                 history, bounds>>

\* promoteCandidate: previous takes over current unless the candidate already
\* is current, as after a death in the middle of a promotion.
KeepCurrent ==
  /\ At("keepCurrent") /\ JournalValid
  /\ \/ current = candidate /\ Go("discard") /\ previous' = previous
     \/ current # candidate /\ Go("promote")
        /\ previous' = IF current = None THEN previous ELSE current
  /\ UNCHANGED <<current, candidate, approved, disk, manager, installs,
                 history, bounds>>
Promote ==
  /\ At("promote") /\ Valid(candidate) /\ Go("discard")
  /\ current' = candidate
  /\ UNCHANGED <<previous, candidate, approved, disk, manager, installs,
                 history, bounds>>
Discard ==
  /\ At("discard") /\ Go("up")
  /\ ClearCandidate
  /\ UNCHANGED <<current, previous, disk, manager, installs, history, bounds>>

\* A read or write throws: the application starts with what is on disk.
BootThrows ==
  /\ step \in BootSteps \ {"suppress", "record"} /\ Go("up")
  /\ held' = None
  /\ UNCHANGED <<journal, disk, op, caller, shown, offer, observed, offline,
                 installs, history, bounds>>

Boot ==
  \/ DropCurrent \/ DropPrevious \/ DropCandidate \/ Baseline
  \/ RollCurrent \/ RollPrevious \/ RollCandidate
  \/ ClearCurrent \/ ClearPrevious
  \/ NoCandidate \/ RejectCandidate \/ AcceptCandidate
  \/ Suppress \/ Record \/ KeepCurrent \/ Promote \/ Discard
  \/ BootThrows

-----------------------------------------------------------------------------
(* createRuntimeDistributionManager: one operation at a time. *)

\* Altered: the failure record is not asked.
BasePhase_Unrecorded ==
  IF candidate # None /\ ~approved THEN "ready"
  ELSE IF current = None THEN "missing" ELSE "current"

\* createBaseState: what the journal and the failure record say.
BasePhase ==
  IF candidate # None /\ failure = candidate THEN "rollback"
  ELSE IF candidate # None /\ ~approved THEN "ready"
  ELSE IF current = None THEN "missing" ELSE "current"

Ready == step = "up" /\ op = "idle" /\ shown # "none"

Initialize ==
  /\ step = "up" /\ shown = "none" /\ JournalValid
  /\ shown' = BasePhase /\ observed' = current
  /\ UNCHANGED <<journal, disk, step, op, held, caller, offer, offline,
                 installs, history, bounds>>

Check ==
  /\ Ready /\ shown = "current" /\ ~offline
  /\ offer' \in BOOLEAN
  /\ shown' = IF offer' THEN "available" ELSE "current"
  /\ UNCHANGED <<journal, disk, step, op, held, caller, observed, offline,
                 installs, history, bounds>>

\* downloadConfirmed: the archive is verified and extracted, then renamed
\* into versions/.  Failures before that leave the journal alone.
PublishCandidate ==
  /\ Ready /\ shown = "available" /\ offer /\ used < MaxDirs
  /\ used' = used + 1 /\ held' = used + 1
  /\ versions' = versions \cup {used + 1}
  /\ op' = "download"
  /\ UNCHANGED <<journal, failure, damaged, step, caller, shown, offer,
                 observed, offline, installs, history, bounds>>

StageCandidate ==
  /\ op = "download" /\ held \in versions
  /\ candidate' = held /\ approved' = FALSE
  /\ failure' \in {failure, None}
  /\ shown' = "ready" /\ op' = "idle" /\ held' = None
  /\ UNCHANGED <<current, previous, versions, damaged, used, step, caller,
                 offer, observed, offline, installs, history, bounds>>

\* The pointer write fails, as a rule before the rename, and the published
\* directory is removed; an error of the removal is swallowed.
StageFails ==
  /\ op = "download"
  /\ \/ UNCHANGED <<candidate, approved, faults>>
     \/ candidate' = held /\ approved' = FALSE /\ RareFault
  /\ versions' \in {versions, versions \ {held}}
  /\ op' = "idle" /\ held' = None
  /\ UNCHANGED <<current, previous, failure, damaged, used, step, caller,
                 shown, offer, observed, offline, installs, history, crashes,
                 damage>>

\* restartToApply: reserve the transition and stop the Runtime (await), then
\* approve the candidate read before, then relaunch.
RequestRestart ==
  /\ Ready /\ JournalValid /\ candidate # None
  /\ op' = "restart" /\ held' = candidate
  /\ UNCHANGED <<journal, disk, step, caller, shown, offer, observed, offline,
                 installs, history, bounds>>
Approve ==
  /\ op = "restart" /\ Valid(held)
  /\ candidate' = held /\ approved' = TRUE
  /\ asked' = asked \cup {held} /\ rejected' = None /\ died' = "none"
  /\ op' = "relaunch"
  /\ UNCHANGED <<current, previous, disk, step, held, caller, shown, offer,
                 observed, offline, installs, proven, seeds, misread, bounds>>
RestartFails ==
  /\ op \in {"restart", "relaunch"}
  /\ op' = "idle" /\ held' = None
  /\ UNCHANGED <<journal, disk, step, caller, shown, offer, observed, offline,
                 installs, history, bounds>>
Relaunch ==
  /\ op = "relaunch"
  /\ Exit
  /\ UNCHANGED <<journal, disk, history, bounds>>

\* retryRepair answers with phase p; start-install judges by it whether the
\* Seed it installed is active.
Answer(who, p) ==
  /\ shown' = p /\ op' = "idle" /\ held' = None /\ caller' = "settings"
  /\ welcome' = IF who = "settings" THEN welcome
                ELSE IF p = "current" /\ current \in seeds THEN "done"
                ELSE "failed"

\* The versions retryRepair must not remove, as the journal names them.
\* Altered: current is forgotten.
Referenced_PreviousOnly == {previous}
Referenced == {current, previous}

Changed == observed # current

\* What retryRepair takes the phase to be once it has read the journal.
SyncedPhase == IF Changed THEN BasePhase ELSE shown

Discarding == SyncedPhase = "rollback" /\ candidate # None
Settled    == \/ Changed /\ current # None
              \/ SyncedPhase \notin {"missing", "repair", "rollback"}

RequestRepair(who) ==
  /\ Ready /\ JournalValid
  /\ who = "welcome" => welcome = "activated"
  /\ observed' = current
  /\ offer' = (offer /\ ~Changed)
  /\ offline' = (Changed \/ (offline /\ ~Discarding))
  /\ \/ /\ Discarding
        /\ op' = "repairClear" /\ shown' = SyncedPhase /\ caller' = who
        /\ held' = IF candidate \in Referenced THEN None ELSE candidate
        /\ UNCHANGED welcome
     \/ ~Discarding /\ Settled /\ Answer(who, SyncedPhase)
     \/ ~Discarding /\ ~Settled /\ Answer(who, "repair")
     \/ /\ ~Discarding /\ ~Settled
        /\ op' = "install" /\ shown' = SyncedPhase /\ caller' = who
        /\ UNCHANGED <<held, welcome>>
  /\ UNCHANGED <<journal, disk, step, fresh, history, bounds>>

\* The failed candidate and its record go first, then its directory.
RepairClear ==
  /\ op = "repairClear"
  /\ ClearCandidate
  /\ failure' = None
  /\ op' = "repairRemove"
  /\ UNCHANGED <<current, previous, versions, damaged, used, step, held, caller,
                 shown, offer, observed, offline, installs, history, bounds>>
RepairRemove ==
  /\ op = "repairRemove" /\ JournalValid
  /\ versions' \in {versions, versions \ {held}}
  /\ observed' = current /\ offer' = FALSE
  /\ \/ current # None /\ Answer(caller, BasePhase)
     \/ current = None /\ Answer(caller, "repair")
     \/ /\ current = None
        /\ op' = "install" /\ shown' = BasePhase /\ held' = None
        /\ UNCHANGED <<caller, welcome>>
  /\ UNCHANGED <<journal, failure, damaged, used, step, offline, fresh, history,
                 bounds>>

\* The Seed was installed, or a managed Runtime resolves without it.
RepairDone ==
  /\ op = "install" /\ fresh["repair"] = None
  /\ current # None /\ JournalValid
  /\ observed' = current /\ offer' = FALSE /\ offline' = TRUE
  /\ Answer(caller, BasePhase)
  /\ UNCHANGED <<journal, disk, step, fresh, history, bounds>>

\* A step of the removal throws, and with it the operation, ...
RepairThrows ==
  /\ op \in {"repairClear", "repairRemove"}
  /\ IF op = "repairClear" THEN ClearCandidate \/ UNCHANGED <<candidate, approved>>
                           ELSE UNCHANGED <<candidate, approved>>
  /\ versions' \in {versions, versions \ {IF op = "repairRemove" THEN held ELSE None}}
  /\ op' = "idle" /\ held' = None /\ caller' = "settings"
  /\ welcome' = IF caller = "welcome" THEN "idle" ELSE welcome
  /\ UNCHANGED <<current, previous, failure, damaged, used, step, shown, offer,
                 observed, offline, fresh, history, bounds>>

\* ... and a failed installation ends in the phase that asks for a repair.
RepairFails ==
  /\ op = "install" /\ fresh["repair"] = None
  /\ Answer(caller, "repair")
  /\ UNCHANGED <<journal, disk, step, offer, observed, offline, fresh, history,
                 bounds>>

\* retryRepair throws before it changes anything: a pointer does not parse, or
\* cannot be read.
RequestThrows ==
  /\ step = "up" /\ op = "idle" /\ welcome = "activated"
  /\ welcome' = "idle"
  /\ UNCHANGED <<journal, disk, step, manager, fresh, history, bounds>>

-----------------------------------------------------------------------------
(* installPackagedSeed, run by start-install and by retryRepair. *)

\* The repair installs unless a managed Runtime resolved when it began; that
\* takes an error for a no as well, and the welcome screen's installer may have
\* activated one since: what current names now does not matter.
MayInstall(i) ==
  /\ step = "up" /\ fresh[i] = None
  /\ \/ i = "welcome" /\ welcome \notin {"published", "activated"}
     \/ i = "repair" /\ op = "install"

\* The Seed verified, was extracted, passed its health check and is renamed
\* into versions/.
PublishSeed(i) ==
  /\ MayInstall(i) /\ used < MaxDirs
  /\ used' = used + 1
  /\ fresh' = [fresh EXCEPT ![i] = used + 1]
  /\ versions' = versions \cup {used + 1}
  /\ proven' = proven \cup {used + 1} /\ seeds' = seeds \cup {used + 1}
  /\ welcome' = IF i = "welcome" THEN "published" ELSE welcome
  /\ UNCHANGED <<journal, failure, damaged, step, manager, asked, rejected,
                 died, misread, bounds>>

\* setCurrent, after which the Runtime is resolved and selected; when that
\* fails, the pointer stays.
ActivateSeed(i) ==
  /\ fresh[i] \in versions
  /\ current' = fresh[i]
  /\ fresh' = [fresh EXCEPT ![i] = None]
  /\ welcome' \in IF i = "welcome" THEN {"activated", "idle"} ELSE {welcome}
  /\ UNCHANGED <<previous, candidate, approved, disk, step, manager, history,
                 bounds>>

\* setCurrent fails, as a rule before the rename, and what was published is
\* removed again.
ActivateFails(i) ==
  /\ fresh[i] # None
  /\ \/ UNCHANGED <<current, faults>>
     \/ current' = fresh[i] /\ RareFault
  /\ versions' \in {versions, versions \ {fresh[i]}}
  /\ fresh' = [fresh EXCEPT ![i] = None]
  /\ welcome' = IF i = "welcome" THEN "idle" ELSE welcome
  /\ UNCHANGED <<previous, candidate, approved, failure, damaged, used, step,
                 manager, history, crashes, damage>>

-----------------------------------------------------------------------------
Init ==
  /\ current = None /\ previous = None /\ candidate = None /\ approved = FALSE
  /\ failure = None /\ versions = {} /\ damaged = {} /\ used = 0
  /\ step = "off"
  /\ op = "idle" /\ held = None /\ caller = "settings"
  /\ shown = "none" /\ offer = FALSE /\ observed = None /\ offline = FALSE
  /\ welcome = "idle" /\ fresh = [i \in Installers |-> None]
  /\ proven = {} /\ seeds = {} /\ asked = {} /\ rejected = None
  /\ died = "none" /\ misread = {}
  /\ crashes = 0 /\ damage = 0 /\ faults = 0

Manage ==
  \/ Initialize \/ Check \/ PublishCandidate \/ StageCandidate \/ StageFails
  \/ RequestRestart \/ Approve \/ RestartFails \/ Relaunch
  \/ \E who \in {"settings", "welcome"} : RequestRepair(who)
  \/ RepairClear \/ RepairRemove \/ RepairDone
  \/ RepairThrows \/ RepairFails \/ RequestThrows

Install ==
  \E i \in Installers : PublishSeed(i) \/ ActivateSeed(i) \/ ActivateFails(i)

Next ==
  \/ Launch \/ Quit \/ Crash \/ \E d \in Dirs : Damage(d)
  \/ Boot \/ Manage \/ Install

Spec == Init /\ [][Next]_vars
-----------------------------------------------------------------------------
(* Properties. *)

\* A version that was extracted, or none.
Named == (1..used) \cup {None}

\* Every variable stays in its type, and whatever names a version names one
\* that was extracted into a directory of its own.
TypeOK ==
  /\ current \in Named /\ previous \in Named /\ candidate \in Named
  /\ failure \in Named /\ held \in Named /\ observed \in Named
  /\ rejected \in Named
  /\ approved \in BOOLEAN /\ (approved => candidate # None)
  /\ versions \subseteq 1..used /\ damaged \subseteq 1..used
  /\ proven \subseteq 1..used /\ seeds \subseteq 1..used
  /\ asked \subseteq 1..used /\ misread \subseteq 1..used
  /\ used \in 0..MaxDirs
  /\ step \in BootSteps \cup {"off", "up"}
  /\ op \in Operations /\ (op # "idle" => step = "up")
  /\ (op = "restart" => held # None)
  /\ caller \in {"settings", "welcome"}
  /\ shown \in Phases
  /\ offer \in BOOLEAN /\ offline \in BOOLEAN
  /\ welcome \in {"idle", "published", "activated", "done", "failed"}
  /\ fresh \in [Installers -> Named]
  /\ died \in {"none", "suppress", "record"}
  /\ crashes \in 0..MaxCrashes /\ damage \in 0..MaxDamage
  /\ faults \in 0..MaxFaults

\* No Runtime becomes current that has not passed its isolated health check,
\* and none that was downloaded unless the user restarted to apply it:
\* bootstrap is the only way from candidate to current, through every crash
\* and with the installer writing the same journal.
OnlyReviewedRuntimes ==
  current # None => current \in proven /\ current \in seeds \cup asked

UsableReferences == {d \in {current, previous} : Usable(d)}

\* A step that neither harms the disk from outside nor fails twice.
Unharmed == damage' = damage /\ faults' = faults

\* A computer that has a Runtime to start keeps one: there is no step of a
\* promotion, a rollback, an installation or a repair, and so no point to die
\* at, after which neither current nor previous is usable.  One case is
\* excepted, which the code does not prevent: a launch gives both up when each
\* of them that is usable failed to verify for a passing reason.
KeepsAUsableRuntime ==
  [][Unharmed /\ UsableReferences # {} /\ UsableReferences' = {} =>
       /\ step \in {"clearCurrent", "clearPrevious"}
       /\ UsableReferences \subseteq misread]_vars

\* "Version cleanup keeps every referenced directory"
\* (lat.md/agentera-runtime-distribution.md, line 47): no directory is removed
\* that a pointer names, also when the failed candidate was promoted by a
\* launch that died before it removed the candidate pointer.
ReferencedVersionsKept ==
  [][Unharmed =>
       \A d \in versions : d \in {current', previous', candidate'}
                             => d \in versions']_vars

\* A promotion that ran to its end, also one that deaths interrupted and later
\* launches finished, leaves a previous version other than the one it made
\* current, when there was one: the next rollback has somewhere to go.  Only a
\* version that a launch rolled back from although it was usable can end up as
\* its own predecessor, when two rollbacks in a row stop halfway.
PromotionCanBeUndone ==
  step = "discard" /\ previous # None /\ previous = current
    => current \in misread

\* As long as nothing fails twice over, a candidate that a launch rejected is
\* not tried again by a later launch, unless the user asked for it
\* ("suppresses the failed candidate loop", tests/runtime-bootstrap.test.ts) or
\* the launch died between the rejection and the suppression; each such death
\* is good for one more try, as that try rejects it once more.
NoUnaskedRetry ==
  faults = 0 /\ step = "candidate" /\ approved /\ candidate = rejected
    => died = "suppress"

\* As long as nothing fails twice over, a rejected candidate is never presented
\* as ready to apply ("does not present a durably failed candidate as
\* restartable", tests/runtime-manager.test.ts), unless the launch died between
\* its suppression and the failure record.
RejectedIsShown ==
  faults = 0 /\ candidate # None /\ candidate = rejected /\ shown = "ready"
    => died = "record"
=============================================================================
