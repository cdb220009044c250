------------------------- MODULE RuntimeUpdateProofs -------------------------
(***************************************************************************)
(* For any number of version directories, deaths, damages and faults, and  *)
(* however often verification fails for a passing reason: what is current  *)
(* was reviewed; no step without a second fault removes a version that a   *)
(* pointer names, and none takes the last usable Runtime away but the      *)
(* launch that misjudged it.                                               *)
(*                                                                         *)
(* The argument follows a version from where it is created to where it may *)
(* be removed.  Provenance says what is known of every place that can      *)
(* become current.  Apart says that a version somebody may still remove is *)
(* named by no pointer.  Progress says what the bootstrap has established  *)
(* of the two pointers at each of its steps.  Undo follows a version that  *)
(* was rolled back from: unless it was misjudged it does not come back.    *)
(* Rejection follows a candidate from its rejection on disk, through the   *)
(* two steps at which a death leaves it half done.                         *)
(***************************************************************************)
EXTENDS RuntimeUpdate, TLAPS

-----------------------------------------------------------------------------
(* The inductive invariant, in named parts. *)

Reviewed(d) == d # None => d \in proven /\ d \in seeds \cup asked

\* What may become current: the two pointers, the old current in the middle of
\* a rollback, an accepted candidate, and what an installer has published.
Provenance ==
  /\ Reviewed(current) /\ Reviewed(previous)
  /\ step = "rollPrevious" => Reviewed(held)
  /\ approved => candidate \in asked
  /\ step \in {"keepCurrent", "promote"} => Reviewed(candidate)
  /\ \A i \in Installers : fresh[i] # None => fresh[i] \in proven \cap seeds

\* A version that an installer has published but not activated is its own; a
\* downloaded one that is not staged and a candidate that is being removed are
\* the manager's; none of them is named by current or previous.
Apart ==
  /\ \A i \in Installers : fresh[i] # None =>
       /\ step = "up"
       /\ fresh[i] \notin {current, previous, candidate, held} \cup damaged
  /\ fresh["welcome"] # None => fresh["welcome"] # fresh["repair"]
  /\ op = "download" => held \notin {current, previous, candidate}
  /\ op \in {"repairClear", "repairRemove"} =>
       held = None \/ held \notin {current, previous}
  /\ op = "repairRemove" => candidate = None

\* What a launch may have found wanting: it is not usable, or was misjudged.
Suspect(d) == ~Usable(d) \/ d \in misread

\* What a step of the bootstrap can rely on.
Progress ==
  /\ step = "rollCurrent" => Usable(previous)
  /\ step \in {"rollPrevious", "rollCandidate"} => Usable(current)
  /\ step = "clearCurrent" => Suspect(current) /\ Suspect(previous)
  /\ step = "clearPrevious" => current = None /\ Suspect(previous)
  /\ step \in {"candidate", "keepCurrent"} =>
       Usable(current) \/ UsableReferences = {}
  /\ step \in {"keepCurrent", "promote"} => Usable(candidate)

\* A candidate that previous already names did not verify when the bootstrap
\* rolled back from it, and unless it was misjudged it does not verify again:
\* so a promotion does not leave the version it made current behind as its own
\* predecessor.
Undo ==
  /\ candidate # None /\ candidate = previous => Suspect(candidate)
  /\ step = "rollCurrent" => Suspect(current)
  /\ step = "rollPrevious" /\ held # None => Suspect(held)
  /\ step = "promote" => candidate # current
  /\ op = "restart" => held = candidate
  /\ PromotionCanBeUndone

\* While a launch rejects a candidate, held and rejected name it.  Once that is
\* done the candidate is not approved, and the failure record names it until
\* the journal does no longer; otherwise the launch died at one of the two
\* steps, which is remembered until the candidate is tried or asked for again.
\* What is downloaded meanwhile is another version.
Rejection ==
  /\ step # "up" => shown = "none"
  /\ op = "download" => held # None /\ held # rejected
  /\ step \in {"suppress", "record"} => held = rejected /\ died = "none"
  /\ faults = 0 /\ step = "record" => ~approved
  /\ faults = 0 /\ approved /\ candidate = rejected =>
       step = "suppress" \/ died = "suppress"
  /\ faults = 0 /\ candidate # None /\ candidate = rejected /\ ~approved =>
       step = "record" \/ failure = candidate \/ died = "record"
  /\ RejectedIsShown

IndInv ==
  TypeOK /\ Provenance /\ Apart /\ Progress /\ Undo /\ Rejection

USE BoundsAssumption DEF journal, disk, manager, installs, history, bounds,
                         At, Go, None, Installers, Suspect, Named

-----------------------------------------------------------------------------

\* Clearing the candidate leaves none, and none is not approved.
LEMMA ClearTypes ==
  ASSUME ClearCandidate
  PROVE  /\ candidate' = None /\ approved' \in BOOLEAN
         /\ approved' => candidate' # None
BY DEF ClearCandidate

\* Nothing of the process outlives it.
LEMMA ExitTypes ==
  ASSUME Exit
  PROVE  /\ step' = "off" /\ op' = "idle" /\ caller' = "settings"
         /\ held' = None /\ observed' = None /\ shown' = "none"
         /\ offer' \in BOOLEAN /\ offline' \in BOOLEAN
         /\ welcome' = "idle"
         /\ fresh' = [i \in Installers |-> None]
BY DEF Exit

\* Every step keeps the types.
LEMMA TypeStep ==
  ASSUME TypeOK, [Next]_vars
  PROVE  TypeOK'
<1>1. CASE Launch
  BY <1>1 DEF Launch, TypeOK, BootSteps, Operations, Phases, Dirs
<1>2. CASE Quit
  <2>1. Exit /\ UNCHANGED <<journal, disk, history, bounds>>
    BY <1>2 DEF Quit
  <2> QED  BY <2>1, ExitTypes DEF TypeOK, Operations, Phases
<1>3. CASE Crash
  <2>1. crashes' \in 0..MaxCrashes
    BY <1>3 DEF TypeOK, Crash, Exit
  <2>2. /\ Exit
        /\ UNCHANGED <<journal, disk, proven, seeds, asked, rejected, misread,
                       damage, faults>>
    BY <1>3 DEF Crash
  <2>3. died' \in {"none", "suppress", "record"}
    BY <1>3 DEF TypeOK, Crash
  <2> QED  BY <2>1, <2>2, <2>3, ExitTypes DEF TypeOK, Operations, Phases
<1>4. CASE \E d \in Dirs : Damage(d)
  <2>1. versions' \subseteq 1..used /\ damaged' \subseteq 1..used
    <3>1. PICK d \in Dirs : Damage(d)
      BY <1>4
    <3>2. d \in versions
      BY <3>1 DEF Damage
    <3>3. versions' \subseteq versions /\ damaged' \subseteq damaged \cup {d}
      BY <3>1 DEF Damage
    <3> QED  BY <3>2, <3>3 DEF TypeOK
  <2>2. UNCHANGED <<journal, failure, used, step, manager, installs, history,
                    crashes, faults>>
    BY <1>4 DEF Damage
  <2>3. damage' \in 0..MaxDamage
    BY <1>4 DEF Damage, TypeOK
  <2> QED  BY <2>1, <2>2, <2>3 DEF TypeOK
<1>5. CASE DropCurrent
  BY <1>5 DEF DropCurrent, TypeOK, BootSteps, Operations, Phases, Dirs
<1>6. CASE DropPrevious
  BY <1>6 DEF DropPrevious, TypeOK, BootSteps, Operations, Phases, Dirs
<1>7. CASE DropCandidate
  <2>1. \/ candidate' = None /\ approved' = FALSE
        \/ UNCHANGED <<candidate, approved>>
    BY <1>7 DEF DropCandidate, ClearCandidate
  <2>2. /\ op = "idle" /\ step' = "baseline"
        /\ UNCHANGED <<current, previous, disk, manager, installs, history,
                       bounds>>
    BY <1>7 DEF DropCandidate, TypeOK
  <2>3. candidate' \in Named /\ approved' \in BOOLEAN
    BY <2>1 DEF TypeOK
  <2>4. approved' => candidate' # None
    BY <2>1 DEF TypeOK
  <2> QED  BY <2>2, <2>3, <2>4 DEF TypeOK, BootSteps
<1>8. CASE Baseline
  <2>1. misread' \in SUBSET (1..used)
    <3>1. Misjudged({current}) \subseteq 1..used
      BY DEF Misjudged, Usable, TypeOK
    <3>2. Misjudged({current, previous}) \subseteq 1..used
      BY DEF Misjudged, Usable, TypeOK
    <3> QED  BY <1>8, <3>1, <3>2 DEF Baseline, TypeOK
  <2>2. step' \in BootSteps
    BY <1>8 DEF Baseline, BootSteps
  <2>3. /\ op = "idle"
        /\ UNCHANGED <<journal, disk, manager, installs, proven, seeds, asked,
                       rejected, died, bounds>>
    BY <1>8 DEF Baseline, TypeOK
  <2> QED  BY <2>1, <2>2, <2>3 DEF TypeOK
<1>9. CASE RollCurrent
  BY <1>9 DEF RollCurrent, TypeOK, BootSteps, Operations, Phases, Dirs
<1>10. CASE RollPrevious
  BY <1>10 DEF RollPrevious, TypeOK, BootSteps, Operations, Phases, Dirs
<1>11. CASE RollCandidate
  <2>1. ClearCandidate /\ held' = None /\ step' = "candidate"
    BY <1>11 DEF RollCandidate
  <2>2. /\ op = "idle"
        /\ UNCHANGED <<current, previous, disk, op, caller, shown, offer,
                       observed, offline, installs, history, bounds>>
    BY <1>11 DEF RollCandidate, TypeOK
  <2> QED  BY <2>1, <2>2, ClearTypes DEF TypeOK, BootSteps
<1>12. CASE ClearCurrent
  BY <1>12 DEF ClearCurrent, TypeOK, BootSteps, Operations, Phases, Dirs
<1>13. CASE ClearPrevious
  BY <1>13 DEF ClearPrevious, TypeOK, BootSteps, Operations, Phases, Dirs
<1>14. CASE NoCandidate
  BY <1>14 DEF NoCandidate, TypeOK, BootSteps, Operations, Phases, Dirs
<1>15. CASE RejectCandidate
  BY <1>15 DEF RejectCandidate, TypeOK, BootSteps, Operations, Phases, Dirs
<1>16. CASE AcceptCandidate
  BY <1>16 DEF AcceptCandidate, TypeOK, BootSteps, Operations, Phases, Dirs
<1>17. CASE Suppress
  <2>1. faults' \in 0..MaxFaults
    BY <1>17 DEF TypeOK, Suppress, RareFault
  <2>2. candidate' \in Named /\ approved' \in BOOLEAN
    BY <1>17 DEF TypeOK, Suppress, ClearCandidate
  <2>3. approved' => candidate' # None
    BY <1>17 DEF TypeOK, Suppress, ClearCandidate
  <2>4. /\ step = "suppress" /\ step' = "record"
        /\ UNCHANGED <<current, previous, disk, manager, installs, history,
                       crashes, damage>>
    BY <1>17 DEF Suppress
  <2> QED
    BY <2>1, <2>2, <2>3, <2>4 DEF TypeOK, BootSteps, Operations, Phases
<1>18. CASE Record
  BY <1>18 DEF Record, RareFault, TypeOK, BootSteps, Operations, Phases,
     Dirs
<1>19. CASE KeepCurrent
  BY <1>19 DEF KeepCurrent, TypeOK, BootSteps, Operations, Phases, Dirs
<1>20. CASE Promote
  BY <1>20 DEF Promote, TypeOK, BootSteps, Operations, Phases, Dirs
<1>21. CASE Discard
  <2>1. ClearCandidate /\ step' = "up"
    BY <1>21 DEF Discard
  <2>2. UNCHANGED <<current, previous, disk, manager, installs, history,
                    bounds>>
    BY <1>21 DEF Discard
  <2> QED  BY <2>1, <2>2, ClearTypes DEF TypeOK
<1>22. CASE BootThrows
  BY <1>22 DEF BootThrows, BootSteps, TypeOK, BootSteps, Operations, Phases,
     Dirs
<1>23. CASE Initialize
  BY <1>23 DEF Initialize, BasePhase, TypeOK, BootSteps, Operations, Phases,
     Dirs
<1>24. CASE Check
  BY <1>24 DEF Check, Ready, TypeOK, BootSteps, Operations, Phases, Dirs
<1>25. CASE PublishCandidate
  BY <1>25 DEF PublishCandidate, Ready, TypeOK, BootSteps, Operations,
     Phases, Dirs
<1>26. CASE StageCandidate
  <2>1. /\ candidate' = held /\ approved' \in BOOLEAN
        /\ approved' => candidate' # None
    BY <1>26 DEF StageCandidate
  <2>2. failure' \in Named /\ shown' \in Phases
    BY <1>26 DEF StageCandidate, TypeOK, Phases
  <2>3. /\ op' = "idle" /\ held' = None
        /\ UNCHANGED <<current, previous, versions, damaged, used, step,
                       caller, offer, observed, offline, installs, history,
                       bounds>>
    BY <1>26 DEF StageCandidate
  <2> QED  BY <2>1, <2>2, <2>3 DEF TypeOK, Operations
<1>27. CASE StageFails
  <2>1. faults' \in 0..MaxFaults
    BY <1>27 DEF TypeOK, StageFails, RareFault
  <2>2. versions' \in SUBSET (1..used)
    BY <1>27 DEF TypeOK, StageFails
  <2>3. candidate' \in Named /\ approved' \in BOOLEAN
    BY <1>27 DEF TypeOK, StageFails
  <2>4. approved' => candidate' # None
    BY <1>27 DEF TypeOK, StageFails
  <2>5. /\ op' = "idle" /\ held' = None
        /\ UNCHANGED <<current, previous, failure, damaged, used, step, caller,
                       shown, offer, observed, offline, installs, history,
                       crashes, damage>>
    BY <1>27 DEF StageFails
  <2> QED
    BY <2>1, <2>2, <2>3, <2>4, <2>5 DEF TypeOK, BootSteps, Operations, Phases
<1>28. CASE RequestRestart
  BY <1>28 DEF RequestRestart, Ready, TypeOK, BootSteps, Operations, Phases,
     Dirs
<1>29. CASE Approve
  BY <1>29 DEF Approve, TypeOK, BootSteps, Operations, Phases, Dirs
<1>30. CASE RestartFails
  BY <1>30 DEF RestartFails, TypeOK, BootSteps, Operations, Phases, Dirs
<1>31. CASE Relaunch
  <2>1. Exit /\ UNCHANGED <<journal, disk, history, bounds>>
    BY <1>31 DEF Relaunch
  <2> QED  BY <2>1, ExitTypes DEF TypeOK, Operations, Phases
<1>32. CASE \E who \in {"settings", "welcome"} : RequestRepair(who)
  BY <1>32 DEF RequestRepair, Answer, Ready, SyncedPhase, BasePhase, TypeOK,
     BootSteps, Operations, Phases, Dirs
<1>33. CASE RepairClear
  <2>1. ClearCandidate /\ failure' = None /\ op' = "repairRemove"
    BY <1>33 DEF RepairClear
  <2>2. /\ step = "up"
        /\ UNCHANGED <<current, previous, versions, damaged, used, step, held,
                       caller, shown, offer, observed, offline, installs,
                       history, bounds>>
    BY <1>33 DEF RepairClear, TypeOK
  <2> QED  BY <2>1, <2>2, ClearTypes DEF TypeOK, Operations
<1>34. CASE RepairRemove
  <2>1. versions' \in SUBSET (1..used) /\ observed' \in Named
    BY <1>34 DEF RepairRemove, TypeOK
  <2>2. /\ op' \in {"idle", "install"} /\ held' = None
        /\ caller' \in {"settings", "welcome"}
        /\ welcome' \in {welcome, "done", "failed"}
        /\ step = "up"
    BY <1>34 DEF RepairRemove, Answer, TypeOK
  <2>3. shown' \in Phases
    BY <1>34 DEF RepairRemove, Answer, BasePhase, Phases
  <2>4. /\ offer' \in BOOLEAN
        /\ UNCHANGED <<journal, failure, damaged, used, step, offline, fresh,
                       history, bounds>>
    BY <1>34 DEF RepairRemove
  <2>5. welcome' \in {"idle", "published", "activated", "done", "failed"}
    BY <2>2 DEF TypeOK
  <2> QED
    BY <2>1, <2>2, <2>3, <2>4, <2>5 DEF TypeOK, Operations
<1>35. CASE RepairDone
  BY <1>35 DEF RepairDone, Answer, BasePhase, TypeOK, BootSteps, Operations,
     Phases, Dirs
<1>36. CASE RepairThrows
  <2>1. versions' \in SUBSET (1..used)
    BY <1>36 DEF TypeOK, RepairThrows
  <2>2. candidate' \in Named /\ approved' \in BOOLEAN
    BY <1>36 DEF TypeOK, RepairThrows, ClearCandidate
  <2>3. approved' => candidate' # None
    BY <1>36 DEF TypeOK, RepairThrows, ClearCandidate
  <2>4. /\ op' = "idle" /\ held' = None /\ caller' = "settings"
        /\ welcome' \in {"idle", welcome}
        /\ UNCHANGED <<current, previous, failure, damaged, used, step, shown,
                       offer, observed, offline, fresh, history, bounds>>
    BY <1>36 DEF RepairThrows
  <2> QED
    BY <2>1, <2>2, <2>3, <2>4 DEF TypeOK, BootSteps, Operations, Phases
<1>37. CASE RepairFails
  BY <1>37 DEF RepairFails, Answer, TypeOK, BootSteps, Operations, Phases,
     Dirs
<1>38. CASE RequestThrows
  BY <1>38 DEF RequestThrows, TypeOK, BootSteps, Operations, Phases, Dirs
<1>39. CASE \E i \in Installers : PublishSeed(i)
  BY <1>39 DEF PublishSeed, TypeOK, BootSteps, Operations, Phases, Dirs
<1>40. CASE \E i \in Installers : ActivateSeed(i)
  BY <1>40 DEF ActivateSeed, TypeOK, BootSteps, Operations, Phases, Dirs
<1>41. CASE \E i \in Installers : ActivateFails(i)
  BY <1>41 DEF ActivateFails, RareFault, TypeOK, BootSteps, Operations,
     Phases, Dirs
<1>42. CASE UNCHANGED vars
  BY <1>42 DEF vars, TypeOK, BootSteps, Operations, Phases, Dirs
<1> QED
  BY <1>1, <1>2, <1>3, <1>4, <1>5, <1>6, <1>7, <1>8, <1>9, <1>10, <1>11,
     <1>12, <1>13, <1>14, <1>15, <1>16, <1>17, <1>18, <1>19, <1>20, <1>21,
     <1>22, <1>23, <1>24, <1>25, <1>26, <1>27, <1>28, <1>29, <1>30, <1>31,
     <1>32, <1>33, <1>34, <1>35, <1>36, <1>37, <1>38, <1>39, <1>40, <1>41,
     <1>42
     DEF Next, Boot, Manage, Install

\* Nothing gets to a place that can become current without a review.
LEMMA ProvenanceStep ==
  ASSUME TypeOK, Provenance, Apart, [Next]_vars
  PROVE  Provenance'
<1>1. CASE Launch
  BY <1>1 DEF Launch, TypeOK, Provenance, Apart, Reviewed
<1>2. CASE Quit
  BY <1>2 DEF Quit, Exit, TypeOK, Provenance, Apart, Reviewed
<1>3. CASE Crash
  BY <1>3 DEF Crash, Exit, TypeOK, Provenance, Apart, Reviewed
<1>4. CASE \E d \in Dirs : Damage(d)
  BY <1>4 DEF Damage, TypeOK, Provenance, Apart, Reviewed
<1>5. CASE DropCurrent
  BY <1>5 DEF DropCurrent, TypeOK, Provenance, Apart, Reviewed
<1>6. CASE DropPrevious
  BY <1>6 DEF DropPrevious, TypeOK, Provenance, Apart, Reviewed
<1>7. CASE DropCandidate
  BY <1>7 DEF DropCandidate, ClearCandidate, TypeOK, Provenance, Apart,
     Reviewed
<1>8. CASE Baseline
  BY <1>8 DEF Baseline, Misjudged, TypeOK, Provenance, Apart, Reviewed
<1>9. CASE RollCurrent
  BY <1>9 DEF RollCurrent, TypeOK, Provenance, Apart, Reviewed
<1>10. CASE RollPrevious
  BY <1>10 DEF RollPrevious, TypeOK, Provenance, Apart, Reviewed
<1>11. CASE RollCandidate
  BY <1>11 DEF RollCandidate, ClearCandidate, TypeOK, Provenance, Apart,
     Reviewed
<1>12. CASE ClearCurrent
  BY <1>12 DEF ClearCurrent, TypeOK, Provenance, Apart, Reviewed
<1>13. CASE ClearPrevious
  BY <1>13 DEF ClearPrevious, TypeOK, Provenance, Apart, Reviewed
<1>14. CASE NoCandidate
  BY <1>14 DEF NoCandidate, TypeOK, Provenance, Apart, Reviewed
<1>15. CASE RejectCandidate
  BY <1>15 DEF RejectCandidate, TypeOK, Provenance, Apart, Reviewed
<1>16. CASE AcceptCandidate
  BY <1>16 DEF AcceptCandidate, TypeOK, Provenance, Apart, Reviewed, Usable
<1>17. CASE Suppress
  BY <1>17 DEF Suppress, ClearCandidate, RareFault, TypeOK, Provenance,
     Apart, Reviewed
<1>18. CASE Record
  BY <1>18 DEF Record, RareFault, TypeOK, Provenance, Apart, Reviewed
<1>19. CASE KeepCurrent
  BY <1>19 DEF KeepCurrent, TypeOK, Provenance, Apart, Reviewed
<1>20. CASE Promote
  BY <1>20 DEF Promote, TypeOK, Provenance, Apart, Reviewed
<1>21. CASE Discard
  BY <1>21 DEF Discard, ClearCandidate, TypeOK, Provenance, Apart, Reviewed
<1>22. CASE BootThrows
  BY <1>22 DEF BootThrows, BootSteps, TypeOK, Provenance, Apart, Reviewed
<1>23. CASE Initialize
  BY <1>23 DEF Initialize, BasePhase, TypeOK, Provenance, Apart, Reviewed
<1>24. CASE Check
  BY <1>24 DEF Check, Ready, TypeOK, Provenance, Apart, Reviewed
<1>25. CASE PublishCandidate
  BY <1>25 DEF PublishCandidate, Ready, TypeOK, Provenance, Apart, Reviewed
<1>26. CASE StageCandidate
  BY <1>26 DEF StageCandidate, TypeOK, Provenance, Apart, Reviewed
<1>27. CASE StageFails
  BY <1>27 DEF StageFails, RareFault, TypeOK, Provenance, Apart, Reviewed
<1>28. CASE RequestRestart
  BY <1>28 DEF RequestRestart, Ready, TypeOK, Provenance, Apart, Reviewed
<1>29. CASE Approve
  BY <1>29 DEF Approve, TypeOK, Provenance, Apart, Reviewed
<1>30. CASE RestartFails
  BY <1>30 DEF RestartFails, TypeOK, Provenance, Apart, Reviewed
<1>31. CASE Relaunch
  BY <1>31 DEF Relaunch, Exit, TypeOK, Provenance, Apart, Reviewed
<1>32. CASE \E who \in {"settings", "welcome"} : RequestRepair(who)
  BY <1>32 DEF RequestRepair, Answer, Ready, SyncedPhase, BasePhase, TypeOK,
     Provenance, Apart, Reviewed
<1>33. CASE RepairClear
  BY <1>33 DEF RepairClear, ClearCandidate, TypeOK, Provenance, Apart,
     Reviewed
<1>34. CASE RepairRemove
  BY <1>34 DEF RepairRemove, Answer, BasePhase, TypeOK, Provenance, Apart,
     Reviewed
<1>35. CASE RepairDone
  BY <1>35 DEF RepairDone, Answer, BasePhase, TypeOK, Provenance, Apart,
     Reviewed
<1>36. CASE RepairThrows
  BY <1>36 DEF RepairThrows, ClearCandidate, TypeOK, Provenance, Apart,
     Reviewed
<1>37. CASE RepairFails
  BY <1>37 DEF RepairFails, Answer, TypeOK, Provenance, Apart, Reviewed
<1>38. CASE RequestThrows
  BY <1>38 DEF RequestThrows, TypeOK, Provenance, Apart, Reviewed
<1>39. CASE \E i \in Installers : PublishSeed(i)
  BY <1>39 DEF PublishSeed, TypeOK, Provenance, Apart, Reviewed
<1>40. CASE \E i \in Installers : ActivateSeed(i)
  BY <1>40 DEF ActivateSeed, TypeOK, Provenance, Apart, Reviewed
<1>41. CASE \E i \in Installers : ActivateFails(i)
  BY <1>41 DEF ActivateFails, RareFault, TypeOK, Provenance, Apart, Reviewed
<1>42. CASE UNCHANGED vars
  BY <1>42 DEF vars, TypeOK, Provenance, Apart, Reviewed
<1> QED
  BY <1>1, <1>2, <1>3, <1>4, <1>5, <1>6, <1>7, <1>8, <1>9, <1>10, <1>11,
     <1>12, <1>13, <1>14, <1>15, <1>16, <1>17, <1>18, <1>19, <1>20, <1>21,
     <1>22, <1>23, <1>24, <1>25, <1>26, <1>27, <1>28, <1>29, <1>30, <1>31,
     <1>32, <1>33, <1>34, <1>35, <1>36, <1>37, <1>38, <1>39, <1>40, <1>41,
     <1>42
     DEF Next, Boot, Manage, Install

\* What may still be removed stays out of the two pointers.
LEMMA ApartStep ==
  ASSUME TypeOK, Apart, [Next]_vars
  PROVE  Apart'
<1>1. CASE Launch
  BY <1>1 DEF Launch, TypeOK, Apart, Valid
<1>2. CASE Quit
  BY <1>2 DEF Quit, Exit, TypeOK, Apart, Valid
<1>3. CASE Crash
  BY <1>3 DEF Crash, Exit, TypeOK, Apart, Valid
<1>4. CASE \E d \in Dirs : Damage(d)
  BY <1>4 DEF Damage, TypeOK, Apart, Valid
<1>5. CASE DropCurrent
  BY <1>5 DEF DropCurrent, TypeOK, Apart, Valid
<1>6. CASE DropPrevious
  BY <1>6 DEF DropPrevious, TypeOK, Apart, Valid
<1>7. CASE DropCandidate
  BY <1>7 DEF DropCandidate, ClearCandidate, TypeOK, Apart, Valid
<1>8. CASE Baseline
  BY <1>8 DEF Baseline, Misjudged, TypeOK, Apart, Valid
<1>9. CASE RollCurrent
  BY <1>9 DEF RollCurrent, TypeOK, Apart, Valid
<1>10. CASE RollPrevious
  BY <1>10 DEF RollPrevious, TypeOK, Apart, Valid
<1>11. CASE RollCandidate
  BY <1>11 DEF RollCandidate, ClearCandidate, TypeOK, Apart, Valid
<1>12. CASE ClearCurrent
  BY <1>12 DEF ClearCurrent, TypeOK, Apart, Valid
<1>13. CASE ClearPrevious
  BY <1>13 DEF ClearPrevious, TypeOK, Apart, Valid
<1>14. CASE NoCandidate
  BY <1>14 DEF NoCandidate, TypeOK, Apart, Valid
<1>15. CASE RejectCandidate
  BY <1>15 DEF RejectCandidate, TypeOK, Apart, Valid
<1>16. CASE AcceptCandidate
  BY <1>16 DEF AcceptCandidate, TypeOK, Apart, Valid
<1>17. CASE Suppress
  BY <1>17 DEF Suppress, ClearCandidate, RareFault, TypeOK, Apart, Valid
<1>18. CASE Record
  BY <1>18 DEF Record, RareFault, TypeOK, Apart, Valid
<1>19. CASE KeepCurrent
  BY <1>19 DEF KeepCurrent, TypeOK, Apart, Valid
<1>20. CASE Promote
  BY <1>20 DEF Promote, TypeOK, Apart, Valid
<1>21. CASE Discard
  BY <1>21 DEF Discard, ClearCandidate, TypeOK, Apart, Valid
<1>22. CASE BootThrows
  BY <1>22 DEF BootThrows, BootSteps, TypeOK, Apart, Valid
<1>23. CASE Initialize
  BY <1>23 DEF Initialize, BasePhase, TypeOK, Apart, Valid
<1>24. CASE Check
  BY <1>24 DEF Check, Ready, TypeOK, Apart, Valid
<1>25. CASE PublishCandidate
  BY <1>25 DEF PublishCandidate, Ready, TypeOK, Apart, Valid
<1>26. CASE StageCandidate
  BY <1>26 DEF StageCandidate, TypeOK, Apart, Valid
<1>27. CASE StageFails
  BY <1>27 DEF StageFails, RareFault, TypeOK, Apart, Valid
<1>28. CASE RequestRestart
  BY <1>28 DEF RequestRestart, Ready, TypeOK, Apart, Valid
<1>29. CASE Approve
  BY <1>29 DEF Approve, TypeOK, Apart, Valid
<1>30. CASE RestartFails
  BY <1>30 DEF RestartFails, TypeOK, Apart, Valid
<1>31. CASE Relaunch
  BY <1>31 DEF Relaunch, Exit, TypeOK, Apart, Valid
<1>32. CASE \E who \in {"settings", "welcome"} : RequestRepair(who)
  BY <1>32 DEF RequestRepair, Answer, Ready, SyncedPhase, BasePhase, TypeOK,
     Apart, Valid, Referenced
<1>33. CASE RepairClear
  BY <1>33 DEF RepairClear, ClearCandidate, TypeOK, Apart, Valid
<1>34. CASE RepairRemove
  BY <1>34 DEF RepairRemove, Answer, BasePhase, TypeOK, Apart, Valid
<1>35. CASE RepairDone
  BY <1>35 DEF RepairDone, Answer, BasePhase, TypeOK, Apart, Valid
<1>36. CASE RepairThrows
  BY <1>36 DEF RepairThrows, ClearCandidate, TypeOK, Apart, Valid
<1>37. CASE RepairFails
  BY <1>37 DEF RepairFails, Answer, TypeOK, Apart, Valid
<1>38. CASE RequestThrows
  BY <1>38 DEF RequestThrows, TypeOK, Apart, Valid
<1>39. CASE \E i \in Installers : PublishSeed(i)
  BY <1>39 DEF PublishSeed, TypeOK, Apart, Valid, MayInstall
<1>40. CASE \E i \in Installers : ActivateSeed(i)
  BY <1>40 DEF ActivateSeed, TypeOK, Apart, Valid
<1>41. CASE \E i \in Installers : ActivateFails(i)
  BY <1>41 DEF ActivateFails, RareFault, TypeOK, Apart, Valid
<1>42. CASE UNCHANGED vars
  BY <1>42 DEF vars, TypeOK, Apart, Valid
<1> QED
  BY <1>1, <1>2, <1>3, <1>4, <1>5, <1>6, <1>7, <1>8, <1>9, <1>10, <1>11,
     <1>12, <1>13, <1>14, <1>15, <1>16, <1>17, <1>18, <1>19, <1>20, <1>21,
     <1>22, <1>23, <1>24, <1>25, <1>26, <1>27, <1>28, <1>29, <1>30, <1>31,
     <1>32, <1>33, <1>34, <1>35, <1>36, <1>37, <1>38, <1>39, <1>40, <1>41,
     <1>42
     DEF Next, Boot, Manage, Install

\* The bootstrap establishes what its next step relies on.
LEMMA ProgressStep ==
  ASSUME TypeOK, Apart, Progress, [Next]_vars
  PROVE  Progress'
<1>1. CASE Launch
  BY <1>1 DEF Launch, TypeOK, Progress, Usable, UsableReferences, Valid,
     JournalValid
<1>2. CASE Quit
  BY <1>2 DEF Quit, Exit, TypeOK, Progress, Usable, UsableReferences, Valid,
     JournalValid
<1>3. CASE Crash
  BY <1>3 DEF Crash, Exit, TypeOK, Progress, Usable, UsableReferences,
     Valid, JournalValid
<1>4. CASE \E d \in Dirs : Damage(d)
  BY <1>4 DEF Damage, TypeOK, Progress, Usable, UsableReferences, Valid,
     JournalValid
<1>5. CASE DropCurrent
  BY <1>5 DEF DropCurrent, TypeOK, Progress, Usable, UsableReferences,
     Valid, JournalValid
<1>6. CASE DropPrevious
  BY <1>6 DEF DropPrevious, TypeOK, Progress, Usable, UsableReferences,
     Valid, JournalValid
<1>7. CASE DropCandidate
  BY <1>7 DEF DropCandidate, ClearCandidate, TypeOK, Progress, Usable,
     UsableReferences, Valid, JournalValid
<1>8. CASE Baseline
  BY <1>8 DEF Baseline, Misjudged, TypeOK, Progress, Usable, UsableReferences,
     Valid, JournalValid
<1>9. CASE RollCurrent
  BY <1>9 DEF RollCurrent, TypeOK, Progress, Usable, UsableReferences,
     Valid, JournalValid
<1>10. CASE RollPrevious
  BY <1>10 DEF RollPrevious, TypeOK, Progress, Usable, UsableReferences,
     Valid, JournalValid
<1>11. CASE RollCandidate
  BY <1>11 DEF RollCandidate, ClearCandidate, TypeOK, Progress, Usable,
     UsableReferences, Valid, JournalValid
<1>12. CASE ClearCurrent
  BY <1>12 DEF ClearCurrent, TypeOK, Progress, Usable, UsableReferences,
     Valid, JournalValid
<1>13. CASE ClearPrevious
  BY <1>13 DEF ClearPrevious, TypeOK, Progress, Usable, UsableReferences,
     Valid, JournalValid
<1>14. CASE NoCandidate
  BY <1>14 DEF NoCandidate, TypeOK, Progress, Usable, UsableReferences,
     Valid, JournalValid
<1>15. CASE RejectCandidate
  BY <1>15 DEF RejectCandidate, TypeOK, Progress, Usable, UsableReferences,
     Valid, JournalValid
<1>16. CASE AcceptCandidate
  BY <1>16 DEF AcceptCandidate, TypeOK, Progress, Usable, UsableReferences,
     Valid, JournalValid
<1>17. CASE Suppress
  BY <1>17 DEF Suppress, ClearCandidate, RareFault, TypeOK, Progress,
     Usable, UsableReferences, Valid, JournalValid
<1>18. CASE Record
  BY <1>18 DEF Record, RareFault, TypeOK, Progress, Usable,
     UsableReferences, Valid, JournalValid
<1>19. CASE KeepCurrent
  BY <1>19 DEF KeepCurrent, TypeOK, Progress, Usable, UsableReferences,
     Valid, JournalValid
<1>20. CASE Promote
  BY <1>20 DEF Promote, TypeOK, Progress, Usable, UsableReferences, Valid,
     JournalValid
<1>21. CASE Discard
  BY <1>21 DEF Discard, ClearCandidate, TypeOK, Progress, Usable,
     UsableReferences, Valid, JournalValid
<1>22. CASE BootThrows
  BY <1>22 DEF BootThrows, BootSteps, TypeOK, Progress, Usable,
     UsableReferences, Valid, JournalValid
<1>23. CASE Initialize
  BY <1>23 DEF Initialize, BasePhase, TypeOK, Progress, Usable,
     UsableReferences, Valid, JournalValid
<1>24. CASE Check
  BY <1>24 DEF Check, Ready, TypeOK, Progress, Usable, UsableReferences,
     Valid, JournalValid
<1>25. CASE PublishCandidate
  BY <1>25 DEF PublishCandidate, Ready, TypeOK, Progress, Usable,
     UsableReferences, Valid, JournalValid
<1>26. CASE StageCandidate
  BY <1>26 DEF StageCandidate, TypeOK, Progress, Usable, UsableReferences,
     Valid, JournalValid
<1>27. CASE StageFails
  BY <1>27 DEF StageFails, RareFault, TypeOK, Progress, Usable,
     UsableReferences, Valid, JournalValid
<1>28. CASE RequestRestart
  BY <1>28 DEF RequestRestart, Ready, TypeOK, Progress, Usable,
     UsableReferences, Valid, JournalValid
<1>29. CASE Approve
  BY <1>29 DEF Approve, TypeOK, Progress, Usable, UsableReferences, Valid,
     JournalValid
<1>30. CASE RestartFails
  BY <1>30 DEF RestartFails, TypeOK, Progress, Usable, UsableReferences,
     Valid, JournalValid
<1>31. CASE Relaunch
  BY <1>31 DEF Relaunch, Exit, TypeOK, Progress, Usable, UsableReferences,
     Valid, JournalValid
<1>32. CASE \E who \in {"settings", "welcome"} : RequestRepair(who)
  BY <1>32 DEF RequestRepair, Answer, Ready, SyncedPhase, BasePhase, TypeOK,
     Progress, Usable, UsableReferences, Valid, JournalValid
<1>33. CASE RepairClear
  BY <1>33 DEF RepairClear, ClearCandidate, TypeOK, Progress, Usable,
     UsableReferences, Valid, JournalValid
<1>34. CASE RepairRemove
  BY <1>34 DEF RepairRemove, Answer, BasePhase, TypeOK, Progress, Usable,
     UsableReferences, Valid, JournalValid
<1>35. CASE RepairDone
  BY <1>35 DEF RepairDone, Answer, BasePhase, TypeOK, Progress, Usable,
     UsableReferences, Valid, JournalValid
<1>36. CASE RepairThrows
  BY <1>36 DEF RepairThrows, ClearCandidate, TypeOK, Progress, Usable,
     UsableReferences, Valid, JournalValid
<1>37. CASE RepairFails
  BY <1>37 DEF RepairFails, Answer, TypeOK, Progress, Usable,
     UsableReferences, Valid, JournalValid
<1>38. CASE RequestThrows
  BY <1>38 DEF RequestThrows, TypeOK, Progress, Usable, UsableReferences,
     Valid, JournalValid
<1>39. CASE \E i \in Installers : PublishSeed(i)
  BY <1>39 DEF PublishSeed, TypeOK, Progress, Usable, UsableReferences,
     Valid, JournalValid, MayInstall
<1>40. CASE \E i \in Installers : ActivateSeed(i)
  BY <1>40 DEF ActivateSeed, TypeOK, Progress, Usable, UsableReferences,
     Valid, JournalValid, Apart
<1>41. CASE \E i \in Installers : ActivateFails(i)
  BY <1>41 DEF ActivateFails, RareFault, TypeOK, Progress, Usable,
     UsableReferences, Valid, JournalValid, Apart
<1>42. CASE UNCHANGED vars
  BY <1>42 DEF vars, TypeOK, Progress, Usable, UsableReferences, Valid,
     JournalValid
<1> QED
  BY <1>1, <1>2, <1>3, <1>4, <1>5, <1>6, <1>7, <1>8, <1>9, <1>10, <1>11,
     <1>12, <1>13, <1>14, <1>15, <1>16, <1>17, <1>18, <1>19, <1>20, <1>21,
     <1>22, <1>23, <1>24, <1>25, <1>26, <1>27, <1>28, <1>29, <1>30, <1>31,
     <1>32, <1>33, <1>34, <1>35, <1>36, <1>37, <1>38, <1>39, <1>40, <1>41,
     <1>42
     DEF Next, Boot, Manage, Install

\* No step makes a promotion leave its own version behind as previous.
LEMMA UndoStep ==
  ASSUME IndInv, [Next]_vars
  PROVE  Undo'
<1>1. CASE Launch
  BY <1>1 DEF Launch, Undo, PromotionCanBeUndone, IndInv, TypeOK, Apart,
     Progress, Usable, Valid, JournalValid, BootSteps
<1>2. CASE Quit
  BY <1>2 DEF Quit, Exit, Undo, PromotionCanBeUndone, IndInv, TypeOK, Apart,
     Progress, Usable, Valid, JournalValid, BootSteps
<1>3. CASE Crash
  BY <1>3 DEF Crash, Exit, Undo, PromotionCanBeUndone, IndInv, TypeOK, Apart,
     Progress, Usable, Valid, JournalValid, BootSteps
<1>4. CASE \E d \in Dirs : Damage(d)
  BY <1>4 DEF Damage, Undo, PromotionCanBeUndone, IndInv, TypeOK, Apart,
     Progress, Usable, Valid, JournalValid, BootSteps
<1>5. CASE DropCurrent
  BY <1>5 DEF DropCurrent, Undo, PromotionCanBeUndone, IndInv, TypeOK, Apart,
     Progress, Usable, Valid, JournalValid, BootSteps
<1>6. CASE DropPrevious
  BY <1>6 DEF DropPrevious, Undo, PromotionCanBeUndone, IndInv, TypeOK, Apart,
     Progress, Usable, Valid, JournalValid, BootSteps
<1>7. CASE DropCandidate
  BY <1>7 DEF DropCandidate, ClearCandidate, Undo, PromotionCanBeUndone,
     IndInv, TypeOK, Apart, Progress, Usable, Valid, JournalValid, BootSteps
<1>8. CASE Baseline
  BY <1>8 DEF Baseline, Misjudged, Undo, PromotionCanBeUndone, IndInv, TypeOK,
     Apart, Progress, Usable, Valid, JournalValid, BootSteps
<1>9. CASE RollCurrent
  BY <1>9 DEF RollCurrent, Undo, PromotionCanBeUndone, IndInv, TypeOK, Apart,
     Progress, Usable, Valid, JournalValid, BootSteps
<1>10. CASE RollPrevious
  BY <1>10 DEF RollPrevious, Undo, PromotionCanBeUndone, IndInv, TypeOK, Apart,
     Progress, Usable, Valid, JournalValid, BootSteps
<1>11. CASE RollCandidate
  BY <1>11 DEF RollCandidate, ClearCandidate, Undo, PromotionCanBeUndone,
     IndInv, TypeOK, Apart, Progress, Usable, Valid, JournalValid, BootSteps
<1>12. CASE ClearCurrent
  BY <1>12 DEF ClearCurrent, Undo, PromotionCanBeUndone, IndInv, TypeOK, Apart,
     Progress, Usable, Valid, JournalValid, BootSteps
<1>13. CASE ClearPrevious
  BY <1>13 DEF ClearPrevious, Undo, PromotionCanBeUndone, IndInv, TypeOK,
     Apart, Progress, Usable, Valid, JournalValid, BootSteps
<1>14. CASE NoCandidate
  BY <1>14 DEF NoCandidate, Undo, PromotionCanBeUndone, IndInv, TypeOK, Apart,
     Progress, Usable, Valid, JournalValid, BootSteps
<1>15. CASE RejectCandidate
  BY <1>15 DEF RejectCandidate, Undo, PromotionCanBeUndone, IndInv, TypeOK,
     Apart, Progress, Usable, Valid, JournalValid, BootSteps
<1>16. CASE AcceptCandidate
  BY <1>16 DEF AcceptCandidate, Undo, PromotionCanBeUndone, IndInv, TypeOK,
     Apart, Progress, Usable, Valid, JournalValid, BootSteps
<1>17. CASE Suppress
  BY <1>17 DEF Suppress, ClearCandidate, RareFault, Undo, PromotionCanBeUndone,
     IndInv, TypeOK, Apart, Progress, Usable, Valid, JournalValid, BootSteps
<1>18. CASE Record
  BY <1>18 DEF Record, RareFault, Undo, PromotionCanBeUndone, IndInv, TypeOK,
     Apart, Progress, Usable, Valid, JournalValid, BootSteps
<1>19. CASE KeepCurrent
  BY <1>19 DEF KeepCurrent, Undo, PromotionCanBeUndone, IndInv, TypeOK, Apart,
     Progress, Usable, Valid, JournalValid, BootSteps
<1>20. CASE Promote
  BY <1>20 DEF Promote, Undo, PromotionCanBeUndone, IndInv, TypeOK, Apart,
     Progress, Usable, Valid, JournalValid, BootSteps
<1>21. CASE Discard
  BY <1>21 DEF Discard, ClearCandidate, Undo, PromotionCanBeUndone, IndInv,
     TypeOK, Apart, Progress, Usable, Valid, JournalValid, BootSteps
<1>22. CASE BootThrows
  BY <1>22 DEF BootThrows, BootSteps, Undo, PromotionCanBeUndone, IndInv,
     TypeOK, Apart, Progress, Usable, Valid, JournalValid
<1>23. CASE Initialize
  BY <1>23 DEF Initialize, BasePhase, Undo, PromotionCanBeUndone, IndInv,
     TypeOK, Apart, Progress, Usable, Valid, JournalValid, BootSteps
<1>24. CASE Check
  BY <1>24 DEF Check, Ready, Undo, PromotionCanBeUndone, IndInv, TypeOK, Apart,
     Progress, Usable, Valid, JournalValid, BootSteps
<1>25. CASE PublishCandidate
  BY <1>25 DEF PublishCandidate, Ready, Undo, PromotionCanBeUndone, IndInv,
     TypeOK, Apart, Progress, Usable, Valid, JournalValid, BootSteps
<1>26. CASE StageCandidate
  BY <1>26 DEF StageCandidate, Undo, PromotionCanBeUndone, IndInv, TypeOK,
     Apart, Progress, Usable, Valid, JournalValid, BootSteps
<1>27. CASE StageFails
  BY <1>27 DEF StageFails, RareFault, Undo, PromotionCanBeUndone, IndInv,
     TypeOK, Apart, Progress, Usable, Valid, JournalValid, BootSteps
<1>28. CASE RequestRestart
  BY <1>28 DEF RequestRestart, Ready, Undo, PromotionCanBeUndone, IndInv,
     TypeOK, Apart, Progress, Usable, Valid, JournalValid, BootSteps
<1>29. CASE Approve
  BY <1>29 DEF Approve, Undo, PromotionCanBeUndone, IndInv, TypeOK, Apart,
     Progress, Usable, Valid, JournalValid, BootSteps
<1>30. CASE RestartFails
  BY <1>30 DEF RestartFails, Undo, PromotionCanBeUndone, IndInv, TypeOK, Apart,
     Progress, Usable, Valid, JournalValid, BootSteps
<1>31. CASE Relaunch
  BY <1>31 DEF Relaunch, Exit, Undo, PromotionCanBeUndone, IndInv, TypeOK,
     Apart, Progress, Usable, Valid, JournalValid, BootSteps
<1>32. CASE \E who \in {"settings", "welcome"} : RequestRepair(who)
  BY <1>32 DEF RequestRepair, Answer, Ready, SyncedPhase, BasePhase, Undo,
     PromotionCanBeUndone, IndInv, TypeOK, Apart, Progress, Usable, Valid,
     JournalValid, BootSteps
<1>33. CASE RepairClear
  BY <1>33 DEF RepairClear, ClearCandidate, Undo, PromotionCanBeUndone, IndInv,
     TypeOK, Apart, Progress, Usable, Valid, JournalValid, BootSteps
<1>34. CASE RepairRemove
  BY <1>34 DEF RepairRemove, Answer, BasePhase, Undo, PromotionCanBeUndone,
     IndInv, TypeOK, Apart, Progress, Usable, Valid, JournalValid, BootSteps
<1>35. CASE RepairDone
  BY <1>35 DEF RepairDone, Answer, BasePhase, Undo, PromotionCanBeUndone,
     IndInv, TypeOK, Apart, Progress, Usable, Valid, JournalValid, BootSteps
<1>36. CASE RepairThrows
  BY <1>36 DEF RepairThrows, ClearCandidate, Undo, PromotionCanBeUndone,
     IndInv, TypeOK, Apart, Progress, Usable, Valid, JournalValid, BootSteps
<1>37. CASE RepairFails
  BY <1>37 DEF RepairFails, Answer, Undo, PromotionCanBeUndone, IndInv, TypeOK,
     Apart, Progress, Usable, Valid, JournalValid, BootSteps
<1>38. CASE RequestThrows
  BY <1>38 DEF RequestThrows, Undo, PromotionCanBeUndone, IndInv, TypeOK,
     Apart, Progress, Usable, Valid, JournalValid, BootSteps
<1>39. CASE \E i \in Installers : PublishSeed(i)
  BY <1>39 DEF PublishSeed, Undo, PromotionCanBeUndone, IndInv, TypeOK, Apart,
     Progress, Usable, Valid, JournalValid, BootSteps
<1>40. CASE \E i \in Installers : ActivateSeed(i)
  BY <1>40 DEF ActivateSeed, Undo, PromotionCanBeUndone, IndInv, TypeOK, Apart,
     Progress, Usable, Valid, JournalValid, BootSteps
<1>41. CASE \E i \in Installers : ActivateFails(i)
  BY <1>41 DEF ActivateFails, RareFault, Undo, PromotionCanBeUndone, IndInv,
     TypeOK, Apart, Progress, Usable, Valid, JournalValid, BootSteps
<1>42. CASE UNCHANGED vars
  BY <1>42 DEF vars, Undo, PromotionCanBeUndone, IndInv, TypeOK, Apart,
     Progress, Usable, Valid, JournalValid, BootSteps
<1> QED
  BY <1>1, <1>2, <1>3, <1>4, <1>5, <1>6, <1>7, <1>8, <1>9, <1>10, <1>11, <1>12,
     <1>13, <1>14, <1>15, <1>16, <1>17, <1>18, <1>19, <1>20, <1>21, <1>22,
     <1>23, <1>24, <1>25, <1>26, <1>27, <1>28, <1>29, <1>30, <1>31, <1>32,
     <1>33, <1>34, <1>35, <1>36, <1>37, <1>38, <1>39, <1>40, <1>41, <1>42
     DEF Next, Boot, Manage, Install

\* No step approves or forgets a rejected candidate.
LEMMA RejectionStep ==
  ASSUME IndInv, [Next]_vars
  PROVE  Rejection'
<1>1. CASE Launch
  BY <1>1 DEF Launch, Rejection, RejectedIsShown, IndInv, TypeOK, BootSteps
<1>2. CASE Quit
  BY <1>2 DEF Quit, Exit, Rejection, RejectedIsShown, IndInv, TypeOK, BootSteps
<1>3. CASE Crash
  BY <1>3 DEF Crash, Exit, Rejection, RejectedIsShown, IndInv, TypeOK,
     BootSteps
<1>4. CASE \E d \in Dirs : Damage(d)
  BY <1>4 DEF Damage, Rejection, RejectedIsShown, IndInv, TypeOK, BootSteps
<1>5. CASE DropCurrent
  BY <1>5 DEF DropCurrent, Rejection, RejectedIsShown, IndInv, TypeOK,
     BootSteps
<1>6. CASE DropPrevious
  BY <1>6 DEF DropPrevious, Rejection, RejectedIsShown, IndInv, TypeOK,
     BootSteps
<1>7. CASE DropCandidate
  BY <1>7 DEF DropCandidate, ClearCandidate, Rejection, RejectedIsShown,
     IndInv, TypeOK, BootSteps
<1>8. CASE Baseline
  BY <1>8 DEF Baseline, Misjudged, Rejection, RejectedIsShown, IndInv, TypeOK,
     BootSteps
<1>9. CASE RollCurrent
  BY <1>9 DEF RollCurrent, Rejection, RejectedIsShown, IndInv, TypeOK,
     BootSteps
<1>10. CASE RollPrevious
  BY <1>10 DEF RollPrevious, Rejection, RejectedIsShown, IndInv, TypeOK,
     BootSteps
<1>11. CASE RollCandidate
  BY <1>11 DEF RollCandidate, ClearCandidate, Rejection, RejectedIsShown,
     IndInv, TypeOK, BootSteps
<1>12. CASE ClearCurrent
  BY <1>12 DEF ClearCurrent, Rejection, RejectedIsShown, IndInv, TypeOK,
     BootSteps
<1>13. CASE ClearPrevious
  BY <1>13 DEF ClearPrevious, Rejection, RejectedIsShown, IndInv, TypeOK,
     BootSteps
<1>14. CASE NoCandidate
  BY <1>14 DEF NoCandidate, Rejection, RejectedIsShown, IndInv, TypeOK,
     BootSteps
<1>15. CASE RejectCandidate
  BY <1>15 DEF RejectCandidate, Rejection, RejectedIsShown, IndInv, TypeOK,
     BootSteps
<1>16. CASE AcceptCandidate
  BY <1>16 DEF AcceptCandidate, Rejection, RejectedIsShown, IndInv, TypeOK,
     BootSteps
<1>17. CASE Suppress
  BY <1>17 DEF Suppress, ClearCandidate, RareFault, Rejection, RejectedIsShown,
     IndInv, TypeOK, BootSteps
<1>18. CASE Record
  BY <1>18 DEF Record, RareFault, Rejection, RejectedIsShown, IndInv, TypeOK,
     BootSteps
<1>19. CASE KeepCurrent
  BY <1>19 DEF KeepCurrent, Rejection, RejectedIsShown, IndInv, TypeOK,
     BootSteps
<1>20. CASE Promote
  BY <1>20 DEF Promote, Rejection, RejectedIsShown, IndInv, TypeOK, BootSteps
<1>21. CASE Discard
  BY <1>21 DEF Discard, ClearCandidate, Rejection, RejectedIsShown, IndInv,
     TypeOK, BootSteps
<1>22. CASE BootThrows
  BY <1>22 DEF BootThrows, BootSteps, Rejection, RejectedIsShown, IndInv,
     TypeOK
<1>23. CASE Initialize
  BY <1>23 DEF Initialize, BasePhase, Rejection, RejectedIsShown, IndInv,
     TypeOK, BootSteps
<1>24. CASE Check
  BY <1>24 DEF Check, Ready, Rejection, RejectedIsShown, IndInv, TypeOK,
     BootSteps
<1>25. CASE PublishCandidate
  BY <1>25 DEF PublishCandidate, Ready, Rejection, RejectedIsShown, IndInv,
     TypeOK, BootSteps
<1>26. CASE StageCandidate
  BY <1>26 DEF StageCandidate, Rejection, RejectedIsShown, IndInv, TypeOK,
     BootSteps
<1>27. CASE StageFails
  BY <1>27 DEF StageFails, RareFault, Rejection, RejectedIsShown, IndInv,
     TypeOK, BootSteps
<1>28. CASE RequestRestart
  BY <1>28 DEF RequestRestart, Ready, Rejection, RejectedIsShown, IndInv,
     TypeOK, BootSteps
<1>29. CASE Approve
  BY <1>29 DEF Approve, Rejection, RejectedIsShown, IndInv, TypeOK, BootSteps
<1>30. CASE RestartFails
  BY <1>30 DEF RestartFails, Rejection, RejectedIsShown, IndInv, TypeOK,
     BootSteps
<1>31. CASE Relaunch
  BY <1>31 DEF Relaunch, Exit, Rejection, RejectedIsShown, IndInv, TypeOK,
     BootSteps
<1>32. CASE \E who \in {"settings", "welcome"} : RequestRepair(who)
  BY <1>32 DEF RequestRepair, Answer, Ready, SyncedPhase, BasePhase, Rejection,
     RejectedIsShown, IndInv, TypeOK, BootSteps
<1>33. CASE RepairClear
  BY <1>33 DEF RepairClear, ClearCandidate, Rejection, RejectedIsShown, IndInv,
     TypeOK, BootSteps
<1>34. CASE RepairRemove
  BY <1>34 DEF RepairRemove, Answer, BasePhase, Rejection, RejectedIsShown,
     IndInv, TypeOK, BootSteps
<1>35. CASE RepairDone
  BY <1>35 DEF RepairDone, Answer, BasePhase, Rejection, RejectedIsShown,
     IndInv, TypeOK, BootSteps
<1>36. CASE RepairThrows
  BY <1>36 DEF RepairThrows, ClearCandidate, Rejection, RejectedIsShown,
     IndInv, TypeOK, BootSteps
<1>37. CASE RepairFails
  BY <1>37 DEF RepairFails, Answer, Rejection, RejectedIsShown, IndInv, TypeOK,
     BootSteps
<1>38. CASE RequestThrows
  BY <1>38 DEF RequestThrows, Rejection, RejectedIsShown, IndInv, TypeOK,
     BootSteps
<1>39. CASE \E i \in Installers : PublishSeed(i)
  BY <1>39 DEF PublishSeed, Rejection, RejectedIsShown, IndInv, TypeOK,
     BootSteps
<1>40. CASE \E i \in Installers : ActivateSeed(i)
  BY <1>40 DEF ActivateSeed, Rejection, RejectedIsShown, IndInv, TypeOK,
     BootSteps
<1>41. CASE \E i \in Installers : ActivateFails(i)
  BY <1>41 DEF ActivateFails, RareFault, Rejection, RejectedIsShown, IndInv,
     TypeOK, BootSteps
<1>42. CASE UNCHANGED vars
  BY <1>42 DEF vars, Rejection, RejectedIsShown, IndInv, TypeOK, BootSteps
<1> QED
  BY <1>1, <1>2, <1>3, <1>4, <1>5, <1>6, <1>7, <1>8, <1>9, <1>10, <1>11, <1>12,
     <1>13, <1>14, <1>15, <1>16, <1>17, <1>18, <1>19, <1>20, <1>21, <1>22,
     <1>23, <1>24, <1>25, <1>26, <1>27, <1>28, <1>29, <1>30, <1>31, <1>32,
     <1>33, <1>34, <1>35, <1>36, <1>37, <1>38, <1>39, <1>40, <1>41, <1>42
     DEF Next, Boot, Manage, Install

\* A step without a double fault that leaves the disk unharmed leaves a usable
\* Runtime where there was one, or is a launch giving up what it misjudged.
LEMMA UsableStep ==
  ASSUME IndInv, Unharmed, Usable(current) \/ Usable(previous), [Next]_vars
  PROVE  \/ Usable(current)' \/ Usable(previous)'
         \/ /\ step \in {"clearCurrent", "clearPrevious"}
            /\ UsableReferences \subseteq misread
<1>1. CASE Launch
  BY <1>1 DEF Unharmed, Launch, TypeOK, Apart, Progress, Usable, Valid,
     JournalValid, IndInv
<1>2. CASE Quit
  BY <1>2 DEF Unharmed, Quit, Exit, TypeOK, Apart, Progress, Usable, Valid,
     JournalValid, IndInv
<1>3. CASE Crash
  BY <1>3 DEF Unharmed, Crash, Exit, TypeOK, Apart, Progress, Usable, Valid,
     JournalValid, IndInv
<1>4. CASE \E d \in Dirs : Damage(d)
  BY <1>4 DEF Unharmed, Damage, TypeOK, Apart, Progress, Usable, Valid,
     JournalValid, IndInv
<1>5. CASE DropCurrent
  BY <1>5 DEF Unharmed, DropCurrent, TypeOK, Apart, Progress, Usable, Valid,
     JournalValid, IndInv
<1>6. CASE DropPrevious
  BY <1>6 DEF Unharmed, DropPrevious, TypeOK, Apart, Progress, Usable, Valid,
     JournalValid, IndInv
<1>7. CASE DropCandidate
  BY <1>7 DEF Unharmed, DropCandidate, ClearCandidate, TypeOK, Apart, Progress,
     Usable, Valid, JournalValid, IndInv
<1>8. CASE Baseline
  BY <1>8 DEF Unharmed, Baseline, Misjudged, TypeOK, Apart, Progress, Usable,
     Valid, JournalValid, IndInv
<1>9. CASE RollCurrent
  BY <1>9 DEF Unharmed, RollCurrent, TypeOK, Apart, Progress, Usable, Valid,
     JournalValid, IndInv
<1>10. CASE RollPrevious
  BY <1>10 DEF Unharmed, RollPrevious, TypeOK, Apart, Progress, Usable, Valid,
     JournalValid, IndInv
<1>11. CASE RollCandidate
  BY <1>11 DEF Unharmed, RollCandidate, ClearCandidate, TypeOK, Apart,
     Progress, Usable, Valid, JournalValid, IndInv
<1>12. CASE ClearCurrent
  BY <1>12 DEF Unharmed, ClearCurrent, UsableReferences, TypeOK, Apart,
     Progress, Usable, Valid, JournalValid, IndInv
<1>13. CASE ClearPrevious
  BY <1>13 DEF Unharmed, ClearPrevious, UsableReferences, TypeOK, Apart,
     Progress, Usable, Valid, JournalValid, IndInv
<1>14. CASE NoCandidate
  BY <1>14 DEF Unharmed, NoCandidate, TypeOK, Apart, Progress, Usable, Valid,
     JournalValid, IndInv
<1>15. CASE RejectCandidate
  BY <1>15 DEF Unharmed, RejectCandidate, TypeOK, Apart, Progress, Usable,
     Valid, JournalValid, IndInv
<1>16. CASE AcceptCandidate
  BY <1>16 DEF Unharmed, AcceptCandidate, TypeOK, Apart, Progress, Usable,
     Valid, JournalValid, IndInv
<1>17. CASE Suppress
  BY <1>17 DEF Unharmed, Suppress, ClearCandidate, RareFault, TypeOK, Apart,
     Progress, Usable, Valid, JournalValid, IndInv
<1>18. CASE Record
  BY <1>18 DEF Unharmed, Record, RareFault, TypeOK, Apart, Progress, Usable,
     Valid, JournalValid, IndInv
<1>19. CASE KeepCurrent
  BY <1>19 DEF Unharmed, KeepCurrent, TypeOK, Apart, Progress, Usable, Valid,
     JournalValid, IndInv, UsableReferences
<1>20. CASE Promote
  BY <1>20 DEF Unharmed, Promote, TypeOK, Apart, Progress, Usable, Valid,
     JournalValid, IndInv
<1>21. CASE Discard
  BY <1>21 DEF Unharmed, Discard, ClearCandidate, TypeOK, Apart, Progress,
     Usable, Valid, JournalValid, IndInv
<1>22. CASE BootThrows
  BY <1>22 DEF Unharmed, BootThrows, BootSteps, TypeOK, Apart, Progress,
     Usable, Valid, JournalValid, IndInv
<1>23. CASE Initialize
  BY <1>23 DEF Unharmed, Initialize, BasePhase, TypeOK, Apart, Progress,
     Usable, Valid, JournalValid, IndInv
<1>24. CASE Check
  BY <1>24 DEF Unharmed, Check, Ready, TypeOK, Apart, Progress, Usable, Valid,
     JournalValid, IndInv
<1>25. CASE PublishCandidate
  BY <1>25 DEF Unharmed, PublishCandidate, Ready, TypeOK, Apart, Progress,
     Usable, Valid, JournalValid, IndInv
<1>26. CASE StageCandidate
  BY <1>26 DEF Unharmed, StageCandidate, TypeOK, Apart, Progress, Usable,
     Valid, JournalValid, IndInv
<1>27. CASE StageFails
  BY <1>27 DEF Unharmed, StageFails, RareFault, TypeOK, Apart, Progress,
     Usable, Valid, JournalValid, IndInv
<1>28. CASE RequestRestart
  BY <1>28 DEF Unharmed, RequestRestart, Ready, TypeOK, Apart, Progress,
     Usable, Valid, JournalValid, IndInv
<1>29. CASE Approve
  BY <1>29 DEF Unharmed, Approve, TypeOK, Apart, Progress, Usable, Valid,
     JournalValid, IndInv
<1>30. CASE RestartFails
  BY <1>30 DEF Unharmed, RestartFails, TypeOK, Apart, Progress, Usable, Valid,
     JournalValid, IndInv
<1>31. CASE Relaunch
  BY <1>31 DEF Unharmed, Relaunch, Exit, TypeOK, Apart, Progress, Usable,
     Valid, JournalValid, IndInv
<1>32. CASE \E who \in {"settings", "welcome"} : RequestRepair(who)
  BY <1>32 DEF Unharmed, RequestRepair, Answer, Ready, SyncedPhase, BasePhase,
     TypeOK, Apart, Progress, Usable, Valid, JournalValid, IndInv
<1>33. CASE RepairClear
  BY <1>33 DEF Unharmed, RepairClear, ClearCandidate, TypeOK, Apart, Progress,
     Usable, Valid, JournalValid, IndInv
<1>34. CASE RepairRemove
  BY <1>34 DEF Unharmed, RepairRemove, Answer, BasePhase, TypeOK, Apart,
     Progress, Usable, Valid, JournalValid, IndInv
<1>35. CASE RepairDone
  BY <1>35 DEF Unharmed, RepairDone, Answer, BasePhase, TypeOK, Apart,
     Progress, Usable, Valid, JournalValid, IndInv
<1>36. CASE RepairThrows
  BY <1>36 DEF Unharmed, RepairThrows, ClearCandidate, TypeOK, Apart, Progress,
     Usable, Valid, JournalValid, IndInv
<1>37. CASE RepairFails
  BY <1>37 DEF Unharmed, RepairFails, Answer, TypeOK, Apart, Progress, Usable,
     Valid, JournalValid, IndInv
<1>38. CASE RequestThrows
  BY <1>38 DEF Unharmed, RequestThrows, TypeOK, Apart, Progress, Usable, Valid,
     JournalValid, IndInv
<1>39. CASE \E i \in Installers : PublishSeed(i)
  BY <1>39 DEF Unharmed, PublishSeed, TypeOK, Apart, Progress, Usable, Valid,
     JournalValid, IndInv, MayInstall
<1>40. CASE \E i \in Installers : ActivateSeed(i)
  BY <1>40 DEF Unharmed, ActivateSeed, TypeOK, Apart, Progress, Usable, Valid,
     JournalValid, IndInv
<1>41. CASE \E i \in Installers : ActivateFails(i)
  BY <1>41 DEF Unharmed, ActivateFails, RareFault, TypeOK, Apart, Progress,
     Usable, Valid, JournalValid, IndInv
<1>42. CASE UNCHANGED vars
  BY <1>42 DEF Unharmed, vars, TypeOK, Apart, Progress, Usable, Valid,
     JournalValid, IndInv
<1> QED
  BY <1>1, <1>2, <1>3, <1>4, <1>5, <1>6, <1>7, <1>8, <1>9, <1>10, <1>11,
     <1>12, <1>13, <1>14, <1>15, <1>16, <1>17, <1>18, <1>19, <1>20, <1>21,
     <1>22, <1>23, <1>24, <1>25, <1>26, <1>27, <1>28, <1>29, <1>30, <1>31,
     <1>32, <1>33, <1>34, <1>35, <1>36, <1>37, <1>38, <1>39, <1>40, <1>41,
     <1>42
     DEF Next, Boot, Manage, Install

\* Without a double fault, what is removed is named by no pointer.
LEMMA RemovalStep ==
  ASSUME IndInv, Unharmed, NEW d \in versions, d \notin versions', [Next]_vars
  PROVE  d \notin {current', previous', candidate'}
<1>1. CASE Launch
  BY <1>1 DEF Unharmed, Launch, IndInv, TypeOK, Apart, Valid
<1>2. CASE Quit
  BY <1>2 DEF Unharmed, Quit, Exit, IndInv, TypeOK, Apart, Valid
<1>3. CASE Crash
  BY <1>3 DEF Unharmed, Crash, Exit, IndInv, TypeOK, Apart, Valid
<1>4. CASE \E e \in Dirs : Damage(e)
  BY <1>4 DEF Unharmed, Damage, IndInv, TypeOK, Apart, Valid
<1>5. CASE DropCurrent
  BY <1>5 DEF Unharmed, DropCurrent, IndInv, TypeOK, Apart, Valid
<1>6. CASE DropPrevious
  BY <1>6 DEF Unharmed, DropPrevious, IndInv, TypeOK, Apart, Valid
<1>7. CASE DropCandidate
  BY <1>7 DEF Unharmed, DropCandidate, ClearCandidate, IndInv, TypeOK, Apart,
     Valid
<1>8. CASE Baseline
  BY <1>8 DEF Unharmed, Baseline, Misjudged, IndInv, TypeOK, Apart, Valid
<1>9. CASE RollCurrent
  BY <1>9 DEF Unharmed, RollCurrent, IndInv, TypeOK, Apart, Valid
<1>10. CASE RollPrevious
  BY <1>10 DEF Unharmed, RollPrevious, IndInv, TypeOK, Apart, Valid
<1>11. CASE RollCandidate
  BY <1>11 DEF Unharmed, RollCandidate, ClearCandidate, IndInv, TypeOK, Apart,
     Valid
<1>12. CASE ClearCurrent
  BY <1>12 DEF Unharmed, ClearCurrent, IndInv, TypeOK, Apart, Valid
<1>13. CASE ClearPrevious
  BY <1>13 DEF Unharmed, ClearPrevious, IndInv, TypeOK, Apart, Valid
<1>14. CASE NoCandidate
  BY <1>14 DEF Unharmed, NoCandidate, IndInv, TypeOK, Apart, Valid
<1>15. CASE RejectCandidate
  BY <1>15 DEF Unharmed, RejectCandidate, IndInv, TypeOK, Apart, Valid
<1>16. CASE AcceptCandidate
  BY <1>16 DEF Unharmed, AcceptCandidate, IndInv, TypeOK, Apart, Valid
<1>17. CASE Suppress
  BY <1>17 DEF Unharmed, Suppress, ClearCandidate, RareFault, IndInv, TypeOK,
     Apart, Valid
<1>18. CASE Record
  BY <1>18 DEF Unharmed, Record, RareFault, IndInv, TypeOK, Apart, Valid
<1>19. CASE KeepCurrent
  BY <1>19 DEF Unharmed, KeepCurrent, IndInv, TypeOK, Apart, Valid
<1>20. CASE Promote
  BY <1>20 DEF Unharmed, Promote, IndInv, TypeOK, Apart, Valid
<1>21. CASE Discard
  BY <1>21 DEF Unharmed, Discard, ClearCandidate, IndInv, TypeOK, Apart, Valid
<1>22. CASE BootThrows
  BY <1>22 DEF Unharmed, BootThrows, BootSteps, IndInv, TypeOK, Apart, Valid
<1>23. CASE Initialize
  BY <1>23 DEF Unharmed, Initialize, BasePhase, IndInv, TypeOK, Apart, Valid
<1>24. CASE Check
  BY <1>24 DEF Unharmed, Check, Ready, IndInv, TypeOK, Apart, Valid
<1>25. CASE PublishCandidate
  BY <1>25 DEF Unharmed, PublishCandidate, Ready, IndInv, TypeOK, Apart, Valid
<1>26. CASE StageCandidate
  BY <1>26 DEF Unharmed, StageCandidate, IndInv, TypeOK, Apart, Valid
<1>27. CASE StageFails
  BY <1>27 DEF Unharmed, StageFails, RareFault, IndInv, TypeOK, Apart, Valid
<1>28. CASE RequestRestart
  BY <1>28 DEF Unharmed, RequestRestart, Ready, IndInv, TypeOK, Apart, Valid
<1>29. CASE Approve
  BY <1>29 DEF Unharmed, Approve, IndInv, TypeOK, Apart, Valid
<1>30. CASE RestartFails
  BY <1>30 DEF Unharmed, RestartFails, IndInv, TypeOK, Apart, Valid
<1>31. CASE Relaunch
  BY <1>31 DEF Unharmed, Relaunch, Exit, IndInv, TypeOK, Apart, Valid
<1>32. CASE \E who \in {"settings", "welcome"} : RequestRepair(who)
  BY <1>32 DEF Unharmed, RequestRepair, Answer, Ready, SyncedPhase, BasePhase,
     IndInv, TypeOK, Apart, Valid
<1>33. CASE RepairClear
  BY <1>33 DEF Unharmed, RepairClear, ClearCandidate, IndInv, TypeOK, Apart,
     Valid
<1>34. CASE RepairRemove
  BY <1>34 DEF Unharmed, RepairRemove, Answer, BasePhase, IndInv, TypeOK,
     Apart, Valid
<1>35. CASE RepairDone
  BY <1>35 DEF Unharmed, RepairDone, Answer, BasePhase, IndInv, TypeOK, Apart,
     Valid
<1>36. CASE RepairThrows
  BY <1>36 DEF Unharmed, RepairThrows, ClearCandidate, IndInv, TypeOK, Apart,
     Valid
<1>37. CASE RepairFails
  BY <1>37 DEF Unharmed, RepairFails, Answer, IndInv, TypeOK, Apart, Valid
<1>38. CASE RequestThrows
  BY <1>38 DEF Unharmed, RequestThrows, IndInv, TypeOK, Apart, Valid
<1>39. CASE \E i \in Installers : PublishSeed(i)
  BY <1>39 DEF Unharmed, PublishSeed, IndInv, TypeOK, Apart, Valid
<1>40. CASE \E i \in Installers : ActivateSeed(i)
  BY <1>40 DEF Unharmed, ActivateSeed, IndInv, TypeOK, Apart, Valid
<1>41. CASE \E i \in Installers : ActivateFails(i)
  BY <1>41 DEF Unharmed, ActivateFails, RareFault, IndInv, TypeOK, Apart, Valid
<1>42. CASE UNCHANGED vars
  BY <1>42 DEF Unharmed, vars, IndInv, TypeOK, Apart, Valid
<1> QED
  BY <1>1, <1>2, <1>3, <1>4, <1>5, <1>6, <1>7, <1>8, <1>9, <1>10, <1>11,
     <1>12, <1>13, <1>14, <1>15, <1>16, <1>17, <1>18, <1>19, <1>20, <1>21,
     <1>22, <1>23, <1>24, <1>25, <1>26, <1>27, <1>28, <1>29, <1>30, <1>31,
     <1>32, <1>33, <1>34, <1>35, <1>36, <1>37, <1>38, <1>39, <1>40, <1>41,
     <1>42
     DEF Next, Boot, Manage, Install

-----------------------------------------------------------------------------
LEMMA Initially == Init => IndInv
<1> SUFFICES ASSUME Init  PROVE IndInv
  OBVIOUS
<1>1. TypeOK
  <2>1. /\ {current, previous, candidate, failure, held, observed, rejected}
             = {None}
        /\ {versions, damaged, proven, seeds, asked, misread} = {{}}
    BY DEF Init
  <2>2. fresh \in [Installers -> Named]
    BY DEF Init
  <2>3. /\ used \in 0..MaxDirs /\ crashes \in 0..MaxCrashes
        /\ damage \in 0..MaxDamage /\ faults \in 0..MaxFaults
    BY DEF Init
  <2>4. /\ step = "off" /\ op = "idle" /\ caller = "settings"
        /\ shown = "none" /\ welcome = "idle"
        /\ approved = FALSE /\ offer = FALSE /\ offline = FALSE
        /\ died = "none"
    BY DEF Init
  <2> QED
    BY <2>1, <2>2, <2>3, <2>4 DEF TypeOK, BootSteps, Operations, Phases
<1>2. Provenance /\ Apart
  BY DEF Init, Provenance, Reviewed, Apart
<1>3. Progress
  BY DEF Init, Progress
<1>4. Undo /\ Rejection
  BY DEF Init, Undo, PromotionCanBeUndone, Rejection, RejectedIsShown
<1> QED  BY <1>1, <1>2, <1>3, <1>4 DEF IndInv

LEMMA Invariance == Spec => []IndInv
<1>1. IndInv /\ [Next]_vars => IndInv'
  BY TypeStep, ProvenanceStep, ApartStep, ProgressStep, UndoStep, RejectionStep
     DEF IndInv
<1> QED  BY <1>1, Initially, PTL DEF Spec

\* Pointers, records and operations name versions that were extracted, each
\* into a directory of its own.
THEOREM TypeCorrect == Spec => []TypeOK
<1>1. IndInv => TypeOK
  BY DEF IndInv
<1> QED  BY <1>1, Invariance, PTL

\* What current names passed its health check and came from the packaged Seed
\* or was approved by the user (bootstrapRuntimeDistribution, retryRepair,
\* installPackagedSeed), whatever dies or fails, and how often.
THEOREM Reviews == Spec => []OnlyReviewedRuntimes
<1>1. IndInv => OnlyReviewedRuntimes
  BY DEF IndInv, Provenance, Reviewed, OnlyReviewedRuntimes
<1> QED  BY <1>1, Invariance, PTL

\* No step of a promotion, a rollback, an installation or a repair, and so no
\* death between two of them, takes the last usable Runtime away
\* (RuntimeStateStore, retryRepair, installPackagedSeed), however often
\* verification has failed for a passing reason before; excepted are a step
\* that fails twice over, and recoverUsableCurrent giving up versions that it
\* misjudged.
THEOREM StaysUsable == Spec => KeepsAUsableRuntime
<1>1. IndInv /\ [Next]_vars =>
        [Unharmed /\ UsableReferences # {} /\ UsableReferences' = {} =>
           /\ step \in {"clearCurrent", "clearPrevious"}
           /\ UsableReferences \subseteq misread]_vars
  BY UsableStep DEF UsableReferences, Usable
<1> QED  BY <1>1, Invariance, PTL DEF Spec, KeepsAUsableRuntime

\* No directory is removed that a pointer names, by the removal of a failed
\* candidate as little as by the cleanup of a failed download or installation.
THEOREM KeepsReferenced == Spec => ReferencedVersionsKept
<1>1. IndInv /\ [Next]_vars =>
        [Unharmed =>
           \A d \in versions : d \in {current', previous', candidate'}
                                 => d \in versions']_vars
  BY RemovalStep
<1> QED  BY <1>1, Invariance, PTL DEF Spec, ReferencedVersionsKept

\* A promotion that ran to its end, also across deaths, leaves a previous
\* version other than the one it made current, unless a launch has once
\* misjudged that one (RuntimeStateStore.promoteCandidate, rollback and
\* recoverUsableCurrent).
THEOREM Undoable == Spec => []PromotionCanBeUndone
<1>1. IndInv => PromotionCanBeUndone
  BY DEF IndInv, Undo
<1> QED  BY <1>1, Invariance, PTL

\* Without a double fault no launch tries a candidate again that a launch has
\* rejected, unless the user asked for it or that launch died before it had
\* suppressed it (suppressFailedCandidate and restartToApply).
THEOREM NoRetry == Spec => []NoUnaskedRetry
<1>1. IndInv => NoUnaskedRetry
  BY DEF IndInv, Rejection, NoUnaskedRetry
<1> QED  BY <1>1, Invariance, PTL

\* Without a double fault a rejected candidate is never presented as ready to
\* apply, unless the launch died between its suppression and the failure record,
\* which lasts as long as the pointer (createBaseState).
THEOREM RejectedShown == Spec => []RejectedIsShown
<1>1. IndInv => RejectedIsShown
  BY DEF IndInv, Rejection
<1> QED  BY <1>1, Invariance, PTL
=============================================================================
