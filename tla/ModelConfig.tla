----------------------------- MODULE ModelConfig -----------------------------
(***************************************************************************)
(* The model-configuration transaction of Aera Desktop: the coordinator of *)
(* src/main/model-configuration-coordinator.ts over the durable journal,   *)
(* the sibling backups and the five managed files of                       *)
(* src/main/model-configuration-operation-store.ts.                        *)
(*                                                                         *)
(* Every profile has its own .env, providers.json and config.yaml;         *)
(* models.json and model-definitions.json are shared by all profiles.  An  *)
(* operation plans against the bytes it reads, queues for the write        *)
(* authority, journals the digests it is about to replace, saves backups,  *)
(* writes its stages in dependency order and verifies.  Any failure rolls  *)
(* it back from the backups; a crash leaves the row to startup recovery.   *)
(*                                                                         *)
(* File bytes are abstracted to who wrote them: <<o, s>> is what operation *)
(* o writes in its stage s, and digests are compared as contents.  The     *)
(* variables file, journal, rows and backup are on disk; intent is a       *)
(* history variable; the others are the process's memory.                  *)
(***************************************************************************)
EXTENDS Naturals, Sequences, FiniteSets

CONSTANTS Profiles,     \* profile ids of the signed-in owner
          Global,       \* the owner of the two shared catalog files
          Routes,       \* canonical route keys
          BaseRoute,    \* the route active in every profile at first
          Requests,     \* the kinds of request callers make
          Missing,      \* files that do not exist at first
          MaxOps,       \* bound: operations journalled in one behaviour
          MaxCrashes    \* bound: process deaths in one behaviour

FileRoles   == {"env", "providers", "models", "modelDefinitions", "config"}
GlobalRoles == {"models", "modelDefinitions"}
LocalRoles  == FileRoles \ GlobalRoles
CommitStages ==
  <<"credential", "provider", "model_library", "native_route", "activation">>
StageFiles ==
  {<<"credential", "env">>, <<"provider", "providers">>,
   <<"model_library", "models">>, <<"model_library", "modelDefinitions">>,
   <<"native_route", "config">>, <<"activation", "config">>}
Stages == {sf[1] : sf \in StageFiles}
Kinds  == {"mutate", "managed_global", "managed_profile"}

\* FILE_ROLES order, in which backups are made and removed; files are restored
\* in the reverse order.
RoleIndex == [env |-> 1, providers |-> 2, models |-> 3,
              modelDefinitions |-> 4, config |-> 5]
FirstRole(r, S) == r \in S /\ \A x \in S : RoleIndex[r] <= RoleIndex[x]
LastRole(r, S)  == r \in S /\ \A x \in S : RoleIndex[r] >= RoleIndex[x]

Path(p, r) == IF r \in GlobalRoles THEN <<Global, r>> ELSE <<p, r>>
Files      == (Profiles \X LocalRoles) \cup ({Global} \X GlobalRoles)
Ops        == 1..MaxOps
Absent     == <<0, "absent">>
Base       == <<0, "base">>
NoDigest   == <<0, "none">>
Contents   == {Absent, Base, NoDigest} \cup (Ops \X Stages)

ASSUME ConstantsAssumption ==
  /\ Global \notin Profiles
  /\ BaseRoute \in Routes
  /\ Requests \subseteq [kind   : Kinds,
                         writes : SUBSET StageFiles,
                         moves  : BOOLEAN]
  /\ \A q \in Requests : q.moves => <<"activation", "config">> \in q.writes
  /\ Missing \subseteq Files
  /\ MaxOps \in Nat
  /\ MaxCrashes \in Nat

VARIABLES
  file,             \* contents of every managed file
  journal,          \* the operation rows
  rows,             \* rows inserted so far; rows are numbered in created_at order
  backup,           \* roles whose backup sibling exists, per operation
  intent,           \* history: the files an operation set out to write
  phase,            \* "recovering" at startup, "up" once IPC is registered
  list,             \* incomplete rows startup recovery still has to handle
  recoveryRequired, \* the coordinator's in-memory recovery locks
  queue,            \* the write authority: its head holds the permit
  pc, req, tx,      \* per profile: control, planned request, open transaction
  crashes           \* process deaths so far

vars == <<file, journal, rows, backup, intent, phase, list,
          recoveryRequired, queue, pc, req, tx, crashes>>
memory == <<phase, list, crashes>>

RowStates == {"none", "prepared", "verification", "committed", "rolled_back",
              "recovery_required"} \cup Stages
Row == [profile : Profiles \cup {Global}, state : RowStates,
        old : Routes, new : Routes,
        before : [FileRoles -> Contents], after : [FileRoles -> Contents]]
NoDigests == [r \in FileRoles |-> NoDigest]
NoRow == [profile |-> Global, state |-> "none", old |-> BaseRoute,
          new |-> BaseRoute, before |-> NoDigests, after |-> NoDigests]
NoReq == [kind |-> "mutate", writes |-> {}, new |-> BaseRoute,
          planned |-> NoDigests]
NoTx  == [op |-> 0, stage |-> 1, todo |-> {}]

PermitStates == {"backup", "stage", "verify", "commit", "rollback", "restore",
                 "recover", "cleanup"}
PcStates     == {"idle", "planned", "queued"} \cup PermitStates

-----------------------------------------------------------------------------
(* Reading the files and the journal. *)

DigestsIn(f, p) == [r \in FileRoles |-> f[Path(p, r)]]
Digests(p)      == DigestsIn(file, p)

\* The route config.yaml selects: the last stage writes the new route into
\* it, the native-route stage edits it and keeps the old one.
RouteOf(c) ==
  IF c[1] = 0 THEN BaseRoute
  ELSE LET row == journal[c[1]]
       IN  IF c[2] = "activation" THEN row.new ELSE row.old
ActiveRoute(p) == RouteOf(file[<<p, "config">>])

Terminal      == {"none", "committed", "rolled_back"}
IncompleteRow(o) == journal[o].state \notin Terminal
Incomplete    == {o \in Ops : IncompleteRow(o)}

ProfileNeedsRecovery(p) ==
  p \in recoveryRequired \/ \E o \in Incomplete : journal[o].profile = p
\* Variant: other profiles' unfinished operations are not looked at.
AnyProfileNeedsRecovery_Ignored == FALSE
AnyProfileNeedsRecovery == recoveryRequired # {} \/ Incomplete # {}

\* Variant: only catalog-wide writes ask whether recovery is pending.
NeedsRecovery_GlobalOnly(p, kind) ==
  kind = "managed_global" /\ AnyProfileNeedsRecovery
NeedsRecovery(p, kind) ==
  \/ ProfileNeedsRecovery(p)
  \/ kind = "managed_global" /\ AnyProfileNeedsRecovery

Op(p)    == tx[p].op
RowOf(p) == journal[Op(p)]
Holds(p) == queue # <<>> /\ Head(queue) = p

\* The roles stage number i of a request writes.
StageRoles(writes, i) == {r \in FileRoles : <<CommitStages[i], r>> \in writes}

Goto(p, l)       == pc' = [pc EXCEPT ![p] = l]
SetState(o, s)   == journal' = [journal EXCEPT ![o].state = s]
Open(p, o, i, t) == tx' = [tx EXCEPT ![p] = [op |-> o, stage |-> i, todo |-> t]]
Done(p, r)       == tx' = [tx EXCEPT ![p].todo = @ \ {r}]

\* Variant: the permit is not handed on.
Leave_KeepsPermit(p) ==
  /\ Goto(p, "idle")
  /\ req' = [req EXCEPT ![p] = NoReq]
  /\ tx' = [tx EXCEPT ![p] = NoTx]
  /\ queue' = queue

\* The request ends and the permit passes to the next in line.
Leave(p) ==
  /\ Goto(p, "idle")
  /\ queue' = Tail(queue)
  /\ req' = [req EXCEPT ![p] = NoReq]
  /\ tx' = [tx EXCEPT ![p] = NoTx]

-----------------------------------------------------------------------------
(* Admission: mutate, initializeManagedModelFiles and runManagedWrite. *)

\* Under the profile's lock: recovery checks, then the plan is computed from
\* the files as they are now, before any permit is held.
Plan(p, q) ==
  /\ phase = "up" /\ pc[p] = "idle" /\ rows < MaxOps
  /\ ~NeedsRecovery(p, q.kind)
  /\ \E r \in IF q.moves THEN Routes \ {ActiveRoute(p)} ELSE {ActiveRoute(p)} :
       req' = [req EXCEPT ![p] = [kind |-> q.kind, writes |-> q.writes,
                                  new |-> r, planned |-> Digests(p)]]
  /\ Goto(p, "planned")
  /\ UNCHANGED <<file, journal, rows, backup, intent, phase, list,
                 recoveryRequired, queue, tx, crashes>>

Enqueue(p) ==
  /\ pc[p] = "planned"
  /\ Goto(p, "queued")
  /\ queue' = Append(queue, p)
  /\ UNCHANGED <<file, journal, rows, backup, intent, memory,
                 recoveryRequired, req, tx>>

\* Variant: only the digests are compared again.
Admissible_DigestsOnly(p) ==
  req[p].kind # "mutate" => req[p].planned = Digests(p)

\* What is checked again once the permit is granted: managed writes recheck
\* recovery and all five digests; mutate and initialization do not.
Admissible(p) ==
  req[p].kind # "mutate" =>
    /\ ~NeedsRecovery(p, req[p].kind)
    /\ req[p].planned = Digests(p)

\* Capture and journal the operation; nothing on disk has changed yet.
Begin(p) ==
  /\ pc[p] = "queued" /\ Holds(p) /\ Admissible(p) /\ rows < MaxOps
  /\ LET o == rows + 1 IN
       /\ rows' = o
       /\ journal' = [journal EXCEPT ![o] =
            [profile |-> p, state |-> "prepared", old |-> ActiveRoute(p),
             new |-> req[p].new, before |-> Digests(p), after |-> NoDigests]]
       /\ intent' = [intent EXCEPT ![o] = req[p].writes]
       /\ Open(p, o, 1, {r \in FileRoles : file[Path(p, r)] # Absent})
  /\ Goto(p, "backup")
  /\ UNCHANGED <<file, backup, memory, recoveryRequired, queue, req>>

\* The owner guard throws, the recheck fails or the snapshot cannot be taken.
Reject(p) ==
  /\ \/ pc[p] = "planned" /\ queue' = queue
     \/ pc[p] = "queued" /\ Holds(p) /\ queue' = Tail(queue)
  /\ Goto(p, "idle")
  /\ req' = [req EXCEPT ![p] = NoReq]
  /\ UNCHANGED <<file, journal, rows, backup, intent, memory,
                 recoveryRequired, tx>>

-----------------------------------------------------------------------------
(* The transaction: executeLocalMutationWithinPermit. *)

PersistBackup(p, r) ==
  /\ pc[p] = "backup" /\ FirstRole(r, tx[p].todo)
  /\ backup' = [backup EXCEPT ![Op(p)] = @ \cup {r}]
  /\ Done(p, r)
  /\ UNCHANGED <<file, journal, rows, intent, memory, recoveryRequired,
                 queue, pc, req>>

\* Variant: the stages start while backups are still being written.
BackupsPersisted_Early(p) ==
  /\ pc[p] = "backup"
  /\ Open(p, Op(p), 1, StageRoles(req[p].writes, 1))
  /\ Goto(p, "stage")
  /\ UNCHANGED <<file, journal, rows, backup, intent, memory,
                 recoveryRequired, queue, req>>

BackupsPersisted(p) ==
  /\ pc[p] = "backup" /\ tx[p].todo = {}
  /\ Open(p, Op(p), 1, StageRoles(req[p].writes, 1))
  /\ Goto(p, "stage")
  /\ UNCHANGED <<file, journal, rows, backup, intent, memory,
                 recoveryRequired, queue, req>>

\* Variant: plans are applied without comparing bytes.
PlanIsFresh_Unchecked(p) == TRUE

\* Write plans carry the bytes they were computed from and refuse others.
PlanIsFresh(p) ==
  \A r \in tx[p].todo : file[Path(p, r)] = req[p].planned[r]

\* The permit of a profile-scoped write does not cover the shared catalog.
ScopeAllows(p, r) == req[p].kind = "managed_profile" => r \notin GlobalRoles

WriteFile(p, r) ==
  /\ pc[p] = "stage" /\ r \in tx[p].todo
  /\ PlanIsFresh(p) /\ ScopeAllows(p, r)
  /\ file' = [file EXCEPT ![Path(p, r)] = <<Op(p), CommitStages[tx[p].stage]>>]
  /\ Done(p, r)
  /\ UNCHANGED <<journal, rows, backup, intent, memory, recoveryRequired,
                 queue, pc, req>>

\* The stage is recorded with the digests read back after it.
AdvanceStage(p) ==
  /\ pc[p] = "stage" /\ tx[p].todo = {}
  /\ LET i == tx[p].stage IN
       /\ journal' = [journal EXCEPT ![Op(p)].state = CommitStages[i],
                                     ![Op(p)].after = Digests(p)]
       /\ IF i < Len(CommitStages)
            THEN /\ Open(p, Op(p), i + 1, StageRoles(req[p].writes, i + 1))
                 /\ pc' = pc
            ELSE Goto(p, "verify") /\ tx' = tx
  /\ UNCHANGED <<file, rows, backup, intent, memory, recoveryRequired,
                 queue, req>>

Verified(p) ==
  /\ pc[p] = "verify" /\ ActiveRoute(p) = RowOf(p).new
  /\ journal' = [journal EXCEPT ![Op(p)].state = "verification",
                                ![Op(p)].after = Digests(p)]
  /\ Goto(p, "commit")
  /\ UNCHANGED <<file, rows, backup, intent, memory, recoveryRequired,
                 queue, req, tx>>

Commit(p) ==
  /\ pc[p] = "commit"
  /\ SetState(Op(p), "committed")
  /\ Goto(p, "cleanup")
  /\ UNCHANGED <<file, rows, backup, intent, memory, recoveryRequired,
                 queue, req, tx>>

\* Anything throws after the backups: a write, a digest, a journal update,
\* the verification or the owner guard.
Fail(p) ==
  /\ \/ pc[p] = "backup" /\ tx[p].todo = {}
     \/ pc[p] \in {"stage", "verify", "commit"}
  /\ Goto(p, "rollback")
  /\ UNCHANGED <<file, journal, rows, backup, intent, memory,
                 recoveryRequired, queue, req, tx>>

-----------------------------------------------------------------------------
(* rollbackLocalMutation, and the same steps of startup recovery. *)

\* Variant: the route alone decides that nothing is left to restore.
Restored_RouteOnly(p) == ActiveRoute(p) = RowOf(p).old
Restored(p) == /\ Digests(p) = RowOf(p).before
               /\ ActiveRoute(p) = RowOf(p).old
\* Variant: the route is not compared.
AfterStateReached_BytesOnly(p) == /\ RowOf(p).after # NoDigests
                                  /\ Digests(p) = RowOf(p).after
AfterStateReached(p) == /\ RowOf(p).after # NoDigests
                        /\ Digests(p) = RowOf(p).after
                        /\ ActiveRoute(p) = RowOf(p).new

\* Startup recovery only: the row is recognized as committed.
RecognizeCommitted(p) ==
  /\ pc[p] = "recover" /\ AfterStateReached(p)
  /\ SetState(Op(p), "committed")
  /\ Goto(p, "cleanup")
  /\ UNCHANGED <<file, rows, backup, intent, memory, recoveryRequired,
                 queue, req, tx>>

Undoing(p) == \/ pc[p] = "rollback"
              \/ pc[p] = "recover" /\ ~AfterStateReached(p)

StartRestore(p) ==
  /\ Undoing(p) /\ ~Restored(p)
  /\ Open(p, Op(p), 1, FileRoles)
  /\ Goto(p, "restore")
  /\ UNCHANGED <<file, journal, rows, backup, intent, memory,
                 recoveryRequired, queue, req>>

CanRestore(p, r) == RowOf(p).before[r] = Absent \/ r \in backup[Op(p)]

RestoreFile(p, r) ==
  /\ pc[p] = "restore" /\ LastRole(r, tx[p].todo) /\ CanRestore(p, r)
  /\ file' = [file EXCEPT ![Path(p, r)] = RowOf(p).before[r]]
  /\ Done(p, r)
  /\ UNCHANGED <<journal, rows, backup, intent, memory, recoveryRequired,
                 queue, pc, req>>

\* Rolled back: either nothing had to be restored, or everything was.
FinishRollback(p) ==
  /\ Undoing(p) \/ (pc[p] = "restore" /\ tx[p].todo = {})
  /\ Restored(p)
  /\ SetState(Op(p), "rolled_back")
  /\ Goto(p, "cleanup")
  /\ UNCHANGED <<file, rows, backup, intent, memory, recoveryRequired,
                 queue, req, tx>>

\* The undo throws, or the backups could not all be made: the profile is
\* locked, and the row says so unless the journal cannot be written either.
GiveUp(p) ==
  /\ pc[p] \in {"backup", "rollback", "restore", "recover"}
  /\ \/ SetState(Op(p), "recovery_required")
     \/ journal' = journal
  /\ recoveryRequired' = recoveryRequired \cup {p}
  /\ Leave(p)
  /\ UNCHANGED <<file, rows, backup, intent, memory>>

RemoveBackup(p, r) ==
  /\ pc[p] = "cleanup" /\ FirstRole(r, backup[Op(p)])
  /\ backup' = [backup EXCEPT ![Op(p)] = @ \ {r}]
  /\ UNCHANGED <<file, journal, rows, intent, memory, recoveryRequired,
                 queue, pc, req, tx>>

\* An error while removing backups is swallowed, so siblings may remain.
CleanupDone(p) ==
  /\ pc[p] = "cleanup"
  /\ recoveryRequired' = recoveryRequired \ {p}
  /\ Leave(p)
  /\ UNCHANGED <<file, journal, rows, backup, intent, memory>>

-----------------------------------------------------------------------------
(* Startup recovery and process death. *)

\* Take the oldest row left, under its profile's permit.
RecoverRow(o) ==
  /\ phase = "recovering" /\ queue = <<>>
  /\ o \in list /\ \A n \in list : o <= n
  /\ Open(journal[o].profile, o, 1, {})
  /\ Goto(journal[o].profile, "recover")
  /\ queue' = <<journal[o].profile>>
  /\ list' = list \ {o}
  /\ UNCHANGED <<file, journal, rows, backup, intent, phase,
                 recoveryRequired, req, crashes>>

RecoveryDone ==
  /\ phase = "recovering" /\ list = {} /\ queue = <<>>
  /\ phase' = "up"
  /\ UNCHANGED <<file, journal, rows, backup, intent, list,
                 recoveryRequired, queue, pc, req, tx, crashes>>

\* The process dies and starts again; only what is on disk survives.
Restart ==
  /\ crashes < MaxCrashes
  /\ crashes' = crashes + 1
  /\ phase' = "recovering"
  /\ list' = Incomplete
  /\ recoveryRequired' = {}
  /\ queue' = <<>>
  /\ pc' = [p \in Profiles |-> "idle"]
  /\ req' = [p \in Profiles |-> NoReq]
  /\ tx' = [p \in Profiles |-> NoTx]
  /\ UNCHANGED <<file, journal, rows, backup, intent>>

Init ==
  /\ file = [f \in Files |-> IF f \in Missing THEN Absent ELSE Base]
  /\ journal = [o \in Ops |-> NoRow]
  /\ rows = 0
  /\ backup = [o \in Ops |-> {}]
  /\ intent = [o \in Ops |-> {}]
  /\ phase = "recovering"
  /\ list = {}
  /\ recoveryRequired = {}
  /\ queue = <<>>
  /\ pc = [p \in Profiles |-> "idle"]
  /\ req = [p \in Profiles |-> NoReq]
  /\ tx = [p \in Profiles |-> NoTx]
  /\ crashes = 0

\* What the process does for profile p once a request is accepted.
Step(p) ==
  \/ Enqueue(p) \/ Begin(p) \/ Reject(p)
  \/ BackupsPersisted(p) \/ AdvanceStage(p) \/ Verified(p) \/ Commit(p)
  \/ Fail(p) \/ RecognizeCommitted(p) \/ StartRestore(p)
  \/ FinishRollback(p) \/ GiveUp(p) \/ CleanupDone(p)
  \/ \E r \in FileRoles : \/ PersistBackup(p, r) \/ WriteFile(p, r)
                          \/ RestoreFile(p, r) \/ RemoveBackup(p, r)

Next ==
  \/ \E p \in Profiles, q \in Requests : Plan(p, q)
  \/ \E p \in Profiles : Step(p)
  \/ \E o \in Ops : RecoverRow(o)
  \/ RecoveryDone
  \/ Restart

Spec == Init /\ [][Next]_vars

\* The event loop keeps running accepted work; nothing forces a request or a
\* crash to happen.
Fairness == /\ \A p \in Profiles : WF_vars(Step(p))
            /\ WF_vars(\E o \in Ops : RecoverRow(o)) /\ WF_vars(RecoveryDone)
FairSpec == Spec /\ Fairness
-----------------------------------------------------------------------------
(* Properties. *)

\* Every variable stays in its type.
TypeOK ==
  /\ file \in [Files -> Contents]
  /\ journal \in [Ops -> Row]
  /\ rows \in 0..MaxOps
  /\ backup \in [Ops -> SUBSET FileRoles]
  /\ intent \in [Ops -> SUBSET StageFiles]
  /\ phase \in {"recovering", "up"}
  /\ list \subseteq Ops
  /\ recoveryRequired \subseteq Profiles
  /\ queue \in Seq(Profiles)
  /\ pc \in [Profiles -> PcStates]
  /\ req \in [Profiles -> [kind : Kinds, writes : SUBSET StageFiles,
                           new : Routes, planned : [FileRoles -> Contents]]]
  /\ tx \in [Profiles -> [op : Ops \cup {0}, stage : 1..Len(CommitStages),
                          todo : SUBSET FileRoles]]
  /\ crashes \in 0..MaxCrashes

\* A profile never has two unfinished operations on record, whatever fails
\* and whenever the process dies: admission fails closed on the journal and
\* on the in-memory lock (profileNeedsRecovery), so recovery has at most one
\* state per profile to return to.
OneIncompletePerProfile ==
  \A o, n \in Incomplete : journal[o].profile = journal[n].profile => o = n

\* Role r of an unfinished operation can still be put back: the file is as
\* the operation found it, or its old bytes are in a backup, or it did not
\* exist.
Undoable(o, r) ==
  LET row == journal[o] IN
  \/ file[Path(row.profile, r)] = row.before[r]
  \/ row.before[r] = Absent
  \/ r \in backup[o]

\* Role r holds what the operation found or what it wrote itself, so putting
\* it back undoes nothing but the operation's own work.
OnlyOwnWrites(o, r) ==
  LET row == journal[o]
      c   == file[Path(row.profile, r)]
  IN  c = row.before[r] \/ c[1] = o

\* The evidence rollback and startup recovery work from is complete and theirs
\* for the profile's own three files, whatever fails and whenever the process
\* dies (persistBackups before the first stage, removeBackups only after the
\* terminal row, admission refused while a row is unfinished).
LocalRecoveryIsSafe ==
  \A o \in Incomplete, r \in LocalRoles : Undoable(o, r) /\ OnlyOwnWrites(o, r)

\* The same for all five files, the shared catalog included.
RecoveryIsSafe ==
  \A o \in Incomplete, r \in FileRoles : Undoable(o, r) /\ OnlyOwnWrites(o, r)

\* "Concurrent saves serialize, and stale catalog revisions cannot overwrite
\* a newer edit" (2026-08-11 enterprise-reliability design, line 270): an
\* operation about to commit replaced exactly the bytes its plan was computed
\* from, although the plan was made before the permit and others ran between.
NoStaleOverwrite ==
  \A p \in Profiles : pc[p] \in {"verify", "commit"} =>
    \A sf \in req[p].writes :
      req[p].planned[sf[2]] = RowOf(p).before[sf[2]]

\* When no operation is unfinished, no byte on disk comes from an operation
\* that was rolled back or abandoned.
NoTornRest ==
  Incomplete = {} =>
    \A f \in Files : file[f][1] # 0 => journal[file[f][1]].state = "committed"

Installed(o) ==
  \A sf \in intent[o] : file[Path(journal[o].profile, sf[2])] = <<o, sf[1]>>

\* All or nothing, for operations that change the active route: a row becomes
\* committed only with every stage of the operation on disk, and rolled back
\* only with the five files as the operation found them.
AtomicOutcome ==
  [][\A o \in Ops :
       IncompleteRow(o) /\ ~IncompleteRow(o)' =>
         IF journal'[o].state = "committed"
           THEN journal[o].old # journal[o].new => Installed(o)
           ELSE Digests(journal[o].profile) = journal[o].before]_vars

\* Bytes of a committed operation are replaced only by a later operation,
\* never by undoing an earlier one.
CommittedSurvives ==
  [][\A f \in Files :
       file[f][1] # 0 /\ journal[file[f][1]].state = "committed"
         => file'[f][1] >= file[f][1]]_vars

\* Every accepted request is answered and startup recovery ends, so that the
\* IPC is registered: no lock, queue or row leaves anyone waiting for ever.
EveryRequestAnswered ==
  \A p \in Profiles :
    pc[p] # "idle" \/ phase = "recovering" ~> pc[p] = "idle" /\ phase = "up"
=============================================================================
