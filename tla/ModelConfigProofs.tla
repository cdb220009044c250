-------------------------- MODULE ModelConfigProofs --------------------------
(***************************************************************************)
(* Safety of the model-configuration transaction for any number of         *)
(* profiles, operations and crashes.  For any kinds of request: types, one *)
(* unfinished operation per profile, recovery evidence for the profile's   *)
(* own files, no stale overwrite, all or nothing.  When one operation is   *)
(* unfinished at a time: the shared catalog, what is on disk at rest, and  *)
(* the refinement of AtomicConfig.                                         *)
(***************************************************************************)
EXTENDS ModelConfigRefinement, SequenceTheorems, TLAPS

-----------------------------------------------------------------------------
(* The inductive invariant, in named parts. *)

\* Whoever runs inside a permit heads the queue and works on a row of its own
\* profile, which stays unfinished until the cleanup.
PermitOwner ==
  \A p \in Profiles : pc[p] \in PermitStates =>
    /\ Holds(p)
    /\ Op(p) \in Ops
    /\ RowOf(p).profile = p
    /\ IncompleteRow(Op(p)) <=> pc[p] # "cleanup"
    /\ Op(p) \notin list

\* The rows startup still has to handle are unfinished.
ListedIncomplete == \A o \in list : IncompleteRow(o)

\* An unfinished row names a profile.
RowsNameProfiles == \A o \in Incomplete : journal[o].profile \in Profiles

\* Rows are numbered as they are inserted.
RowsInserted == \A o \in Incomplete : o <= rows

\* A request that was admitted, but not journalled yet, found no unfinished
\* row of its profile, and none appears while it waits.
WaitingIsClear ==
  \A p \in Profiles : pc[p] \in {"planned", "queued"} =>
    \A o \in Incomplete : journal[o].profile # p

\* The backups of an operation are complete before its first stage.
BackupsFirst ==
  \A p \in Profiles, r \in FileRoles :
    LET saved == RowOf(p).before[r] = Absent \/ r \in backup[Op(p)]
    IN  /\ pc[p] = "backup" => saved \/ r \in tx[p].todo
        /\ pc[p] = "stage"  => saved

Control == /\ PermitOwner /\ ListedIncomplete /\ RowsNameProfiles
           /\ RowsInserted /\ WaitingIsClear /\ OneIncompletePerProfile
IndInv  == TypeOK /\ Control /\ BackupsFirst /\ LocalRecoveryIsSafe

-----------------------------------------------------------------------------
(* Lemmas about the operators the actions are built from. *)

LEMMA QueueFacts ==
  ASSUME NEW S, NEW q \in Seq(S), NEW e \in S
  PROVE  /\ Append(q, e) \in Seq(S)
         /\ Append(q, e) # <<>>
         /\ q # <<>> => Head(Append(q, e)) = Head(q) /\ Tail(q) \in Seq(S)
         /\ <<e>> \in Seq(S) /\ <<e>> # <<>> /\ Head(<<e>>) = e
         /\ <<>> \in Seq(S)
<1>1. Append(q, e) \in Seq(S) /\ Append(q, e) # <<>>
  BY AppendProperties, EmptySeq, LenProperties
<1>2. q # <<>> => Head(Append(q, e)) = Head(q) /\ Tail(q) \in Seq(S)
  <2>1. q # <<>> => Len(q) \in Nat \ {0}  BY EmptySeq
  <2>2. q # <<>> => Append(q, e)[1] = q[1]  BY <2>1, AppendProperties
  <2>3. q # <<>> => Tail(q) \in Seq(S)  BY HeadTailProperties
  <2> QED  BY <1>1, <2>2, <2>3
<1> QED  BY <1>1, <1>2

LEMMA StageFacts ==
  /\ Len(CommitStages) = 5
  /\ \A i \in 1..5 : CommitStages[i] \in Stages
  /\ \A i \in 1..5 : CommitStages[i] \in RowStates \ Terminal
  /\ {"prepared", "verification", "recovery_required"} \subseteq RowStates \ Terminal
  /\ {"none", "committed", "rolled_back"} \subseteq RowStates \cap Terminal
  /\ \A w, i : StageRoles(w, i) \subseteq FileRoles
<1>1. Len(CommitStages) = 5  BY DEF CommitStages
<1>2. CommitStages[1] = "credential" /\ CommitStages[2] = "provider"
      /\ CommitStages[3] = "model_library" /\ CommitStages[4] = "native_route"
      /\ CommitStages[5] = "activation"
  BY DEF CommitStages
<1>3. {"credential", "provider", "model_library", "native_route", "activation"}
        \subseteq Stages
  <2>1. \A sf \in StageFiles : sf[1] \in Stages  BY DEF Stages
  <2> QED  BY <2>1 DEF StageFiles
<1>4. \A i \in 1..5 : i = 1 \/ i = 2 \/ i = 3 \/ i = 4 \/ i = 5  OBVIOUS
<1> QED  BY <1>1, <1>2, <1>3, <1>4 DEF RowStates, Terminal, StageRoles

LEMMA PathFacts ==
  ASSUME NEW p \in Profiles, NEW r \in FileRoles
  PROVE  /\ Path(p, r) \in Files
         /\ r \in LocalRoles => Path(p, r) = <<p, r>>
         /\ r \in GlobalRoles => Path(p, r) = <<Global, r>>
  BY DEF Path, Files, LocalRoles, FileRoles, GlobalRoles

LEMMA ContentFacts ==
  ASSUME TypeOK, NEW p \in Profiles
  PROVE  /\ Digests(p) \in [FileRoles -> Contents]
         /\ \A r \in FileRoles : Digests(p)[r] = file[Path(p, r)]
         /\ ActiveRoute(p) \in Routes
         /\ NoDigests \in [FileRoles -> Contents]
<1>1. \A r \in FileRoles : file[Path(p, r)] \in Contents
  BY PathFacts DEF TypeOK
<1>2. Digests(p) \in [FileRoles -> Contents]
      /\ \A r \in FileRoles : Digests(p)[r] = file[Path(p, r)]
  BY <1>1 DEF Digests, DigestsIn
<1>3. file[<<p, "config">>] \in Contents
  BY DEF TypeOK, Files, LocalRoles, FileRoles, GlobalRoles
<1>4. ASSUME NEW c \in Contents PROVE RouteOf(c) \in Routes
  <2>1. c[1] = 0 \/ c[1] \in Ops
    BY <1>4 DEF Contents, Absent, Base, NoDigest
  <2>2. \A o \in Ops : journal[o].new \in Routes /\ journal[o].old \in Routes
    BY DEF TypeOK, Row
  <2> QED  BY <2>1, <2>2, ConstantsAssumption DEF RouteOf
<1> QED  BY <1>1, <1>2, <1>3, <1>4 DEF ActiveRoute, NoDigests, Contents

LEMMA OpenFacts ==
  ASSUME TypeOK, PermitOwner, NEW p \in Profiles, pc[p] \in PermitStates
  PROVE  /\ Op(p) \in Ops
         /\ RowOf(p) \in Row
         /\ queue # <<>> /\ Head(queue) = p
         /\ Tail(queue) \in Seq(Profiles)
         /\ \A q \in Profiles : pc[q] \in PermitStates => q = p
<1>1. Holds(p) /\ Op(p) \in Ops  BY DEF PermitOwner
<1>2. queue \in Seq(Profiles) /\ journal \in [Ops -> Row]  BY DEF TypeOK
<1>3. \A q \in Profiles : pc[q] \in PermitStates => Holds(q)  BY DEF PermitOwner
<1> QED  BY <1>1, <1>2, <1>3, QueueFacts DEF Holds, RowOf

\* Updating the state, or the state and the read-back digests, of a row.
LEMMA RowUpdate ==
  ASSUME NEW j \in [Ops -> Row], NEW o \in Ops, NEW s \in RowStates,
         NEW d \in [FileRoles -> Contents]
  PROVE  /\ [j EXCEPT ![o].state = s] \in [Ops -> Row]
         /\ [j EXCEPT ![o].state = s, ![o].after = d] \in [Ops -> Row]
         /\ [j EXCEPT ![o].state = s]
              = [j EXCEPT ![o] = [j[o] EXCEPT !.state = s]]
         /\ [j EXCEPT ![o].state = s, ![o].after = d]
              = [j EXCEPT ![o] = [j[o] EXCEPT !.state = s, !.after = d]]
<1>1. j[o] \in Row  OBVIOUS
<1>2. [j[o] EXCEPT !.state = s] \in Row  BY <1>1 DEF Row
<1>3. [j EXCEPT ![o].state = s] = [j EXCEPT ![o] = [j[o] EXCEPT !.state = s]]
  OBVIOUS
<1>4. [j[o] EXCEPT !.state = s, !.after = d] \in Row  BY <1>1 DEF Row
<1>5. [j EXCEPT ![o].state = s, ![o].after = d]
        = [j EXCEPT ![o] = [j[o] EXCEPT !.state = s, !.after = d]]
  OBVIOUS
<1> QED  BY <1>2, <1>3, <1>4, <1>5

LEMMA JournalType ==
  ASSUME TypeOK, PermitOwner, NEW p \in Profiles, pc[p] \in PermitStates
  PROVE  /\ \A s \in RowStates : SetState(Op(p), s) => journal' \in [Ops -> Row]
         /\ [journal EXCEPT ![Op(p)].state = "verification",
                            ![Op(p)].after = Digests(p)] \in [Ops -> Row]
<1>1. Op(p) \in Ops /\ journal \in [Ops -> Row]  BY OpenFacts DEF TypeOK
<1>2. NoDigests \in [FileRoles -> Contents] /\ Digests(p) \in [FileRoles -> Contents]
  BY ContentFacts
<1>3. ASSUME NEW s \in RowStates, SetState(Op(p), s)
      PROVE journal' \in [Ops -> Row]
  <2>1. [journal EXCEPT ![Op(p)].state = s] \in [Ops -> Row]
    BY <1>1, <1>2, RowUpdate
  <2> QED  BY <1>3, <2>1 DEF SetState
<1>4. "verification" \in RowStates  BY StageFacts
<1> QED  BY <1>1, <1>2, <1>3, <1>4, RowUpdate

-----------------------------------------------------------------------------
(* Types are preserved. *)

LEMMA TypeStep ==
  ASSUME TypeOK, PermitOwner, ListedIncomplete, RowsNameProfiles, Next
  PROVE  TypeOK'
<1>. USE DEF TypeOK, PcStates, memory
<1>1. ASSUME NEW p \in Profiles, NEW q \in Requests, Plan(p, q)  PROVE TypeOK'
  <2>1. q.kind \in Kinds /\ q.writes \in SUBSET StageFiles
    BY ConstantsAssumption
  <2> QED  BY <1>1, <2>1, ContentFacts DEF Plan, Goto
<1>2. ASSUME NEW p \in Profiles, Enqueue(p)  PROVE TypeOK'
  BY <1>2, QueueFacts DEF Enqueue, Goto
<1>3. ASSUME NEW p \in Profiles, Begin(p)  PROVE TypeOK'
  <2>1. rows + 1 \in Ops /\ rows + 1 \in 0..MaxOps
    BY <1>3, ConstantsAssumption DEF Begin, Ops
  <2>2. [profile |-> p, state |-> "prepared", old |-> ActiveRoute(p),
         new |-> req[p].new, before |-> Digests(p), after |-> NoDigests] \in Row
    BY ContentFacts, StageFacts DEF Row
  <2>3. {r \in FileRoles : file[Path(p, r)] # Absent} \in SUBSET FileRoles
    OBVIOUS
  <2> QED  BY <1>3, <2>1, <2>2, <2>3, StageFacts DEF Begin, Goto, Open, PermitStates
<1>4. ASSUME NEW p \in Profiles, Reject(p)  PROVE TypeOK'
  <2>1. NoReq \in [kind : Kinds, writes : SUBSET StageFiles,
                   new : Routes, planned : [FileRoles -> Contents]]
    BY ContentFacts, ConstantsAssumption DEF NoReq, Kinds
  <2>2. queue # <<>> => Tail(queue) \in Seq(Profiles)  BY HeadTailProperties
  <2>3. queue' \in Seq(Profiles)  BY <1>4, <2>2 DEF Reject, Holds
  <2> QED  BY <1>4, <2>1, <2>3 DEF Reject, Goto
<1>5. ASSUME NEW p \in Profiles, pc[p] \in PermitStates,
             BackupsPersisted(p) \/ AdvanceStage(p) \/ StartRestore(p)
      PROVE TypeOK'
  <2>1. CASE BackupsPersisted(p)
    BY <1>5, <2>1, OpenFacts, StageFacts DEF BackupsPersisted, Goto, Open, PermitStates
  <2>2. CASE AdvanceStage(p)
    <3>1. tx[p].stage \in 1..5  BY <1>5, StageFacts
    <3>2. CommitStages[tx[p].stage] \in RowStates  BY <3>1, StageFacts
    <3>3. journal' \in [Ops -> Row]
      <4>1. Digests(p) \in [FileRoles -> Contents] /\ Op(p) \in Ops
        BY <1>5, ContentFacts, OpenFacts
      <4> QED  BY <2>2, <3>2, <4>1, RowUpdate DEF AdvanceStage
    <3>4. tx' \in [Profiles -> [op : Ops \cup {0}, stage : 1..Len(CommitStages),
                                todo : SUBSET FileRoles]]
      <4>1. Op(p) \in Ops  BY <1>5, OpenFacts
      <4>2. CASE tx[p].stage < 5
        <5>1. tx[p].stage + 1 \in 1..5  BY <3>1, <4>2
        <5>2. [op |-> Op(p), stage |-> tx[p].stage + 1,
               todo |-> StageRoles(req[p].writes, tx[p].stage + 1)]
                \in [op : Ops \cup {0}, stage : 1..Len(CommitStages),
                    todo : SUBSET FileRoles]
          BY <4>1, <5>1, StageFacts
        <5>3. tx' = [tx EXCEPT ![p] =
                 [op |-> Op(p), stage |-> tx[p].stage + 1,
                  todo |-> StageRoles(req[p].writes, tx[p].stage + 1)]]
          BY <2>2, <4>2, StageFacts DEF AdvanceStage, Open
        <5> QED  BY <5>2, <5>3
      <4>3. CASE ~(tx[p].stage < 5)
        BY <2>2, <4>3, StageFacts DEF AdvanceStage
      <4> QED  BY <4>2, <4>3
    <3> QED  BY <2>2, <3>3, <3>4 DEF AdvanceStage, Goto, PermitStates
  <2>3. CASE StartRestore(p)
    BY <1>5, <2>3, OpenFacts, StageFacts DEF StartRestore, Goto, Open, PermitStates
  <2> QED  BY <1>5, <2>1, <2>2, <2>3
<1>6. ASSUME NEW p \in Profiles, pc[p] \in PermitStates,
             Verified(p) \/ Commit(p) \/ Fail(p) \/ RecognizeCommitted(p)
               \/ FinishRollback(p)
      PROVE TypeOK'
  <2>0. /\ \A s \in RowStates : SetState(Op(p), s) => journal' \in [Ops -> Row]
        /\ [journal EXCEPT ![Op(p)].state = "verification",
                           ![Op(p)].after = Digests(p)] \in [Ops -> Row]
    BY <1>6, JournalType
  <2>1. CASE Verified(p)
    BY <2>1, <2>0 DEF Verified, Goto, PermitStates
  <2>2. CASE Commit(p)
    BY <2>2, <2>0, StageFacts DEF Commit, Goto, PermitStates
  <2>3. CASE Fail(p)
    BY <2>3 DEF Fail, Goto, PermitStates
  <2>4. CASE RecognizeCommitted(p)
    BY <2>4, <2>0, StageFacts DEF RecognizeCommitted, Goto, PermitStates
  <2>5. CASE FinishRollback(p)
    BY <2>5, <2>0, StageFacts DEF FinishRollback, Goto, PermitStates
  <2> QED  BY <1>6, <2>1, <2>2, <2>3, <2>4, <2>5
<1>7. ASSUME NEW p \in Profiles, pc[p] \in PermitStates,
             GiveUp(p) \/ CleanupDone(p)
      PROVE TypeOK'
  <2>1. NoReq \in [kind : Kinds, writes : SUBSET StageFiles,
                   new : Routes, planned : [FileRoles -> Contents]]
    BY ContentFacts, ConstantsAssumption DEF NoReq, Kinds
  <2>2. NoTx \in [op : Ops \cup {0}, stage : 1..Len(CommitStages),
                  todo : SUBSET FileRoles]
    BY StageFacts DEF NoTx
  <2>3. Leave(p) => /\ queue' \in Seq(Profiles) /\ pc' \in [Profiles -> PcStates]
                    /\ req' \in [Profiles -> [kind : Kinds, writes : SUBSET StageFiles,
                                  new : Routes, planned : [FileRoles -> Contents]]]
                    /\ tx' \in [Profiles -> [op : Ops \cup {0}, stage : 1..Len(CommitStages),
                                             todo : SUBSET FileRoles]]
    BY <1>7, <2>1, <2>2, OpenFacts DEF Leave, Goto
  <2>4. journal' \in [Ops -> Row]
    BY <1>7, JournalType, StageFacts DEF GiveUp, CleanupDone
  <2> QED  BY <1>7, <2>3, <2>4 DEF GiveUp, CleanupDone
<1>8. ASSUME NEW p \in Profiles, NEW r \in FileRoles, pc[p] \in PermitStates,
             PersistBackup(p, r) \/ WriteFile(p, r) \/ RestoreFile(p, r)
               \/ RemoveBackup(p, r)
      PROVE TypeOK'
  <2>1. CASE PersistBackup(p, r)
    BY <2>1 DEF PersistBackup, Done
  <2>2. CASE WriteFile(p, r)
    <3>1. <<Op(p), CommitStages[tx[p].stage]>> \in Contents
      BY <1>8, OpenFacts, StageFacts DEF Contents
    <3> QED  BY <2>2, <3>1 DEF WriteFile, Done
  <2>3. CASE RestoreFile(p, r)
    <3>1. RowOf(p).before[r] \in Contents  BY <1>8, OpenFacts DEF Row
    <3> QED  BY <2>3, <3>1 DEF RestoreFile, Done
  <2>4. CASE RemoveBackup(p, r)
    BY <2>4 DEF RemoveBackup
  <2> QED  BY <1>8, <2>1, <2>2, <2>3, <2>4
<1>9. ASSUME NEW o \in Ops, RecoverRow(o)  PROVE TypeOK'
  <2>1. journal[o].profile \in Profiles
    BY <1>9 DEF RecoverRow, ListedIncomplete, RowsNameProfiles, Incomplete
  <2> QED  BY <1>9, <2>1, QueueFacts, StageFacts DEF RecoverRow, Open, Goto, PermitStates
<1>10. CASE RecoveryDone  BY <1>10 DEF RecoveryDone
<1>11. CASE Restart
  <2>1. NoReq \in [kind : Kinds, writes : SUBSET StageFiles,
                   new : Routes, planned : [FileRoles -> Contents]]
    <3>1. NoDigests \in [FileRoles -> Contents]  BY DEF NoDigests, Contents
    <3> QED  BY <3>1, ConstantsAssumption DEF NoReq, Kinds
  <2>2. NoTx \in [op : Ops \cup {0}, stage : 1..Len(CommitStages),
                  todo : SUBSET FileRoles]
    BY StageFacts DEF NoTx
  <2>3. crashes' \in 0..MaxCrashes  BY <1>11, ConstantsAssumption DEF Restart
  <2>4. <<>> \in Seq(Profiles)  BY EmptySeq
  <2> QED  BY <1>11, <2>1, <2>2, <2>3, <2>4 DEF Restart, Incomplete
<1>12. ASSUME NEW p \in Profiles, Step(p)
       PROVE  \/ Enqueue(p) \/ Begin(p) \/ Reject(p) \/ pc[p] \in PermitStates
  BY <1>12 DEF Step, BackupsPersisted, AdvanceStage, Verified, Commit, Fail,
     RecognizeCommitted, StartRestore, FinishRollback, GiveUp, CleanupDone,
     PersistBackup, WriteFile, RestoreFile, RemoveBackup, Undoing, PermitStates
<1> QED
  BY <1>1, <1>2, <1>3, <1>4, <1>5, <1>6, <1>7, <1>8, <1>9, <1>10, <1>11, <1>12
  DEF Next, Step
-----------------------------------------------------------------------------
(* What a step inside a permit leaves alone. *)

LEMMA RowEffect ==
  ASSUME NEW j \in [Ops -> Row], NEW o \in Ops, NEW s \in RowStates,
         NEW d \in [FileRoles -> Contents], NEW k,
         \/ k = [j EXCEPT ![o].state = s]
         \/ k = [j EXCEPT ![o].state = s, ![o].after = d]
  PROVE  /\ k[o].state = s /\ k[o].profile = j[o].profile
         /\ k[o].before = j[o].before
         /\ k[o].old = j[o].old /\ k[o].new = j[o].new
         /\ \A x \in Ops \ {o} : k[x] = j[x]
<1>1. j[o] \in Row  OBVIOUS
<1>2. CASE k = [j EXCEPT ![o].state = s]
  <2>1. k = [j EXCEPT ![o] = [j[o] EXCEPT !.state = s]]  BY <1>2, RowUpdate
  <2>2. k[o] = [j[o] EXCEPT !.state = s] /\ \A x \in Ops \ {o} : k[x] = j[x]
    BY <2>1
  <2> QED  BY <1>1, <2>2 DEF Row
<1>3. CASE k = [j EXCEPT ![o].state = s, ![o].after = d]
  <2>1. k = [j EXCEPT ![o] = [j[o] EXCEPT !.state = s, !.after = d]]
    BY <1>3, RowUpdate
  <2>2. /\ k[o] = [j[o] EXCEPT !.state = s, !.after = d]
        /\ \A x \in Ops \ {o} : k[x] = j[x]
    BY <2>1
  <2> QED  BY <1>1, <2>2 DEF Row
<1> QED  BY <1>2, <1>3

\* A step of p changes no row but its own, and of that one neither the profile
\* nor the routes and the digests recorded at the start.
RowKept(p) ==
  /\ journal' \in [Ops -> Row]
  /\ \A x \in Ops : /\ journal'[x].profile = journal[x].profile
                    /\ journal'[x].before = journal[x].before
                    /\ journal'[x].old = journal[x].old
                    /\ journal'[x].new = journal[x].new
  /\ \A x \in Ops \ {Op(p)} : journal'[x] = journal[x]

LEMMA RowKeptWhen ==
  ASSUME TypeOK, PermitOwner, NEW p \in Profiles, pc[p] \in PermitStates
  PROVE  /\ journal' = journal => RowKept(p)
         /\ \A s \in RowStates : SetState(Op(p), s) =>
              RowKept(p) /\ journal'[Op(p)].state = s
         /\ \A s \in RowStates :
              journal' = [journal EXCEPT ![Op(p)].state = s,
                                         ![Op(p)].after = Digests(p)] =>
              RowKept(p) /\ journal'[Op(p)].state = s
<1>1. Op(p) \in Ops /\ journal \in [Ops -> Row]  BY OpenFacts DEF TypeOK
<1>2. Digests(p) \in [FileRoles -> Contents]  BY ContentFacts
<1>3. ASSUME NEW s \in RowStates, SetState(Op(p), s)
      PROVE  RowKept(p) /\ journal'[Op(p)].state = s
  <2>1. journal' = [journal EXCEPT ![Op(p)].state = s]  BY <1>3 DEF SetState
  <2>2. journal' \in [Ops -> Row]  BY <1>1, <1>2, <2>1, RowUpdate
  <2>3. /\ journal'[Op(p)].state = s
        /\ journal'[Op(p)].profile = journal[Op(p)].profile
        /\ journal'[Op(p)].before = journal[Op(p)].before
        /\ journal'[Op(p)].old = journal[Op(p)].old
        /\ journal'[Op(p)].new = journal[Op(p)].new
        /\ \A x \in Ops \ {Op(p)} : journal'[x] = journal[x]
    BY <1>1, <1>2, <2>1, RowEffect
  <2> QED  BY <2>2, <2>3 DEF RowKept
<1>4. ASSUME NEW s \in RowStates,
             journal' = [journal EXCEPT ![Op(p)].state = s,
                                        ![Op(p)].after = Digests(p)]
      PROVE  RowKept(p) /\ journal'[Op(p)].state = s
  <2>2. journal' \in [Ops -> Row]  BY <1>1, <1>2, <1>4, RowUpdate
  <2>3. /\ journal'[Op(p)].state = s
        /\ journal'[Op(p)].profile = journal[Op(p)].profile
        /\ journal'[Op(p)].before = journal[Op(p)].before
        /\ journal'[Op(p)].old = journal[Op(p)].old
        /\ journal'[Op(p)].new = journal[Op(p)].new
        /\ \A x \in Ops \ {Op(p)} : journal'[x] = journal[x]
    BY <1>1, <1>2, <1>4, RowEffect
  <2> QED  BY <2>2, <2>3 DEF RowKept
<1> QED  BY <1>1, <1>3, <1>4 DEF RowKept

\* Either p keeps its permit and its operation, whose row is unfinished until
\* the cleanup, or p leaves; nobody else's control state changes.
Kept(p) ==
  /\ RowKept(p)
  /\ list' = list
  /\ \A q \in Profiles \ {p} : /\ pc'[q] = pc[q]
                               /\ tx'[q] = tx[q]
                               /\ req'[q] = req[q]
  /\ \/ /\ pc'[p] \in PermitStates /\ queue' = queue /\ tx'[p].op = Op(p)
        /\ journal'[Op(p)].state \notin Terminal <=> pc'[p] # "cleanup"
     \/ /\ pc'[p] = "idle" /\ queue' = Tail(queue)
  /\ journal'[Op(p)].state \notin Terminal => IncompleteRow(Op(p))

LEMMA PermitStep ==
  ASSUME TypeOK, PermitOwner, NEW p \in Profiles, pc[p] \in PermitStates,
         Step(p)
  PROVE  Kept(p)
<1>. USE DEF TypeOK, memory, Goto
<1>0. /\ Op(p) \in Ops /\ tx[p].op = Op(p)
      /\ IncompleteRow(Op(p)) <=> pc[p] # "cleanup"
      /\ \A r : Done(p, r) => /\ tx'[p].op = Op(p)
                              /\ \A q \in Profiles \ {p} : tx'[q] = tx[q]
      /\ \A i, t : Open(p, Op(p), i, t) => 
                              /\ tx'[p].op = Op(p)
                              /\ \A q \in Profiles \ {p} : tx'[q] = tx[q]
  BY OpenFacts DEF PermitOwner, Op, Done, Open
<1>1. CASE BackupsPersisted(p) \/ Fail(p) \/ StartRestore(p)
  <2>1. journal' = journal /\ list' = list /\ queue' = queue /\ req' = req
        /\ pc[p] # "cleanup" /\ pc'[p] \in PermitStates \ {"cleanup"}
        /\ \A q \in Profiles \ {p} : pc'[q] = pc[q]
    BY <1>1 DEF BackupsPersisted, Fail, StartRestore, Undoing, PermitStates, PcStates
  <2>2. tx'[p].op = Op(p) /\ \A q \in Profiles \ {p} : tx'[q] = tx[q]
    BY <1>0, <1>1 DEF BackupsPersisted, Fail, StartRestore
  <2> QED  BY <1>0, <2>1, <2>2, RowKeptWhen DEF Kept, IncompleteRow
<1>2. CASE \E r \in FileRoles : \/ PersistBackup(p, r) \/ WriteFile(p, r)
                                \/ RestoreFile(p, r) \/ RemoveBackup(p, r)
  <2>1. journal' = journal /\ list' = list /\ queue' = queue /\ req' = req /\ pc' = pc
    BY <1>2 DEF PersistBackup, WriteFile, RestoreFile, RemoveBackup
  <2>2. tx'[p].op = Op(p) /\ \A q \in Profiles \ {p} : tx'[q] = tx[q]
    BY <1>0, <1>2 DEF PersistBackup, WriteFile, RestoreFile, RemoveBackup
  <2> QED  BY <1>0, <2>1, <2>2, RowKeptWhen DEF Kept, IncompleteRow
<1>3. CASE AdvanceStage(p)
  <2>1. CommitStages[tx[p].stage] \in RowStates \ Terminal  BY StageFacts
  <2>2. RowKept(p) /\ journal'[Op(p)].state = CommitStages[tx[p].stage]
    BY <1>3, <2>1, RowKeptWhen DEF AdvanceStage
  <2>3. tx'[p].op = Op(p) /\ \A q \in Profiles \ {p} : tx'[q] = tx[q]
    BY <1>0, <1>3 DEF AdvanceStage
  <2>4. list' = list /\ queue' = queue /\ req' = req
        /\ pc[p] # "cleanup" /\ pc'[p] \in PermitStates \ {"cleanup"}
        /\ \A q \in Profiles \ {p} : pc'[q] = pc[q]
    BY <1>3 DEF AdvanceStage, PermitStates, PcStates
  <2> QED  BY <1>0, <2>1, <2>2, <2>3, <2>4 DEF Kept
<1>4. CASE Verified(p)
  <2>1. "verification" \in RowStates \ Terminal  BY StageFacts
  <2>2. RowKept(p) /\ journal'[Op(p)].state = "verification"
    BY <1>4, <2>1, RowKeptWhen DEF Verified
  <2>3. list' = list /\ queue' = queue /\ req' = req /\ tx' = tx
        /\ pc[p] # "cleanup" /\ pc'[p] \in PermitStates \ {"cleanup"}
        /\ \A q \in Profiles \ {p} : pc'[q] = pc[q]
    BY <1>4 DEF Verified, PermitStates, PcStates
  <2> QED  BY <1>0, <2>1, <2>2, <2>3 DEF Kept
<1>5. CASE Commit(p) \/ RecognizeCommitted(p) \/ FinishRollback(p)
  <2>1. PICK s \in {"committed", "rolled_back"} : SetState(Op(p), s)
    BY <1>5 DEF Commit, RecognizeCommitted, FinishRollback
  <2>2. RowKept(p) /\ journal'[Op(p)].state \in Terminal
    BY <2>1, StageFacts, RowKeptWhen
  <2>3. list' = list /\ queue' = queue /\ req' = req /\ tx' = tx
        /\ pc'[p] = "cleanup" /\ "cleanup" \in PermitStates
        /\ \A q \in Profiles \ {p} : pc'[q] = pc[q]
    BY <1>5 DEF Commit, RecognizeCommitted, FinishRollback, PermitStates, PcStates
  <2> QED  BY <1>0, <2>2, <2>3 DEF Kept
<1>6. CASE GiveUp(p) \/ CleanupDone(p)
  <2>1. list' = list /\ queue' = Tail(queue) /\ pc'[p] = "idle"
        /\ \A q \in Profiles \ {p} : /\ pc'[q] = pc[q]
                                     /\ req'[q] = req[q]
                                     /\ tx'[q] = tx[q]
    BY <1>6 DEF GiveUp, CleanupDone, Leave, PcStates
  <2>2. CASE GiveUp(p)
    <3>1. pc[p] # "cleanup"  BY <2>2 DEF GiveUp
    <3>2. RowKept(p)
      BY <2>2, RowKeptWhen, StageFacts DEF GiveUp
    <3> QED  BY <1>0, <2>1, <3>1, <3>2 DEF Kept
  <2>3. CASE CleanupDone(p)
    <3>1. journal' = journal  BY <2>3 DEF CleanupDone
    <3> QED  BY <2>1, <3>1, RowKeptWhen DEF Kept, IncompleteRow
  <2> QED  BY <1>6, <2>2, <2>3
<1>7. ~ (Enqueue(p) \/ Begin(p) \/ Reject(p))
  BY DEF Enqueue, Begin, Reject, PermitStates
<1> QED  BY <1>1, <1>2, <1>3, <1>4, <1>5, <1>6, <1>7 DEF Step
-----------------------------------------------------------------------------
(* Control: who owns the permit and which rows are unfinished. *)

\* A step that leaves journal and list alone and moves p between states
\* outside the permit.
LEMMA OutsideStep ==
  ASSUME TypeOK, Control, NEW p \in Profiles, pc[p] \notin PermitStates,
         Enqueue(p) \/ Reject(p) \/ \E q \in Requests : Plan(p, q)
  PROVE  Control'
<1>. USE DEF Control, memory
<1>1. /\ journal' = journal /\ list' = list /\ tx' = tx
      /\ \A q \in Profiles \ {p} : pc'[q] = pc[q]
      /\ pc'[p] \in {"idle", "planned", "queued"}
  BY DEF Enqueue, Reject, Plan, Goto, TypeOK
<1>2. pc'[p] # "idle" => \A o \in Incomplete : journal[o].profile # p
  <2>1. CASE Enqueue(p)  BY <2>1 DEF Enqueue, WaitingIsClear
  <2>2. CASE Reject(p)  BY <2>2 DEF Reject, Goto, TypeOK
  <2>3. CASE \E q \in Requests : Plan(p, q)
    BY <2>3 DEF Plan, NeedsRecovery, ProfileNeedsRecovery
  <2> QED  BY <2>1, <2>2, <2>3
<1>3. Incomplete' = Incomplete  BY <1>1 DEF Incomplete, IncompleteRow
<1>6. rows' = rows  BY DEF Enqueue, Reject, Plan
<1>4. ASSUME NEW q \in Profiles, pc'[q] \in PermitStates
      PROVE  queue # <<>> /\ queue' # <<>> /\ Head(queue') = q
  <2>1. q # p /\ pc[q] \in PermitStates  BY <1>1, <1>4 DEF PermitStates
  <2>2. queue # <<>> /\ Head(queue) = q  BY <2>1 DEF PermitOwner, Holds
  <2>3. CASE Enqueue(p)
    <3>1. queue \in Seq(Profiles) /\ queue' = Append(queue, p)
      BY <2>3 DEF Enqueue, TypeOK
    <3> QED  BY <2>2, <3>1, QueueFacts
  <2>4. CASE Reject(p)  BY <2>1, <2>2, <2>4 DEF Reject, Holds
  <2>5. CASE \E r \in Requests : Plan(p, r)  BY <2>2, <2>5 DEF Plan
  <2> QED  BY <2>2, <2>3, <2>4, <2>5
<1>5. PermitOwner'
  BY <1>1, <1>3, <1>4 DEF PermitOwner, Holds, Op, RowOf, IncompleteRow, PermitStates
<1> QED
  BY <1>1, <1>2, <1>3, <1>5, <1>6 DEF ListedIncomplete, RowsNameProfiles,
     RowsInserted, WaitingIsClear, OneIncompletePerProfile, IncompleteRow

LEMMA BeginStep ==
  ASSUME TypeOK, Control, NEW p \in Profiles, Begin(p)
  PROVE  Control'
<1>. USE DEF Control, memory
<1>. DEFINE o == rows + 1
<1>1. o \in Ops /\ rows \in Nat /\ rows' = o
  BY ConstantsAssumption DEF Begin, Ops, TypeOK
<1>2. /\ journal'[o].profile = p /\ journal'[o].state = "prepared"
      /\ \A x \in Ops \ {o} : journal'[x] = journal[x]
      /\ list' = list /\ queue' = queue
      /\ \A q \in Profiles \ {p} : pc'[q] = pc[q] /\ tx'[q] = tx[q]
      /\ pc'[p] = "backup" /\ tx'[p].op = o
      /\ pc[p] = "queued" /\ queue # <<>> /\ Head(queue) = p
  BY <1>1 DEF Begin, Goto, Open, TypeOK, Holds
<1>3. Incomplete' = Incomplete \cup {o}
  BY <1>1, <1>2, StageFacts DEF Incomplete, IncompleteRow
<1>4. \A x \in Incomplete : journal[x].profile # p
  BY <1>2 DEF WaitingIsClear
<1>5. o \notin Incomplete  BY <1>1 DEF RowsInserted
<1>6. PermitOwner'
  <2>1. ASSUME NEW q \in Profiles \ {p}  PROVE pc'[q] \notin PermitStates
    BY <1>2, <2>1 DEF PermitOwner, Holds
  <2>2. o \notin list'
    BY <1>1, <1>2, <1>5 DEF ListedIncomplete, Incomplete
  <2>3. journal'[o].state \notin Terminal  BY <1>2, StageFacts
  <2> QED
    BY <1>1, <1>2, <2>1, <2>2, <2>3
    DEF PermitOwner, Holds, Op, RowOf, IncompleteRow
<1>7. ListedIncomplete'
  BY <1>1, <1>2, <1>5 DEF ListedIncomplete, IncompleteRow, Incomplete, TypeOK
<1>8. RowsNameProfiles'  BY <1>2, <1>3 DEF RowsNameProfiles, Incomplete
<1>9. WaitingIsClear'
  <2>1. ASSUME NEW q \in Profiles, pc'[q] \in {"planned", "queued"}
        PROVE  q # p /\ \A x \in Incomplete : journal[x].profile # q
    BY <1>2, <2>1 DEF WaitingIsClear
  <2> QED  BY <1>2, <1>3, <1>5, <2>1 DEF WaitingIsClear, Incomplete
<1>11. RowsInserted'
  <2>1. \A x \in Incomplete' : x <= o
    BY <1>1, <1>3 DEF RowsInserted, Incomplete, Ops
  <2> QED  BY <1>1, <2>1 DEF RowsInserted
<1>10. OneIncompletePerProfile'
  BY <1>2, <1>3, <1>4, <1>5 DEF OneIncompletePerProfile, Incomplete
<1> QED  BY <1>6, <1>7, <1>8, <1>9, <1>10, <1>11

LEMMA InsideStep ==
  ASSUME TypeOK, Control, NEW p \in Profiles, pc[p] \in PermitStates, Step(p)
  PROVE  Control'
<1>. USE DEF Control
<1>1. Kept(p) /\ RowKept(p)  BY PermitStep DEF Kept
<1>2. /\ Op(p) \in Ops /\ Op(p) \notin list /\ RowOf(p).profile = p
      /\ queue # <<>> /\ Head(queue) = p
      /\ \A q \in Profiles : pc[q] \in PermitStates => q = p
  BY OpenFacts DEF PermitOwner
<1>3. Incomplete' \subseteq Incomplete
  BY <1>1, <1>2 DEF Incomplete, IncompleteRow, Kept, RowKept
<1>4. PermitOwner'
  <2>1. ASSUME NEW q \in Profiles, pc'[q] \in PermitStates  PROVE q = p
    BY <1>1, <1>2, <2>1 DEF Kept
  <2>2. CASE pc'[p] \in PermitStates
    <3>1. /\ queue' = queue /\ tx'[p].op = Op(p) /\ list' = list
          /\ journal'[Op(p)].state \notin Terminal <=> pc'[p] # "cleanup"
      BY <1>1, <2>2 DEF Kept, PermitStates
    <3>2. journal'[Op(p)].profile = p  BY <1>1, <1>2 DEF RowKept, RowOf
    <3> QED
      BY <1>2, <2>1, <3>1, <3>2
      DEF PermitOwner, Holds, Op, RowOf, IncompleteRow
  <2>3. CASE pc'[p] \notin PermitStates
    BY <2>1, <2>3 DEF PermitOwner
  <2> QED  BY <2>2, <2>3
<1>5. ListedIncomplete'
  BY <1>1, <1>2 DEF ListedIncomplete, IncompleteRow, Kept, RowKept, TypeOK
<1>6. RowsNameProfiles'
  BY <1>1, <1>3 DEF RowsNameProfiles, Incomplete, RowKept
<1>7. WaitingIsClear'
  <2>1. ASSUME NEW q \in Profiles, pc'[q] \in {"planned", "queued"}
        PROVE  pc[q] \in {"planned", "queued"}
    BY <1>1, <2>1 DEF Kept, PermitStates
  <2> QED  BY <1>1, <1>3, <2>1 DEF WaitingIsClear, Incomplete, RowKept
<1>8. OneIncompletePerProfile'
  BY <1>1, <1>3 DEF OneIncompletePerProfile, Incomplete, RowKept
<1>9. RowsInserted'
  <2>1. rows' = rows
    BY DEF Step, Enqueue, Begin, Reject, BackupsPersisted, AdvanceStage, Verified,
       Commit, Fail, RecognizeCommitted, StartRestore, FinishRollback, GiveUp,
       CleanupDone, PersistBackup, WriteFile, RestoreFile, RemoveBackup, PermitStates
  <2> QED  BY <1>3, <2>1 DEF RowsInserted
<1> QED  BY <1>4, <1>5, <1>6, <1>7, <1>8, <1>9
\* Taking up a row finds the permit free; a restart leaves nobody running.
LEMMA StartupStep ==
  ASSUME TypeOK, Control,
         RecoveryDone \/ Restart \/ \E o \in Ops : RecoverRow(o)
  PROVE  Control'
<1>. USE DEF Control, memory
<1>1. CASE RecoveryDone
  BY <1>1 DEF RecoveryDone, PermitOwner, ListedIncomplete, RowsNameProfiles,
     RowsInserted, WaitingIsClear, OneIncompletePerProfile, Incomplete,
     IncompleteRow, Holds, Op, RowOf
<1>2. CASE Restart
  <2>1. Incomplete' = Incomplete /\ journal' = journal /\ rows' = rows
    BY <1>2 DEF Restart, Incomplete, IncompleteRow
  <2>2. \A p \in Profiles : pc'[p] = "idle"  BY <1>2 DEF Restart
  <2>3. ListedIncomplete'
    BY <1>2, <2>1 DEF Restart, ListedIncomplete, Incomplete, IncompleteRow
  <2> QED
    BY <2>1, <2>2, <2>3 DEF PermitOwner, RowsNameProfiles, RowsInserted,
       WaitingIsClear, OneIncompletePerProfile, PermitStates
<1>3. ASSUME NEW o \in Ops, RecoverRow(o)  PROVE Control'
  <2>. DEFINE p == journal[o].profile
  <2>1. o \in Incomplete /\ p \in Profiles
    BY <1>3 DEF RecoverRow, ListedIncomplete, RowsNameProfiles, Incomplete
  <2>2. \A q \in Profiles : pc[q] \notin PermitStates
    BY <1>3 DEF RecoverRow, PermitOwner, Holds
  <2>3. /\ journal' = journal /\ rows' = rows
        /\ list' = list \ {o} /\ queue' = <<p>>
        /\ pc'[p] = "recover" /\ tx'[p].op = o
        /\ \A q \in Profiles \ {p} : pc'[q] = pc[q]
    BY <1>3, <2>1 DEF RecoverRow, Goto, Open, TypeOK
  <2>4. Incomplete' = Incomplete  BY <2>3 DEF Incomplete, IncompleteRow
  <2>5. <<p>> # <<>> /\ Head(<<p>>) = p  BY <2>1, QueueFacts, EmptySeq
  <2>6. PermitOwner'
    <3>1. ASSUME NEW q \in Profiles, pc'[q] \in PermitStates
          PROVE  /\ queue' # <<>> /\ Head(queue') = q /\ tx'[q].op \in Ops
                 /\ journal'[tx'[q].op].profile = q
                 /\ journal'[tx'[q].op].state \notin Terminal
                 /\ pc'[q] # "cleanup"
                 /\ tx'[q].op \notin list'
      <4>1. q = p  BY <2>2, <2>3, <3>1
      <4>2. journal[o].state \notin Terminal  BY <2>1 DEF Incomplete, IncompleteRow
      <4> QED  BY <2>3, <2>5, <4>1, <4>2
    <3> QED  BY <3>1 DEF PermitOwner, Holds, Op, RowOf, IncompleteRow
  <2>7. ListedIncomplete'  BY <2>3 DEF ListedIncomplete, IncompleteRow
  <2>8. WaitingIsClear'
    <3>1. ASSUME NEW q \in Profiles, pc'[q] \in {"planned", "queued"}
          PROVE  pc[q] \in {"planned", "queued"}
      BY <2>3, <3>1
    <3> QED  BY <2>3, <2>4, <3>1 DEF WaitingIsClear
  <2>9. RowsNameProfiles' /\ RowsInserted' /\ OneIncompletePerProfile'
    BY <2>3, <2>4 DEF RowsNameProfiles, RowsInserted, OneIncompletePerProfile
  <2> QED  BY <2>6, <2>7, <2>8, <2>9
<1> QED  BY <1>1, <1>2, <1>3

\* A step is one inside the permit, one before it, or the start-up's.
LEMMA StepKinds ==
  ASSUME Next
  PROVE  \/ \E p \in Profiles : pc[p] \in PermitStates /\ Step(p)
         \/ \E p \in Profiles : /\ pc[p] \notin PermitStates
                                /\ Enqueue(p) \/ Reject(p)
                                     \/ \E q \in Requests : Plan(p, q)
         \/ \E p \in Profiles : Begin(p)
         \/ RecoveryDone \/ Restart \/ \E o \in Ops : RecoverRow(o)
<1>1. ASSUME NEW p \in Profiles, Step(p), pc[p] \notin PermitStates
      PROVE  Enqueue(p) \/ Begin(p) \/ Reject(p)
  BY <1>1 DEF Step, BackupsPersisted, AdvanceStage, Verified, Commit, Fail,
     RecognizeCommitted, StartRestore, FinishRollback, GiveUp, CleanupDone,
     PersistBackup, WriteFile, RestoreFile, RemoveBackup, Undoing, PermitStates
<1>2. ASSUME NEW p \in Profiles, NEW q \in Requests, Plan(p, q)
      PROVE  pc[p] \notin PermitStates
  BY <1>2 DEF Plan, PermitStates
<1> QED  BY <1>1, <1>2 DEF Next

LEMMA ControlStep == ASSUME TypeOK, Control, Next PROVE Control'
  BY InsideStep, OutsideStep, BeginStep, StartupStep, StepKinds
-----------------------------------------------------------------------------
(* Recovery evidence. *)

\* Outside the permit nothing on disk changes but by Begin, and whoever did not
\* run inside the permit does not start to.
LEMMA QuietStep ==
  ASSUME TypeOK, Control,
         \/ \E p \in Profiles : /\ pc[p] \notin PermitStates
                                /\ Enqueue(p) \/ Reject(p)
                                     \/ \E q \in Requests : Plan(p, q)
         \/ RecoveryDone \/ Restart \/ \E o \in Ops : RecoverRow(o)
  PROVE  /\ file' = file /\ journal' = journal /\ backup' = backup
         /\ \A q \in Profiles : pc'[q] \in {"backup", "stage"} =>
              pc'[q] = pc[q] /\ tx'[q] = tx[q]
<1>1. ASSUME NEW o \in Ops, RecoverRow(o)
      PROVE  \A q \in Profiles : pc'[q] \in {"backup", "stage"} =>
               pc'[q] = pc[q] /\ tx'[q] = tx[q]
  <2>1. journal[o].profile \in Profiles
    BY <1>1 DEF RecoverRow, Control, ListedIncomplete, RowsNameProfiles, Incomplete
  <2> QED  BY <1>1, <2>1 DEF RecoverRow, Goto, Open, TypeOK
<1>2. ASSUME NEW p \in Profiles,
             Enqueue(p) \/ Reject(p) \/ \E q \in Requests : Plan(p, q)
      PROVE  \A q \in Profiles : pc'[q] \in {"backup", "stage"} =>
               pc'[q] = pc[q] /\ tx'[q] = tx[q]
  BY <1>2 DEF Enqueue, Reject, Plan, Goto, TypeOK
<1> QED
  BY <1>1, <1>2 DEF Enqueue, Reject, Plan, RecoveryDone, Restart, RecoverRow

LEMMA BackupsStep ==
  ASSUME TypeOK, Control, BackupsFirst, Next
  PROVE  BackupsFirst'
<1>1. ASSUME NEW p \in Profiles, pc[p] \in PermitStates, Step(p)
      PROVE  BackupsFirst'
  <2>1. Kept(p) /\ RowKept(p)  BY <1>1, PermitStep DEF Kept, Control
  <2>2. /\ Op(p) \in Ops
        /\ \A q \in Profiles : pc[q] \in PermitStates => q = p
    BY <1>1, OpenFacts DEF Control
  <2>3. ASSUME NEW q \in Profiles, pc'[q] \in {"backup", "stage"}
        PROVE  q = p /\ tx'[p].op = Op(p)
    BY <2>1, <2>2, <2>3 DEF Kept, PermitStates
  <2>4. ASSUME NEW r \in FileRoles, pc'[p] \in {"backup", "stage"},
               RowOf(p).before[r] # Absent, r \notin backup'[Op(p)]
        PROVE  pc'[p] = "backup" /\ r \in tx'[p].todo
    <3>1. CASE BackupsPersisted(p)
      BY <2>4, <3>1 DEF BackupsPersisted, BackupsFirst
    <3>2. CASE AdvanceStage(p)
      BY <2>4, <3>2 DEF AdvanceStage, Goto, TypeOK, BackupsFirst
    <3>3. ASSUME NEW x \in FileRoles, PersistBackup(p, x)
          PROVE  pc'[p] = "backup" /\ r \in tx'[p].todo
      BY <2>2, <2>4, <3>3 DEF PersistBackup, Done, TypeOK, BackupsFirst
    <3>4. ASSUME NEW x \in FileRoles,
                 WriteFile(p, x) \/ RestoreFile(p, x) \/ RemoveBackup(p, x)
          PROVE  pc'[p] = "backup" /\ r \in tx'[p].todo
      BY <2>4, <3>4 DEF WriteFile, RestoreFile, RemoveBackup, BackupsFirst
    <3>5. ~ (\/ Verified(p) \/ Commit(p) \/ Fail(p) \/ RecognizeCommitted(p)
             \/ StartRestore(p) \/ FinishRollback(p) \/ GiveUp(p)
             \/ CleanupDone(p))
      BY <2>4 DEF Verified, Commit, Fail, RecognizeCommitted, StartRestore,
         FinishRollback, GiveUp, CleanupDone, Leave, Goto, TypeOK
    <3>6. ~ (Enqueue(p) \/ Begin(p) \/ Reject(p))
      BY <1>1 DEF Enqueue, Begin, Reject, PermitStates
    <3> QED  BY <1>1, <3>1, <3>2, <3>3, <3>4, <3>5, <3>6 DEF Step
  <2>5. journal'[Op(p)].before = RowOf(p).before
    BY <2>1, <2>2 DEF RowKept, RowOf
  <2> QED  BY <2>3, <2>4, <2>5 DEF BackupsFirst, RowOf, Op
<1>2. ASSUME NEW p \in Profiles, Begin(p)  PROVE BackupsFirst'
  <2>. DEFINE n == rows + 1
  <2>1. n \in Ops  BY <1>2, ConstantsAssumption DEF Begin, Ops, TypeOK
  <2>2. \A q \in Profiles \ {p} : pc'[q] \notin PermitStates
    BY <1>2 DEF Begin, Goto, TypeOK, Control, PermitOwner, Holds
  <2>3. /\ pc'[p] = "backup" /\ tx'[p].op = n
        /\ tx'[p].todo = {r \in FileRoles : file[Path(p, r)] # Absent}
        /\ journal'[n].before = Digests(p)
    BY <1>2, <2>1 DEF Begin, Goto, Open, TypeOK
  <2>4. \A r \in FileRoles : Digests(p)[r] = Absent \/ r \in tx'[p].todo
    BY <2>3, ContentFacts
  <2> QED  BY <2>2, <2>3, <2>4 DEF BackupsFirst, RowOf, Op, PermitStates
<1>3. CASE \/ \E p \in Profiles : /\ pc[p] \notin PermitStates
                                  /\ Enqueue(p) \/ Reject(p)
                                       \/ \E q \in Requests : Plan(p, q)
           \/ RecoveryDone \/ Restart \/ \E o \in Ops : RecoverRow(o)
  BY <1>3, QuietStep DEF BackupsFirst, RowOf, Op
<1> QED  BY <1>1, <1>2, <1>3, StepKinds

\* A profile's own file is nobody else's.
LEMMA LocalPath ==
  ASSUME NEW p \in Profiles, NEW q \in Profiles,
         NEW r \in LocalRoles, NEW s \in FileRoles, Path(p, r) = Path(q, s)
  PROVE  p = q /\ r = s
<1>1. Path(p, r) = <<p, r>>  BY DEF Path, LocalRoles
<1>2. Path(q, s) = <<q, s>> \/ Path(q, s) = <<Global, s>>  BY DEF Path
<1> QED  BY <1>1, <1>2, ConstantsAssumption

LEMMA RecoveryStep ==
  ASSUME TypeOK, Control, BackupsFirst, LocalRecoveryIsSafe, Next
  PROVE  LocalRecoveryIsSafe'
<1>. USE DEF memory
<1>1. ASSUME NEW p \in Profiles, pc[p] \in PermitStates, Step(p)
      PROVE  LocalRecoveryIsSafe'
  <2>1. Kept(p) /\ RowKept(p)  BY <1>1, PermitStep DEF Kept, Control
  <2>2. /\ Op(p) \in Ops /\ RowOf(p).profile = p
        /\ IncompleteRow(Op(p)) <=> pc[p] # "cleanup"
    BY <1>1 DEF Control, PermitOwner
  <2>3. Incomplete' \subseteq Incomplete
    BY <2>1, <2>2 DEF Incomplete, IncompleteRow, Kept, RowKept
  <2>4. SUFFICES ASSUME NEW o \in Incomplete, NEW r \in LocalRoles
                 PROVE  (Undoable(o, r) /\ OnlyOwnWrites(o, r))'
    BY <2>3 DEF LocalRecoveryIsSafe
  <2>5. /\ o \in Ops /\ r \in FileRoles
        /\ journal[o].profile \in Profiles
        /\ journal'[o].profile = journal[o].profile
        /\ journal'[o].before = journal[o].before
        /\ Undoable(o, r) /\ OnlyOwnWrites(o, r)
    BY <2>1, <2>4 DEF Incomplete, LocalRoles, RowKept, Control,
       RowsNameProfiles, LocalRecoveryIsSafe
  <2>. DEFINE f == Path(journal[o].profile, r)
  <2>6. f \in Files  BY <2>5, PathFacts
  <2>7. CASE file' = file /\ backup[o] \subseteq backup'[o]
    BY <2>5, <2>7 DEF Undoable, OnlyOwnWrites
  <2>8. ASSUME NEW s \in FileRoles, RemoveBackup(p, s)
        PROVE  file' = file /\ backup'[o] = backup[o]
    <3>1. o # Op(p)  BY <2>2, <2>4, <2>8 DEF RemoveBackup, Incomplete
    <3> QED  BY <2>2, <2>5, <2>8, <3>1 DEF RemoveBackup, TypeOK
  <2>9. ASSUME NEW s \in FileRoles, WriteFile(p, s) \/ RestoreFile(p, s)
        PROVE  (Undoable(o, r) /\ OnlyOwnWrites(o, r))'
    <3>1. backup' = backup /\ pc[p] # "cleanup"
      BY <2>9 DEF WriteFile, RestoreFile
    <3>2. Path(p, s) \in Files  BY PathFacts
    <3>3. CASE f # Path(p, s)
      <4>1. file'[f] = file[f]
        BY <2>6, <2>9, <3>2, <3>3 DEF WriteFile, RestoreFile, TypeOK
      <4> QED  BY <2>5, <3>1, <4>1 DEF Undoable, OnlyOwnWrites
    <3>4. CASE f = Path(p, s)
      <4>1. journal[o].profile = p /\ r = s
        BY <2>5, <3>4, LocalPath
      <4>2. o = Op(p)
        BY <2>2, <2>4, <3>1, <4>1
        DEF Control, OneIncompletePerProfile, Incomplete, RowOf
      <4>3. CASE WriteFile(p, s)
        <5>1. file'[f] = <<o, CommitStages[tx[p].stage]>>
          BY <3>2, <3>4, <4>2, <4>3 DEF WriteFile, TypeOK
        <5>2. journal[o].before[r] = Absent \/ r \in backup[o]
          BY <2>5, <4>2, <4>3 DEF WriteFile, BackupsFirst, RowOf
        <5> QED  BY <2>5, <3>1, <5>1, <5>2 DEF Undoable, OnlyOwnWrites
      <4>4. CASE RestoreFile(p, s)
        <5>1. file'[f] = journal[o].before[r]
          BY <3>2, <3>4, <4>1, <4>2, <4>4 DEF RestoreFile, TypeOK, RowOf
        <5> QED  BY <2>5, <5>1 DEF Undoable, OnlyOwnWrites
      <4> QED  BY <2>9, <4>3, <4>4
    <3> QED  BY <3>3, <3>4
  <2>10. ASSUME NEW s \in FileRoles, PersistBackup(p, s)
         PROVE  file' = file /\ backup[o] \subseteq backup'[o]
    BY <2>5, <2>2, <2>10 DEF PersistBackup, TypeOK
  <2>11. CASE ~ \E s \in FileRoles : \/ PersistBackup(p, s) \/ WriteFile(p, s)
                                     \/ RestoreFile(p, s) \/ RemoveBackup(p, s)
    <3>1. ~ (Enqueue(p) \/ Begin(p) \/ Reject(p))
      BY <1>1 DEF Enqueue, Begin, Reject, PermitStates
    <3>2. file' = file /\ backup' = backup
      BY <1>1, <2>11, <3>1 DEF Step, BackupsPersisted, AdvanceStage, Verified,
         Commit, Fail, RecognizeCommitted, StartRestore, FinishRollback, GiveUp,
         CleanupDone
    <3> QED  BY <2>7, <3>2
  <2> QED  BY <2>7, <2>8, <2>9, <2>10, <2>11
<1>2. ASSUME NEW p \in Profiles, Begin(p)  PROVE LocalRecoveryIsSafe'
  <2>. DEFINE n == rows + 1
  <2>1. n \in Ops  BY <1>2, ConstantsAssumption DEF Begin, Ops, TypeOK
  <2>2. /\ file' = file /\ backup' = backup
        /\ journal'[n].profile = p /\ journal'[n].before = Digests(p)
        /\ \A x \in Ops \ {n} : journal'[x] = journal[x]
    BY <1>2, <2>1 DEF Begin, TypeOK
  <2>3. ASSUME NEW r \in LocalRoles
        PROVE  file'[Path(journal'[n].profile, r)] = journal'[n].before[r]
    BY <2>2, <2>3, ContentFacts DEF LocalRoles
  <2>4. \A o \in Incomplete' : o = n \/ o \in Incomplete
    BY <2>2 DEF Incomplete, IncompleteRow
  <2>5. ASSUME NEW o \in Incomplete', NEW r \in LocalRoles
        PROVE  (Undoable(o, r) /\ OnlyOwnWrites(o, r))'
    <3>1. CASE o = n  BY <2>3, <3>1 DEF Undoable, OnlyOwnWrites
    <3>2. CASE o # n
      <4>1. journal'[o] = journal[o] /\ Undoable(o, r) /\ OnlyOwnWrites(o, r)
        BY <2>2, <2>4, <2>5, <3>2 DEF LocalRecoveryIsSafe, Incomplete
      <4> QED  BY <2>2, <4>1 DEF Undoable, OnlyOwnWrites
    <3> QED  BY <3>1, <3>2
  <2> QED  BY <2>5 DEF LocalRecoveryIsSafe
<1>3. CASE \/ \E p \in Profiles : /\ pc[p] \notin PermitStates
                                  /\ Enqueue(p) \/ Reject(p)
                                       \/ \E q \in Requests : Plan(p, q)
           \/ RecoveryDone \/ Restart \/ \E o \in Ops : RecoverRow(o)
  BY <1>3, QuietStep
  DEF LocalRecoveryIsSafe, Undoable, OnlyOwnWrites, Incomplete, IncompleteRow
<1> QED  BY <1>1, <1>2, <1>3, StepKinds
-----------------------------------------------------------------------------
(* The theorems. *)

LEMMA Initially == Init => IndInv
<1>. SUFFICES ASSUME Init PROVE IndInv  OBVIOUS
<1>. USE DEF Init
<1>1. NoDigests \in [FileRoles -> Contents]  BY DEF NoDigests, Contents
<1>2. NoRow \in Row
  BY <1>1, StageFacts, ConstantsAssumption DEF NoRow, Row
<1>3. NoReq \in [kind : Kinds, writes : SUBSET StageFiles,
                 new : Routes, planned : [FileRoles -> Contents]]
  BY <1>1, ConstantsAssumption DEF NoReq, Kinds
<1>4. NoTx \in [op : Ops \cup {0}, stage : 1..Len(CommitStages),
                todo : SUBSET FileRoles]
  BY StageFacts DEF NoTx
<1>5. TypeOK
  BY <1>2, <1>3, <1>4, EmptySeq, ConstantsAssumption
  DEF TypeOK, PcStates, Contents
<1>6. Incomplete = {}
  BY DEF Incomplete, IncompleteRow, NoRow, Terminal
<1>7. Control
  BY <1>6 DEF Control, PermitOwner, ListedIncomplete, RowsNameProfiles,
     RowsInserted, WaitingIsClear, OneIncompletePerProfile, PermitStates
<1> QED  BY <1>5, <1>6, <1>7 DEF IndInv, BackupsFirst, LocalRecoveryIsSafe

LEMMA Stutter == ASSUME IndInv, UNCHANGED vars PROVE IndInv'
<1>1. TypeOK'  BY DEF IndInv, TypeOK, vars
<1>2. PermitOwner' /\ ListedIncomplete'
  BY DEF IndInv, Control, PermitOwner, ListedIncomplete, IncompleteRow,
     Holds, Op, RowOf, vars
<1>3. RowsNameProfiles' /\ RowsInserted' /\ WaitingIsClear'
      /\ OneIncompletePerProfile'
  BY DEF IndInv, Control, RowsNameProfiles, RowsInserted, WaitingIsClear,
     OneIncompletePerProfile, Incomplete, IncompleteRow, vars
<1>4. BackupsFirst' /\ LocalRecoveryIsSafe'
  BY DEF IndInv, BackupsFirst, LocalRecoveryIsSafe, Undoable, OnlyOwnWrites,
     Incomplete, IncompleteRow, Op, RowOf, vars
<1> QED  BY <1>1, <1>2, <1>3, <1>4 DEF IndInv, Control

\* The invariant the others follow from holds in every reachable state.
THEOREM Invariance == Spec => []IndInv
<1>1. Init => IndInv  BY Initially
<1>2. IndInv /\ [Next]_vars => IndInv'
  <2>1. ASSUME IndInv, Next PROVE IndInv'
    BY <2>1, TypeStep, ControlStep, BackupsStep, RecoveryStep DEF IndInv, Control
  <2> QED  BY <2>1, Stutter
<1> QED  BY <1>1, <1>2, PTL DEF Spec

\* Every variable of the transaction stays in its type, whatever the profiles,
\* the requests and the bounds are.
THEOREM TypeCorrect == Spec => []TypeOK
<1>1. IndInv => TypeOK  BY DEF IndInv
<1> QED  BY <1>1, Invariance, PTL

\* A profile has at most one unfinished operation on record: admission fails
\* closed on the journal, and a waiting request keeps its profile's lock.
THEOREM OneIncomplete == Spec => []OneIncompletePerProfile
<1>1. IndInv => OneIncompletePerProfile  BY DEF IndInv, Control
<1> QED  BY <1>1, Invariance, PTL

\* Rollback and startup recovery always find complete evidence, theirs alone,
\* for .env, providers.json and config.yaml of an unfinished operation.
THEOREM LocalEvidence == Spec => []LocalRecoveryIsSafe
<1>1. IndInv => LocalRecoveryIsSafe  BY DEF IndInv
<1> QED  BY <1>1, Invariance, PTL
-----------------------------------------------------------------------------
(* What a running operation has written, and what it planned against.  The *)
(* parts hold beside IndInv and are proved with its help.                  *)

Working == {"backup", "stage", "verify", "commit"}

\* The stage files the operation of p has written so far.
Written(p) ==
  {sf \in req[p].writes :
     \/ pc[p] \in {"verify", "commit"}
     \/ /\ pc[p] = "stage"
        /\ \E i \in 1..tx[p].stage :
             sf[1] = CommitStages[i] /\ (i = tx[p].stage => sf[2] \notin tx[p].todo)}

\* Bytes are numbered by operations journalled before they are read.
Numbered ==
  /\ \A f \in Files : file[f][1] <= rows
  /\ \A o \in Incomplete, r \in FileRoles : journal[o].before[r][1] < o

\* Until it fails, an operation has replaced the bytes it planned against by
\* its own in the stages that are done, and nothing else.
OwnProgress(p) ==
  /\ intent[Op(p)] = req[p].writes
  /\ pc[p] = "stage" =>
       tx[p].todo \subseteq StageRoles(req[p].writes, tx[p].stage)
  /\ \A sf \in Written(p) :
       /\ req[p].planned[sf[2]] = RowOf(p).before[sf[2]]
       /\ file[Path(p, sf[2])] = <<Op(p), sf[1]>>
  /\ \A r \in FileRoles : \/ file[Path(p, r)] = RowOf(p).before[r]
                          \/ \E sf \in Written(p) : sf[2] = r
Progress == \A p \in Profiles : pc[p] \in Working => OwnProgress(p)

\* The old bytes of an unfinished operation select its old route.
OldRoute ==
  \A o \in Incomplete : RouteOf(journal[o].before["config"]) = journal[o].old

\* Digests that show the new route show every stage of the operation.
AfterIsWhole ==
  \A o \in Incomplete : journal[o].after["config"] = <<o, "activation">> =>
    \A sf \in intent[o] : journal[o].after[sf[2]] = <<o, sf[1]>>

Evidence == Numbered /\ Progress /\ OldRoute /\ AfterIsWhole

LEMMA ContentNumber ==
  ASSUME NEW c \in Contents
  PROVE  c[1] \in Nat /\ (c[1] = 0 \/ c[1] \in Ops)
<1>1. c \in {Absent, Base, NoDigest} \/ c \in Ops \X Stages  BY DEF Contents
<1>2. CASE c \in {Absent, Base, NoDigest}  BY <1>2 DEF Absent, Base, NoDigest
<1>3. CASE c \in Ops \X Stages  BY <1>3, ConstantsAssumption DEF Ops
<1> QED  BY <1>1, <1>2, <1>3

LEMMA StageFile ==
  ASSUME NEW sf \in StageFiles
  PROVE  /\ sf = <<sf[1], sf[2]>> /\ sf[2] \in FileRoles
         /\ \E i \in 1..5 : sf[1] = CommitStages[i]
  BY DEF StageFiles, FileRoles, CommitStages

LEMMA Activation ==
  ASSUME NEW i \in 1..5, CommitStages[i] = "activation" PROVE i = 5
<1>1. i = 1 \/ i = 2 \/ i = 3 \/ i = 4 \/ i = 5  OBVIOUS
<1> QED  BY <1>1 DEF CommitStages

\* The roles of one profile are different files.
LEMMA PathsApart ==
  ASSUME NEW p \in Profiles, NEW r \in FileRoles, NEW s \in FileRoles,
         Path(p, r) = Path(p, s)
  PROVE  r = s
<1>1. Path(p, r) = <<p, r>> \/ Path(p, r) = <<Global, r>>  BY DEF Path
<1>2. Path(p, s) = <<p, s>> \/ Path(p, s) = <<Global, s>>  BY DEF Path
<1> QED  BY <1>1, <1>2

\* Outside the permit nothing on disk changes but by Begin, and nobody gets to
\* work.
LEMMA QuietWork ==
  ASSUME TypeOK, Control,
         \/ \E p \in Profiles : /\ pc[p] \notin PermitStates
                                /\ Enqueue(p) \/ Reject(p)
                                     \/ \E q \in Requests : Plan(p, q)
         \/ RecoveryDone \/ Restart \/ \E o \in Ops : RecoverRow(o)
  PROVE  /\ file' = file /\ journal' = journal /\ rows' = rows
         /\ intent' = intent
         /\ \A q \in Profiles : pc'[q] \in Working =>
              pc'[q] = pc[q] /\ tx'[q] = tx[q] /\ req'[q] = req[q]
<1>. USE DEF Working
<1>1. ASSUME NEW o \in Ops, RecoverRow(o)
      PROVE  \A q \in Profiles : pc'[q] \in Working =>
               pc'[q] = pc[q] /\ tx'[q] = tx[q] /\ req'[q] = req[q]
  <2>1. journal[o].profile \in Profiles
    BY <1>1 DEF RecoverRow, Control, ListedIncomplete, RowsNameProfiles, Incomplete
  <2> QED  BY <1>1, <2>1 DEF RecoverRow, Goto, Open, TypeOK
<1>2. ASSUME NEW p \in Profiles,
             Enqueue(p) \/ Reject(p) \/ \E q \in Requests : Plan(p, q)
      PROVE  \A q \in Profiles : pc'[q] \in Working =>
               pc'[q] = pc[q] /\ tx'[q] = tx[q] /\ req'[q] = req[q]
  BY <1>2 DEF Enqueue, Reject, Plan, Goto, TypeOK
<1> QED
  BY <1>1, <1>2 DEF Enqueue, Reject, Plan, RecoveryDone, Restart, RecoverRow

\* Inside the permit no row is inserted, no intent recorded and no other
\* profile at work.
LEMMA InsideFrame ==
  ASSUME TypeOK, Control, NEW p \in Profiles, pc[p] \in PermitStates, Step(p)
  PROVE  /\ Kept(p) /\ RowKept(p)
         /\ rows' = rows /\ intent' = intent
         /\ Op(p) \in Ops /\ RowOf(p).profile = p
         /\ pc[p] # "cleanup" => Op(p) \in Incomplete /\ Op(p) <= rows
         /\ Incomplete' \subseteq Incomplete
         /\ \A q \in Profiles \ {p} : pc[q] \notin PermitStates
                                        /\ pc'[q] \notin PermitStates
<1>1. Kept(p) /\ RowKept(p)  BY PermitStep DEF Kept, Control
<1>2. rows' = rows /\ intent' = intent
  BY DEF Step, Enqueue, Begin, Reject, BackupsPersisted, AdvanceStage, Verified,
     Commit, Fail, RecognizeCommitted, StartRestore, FinishRollback, GiveUp,
     CleanupDone, PersistBackup, WriteFile, RestoreFile, RemoveBackup, PermitStates
<1>3. Op(p) \in Ops /\ \A q \in Profiles : pc[q] \in PermitStates => q = p
  BY OpenFacts DEF Control
<1>4. RowOf(p).profile = p /\ (IncompleteRow(Op(p)) <=> pc[p] # "cleanup")
  BY DEF Control, PermitOwner
<1>5. Incomplete' \subseteq Incomplete
  BY <1>1, <1>3, <1>4 DEF Incomplete, IncompleteRow, Kept, RowKept
<1>6. pc[p] # "cleanup" => Op(p) \in Incomplete /\ Op(p) <= rows
  BY <1>3, <1>4 DEF Incomplete, Control, RowsInserted
<1> QED  BY <1>1, <1>2, <1>3, <1>4, <1>5, <1>6 DEF Kept

\* What Begin journals.
LEMMA BeginFrame ==
  ASSUME TypeOK, Control, NEW p \in Profiles, Begin(p)
  PROVE  /\ rows + 1 \in Ops /\ rows \in Nat /\ rows' = rows + 1
         /\ file' = file /\ req' = req
         /\ journal'[rows + 1].profile = p
         /\ journal'[rows + 1].before = Digests(p)
         /\ journal'[rows + 1].after = NoDigests
         /\ journal'[rows + 1].old = ActiveRoute(p)
         /\ journal'[rows + 1].new = req[p].new
         /\ intent'[rows + 1] = req[p].writes
         /\ \A x \in Ops \ {rows + 1} : /\ journal'[x] = journal[x]
                                        /\ intent'[x] = intent[x]
         /\ rows + 1 \notin Incomplete
         /\ Incomplete' = Incomplete \cup {rows + 1}
         /\ pc[p] = "queued" /\ pc'[p] = "backup" /\ tx'[p].op = rows + 1
         /\ \A q \in Profiles \ {p} : pc'[q] = pc[q] /\ pc'[q] \notin PermitStates
<1>1. rows + 1 \in Ops /\ rows \in Nat /\ rows' = rows + 1
  BY ConstantsAssumption DEF Begin, Ops, TypeOK
<1>2. /\ journal' = [journal EXCEPT ![rows + 1] =
            [profile |-> p, state |-> "prepared", old |-> ActiveRoute(p),
             new |-> req[p].new, before |-> Digests(p), after |-> NoDigests]]
      /\ intent' = [intent EXCEPT ![rows + 1] = req[p].writes]
      /\ file' = file /\ req' = req
      /\ pc[p] = "queued" /\ pc'[p] = "backup" /\ tx'[p].op = rows + 1
      /\ \A q \in Profiles \ {p} : pc'[q] = pc[q]
  BY DEF Begin, Goto, Open, TypeOK
<1>3. /\ \A x \in Ops \ {rows + 1} : journal'[x] = journal[x] /\ intent'[x] = intent[x]
      /\ journal'[rows + 1].state = "prepared"
  BY <1>1, <1>2 DEF TypeOK
<1>4. rows + 1 \notin Incomplete  BY <1>1 DEF Control, RowsInserted
<1>5. Incomplete' = Incomplete \cup {rows + 1}
  BY <1>1, <1>3, StageFacts DEF Incomplete, IncompleteRow
<1>6. \A q \in Profiles \ {p} : pc[q] \notin PermitStates
  BY DEF Begin, Control, PermitOwner, Holds
<1> QED  BY <1>1, <1>2, <1>3, <1>4, <1>5, <1>6 DEF TypeOK

LEMMA NumberedStep ==
  ASSUME TypeOK, Control, Numbered, Next PROVE Numbered'
<1>1. ASSUME NEW p \in Profiles, pc[p] \in PermitStates, Step(p)  PROVE Numbered'
  <2>1. \A o \in Incomplete', r \in FileRoles : journal'[o].before[r][1] < o
    BY <1>1, InsideFrame DEF Numbered, RowKept, Incomplete
  <2>2. ASSUME NEW f \in Files  PROVE file'[f][1] <= rows
    <3>1. CASE file' = file  BY <3>1 DEF Numbered
    <3>2. ASSUME NEW r \in FileRoles, WriteFile(p, r)  PROVE file'[f][1] <= rows
      <4>1. pc[p] = "stage" /\ file' = [file EXCEPT ![Path(p, r)] =
                                  <<Op(p), CommitStages[tx[p].stage]>>]
        BY <3>2 DEF WriteFile
      <4>2. Op(p) <= rows  BY <1>1, <4>1, InsideFrame
      <4> QED  BY <4>1, <4>2 DEF TypeOK, Numbered
    <3>3. ASSUME NEW r \in FileRoles, RestoreFile(p, r)  PROVE file'[f][1] <= rows
      <4>1. pc[p] = "restore"
            /\ file' = [file EXCEPT ![Path(p, r)] = RowOf(p).before[r]]
        BY <3>3 DEF RestoreFile
      <4>2. Op(p) \in Incomplete /\ Op(p) <= rows  BY <1>1, <4>1, InsideFrame
      <4>3. RowOf(p).before[r][1] < Op(p)  BY <4>2 DEF Numbered, RowOf
      <4>4. RowOf(p).before[r] \in Contents  BY <1>1, InsideFrame DEF TypeOK, Row, RowOf
      <4>5. RowOf(p).before[r][1] \in Nat /\ Op(p) \in Nat /\ rows \in Nat
        BY <1>1, <4>4, ContentNumber, InsideFrame, ConstantsAssumption DEF Ops, TypeOK
      <4>6. RowOf(p).before[r][1] <= rows  BY <4>2, <4>3, <4>5
      <4> QED  BY <4>1, <4>6 DEF TypeOK, Numbered
    <3>4. ~ (Enqueue(p) \/ Begin(p) \/ Reject(p))
      BY <1>1 DEF Enqueue, Begin, Reject, PermitStates
    <3> QED
      BY <1>1, <3>1, <3>2, <3>3, <3>4 DEF Step, BackupsPersisted, AdvanceStage,
         Verified, Commit, Fail, RecognizeCommitted, StartRestore, FinishRollback,
         GiveUp, CleanupDone, PersistBackup, RemoveBackup
  <2> QED  BY <1>1, <2>1, <2>2, InsideFrame DEF Numbered
<1>2. ASSUME NEW p \in Profiles, Begin(p)  PROVE Numbered'
  <2>1. /\ rows + 1 \in Ops /\ rows \in Nat /\ rows' = rows + 1
        /\ file' = file /\ journal'[rows + 1].before = Digests(p)
        /\ \A x \in Ops \ {rows + 1} : journal'[x] = journal[x]
        /\ Incomplete' = Incomplete \cup {rows + 1}
    BY <1>2, BeginFrame
  <2>2. \A f \in Files : file[f][1] <= rows /\ file[f][1] \in Nat
    BY ContentNumber DEF Numbered, TypeOK
  <2>3. \A f \in Files : file[f][1] <= rows + 1  BY <2>1, <2>2
  <2>4. ASSUME NEW r \in FileRoles  PROVE Digests(p)[r][1] < rows + 1
    <3>1. Digests(p)[r] = file[Path(p, r)] /\ Path(p, r) \in Files
      BY ContentFacts, PathFacts
    <3> QED  BY <2>1, <2>2, <3>1
  <2>5. ASSUME NEW o \in Incomplete', NEW r \in FileRoles
        PROVE  journal'[o].before[r][1] < o
    <3>1. CASE o = rows + 1  BY <2>1, <2>4, <3>1
    <3>2. CASE o # rows + 1
      <4>1. o \in Incomplete /\ o \in Ops  BY <2>1, <3>2 DEF Incomplete
      <4> QED  BY <2>1, <3>2, <4>1 DEF Numbered
    <3> QED  BY <3>1, <3>2
  <2> QED  BY <2>1, <2>3, <2>5 DEF Numbered
<1>3. CASE \/ \E p \in Profiles : /\ pc[p] \notin PermitStates
                                  /\ Enqueue(p) \/ Reject(p)
                                       \/ \E q \in Requests : Plan(p, q)
           \/ RecoveryDone \/ Restart \/ \E o \in Ops : RecoverRow(o)
  BY <1>3, QuietWork DEF Numbered, Incomplete, IncompleteRow
<1> QED  BY <1>1, <1>2, <1>3, StepKinds

\* The steps of an operation at work.
LEMMA WorkSteps ==
  ASSUME TypeOK, Control, NEW p \in Profiles, pc[p] \in PermitStates, Step(p),
         pc'[p] \in Working
  PROVE  \/ BackupsPersisted(p) \/ AdvanceStage(p) \/ Verified(p)
         \/ \E r \in FileRoles : PersistBackup(p, r) \/ WriteFile(p, r)
<1>1. ~ (Enqueue(p) \/ Begin(p) \/ Reject(p))
  BY DEF Enqueue, Begin, Reject, PermitStates
<1>2. ~ (Commit(p) \/ Fail(p) \/ RecognizeCommitted(p) \/ StartRestore(p)
           \/ FinishRollback(p))
  BY DEF Commit, Fail, RecognizeCommitted, StartRestore, FinishRollback, Goto,
     Working, TypeOK
<1>3. ~ (GiveUp(p) \/ CleanupDone(p))
  BY DEF GiveUp, CleanupDone, Leave, Goto, Working, TypeOK
<1>4. \A r \in FileRoles : ~ (RestoreFile(p, r) \/ RemoveBackup(p, r))
  BY DEF RestoreFile, RemoveBackup, Working, TypeOK
<1> QED  BY <1>1, <1>2, <1>3, <1>4 DEF Step

\* One file written: the stage file joins those written, and its old bytes
\* were the planned ones.
LEMMA WriteProgress ==
  ASSUME TypeOK, Control, Numbered, Progress, NEW p \in Profiles,
         NEW r \in FileRoles, WriteFile(p, r)
  PROVE  LET sf == <<CommitStages[tx[p].stage], r>> IN
         /\ Written(p)' = Written(p) \cup {sf}
         /\ req[p].planned[r] = RowOf(p).before[r]
         /\ \A x \in Written(p) : x[2] # r
         /\ tx'[p].todo \subseteq StageRoles(req[p].writes, tx[p].stage)
<1>. DEFINE i == tx[p].stage
            sf == <<CommitStages[i], r>>
<1>1. /\ pc[p] = "stage" /\ pc' = pc /\ req' = req /\ r \in tx[p].todo
      /\ tx' = [tx EXCEPT ![p].todo = @ \ {r}]
      /\ file[Path(p, r)] = req[p].planned[r]
  BY DEF WriteFile, Done, PlanIsFresh
<1>2. /\ pc[p] \in Working /\ pc[p] \in PermitStates
      /\ tx[p].todo \subseteq StageRoles(req[p].writes, i)
      /\ i \in 1..5
  BY <1>1, StageFacts DEF Working, PermitStates, Progress, OwnProgress, TypeOK
<1>3. tx'[p].stage = i /\ tx'[p].todo = tx[p].todo \ {r}
  BY <1>1 DEF TypeOK
<1>4. sf \in req[p].writes  BY <1>1, <1>2 DEF StageRoles
<1>5. \A x \in Written(p) : x[2] # r
  <2>1. SUFFICES ASSUME NEW x \in Written(p), x[2] = r PROVE FALSE  OBVIOUS
  <2>2. /\ req[p].planned[r] = RowOf(p).before[r]
        /\ file[Path(p, r)] = <<Op(p), x[1]>>
    BY <1>2, <2>1 DEF Progress, OwnProgress
  <2>3. RowOf(p).before[r] = <<Op(p), x[1]>>  BY <1>1, <2>2
  <2>4. Op(p) \in Incomplete /\ Op(p) \in Nat
    BY <1>1, <1>2 DEF Control, PermitOwner, Incomplete, Ops
  <2>5. RowOf(p).before[r][1] < Op(p)  BY <2>4 DEF Numbered, RowOf
  <2> QED  BY <2>3, <2>4, <2>5
<1>6. req[p].planned[r] = RowOf(p).before[r]
  BY <1>1, <1>2, <1>5 DEF Progress, OwnProgress
<1>7. Written(p)' = Written(p) \cup {sf}
  <2>1. ASSUME NEW x \in req[p].writes
        PROVE  x \in Written(p)' <=> x \in Written(p) \/ x = sf
    <3>0. x \in StageFiles  BY <2>1 DEF TypeOK
    <3>1. x \in Written(p) <=>
            \E k \in 1..i : x[1] = CommitStages[k] /\ (k = i => x[2] \notin tx[p].todo)
      BY <1>1, <2>1 DEF Written
    <3>2. x \in Written(p)' <=>
            \E k \in 1..i : x[1] = CommitStages[k]
                              /\ (k = i => x[2] \notin tx[p].todo \ {r})
      BY <1>1, <1>3, <2>1 DEF Written
    <3>3. x = <<x[1], x[2]>>  BY <3>0, StageFile
    <3>4. CASE x = sf  
      <4>1. x[1] = CommitStages[i] /\ x[2] = r /\ i \in 1..i  BY <1>2, <3>4
      <4> QED  BY <3>2, <3>4, <4>1
    <3>5. CASE x # sf
      <4>1. ~ (x[1] = CommitStages[i] /\ x[2] = r)  BY <3>3, <3>5
      <4> QED  BY <3>1, <3>2, <3>5, <4>1
    <3> QED  BY <3>4, <3>5
  <2>2. Written(p)' \subseteq req[p].writes /\ Written(p) \subseteq req[p].writes
    BY <1>1 DEF Written
  <2> QED  BY <1>4, <2>1, <2>2
<1> QED  BY <1>2, <1>3, <1>5, <1>6, <1>7

\* Between two stages nothing more is written; after the last, everything is.
LEMMA StageProgress ==
  ASSUME TypeOK, Control, Progress, NEW p \in Profiles
  PROVE  /\ BackupsPersisted(p) => Written(p)' = {}
         /\ AdvanceStage(p) /\ pc'[p] = "stage" => Written(p)' = Written(p)
         /\ AdvanceStage(p) /\ (pc'[p] # "stage" \/ tx[p].stage = 5) =>
              Written(p) = req[p].writes /\ Written(p)' = req[p].writes
         /\ Verified(p) => Written(p) = req[p].writes /\ Written(p)' = req[p].writes
<1>0. req[p].writes \subseteq StageFiles  BY DEF TypeOK
<1>1. ASSUME BackupsPersisted(p)  PROVE Written(p)' = {}
  <2>1. /\ pc'[p] = "stage" /\ tx'[p].stage = 1 /\ req' = req
        /\ tx'[p].todo = StageRoles(req[p].writes, 1)
    BY <1>1 DEF BackupsPersisted, Open, Goto, TypeOK
  <2>2. ASSUME NEW x \in Written(p)'  PROVE FALSE
    <3>1. x \in req[p].writes /\ x[1] = CommitStages[1]
          /\ x[2] \notin StageRoles(req[p].writes, 1)
      BY <2>1, <2>2 DEF Written
    <3>2. x = <<x[1], x[2]>> /\ x[2] \in FileRoles  BY <1>0, <3>1, StageFile
    <3> QED  BY <3>1, <3>2 DEF StageRoles
  <2> QED  BY <2>2
<1>2. ASSUME AdvanceStage(p), pc'[p] = "stage"  PROVE Written(p)' = Written(p)
  <2>. DEFINE i == tx[p].stage
  <2>1. pc[p] = "stage" /\ tx[p].todo = {} /\ req' = req /\ i \in 1..5
    BY <1>2, StageFacts DEF AdvanceStage, TypeOK
  <2>2. i < 5 /\ tx'[p].stage = i + 1
        /\ tx'[p].todo = StageRoles(req[p].writes, i + 1)
    BY <1>2, StageFacts DEF AdvanceStage, Goto, Open, TypeOK
  <2>3. ASSUME NEW x \in req[p].writes
        PROVE  x \in Written(p)' <=> x \in Written(p)
    <3>1. x \in Written(p) <=> \E k \in 1..i : x[1] = CommitStages[k]
      BY <2>1, <2>3 DEF Written
    <3>2. x \in Written(p)' <=>
            \E k \in 1..(i + 1) :
              x[1] = CommitStages[k]
                /\ (k = i + 1 => x[2] \notin StageRoles(req[p].writes, i + 1))
      BY <1>2, <2>1, <2>2, <2>3 DEF Written
    <3>3. x = <<x[1], x[2]>> /\ x[2] \in FileRoles  BY <1>0, <2>3, StageFile
    <3>4. x[1] = CommitStages[i + 1] => x[2] \in StageRoles(req[p].writes, i + 1)
      BY <2>3, <3>3 DEF StageRoles
    <3>5. /\ 1..i \subseteq 1..(i + 1)
          /\ \A k \in 1..(i + 1) : k = i + 1 \/ k \in 1..i
          /\ \A k \in 1..i : k # i + 1
      BY <2>1
    <3> QED  BY <3>1, <3>2, <3>4, <3>5
  <2>4. Written(p)' \subseteq req[p].writes /\ Written(p) \subseteq req[p].writes
    BY <2>1 DEF Written
  <2> QED  BY <2>3, <2>4
<1>3. ASSUME AdvanceStage(p), pc'[p] # "stage" \/ tx[p].stage = 5
      PROVE  Written(p) = req[p].writes /\ Written(p)' = req[p].writes
  <2>1. /\ pc[p] = "stage" /\ tx[p].todo = {} /\ req' = req
        /\ tx[p].stage = 5 /\ pc'[p] = "verify"
    <3>1. pc[p] = "stage" /\ tx[p].todo = {} /\ req' = req /\ tx[p].stage \in 1..5
      BY <1>3, StageFacts DEF AdvanceStage, TypeOK
    <3>2. tx[p].stage < 5 => pc'[p] = "stage"  
      BY <1>3, <3>1, StageFacts DEF AdvanceStage
    <3>3. ~(tx[p].stage < 5) => pc'[p] = "verify"
      BY <1>3, <3>1, StageFacts DEF AdvanceStage, Goto, TypeOK
    <3> QED  BY <1>3, <3>1, <3>2, <3>3
  <2>2. ASSUME NEW x \in req[p].writes  PROVE x \in Written(p)
    <3>1. \E k \in 1..5 : x[1] = CommitStages[k]  BY <1>0, <2>2, StageFile
    <3> QED  BY <2>1, <2>2, <3>1 DEF Written
  <2> QED  BY <2>1, <2>2 DEF Written
<1>4. ASSUME Verified(p)
      PROVE  Written(p) = req[p].writes /\ Written(p)' = req[p].writes
  BY <1>4 DEF Verified, Goto, TypeOK, Written
<1> QED  BY <1>1, <1>2, <1>3, <1>4

LEMMA ProgressStep ==
  ASSUME TypeOK, Control, Numbered, Progress, Next PROVE Progress'
<1>1. ASSUME NEW p \in Profiles, pc[p] \in PermitStates, Step(p)  PROVE Progress'
  <2>1. /\ Kept(p) /\ RowKept(p) /\ intent' = intent /\ Op(p) \in Ops
        /\ \A q \in Profiles \ {p} : pc'[q] \notin PermitStates
    BY <1>1, InsideFrame
  <2>2. SUFFICES ASSUME pc'[p] \in Working
                 PROVE  /\ intent[Op(p)] = req'[p].writes
                        /\ pc'[p] = "stage" =>
                             tx'[p].todo \subseteq StageRoles(req'[p].writes, tx'[p].stage)
                        /\ \A sf \in Written(p)' :
                             /\ req'[p].planned[sf[2]] = RowOf(p).before[sf[2]]
                             /\ file'[Path(p, sf[2])] = <<Op(p), sf[1]>>
                        /\ \A r \in FileRoles :
                             \/ file'[Path(p, r)] = RowOf(p).before[r]
                             \/ \E sf \in Written(p)' : sf[2] = r
    <3>1. pc'[p] \in Working => pc'[p] \in PermitStates /\ pc'[p] # "idle"
      BY DEF Working, PermitStates
    <3>2. pc'[p] \in Working => tx'[p].op = Op(p)
      BY <2>1, <3>1 DEF Kept
    <3>3. journal'[Op(p)].before = RowOf(p).before  BY <2>1 DEF RowKept, RowOf
    <3>4. ASSUME pc'[p] \in Working  PROVE OwnProgress(p)'
      <4>1. Op(p)' = Op(p) /\ RowOf(p)'.before = RowOf(p).before
        BY <3>2, <3>3, <3>4 DEF Op, RowOf
      <4> QED  BY <2>1, <2>2, <3>4, <4>1 DEF OwnProgress
    <3>5. \A q \in Profiles \ {p} : pc'[q] \notin Working
      BY <2>1 DEF Working, PermitStates
    <3> QED  BY <3>4, <3>5 DEF Progress
  <2>3. /\ pc[p] \in Working /\ req' = req
    BY <1>1, <2>2, WorkSteps DEF BackupsPersisted, AdvanceStage, Verified,
       PersistBackup, WriteFile, Working
  <2>4. /\ intent[Op(p)] = req[p].writes
        /\ \A sf \in Written(p) :
             /\ req[p].planned[sf[2]] = RowOf(p).before[sf[2]]
             /\ file[Path(p, sf[2])] = <<Op(p), sf[1]>>
        /\ \A r \in FileRoles : \/ file[Path(p, r)] = RowOf(p).before[r]
                                \/ \E sf \in Written(p) : sf[2] = r
    BY <2>3 DEF Progress, OwnProgress
  <2>5. CASE BackupsPersisted(p)
    <3>1. /\ file' = file /\ pc[p] = "backup"
          /\ tx'[p].todo = StageRoles(req[p].writes, 1) /\ tx'[p].stage = 1
      BY <2>5 DEF BackupsPersisted, Open, TypeOK
    <3>2. Written(p)' = {} /\ Written(p) = {}
      BY <2>5, <3>1, StageProgress DEF Written
    <3> QED  BY <2>3, <2>4, <3>1, <3>2
  <2>6. CASE AdvanceStage(p)
    <3>1. file' = file  BY <2>6 DEF AdvanceStage
    <3>2. Written(p)' = Written(p)  BY <2>6, StageProgress
    <3>3. pc'[p] = "stage" =>
            tx'[p].todo = StageRoles(req[p].writes, tx'[p].stage)
      BY <2>6 DEF AdvanceStage, Open, Goto, TypeOK
    <3> QED  BY <2>3, <2>4, <3>1, <3>2, <3>3
  <2>7. CASE Verified(p)
    <3>1. file' = file /\ pc'[p] = "commit"  BY <2>7 DEF Verified, Goto, TypeOK
    <3>2. Written(p)' = Written(p)  BY <2>7, StageProgress
    <3> QED  BY <2>3, <2>4, <3>1, <3>2
  <2>8. ASSUME NEW s \in FileRoles, PersistBackup(p, s)
        PROVE  file' = file /\ Written(p)' = Written(p) /\ pc'[p] = "backup"
    BY <2>8 DEF PersistBackup, Written
  <2>9. CASE \E s \in FileRoles : PersistBackup(p, s)
    BY <2>3, <2>4, <2>8, <2>9
  <2>10. ASSUME NEW s \in FileRoles, WriteFile(p, s)
         PROVE  /\ pc'[p] = "stage" =>
                     tx'[p].todo \subseteq StageRoles(req'[p].writes, tx'[p].stage)
                /\ \A sf \in Written(p)' :
                     /\ req'[p].planned[sf[2]] = RowOf(p).before[sf[2]]
                     /\ file'[Path(p, sf[2])] = <<Op(p), sf[1]>>
                /\ \A r \in FileRoles :
                     \/ file'[Path(p, r)] = RowOf(p).before[r]
                     \/ \E sf \in Written(p)' : sf[2] = r
    <3>. DEFINE sf0 == <<CommitStages[tx[p].stage], s>>
    <3>1. /\ Written(p)' = Written(p) \cup {sf0}
          /\ req[p].planned[s] = RowOf(p).before[s]
          /\ \A x \in Written(p) : x[2] # s
          /\ tx'[p].todo \subseteq StageRoles(req[p].writes, tx[p].stage)
      BY <2>10, WriteProgress
    <3>2. /\ file' = [file EXCEPT ![Path(p, s)] = <<Op(p), CommitStages[tx[p].stage]>>]
          /\ tx'[p].stage = tx[p].stage
      BY <2>10 DEF WriteFile, Done, TypeOK
    <3>3. /\ file'[Path(p, s)] = <<Op(p), sf0[1]>> /\ sf0[2] = s
          /\ \A r \in FileRoles : r # s => file'[Path(p, r)] = file[Path(p, r)]
      BY <3>2, PathFacts, PathsApart DEF TypeOK
    <3>4. \A x \in Written(p) : x[2] \in FileRoles
      BY StageFile DEF Written, TypeOK
    <3>5. ASSUME NEW x \in Written(p)'
          PROVE  /\ req'[p].planned[x[2]] = RowOf(p).before[x[2]]
                 /\ file'[Path(p, x[2])] = <<Op(p), x[1]>>
      <4>1. CASE x = sf0  BY <2>3, <3>1, <3>3, <4>1
      <4>2. CASE x \in Written(p)  BY <2>3, <2>4, <3>1, <3>3, <3>4, <4>2
      <4> QED  BY <3>1, <3>5, <4>1, <4>2
    <3>6. ASSUME NEW r \in FileRoles
          PROVE  \/ file'[Path(p, r)] = RowOf(p).before[r]
                 \/ \E x \in Written(p)' : x[2] = r
      <4>1. CASE r = s  BY <3>1, <3>3, <4>1
      <4>2. CASE r # s  BY <2>4, <3>1, <3>3, <4>2
      <4> QED  BY <4>1, <4>2
    <3> QED  BY <2>3, <3>1, <3>2, <3>5, <3>6
  <2>11. CASE \E s \in FileRoles : WriteFile(p, s)
    BY <2>3, <2>4, <2>10, <2>11
  <2> QED  BY <1>1, <2>2, <2>5, <2>6, <2>7, <2>9, <2>11, WorkSteps
<1>2. ASSUME NEW p \in Profiles, Begin(p)  PROVE Progress'
  <2>1. /\ rows + 1 \in Ops /\ req' = req /\ file' = file
        /\ pc'[p] = "backup" /\ tx'[p].op = rows + 1
        /\ journal'[rows + 1].before = Digests(p)
        /\ intent'[rows + 1] = req[p].writes
        /\ \A q \in Profiles \ {p} : pc'[q] \notin PermitStates
    BY <1>2, BeginFrame
  <2>2. Written(p)' = {}  BY <2>1 DEF Written
  <2>3. \A r \in FileRoles : file'[Path(p, r)] = journal'[rows + 1].before[r]
    BY <2>1, ContentFacts
  <2>4. OwnProgress(p)'
    <3>1. Op(p)' = rows + 1 /\ RowOf(p)'.before = Digests(p)
      BY <2>1 DEF Op, RowOf
    <3> QED  BY <2>1, <2>2, <2>3, <3>1 DEF OwnProgress
  <2>5. \A q \in Profiles \ {p} : pc'[q] \notin Working
    BY <2>1 DEF Working, PermitStates
  <2> QED  BY <2>4, <2>5 DEF Progress
<1>3. CASE \/ \E p \in Profiles : /\ pc[p] \notin PermitStates
                                  /\ Enqueue(p) \/ Reject(p)
                                       \/ \E q \in Requests : Plan(p, q)
           \/ RecoveryDone \/ Restart \/ \E o \in Ops : RecoverRow(o)
  <2>1. /\ file' = file /\ journal' = journal /\ intent' = intent
        /\ \A q \in Profiles : pc'[q] \in Working =>
              pc'[q] = pc[q] /\ tx'[q] = tx[q] /\ req'[q] = req[q]
    BY <1>3, QuietWork
  <2>2. ASSUME NEW q \in Profiles, pc'[q] \in Working  PROVE OwnProgress(q)'
    <3>1. pc'[q] = pc[q] /\ tx'[q] = tx[q] /\ req'[q] = req[q]
      BY <2>1, <2>2
    <3>2. Written(q)' = Written(q)  BY <3>1 DEF Written
    <3>3. Op(q)' = Op(q) /\ RowOf(q)' = RowOf(q)  BY <2>1, <3>1 DEF Op, RowOf
    <3>4. OwnProgress(q)  BY <2>2, <3>1 DEF Progress
    <3>5. (/\ intent[Op(q)] = req[q].writes
           /\ pc[q] = "stage" =>
                tx[q].todo \subseteq StageRoles(req[q].writes, tx[q].stage))'
      BY <2>1, <3>1, <3>3, <3>4 DEF OwnProgress
    <3>6. ASSUME NEW sf \in Written(q)'
          PROVE  /\ req'[q].planned[sf[2]] = RowOf(q)'.before[sf[2]]
                 /\ file'[Path(q, sf[2])] = <<Op(q)', sf[1]>>
      BY <2>1, <3>1, <3>2, <3>3, <3>4, <3>6 DEF OwnProgress
    <3>7. ASSUME NEW r \in FileRoles
          PROVE  \/ file'[Path(q, r)] = RowOf(q)'.before[r]
                 \/ \E sf \in Written(q)' : sf[2] = r
      BY <2>1, <3>2, <3>3, <3>4, <3>7 DEF OwnProgress
    <3> QED  BY <3>5, <3>6, <3>7 DEF OwnProgress
  <2> QED  BY <2>2 DEF Progress
<1> QED  BY <1>1, <1>2, <1>3, StepKinds

\* What a row says about its routes never changes, so the route a digest
\* selects is the same before and after a step.
LEMMA RouteKept ==
  ASSUME TypeOK, NEW c \in Contents,
         c[1] # 0 => /\ journal'[c[1]].old = journal[c[1]].old
                     /\ journal'[c[1]].new = journal[c[1]].new
  PROVE  RouteOf(c)' = RouteOf(c)
  BY DEF RouteOf

LEMMA OldRouteStep ==
  ASSUME TypeOK, Control, Numbered, OldRoute, Next PROVE OldRoute'
<1>0. ASSUME NEW o \in Incomplete, NEW r \in FileRoles
      PROVE  /\ o \in Ops /\ journal[o].before[r] \in Contents
             /\ journal[o].before[r][1] \in Nat
             /\ journal[o].before[r][1] # 0 => journal[o].before[r][1] \in Ops
  <2>1. o \in Ops /\ journal[o].before[r] \in Contents
    BY <1>0 DEF Incomplete, TypeOK, Row
  <2> QED  BY <2>1, ContentNumber
<1>c. "config" \in FileRoles  BY DEF FileRoles
<1>1. ASSUME NEW p \in Profiles, pc[p] \in PermitStates, Step(p)  PROVE OldRoute'
  <2>1. RowKept(p) /\ Incomplete' \subseteq Incomplete  BY <1>1, InsideFrame
  <2>2. ASSUME NEW o \in Incomplete'
        PROVE  (RouteOf(journal[o].before["config"]) = journal[o].old)'
    <3>. DEFINE c == journal[o].before["config"]
    <3>1. /\ o \in Incomplete /\ o \in Ops /\ c \in Contents
          /\ c[1] # 0 => c[1] \in Ops
      BY <1>0, <1>c, <2>1, <2>2
    <3>2. RouteOf(c) = journal[o].old  BY <3>1 DEF OldRoute
    <3>3. journal'[o].before["config"] = c /\ journal'[o].old = journal[o].old
      BY <2>1, <3>1 DEF RowKept
    <3>4. c[1] # 0 => /\ journal'[c[1]].old = journal[c[1]].old
                      /\ journal'[c[1]].new = journal[c[1]].new
      BY <2>1, <3>1 DEF RowKept
    <3> QED  BY <3>2, <3>3, <3>4 DEF RouteOf
  <2> QED  BY <2>2 DEF OldRoute
<1>2. ASSUME NEW p \in Profiles, Begin(p)  PROVE OldRoute'
  <2>1. /\ rows + 1 \in Ops /\ rows \in Nat /\ file' = file
        /\ journal'[rows + 1].before = Digests(p)
        /\ journal'[rows + 1].old = ActiveRoute(p)
        /\ \A x \in Ops \ {rows + 1} : journal'[x] = journal[x]
        /\ rows + 1 \notin Incomplete
        /\ Incomplete' = Incomplete \cup {rows + 1}
    BY <1>2, BeginFrame
  <2>2. ASSUME NEW o \in Incomplete', NEW c, c = journal'[o].before["config"]
        PROVE  RouteOf(c)' = journal'[o].old
    <3>1. CASE o = rows + 1
      <4>1. c = file[<<p, "config">>]
        BY <1>c, <2>1, <2>2, <3>1, ContentFacts, PathFacts
        DEF LocalRoles, GlobalRoles
      <4>2. <<p, "config">> \in Files
        BY DEF Files, LocalRoles, FileRoles, GlobalRoles
      <4>3. c \in Contents /\ c[1] <= rows  BY <4>1, <4>2 DEF TypeOK, Numbered
      <4>4. c[1] \in Nat /\ (c[1] # 0 => c[1] \in Ops \ {rows + 1})
        BY <2>1, <4>3, ContentNumber
      <4>5. RouteOf(c) = journal'[o].old  BY <2>1, <3>1, <4>1 DEF ActiveRoute
      <4> QED  BY <2>1, <4>4, <4>5 DEF RouteOf
    <3>2. CASE o # rows + 1
      <4>1. o \in Incomplete /\ o \in Ops /\ journal'[o] = journal[o]
        BY <2>1, <2>2, <3>2 DEF Incomplete
      <4>2. RouteOf(c) = journal[o].old /\ c[1] < o /\ c[1] \in Nat
            /\ (c[1] # 0 => c[1] \in Ops)
        BY <1>0, <1>c, <2>2, <4>1 DEF OldRoute, Numbered
      <4>3. o <= rows /\ o \in Nat  BY <4>1 DEF Control, RowsInserted, Ops
      <4>4. c[1] # 0 => c[1] \in Ops \ {rows + 1}  BY <2>1, <4>2, <4>3
      <4> QED  BY <2>1, <4>1, <4>2, <4>4 DEF RouteOf
    <3> QED  BY <3>1, <3>2
  <2> QED  BY <2>2 DEF OldRoute, RouteOf
<1>3. CASE \/ \E p \in Profiles : /\ pc[p] \notin PermitStates
                                  /\ Enqueue(p) \/ Reject(p)
                                       \/ \E q \in Requests : Plan(p, q)
           \/ RecoveryDone \/ Restart \/ \E o \in Ops : RecoverRow(o)
  BY <1>3, QuietWork DEF OldRoute, RouteOf, Incomplete, IncompleteRow
<1> QED  BY <1>1, <1>2, <1>3, StepKinds

\* Steps inside the permit leave the digests read back from the files alone,
\* or record those of the files as they are.
LEMMA AfterKept ==
  ASSUME TypeOK, Control, NEW p \in Profiles, pc[p] \in PermitStates, Step(p)
  PROVE  \/ journal'[Op(p)].after = RowOf(p).after
         \/ AdvanceStage(p) /\ journal'[Op(p)].after = Digests(p)
         \/ Verified(p) /\ journal'[Op(p)].after = Digests(p)
<1>1. Op(p) \in Ops /\ journal \in [Ops -> Row] /\ RowOf(p) \in Row
  BY OpenFacts DEF TypeOK, Control
<1>2. ASSUME NEW s, SetState(Op(p), s)  PROVE journal'[Op(p)].after = RowOf(p).after
  BY <1>1, <1>2 DEF SetState, RowOf, Row
<1>3. ASSUME NEW s, journal' = [journal EXCEPT ![Op(p)].state = s,
                                               ![Op(p)].after = Digests(p)]
      PROVE  journal'[Op(p)].after = Digests(p)
  BY <1>1, <1>3 DEF RowOf, Row
<1>4. ~ (Enqueue(p) \/ Begin(p) \/ Reject(p))
  BY DEF Enqueue, Begin, Reject, PermitStates
<1>5. CASE AdvanceStage(p)  BY <1>3, <1>5 DEF AdvanceStage
<1>6. CASE Verified(p)  BY <1>3, <1>6 DEF Verified
<1>7. CASE Commit(p) \/ RecognizeCommitted(p) \/ FinishRollback(p)
  BY <1>2, <1>7 DEF Commit, RecognizeCommitted, FinishRollback
<1>8. CASE GiveUp(p)
  <2>1. CASE journal' = journal  BY <2>1 DEF RowOf
  <2>2. CASE SetState(Op(p), "recovery_required")  BY <1>2, <2>2
  <2> QED  BY <1>8, <2>1, <2>2 DEF GiveUp
<1>9. CASE journal' = journal  BY <1>9 DEF RowOf
<1> QED
  BY <1>4, <1>5, <1>6, <1>7, <1>8, <1>9 DEF Step, BackupsPersisted, Fail,
     StartRestore, CleanupDone, PersistBackup, WriteFile, RestoreFile, RemoveBackup

LEMMA AfterStep ==
  ASSUME TypeOK, Control, Numbered, Progress, AfterIsWhole, Next
  PROVE  AfterIsWhole'
<1>1. ASSUME NEW p \in Profiles, pc[p] \in PermitStates, Step(p)
      PROVE  AfterIsWhole'
  <2>1. /\ RowKept(p) /\ Incomplete' \subseteq Incomplete /\ intent' = intent
        /\ Op(p) \in Ops
    BY <1>1, InsideFrame
  <2>2. ASSUME NEW o \in Incomplete', NEW sf \in intent[o],
               journal'[o].after["config"] = <<o, "activation">>
        PROVE  journal'[o].after[sf[2]] = <<o, sf[1]>>
    <3>0. o \in Ops /\ o \in Incomplete  BY <2>1, <2>2 DEF Incomplete
    <3>1. CASE journal'[o].after = journal[o].after
      BY <2>2, <3>0, <3>1 DEF AfterIsWhole
    <3>2. CASE journal'[o].after # journal[o].after
      <4>1. o = Op(p)  BY <2>1, <3>0, <3>2 DEF RowKept
      <4>2. /\ AdvanceStage(p) \/ Verified(p)
            /\ journal'[o].after = Digests(p)
        BY <1>1, <3>2, <4>1, AfterKept DEF RowOf
      <4>3. pc[p] \in Working /\ OwnProgress(p)
        BY <4>2 DEF AdvanceStage, Verified, Working, Progress
      <4>4. intent[o] = req[p].writes /\ sf \in req[p].writes
        BY <2>2, <4>1, <4>3 DEF OwnProgress
      <4>5. Written(p) = req[p].writes
        <5>1. CASE Verified(p)  BY <5>1, StageProgress
        <5>2. CASE AdvanceStage(p)
          <6>1. "config" \in FileRoles  BY DEF FileRoles
          <6>2. file[Path(p, "config")] = <<o, "activation">>
            BY <2>2, <4>2, <6>1, ContentFacts
          <6>3. RowOf(p).before["config"][1] < o
            BY <3>0, <4>1, <6>1 DEF Numbered, RowOf
          <6>4. file[Path(p, "config")] # RowOf(p).before["config"]
            <7>1. o \in Nat  BY <3>0 DEF Ops
            <7> QED  BY <6>2, <6>3, <7>1
          <6>5. PICK x \in Written(p) : x[2] = "config"
            BY <4>3, <6>1, <6>4 DEF OwnProgress
          <6>6. x[1] = "activation"
            <7>1. file[Path(p, x[2])] = <<Op(p), x[1]>>
              BY <4>3, <6>5 DEF OwnProgress
            <7> QED  BY <6>2, <6>5, <7>1
          <6>7. pc[p] = "stage" /\ tx[p].stage \in 1..5
            BY <5>2, StageFacts DEF AdvanceStage, TypeOK
          <6>8. PICK i \in 1..tx[p].stage : x[1] = CommitStages[i]
            BY <6>5, <6>7 DEF Written
          <6>9. i \in 1..5  BY <6>7, <6>8
          <6>10. i = 5  BY <6>6, <6>8, <6>9, Activation
          <6>11. tx[p].stage = 5  BY <6>7, <6>8, <6>10
          <6> QED  BY <5>2, <6>11, StageProgress
        <5> QED  BY <4>2, <5>1, <5>2
      <4>6. sf[2] \in FileRoles  BY <4>4, StageFile DEF TypeOK
      <4>7. file[Path(p, sf[2])] = <<o, sf[1]>>
        BY <4>1, <4>3, <4>4, <4>5 DEF OwnProgress
      <4> QED  BY <4>2, <4>6, <4>7, ContentFacts
    <3> QED  BY <3>1, <3>2
  <2> QED  BY <2>1, <2>2 DEF AfterIsWhole
<1>2. ASSUME NEW p \in Profiles, Begin(p)  PROVE AfterIsWhole'
  <2>1. /\ rows + 1 \in Ops /\ rows \in Nat
        /\ journal'[rows + 1].after = NoDigests
        /\ \A x \in Ops \ {rows + 1} : journal'[x] = journal[x] /\ intent'[x] = intent[x]
        /\ Incomplete' = Incomplete \cup {rows + 1}
    BY <1>2, BeginFrame
  <2>2. NoDigests["config"] # <<rows + 1, "activation">>
    BY <2>1 DEF NoDigests, NoDigest, FileRoles
  <2>3. ASSUME NEW o \in Incomplete', o # rows + 1
        PROVE  /\ o \in Incomplete /\ journal'[o] = journal[o]
               /\ intent'[o] = intent[o]
    <3>1. o \in Incomplete  BY <2>1, <2>3
    <3>2. o \in Ops  BY <3>1 DEF Incomplete
    <3> QED  BY <2>1, <2>3, <3>1, <3>2
  <2>4. ASSUME NEW o \in Incomplete', NEW sf \in intent'[o],
               journal'[o].after["config"] = <<o, "activation">>
        PROVE  journal'[o].after[sf[2]] = <<o, sf[1]>>
    <3>1. o # rows + 1  BY <2>1, <2>2, <2>4
    <3>2. o \in Incomplete /\ journal'[o] = journal[o] /\ intent'[o] = intent[o]
      BY <2>3, <2>4, <3>1
    <3> QED  BY <2>4, <3>2 DEF AfterIsWhole
  <2> QED  BY <2>4 DEF AfterIsWhole
<1>3. CASE \/ \E p \in Profiles : /\ pc[p] \notin PermitStates
                                  /\ Enqueue(p) \/ Reject(p)
                                       \/ \E q \in Requests : Plan(p, q)
           \/ RecoveryDone \/ Restart \/ \E o \in Ops : RecoverRow(o)
  BY <1>3, QuietWork DEF AfterIsWhole, Incomplete, IncompleteRow
<1> QED  BY <1>1, <1>2, <1>3, StepKinds

LEMMA EvidenceInitially == Init => Evidence
<1>. SUFFICES ASSUME Init PROVE Evidence  OBVIOUS
<1>1. Incomplete = {}  BY DEF Init, Incomplete, IncompleteRow, NoRow, Terminal
<1>2. Numbered  BY <1>1 DEF Init, Numbered, Absent, Base
<1>3. Progress  BY DEF Init, Progress, Working
<1> QED  BY <1>1, <1>2, <1>3 DEF Evidence, OldRoute, AfterIsWhole

LEMMA EvidenceStutter == ASSUME Evidence, UNCHANGED vars PROVE Evidence'
<1>. USE DEF vars
<1>1. Numbered'  BY DEF Evidence, Numbered, Incomplete, IncompleteRow
<1>2. ASSUME NEW p \in Profiles, pc'[p] \in Working  PROVE OwnProgress(p)'
  <2>1. OwnProgress(p)  BY <1>2 DEF Evidence, Progress
  <2>2. Written(p)' = Written(p) /\ Op(p)' = Op(p) /\ RowOf(p)' = RowOf(p)
    BY DEF Written, Op, RowOf
  <2> QED  BY <2>1, <2>2 DEF OwnProgress
<1>3. OldRoute' /\ AfterIsWhole'
  BY DEF Evidence, OldRoute, AfterIsWhole, Incomplete, IncompleteRow, RouteOf
<1> QED  BY <1>1, <1>2, <1>3 DEF Evidence, Progress

LEMMA EvidenceHolds == Spec => []Evidence
<1>1. Init => Evidence  BY EvidenceInitially
<1>2. IndInv /\ Evidence /\ [Next]_vars => Evidence'
  <2>1. ASSUME IndInv, Evidence, Next PROVE Evidence'
    BY <2>1, NumberedStep, ProgressStep, OldRouteStep, AfterStep DEF IndInv, Evidence
  <2> QED  BY <2>1, EvidenceStutter
<1> QED  BY <1>1, <1>2, Invariance, PTL DEF Spec

\* "Stale catalog revisions cannot overwrite a newer edit": whatever runs
\* between the plan and the permit, an operation that verifies or commits has
\* replaced the very bytes it was planned against.
THEOREM FreshOnly == Spec => []NoStaleOverwrite
<1>1. Evidence => NoStaleOverwrite
  <2>1. ASSUME Evidence, NEW p \in Profiles, pc[p] \in {"verify", "commit"}
        PROVE  Written(p) = req[p].writes /\ OwnProgress(p)
    BY <2>1 DEF Evidence, Progress, Working, Written
  <2> QED  BY <2>1 DEF NoStaleOverwrite, OwnProgress
<1> QED  BY <1>1, EvidenceHolds, PTL

\* An unfinished row whose files and route are those recorded last has all its
\* stages on disk.
LEMMA RecognizedIsWhole ==
  ASSUME TypeOK, Control, Evidence, NEW p \in Profiles, NEW o \in Incomplete,
         journal[o].profile = p, journal[o].old # journal[o].new,
         Digests(p) = journal[o].after, ActiveRoute(p) = journal[o].new,
         LocalRecoveryIsSafe
  PROVE  Installed(o)
<1>. DEFINE c == file[<<p, "config">>]
<1>1. /\ "config" \in FileRoles /\ "config" \in LocalRoles
      /\ <<p, "config">> \in Files /\ Path(p, "config") = <<p, "config">>
  BY DEF Files, LocalRoles, FileRoles, GlobalRoles, Path
<1>2. o \in Ops /\ c \in Contents  BY <1>1 DEF Incomplete, TypeOK
<1>3. c # journal[o].before["config"]
  BY DEF Evidence, OldRoute, ActiveRoute
<1>4. c[1] = o
  BY <1>1, <1>3 DEF LocalRecoveryIsSafe, OnlyOwnWrites
<1>5. c \in Ops \X Stages
  BY <1>2, <1>4 DEF Contents, Absent, Base, NoDigest, Ops
<1>6. c[2] = "activation" /\ c = <<o, "activation">>
  <2>1. RouteOf(c) # journal[o].old  BY DEF ActiveRoute
  <2>2. c[1] # 0  BY <1>2, <1>4 DEF Ops
  <2>3. c[2] = "activation"  BY <1>4, <2>1, <2>2 DEF RouteOf
  <2> QED  BY <1>4, <1>5, <2>3
<1>7. journal[o].after["config"] = <<o, "activation">>
  BY <1>1, <1>6, ContentFacts
<1>8. ASSUME NEW sf \in intent[o]
      PROVE  file[Path(journal[o].profile, sf[2])] = <<o, sf[1]>>
  <2>1. sf[2] \in FileRoles  BY <1>2, <1>8, StageFile DEF TypeOK
  <2>2. journal[o].after[sf[2]] = <<o, sf[1]>>
    BY <1>7, <1>8 DEF Evidence, AfterIsWhole
  <2> QED  BY <2>1, <2>2, ContentFacts
<1> QED  BY <1>8 DEF Installed

\* The steps that end a row inside the permit.
LEMMA EndingSteps ==
  ASSUME TypeOK, Control, NEW p \in Profiles, pc[p] \in PermitStates, Step(p),
         pc[p] # "cleanup", journal'[Op(p)].state \in Terminal
  PROVE  \/ Commit(p) /\ journal'[Op(p)].state = "committed"
         \/ RecognizeCommitted(p) /\ journal'[Op(p)].state = "committed"
         \/ FinishRollback(p) /\ journal'[Op(p)].state = "rolled_back"
<1>. USE DEF Control
<1>1. /\ Op(p) \in Ops /\ journal[Op(p)].state \notin Terminal
      /\ \A s \in RowStates : SetState(Op(p), s) => journal'[Op(p)].state = s
      /\ \A s \in RowStates :
              journal' = [journal EXCEPT ![Op(p)].state = s,
                                         ![Op(p)].after = Digests(p)] =>
              journal'[Op(p)].state = s
  BY RowKeptWhen, OpenFacts DEF PermitOwner, IncompleteRow
<1>2. ~ (Enqueue(p) \/ Begin(p) \/ Reject(p))
  BY DEF Enqueue, Begin, Reject, PermitStates
<1>3. journal' # journal  BY <1>1
<1>4. ~ AdvanceStage(p)
  <2>1. CommitStages[tx[p].stage] \in RowStates \ Terminal
    BY StageFacts DEF TypeOK
  <2> QED  BY <1>1, <2>1 DEF AdvanceStage
<1>5. ~ Verified(p)  BY <1>1, StageFacts DEF Verified
<1>6. ~ GiveUp(p)  BY <1>1, <1>3, StageFacts DEF GiveUp
<1>7. Commit(p) => journal'[Op(p)].state = "committed"
  BY <1>1, StageFacts DEF Commit
<1>8. RecognizeCommitted(p) => journal'[Op(p)].state = "committed"
  BY <1>1, StageFacts DEF RecognizeCommitted
<1>9. FinishRollback(p) => journal'[Op(p)].state = "rolled_back"
  BY <1>1, StageFacts DEF FinishRollback
<1> QED
  BY <1>2, <1>3, <1>4, <1>5, <1>6, <1>7, <1>8, <1>9 DEF Step, BackupsPersisted,
     Fail, StartRestore, CleanupDone, PersistBackup, WriteFile, RestoreFile,
     RemoveBackup

\* A committed row has all its stages on disk, if it changed the route.
LEMMA CommittedIsWhole ==
  ASSUME IndInv, Evidence, NEW p \in Profiles, Commit(p) \/ RecognizeCommitted(p)
  PROVE  RowOf(p).old # RowOf(p).new => Installed(Op(p))
<1>1. pc[p] \in PermitStates \ {"cleanup"}
  BY DEF Commit, RecognizeCommitted, PermitStates
<1>2. Op(p) \in Incomplete /\ RowOf(p).profile = p
  BY <1>1 DEF IndInv, Control, PermitOwner, Incomplete
<1>3. CASE Commit(p)
  <2>1. pc[p] = "commit" /\ OwnProgress(p)
    BY <1>3 DEF Commit, Evidence, Progress, Working
  <2>2. Written(p) = req[p].writes  BY <2>1 DEF Written
  <2> QED  BY <1>2, <2>1, <2>2 DEF OwnProgress, Installed, RowOf
<1>4. CASE RecognizeCommitted(p)
  <2>1. Digests(p) = RowOf(p).after /\ ActiveRoute(p) = RowOf(p).new
    BY <1>4 DEF RecognizeCommitted, AfterStateReached
  <2> QED  BY <1>2, <2>1, RecognizedIsWhole DEF IndInv, RowOf
<1> QED  BY <1>3, <1>4

\* A row ends as committed only with every stage on disk, and as rolled back
\* only with the files as they were found, for every interleaving, failure and
\* crash: rollbackLocalMutation and startup recovery decide it from the digests.
THEOREM AllOrNothing == Spec => AtomicOutcome
<1>. DEFINE A == \A o \in Ops :
       IncompleteRow(o) /\ ~IncompleteRow(o)' =>
         IF journal'[o].state = "committed"
           THEN journal[o].old # journal[o].new => Installed(o)
           ELSE Digests(journal[o].profile) = journal[o].before
<1>1. ASSUME IndInv, Evidence, [Next]_vars, NEW o \in Ops,
             IncompleteRow(o), ~IncompleteRow(o)'
      PROVE  IF journal'[o].state = "committed"
               THEN journal[o].old # journal[o].new => Installed(o)
               ELSE Digests(journal[o].profile) = journal[o].before
  <2>1. journal'[o] # journal[o]  BY <1>1 DEF IncompleteRow
  <2>2. Next  BY <1>1, <2>1 DEF vars
  <2>3. ASSUME NEW p \in Profiles, Begin(p)  PROVE FALSE
    BY <1>1, <2>3, BeginFrame DEF IndInv, Incomplete, IncompleteRow
  <2>4. PICK p \in Profiles : pc[p] \in PermitStates /\ Step(p)
    BY <2>1, <2>2, <2>3, <1>1, StepKinds, QuietWork DEF IndInv
  <2>5. RowKept(p) /\ RowOf(p).profile = p
    BY <1>1, <2>4, InsideFrame DEF IndInv
  <2>6. o = Op(p)  BY <2>1, <2>5 DEF RowKept
  <2>7. pc[p] # "cleanup" /\ journal'[Op(p)].state \in Terminal
    BY <1>1, <2>4, <2>6 DEF IndInv, Control, PermitOwner, IncompleteRow
  <2>8. \/ Commit(p) /\ journal'[o].state = "committed"
        \/ RecognizeCommitted(p) /\ journal'[o].state = "committed"
        \/ FinishRollback(p) /\ journal'[o].state = "rolled_back"
    BY <1>1, <2>4, <2>6, <2>7, EndingSteps DEF IndInv
  <2>9. CASE Commit(p) \/ RecognizeCommitted(p)
    <3>1. journal[o].old # journal[o].new => Installed(o)
      BY <1>1, <2>6, <2>9, CommittedIsWhole DEF RowOf
    <3>2. CASE journal'[o].state = "committed"  BY <3>1, <3>2
    <3>3. CASE journal'[o].state # "committed"
      <4>1. FinishRollback(p)  BY <2>8, <3>3
      <4>2. Digests(p) = RowOf(p).before  BY <4>1 DEF FinishRollback, Restored
      <4> QED  BY <2>5, <2>6, <3>3, <4>2 DEF RowOf
    <3> QED  BY <3>2, <3>3
  <2>10. CASE FinishRollback(p) /\ journal'[o].state = "rolled_back"
    <3>1. Digests(p) = RowOf(p).before  BY <2>10 DEF FinishRollback, Restored
    <3> QED  BY <2>5, <2>6, <2>10, <3>1 DEF RowOf
  <2> QED  BY <2>8, <2>9, <2>10
<1>2. IndInv /\ Evidence /\ [Next]_vars => A  BY <1>1
<1>3. IndInv /\ Evidence /\ [Next]_vars => [A]_vars  BY <1>2
<1> QED  BY <1>3, Invariance, EvidenceHolds, PTL DEF Spec, AtomicOutcome
-----------------------------------------------------------------------------
(* The shared catalog.  Its files are safe as long as a profile begins no  *)
(* operation while another profile's is unfinished.  Catalog-wide managed  *)
(* writes see to that themselves, and one profile has nobody else.         *)

OneAtATime == \/ \A q \in Requests : q.kind = "managed_global"
              \/ \A p, q \in Profiles : p = q

\* Nobody serves a request that nobody made.
Asked ==
  /\ \A p \in Profiles : pc[p] \in {"planned", "queued"} =>
       \E q \in Requests : req[p].kind = q.kind /\ req[p].writes = q.writes
  /\ \A o \in Incomplete : \E q \in Requests : intent[o] = q.writes

\* The unfinished operation is the youngest.
Alone == \A o \in Incomplete : o = rows

\* A file of an unfinished operation is as it was found or as it was intended.
Owned ==
  \A o \in Incomplete, r \in FileRoles :
    LET c == file[Path(journal[o].profile, r)]
    IN  \/ c = journal[o].before[r]
        \/ \E s \in Stages : <<s, r>> \in intent[o] /\ c = <<o, s>>

Recoverable == \A o \in Incomplete, r \in FileRoles : Undoable(o, r)

\* Bytes on disk are a committed operation's but for the unfinished one's
\* files, and those replaced bytes of committed operations only.
CommittedBytes(c) == c[1] # 0 => journal[c[1]].state = "committed"
Covered(f) == \E o \in Incomplete, r \in FileRoles : f = Path(journal[o].profile, r)
Origin ==
  /\ \A f \in Files : CommittedBytes(file[f]) \/ Covered(f)
  /\ \A o \in Incomplete, r \in FileRoles : CommittedBytes(journal[o].before[r])

Catalog == Asked /\ Alone /\ Recoverable /\ Owned /\ Origin

LEMMA AskedStep == ASSUME IndInv, Evidence, Asked, Next PROVE Asked'
<1>. USE DEF IndInv
<1>1. ASSUME NEW p \in Profiles, pc[p] \in PermitStates, Step(p)  PROVE Asked'
  <2>1. /\ Kept(p) /\ intent' = intent /\ Incomplete' \subseteq Incomplete
        /\ \A q \in Profiles \ {p} : pc'[q] = pc[q] /\ req'[q] = req[q]
        /\ pc'[p] \notin {"planned", "queued"}
    BY <1>1, InsideFrame DEF Kept, PermitStates
  <2>2. ASSUME NEW x \in Profiles, pc'[x] \in {"planned", "queued"}
        PROVE  \E q \in Requests : req'[x].kind = q.kind /\ req'[x].writes = q.writes
    <3>1. pc[x] \in {"planned", "queued"} /\ req'[x] = req[x]  BY <2>1, <2>2
    <3> QED  BY <3>1 DEF Asked
  <2>3. \A o \in Incomplete' : \E q \in Requests : intent'[o] = q.writes
    BY <2>1 DEF Asked
  <2> QED  BY <2>2, <2>3 DEF Asked
<1>2. ASSUME NEW p \in Profiles, Begin(p)  PROVE Asked'
  <2>1. /\ rows + 1 \in Ops /\ req' = req
        /\ intent'[rows + 1] = req[p].writes
        /\ \A x \in Ops \ {rows + 1} : intent'[x] = intent[x]
        /\ Incomplete' = Incomplete \cup {rows + 1}
        /\ pc[p] = "queued" /\ pc'[p] = "backup"
        /\ \A q \in Profiles \ {p} : pc'[q] = pc[q]
    BY <1>2, BeginFrame
  <2>2. ASSUME NEW x \in Profiles, pc'[x] \in {"planned", "queued"}
        PROVE  \E q \in Requests : req'[x].kind = q.kind /\ req'[x].writes = q.writes
    <3>1. pc[x] \in {"planned", "queued"} /\ req'[x] = req[x]  BY <2>1, <2>2
    <3> QED  BY <3>1 DEF Asked
  <2>3. ASSUME NEW o \in Incomplete'
        PROVE  \E q \in Requests : intent'[o] = q.writes
    <3>1. CASE o = rows + 1  BY <2>1, <3>1 DEF Asked
    <3>2. CASE o # rows + 1
      <4>1. o \in Incomplete /\ o \in Ops  BY <2>1, <3>2 DEF Incomplete
      <4> QED  BY <2>1, <3>2, <4>1 DEF Asked
    <3> QED  BY <3>1, <3>2
  <2> QED  BY <2>2, <2>3 DEF Asked
<1>3. ASSUME NEW p \in Profiles, NEW q \in Requests, Plan(p, q)  PROVE Asked'
  <2>1. /\ journal' = journal /\ intent' = intent
        /\ req'[p].kind = q.kind /\ req'[p].writes = q.writes
        /\ \A x \in Profiles \ {p} : pc'[x] = pc[x] /\ req'[x] = req[x]
    BY <1>3 DEF Plan, Goto, TypeOK
  <2>2. ASSUME NEW x \in Profiles, pc'[x] \in {"planned", "queued"}
        PROVE  \E y \in Requests : req'[x].kind = y.kind /\ req'[x].writes = y.writes
    BY <2>1, <2>2 DEF Asked
  <2> QED  BY <2>1, <2>2 DEF Asked, Incomplete, IncompleteRow
<1>4. ASSUME NEW p \in Profiles, Enqueue(p) \/ Reject(p)  PROVE Asked'
  <2>1. /\ journal' = journal /\ intent' = intent
        /\ \A x \in Profiles : pc'[x] \in {"planned", "queued"} =>
             pc[x] \in {"planned", "queued"} /\ req'[x] = req[x]
    BY <1>4 DEF Enqueue, Reject, Goto, TypeOK
  <2>2. ASSUME NEW x \in Profiles, pc'[x] \in {"planned", "queued"}
        PROVE  \E y \in Requests : req'[x].kind = y.kind /\ req'[x].writes = y.writes
    BY <2>1, <2>2 DEF Asked
  <2> QED  BY <2>1, <2>2 DEF Asked, Incomplete, IncompleteRow
<1>5. CASE RecoveryDone \/ Restart \/ \E o \in Ops : RecoverRow(o)
  <2>1. /\ journal' = journal /\ intent' = intent
        /\ \A x \in Profiles : pc'[x] \in {"planned", "queued"} =>
             pc[x] \in {"planned", "queued"} /\ req'[x] = req[x]
    BY <1>5 DEF RecoveryDone, Restart, RecoverRow, Goto, TypeOK
  <2>2. ASSUME NEW x \in Profiles, pc'[x] \in {"planned", "queued"}
        PROVE  \E y \in Requests : req'[x].kind = y.kind /\ req'[x].writes = y.writes
    BY <2>1, <2>2 DEF Asked
  <2> QED  BY <2>1, <2>2 DEF Asked, Incomplete, IncompleteRow
<1> QED  BY <1>1, <1>2, <1>3, <1>4, <1>5, StepKinds

\* An operation begins when no other is unfinished.
LEMMA BeginAlone ==
  ASSUME OneAtATime, IndInv, Asked, NEW p \in Profiles, Begin(p)
  PROVE  Incomplete = {}
<1>1. pc[p] = "queued" /\ Admissible(p)  BY DEF Begin
<1>2. CASE \A q \in Requests : q.kind = "managed_global"
  <2>1. req[p].kind = "managed_global"  BY <1>1, <1>2 DEF Asked
  <2>2. ~ NeedsRecovery(p, "managed_global")  BY <1>1, <2>1 DEF Admissible
  <2> QED  BY <2>2 DEF NeedsRecovery, AnyProfileNeedsRecovery
<1>3. CASE \A x, y \in Profiles : x = y
  <2>1. \A o \in Incomplete : journal[o].profile = p
    BY <1>3 DEF IndInv, Control, RowsNameProfiles
  <2> QED  BY <1>1, <2>1 DEF IndInv, Control, WaitingIsClear
<1> QED  BY <1>2, <1>3 DEF OneAtATime

LEMMA AloneStep ==
  ASSUME OneAtATime, IndInv, Asked, Alone, Next PROVE Alone'
<1>. USE DEF IndInv
<1>1. ASSUME NEW p \in Profiles, pc[p] \in PermitStates, Step(p)  PROVE Alone'
  BY <1>1, InsideFrame DEF Alone
<1>2. ASSUME NEW p \in Profiles, Begin(p)  PROVE Alone'
  BY <1>2, BeginFrame, BeginAlone DEF Alone
<1>3. CASE \/ \E p \in Profiles : /\ pc[p] \notin PermitStates
                                  /\ Enqueue(p) \/ Reject(p)
                                       \/ \E q \in Requests : Plan(p, q)
           \/ RecoveryDone \/ Restart \/ \E o \in Ops : RecoverRow(o)
  BY <1>3, QuietWork DEF Alone, Incomplete, IncompleteRow
<1> QED  BY <1>1, <1>2, <1>3, StepKinds

\* What a step inside the permit does to the files and backups, when the
\* operation is the only unfinished one.
LEMMA FileEffect ==
  ASSUME IndInv, Alone, NEW p \in Profiles, pc[p] \in PermitStates, Step(p)
  PROVE  \/ file' = file /\ \A o \in Incomplete : backup[o] \subseteq backup'[o]
         \/ \E r \in FileRoles : WriteFile(p, r) \/ RestoreFile(p, r)
<1>. USE DEF IndInv
<1>1. Op(p) \in Ops /\ backup \in [Ops -> SUBSET FileRoles]
      /\ \A o \in Incomplete : o \in Ops
  BY InsideFrame DEF TypeOK, Incomplete
<1>2. ASSUME NEW r \in FileRoles, PersistBackup(p, r)
      PROVE  file' = file /\ \A o \in Incomplete : backup[o] \subseteq backup'[o]
  BY <1>1, <1>2 DEF PersistBackup
<1>3. ASSUME NEW r \in FileRoles, RemoveBackup(p, r)
      PROVE  file' = file /\ \A o \in Incomplete : backup[o] \subseteq backup'[o]
  <2>1. Op(p) \notin Incomplete
    BY <1>3 DEF RemoveBackup, Control, PermitOwner, Incomplete
  <2> QED  BY <1>1, <1>3, <2>1 DEF RemoveBackup
<1>4. ~ (Enqueue(p) \/ Begin(p) \/ Reject(p))
  BY DEF Enqueue, Begin, Reject, PermitStates
<1>5. CASE file' = file /\ backup' = backup  BY <1>5
<1> QED
  BY <1>2, <1>3, <1>4, <1>5 DEF memory, Step, BackupsPersisted, AdvanceStage, Verified,
     Commit, Fail, RecognizeCommitted, StartRestore, FinishRollback, GiveUp,
     CleanupDone

\* A file write inside the permit is the unfinished operation's.
LEMMA WriteEffect ==
  ASSUME IndInv, Evidence, Alone, NEW p \in Profiles, NEW r \in FileRoles,
         WriteFile(p, r) \/ RestoreFile(p, r)
  PROVE  /\ Op(p) \in Incomplete /\ Op(p) = rows /\ RowOf(p).profile = p
         /\ Incomplete = {Op(p)}
         /\ journal' = journal /\ backup' = backup /\ intent' = intent
         /\ file' = [file EXCEPT ![Path(p, r)] = file'[Path(p, r)]]
         /\ WriteFile(p, r) =>
              /\ \E s \in Stages : <<s, r>> \in intent[Op(p)]
                                   /\ file'[Path(p, r)] = <<Op(p), s>>
              /\ RowOf(p).before[r] = Absent \/ r \in backup[Op(p)]
         /\ RestoreFile(p, r) => file'[Path(p, r)] = RowOf(p).before[r]
<1>. USE DEF IndInv
<1>1. pc[p] \in PermitStates \ {"cleanup"}
  BY DEF WriteFile, RestoreFile, PermitStates
<1>2. Op(p) \in Incomplete /\ RowOf(p).profile = p
  BY <1>1 DEF Control, PermitOwner, Incomplete
<1>3. Path(p, r) \in Files  BY PathFacts
<1>4. journal' = journal /\ backup' = backup /\ intent' = intent
  BY DEF WriteFile, RestoreFile
<1>5. ASSUME WriteFile(p, r)
      PROVE  /\ file' = [file EXCEPT ![Path(p, r)] = file'[Path(p, r)]]
             /\ \E s \in Stages : <<s, r>> \in intent[Op(p)]
                                  /\ file'[Path(p, r)] = <<Op(p), s>>
             /\ RowOf(p).before[r] = Absent \/ r \in backup[Op(p)]
  <2>. DEFINE s == CommitStages[tx[p].stage]
  <2>1. /\ file' = [file EXCEPT ![Path(p, r)] = <<Op(p), s>>]
        /\ pc[p] = "stage" /\ r \in tx[p].todo
    BY <1>5 DEF WriteFile
  <2>2. tx[p].stage \in 1..5  BY StageFacts DEF TypeOK
  <2>3. s \in Stages  BY <2>2, StageFacts
  <2>4. OwnProgress(p)  BY <2>1 DEF Evidence, Progress, Working
  <2>5. <<s, r>> \in intent[Op(p)]
    BY <2>1, <2>4 DEF OwnProgress, StageRoles
  <2>6. RowOf(p).before[r] = Absent \/ r \in backup[Op(p)]
    BY <2>1 DEF BackupsFirst
  <2>7. file'[Path(p, r)] = <<Op(p), s>>  BY <1>3, <2>1 DEF TypeOK
  <2> QED  BY <2>1, <2>3, <2>5, <2>6, <2>7
<1>6. ASSUME RestoreFile(p, r)
      PROVE  /\ file' = [file EXCEPT ![Path(p, r)] = file'[Path(p, r)]]
             /\ file'[Path(p, r)] = RowOf(p).before[r]
  BY <1>3, <1>6 DEF RestoreFile, TypeOK
<1>7. Op(p) = rows /\ Incomplete = {Op(p)}  BY <1>2 DEF Alone
<1> QED  BY <1>2, <1>4, <1>5, <1>6, <1>7

\* Undoing and what it undoes, for all five files.
LEMMA OwnedStep ==
  ASSUME OneAtATime, IndInv, Evidence, Asked, Alone, Recoverable, Owned, Next
  PROVE  Recoverable' /\ Owned'
<1>. USE DEF IndInv
<1>. DEFINE Good(o, r) ==
       /\ Undoable(o, r)
       /\ \/ file[Path(journal[o].profile, r)] = journal[o].before[r]
          \/ \E s \in Stages : <<s, r>> \in intent[o]
                               /\ file[Path(journal[o].profile, r)] = <<o, s>>
<1>0. \A o \in Incomplete, r \in FileRoles : Good(o, r)
  BY DEF Recoverable, Owned
<1>g. SUFFICES ASSUME NEW o \in Incomplete', NEW r \in FileRoles
               PROVE  Good(o, r)'
  BY DEF Recoverable, Owned
<1>1. ASSUME NEW p \in Profiles, pc[p] \in PermitStates, Step(p)
      PROVE  Good(o, r)'
  <2>1. /\ RowKept(p) /\ intent' = intent /\ Incomplete' \subseteq Incomplete
        /\ o \in Incomplete /\ o \in Ops
    BY <1>1, <1>g, InsideFrame DEF Incomplete
  <2>2. Good(o, r)  BY <1>0, <2>1
  <2>3. journal'[o].profile = journal[o].profile
        /\ journal'[o].before = journal[o].before
    BY <2>1 DEF RowKept
  <2>4. CASE file' = file /\ backup[o] \subseteq backup'[o]
    BY <2>1, <2>2, <2>3, <2>4 DEF Undoable
  <2>5. ASSUME NEW x \in FileRoles, WriteFile(p, x) \/ RestoreFile(p, x)
        PROVE  Good(o, r)'
    <3>0. o = Op(p)  BY <2>1, <2>5, WriteEffect
    <3>1. /\ journal[o].profile = p
          /\ journal' = journal /\ backup' = backup
          /\ file' = [file EXCEPT ![Path(p, x)] = file'[Path(p, x)]]
          /\ WriteFile(p, x) =>
               /\ \E s \in Stages : <<s, x>> \in intent[o]
                                    /\ file'[Path(p, x)] = <<o, s>>
               /\ journal[o].before[x] = Absent \/ x \in backup[o]
          /\ RestoreFile(p, x) => file'[Path(p, x)] = journal[o].before[x]
      <4>. HIDE DEF Good
      <4>1. /\ RowOf(p).profile = p /\ journal' = journal /\ backup' = backup
            /\ file' = [file EXCEPT ![Path(p, x)] = file'[Path(p, x)]]
            /\ RestoreFile(p, x) => file'[Path(p, x)] = RowOf(p).before[x]
        BY <2>5, WriteEffect
      <4>2. WriteFile(p, x) =>
              /\ \E s \in Stages : <<s, x>> \in intent[Op(p)]
                                   /\ file'[Path(p, x)] = <<Op(p), s>>
              /\ RowOf(p).before[x] = Absent \/ x \in backup[Op(p)]
        BY <2>5, WriteEffect
      <4> QED  BY <3>0, <4>1, <4>2 DEF RowOf
    <3>2. Path(p, r) \in Files /\ Path(p, x) \in Files  BY PathFacts
    <3>3. CASE r # x
      <4>1. file'[Path(p, r)] = file[Path(p, r)]
        BY <3>1, <3>2, <3>3, PathsApart DEF TypeOK
      <4> QED  BY <2>1, <2>2, <3>1, <4>1 DEF Undoable
    <3>4. CASE r = x
      BY <2>1, <2>5, <3>1, <3>4 DEF Undoable
    <3> QED  BY <3>3, <3>4
  <2> QED  BY <1>1, <2>1, <2>4, <2>5, FileEffect
<1>2. ASSUME NEW p \in Profiles, Begin(p)  PROVE Good(o, r)'
  <2>1. /\ o = rows + 1 /\ file' = file
        /\ journal'[o].profile = p /\ journal'[o].before = Digests(p)
    BY <1>2, <1>g, BeginFrame, BeginAlone
  <2>2. file'[Path(p, r)] = journal'[o].before[r]  BY <2>1, ContentFacts
  <2> QED  BY <2>1, <2>2 DEF Undoable
<1>3. CASE \/ \E p \in Profiles : /\ pc[p] \notin PermitStates
                                  /\ Enqueue(p) \/ Reject(p)
                                       \/ \E q \in Requests : Plan(p, q)
           \/ RecoveryDone \/ Restart \/ \E x \in Ops : RecoverRow(x)
  <2>1. file' = file /\ journal' = journal /\ intent' = intent /\ backup' = backup
    BY <1>3, QuietWork, QuietStep
  <2>2. o \in Incomplete  BY <1>g, <2>1 DEF Incomplete, IncompleteRow
  <2> QED  BY <1>0, <2>1, <2>2 DEF Undoable
<1> QED  BY <1>1, <1>2, <1>3, StepKinds

LEMMA ContentsKnown ==
  ASSUME IndInv, Evidence
  PROVE  /\ \A f \in Files : file[f] \in Contents /\ file[f][1] <= rows
         /\ \A o \in Incomplete, r \in FileRoles :
              journal[o].before[r] \in Contents /\ journal[o].before[r][1] < o
         /\ \A o \in Incomplete : o \in Ops /\ o <= rows /\ o \in Nat
         /\ rows \in Nat
<1>1. \A o \in Incomplete : o \in Ops  BY DEF Incomplete
<1>2. \A o \in Incomplete : journal[o] \in Row  BY <1>1 DEF IndInv, TypeOK
<1> QED
  BY <1>1, <1>2, ConstantsAssumption
  DEF IndInv, TypeOK, Row, Evidence, Numbered, Control, RowsInserted, Ops

\* A committed row stays committed.
LEMMA CommittedKept ==
  ASSUME IndInv, NEW c \in Contents, c[1] <= rows, CommittedBytes(c), Next
  PROVE  CommittedBytes(c)'
<1>. USE DEF IndInv
<1>0. SUFFICES ASSUME c[1] # 0 PROVE journal'[c[1]].state = "committed"
  BY DEF CommittedBytes
<1>1. c[1] \in Ops /\ journal[c[1]].state = "committed"
  BY <1>0, ContentNumber DEF CommittedBytes
<1>2. ASSUME NEW p \in Profiles, pc[p] \in PermitStates, Step(p)
      PROVE  journal'[c[1]].state = "committed"
  <2>1. CASE c[1] # Op(p)  BY <1>1, <1>2, <2>1, InsideFrame DEF RowKept
  <2>2. CASE c[1] = Op(p)
    <3>1. pc[p] = "cleanup"
      BY <1>1, <1>2, <2>2 DEF Control, PermitOwner, IncompleteRow, Terminal
    <3>2. journal' = journal
      BY <1>2, <3>1 DEF Step, Enqueue, Begin, Reject, BackupsPersisted, AdvanceStage,
         Verified, Commit, Fail, RecognizeCommitted, StartRestore, FinishRollback,
         GiveUp, CleanupDone, PersistBackup, WriteFile, RestoreFile, RemoveBackup,
         Undoing
    <3> QED  BY <1>1, <3>2
  <2> QED  BY <2>1, <2>2
<1>3. ASSUME NEW p \in Profiles, Begin(p)  PROVE journal'[c[1]].state = "committed"
  <2>1. c[1] # rows + 1  BY <1>1, <1>3, BeginFrame DEF Ops
  <2> QED  BY <1>1, <1>3, <2>1, BeginFrame
<1>4. CASE \/ \E p \in Profiles : /\ pc[p] \notin PermitStates
                                  /\ Enqueue(p) \/ Reject(p)
                                       \/ \E q \in Requests : Plan(p, q)
           \/ RecoveryDone \/ Restart \/ \E o \in Ops : RecoverRow(o)
  BY <1>1, <1>4, QuietWork
<1> QED  BY <1>2, <1>3, <1>4, StepKinds

\* When the unfinished operation ends, the files it covered are its own, now
\* committed, or what it found.
LEMMA EndOrigin ==
  ASSUME IndInv, Evidence, Alone, Owned, Origin, Next, NEW p \in Profiles,
         pc[p] \in PermitStates, Step(p), Op(p) \in Incomplete,
         Op(p) \notin Incomplete', NEW r \in FileRoles
  PROVE  CommittedBytes(file[Path(p, r)])' /\ file' = file
<1>. USE DEF IndInv
<1>. DEFINE c == file[Path(p, r)]
<1>1. /\ Op(p) \in Ops /\ RowOf(p).profile = p /\ pc[p] # "cleanup"
      /\ journal'[Op(p)].state \in Terminal
  BY InsideFrame DEF Incomplete, IncompleteRow, Control, PermitOwner
<1>2. /\ Path(p, r) \in Files /\ c \in Contents
      /\ RowOf(p).before[r] \in Contents /\ RowOf(p).before[r][1] < Op(p)
      /\ RowOf(p).before[r][1] <= rows
  <2>1. Path(p, r) \in Files /\ c \in Contents
        /\ RowOf(p).before[r] \in Contents /\ RowOf(p).before[r][1] < Op(p)
    BY PathFacts, ContentsKnown DEF RowOf
  <2>2. Op(p) <= rows /\ Op(p) \in Nat /\ rows \in Nat
        /\ RowOf(p).before[r][1] \in Nat
    BY <2>1, ContentsKnown, ContentNumber
  <2> QED  BY <2>1, <2>2
<1>4. \/ journal'[Op(p)].state = "committed"
      \/ FinishRollback(p)
  BY <1>1, EndingSteps
<1>5. file' = file
  BY <1>1, EndingSteps DEF Commit, RecognizeCommitted, FinishRollback
<1>6. c = RowOf(p).before[r] \/ (c[1] = Op(p) /\ journal'[Op(p)].state = "committed")
  <2>1. CASE FinishRollback(p)
    <3>1. Digests(p) = RowOf(p).before  BY <2>1 DEF FinishRollback, Restored
    <3> QED  BY <3>1, ContentFacts
  <2>2. CASE journal'[Op(p)].state = "committed"
    <3>1. \/ file[Path(journal[Op(p)].profile, r)] = journal[Op(p)].before[r]
          \/ \E s \in Stages : file[Path(journal[Op(p)].profile, r)] = <<Op(p), s>>
      BY DEF Owned
    <3>2. c = RowOf(p).before[r] \/ \E s \in Stages : c = <<Op(p), s>>
      BY <1>1, <3>1 DEF RowOf
    <3> QED  BY <2>2, <3>2
  <2> QED  BY <1>4, <2>1, <2>2
<1>7. ASSUME NEW b, b = RowOf(p).before[r]  PROVE CommittedBytes(b)'
  <2>1. CommittedBytes(RowOf(p).before[r])  BY DEF Origin, RowOf
  <2> QED  BY <1>2, <1>7, <2>1, CommittedKept
<1> QED  BY <1>5, <1>6, <1>7 DEF CommittedBytes

LEMMA OriginStep ==
  ASSUME OneAtATime, IndInv, Evidence, Asked, Alone, Owned, Origin, Next
  PROVE  Origin'
<1>. USE DEF IndInv
<1>1. ASSUME NEW p \in Profiles, pc[p] \in PermitStates, Step(p)  PROVE Origin'
  <2>1. /\ RowKept(p) /\ Incomplete' \subseteq Incomplete
        /\ Op(p) \in Ops /\ RowOf(p).profile = p
        /\ pc[p] # "cleanup" => Op(p) \in Incomplete
    BY <1>1, InsideFrame
  <2>2. ASSUME NEW o \in Incomplete', NEW r \in FileRoles
        PROVE  CommittedBytes(journal[o].before[r])'
    <3>1. o \in Incomplete  BY <2>1, <2>2
    <3>2. journal'[o].before[r] = journal[o].before[r]
      BY <2>1, <3>1 DEF RowKept, Incomplete
    <3>3. ASSUME NEW c, c = journal[o].before[r]  PROVE CommittedBytes(c)'
      <4>1. c \in Contents /\ c[1] < o /\ o <= rows /\ o \in Nat /\ rows \in Nat
        BY <3>1, <3>3, ContentsKnown
      <4>2. c[1] <= rows  BY <4>1, ContentNumber
      <4>3. CommittedBytes(c)  BY <3>1, <3>3 DEF Origin
      <4> QED  BY <4>1, <4>2, <4>3, CommittedKept
    <3> QED  BY <3>2, <3>3 DEF CommittedBytes
  <2>3. ASSUME NEW f \in Files, file'[f] = file[f], CommittedBytes(file[f])
        PROVE  CommittedBytes(file[f])'
    <3>1. ASSUME NEW c, c = file[f]  PROVE CommittedBytes(c)'
      BY <2>3, <3>1, CommittedKept, ContentsKnown
    <3> QED  BY <2>3, <3>1 DEF CommittedBytes
  <2>4. ASSUME NEW f \in Files, Covered(f)
        PROVE  CommittedBytes(file[f])' \/ Covered(f)'
    <3>1. PICK o \in Incomplete, r \in FileRoles : f = Path(journal[o].profile, r)
      BY <2>4 DEF Covered
    <3>2. CASE o \in Incomplete'
      <4>1. journal'[o].profile = journal[o].profile
        BY <2>1, <3>1 DEF RowKept, Incomplete
      <4> QED  BY <3>1, <3>2, <4>1 DEF Covered
    <3>3. CASE o \notin Incomplete'
      <4>1. o = Op(p)
        BY <2>1, <3>1, <3>3 DEF RowKept, Incomplete, IncompleteRow
      <4>2. f = Path(p, r)  BY <2>1, <3>1, <4>1 DEF RowOf
      <4>3. CommittedBytes(file[Path(p, r)])'
        BY <1>1, <3>1, <3>3, <4>1, EndOrigin
      <4> QED  BY <4>2, <4>3
    <3> QED  BY <3>2, <3>3
  <2>5. ASSUME NEW f \in Files, ~ Covered(f)  PROVE file'[f] = file[f]
    <3>1. CASE file' = file  BY <3>1
    <3>2. ASSUME NEW r \in FileRoles, WriteFile(p, r) \/ RestoreFile(p, r)
          PROVE  file'[f] = file[f]
      <4>1. /\ Op(p) \in Incomplete
            /\ file' = [file EXCEPT ![Path(p, r)] = file'[Path(p, r)]]
        BY <3>2, WriteEffect
      <4>2. f # Path(p, r)  BY <2>1, <2>5, <4>1 DEF Covered, RowOf
      <4> QED  BY <4>1, <4>2 DEF TypeOK
    <3> QED  BY <1>1, <3>1, <3>2, FileEffect
  <2>6. ASSUME NEW f \in Files  PROVE CommittedBytes(file[f])' \/ Covered(f)'
    <3>1. CASE Covered(f)  BY <2>4, <3>1
    <3>2. CASE ~ Covered(f)  BY <2>3, <2>5, <3>2 DEF Origin
    <3> QED  BY <3>1, <3>2
  <2> QED  BY <2>2, <2>6 DEF Origin
<1>2. ASSUME NEW p \in Profiles, Begin(p)  PROVE Origin'
  <2>1. Incomplete = {}  BY <1>2, BeginAlone
  <2>2. /\ file' = file /\ Incomplete' = {rows + 1}
        /\ journal'[rows + 1].before = Digests(p)
    BY <1>2, <2>1, BeginFrame
  <2>3. ASSUME NEW f \in Files, NEW c, c = file[f]  PROVE CommittedBytes(c)'
    <3>1. CommittedBytes(c)  BY <2>1, <2>3 DEF Origin, Covered
    <3> QED  BY <2>3, <3>1, CommittedKept, ContentsKnown
  <2>5. \A o \in Incomplete', r \in FileRoles :
          LET b == journal'[o].before[r]
          IN  b[1] # 0 => journal'[b[1]].state = "committed"
    <3>1. ASSUME NEW r \in FileRoles, NEW b, b = journal'[rows + 1].before[r]
          PROVE  b[1] # 0 => journal'[b[1]].state = "committed"
      <4>1. b = file[Path(p, r)] /\ Path(p, r) \in Files
        BY <2>2, <3>1, ContentFacts, PathFacts
      <4>2. CommittedBytes(b)'  BY <2>3, <4>1
      <4> QED  BY <4>2 DEF CommittedBytes
    <3> QED  BY <2>2, <3>1
  <2> QED  BY <2>2, <2>3, <2>5 DEF Origin, CommittedBytes
<1>3. CASE \/ \E p \in Profiles : /\ pc[p] \notin PermitStates
                                  /\ Enqueue(p) \/ Reject(p)
                                       \/ \E q \in Requests : Plan(p, q)
           \/ RecoveryDone \/ Restart \/ \E x \in Ops : RecoverRow(x)
  BY <1>3, QuietWork DEF Origin, CommittedBytes, Covered, Incomplete, IncompleteRow
<1> QED  BY <1>1, <1>2, <1>3, StepKinds

LEMMA CatalogInitially == Init => Catalog
<1>. SUFFICES ASSUME Init PROVE Catalog  OBVIOUS
<1>1. Incomplete = {}  BY DEF Init, Incomplete, IncompleteRow, NoRow, Terminal
<1>2. \A p \in Profiles : pc[p] = "idle"  BY DEF Init
<1>3. \A f \in Files : file[f][1] = 0  BY DEF Init, Absent, Base
<1> QED
  BY <1>1, <1>2, <1>3 DEF Catalog, Asked, Alone, Recoverable, Owned, Origin,
     CommittedBytes

LEMMA CatalogStutter == ASSUME Catalog, UNCHANGED vars PROVE Catalog'
<1>. USE DEF vars
<1>1. Asked' /\ Alone'
  BY DEF Catalog, Asked, Alone, Incomplete, IncompleteRow
<1>2. Recoverable' /\ Owned'
  BY DEF Catalog, Recoverable, Owned, Undoable, Incomplete, IncompleteRow
<1>3. Origin'
  BY DEF Catalog, Origin, CommittedBytes, Covered, Incomplete, IncompleteRow
<1> QED  BY <1>1, <1>2, <1>3 DEF Catalog

LEMMA CatalogHolds == ASSUME OneAtATime PROVE Spec => []Catalog
<1>1. Init => Catalog  BY CatalogInitially
<1>2. IndInv /\ Evidence /\ Catalog /\ [Next]_vars => Catalog'
  <2>1. ASSUME IndInv, Evidence, Catalog, Next PROVE Catalog'
    BY <2>1, AskedStep, AloneStep, OwnedStep, OriginStep DEF Catalog
  <2> QED  BY <2>1, CatalogStutter
<1> QED  BY <1>1, <1>2, Invariance, EvidenceHolds, PTL DEF Spec

\* With one operation unfinished at a time the evidence is complete for the
\* shared catalog too, whatever fails and whenever the process dies.
THEOREM CatalogEvidence == ASSUME OneAtATime PROVE Spec => []RecoveryIsSafe
<1>1. IndInv /\ Catalog => RecoveryIsSafe
  <2>1. ASSUME IndInv, Catalog, NEW o \in Incomplete, NEW r \in FileRoles
        PROVE  Undoable(o, r) /\ OnlyOwnWrites(o, r)
    <3>1. Undoable(o, r)  BY <2>1 DEF Catalog, Recoverable
    <3>2. \/ file[Path(journal[o].profile, r)] = journal[o].before[r]
          \/ \E s \in Stages : file[Path(journal[o].profile, r)] = <<o, s>>
      BY <2>1 DEF Catalog, Owned
    <3> QED  BY <3>1, <3>2 DEF OnlyOwnWrites
  <2> QED  BY <2>1 DEF RecoveryIsSafe
<1> QED  BY <1>1, Invariance, CatalogHolds, PTL

\* With nothing unfinished, every byte on disk is a committed operation's.
THEOREM AtRest == ASSUME OneAtATime PROVE Spec => []NoTornRest
<1>1. Catalog => NoTornRest
  BY DEF Catalog, Origin, Covered, CommittedBytes, NoTornRest
<1> QED  BY <1>1, CatalogHolds, PTL

\* Undoing an operation never puts bytes back over a committed one's.
THEOREM Survival == ASSUME OneAtATime PROVE Spec => CommittedSurvives
<1>. DEFINE A == \A f \in Files :
       file[f][1] # 0 /\ journal[file[f][1]].state = "committed"
         => file'[f][1] >= file[f][1]
<1>1. ASSUME IndInv, Evidence, Catalog, [Next]_vars, NEW f \in Files,
             file[f][1] # 0, journal[file[f][1]].state = "committed"
      PROVE  file'[f][1] >= file[f][1]
  <2>0. file[f] \in Contents /\ file[f][1] \in Nat /\ file[f][1] <= rows
        /\ rows \in Nat
    BY <1>1, ContentsKnown, ContentNumber
  <2>1. CASE file' = file  BY <2>0, <2>1
  <2>2. ASSUME NEW p \in Profiles, NEW r \in FileRoles,
               WriteFile(p, r) \/ RestoreFile(p, r)
        PROVE  file'[f][1] >= file[f][1]
    <3>0. Alone /\ Owned  BY <1>1 DEF Catalog
    <3>1. /\ Op(p) \in Incomplete /\ Op(p) = rows /\ RowOf(p).profile = p
          /\ file' = [file EXCEPT ![Path(p, r)] = file'[Path(p, r)]]
          /\ RestoreFile(p, r) => file'[Path(p, r)] = RowOf(p).before[r]
      BY <1>1, <2>2, <3>0, WriteEffect
    <3>a. WriteFile(p, r) => \E s \in Stages : file'[Path(p, r)] = <<Op(p), s>>
      <4>1. WriteFile(p, r) =>
              /\ \E s \in Stages : <<s, r>> \in intent[Op(p)]
                                   /\ file'[Path(p, r)] = <<Op(p), s>>
              /\ RowOf(p).before[r] = Absent \/ r \in backup[Op(p)]
        BY <1>1, <2>2, <3>0, WriteEffect
      <4> QED  BY <4>1
    <3>2. CASE f # Path(p, r)
      <4>1. file'[f] = file[f]  BY <1>1, <3>1, <3>2 DEF IndInv, TypeOK
      <4> QED  BY <2>0, <4>1
    <3>3. CASE f = Path(p, r) /\ WriteFile(p, r)
      <4>1. file'[f][1] = rows  BY <3>1, <3>a, <3>3
      <4> QED  BY <2>0, <4>1
    <3>4. CASE f = Path(p, r) /\ RestoreFile(p, r)
      <4>1. \/ file[f] = RowOf(p).before[r]
            \/ \E s \in Stages : file[f] = <<Op(p), s>>
        <5>1. \/ file[Path(journal[Op(p)].profile, r)] = journal[Op(p)].before[r]
              \/ \E s \in Stages : file[Path(journal[Op(p)].profile, r)] = <<Op(p), s>>
          BY <3>0, <3>1 DEF Owned
        <5> QED  BY <3>1, <3>4, <5>1 DEF RowOf
      <4>2. file[f][1] # Op(p)
        BY <1>1, <3>1 DEF Incomplete, IncompleteRow, Terminal
      <4>3. file'[f] = file[f]  BY <3>1, <3>4, <4>1, <4>2
      <4> QED  BY <2>0, <4>3
    <3> QED  BY <2>2, <3>2, <3>3, <3>4
  <2>3. ASSUME NEW p \in Profiles, pc[p] \in PermitStates, Step(p)
        PROVE  file'[f][1] >= file[f][1]
    BY <1>1, <2>1, <2>2, <2>3, FileEffect DEF Catalog
  <2>4. ASSUME NEW p \in Profiles, Begin(p)  PROVE file' = file
    BY <2>4 DEF Begin
  <2>5. CASE Next
    BY <1>1, <2>1, <2>3, <2>4, <2>5, StepKinds, QuietWork DEF IndInv
  <2>6. CASE UNCHANGED vars  BY <2>1, <2>6 DEF vars
  <2> QED  BY <1>1, <2>5, <2>6
<1>2. IndInv /\ Evidence /\ Catalog /\ [Next]_vars => A  BY <1>1
<1>3. IndInv /\ Evidence /\ Catalog /\ [Next]_vars => [A]_vars  BY <1>2
<1> QED
  BY <1>3, Invariance, EvidenceHolds, CatalogHolds, PTL DEF Spec, CommittedSurvives
-----------------------------------------------------------------------------
(* The refinement of AtomicConfig, for operations that change the route.   *)

RoutesMove == \A q \in Requests : q.moves

Moving ==
  /\ \A p \in Profiles : pc[p] \in {"planned", "queued"} =>
       ActiveRoute(p) # req[p].new
  /\ \A o \in Incomplete : journal[o].old # journal[o].new

\* A waiting request still moves the route: its profile is locked, and nobody
\* else writes its config.yaml.
LEMMA MovingStep ==
  ASSUME RoutesMove, IndInv, Evidence, Moving, Next PROVE Moving'
<1>. USE DEF IndInv
<1>0. ASSUME NEW q \in Profiles
      PROVE  /\ <<q, "config">> \in Files
             /\ file[<<q, "config">>] \in Contents
             /\ file[<<q, "config">>][1] # 0 => file[<<q, "config">>][1] \in Ops
             /\ file[<<q, "config">>][1] <= rows
             /\ Path(q, "config") = <<q, "config">>
             /\ "config" \in LocalRoles
  <2>1. <<q, "config">> \in Files /\ Path(q, "config") = <<q, "config">>
        /\ "config" \in LocalRoles
    BY DEF Files, LocalRoles, FileRoles, GlobalRoles, Path
  <2> QED  BY <2>1, ContentsKnown, ContentNumber
<1>1. ASSUME NEW p \in Profiles, pc[p] \in PermitStates, Step(p)  PROVE Moving'
  <2>1. /\ Kept(p) /\ RowKept(p) /\ Incomplete' \subseteq Incomplete
        /\ \A q \in Profiles \ {p} : pc'[q] = pc[q] /\ req'[q] = req[q]
        /\ pc'[p] \notin {"planned", "queued"}
    BY <1>1, InsideFrame DEF Kept, PermitStates
  <2>2. \A o \in Incomplete' : journal'[o].old # journal'[o].new
    BY <2>1 DEF Moving, RowKept, Incomplete
  <2>3. ASSUME NEW q \in Profiles, pc'[q] \in {"planned", "queued"}
        PROVE  ActiveRoute(q)' # req'[q].new
    <3>1. q # p /\ pc[q] \in {"planned", "queued"} /\ req'[q] = req[q]
      BY <2>1, <2>3
    <3>2. ASSUME NEW r \in FileRoles, WriteFile(p, r) \/ RestoreFile(p, r)
          PROVE  file'[<<q, "config">>] = file[<<q, "config">>]
      <4>1. Path(p, r) # <<q, "config">>
        BY <1>0, <3>1, LocalPath
      <4> QED  BY <1>0, <3>2, <4>1 DEF WriteFile, RestoreFile, TypeOK
    <3>3. ~ (Enqueue(p) \/ Begin(p) \/ Reject(p))
      BY <1>1 DEF Enqueue, Begin, Reject, PermitStates
    <3>4. file'[<<q, "config">>] = file[<<q, "config">>]
      BY <1>1, <3>2, <3>3 DEF Step, BackupsPersisted, AdvanceStage, Verified, Commit,
         Fail, RecognizeCommitted, StartRestore, FinishRollback, GiveUp,
         CleanupDone, PersistBackup, RemoveBackup
    <3>5. ASSUME NEW c, c = file[<<q, "config">>]  PROVE RouteOf(c)' = RouteOf(c)
      BY <1>0, <2>1, <3>5 DEF RouteOf, RowKept
    <3>6. ActiveRoute(q)' = ActiveRoute(q)
      BY <3>4, <3>5 DEF ActiveRoute, RouteOf
    <3> QED  BY <3>1, <3>6 DEF Moving
  <2> QED  BY <2>2, <2>3 DEF Moving
<1>2. ASSUME NEW p \in Profiles, Begin(p)  PROVE Moving'
  <2>1. /\ rows + 1 \in Ops /\ rows \in Nat /\ file' = file /\ req' = req
        /\ journal'[rows + 1].old = ActiveRoute(p)
        /\ journal'[rows + 1].new = req[p].new
        /\ \A x \in Ops \ {rows + 1} : journal'[x] = journal[x]
        /\ Incomplete' = Incomplete \cup {rows + 1}
        /\ pc[p] = "queued" /\ pc'[p] = "backup"
        /\ \A q \in Profiles \ {p} : pc'[q] = pc[q]
    BY <1>2, BeginFrame
  <2>2. ASSUME NEW o \in Incomplete'  PROVE journal'[o].old # journal'[o].new
    <3>1. CASE o = rows + 1  BY <2>1, <3>1 DEF Moving
    <3>2. CASE o # rows + 1
      <4>1. o \in Incomplete  BY <2>1, <3>2
      <4>2. journal'[o] = journal[o]  BY <2>1, <3>2, <4>1 DEF Incomplete
      <4> QED  BY <4>1, <4>2 DEF Moving
    <3> QED  BY <3>1, <3>2
  <2>3. ASSUME NEW q \in Profiles, pc'[q] \in {"planned", "queued"}
        PROVE  ActiveRoute(q)' # req'[q].new
    <3>1. pc[q] \in {"planned", "queued"}  BY <2>1, <2>3
    <3>2. ASSUME NEW c, c = file[<<q, "config">>]  PROVE RouteOf(c)' = RouteOf(c)
      <4>1. c[1] # 0 => c[1] \in Ops \ {rows + 1}
        BY <1>0, <2>1, <3>2 DEF Ops
      <4> QED  BY <2>1, <4>1 DEF RouteOf
    <3>3. ActiveRoute(q)' = ActiveRoute(q)  BY <2>1, <3>2 DEF ActiveRoute, RouteOf
    <3> QED  BY <2>1, <3>1, <3>3 DEF Moving
  <2> QED  BY <2>2, <2>3 DEF Moving
<1>3. ASSUME NEW p \in Profiles, NEW q \in Requests, Plan(p, q)  PROVE Moving'
  <2>1. /\ file' = file /\ journal' = journal
        /\ req'[p].new # ActiveRoute(p)
        /\ \A x \in Profiles \ {p} : pc'[x] = pc[x] /\ req'[x] = req[x]
    BY <1>3 DEF Plan, Goto, TypeOK, RoutesMove
  <2>2. \A x \in Profiles : ActiveRoute(x)' = ActiveRoute(x)
    BY <2>1 DEF ActiveRoute, RouteOf
  <2> QED  BY <2>1, <2>2 DEF Moving, Incomplete, IncompleteRow
<1>4. CASE \/ \E p \in Profiles : Enqueue(p) \/ Reject(p)
           \/ RecoveryDone \/ Restart \/ \E o \in Ops : RecoverRow(o)
  <2>1. /\ file' = file /\ journal' = journal
        /\ \A x \in Profiles : pc'[x] \in {"planned", "queued"} =>
             pc[x] \in {"planned", "queued"} /\ req'[x] = req[x]
    BY <1>4 DEF Enqueue, Reject, RecoveryDone, Restart, RecoverRow, Goto, TypeOK
  <2>2. \A x \in Profiles : ActiveRoute(x)' = ActiveRoute(x)
    BY <2>1 DEF ActiveRoute, RouteOf
  <2> QED  BY <2>1, <2>2 DEF Moving, Incomplete, IncompleteRow
<1> QED  BY <1>1, <1>2, <1>3, <1>4, StepKinds

LEMMA MovingHolds == ASSUME RoutesMove PROVE Spec => []Moving
<1>1. Init => Moving
  BY DEF Init, Moving, Incomplete, IncompleteRow, NoRow, Terminal
<1>2. IndInv /\ Evidence /\ Moving /\ [Next]_vars => Moving'
  <2>1. ASSUME Moving, UNCHANGED vars PROVE Moving'
    <3>1. \A x \in Profiles : ActiveRoute(x)' = ActiveRoute(x)
      BY <2>1 DEF vars, ActiveRoute, RouteOf
    <3> QED  BY <2>1, <3>1 DEF vars, Moving, Incomplete, IncompleteRow
  <2> QED  BY <2>1, MovingStep
<1> QED  BY <1>1, <1>2, Invariance, EvidenceHolds, PTL DEF Spec

\* Callers see what an unfinished operation found in place of its own files.
LEMMA ViewFacts ==
  IndInv /\ Alone =>
    \A f \in Files :
      /\ ~ Covered(f) => CommittedView[f] = file[f]
      /\ \A o \in Incomplete :
           Covered(f) => CommittedView[f] = journal[o].before[f[2]]
<1>. SUFFICES ASSUME IndInv, Alone, NEW f \in Files
              PROVE  /\ ~ Covered(f) => CommittedView[f] = file[f]
                     /\ \A o \in Incomplete : Covered(f) =>
                          CommittedView[f] = journal[o].before[f[2]]
  OBVIOUS
<1>. DEFINE open == {o \in Incomplete : \E r \in FileRoles :
                                          f = Path(journal[o].profile, r)}
<1>1. CommittedView[f] =
        IF open = {} THEN file[f] ELSE journal[First(open)].before[f[2]]
  BY DEF CommittedView
<1>2. Covered(f) <=> open # {}  BY DEF Covered
<1>3. ASSUME NEW o \in Incomplete, Covered(f)  PROVE First(open) = o
  <2>1. \A x \in Incomplete : x = o  BY <1>3 DEF Alone
  <2>2. open = {o}  BY <1>2, <1>3, <2>1
  <2>3. o \in Ops  BY DEF Incomplete
  <2>4. \A n \in open : o <= n  BY <2>2, <2>3 DEF Ops
  <2>5. First(open) \in open  BY <2>2, <2>4 DEF First
  <2> QED  BY <2>2, <2>5
<1> QED  BY <1>1, <1>2, <1>3

LEMMA ViewFactsNext ==
  (IndInv /\ Alone)' =>
    (\A f \in Files :
      /\ ~ Covered(f) => CommittedView[f] = file[f]
      /\ \A o \in Incomplete :
           Covered(f) => CommittedView[f] = journal[o].before[f[2]])'
  BY ViewFacts, PTL

LEMMA ViewKept ==
  ASSUME \A f \in Files : CommittedView'[f] = CommittedView[f]
  PROVE  CommittedView' = CommittedView
<1>1. CommittedView = [f \in Files |-> CommittedView[f]]  BY DEF CommittedView
<1>2. CommittedView' = [f \in Files |-> CommittedView'[f]]  BY DEF CommittedView
<1> QED  BY <1>1, <1>2

\* A file is covered by the unfinished operation in one role.
LEMMA CoverFacts ==
  ASSUME NEW p \in Profiles, NEW r \in FileRoles
  PROVE  Path(p, r) \in Files /\ Path(p, r)[2] = r
  BY PathFacts DEF Path

\* The step that commits a row installs the whole change in the view.
LEMMA CommitView ==
  ASSUME OneAtATime, RoutesMove, IndInv, Evidence, Catalog, Moving, Next,
         (IndInv /\ Alone)', NEW p \in Profiles, pc[p] \in PermitStates, Step(p),
         Op(p) \in Incomplete, Commit(p) \/ RecognizeCommitted(p),
         journal'[Op(p)].state = "committed"
  PROVE  Atomic!Next
<1>. DEFINE o == Op(p)
            c == ChangeOf(p, intent[o])
<1>0. Alone /\ Owned /\ Origin /\ Asked  BY DEF Catalog
<1>1. o \in Ops /\ RowOf(p).profile = p /\ o = rows /\ Incomplete = {o}
  BY <1>0, InsideFrame DEF IndInv, Alone
<1>2. file' = file  BY DEF Commit, RecognizeCommitted
<1>3. Installed(o)
  BY CommittedIsWhole DEF Moving, RowOf
<1>4. \A sf \in intent[o] : /\ sf = <<sf[1], sf[2]>> /\ sf[2] \in FileRoles
                            /\ file[Path(p, sf[2])] = <<o, sf[1]>>
  BY <1>1, <1>3, StageFile DEF Installed, RowOf, IndInv, TypeOK
<1>5. Incomplete' = {}
  <2>1. Incomplete' \subseteq {o}  BY <1>1, InsideFrame DEF IndInv
  <2>2. o \notin Incomplete'  BY DEF Incomplete, IncompleteRow, Terminal
  <2> QED  BY <2>1, <2>2
<1>6. \A f \in Files : CommittedView'[f] = file[f]
  <2>1. \A f \in Files : ~ Covered(f)'  BY <1>5 DEF Covered
  <2> QED  BY <1>2, <2>1, ViewFactsNext
<1>7. \A f \in Files : ~ Covered(f) => CommittedView[f] = file[f]
  BY <1>0, ViewFacts
<1>8. ASSUME NEW f \in Files, Covered(f)
      PROVE  \E r \in FileRoles : /\ f = Path(p, r) /\ f[2] = r
                                  /\ CommittedView[f] = journal[o].before[r]
  <2>1. PICK r \in FileRoles : f = Path(p, r)
    BY <1>1, <1>8 DEF Covered, RowOf
  <2>2. f[2] = r  BY <2>1, CoverFacts
  <2>3. CommittedView[f] = journal[o].before[f[2]]
    BY <1>0, <1>8, ViewFacts
  <2> QED  BY <2>1, <2>2, <2>3
<1>9. ASSUME NEW f \in Files  PROVE CommittedView[f][1] < o
  <2>1. CASE Covered(f)
    BY <1>8, <2>1, ContentsKnown
  <2>2. CASE ~ Covered(f)
    <3>1. CommittedBytes(file[f])  BY <1>0, <2>2 DEF Origin
    <3>2. file[f][1] # o
      <4>1. journal[o].state # "committed" /\ o # 0
        BY <1>1 DEF Incomplete, IncompleteRow, Terminal, Ops
      <4> QED  BY <3>1, <4>1 DEF CommittedBytes
    <3>3. file[f][1] <= rows /\ file[f][1] \in Nat /\ rows \in Nat
      BY ContentsKnown, ContentNumber
    <3> QED  BY <1>1, <1>7, <2>2, <3>2, <3>3
  <2> QED  BY <2>1, <2>2
<1>10. \A w \in c : /\ \E sf \in intent[o] : w = <<Path(p, sf[2]), sf[1]>>
                    /\ file[w[1]] = <<o, w[2]>>
  BY <1>4 DEF ChangeOf
<1>11. ASSUME NEW f \in Files
       PROVE  CommittedView'[f] = IF \E w \in c : w[1] = f
                                    THEN <<o, (CHOOSE w \in c : w[1] = f)[2]>>
                                    ELSE CommittedView[f]
  <2>1. CASE \E w \in c : w[1] = f
    <3>. DEFINE w == CHOOSE x \in c : x[1] = f
    <3>1. w \in c /\ w[1] = f  BY <2>1
    <3>2. file[f] = <<o, w[2]>>  BY <1>10, <3>1
    <3> QED  BY <1>6, <2>1, <3>2
  <2>2. CASE ~ \E w \in c : w[1] = f
    <3>1. CommittedView[f] = file[f]
      <4>1. CASE ~ Covered(f)  BY <1>7, <4>1
      <4>2. CASE Covered(f)
        <5>1. PICK r \in FileRoles : /\ f = Path(p, r)
                                     /\ CommittedView[f] = journal[o].before[r]
          BY <1>8, <4>2
        <5>2. \/ file[Path(journal[o].profile, r)] = journal[o].before[r]
              \/ \E s \in Stages : <<s, r>> \in intent[o]
          BY <1>0 DEF Owned
        <5>3. ASSUME NEW s \in Stages, <<s, r>> \in intent[o]  PROVE FALSE
          <6>1. <<Path(p, r), s>> \in c  BY <5>3 DEF ChangeOf
          <6> QED  BY <2>2, <5>1, <6>1
        <5> QED  BY <1>1, <5>1, <5>2, <5>3 DEF RowOf
      <4> QED  BY <4>1, <4>2
    <3> QED  BY <1>6, <2>2, <3>1
  <2> QED  BY <2>1, <2>2
<1>12. c \in {ChangeOf(x, q.writes) : x \in Profiles, q \in Requests}
  <2>1. PICK q \in Requests : intent[o] = q.writes  BY <1>0 DEF Asked
  <2> QED  BY <2>1
<1>13. Atomic!Commit(o, c)
  <2>. HIDE DEF c, o
  <2>1. CommittedView' = [f \in Files |-> CommittedView'[f]]  BY DEF CommittedView
  <2> QED  BY <1>9, <1>11, <2>1 DEF Atomic!Commit
<1> QED  BY <1>1, <1>12, <1>13 DEF Atomic!Next

LEMMA ImplementationStep ==
  ASSUME OneAtATime, RoutesMove, IndInv, Evidence, Catalog, Moving, Next,
         (IndInv /\ Alone)'
  PROVE  Atomic!Next \/ CommittedView' = CommittedView
<1>0. Alone /\ Owned /\ Origin  BY DEF Catalog
<1>1. ASSUME NEW p \in Profiles, pc[p] \in PermitStates, Step(p)
      PROVE  Atomic!Next \/ CommittedView' = CommittedView
  <2>. DEFINE o == Op(p)
  <2>1. /\ RowKept(p) /\ Incomplete' \subseteq Incomplete
        /\ o \in Ops /\ RowOf(p).profile = p
        /\ pc[p] # "cleanup" => o \in Incomplete
    BY <1>1, InsideFrame DEF IndInv
  <2>2. CASE o \notin Incomplete
    <3>1. pc[p] = "cleanup"  BY <2>1, <2>2
    <3>2. journal' = journal /\ file' = file
      BY <1>1, <3>1 DEF Step, Enqueue, Begin, Reject, BackupsPersisted, AdvanceStage,
         Verified, Commit, Fail, RecognizeCommitted, StartRestore, FinishRollback,
         GiveUp, CleanupDone, PersistBackup, WriteFile, RestoreFile, RemoveBackup,
         Undoing
    <3> QED  BY <3>2 DEF CommittedView, Incomplete, IncompleteRow
  <2>3. CASE o \in Incomplete /\ o \in Incomplete'
    <3>1. Incomplete = {o} /\ Incomplete' = {o}  BY <1>0, <2>1, <2>3 DEF Alone
    <3>2. journal'[o].profile = p /\ journal[o].profile = p
          /\ journal'[o].before = journal[o].before
      BY <2>1 DEF RowKept, RowOf
    <3>3. \A f \in Files : Covered(f)' <=> Covered(f)
      BY <3>1, <3>2 DEF Covered
    <3>4. ASSUME NEW f \in Files, ~ Covered(f)  PROVE file'[f] = file[f]
      <4>1. CASE file' = file  BY <4>1
      <4>2. ASSUME NEW r \in FileRoles, WriteFile(p, r) \/ RestoreFile(p, r)
            PROVE  file'[f] = file[f]
        <5>1. file' = [file EXCEPT ![Path(p, r)] = file'[Path(p, r)]]
          BY <1>0, <4>2, WriteEffect
        <5>2. f # Path(p, r)  BY <3>1, <3>2, <3>4 DEF Covered
        <5> QED  BY <5>1, <5>2 DEF IndInv, TypeOK
      <4> QED  BY <1>0, <1>1, <4>1, <4>2, FileEffect
    <3>5. ASSUME NEW f \in Files  PROVE CommittedView'[f] = CommittedView[f]
      <4>1. CASE Covered(f)
        <5>1. CommittedView[f] = journal[o].before[f[2]]
          BY <1>0, <2>3, <4>1, ViewFacts
        <5>2. CommittedView'[f] = journal'[o].before[f[2]]
          BY <2>3, <3>3, <4>1, ViewFactsNext
        <5> QED  BY <3>2, <5>1, <5>2
      <4>2. CASE ~ Covered(f)
        <5>1. CommittedView[f] = file[f]  BY <1>0, <4>2, ViewFacts
        <5>2. CommittedView'[f] = file'[f]  BY <3>3, <4>2, ViewFactsNext
        <5> QED  BY <3>4, <4>2, <5>1, <5>2
      <4> QED  BY <4>1, <4>2
    <3> QED  BY <3>5, ViewKept
  <2>4. CASE o \in Incomplete /\ o \notin Incomplete'
    <3>1. pc[p] # "cleanup" /\ journal'[o].state \in Terminal
      BY <1>1, <2>1, <2>4 DEF IndInv, Control, PermitOwner, Incomplete, IncompleteRow
    <3>2. \/ (Commit(p) \/ RecognizeCommitted(p)) /\ journal'[o].state = "committed"
          \/ FinishRollback(p)
      BY <1>1, <3>1, EndingSteps DEF IndInv
    <3>3. CASE FinishRollback(p)
      <4>1. file' = file /\ Digests(p) = RowOf(p).before
        BY <3>3 DEF FinishRollback, Restored
      <4>2. Incomplete' = {} /\ Incomplete = {o}  BY <1>0, <2>1, <2>4 DEF Alone
      <4>3. \A f \in Files : ~ Covered(f)'  BY <4>2 DEF Covered
      <4>4. ASSUME NEW f \in Files  PROVE CommittedView[f] = file[f]
        <5>1. CASE ~ Covered(f)  BY <1>0, <5>1, ViewFacts
        <5>2. CASE Covered(f)
          <6>1. PICK r \in FileRoles : f = Path(p, r)
            BY <2>1, <4>2, <5>2 DEF Covered, RowOf
          <6>2. f[2] = r  BY <6>1, CoverFacts
          <6>3. CommittedView[f] = RowOf(p).before[r]
            BY <1>0, <2>4, <5>2, <6>2, ViewFacts DEF RowOf
          <6> QED  BY <4>1, <6>1, <6>3, ContentFacts DEF IndInv
        <5> QED  BY <5>1, <5>2
      <4> QED  BY <4>1, <4>3, <4>4, ViewFactsNext, ViewKept
    <3>4. CASE (Commit(p) \/ RecognizeCommitted(p)) /\ journal'[o].state = "committed"
      BY <1>1, <2>4, <3>4, CommitView
    <3> QED  BY <3>2, <3>3, <3>4
  <2> QED  BY <2>2, <2>3, <2>4
<1>2. ASSUME NEW p \in Profiles, Begin(p)  PROVE CommittedView' = CommittedView
  <2>. DEFINE n == rows + 1
  <2>1. Incomplete = {}  BY <1>2, BeginAlone DEF Catalog
  <2>2. /\ file' = file /\ Incomplete' = {n}
        /\ journal'[n].before = Digests(p) /\ journal'[n].profile = p
    BY <1>2, <2>1, BeginFrame DEF IndInv
  <2>3. ASSUME NEW f \in Files  PROVE CommittedView'[f] = CommittedView[f]
    <3>1. CommittedView[f] = file[f]  BY <1>0, <2>1, ViewFacts DEF Covered
    <3>2. CASE ~ Covered(f)'  BY <2>2, <3>1, <3>2, ViewFactsNext
    <3>3. CASE Covered(f)'
      <4>1. PICK r \in FileRoles : f = Path(p, r)
        BY <2>2, <3>3 DEF Covered
      <4>2. f[2] = r  BY <4>1, CoverFacts
      <4>3. CommittedView'[f] = journal'[n].before[f[2]]
        BY <2>2, <3>3, ViewFactsNext
      <4> QED  BY <2>2, <3>1, <4>1, <4>2, <4>3, ContentFacts DEF IndInv
    <3> QED  BY <3>2, <3>3
  <2> QED  BY <2>3, ViewKept
<1>3. CASE \/ \E p \in Profiles : /\ pc[p] \notin PermitStates
                                  /\ Enqueue(p) \/ Reject(p)
                                       \/ \E q \in Requests : Plan(p, q)
           \/ RecoveryDone \/ Restart \/ \E x \in Ops : RecoverRow(x)
  <2>1. file' = file /\ journal' = journal  BY <1>3, QuietWork DEF IndInv
  <2> QED  BY <2>1 DEF CommittedView, Incomplete, IncompleteRow
<1> QED  BY <1>1, <1>2, <1>3, StepKinds

\* Behind the journal, operations that change the route look atomic: every step
\* of the coordinator leaves what callers may rely on alone or installs one
\* whole operation, which is a step of AtomicConfig.
THEOREM Implementation ==
  ASSUME OneAtATime, RoutesMove PROVE Spec => ImplementsAtomicConfig
<1>1. Init => Atomic!Init
  <2>1. ASSUME Init PROVE Incomplete = {}
    BY <2>1 DEF Init, Incomplete, IncompleteRow, NoRow, Terminal
  <2> QED  BY <2>1 DEF Init, Atomic!Init, CommittedView
<1>2. /\ IndInv /\ Evidence /\ Catalog /\ Moving /\ (IndInv /\ Catalog)'
      /\ [Next]_vars
      => [Atomic!Next]_CommittedView
  <2>1. ASSUME IndInv, Evidence, Catalog, Moving, (IndInv /\ Catalog)', Next
        PROVE  Atomic!Next \/ CommittedView' = CommittedView
    BY <2>1, ImplementationStep DEF Catalog
  <2>2. ASSUME UNCHANGED vars PROVE CommittedView' = CommittedView
    BY <2>2 DEF vars, CommittedView, Incomplete, IncompleteRow
  <2> QED  BY <2>1, <2>2
<1> QED
  BY <1>1, <1>2, Invariance, EvidenceHolds, CatalogHolds, MovingHolds, PTL
  DEF Spec, ImplementsAtomicConfig, Atomic!Spec
=============================================================================
