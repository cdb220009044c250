----------------------------- MODULE OwnerSwitch -----------------------------
(***************************************************************************)
(* How the desktop changes the signed-in owner while runs are under way.   *)
(*                                                                         *)
(* agentera-connection-owner.ts keeps one owner mounted and serialises the *)
(* transitions between owners; every transition invalidates the leases of  *)
(* the old epoch and stops the old Runtime context (app/start.ts,          *)
(* stopActiveRuntimeContext) before the new owner is mounted.              *)
(* runtime-activity.ts keeps the runs that are using the context.  A run   *)
(* (a chat, or a managed change of the model configuration) asks for a     *)
(* lease, announces itself, and asserts its lease again after every await. *)
(*                                                                         *)
(* A step is what happens between two awaits.                              *)
(***************************************************************************)
EXTENDS Naturals, FiniteSets

CONSTANTS
  Owners, Nobody,         \* owner ids, and "no owner is signed in"
  Calls, NoCall,          \* calls of transitionTo; NoCall: the initial queue
  Runs, NoRun,            \* requests of IPC handlers that use the context
  Chats,                  \* those of send-message; the others change models
  Conversations,          \* run ids, which a renderer reuses
  Conversation            \* the run id of each run

ASSUME OwnersAssumption == Nobody \notin Owners
ASSUME CallsAssumption == NoCall \notin Calls /\ IsFiniteSet(Calls)
ASSUME RunsAssumption ==
  /\ NoRun \notin Runs
  /\ Chats \subseteq Runs
  /\ Conversation \in [Runs -> Conversations]

VARIABLES
  state, activeOwnerId, epoch,
  queue,                  \* the last call that was chained
  pendingTransitions,
  call,                   \* where each call of transitionTo is
  turn,                   \* auxiliary: the order in which calls were chained
  cleanup,                \* where the stopRuntimeContext of each call is
  run,                    \* where each run is, its epoch, the call it awaits
  abortRequested,         \* runs whose state says so
  attached,               \* runs whose transport gave its abort function
  signalled,              \* runs whose abort function has been called
  currentRuns,            \* RuntimeActivityCoordinator.currentRuns
  reserved                \* transitionPending, snapshotPending or neither

coordinator == <<state, activeOwnerId, epoch, queue, pendingTransitions, call,
                 turn>>
activity == <<abortRequested, attached, signalled, currentRuns>>
vars == <<coordinator, cleanup, run, activity, reserved>>

CallPhases == {"idle", "queued", "draining", "completed", "done"}
CleanupPhases == {"none", "waiting", "stopping", "done", "failed"}
RunPhases ==
  {"idle", "asked", "leased", "refused", "open", "busy", "finished"}

Init ==
  /\ state = "unmounted" /\ activeOwnerId = Nobody /\ epoch = 0
  /\ queue = NoCall /\ pendingTransitions = 0
  /\ call = [c \in Calls |->
               [phase |-> "idle", owner |-> Nobody, after |-> NoCall]]
  /\ turn = [c \in Calls |-> 0]
  /\ cleanup = [c \in Calls |-> "none"]
  /\ run = [r \in Runs |-> [phase |-> "idle", epoch |-> 0, after |-> NoCall]]
  /\ abortRequested = {} /\ attached = {} /\ signalled = {}
  /\ currentRuns = [id \in Conversations |-> NoRun]
  /\ reserved = "none"

-----------------------------------------------------------------------------
(* RuntimeActivityCoordinator *)

activeRuns == {r \in Runs : run[r].phase \in {"open", "busy"}}

\* requestAbort: the abort function is called now, or when it is attached.
RequestAbort(S) ==
  /\ abortRequested' = abortRequested \cup S
  /\ signalled' = signalled \cup (S \cap attached)

\* Altered: every run that leaves wakes the waiters.
Release_WakesEarly(r) ==
  /\ run' = [run EXCEPT ![r].phase = "finished"]
  /\ currentRuns' = [id \in Conversations |->
       IF currentRuns[id] = r THEN NoRun ELSE currentRuns[id]]
  /\ cleanup' = [c \in Calls |->
       IF cleanup[c] = "waiting" THEN "stopping" ELSE cleanup[c]]

\* Altered: the entry of the run id is dropped, whoever has it by now.
Release_DropsSuccessor(r) ==
  /\ run' = [run EXCEPT ![r].phase = "finished"]
  /\ currentRuns' = [currentRuns EXCEPT ![Conversation[r]] = NoRun]
  /\ cleanup' = [c \in Calls |->
       IF cleanup[c] = "waiting" /\ activeRuns = {r} THEN "stopping"
                                                     ELSE cleanup[c]]

\* finish: the last run to leave wakes everyone who waits for idleness.
Release(r) ==
  /\ run' = [run EXCEPT ![r].phase = "finished"]
  /\ currentRuns' = [id \in Conversations |->
       IF currentRuns[id] = r THEN NoRun ELSE currentRuns[id]]
  /\ cleanup' = [c \in Calls |->
       IF cleanup[c] = "waiting" /\ activeRuns = {r} THEN "stopping"
                                                     ELSE cleanup[c]]

\* beginTransition (a restart into another Runtime) and beginSnapshot (a
\* backup) need the context for themselves.
Reserve(kind) ==
  /\ reserved = "none" /\ activeRuns = {}
  /\ reserved' = kind
  /\ UNCHANGED <<coordinator, cleanup, run, activity>>

Unreserve ==
  /\ reserved # "none"
  /\ reserved' = "none"
  /\ UNCHANGED <<coordinator, cleanup, run, activity>>

\* abort-chat: one conversation by its run id, or everything.
AbortChat(id) ==
  /\ currentRuns[id] # NoRun
  /\ RequestAbort({currentRuns[id]})
  /\ UNCHANGED <<coordinator, cleanup, run, attached, currentRuns, reserved>>

AbortEverything ==
  /\ RequestAbort(activeRuns)
  /\ UNCHANGED <<coordinator, cleanup, run, attached, currentRuns, reserved>>

-----------------------------------------------------------------------------
(* transitionTo *)

IsNoop(o) == \/ state = "ready" /\ activeOwnerId = o
             \/ state = "unmounted" /\ o = Nobody

\* Altered: a blocked context counts as unmounted.
hadMountedContext_Unblocked == activeOwnerId # Nobody

hadMountedContext == activeOwnerId # Nobody \/ state = "blocked"

\* The end of completeTransition.
Mount(o) ==
  /\ activeOwnerId' = o
  /\ state' = IF o = Nobody THEN "unmounted" ELSE "ready"

\* The catch of completeTransition.
Block ==
  /\ activeOwnerId' = Nobody
  /\ state' = "blocked"

\* The queue's new tail.
Chain(c) ==
  /\ queue' = c
  /\ turn' = [turn EXCEPT ![c] = IF queue \in Calls THEN turn[queue] + 1 ELSE 1]

\* Altered: a failed transition breaks the chain.
Settled_Successful(c) ==
  c \in Calls => call[c].phase = "done" /\ state # "blocked"

Settled(c) == c \in Calls => call[c].phase = "done"

\* Altered: the old context is not waited for.
Begin_Unwaited(c, o, after) ==
  /\ epoch' = epoch + 1
  /\ call' = [call EXCEPT ![c] =
                [phase |-> "completed", owner |-> o, after |-> after]]
  /\ Mount(o)
  /\ RequestAbort(activeRuns)
  /\ UNCHANGED cleanup

\* beginTransition and what completeTransition does before it awaits: without
\* an old context the owner is mounted at once, otherwise the old context is
\* told to stop.  "waiting" is waitForIdle, "stopping" the steps after it.
Begin(c, o, after) ==
  /\ epoch' = epoch + 1
  /\ \/ /\ ~hadMountedContext
        /\ Mount(o)
        /\ call' = [call EXCEPT ![c] =
                      [phase |-> "completed", owner |-> o, after |-> after]]
        /\ UNCHANGED <<cleanup, abortRequested, signalled>>
     \/ /\ hadMountedContext
        /\ state' = "transitioning"
        /\ call' = [call EXCEPT ![c] =
                      [phase |-> "draining", owner |-> o, after |-> after]]
        /\ RequestAbort(activeRuns)
        /\ cleanup' = [cleanup EXCEPT ![c] =
                         IF activeRuns = {} THEN "stopping" ELSE "waiting"]
        /\ UNCHANGED activeOwnerId

\* A call that changes nothing is answered at once.
RequestNoop(c, o) ==
  /\ call[c].phase = "idle" /\ pendingTransitions = 0 /\ IsNoop(o)
  /\ call' = [call EXCEPT ![c].phase = "done"]
  /\ UNCHANGED <<state, activeOwnerId, epoch, queue, pendingTransitions, turn,
                 cleanup, run, activity, reserved>>

\* The first call runs synchronously.
RequestFirst(c, o) ==
  /\ call[c].phase = "idle" /\ pendingTransitions = 0 /\ ~IsNoop(o)
  /\ pendingTransitions' = 1
  /\ Chain(c)
  /\ Begin(c, o, NoCall)
  /\ UNCHANGED <<run, attached, currentRuns, reserved>>

\* Later calls are chained to the tail.
RequestLater(c, o) ==
  /\ call[c].phase = "idle" /\ pendingTransitions > 0
  /\ pendingTransitions' = pendingTransitions + 1
  /\ Chain(c)
  /\ call' = [call EXCEPT ![c] =
                [phase |-> "queued", owner |-> o, after |-> queue]]
  /\ UNCHANGED <<state, activeOwnerId, epoch, cleanup, run, activity,
                 reserved>>

Request(c, o) == RequestNoop(c, o) \/ RequestFirst(c, o) \/ RequestLater(c, o)

\* runTransition of a chained call, which asks again whether there is
\* anything to do.
RunQueued(c) ==
  /\ call[c].phase = "queued" /\ Settled(call[c].after)
  /\ \/ /\ IsNoop(call[c].owner)
        /\ call' = [call EXCEPT ![c].phase = "completed"]
        /\ UNCHANGED <<state, activeOwnerId, epoch, cleanup, abortRequested,
                       signalled>>
     \/ /\ ~IsNoop(call[c].owner)
        /\ Begin(c, call[c].owner, call[c].after)
  /\ UNCHANGED <<queue, pendingTransitions, turn, run, attached, currentRuns,
                 reserved>>

\* The race between the cleanup and its deadline.  A cleanup that is late
\* still ends, and nobody looks at how.
CleanupDone(c) ==
  /\ cleanup[c] = "stopping"
  /\ cleanup' = [cleanup EXCEPT ![c] = "done"]
  /\ \/ /\ call[c].phase = "draining"
        /\ Mount(call[c].owner)
        /\ call' = [call EXCEPT ![c].phase = "completed"]
     \/ /\ call[c].phase # "draining"
        /\ UNCHANGED <<state, activeOwnerId, call>>
  /\ UNCHANGED <<epoch, queue, pendingTransitions, turn, run, activity,
                 reserved>>

CleanupFailed(c) ==
  /\ cleanup[c] = "stopping"
  /\ cleanup' = [cleanup EXCEPT ![c] = "failed"]
  /\ \/ /\ call[c].phase = "draining"
        /\ Block
        /\ call' = [call EXCEPT ![c].phase = "completed"]
     \/ /\ call[c].phase # "draining"
        /\ UNCHANGED <<state, activeOwnerId, call>>
  /\ UNCHANGED <<epoch, queue, pendingTransitions, turn, run, activity,
                 reserved>>

Timeout(c) ==
  /\ call[c].phase = "draining"
  /\ Block
  /\ call' = [call EXCEPT ![c].phase = "completed"]
  /\ UNCHANGED <<epoch, queue, pendingTransitions, turn, cleanup, run,
                 activity, reserved>>

\* The callbacks of `tracked`: the counter goes down, the tail resolves.
Settle(c) ==
  /\ call[c].phase = "completed"
  /\ call' = [call EXCEPT ![c].phase = "done"]
  /\ pendingTransitions' = pendingTransitions - 1
  /\ UNCHANGED <<state, activeOwnerId, epoch, queue, turn, cleanup, run,
                 activity, reserved>>

-----------------------------------------------------------------------------
(* A run *)

\* acquireLease awaits the queue as it is now.
Ask(r) ==
  /\ run[r].phase = "idle"
  /\ run' = [run EXCEPT ![r].phase = "asked", ![r].after = queue]
  /\ UNCHANGED <<coordinator, cleanup, activity, reserved>>

Lease(r) ==
  /\ run[r].phase = "asked" /\ Settled(run[r].after)
  /\ run' = IF state = "ready" /\ activeOwnerId # Nobody
            THEN [run EXCEPT ![r].phase = "leased", ![r].epoch = epoch]
            ELSE [run EXCEPT ![r].phase = "refused"]
  /\ UNCHANGED <<coordinator, cleanup, activity, reserved>>

\* assertCurrent: a lease whose controller was aborted has an older epoch.
Current(r) == state = "ready" /\ epoch = run[r].epoch

\* Altered: a run does not look for a reservation.
MayBegin_Unreserved(r) == r \in Chats => Current(r)

\* send-message asserts its lease before it begins, a managed change does not.
MayBegin(r) == reserved = "none" /\ (r \in Chats => Current(r))

\* beginRun: a run with the same id is told to stop.
BeginRun(r) ==
  /\ run[r].phase = "leased" /\ MayBegin(r)
  /\ run' = [run EXCEPT ![r].phase = "open"]
  /\ RequestAbort({currentRuns[Conversation[r]]} \ {NoRun})
  /\ currentRuns' = [currentRuns EXCEPT ![Conversation[r]] = r]
  /\ UNCHANGED <<coordinator, cleanup, attached, reserved>>

Refuse(r) ==
  /\ run[r].phase = "leased" /\ ~MayBegin(r)
  /\ run' = [run EXCEPT ![r].phase = "refused"]
  /\ UNCHANGED <<coordinator, cleanup, activity, reserved>>

\* The lease is asserted again, and the owner's files, gateway or transport
\* are used until the next await at which it is asserted anew.
Enter(r) ==
  /\ run[r].phase = "open" /\ Current(r)
  /\ run' = [run EXCEPT ![r].phase = "busy"]
  /\ UNCHANGED <<coordinator, cleanup, activity, reserved>>

Pause(r) ==
  /\ run[r].phase = "busy"
  /\ run' = [run EXCEPT ![r].phase = "open"]
  /\ UNCHANGED <<coordinator, cleanup, activity, reserved>>

\* Altered: an earlier request to stop is forgotten.
AttachAbort_Forgets(r) ==
  /\ r \in Chats \ attached /\ run[r].phase = "busy"
  /\ attached' = attached \cup {r}
  /\ UNCHANGED <<coordinator, cleanup, run, abortRequested, signalled,
                 currentRuns, reserved>>

\* The transport of a chat is up (attaching after the end concerns nobody).
AttachAbort(r) ==
  /\ r \in Chats \ attached /\ run[r].phase = "busy"
  /\ attached' = attached \cup {r}
  /\ signalled' = signalled \cup ({r} \cap abortRequested)
  /\ UNCHANGED <<coordinator, cleanup, run, abortRequested, currentRuns,
                 reserved>>

\* finish: done, failed, aborted, or an assertion that throws.
Finish(r) ==
  /\ r \in activeRuns
  /\ Release(r)
  /\ UNCHANGED <<coordinator, abortRequested, attached, signalled, reserved>>

-----------------------------------------------------------------------------
Next ==
  \/ \E c \in Calls :
       \/ \E o \in Owners \cup {Nobody} : Request(c, o)
       \/ RunQueued(c) \/ CleanupDone(c) \/ CleanupFailed(c) \/ Timeout(c)
       \/ Settle(c)
  \/ \E r \in Runs :
       \/ Ask(r) \/ Lease(r) \/ BeginRun(r) \/ Refuse(r) \/ Enter(r)
       \/ Pause(r) \/ AttachAbort(r) \/ Finish(r)
  \/ \E id \in Conversations : AbortChat(id)
  \/ AbortEverything
  \/ \E kind \in {"transition", "snapshot"} : Reserve(kind)
  \/ Unreserve

\* The event loop runs the continuation of a settled promise and fires a
\* timer that is due.  Nothing is assumed of runs, cleanups and users.
Fairness ==
  /\ \A c \in Calls : WF_vars(RunQueued(c)) /\ WF_vars(Timeout(c))
                        /\ WF_vars(Settle(c))
  /\ \A r \in Runs : WF_vars(Lease(r))

Spec == Init /\ [][Next]_vars /\ Fairness

-----------------------------------------------------------------------------
(* Properties *)

\* Every variable has its type.
TypeOK ==
  /\ state \in {"unmounted", "transitioning", "ready", "blocked"}
  /\ activeOwnerId \in Owners \cup {Nobody}
  /\ epoch \in Nat /\ pendingTransitions \in Nat
  /\ queue \in Calls \cup {NoCall}
  /\ call \in [Calls -> [phase : CallPhases, owner : Owners \cup {Nobody},
                         after : Calls \cup {NoCall}]]
  /\ turn \in [Calls -> Nat]
  /\ cleanup \in [Calls -> CleanupPhases]
  /\ run \in [Runs -> [phase : RunPhases, epoch : Nat,
                       after : Calls \cup {NoCall}]]
  /\ abortRequested \subseteq Runs /\ attached \subseteq Runs
  /\ signalled \subseteq Runs
  /\ currentRuns \in [Conversations -> Runs \cup {NoRun}]
  /\ reserved \in {"none", "transition", "snapshot"}

\* Work is only ever done for the owner it was leased from: a run that uses
\* the context has a current lease, or nobody is mounted and it has been told
\* to stop.  Neither the leases nor the runs alone would give it: a run may
\* begin when the drain has already found the context idle, and a drain that
\* timed out leaves its runs behind.
WorkStaysWithItsOwner ==
  \A r \in Runs : run[r].phase = "busy" =>
    \/ state = "ready" /\ epoch = run[r].epoch
    \/ state \in {"transitioning", "blocked"} /\ r \in abortRequested

\* A request to stop is never lost between a run that begins and a transport
\* that attaches its abort function late.
AbortsAreDelivered == attached \cap abortRequested \subseteq signalled

\* A conversation has at most one run that has not been told to stop, and the
\* user can stop it: the run id leads to it, also when an earlier run of the
\* same id ends late.
LiveRunsCanBeStopped ==
  \A r \in activeRuns \ abortRequested : currentRuns[Conversation[r]] = r

\* A backup or a restart never overlaps a run.
ReservedMeansIdle == reserved # "none" => activeRuns = {}

\* Fail closed: an owner is mounted on a context that was never used, or after
\* a cleanup of the old one has succeeded, also when an earlier cleanup failed
\* or timed out.
MountedAfterCleanup ==
  [][(state # "ready" /\ state' = "ready") =>
       \/ state = "unmounted"
       \/ \E c \in Calls : cleanup[c] = "stopping" /\ cleanup'[c] = "done"]_vars

\* Every call of transitionTo and every request for a lease is answered, even
\* if no run ever ends and no cleanup ever returns.
EverythingIsAnswered ==
  /\ \A c \in Calls : call[c].phase # "idle" ~> call[c].phase = "done"
  /\ \A r \in Runs : run[r].phase = "asked" ~> run[r].phase # "asked"
=============================================================================
