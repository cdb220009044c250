-------------------------- MODULE OwnerSwitchProofs --------------------------
(***************************************************************************)
(* For any owners, calls and runs: work stays with its owner, backups and  *)
(* restarts never overlap a run, aborts are delivered, and the owner       *)
(* switch implements OwnerMount.                                           *)
(*                                                                         *)
(* The argument has two halves.  The promise queue lets one transition at  *)
(* a time past its first await (Queue).  So while one drains, the state    *)
(* says so, no run can assert its lease, and the runs that were at work    *)
(* have been told to stop and must leave before the drain ends (Context).  *)
(***************************************************************************)
EXTENDS OwnerSwitchRefinement, FiniteSetTheorems, TLAPS

OutstandingPhases == {"queued", "draining", "completed"}
Outstanding == {c \in Calls : call[c].phase \in OutstandingPhases}
\* Past the wait for its predecessor.
Started(c) == call[c].phase \in {"draining", "completed"}
Busy == {r \in Runs : run[r].phase = "busy"}

-----------------------------------------------------------------------------
(* The inductive invariant, in named parts. *)

\* The counter counts the calls that are not answered.
Counted == pendingTransitions = Cardinality(Outstanding)

\* The tail of the queue is the latest of them.
TailIsLatest ==
  Outstanding # {} =>
    queue \in Outstanding /\ \A d \in Outstanding : turn[d] <= turn[queue]

\* They are chained one by one ...
InTurns == \A c, d \in Outstanding : turn[c] = turn[d] => c = d

\* ... only the first of them has started ...
FirstStarts ==
  \A c, d \in Outstanding : Started(c) /\ d # c => turn[c] < turn[d]

\* ... and a later one waits for the one just before it.
WaitsForPrevious ==
  \A c, d \in Outstanding :
    call[c].phase = "queued" /\ turn[d] < turn[c] =>
      call[c].after \in Outstanding /\ turn[call[c].after] + 1 = turn[c]

Queue == /\ Counted /\ TailIsLatest /\ InTurns /\ FirstStarts
         /\ WaitsForPrevious

\* The state says "transitioning" exactly while a call drains the context.
DrainIsVisible ==
  /\ state = "transitioning" <=> \E c \in Calls : call[c].phase = "draining"
  /\ state = "ready" => activeOwnerId # Nobody

\* When the steps after waitForIdle run, nobody is at work any more.
IdleWhenStopping ==
  \A c \in Calls :
    call[c].phase = "draining" /\ cleanup[c] = "stopping" => Busy = {}

Context == DrainIsVisible /\ IdleWhenStopping /\ WorkStaysWithItsOwner

Activity == /\ AbortsAreDelivered /\ LiveRunsCanBeStopped
            /\ ReservedMeansIdle

IndInv == TypeOK /\ Queue /\ Context /\ Activity

-----------------------------------------------------------------------------
(* Types *)

LEMMA CountedFacts ==
  ASSUME TypeOK, Counted
  PROVE  /\ IsFiniteSet(Outstanding)
         /\ pendingTransitions = 0 <=> Outstanding = {}
         /\ \A c \in Outstanding : pendingTransitions - 1 \in Nat
<1>1. IsFiniteSet(Outstanding)
  BY CallsAssumption, FS_Subset DEF Outstanding
<1> QED
  BY <1>1, FS_EmptySet, FS_CardinalityType DEF Counted, TypeOK

LEMMA TypeInit == Init => TypeOK
  BY RunsAssumption DEF Init, TypeOK, CallPhases, CleanupPhases, RunPhases

LEMMA BeginType ==
  ASSUME TypeOK, NEW c \in Calls, NEW o \in Owners \cup {Nobody},
         NEW a \in Calls \cup {NoCall}, Begin(c, o, a)
  PROVE  /\ state' \in {"unmounted", "transitioning", "ready", "blocked"}
         /\ activeOwnerId' \in Owners \cup {Nobody}
         /\ epoch' \in Nat
         /\ call' \in [Calls -> [phase : CallPhases,
                                 owner : Owners \cup {Nobody},
                                 after : Calls \cup {NoCall}]]
         /\ cleanup' \in [Calls -> CleanupPhases]
         /\ abortRequested' \subseteq Runs /\ signalled' \subseteq Runs
  BY DEF TypeOK, Begin, Mount, RequestAbort, activeRuns, CallPhases,
         CleanupPhases

LEMMA ChainType ==
  ASSUME TypeOK, NEW c \in Calls, Chain(c)
  PROVE  queue' \in Calls \cup {NoCall} /\ turn' \in [Calls -> Nat]
  BY DEF TypeOK, Chain

LEMMA TypeStep == ASSUME TypeOK, Counted, Next PROVE TypeOK'
<1>. USE DEF TypeOK
<1>1. ASSUME NEW c \in Calls, NEW o \in Owners \cup {Nobody}, Request(c, o)
      PROVE  TypeOK'
  <2>1. CASE RequestNoop(c, o)
    BY <2>1 DEF RequestNoop, activity, CallPhases
  <2>2. CASE RequestFirst(c, o)
    BY <2>2, BeginType, ChainType DEF RequestFirst
  <2>3. CASE RequestLater(c, o)
    BY <2>3, ChainType DEF RequestLater, activity, CallPhases
  <2> QED  BY <1>1, <2>1, <2>2, <2>3 DEF Request
<1>2. ASSUME NEW c \in Calls, RunQueued(c) PROVE TypeOK'
  <2>1. /\ call[c].owner \in Owners \cup {Nobody}
        /\ call[c].after \in Calls \cup {NoCall}
    OBVIOUS
  <2>2. CASE Begin(c, call[c].owner, call[c].after)
    BY <1>2, <2>1, <2>2, BeginType DEF RunQueued
  <2>3. CASE ~Begin(c, call[c].owner, call[c].after)
    BY <1>2, <2>3 DEF RunQueued, CallPhases
  <2> QED  BY <2>2, <2>3
<1>3. ASSUME NEW c \in Calls, CleanupDone(c) PROVE TypeOK'
  BY <1>3 DEF CleanupDone, Mount, activity, CallPhases, CleanupPhases
<1>4. ASSUME NEW c \in Calls, CleanupFailed(c) PROVE TypeOK'
  BY <1>4 DEF CleanupFailed, Block, activity, CallPhases, CleanupPhases
<1>5. ASSUME NEW c \in Calls, Timeout(c) PROVE TypeOK'
  BY <1>5 DEF Timeout, Block, activity, CallPhases
<1>6. ASSUME NEW c \in Calls, Settle(c) PROVE TypeOK'
  <2>1. c \in Outstanding
    BY <1>6 DEF Settle, Outstanding, OutstandingPhases
  <2>2. pendingTransitions - 1 \in Nat
    BY <2>1, CountedFacts
  <2> QED  BY <1>6, <2>2 DEF Settle, activity, CallPhases
<1>7. ASSUME NEW r \in Runs,
             Ask(r) \/ Lease(r) \/ BeginRun(r) \/ Refuse(r) \/ Enter(r)
               \/ Pause(r) \/ AttachAbort(r) \/ Finish(r)
      PROVE  TypeOK'
  <2>1. CASE Ask(r)
    BY <2>1 DEF Ask, coordinator, activity, RunPhases
  <2>2. CASE Lease(r)
    <3>1. CASE state = "ready" /\ activeOwnerId # Nobody
      BY <2>2, <3>1 DEF Lease, coordinator, activity, RunPhases
    <3>2. CASE ~(state = "ready" /\ activeOwnerId # Nobody)
      BY <2>2, <3>2 DEF Lease, coordinator, activity, RunPhases
    <3> QED  BY <3>1, <3>2
  <2>3. CASE BeginRun(r)
    <3>1. Conversation[r] \in Conversations
      BY RunsAssumption
    <3> QED
      BY <2>3, <3>1, RunsAssumption
      DEF BeginRun, RequestAbort, coordinator, RunPhases
  <2>4. CASE Refuse(r)
    BY <2>4 DEF Refuse, coordinator, activity, RunPhases
  <2>5. CASE Enter(r)
    BY <2>5 DEF Enter, coordinator, activity, RunPhases
  <2>6. CASE Pause(r)
    BY <2>6 DEF Pause, coordinator, activity, RunPhases
  <2>7. CASE AttachAbort(r)
    BY <2>7 DEF AttachAbort, coordinator
  <2>8. CASE Finish(r)
    BY <2>8 DEF Finish, Release, coordinator, RunPhases, CleanupPhases
  <2> QED  BY <1>7, <2>1, <2>2, <2>3, <2>4, <2>5, <2>6, <2>7, <2>8
<1>8. ASSUME NEW id \in Conversations, AbortChat(id) PROVE TypeOK'
  BY <1>8 DEF AbortChat, RequestAbort, coordinator
<1>9. ASSUME AbortEverything PROVE TypeOK'
  BY <1>9 DEF AbortEverything, RequestAbort, activeRuns, coordinator
<1>10. ASSUME NEW kind \in {"transition", "snapshot"}, Reserve(kind)
       PROVE  TypeOK'
  BY <1>10 DEF Reserve, coordinator, activity
<1>11. ASSUME Unreserve PROVE TypeOK'
  BY <1>11 DEF Unreserve, coordinator, activity
<1> QED
  BY <1>1, <1>2, <1>3, <1>4, <1>5, <1>6, <1>7, <1>8, <1>9, <1>10, <1>11
  DEF Next

-----------------------------------------------------------------------------
(* The queue: one lemma for each way in which it can change. *)

LEMMA OutstandingFacts ==
  ASSUME TypeOK
  PROVE  /\ Outstanding \subseteq Calls
         /\ \A c \in Calls : Started(c) => c \in Outstanding
         /\ \A c \in Calls : turn[c] \in Nat
  BY DEF TypeOK, Outstanding, OutstandingPhases, Started

LEMMA QueueSame ==
  ASSUME Queue, UNCHANGED <<queue, pendingTransitions, call, turn>>
  PROVE  Queue'
  BY DEF Queue, Counted, TailIsLatest, InTurns, FirstStarts,
         WaitsForPrevious, Outstanding, Started

\* A call joins: as the only one, or behind the tail.
LEMMA QueueJoin ==
  ASSUME TypeOK, TypeOK', Queue,
         NEW c \in Calls, NEW p \in OutstandingPhases,
         c \notin Outstanding,
         call'[c].phase = p,
         \A d \in Calls : d # c => call'[d] = call[d],
         pendingTransitions' = pendingTransitions + 1,
         Chain(c),
         \/ Outstanding = {}
         \/ /\ Outstanding # {}
            /\ p = "queued" /\ call'[c].after = queue
  PROVE  Queue'
<1>1. Outstanding' = Outstanding \cup {c}
  BY DEF TypeOK, Outstanding
<1>2. Counted'
  BY <1>1, CountedFacts, FS_AddElement DEF Queue, Counted
<1>3. /\ queue' = c
      /\ \A d \in Calls : d # c => turn'[d] = turn[d]
      /\ \A d \in Calls : turn[d] \in Nat /\ turn'[d] \in Nat
      /\ Outstanding # {} => queue \in Outstanding /\ turn'[c] = turn[queue] + 1
  BY DEF TypeOK, Chain, Queue, TailIsLatest, Outstanding
<1>4. \A d \in Outstanding : turn'[d] = turn[d] /\ turn'[d] < turn'[c]
  BY <1>3 DEF Queue, TailIsLatest, Outstanding
<1>5. TailIsLatest'
  <2>1. \A d \in Outstanding : turn'[d] <= turn'[c]
    BY <1>3, <1>4, OutstandingFacts
  <2>2. turn'[c] <= turn'[c]
    BY <1>3
  <2> QED  BY <2>1, <2>2, <1>1, <1>3 DEF TailIsLatest
<1>6. InTurns'
  BY <1>1, <1>3, <1>4 DEF InTurns, Queue, Outstanding
<1>7. \A d \in Outstanding : call'[d] = call[d]
  BY DEF Outstanding
<1>8. FirstStarts'
  <2> SUFFICES ASSUME NEW x \in Outstanding', NEW y \in Outstanding',
                      Started(x)', y # x
               PROVE  turn'[x] < turn'[y]
    BY DEF FirstStarts
  <2>1. x \in Outstanding
    <3>1. CASE Outstanding = {}
      BY <3>1, <1>1
    <3>2. CASE Outstanding # {}
      BY <3>2, <1>1 DEF Started
    <3> QED  BY <3>1, <3>2
  <2>2. Started(x)
    BY <2>1, <1>7 DEF Started
  <2> QED  BY <1>1, <1>4, <2>1, <2>2 DEF Queue, FirstStarts
<1>9. WaitsForPrevious'
  <2> SUFFICES ASSUME NEW x \in Outstanding', NEW y \in Outstanding',
                      call'[x].phase = "queued", turn'[y] < turn'[x]
               PROVE  /\ call'[x].after \in Outstanding'
                      /\ turn'[call'[x].after] + 1 = turn'[x]
    BY DEF WaitsForPrevious
  <2>1. y \in Outstanding
    BY <1>1, <1>4, <1>3 DEF Outstanding
  <2>2. CASE x = c
    BY <2>1, <2>2, <1>1, <1>3, <1>4
  <2>3. CASE x # c
    <3>1. x \in Outstanding /\ call'[x] = call[x]
      BY <2>3, <1>1, <1>7
    <3>2. call[x].after \in Outstanding /\ turn[call[x].after] + 1 = turn[x]
      BY <2>1, <3>1, <1>4 DEF Queue, WaitsForPrevious
    <3> QED  BY <3>1, <3>2, <1>1, <1>4
  <2> QED  BY <2>2, <2>3
<1> QED  BY <1>2, <1>5, <1>6, <1>8, <1>9 DEF Queue

\* A call goes on: the one that has started, or one whose turn it is.
LEMMA QueueGo ==
  ASSUME TypeOK, TypeOK', Queue,
         NEW c \in Calls,
         Started(c) \/ (call[c].phase = "queued" /\ Settled(call[c].after)),
         Started(c)',
         \A d \in Calls : d # c => call'[d] = call[d],
         UNCHANGED <<queue, pendingTransitions, turn>>
  PROVE  Queue' /\ \A d \in Calls : Started(d) => d = c
<1>1. c \in Outstanding /\ Outstanding' = Outstanding
  BY DEF Outstanding, OutstandingPhases, Started
<1>2. \A d \in Outstanding : d # c => turn[c] < turn[d]
  <2>1. CASE Started(c)
    BY <2>1, <1>1 DEF Queue, FirstStarts
  <2>2. CASE ~Started(c)
    <3>1. call[c].after \notin Outstanding
      BY <2>2 DEF Settled, Outstanding, OutstandingPhases
    <3>2. \A d \in Outstanding : ~(turn[d] < turn[c])
      BY <2>2, <3>1, <1>1 DEF Queue, WaitsForPrevious
    <3> QED
      BY <3>2, <1>1, OutstandingFacts DEF Queue, InTurns
  <2> QED  BY <2>1, <2>2
<1>3. \A d \in Calls : Started(d) => d = c
  <2> SUFFICES ASSUME NEW d \in Calls, Started(d), d # c PROVE FALSE
    OBVIOUS
  <2>1. d \in Outstanding
    BY OutstandingFacts
  <2>2. turn[d] < turn[c] /\ turn[c] < turn[d]
    BY <2>1, <1>1, <1>2 DEF Queue, FirstStarts
  <2> QED  BY <2>2, OutstandingFacts
<1>4. FirstStarts'
  <2> SUFFICES ASSUME NEW x \in Outstanding', NEW y \in Outstanding',
                      Started(x)', y # x
               PROVE  turn[x] < turn[y]
    BY DEF FirstStarts
  <2>1. x = c
    BY <1>1, <1>3 DEF Started, Outstanding
  <2> QED  BY <2>1, <1>1, <1>2
<1>5. WaitsForPrevious'
  <2> SUFFICES ASSUME NEW x \in Outstanding, NEW y \in Outstanding,
                      call'[x].phase = "queued", turn[y] < turn[x]
               PROVE  /\ call'[x].after \in Outstanding
                      /\ turn[call'[x].after] + 1 = turn[x]
    BY <1>1 DEF WaitsForPrevious
  <2>1. x # c /\ x \in Calls
    BY DEF Started, Outstanding
  <2> QED  BY <2>1 DEF Queue, WaitsForPrevious
<1>6. Counted' /\ TailIsLatest' /\ InTurns'
  BY <1>1 DEF Queue, Counted, TailIsLatest, InTurns
<1> QED  BY <1>3, <1>4, <1>5, <1>6 DEF Queue

\* The first call is answered.
LEMMA QueueLeave ==
  ASSUME TypeOK, TypeOK', Queue, NEW c \in Calls, Settle(c)
  PROVE  Queue'
<1>1. /\ c \in Outstanding /\ Started(c)
      /\ Outstanding' = Outstanding \ {c}
      /\ \A d \in Calls : d # c => call'[d] = call[d]
      /\ pendingTransitions' = pendingTransitions - 1
      /\ UNCHANGED <<queue, turn>>
  BY DEF TypeOK, Settle, Outstanding, OutstandingPhases, Started
<1>2. \A d \in Outstanding : d # c => turn[c] < turn[d]
  BY <1>1 DEF Queue, FirstStarts
<1>3. Counted'
  BY <1>1, CountedFacts, FS_RemoveElement DEF Queue, Counted
<1>4. TailIsLatest'
  <2> SUFFICES ASSUME NEW d \in Outstanding' PROVE queue # c
    BY <1>1 DEF Queue, TailIsLatest
  <2>1. turn[c] < turn[d] /\ turn[d] <= turn[queue]
    BY <1>1, <1>2 DEF Queue, TailIsLatest
  <2> QED  BY <2>1, <1>1, OutstandingFacts
<1>5. InTurns'
  BY <1>1 DEF Queue, InTurns
<1>6. FirstStarts'
  BY <1>1 DEF Queue, FirstStarts, Started, Outstanding
<1>7. WaitsForPrevious'
  <2> SUFFICES ASSUME NEW x \in Outstanding', NEW y \in Outstanding',
                      call'[x].phase = "queued", turn[y] < turn[x]
               PROVE  /\ call'[x].after \in Outstanding'
                      /\ turn[call'[x].after] + 1 = turn[x]
    BY <1>1 DEF WaitsForPrevious
  <2>1. /\ x \in Calls /\ x # c /\ y # c
        /\ x \in Outstanding /\ y \in Outstanding /\ call'[x] = call[x]
    BY <1>1, OutstandingFacts
  <2>2. call[x].after \in Outstanding /\ turn[call[x].after] + 1 = turn[x]
    BY <2>1 DEF Queue, WaitsForPrevious
  <2>3. turn[c] < turn[y]
    BY <2>1, <1>2
  <2>4. call[x].after # c
    BY <2>1, <2>2, <2>3, <1>1, OutstandingFacts
  <2> QED  BY <2>1, <2>2, <2>4, <1>1
<1> QED  BY <1>3, <1>4, <1>5, <1>6, <1>7 DEF Queue

-----------------------------------------------------------------------------
(* The context: what the transitions do to the runs. *)

\* A transition begins when no other one drains.
LEMMA BeginContext ==
  ASSUME TypeOK, TypeOK', Context,
         NEW c \in Calls, NEW o \in Owners \cup {Nobody},
         NEW a \in Calls \cup {NoCall},
         Begin(c, o, a), UNCHANGED run,
         \A d \in Calls : call[d].phase # "draining"
  PROVE  Context'
<1>1. state # "transitioning"
  BY DEF Context, DrainIsVisible
<1>2. /\ call'[c].phase \in {"draining", "completed"}
      /\ \A d \in Calls : d # c => call'[d] = call[d]
  BY DEF Begin, TypeOK
<1>3. Busy' = Busy /\ Busy \subseteq activeRuns
  BY DEF Busy, activeRuns
<1>4. CASE ~hadMountedContext
  <2>1. state = "unmounted"
    BY <1>1, <1>4 DEF hadMountedContext, Context, DrainIsVisible, TypeOK
  <2>2. Busy = {}
    BY <2>1 DEF Context, WorkStaysWithItsOwner, Current, Busy
  <2>3. Mount(o) /\ call'[c].phase = "completed"
    BY <1>4 DEF Begin, TypeOK
  <2>4. \A d \in Calls : call'[d].phase # "draining"
    BY <1>2, <2>3
  <2>5. DrainIsVisible'
    BY <2>3, <2>4 DEF DrainIsVisible, Mount
  <2>6. IdleWhenStopping'
    BY <2>4 DEF IdleWhenStopping
  <2>7. WorkStaysWithItsOwner'
    BY <2>2, <1>3 DEF WorkStaysWithItsOwner, Busy
  <2> QED  BY <2>5, <2>6, <2>7 DEF Context
<1>5. CASE hadMountedContext
  <2>1. /\ state' = "transitioning" /\ call'[c].phase = "draining"
        /\ RequestAbort(activeRuns)
        /\ cleanup'[c] = IF activeRuns = {} THEN "stopping" ELSE "waiting"
    BY <1>5 DEF Begin, TypeOK
  <2>2. DrainIsVisible'
    BY <2>1 DEF DrainIsVisible
  <2>3. IdleWhenStopping'
    BY <2>1, <1>2, <1>3 DEF IdleWhenStopping
  <2>4. WorkStaysWithItsOwner'
    BY <2>1, <1>3 DEF WorkStaysWithItsOwner, RequestAbort, Busy
  <2> QED  BY <2>2, <2>3, <2>4 DEF Context
<1> QED  BY <1>4, <1>5

\* The only transition that drains ends.
LEMMA EndContext ==
  ASSUME TypeOK, TypeOK', Context,
         NEW c \in Calls, call[c].phase = "draining",
         call' = [call EXCEPT ![c].phase = "completed"],
         \A d \in Calls : Started(d) => d = c,
         \/ Block
         \/ cleanup[c] = "stopping" /\ Mount(call[c].owner),
         UNCHANGED <<run, abortRequested>>
  PROVE  Context'
<1>1. \A d \in Calls : call'[d].phase # "draining"
  BY DEF Started, TypeOK
<1>2. state = "transitioning" /\ state' # "transitioning"
  BY DEF Context, DrainIsVisible, Block, Mount
<1>3. DrainIsVisible'
  BY <1>1, <1>2 DEF DrainIsVisible, Block, Mount
<1>4. IdleWhenStopping'
  BY <1>1 DEF IdleWhenStopping
<1>5. WorkStaysWithItsOwner'
  <2>1. CASE Block
    BY <1>2, <2>1 DEF Block, Context, WorkStaysWithItsOwner, Current
  <2>2. CASE cleanup[c] = "stopping"
    BY <2>2 DEF Context, IdleWhenStopping, Busy, WorkStaysWithItsOwner
  <2> QED  BY <2>1, <2>2
<1> QED  BY <1>3, <1>4, <1>5 DEF Context

\* Nothing that decides about a transition changes, no run goes to work and
\* no request to stop is withdrawn.
LEMMA SameContext ==
  ASSUME TypeOK, Context,
         UNCHANGED <<state, activeOwnerId, epoch>>,
         \A d \in Calls : call'[d].phase = "draining"
                            <=> call[d].phase = "draining",
         \A d \in Calls : cleanup'[d] = "stopping" =>
                            cleanup[d] = "stopping" \/ Busy' = {},
         \A r \in Runs : run'[r].phase = "busy" =>
           run[r].phase = "busy" /\ run'[r].epoch = run[r].epoch,
         abortRequested \subseteq abortRequested'
  PROVE  Context'
<1>1. Busy' \subseteq Busy
  BY DEF Busy
<1>2. DrainIsVisible'
  BY DEF Context, DrainIsVisible
<1>3. IdleWhenStopping'
  BY <1>1 DEF Context, IdleWhenStopping
<1>4. WorkStaysWithItsOwner'
  BY DEF Context, WorkStaysWithItsOwner, Current
<1> QED  BY <1>2, <1>3, <1>4 DEF Context

\* Requests to stop, whoever makes them.
LEMMA AbortActivity ==
  ASSUME Activity, NEW S, RequestAbort(S),
         UNCHANGED <<run, attached, currentRuns, reserved>>
  PROVE  Activity'
  BY DEF Activity, RequestAbort, AbortsAreDelivered, LiveRunsCanBeStopped,
         ReservedMeansIdle, activeRuns

LEMMA SameActivity ==
  ASSUME Activity, UNCHANGED <<activity, reserved>>, activeRuns' = activeRuns
  PROVE  Activity'
  BY DEF Activity, activity, AbortsAreDelivered, LiveRunsCanBeStopped,
         ReservedMeansIdle

-----------------------------------------------------------------------------
(* One lemma for the calls, one for the runs. *)

LEMMA CallStep ==
  ASSUME TypeOK, TypeOK', Queue, Context, Activity, NEW c \in Calls,
         \/ \E o \in Owners \cup {Nobody} : Request(c, o)
         \/ RunQueued(c) \/ CleanupDone(c) \/ CleanupFailed(c)
         \/ Timeout(c) \/ Settle(c)
  PROVE  Queue' /\ Context' /\ Activity'
<1>1. ASSUME NEW o \in Owners \cup {Nobody}, RequestNoop(c, o)
      PROVE  Queue' /\ Context' /\ Activity'
  <2>1. \A d \in Calls : call'[d].phase \in OutstandingPhases \/ call[d].phase \in OutstandingPhases => call'[d] = call[d]
    BY <1>1 DEF RequestNoop, TypeOK, OutstandingPhases
  <2>2. Outstanding' = Outstanding
    BY <2>1 DEF Outstanding
  <2>3. Queue'
    BY <1>1, <2>1, <2>2
    DEF RequestNoop, Queue, Counted, TailIsLatest, InTurns, FirstStarts,
        WaitsForPrevious, Outstanding, Started
  <2>4. Context'
    BY <1>1, <2>1, SameContext
    DEF RequestNoop, OutstandingPhases, activity, TypeOK
  <2>5. Activity'
    BY <1>1, SameActivity DEF RequestNoop, activeRuns
  <2> QED  BY <2>3, <2>4, <2>5
<1>2. ASSUME NEW o \in Owners \cup {Nobody}, RequestFirst(c, o)
      PROVE  Queue' /\ Context' /\ Activity'
  <2>1. Outstanding = {}
    BY <1>2, CountedFacts DEF RequestFirst, Queue
  <2>2. /\ call'[c].phase \in OutstandingPhases
        /\ \A d \in Calls : d # c => call'[d] = call[d]
    BY <1>2 DEF RequestFirst, Begin, TypeOK, OutstandingPhases
  <2>3. Queue'
    BY <1>2, <2>1, <2>2, QueueJoin DEF RequestFirst
  <2>4. Context'
    BY <1>2, <2>1, BeginContext
    DEF RequestFirst, Outstanding, OutstandingPhases
  <2>5. Activity'
    <3>1. CASE RequestAbort(activeRuns)
      BY <1>2, <3>1, AbortActivity DEF RequestFirst
    <3>2. CASE UNCHANGED <<abortRequested, signalled>>
      BY <1>2, <3>2, SameActivity DEF RequestFirst, activity, activeRuns
    <3> QED  BY <1>2, <3>1, <3>2 DEF RequestFirst, Begin
  <2> QED  BY <2>3, <2>4, <2>5
<1>3. ASSUME NEW o \in Owners \cup {Nobody}, RequestLater(c, o)
      PROVE  Queue' /\ Context' /\ Activity'
  <2>1. Outstanding # {} /\ c \notin Outstanding
    BY <1>3, CountedFacts
    DEF RequestLater, Queue, Outstanding, OutstandingPhases, TypeOK
  <2>2. /\ call'[c].phase = "queued" /\ call'[c].after = queue
        /\ \A d \in Calls : d # c => call'[d] = call[d]
    BY <1>3 DEF RequestLater, TypeOK
  <2>3. Queue'
    BY <1>3, <2>1, <2>2, QueueJoin DEF RequestLater, OutstandingPhases
  <2>4. Context'
    BY <1>3, <2>2, SameContext DEF RequestLater, activity, TypeOK
  <2>5. Activity'
    BY <1>3, SameActivity DEF RequestLater, activeRuns
  <2> QED  BY <2>3, <2>4, <2>5
<1>4. ASSUME RunQueued(c)
      PROVE  Queue' /\ Context' /\ Activity'
  <2>1. /\ call[c].phase = "queued" /\ Settled(call[c].after)
        /\ Started(c)'
        /\ \A d \in Calls : d # c => call'[d] = call[d]
    BY <1>4 DEF RunQueued, Begin, Started, TypeOK
  <2>2. Queue' /\ \A d \in Calls : Started(d) => d = c
    BY <1>4, <2>1, QueueGo DEF RunQueued
  <2>3. \A d \in Calls : call[d].phase # "draining"
    BY <2>1, <2>2 DEF Started
  <2>4. CASE IsNoop(call[c].owner)
    <3>1. /\ call' = [call EXCEPT ![c].phase = "completed"]
          /\ UNCHANGED <<state, activeOwnerId, epoch, cleanup, run, activity,
                         reserved>>
      BY <1>4, <2>4 DEF RunQueued, Begin, activity
    <3>2. Context'
      BY <3>1, <2>3, SameContext DEF activity, TypeOK
    <3>3. Activity'
      BY <3>1, SameActivity DEF activeRuns
    <3> QED  BY <2>2, <3>2, <3>3
  <2>5. CASE ~IsNoop(call[c].owner)
    <3>1. /\ Begin(c, call[c].owner, call[c].after)
          /\ call[c].owner \in Owners \cup {Nobody}
          /\ call[c].after \in Calls \cup {NoCall}
          /\ UNCHANGED <<run, attached, currentRuns, reserved>>
      BY <1>4, <2>5 DEF RunQueued, TypeOK
    <3>2. Context'
      BY <3>1, <2>3, BeginContext
    <3>3. Activity'
      <4>1. CASE RequestAbort(activeRuns)
        BY <3>1, <4>1, AbortActivity
      <4>2. CASE UNCHANGED <<abortRequested, signalled>>
        BY <3>1, <4>2, SameActivity DEF activity, activeRuns
      <4> QED  BY <3>1, <4>1, <4>2 DEF Begin
    <3> QED  BY <2>2, <3>2, <3>3
  <2> QED  BY <2>4, <2>5
<1>5. ASSUME call[c].phase = "draining",
             call' = [call EXCEPT ![c].phase = "completed"],
             \/ Block
             \/ cleanup[c] = "stopping" /\ Mount(call[c].owner),
             UNCHANGED <<queue, pendingTransitions, turn, run, activity,
                         reserved>>
      PROVE  Queue' /\ Context' /\ Activity'
  <2>1. Started(c) /\ Started(c)'
    BY <1>5 DEF Started, TypeOK
  <2>2. \A d \in Calls : d # c => call'[d] = call[d]
    BY <1>5 DEF TypeOK
  <2>3. UNCHANGED <<queue, pendingTransitions, turn>>
    BY <1>5
  <2>4. Queue' /\ \A d \in Calls : Started(d) => d = c
    <3>1. Started(c) \/ (call[c].phase = "queued" /\ Settled(call[c].after))
      BY <1>5 DEF Started
    <3>2. Started(c)'
      BY <2>1
    <3> QED  BY <3>1, <3>2, <2>2, <2>3, QueueGo
  <2>5. Context'
    BY <1>5, <2>4, EndContext DEF activity
  <2>6. Activity'
    BY <1>5, SameActivity DEF activeRuns
  <2> QED  BY <2>4, <2>5, <2>6
<1>6. ASSUME UNCHANGED <<state, activeOwnerId, call, epoch, queue,
                         pendingTransitions, turn, run, activity, reserved>>,
             \A d \in Calls : cleanup'[d] = "stopping" =>
                              cleanup[d] = "stopping"
      PROVE  Queue' /\ Context' /\ Activity'
  <2>1. Queue'
    BY <1>6, QueueSame
  <2>2. Context'
    BY <1>6, SameContext DEF activity
  <2>3. Activity'
    BY <1>6, SameActivity DEF activeRuns
  <2> QED  BY <2>1, <2>2, <2>3
<1>7. ASSUME CleanupDone(c)
      PROVE  Queue' /\ Context' /\ Activity'
  BY <1>5, <1>6, <1>7 DEF CleanupDone, TypeOK
<1>8. ASSUME CleanupFailed(c)
      PROVE  Queue' /\ Context' /\ Activity'
  BY <1>5, <1>6, <1>8 DEF CleanupFailed, TypeOK
<1>9. ASSUME Timeout(c)
      PROVE  Queue' /\ Context' /\ Activity'
  BY <1>5, <1>9 DEF Timeout
<1>10. ASSUME Settle(c)
       PROVE  Queue' /\ Context' /\ Activity'
  <2>1. Queue'
    BY <1>10, QueueLeave
  <2>2. Context'
    BY <1>10, SameContext DEF Settle, activity, TypeOK
  <2>3. Activity'
    BY <1>10, SameActivity DEF Settle, activeRuns
  <2> QED  BY <2>1, <2>2, <2>3
<1> QED
  BY <1>1, <1>2, <1>3, <1>4, <1>7, <1>8, <1>9, <1>10 DEF Request

LEMMA RunStep ==
  ASSUME TypeOK, TypeOK', Queue, Context, Activity, NEW r \in Runs,
         Ask(r) \/ Lease(r) \/ BeginRun(r) \/ Refuse(r) \/ Enter(r)
           \/ Pause(r) \/ AttachAbort(r) \/ Finish(r)
  PROVE  Queue' /\ Context' /\ Activity'
<1>1. Queue'
  <2>1. UNCHANGED coordinator
    BY DEF Ask, Lease, BeginRun, Refuse, Enter, Pause, AttachAbort, Finish
  <2> QED  BY <2>1, QueueSame DEF coordinator
<1>2. ASSUME Ask(r) \/ Lease(r) \/ Refuse(r) \/ Pause(r)
      PROVE  Context' /\ Activity'
  <2>1. /\ UNCHANGED <<coordinator, cleanup, activity, reserved>>
        /\ \A s \in Runs : s # r => run'[s] = run[s]
    BY <1>2 DEF Ask, Lease, Refuse, Pause, TypeOK
  <2>2. /\ run'[r].phase # "busy"
        /\ run'[r].phase = "open" <=> run[r].phase \in {"open", "busy"}
    <3>1. CASE Ask(r)     BY <3>1 DEF Ask, TypeOK
    <3>2. CASE Lease(r)   BY <3>2 DEF Lease, TypeOK
    <3>3. CASE Refuse(r)  BY <3>3 DEF Refuse, TypeOK
    <3>4. CASE Pause(r)   BY <3>4 DEF Pause, TypeOK
    <3> QED  BY <1>2, <3>1, <3>2, <3>3, <3>4
  <2>3. Context'
    BY <2>1, <2>2, SameContext DEF coordinator, activity
  <2>4. activeRuns' = activeRuns
    BY <2>1, <2>2 DEF activeRuns
  <2> QED  BY <2>1, <2>3, <2>4, SameActivity
<1>3. ASSUME BeginRun(r) PROVE Context' /\ Activity'
  <2>1. /\ \A s \in Runs : s # r => run'[s] = run[s]
        /\ run[r].phase = "leased" /\ run'[r].phase = "open"
        /\ Conversation[r] \in Conversations
    BY <1>3, RunsAssumption DEF BeginRun, TypeOK
  <2>2. Context'
    BY <1>3, <2>1, SameContext DEF BeginRun, coordinator, RequestAbort
  <2>3. activeRuns' = activeRuns \cup {r}
    BY <2>1 DEF activeRuns
  <2>4. AbortsAreDelivered'
    BY <1>3 DEF BeginRun, RequestAbort, Activity, AbortsAreDelivered
  <2>5. ReservedMeansIdle'
    BY <1>3 DEF BeginRun, MayBegin, ReservedMeansIdle
  <2>6. LiveRunsCanBeStopped'
    <3> SUFFICES ASSUME NEW s \in activeRuns' \ abortRequested'
                 PROVE  currentRuns'[Conversation[s]] = s
      BY DEF LiveRunsCanBeStopped
    <3>1. /\ s \in Runs
          /\ currentRuns' = [currentRuns EXCEPT ![Conversation[r]] = r]
          /\ abortRequested' =
               abortRequested \cup ({currentRuns[Conversation[r]]} \ {NoRun})
      BY <1>3 DEF BeginRun, RequestAbort, activeRuns
    <3>2. CASE s = r
      BY <3>1, <3>2, <2>1 DEF TypeOK
    <3>3. CASE s # r
      <4>1. currentRuns[Conversation[s]] = s
        BY <3>1, <3>3, <2>3 DEF Activity, LiveRunsCanBeStopped
      <4>2. Conversation[s] # Conversation[r]
        BY <4>1, <3>1, RunsAssumption
      <4> QED  BY <4>1, <4>2, <3>1 DEF TypeOK
    <3> QED  BY <3>2, <3>3
  <2> QED  BY <2>2, <2>4, <2>5, <2>6 DEF Activity
<1>4. ASSUME Enter(r) PROVE Context' /\ Activity'
  <2>1. /\ \A s \in Runs : s # r => run'[s] = run[s]
        /\ run[r].phase = "open" /\ run'[r].phase = "busy"
        /\ run'[r].epoch = run[r].epoch
        /\ UNCHANGED <<coordinator, cleanup, activity, reserved>>
    BY <1>4 DEF Enter, TypeOK
  <2>2. state = "ready" /\ epoch = run[r].epoch
    BY <1>4 DEF Enter, Current
  <2>3. DrainIsVisible' /\ IdleWhenStopping'
    BY <2>1, <2>2
    DEF coordinator, Context, DrainIsVisible, IdleWhenStopping
  <2>4. WorkStaysWithItsOwner'
    BY <2>1, <2>2
    DEF coordinator, activity, Context, WorkStaysWithItsOwner, Current
  <2>5. activeRuns' = activeRuns
    BY <2>1 DEF activeRuns
  <2> QED  BY <2>1, <2>3, <2>4, <2>5, SameActivity DEF Context
<1>5. ASSUME AttachAbort(r) PROVE Context' /\ Activity'
  <2>1. Context'
    BY <1>5, SameContext DEF AttachAbort, coordinator
  <2>2. Activity'
    BY <1>5 DEF AttachAbort, Activity, AbortsAreDelivered, activeRuns,
                LiveRunsCanBeStopped, ReservedMeansIdle
  <2> QED  BY <2>1, <2>2
<1>6. ASSUME Finish(r) PROVE Context' /\ Activity'
  <2>1. /\ \A s \in Runs : s # r => run'[s] = run[s]
        /\ run'[r].phase = "finished" /\ r \in activeRuns
        /\ UNCHANGED <<coordinator, abortRequested, attached, signalled,
                       reserved>>
    BY <1>6 DEF Finish, Release, TypeOK
  <2>2. activeRuns' = activeRuns \ {r}
    BY <2>1 DEF activeRuns
  <2>3. Context'
    <3>1. Busy' \subseteq activeRuns'
      BY DEF Busy, activeRuns
    <3>2. \A d \in Calls : cleanup'[d] = "stopping" =>
                            cleanup[d] = "stopping" \/ Busy' = {}
      BY <1>6, <2>2, <3>1 DEF Finish, Release
    <3>3. \A s \in Runs : run'[s].phase = "busy" =>
            run[s].phase = "busy" /\ run'[s].epoch = run[s].epoch
      BY <2>1
    <3> QED  BY <2>1, <3>2, <3>3, SameContext DEF coordinator
  <2>4. Activity'
    <3>1. AbortsAreDelivered'
      BY <2>1 DEF Activity, AbortsAreDelivered
    <3>2. ReservedMeansIdle'
      BY <2>1, <2>2 DEF Activity, ReservedMeansIdle
    <3>3. LiveRunsCanBeStopped'
      <4> SUFFICES ASSUME NEW s \in activeRuns' \ abortRequested'
                   PROVE  currentRuns'[Conversation[s]] = s
        BY DEF LiveRunsCanBeStopped
      <4>1. /\ s \in activeRuns \ abortRequested /\ s # r /\ s \in Runs
            /\ Conversation[s] \in Conversations
        BY <2>1, <2>2, RunsAssumption DEF activeRuns
      <4>2. currentRuns[Conversation[s]] = s
        BY <4>1 DEF Activity, LiveRunsCanBeStopped
      <4> QED  BY <1>6, <4>1, <4>2 DEF Finish, Release
    <3> QED  BY <3>1, <3>2, <3>3 DEF Activity
  <2> QED  BY <2>3, <2>4
<1> QED  BY <1>1, <1>2, <1>3, <1>4, <1>5, <1>6

-----------------------------------------------------------------------------
(* The theorems *)

LEMMA Initially == Init => IndInv
<1> SUFFICES ASSUME Init PROVE IndInv
  OBVIOUS
<1>1. TypeOK
  BY TypeInit
<1>2. Outstanding = {} /\ Busy = {} /\ activeRuns = {}
  BY DEF Init, Outstanding, OutstandingPhases, Busy, activeRuns
<1>3. Queue
  BY <1>2, FS_EmptySet
  DEF Init, Queue, Counted, TailIsLatest, InTurns, FirstStarts,
      WaitsForPrevious
<1>4. Context
  BY <1>2 DEF Init, Context, DrainIsVisible, IdleWhenStopping,
              WorkStaysWithItsOwner
<1>5. Activity
  BY <1>2 DEF Init, Activity, AbortsAreDelivered, LiveRunsCanBeStopped,
              ReservedMeansIdle
<1> QED  BY <1>1, <1>3, <1>4, <1>5 DEF IndInv

LEMMA Inductive == IndInv /\ [Next]_vars => IndInv'
<1> SUFFICES ASSUME IndInv, [Next]_vars PROVE IndInv'
  OBVIOUS
<1> USE DEF IndInv
<1>1. CASE UNCHANGED vars
  <2>1. TypeOK'
    BY <1>1 DEF vars, coordinator, activity, TypeOK
  <2>2. Queue'
    BY <1>1, QueueSame DEF vars, coordinator
  <2>3. Context'
    BY <1>1, SameContext DEF vars, coordinator, activity
  <2>4. Activity'
    BY <1>1, SameActivity DEF vars, activeRuns
  <2> QED  BY <2>1, <2>2, <2>3, <2>4
<1>2. CASE Next
  <2>1. TypeOK'
    BY <1>2, TypeStep DEF Queue
  <2>2. ASSUME UNCHANGED <<coordinator, cleanup, run>>,
               abortRequested \subseteq abortRequested'
        PROVE  Queue' /\ Context'
    BY <2>2, QueueSame, SameContext DEF coordinator
  <2>3. ASSUME NEW id \in Conversations, AbortChat(id) PROVE IndInv'
    <3>1. Activity'
      BY <2>3, AbortActivity DEF AbortChat
    <3> QED  BY <2>1, <2>2, <2>3, <3>1 DEF AbortChat, RequestAbort
  <2>4. ASSUME AbortEverything PROVE IndInv'
    <3>1. Activity'
      BY <2>4, AbortActivity DEF AbortEverything
    <3> QED  BY <2>1, <2>2, <2>4, <3>1 DEF AbortEverything, RequestAbort
  <2>5. ASSUME NEW kind \in {"transition", "snapshot"}, Reserve(kind)
        PROVE  IndInv'
    <3>1. Activity'
      BY <2>5 DEF Reserve, Activity, activity, AbortsAreDelivered,
                  LiveRunsCanBeStopped, ReservedMeansIdle, activeRuns
    <3> QED  BY <2>1, <2>2, <2>5, <3>1 DEF Reserve, activity
  <2>6. ASSUME Unreserve PROVE IndInv'
    <3>1. Activity'
      BY <2>6 DEF Unreserve, Activity, activity, AbortsAreDelivered,
                  LiveRunsCanBeStopped, ReservedMeansIdle, activeRuns
    <3> QED  BY <2>1, <2>2, <2>6, <3>1 DEF Unreserve, activity
  <2>7. ASSUME NEW c \in Calls,
               \/ \E o \in Owners \cup {Nobody} : Request(c, o)
               \/ RunQueued(c) \/ CleanupDone(c) \/ CleanupFailed(c)
               \/ Timeout(c) \/ Settle(c)
        PROVE  IndInv'
    BY <2>1, <2>7, CallStep
  <2>8. ASSUME NEW r \in Runs,
               Ask(r) \/ Lease(r) \/ BeginRun(r) \/ Refuse(r) \/ Enter(r)
                 \/ Pause(r) \/ AttachAbort(r) \/ Finish(r)
        PROVE  IndInv'
    BY <2>1, <2>8, RunStep
  <2> QED  BY <1>2, <2>3, <2>4, <2>5, <2>6, <2>7, <2>8 DEF Next
<1> QED  BY <1>1, <1>2

LEMMA Invariance == Spec => []IndInv
<1>1. Init => IndInv
  BY Initially
<1>2. IndInv /\ [Next]_vars => IndInv'
  BY Inductive
<1> QED  BY <1>1, <1>2, PTL DEF Spec

\* Every variable keeps its type (all of agentera-connection-owner.ts and
\* runtime-activity.ts).
THEOREM TypeCorrect == Spec => []TypeOK
<1>1. IndInv => TypeOK
  BY DEF IndInv
<1> QED  BY <1>1, Invariance, PTL

\* A run is never at work in the context of another owner than the one it was
\* leased from (transitionTo, acquireLease, assertCurrent, waitForIdle).
THEOREM OwnWork == Spec => []WorkStaysWithItsOwner
<1>1. IndInv => WorkStaysWithItsOwner
  BY DEF IndInv, Context
<1> QED  BY <1>1, Invariance, PTL

\* A backup or a restart never overlaps a run (beginRun, beginSnapshot,
\* beginTransition).
THEOREM Reservations == Spec => []ReservedMeansIdle
<1>1. IndInv => ReservedMeansIdle
  BY DEF IndInv, Activity
<1> QED  BY <1>1, Invariance, PTL

\* A request to stop has reached every run that has somebody to stop, in
\* whatever order runs begin, attach and end (requestAbort, attachAbort).
THEOREM Aborts == Spec => []AbortsAreDelivered
<1>1. IndInv => AbortsAreDelivered
  BY DEF IndInv, Activity
<1> QED  BY <1>1, Invariance, PTL

\* A run that goes on is on the books until it has finished, so that a drain
\* can still stop it (beginRun, finish).
THEOREM LiveRuns == Spec => []LiveRunsCanBeStopped
<1>1. IndInv => LiveRunsCanBeStopped
  BY DEF IndInv, Activity
<1> QED  BY <1>1, Invariance, PTL

LEMMA MountStep ==
  ASSUME IndInv, [Next]_vars, state # "ready", state' = "ready"
  PROVE  /\ Busy = {} /\ Busy' = {} /\ activeOwnerId' \in Owners
         /\ \/ state = "unmounted"
            \/ \E c \in Calls : cleanup[c] = "stopping" /\ cleanup'[c] = "done"
<1>1. PICK c \in Calls :
        \/ \E o \in Owners \cup {Nobody} : RequestFirst(c, o)
        \/ RunQueued(c) \/ CleanupDone(c)
  BY DEF Next, Request, RequestNoop, RequestLater, CleanupFailed, Timeout,
         Block, Settle, Ask, Lease, BeginRun, Refuse, Enter, Pause,
         AttachAbort, Finish, AbortChat, AbortEverything, Reserve, Unreserve,
         vars, coordinator
<1>2. UNCHANGED run
  BY <1>1 DEF RequestFirst, RunQueued, CleanupDone
<1>3. CASE CleanupDone(c)
  <2>1. /\ call[c].phase = "draining" /\ cleanup[c] = "stopping"
        /\ cleanup'[c] = "done" /\ Mount(call[c].owner)
    BY <1>3 DEF CleanupDone, IndInv, TypeOK
  <2>2. Busy = {}
    BY <2>1 DEF IndInv, Context, IdleWhenStopping
  <2> QED
    BY <1>2, <2>1, <2>2 DEF Mount, Busy, IndInv, TypeOK
<1>4. ASSUME NEW o \in Owners \cup {Nobody}, NEW a, Begin(c, o, a),
             \A d \in Calls : call[d].phase # "draining"
      PROVE  /\ Busy = {} /\ Busy' = {} /\ activeOwnerId' \in Owners
             /\ state = "unmounted"
  <2>1. ~hadMountedContext /\ Mount(o)
    BY <1>4 DEF Begin
  <2>2. state = "unmounted"
    BY <1>4, <2>1 DEF hadMountedContext, IndInv, Context, DrainIsVisible,
                      TypeOK
  <2>3. Busy = {}
    BY <2>2 DEF IndInv, Context, WorkStaysWithItsOwner, Current, Busy
  <2> QED  BY <1>2, <2>1, <2>2, <2>3 DEF Mount, Busy
<1>5. ASSUME NEW o \in Owners \cup {Nobody}, RequestFirst(c, o)
      PROVE  \A d \in Calls : call[d].phase # "draining"
  BY <1>5, CountedFacts
  DEF RequestFirst, IndInv, Queue, Outstanding, OutstandingPhases
<1>6. ASSUME RunQueued(c)
      PROVE  \A d \in Calls : call[d].phase # "draining"
  <2> SUFFICES ASSUME NEW d \in Calls, call[d].phase = "draining"
               PROVE  FALSE
    OBVIOUS
  <2>1. /\ c \in Outstanding /\ d \in Outstanding /\ Started(d) /\ c # d
        /\ call[c].phase = "queued" /\ call[c].after \notin Outstanding
    BY <1>6 DEF RunQueued, Settled, Outstanding, OutstandingPhases, Started
  <2>2. turn[d] < turn[c]
    BY <2>1 DEF IndInv, Queue, FirstStarts
  <2> QED  BY <2>1, <2>2 DEF IndInv, Queue, WaitsForPrevious
<1>7. CASE RunQueued(c)
  <2>1. Begin(c, call[c].owner, call[c].after)
    BY <1>7 DEF RunQueued
  <2>2. call[c].owner \in Owners \cup {Nobody}
    BY DEF IndInv, TypeOK
  <2> QED  BY <1>4, <1>6, <1>7, <2>1, <2>2
<1>8. CASE \E o \in Owners \cup {Nobody} : RequestFirst(c, o)
  BY <1>4, <1>5, <1>8 DEF RequestFirst
<1> QED  BY <1>1, <1>3, <1>7, <1>8

\* An owner is mounted on an unused context or after a cleanup that succeeded
\* (hadMountedContext and completeTransition).
THEOREM FailsClosed == Spec => MountedAfterCleanup
<1>1. IndInv /\ [Next]_vars =>
        [(state # "ready" /\ state' = "ready") =>
           \/ state = "unmounted"
           \/ \E c \in Calls : cleanup[c] = "stopping" /\ cleanup'[c] = "done"]_vars
  BY MountStep
<1> QED  BY <1>1, Invariance, PTL DEF Spec, MountedAfterCleanup

-----------------------------------------------------------------------------
(* The owner switch implements OwnerMount. *)

owner == IF state = "ready" THEN activeOwnerId ELSE Nobody

LEMMA MountedInit == Init => Mounted!Init
  BY DEF Init, Mounted!Init

LEMMA MountedStep == IndInv /\ [Next]_vars => [Mounted!Next]_(Mounted!vars)
<1> SUFFICES ASSUME IndInv, [Next]_vars
             PROVE  Mounted!Next \/ UNCHANGED <<owner, Busy>>
  BY DEF Mounted!vars, owner, Busy
<1>0. /\ owner = Nobody <=> state # "ready"
      /\ state = "ready" => activeOwnerId \in Owners
      /\ Busy \subseteq Runs
  BY DEF IndInv, TypeOK, Context, DrainIsVisible, owner, Busy
<1>1. CASE UNCHANGED vars
  BY <1>1 DEF vars, coordinator, owner, Busy
<1>2. ASSUME UNCHANGED <<state, activeOwnerId>>, Busy' = Busy
      PROVE  UNCHANGED <<owner, Busy>>
  BY <1>2 DEF owner
<1>3. ASSUME state # "ready", state' # "ready", UNCHANGED run
      PROVE  UNCHANGED <<owner, Busy>>
  BY <1>3 DEF owner, Busy
<1>4. ASSUME state = "ready", state' # "ready", UNCHANGED run
      PROVE  Mounted!Next
  BY <1>0, <1>4, OwnersAssumption DEF Mounted!Next, Mounted!Close, owner, Busy
<1>5. ASSUME state # "ready", state' = "ready"
      PROVE  Mounted!Next
  <2>1. Busy = {} /\ Busy' = {} /\ activeOwnerId' \in Owners
    BY <1>5, MountStep
  <2>2. Mounted!Open(activeOwnerId')
    BY <1>5, <2>1 DEF Mounted!Open, Busy
  <2> QED  BY <2>1, <2>2 DEF Mounted!Next
<1>6. ASSUME NEW r \in Runs, Enter(r) PROVE Mounted!Next
  <2>1. state = "ready" /\ UNCHANGED <<state, activeOwnerId>>
    BY <1>6 DEF Enter, Current, coordinator
  <2>2. Busy' = Busy \cup {r}
    BY <1>6 DEF Enter, Busy, IndInv, TypeOK
  <2>3. Mounted!Join(r)
    BY <1>0, <2>1, <2>2, OwnersAssumption DEF Mounted!Join, owner, Busy
  <2> QED  BY <2>3 DEF Mounted!Next
<1>7. ASSUME NEW r \in Runs, Pause(r) \/ Finish(r) PROVE Mounted!Next
  <2>1. UNCHANGED <<state, activeOwnerId>>
    BY <1>7 DEF Pause, Finish, coordinator
  <2>2. Busy' = Busy \ {r}
    BY <1>7 DEF Pause, Finish, Release, Busy, IndInv, TypeOK
  <2>3. Mounted!Leave(r)
    BY <2>1, <2>2 DEF Mounted!Leave, Busy
  <2> QED  BY <2>3 DEF Mounted!Next
<1>8. ASSUME NEW r \in Runs,
             Ask(r) \/ Lease(r) \/ BeginRun(r) \/ Refuse(r) \/ AttachAbort(r)
      PROVE  UNCHANGED <<owner, Busy>>
  <2>1. UNCHANGED <<state, activeOwnerId>>
    BY <1>8 DEF Ask, Lease, BeginRun, Refuse, AttachAbort, coordinator
  <2>2. Busy' = Busy
    BY <1>8 DEF Ask, Lease, BeginRun, Refuse, AttachAbort, Busy, IndInv, TypeOK
  <2> QED  BY <1>2, <2>1, <2>2
<1>9. ASSUME NEW c \in Calls, NEW o \in Owners \cup {Nobody}, Request(c, o)
      PROVE  \/ UNCHANGED <<state, activeOwnerId, run>>
             \/ UNCHANGED run /\ (state # "ready" \/ state' # "ready")
  BY <1>9 DEF Request, RequestNoop, RequestFirst, RequestLater, Begin,
              hadMountedContext, IndInv, Context, DrainIsVisible
<1>10. ASSUME NEW c \in Calls,
              RunQueued(c) \/ CleanupDone(c) \/ CleanupFailed(c)
                \/ Timeout(c) \/ Settle(c)
       PROVE  \/ UNCHANGED <<state, activeOwnerId, run>>
              \/ UNCHANGED run /\ (state # "ready" \/ state' # "ready")
  BY <1>10 DEF RunQueued, CleanupDone, CleanupFailed, Timeout, Settle, Begin,
               Block, hadMountedContext, IndInv, Context, DrainIsVisible
<1>11. ASSUME \/ UNCHANGED <<state, activeOwnerId, run>>
              \/ UNCHANGED run /\ (state # "ready" \/ state' # "ready")
       PROVE  Mounted!Next \/ UNCHANGED <<owner, Busy>>
  <2>1. CASE UNCHANGED <<state, activeOwnerId, run>>
    BY <2>1 DEF owner, Busy
  <2> QED  BY <1>3, <1>4, <1>5, <1>11, <2>1
<1>12. ASSUME \/ \E id \in Conversations : AbortChat(id)
              \/ AbortEverything
              \/ \E kind \in {"transition", "snapshot"} : Reserve(kind)
              \/ Unreserve
       PROVE  UNCHANGED <<owner, Busy>>
  BY <1>12 DEF AbortChat, AbortEverything, Reserve, Unreserve, coordinator,
               owner, Busy
<1> QED
  BY <1>1, <1>6, <1>7, <1>8, <1>9, <1>10, <1>11, <1>12 DEF Next

\* The coordinator, the activity leases and the assertions of the handlers
\* together give the context to one owner at a time.
THEOREM Implementation == Spec => ImplementsOwnerMount
<1>1. Init => Mounted!Init
  BY MountedInit
<1>2. IndInv /\ [Next]_vars => [Mounted!Next]_(Mounted!vars)
  BY MountedStep
<1> QED
  BY <1>1, <1>2, Invariance, PTL DEF Spec, ImplementsOwnerMount, Mounted!Spec
=============================================================================
