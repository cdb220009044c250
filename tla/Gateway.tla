------------------------------- MODULE Gateway -------------------------------
(***************************************************************************)
(* The gateway processes of one profile and the app that owns them         *)
(* (src/main/hermes.ts).  The app spawns a wrapper, which forks a listener *)
(* and exits, or goes on as the listener itself; the listener publishes    *)
(* its pid in a file.  From then on the app has to know its own process by *)
(* that pid and by the evidence of who has it (creation time and image),   *)
(* as pids are used again.  The ledger (GatewayLedger) keeps what is known *)
(* across crashes of the app.                                              *)
(*                                                                         *)
(* A process is its evidence here: os says which one has a pid.  A step is *)
(* what happens between two awaits; a function that writes the ledger      *)
(* twice has a step per write, and nothing of the app comes in between.    *)
(***************************************************************************)
EXTENDS FiniteSets, GatewayLedger

CONSTANTS
  Pids, NoPid,   \* process ids
  MaxLaunches,   \* launches are numbered up to it
  Budgets        \* the functions that may be called, once each, and how many
                 \* launches and troubles there may be

\* The functions that wait for something: startGatewayWithReadiness,
\* startGatewayWithRecovery, restartGateway and stopAeraOwnedGateway.
Flows == {"ready", "recovery", "restart", "drain"}

ASSUME PidsAssumption == NoPid \notin Pids
ASSUME BudgetsAssumption ==
  /\ MaxLaunches \in Nat
  /\ Budgets \subseteq
       [calls : SUBSET Flows, launches : 0..MaxLaunches, troubles : Nat]

VARIABLES
  os,         \* who has each pid, and how far that process has come
  pidfile,    \* gateway.pid
  blind,      \* whether evidence cannot be read for now
  cold,       \* whether the app has yet to reconcile the ledger
  child,      \* gatewayProcesses: the wrapper the app tracks
  retained,   \* launches kept by retainFailedSpawnOwnershipUntilExit
  closing,    \* close events of wrappers that have exited
  term,       \* gatewayOwnershipTerminationTimers
  adoption,   \* gatewayPidAdoptionTimers, and a tick under way
  flow,       \* where each function is, with its local variables
  launches,   \* launches so far
  first,      \* launches before this run of the app
  left,       \* what is left of the budget
  foul        \* history: a signal has reached a process of somebody else

world == <<os, pidfile, blind>>
timers == <<term, adoption>>
memory == <<child, retained, closing, timers>>
history == <<launches, first, left, foul>>
vars == <<ledger, world, cold, memory, flow, history>>

\* Launches are numbered from 1; 0 is no launch.
Launch == 0..MaxLaunches

Nobody == [role |-> "nobody", launch |-> 0]
Legacy == [role |-> "legacy", launch |-> 0]   \* older than the ledger
Foreign == [role |-> "foreign", launch |-> 0]
Process(role, l) == [role |-> role, launch |-> l]
Processes ==
  {Nobody, Legacy, Foreign} \union
    {Process(role, l) : role \in {"wrapper", "listener"}, l \in Launch}

Pid == Pids \union {NoPid}

\* GatewayLaunchOwnershipRecord.  A launch number above first is one of this
\* desktop instance.
Entries ==
  [launch : Launch, pre : Pid, wrapper : Pid, wproof : Processes,
   listener : Pid, lproof : Processes]

NoEntry == [launch |-> 0, pre |-> NoPid, wrapper |-> NoPid, wproof |-> Nobody,
            listener |-> NoPid, lproof |-> Nobody]

\* What the ledger holds (the profile's entry).
ASSUME ValueAssumption == Value = Entries /\ Empty = NoEntry

NoChild == [launch |-> 0, pid |-> NoPid]
NoTimer == [launch |-> 0, force |-> FALSE, proc |-> NoPid]
NoTick == [launch |-> 0, probing |-> FALSE, evidence |-> Nobody]

\* A wrapper forks or serves itself; a listener serves once it wrote its pid.
Stages == {"new", "forked", "serving"}
New(who) == [who |-> who, stage |-> "new"]

Idle == [pc |-> "idle", launch |-> 0, proc |-> NoPid, pre |-> NoPid,
         candidate |-> NoPid, evidence |-> Nobody, of |-> 0, kills |-> {},
         ready |-> FALSE, clean |-> FALSE, retried |-> FALSE]

-----------------------------------------------------------------------------
(* Evidence                                                                *)

At(p) == IF p = NoPid THEN Nobody ELSE os[p].who

Alive(p) == At(p) # Nobody

Observed(p) == IF blind THEN Nobody ELSE At(p)

ChildAlive(c) == c.pid # NoPid /\ At(c.pid) = Process("wrapper", c.launch)

Target(p, proof) == [pid |-> p, proof |-> proof]

(* wrapperTarget: evidence for a listener with the same pid counts too.    *)
Wrapper(e) ==
  Target(e.wrapper, IF e.wproof = Nobody /\ e.listener = e.wrapper
                      THEN e.lproof ELSE e.wproof)

(* listenerTarget: without an adopted listener, the wrapper if gateway.pid *)
(* names it.                                                               *)
Listener(e) ==
  IF e.listener # NoPid THEN Target(e.listener, e.lproof)
  ELSE IF pidfile = e.wrapper THEN Target(e.wrapper, e.wproof)
  ELSE Target(NoPid, Nobody)

\* Altered: whoever has the pid is taken for the process that had it.
Status_PidIsEnough(t) ==
  IF ~Alive(t.pid) THEN "dead"
  ELSE IF t.proof = Nobody \/ blind THEN "unknown"
  ELSE "alive"

\* inspectOwnedTarget
Status(t) ==
  IF ~Alive(t.pid) THEN "dead"
  ELSE IF t.proof = Nobody \/ blind THEN "unknown"
  ELSE IF At(t.pid) = t.proof THEN "alive" ELSE "mismatch"

\* isApiServerReady may say yes.
Serving == At(pidfile) = Legacy \/ \E p \in Pids : os[p].stage = "serving"

\* isGatewayRunning
Running ==
  IF child # NoChild
    THEN IF state = NoEntry THEN ChildAlive(child) /\ ~blind
         ELSE state.wrapper = child.pid /\ Status(Wrapper(state)) = "alive"
    ELSE IF state = NoEntry THEN Observed(pidfile) # Nobody
         ELSE /\ pidfile # NoPid /\ Listener(state).pid = pidfile
              /\ Status(Listener(state)) = "alive"

-----------------------------------------------------------------------------
(* Parts of steps                                                          *)

\* A write of the ledger, which may fail while the budget lasts.
Spend(v, budget) ==
  \/ /\ files.pending # Torn
     /\ Ends(v, Undisturbed(v))
     /\ left' = budget
  \/ \E r \in IF budget.troubles = 0 /\ files.pending # Torn THEN {}
               ELSE Persist(files, v) \ {Undisturbed(v)} :
       /\ Ends(v, r)
       /\ left' = IF files.pending = Torn THEN budget
                   ELSE [budget EXCEPT !.troubles = @ - 1]

Update(v) == Spend(v, left)

\* The last write that was not all right has not been overcome.
Disturbed == loadIssue \/ asked # {}

NoUpdate == UNCHANGED <<ledger, left>>

\* clearPidFileBestEffort
ClearPidFile(p) == pidfile' = IF pidfile = p THEN NoPid ELSE pidfile

(* clearCompletedGatewayOwnership: the pid file is removed if it names the *)
(* listener of the record, or the wrapper when none was adopted.           *)
ClearRecord ==
  /\ ClearPidFile(IF state.listener # NoPid THEN state.listener ELSE state.wrapper)
  /\ Update(NoEntry)

\* Signals reach the processes that have the pids.
Signals(S) == foul' = (foul \/ \E p \in S : At(p) = Foreign)

CloseEvents(S, clean) ==
  {[launch |-> At(p).launch, pid |-> p, clean |-> clean] :
     p \in {q \in S : At(q).role = "wrapper" /\ At(q).launch > first}}

\* A listener may still be in the process group, or the tree, of its wrapper.
Children(S) ==
  {q \in Pids : At(q).role = "listener"
                  /\ \E p \in S : At(p) = Process("wrapper", At(q).launch)}

Ended(S) ==
  /\ \E T \in SUBSET Children(S) :
       os' = [p \in Pids |-> IF p \in S \union T THEN New(Nobody) ELSE os[p]]
  /\ closing' = closing \union CloseEvents(S, FALSE)

Killed(S) == Ended(S) /\ Signals(S)

\* Altered: a dead wrapper is enough.
Completed_ByWrapper(l) ==
  /\ state.launch = l /\ l # 0
  /\ Status(Wrapper(state)) = "dead"

\* Altered: a dead listener is enough.
Completed_ByListener(l) ==
  /\ state.launch = l /\ l # 0
  /\ Status(Listener(state)) = "dead"

Completed(l) ==
  /\ state.launch = l /\ l # 0
  /\ Status(Wrapper(state)) = "dead"
  /\ Status(Listener(state)) = "dead"

\* gateway.pid names a live process that the record does not know.
Replaced ==
  /\ pidfile \notin {NoPid, state.pre, state.wrapper, state.listener}
  /\ Alive(pidfile)

(* reconcileCompletedGatewayOwnership: the record is cleared when all that *)
(* it names is dead, unless the wrapper has just exited and the listener   *)
(* has yet to write gateway.pid.                                           *)
Reconcile(l, clean) ==
  LET handoff == clean /\ state.listener = NoPid /\ pidfile = NoPid
  IN  \/ /\ Completed(l) /\ handoff
         /\ adoption' = [NoTick EXCEPT !.launch = l]
         /\ NoUpdate /\ UNCHANGED pidfile
      \/ /\ Completed(l) /\ ~handoff /\ ~Replaced
         /\ ClearRecord /\ UNCHANGED adoption
      \/ /\ ~Completed(l) \/ (~handoff /\ Replaced)
         /\ NoUpdate /\ UNCHANGED <<pidfile, adoption>>

(* adoptGatewayPidFromFile: the process that gateway.pid names now, with   *)
(* evidence that was read before.                                          *)
Adoptable(e, evidence) ==
  /\ e.wrapper # NoPid /\ e.launch > first
  /\ pidfile \notin {NoPid, e.pre} /\ Alive(pidfile)
  /\ evidence # Nobody
  /\ e.listener # NoPid => e.listener = pidfile /\ e.lproof = evidence

Adopted(e, evidence) == [e EXCEPT !.listener = pidfile, !.lproof = evidence]

(* stopGateway: what can be proved to be ours is terminated, at once and   *)
(* by the timer; without a record the pid file is removed.                 *)
StopGateway ==
  LET wrapper == Wrapper(state)
      listener == Listener(state)
      tracked == ChildAlive(child) /\ Status(wrapper) = "alive"
      hits == (IF tracked THEN {wrapper.pid} ELSE {}) \union
              (IF listener.pid # child.pid /\ Status(listener) = "alive"
                 THEN {listener.pid} ELSE {})
  IN  /\ adoption' = IF adoption.probing THEN adoption ELSE NoTick
      /\ child' = IF tracked /\ ~Unavailable THEN child ELSE NoChild
      /\ \/ /\ Unavailable
            /\ NoUpdate /\ UNCHANGED <<pidfile, term, foul>>
         \/ /\ ~Unavailable /\ state = NoEntry
            /\ pidfile' = NoPid
            /\ NoUpdate /\ UNCHANGED <<term, foul>>
         \/ /\ ~Unavailable /\ state # NoEntry
            /\ Signals(hits)
            /\ \/ /\ Completed(state.launch)
                  /\ ClearRecord /\ UNCHANGED term
               \/ /\ ~Completed(state.launch)
                  /\ term' = [NoTimer EXCEPT !.launch = state.launch]
                  /\ NoUpdate /\ UNCHANGED pidfile

-----------------------------------------------------------------------------
(* The machine: processes, pids and what the app can see of them           *)

Fork(p, q) ==
  /\ At(p).role = "wrapper" /\ os[p].stage = "new" /\ At(q) = Nobody
  /\ os' = [os EXCEPT ![p].stage = "forked",
                      ![q] = New(Process("listener", At(p).launch))]
  /\ UNCHANGED <<ledger, pidfile, blind, cold, memory, flow, history>>

\* The listener, or a wrapper that stays, writes gateway.pid.
Publish(p) ==
  /\ At(p).role \in {"wrapper", "listener"} /\ os[p].stage = "new"
  /\ os' = [os EXCEPT ![p].stage = "serving"]
  /\ pidfile' = p
  /\ UNCHANGED <<ledger, blind, cold, memory, flow, history>>

\* A process exits or is killed by its TERM; it may remove its pid file.
Exits(p) ==
  /\ Alive(p)
  /\ os' = [os EXCEPT ![p] = New(Nobody)]
  /\ \/ UNCHANGED pidfile
     \/ pidfile = p /\ At(p) # Foreign /\ pidfile' = NoPid
  /\ \E clean \in {FALSE, os[p].stage = "forked"} :
       closing' = closing \union CloseEvents({p}, clean)
  /\ UNCHANGED <<ledger, blind, cold, child, retained, timers, flow, history>>

\* A function waits for a listener or is about to adopt one.
Waiting == {"serving", "probe", "judge", "adopt", "cleanup"}

\* The app goes by pid p before it has read who has it.
Unproven(p) ==
  \/ pidfile = p /\ state.listener # p
  \/ \E f \in Flows : p = flow[f].candidate
                        \/ (flow[f].pc \in Waiting /\ p \in {flow[f].proc, pidfile})

Reuse(p) ==
  /\ left.troubles > 0 /\ ~Alive(p)
  /\ ~Unproven(p)
  /\ os' = [os EXCEPT ![p] = New(Foreign)]
  /\ left' = [left EXCEPT !.troubles = @ - 1]
  /\ UNCHANGED <<ledger, pidfile, blind, cold, memory, flow,
                 launches, first, foul>>

Blind ==
  /\ ~blind /\ left.troubles > 0
  /\ blind' = TRUE
  /\ left' = [left EXCEPT !.troubles = @ - 1]
  /\ UNCHANGED <<ledger, os, pidfile, cold, memory, flow,
                 launches, first, foul>>

Sight ==
  /\ blind /\ blind' = FALSE
  /\ UNCHANGED <<ledger, os, pidfile, cold, memory, flow,
                 history>>

\* The app dies; a write that ended badly may have been its end.
Crash ==
  /\ Die
  /\ \/ Disturbed /\ left' = left
     \/ ~Disturbed /\ left.troubles > 0 /\ left' = [left EXCEPT !.troubles = @ - 1]
  /\ first' = launches
  /\ child' = NoChild /\ retained' = {} /\ closing' = {}
  /\ term' = NoTimer /\ adoption' = NoTick
  /\ flow' = [f \in Flows |-> Idle]
  /\ UNCHANGED <<world, cold, launches, foul>>

-----------------------------------------------------------------------------
(* The start of the app                                                    *)

Start ==
  /\ Load /\ cold' = TRUE
  /\ UNCHANGED <<world, memory, flow, history>>

(* reconcileColdStart: what becomes of the record of an earlier run.       *)
Known == {state.listener, state.wrapper} \ {NoPid}

Proof == IF state.listener # NoPid THEN state.lproof ELSE state.wproof

Gone ==
  /\ Proof # Nobody
  /\ IF Alive(pidfile)
       THEN pidfile = state.pre /\ \A p \in Known \ {pidfile} : ~Alive(p)
       ELSE \A p \in Known : ~Alive(p)

Ours ==
  /\ Proof # Nobody /\ pidfile # state.pre
  /\ pidfile = Listener(state).pid
  /\ Status(Listener(state)) = "alive"

(* recoverAeraOwnedGatewaysFromPreviousRun: a record whose processes are   *)
(* gone is removed, a listener proved to be ours is terminated.            *)
ColdStart ==
  /\ live /\ cold /\ cold' = FALSE
  /\ \/ /\ state # NoEntry /\ Gone
        /\ IF Alive(pidfile) THEN UNCHANGED pidfile
           ELSE ClearPidFile(IF state.listener # NoPid THEN state.listener
                                                   ELSE state.wrapper)
        /\ Update(NoEntry)
        /\ UNCHANGED <<term, foul>>
     \/ /\ state # NoEntry /\ ~Gone /\ Ours
        /\ Signals({pidfile})
        /\ term' = [NoTimer EXCEPT !.launch = state.launch]
        /\ NoUpdate /\ UNCHANGED pidfile
     \/ /\ state = NoEntry \/ ~(Gone \/ Ours)
        /\ NoUpdate /\ UNCHANGED <<pidfile, term, foul>>
  /\ UNCHANGED <<os, blind, child, retained, closing,
                 adoption, flow, launches, first>>

-----------------------------------------------------------------------------
(* Callbacks: close events and timers                                      *)

\* Where a function goes on without awaiting anything.
Synchronous ==
  {"spawn", "adopt", "cleanup", "clear", "check", "stop", "failed", "restore",
   "drain", "drain listener", "settle"}

Up == live /\ ~cold

\* The app may take a step of function f, of another function or a callback.
Free == Up /\ \A f \in Flows : flow[f].pc \notin Synchronous

In(f, pc) ==
  /\ Up /\ flow[f].pc = pc
  /\ \A g \in Flows \ {f} : flow[g].pc \notin Synchronous

(* The close handlers of startGatewayDetailed and of                       *)
(* retainFailedSpawnOwnershipUntilExit.                                    *)
Closed(c) ==
  /\ Free /\ c \in closing
  /\ closing' = closing \ {c}
  /\ child' = IF child.launch = c.launch THEN NoChild ELSE child
  /\ \/ /\ c.launch \notin retained
        /\ Reconcile(c.launch, c.clean)
        /\ UNCHANGED <<term, retained>>
     \/ /\ c.launch \in retained
        /\ retained' = retained \ {c.launch}
        /\ term' = NoTimer
        /\ ClearPidFile(c.pid)
        /\ IF state.launch = c.launch THEN Update(NoEntry) ELSE NoUpdate
        /\ UNCHANGED adoption
  /\ UNCHANGED <<os, blind, cold, flow, launches, first, foul>>

(* The targets of the termination timer; without a pid in the record, the  *)
(* process whose markSpawned failed.                                       *)
Targets ==
  LET named == {t \in {Wrapper(state), Listener(state)} : t.pid # NoPid}
  IN  IF named = {} /\ term.proc # NoPid THEN {Target(term.proc, Nobody)}
      ELSE {t \in named : t.pid = state.wrapper => t = Wrapper(state)}

(* scheduleGatewayOwnershipTermination: from its tenth attempt on, the     *)
(* timer kills what it can prove; when nothing is left, the record goes.   *)
(* It gives up when the last attempt could not tell.                       *)
Terminate ==
  LET alive == {t \in Targets : Status(t) = "alive"}
      kills == IF ~term.force THEN {}
               ELSE {t \in alive : t.pid \in {state.wrapper, pidfile}}
      unsure == {t \in Targets : Status(t) \in {"unknown", "mismatch"}}
                  \union (IF term.force THEN alive \ kills ELSE {})
  IN  /\ Free /\ term # NoTimer
      /\ \/ /\ state.launch # term.launch
            /\ term' = NoTimer
            /\ NoUpdate /\ UNCHANGED <<os, closing, pidfile, foul>>
         \/ /\ state.launch = term.launch /\ alive \union unsure = {}
            /\ term' = NoTimer
            /\ ClearRecord /\ UNCHANGED <<os, closing, foul>>
         \/ /\ state.launch = term.launch /\ alive \union unsure # {}
            /\ term' \in {[term EXCEPT !.force = TRUE]} \union
                         (IF term.force /\ unsure # {} THEN {NoTimer} ELSE {})
            /\ Killed({t.pid : t \in kills})
            /\ NoUpdate /\ UNCHANGED pidfile
      /\ UNCHANGED <<blind, cold, child, retained, adoption,
                     flow, launches, first>>

(* scheduleGatewayPidAdoption: the evidence of a process that gateway.pid  *)
(* names is read, the API is asked, and then gateway.pid is read again.    *)
AdoptionTick ==
  LET seen == /\ state.launch = adoption.launch
              /\ pidfile \notin {NoPid, state.pre} /\ Observed(pidfile) # Nobody
  IN  /\ Free /\ adoption # NoTick /\ ~adoption.probing
      /\ \/ seen /\ adoption' = [adoption EXCEPT !.probing = TRUE,
                                                 !.evidence = At(pidfile)]
         \/ ~seen /\ adoption' = NoTick
      /\ UNCHANGED <<ledger, world, cold, child, retained, closing, term, flow,
                     history>>

AdoptionProbed ==
  LET current == state.launch = adoption.launch
      new == Adopted(state, adoption.evidence)
  IN  /\ Free /\ adoption.probing
      /\ \/ /\ current /\ Serving /\ Adoptable(state, adoption.evidence)
            /\ Update(new)
         \/ NoUpdate
      /\ adoption' \in {NoTick} \union
           (IF current /\ state' # new
              THEN {[NoTick EXCEPT !.launch = adoption.launch]} ELSE {})
      /\ UNCHANGED <<world, cold, child, retained, closing, term, flow, launches,
                     first, foul>>

-----------------------------------------------------------------------------
(* A launch: startGatewayDetailed and startGatewayWithReadiness            *)

\* A restart has ended: a recovery that waited for it ends or goes on.
Restarted(ok) ==
  [f \in Flows |->
    CASE f = "restart" \/ flow[f].pc = "await" -> Idle
      [] flow[f].pc = "join" -> IF ok THEN Idle ELSE [Idle EXCEPT !.pc = "check"]
      [] OTHER -> flow[f]]

\* A recovery waits for the restart that is under way, or a new one.
AwaitsRestart ==
  [f \in Flows |->
    CASE f = "recovery" -> [Idle EXCEPT !.pc = "await"]
      [] f = "restart" /\ flow[f].pc = "idle" -> [Idle EXCEPT !.pc = "begin"]
      [] OTHER -> flow[f]]

\* The function is done with its launch.
Answers(f, ok) ==
  CASE f = "restart" /\ ok   -> Restarted(TRUE)
    [] f = "restart" /\ ~ok  -> [flow EXCEPT ![f] = [Idle EXCEPT !.pc = "failed",
                                   !.retried = flow[f].retried]]
    [] f = "recovery" /\ ~ok -> AwaitsRestart
    [] OTHER                 -> [flow EXCEPT ![f] = Idle]

Answer(f, ok) == flow' = Answers(f, ok)

Goto(f, pc) == flow' = [flow EXCEPT ![f].pc = pc]

(* A launch is refused while the ledger cannot be trusted, when a gateway  *)
(* runs already (which may then be found ready or not), and when there is  *)
(* a record; other things may be wrong before anything was written.        *)
LaunchRefused(f) ==
  /\ In(f, "launch")
  /\ \E ok \in {FALSE, ~Unavailable /\ Running /\ Serving} : Answer(f, ok)
  /\ UNCHANGED <<ledger, world, cold, memory, history>>

\* beginLaunch
BeginLaunch(f) ==
  LET l == launches + 1
      entry == [NoEntry EXCEPT !.launch = l, !.pre = pidfile]
  IN  /\ In(f, "launch") /\ left.launches > 0
      /\ ~Unavailable /\ ~Running /\ state = NoEntry
      /\ launches' = l
      /\ Spend(entry, [left EXCEPT !.launches = @ - 1])
      /\ IF state' = entry
           THEN flow' = [flow EXCEPT ![f] = [@ EXCEPT !.pc = "spawn",
                           !.launch = l, !.pre = pidfile, !.candidate = NoPid]]
           ELSE Answer(f, FALSE)
      /\ UNCHANGED <<world, cold, memory, first, foul>>

\* No process came to be.
SpawnFails(f) ==
  /\ In(f, "spawn")
  /\ Update(NoEntry)
  /\ Answer(f, FALSE)
  /\ UNCHANGED <<world, cold, memory, launches, first, foul>>

(* The wrapper is recorded without evidence, which is read later.  If that *)
(* fails, the process is kept until it exits or its timer gives up.        *)
Spawn(f, p) ==
  LET l == flow[f].launch
      entry == [state EXCEPT !.wrapper = p]
  IN  /\ In(f, "spawn") /\ ~Alive(p)
      /\ os' = [os EXCEPT ![p] = New(Process("wrapper", l))]
      /\ child' = [launch |-> l, pid |-> p]
      /\ Update(entry)
      /\ IF state' = entry
           THEN /\ flow' = [flow EXCEPT ![f] = [@ EXCEPT !.pc = "serving",
                              !.proc = p]]
                /\ UNCHANGED <<retained, term>>
           ELSE /\ Answer(f, FALSE)
                /\ retained' = retained \union {l}
                /\ term' = [NoTimer EXCEPT !.launch = l, !.proc = p]
      /\ UNCHANGED <<pidfile, blind, cold, closing, adoption,
                     launches, first, foul>>

\* The loop goes on, or the deadline has passed.
Again(f) ==
  flow' \in {[flow EXCEPT ![f] = [@ EXCEPT !.pc = pc, !.candidate = NoPid,
                                           !.evidence = Nobody]] :
               pc \in {"serving", "judge"}}

(* waitForGatewayServing, a turn of the loop: gateway.pid and the evidence *)
(* of the process it names are read, and then the API is asked.            *)
Look(f) ==
  LET seen == pidfile \notin {NoPid, flow[f].pre} /\ Observed(pidfile) # Nobody
  IN  /\ In(f, "serving")
      /\ IF seen THEN flow' = [flow EXCEPT ![f] = [@ EXCEPT !.pc = "probe",
                         !.candidate = pidfile, !.evidence = At(pidfile)]]
         ELSE Again(f)
      /\ UNCHANGED <<ledger, world, cold, memory, history>>

(* The listener is reported with its evidence also when its API does not   *)
(* answer in time.                                                         *)
Probed(f) ==
  /\ In(f, "probe")
  /\ \/ Again(f)
     \/ \E ok \in {FALSE, Serving} :
          flow' = [flow EXCEPT ![f] = [@ EXCEPT !.ready = ok, !.pc = "judge"]]
  /\ UNCHANGED <<ledger, world, cold, memory, history>>

\* persistSpawnedGatewayEvidence: still the same launch, without evidence.
ProvesWrapper(f) ==
  /\ state.launch = flow[f].launch
  /\ state.wrapper = flow[f].proc /\ state.wproof = Nobody

(* Waiting is over, and the evidence of the wrapper is kept, which was     *)
(* read at some time since the spawn: late enough, somebody else has the   *)
(* pid, or nobody and there is no evidence.                                *)
Judge(f) ==
  /\ In(f, "judge")
  /\ Goto(f, IF flow[f].ready THEN "adopt" ELSE "cleanup")
  /\ \/ /\ ProvesWrapper(f)
        /\ \E proof \in
                {Process("wrapper", flow[f].launch), At(flow[f].proc)} \ {Nobody} :
             Update([state EXCEPT !.wproof = proof])
     \/ NoUpdate
  /\ UNCHANGED <<world, cold, memory, launches, first, foul>>

\* The listener found ready is adopted, under whatever launch there is now.
Adopt(f) ==
  LET listener == [pid |-> flow[f].candidate, proof |-> flow[f].evidence]
  IN  /\ In(f, "adopt")
      /\ \/ /\ Adoptable(state, flow[f].evidence)
            /\ Update(Adopted(state, flow[f].evidence))
         \/ ~Adoptable(state, flow[f].evidence) /\ NoUpdate
      /\ IF [pid |-> state'.listener, proof |-> state'.lproof] = listener
           THEN Answer(f, TRUE) ELSE Goto(f, "cleanup")
      /\ UNCHANGED <<world, cold, memory, launches, first, foul>>

-----------------------------------------------------------------------------
(* cleanupGatewayLaunch: the end of a launch that did not become ready     *)

(* The targets: the wrapper of this launch, with the evidence of whatever  *)
(* record there is now, and the listener that was seen.  It is not clean   *)
(* if anything else lives that may belong to the launch.                   *)
Plan(f, e, listener) ==
  LET proc == flow[f].proc
      alive == ChildAlive([launch |-> flow[f].launch, pid |-> proc])
      kills == {t \in {Wrapper(e)} : t.pid = proc /\ alive} \union
               {t \in {listener} : t.pid # proc}
      proved == {t \in kills : t.proof # Nobody /\ Observed(t.pid) = t.proof}
      others == {p \in {proc} : alive} \union
                {p \in {pidfile} \ {NoPid, e.pre} : Alive(p)}
  IN  [flow[f] EXCEPT !.kills = proved, !.of = e.launch,
         !.clean = others \subseteq {t.pid : t \in proved},
         !.pc = IF \E t \in proved : t.pid = proc THEN "kill wrapper"
                ELSE IF proved # {} THEN "kill listener" ELSE "clear"]

(* A listener that wrote gateway.pid after the last look is adopted now.   *)
Cleanup(f) ==
  LET late == state.listener = NoPid /\ Adoptable(state, Observed(pidfile))
      new == Adopted(state, At(pidfile))
  IN  /\ In(f, "cleanup")
      /\ \/ late /\ Update(new)
         \/ ~late /\ NoUpdate
      /\ flow' = [flow EXCEPT ![f] =
           Plan(f, state', IF late /\ state' = new
                             THEN Target(pidfile, At(pidfile))
                             ELSE Target(flow[f].candidate, flow[f].evidence))]
      /\ UNCHANGED <<world, cold, memory, launches, first, foul>>

(* A tree is terminated while its root has the same evidence and the       *)
(* record is of the same launch; a listener must still be in gateway.pid.  *)
CleanupKill(f, t) ==
  LET wrapper == t.pid = flow[f].proc
      verified == /\ Observed(t.pid) = t.proof
                  /\ state # NoEntry /\ state.launch = flow[f].of
                  /\ wrapper \/ pidfile = t.pid
      more == wrapper /\ flow[f].kills # {t}
  IN  /\ t \in flow[f].kills
      /\ In(f, IF wrapper THEN "kill wrapper" ELSE "kill listener")
      /\ Killed(IF verified THEN {t.pid} ELSE {})
      /\ flow' = [flow EXCEPT ![f].clean = @ /\ (verified \/ ~Alive(t.pid)),
                    ![f].pc = IF more THEN "kill listener" ELSE "clear"]
      /\ UNCHANGED <<ledger, pidfile, blind, cold, child,
                     retained, timers, launches, first, left>>

\* If nothing remains, the launch is forgotten, unless there is another.
CleanupEnds(f) ==
  LET clean == /\ flow[f].clean /\ flow[f].of # 0
               /\ state = NoEntry \/ state.launch = flow[f].of
  IN  /\ In(f, "clear")
      /\ Answer(f, FALSE)
      /\ \/ /\ clean /\ state # NoEntry
            /\ pidfile' = IF pidfile \in {t.pid : t \in flow[f].kills} THEN NoPid
                          ELSE pidfile
            /\ Update(NoEntry)
         \/ ~(clean /\ state # NoEntry) /\ NoUpdate /\ UNCHANGED pidfile
      /\ adoption' = IF clean /\ ~adoption.probing THEN NoTick ELSE adoption
      /\ UNCHANGED <<os, blind, cold, child, retained, closing,
                     term, launches, first, foul>>

-----------------------------------------------------------------------------
(* restartGateway and startGatewayWithRecovery                             *)

Call(f) ==
  /\ f \in left.calls /\ Free /\ flow[f].pc = "idle"
  /\ left' = [left EXCEPT !.calls = @ \ {f}]
  /\ Goto(f, CASE f = "ready"    -> "launch"
               [] f = "restart"  -> "begin"
               [] f = "recovery" ->
                    IF flow["restart"].pc = "idle" THEN "check" ELSE "join"
               [] f = "drain"    -> "drain")
  /\ UNCHANGED <<ledger, world, cold, memory, launches, first, foul>>

\* The stop-gateway request.
Stop ==
  /\ Free /\ StopGateway
  /\ UNCHANGED <<os, blind, cold, retained, closing, flow,
                 launches, first>>

(* startGatewayWithRecoveryOnce: a gateway that runs is healthy, or it is  *)
(* restarted; so is one that the ledger does not know.                     *)
Check ==
  /\ In("recovery", "check")
  /\ \/ Running /\ state # NoEntry /\ Serving /\ Answer("recovery", TRUE)
     \/ Running /\ flow' = AwaitsRestart
     \/ ~Running /\ Goto("recovery", "release")
  /\ UNCHANGED <<ledger, world, cold, memory, history>>

(* waitForGatewayOwnershipReleased; then whoever has the port may turn out *)
(* to be a healthy gateway.                                                *)
Released(f) ==
  IF f = "recovery" /\ Serving
    THEN flow' \in {Answers(f, TRUE), [flow EXCEPT ![f].pc = "launch"]}
    ELSE flow' = [flow EXCEPT ![f] = [Idle EXCEPT !.pc = "launch"]]

Release(f) ==
  /\ In(f, "release")
  /\ \/ state = NoEntry /\ NoUpdate /\ UNCHANGED <<pidfile, adoption>>
     \/ state # NoEntry /\ ~ChildAlive(child) /\ Reconcile(state.launch, FALSE)
  /\ IF state' = NoEntry THEN Released(f) ELSE UNCHANGED flow
  /\ UNCHANGED <<os, blind, cold, child, retained, closing, term,
                 launches, first, foul>>

ReleaseTimesOut(f) ==
  /\ In(f, "release") /\ state # NoEntry
  /\ IF f = "restart" THEN Goto(f, "restore") ELSE flow' = [flow EXCEPT ![f] = Idle]
  /\ UNCHANGED <<ledger, world, cold, memory, history>>

(* restartGatewayLocallyOnce.  A gateway that is in gateway.pid and not in *)
(* the ledger is taken over; what was tracked is kept for a failure.       *)
RestartBegins ==
  LET before == [Idle EXCEPT !.launch = child.launch, !.proc = child.pid,
                             !.candidate = pidfile]
      legacy == ~Unavailable /\ state = NoEntry /\ Alive(pidfile)
  IN  /\ In("restart", "begin")
      /\ flow' = [flow EXCEPT !["restart"] =
           CASE legacy /\ blind  -> [before EXCEPT !.pc = "restore"]
             [] legacy /\ ~blind -> [before EXCEPT !.pc = "takeover",
                                                   !.evidence = At(pidfile)]
             [] ~legacy          -> [before EXCEPT !.pc = "stop"]]
      /\ UNCHANGED <<ledger, world, cold, memory, history>>

\* stopLegacyGatewayForTakeover, the one signal without a record.
Takeover ==
  LET old == flow["restart"]
      verified == pidfile = old.candidate /\ Observed(pidfile) = old.evidence
      gone == verified \/ ~Alive(old.candidate)
  IN  /\ In("restart", "takeover")
      /\ Ended(IF verified THEN {old.candidate} ELSE {})
      /\ pidfile' = IF gone /\ pidfile = old.candidate THEN NoPid ELSE pidfile
      /\ Goto("restart", IF gone THEN "stop" ELSE "restore")
      /\ UNCHANGED <<ledger, blind, cold, child, retained,
                     timers, history>>

StopOld ==
  /\ In("restart", "stop")
  /\ StopGateway
  /\ Goto("restart", "stopping")
  /\ UNCHANGED <<os, blind, cold, retained, closing, launches,
                 first>>

\* waitForApiServerStopped
Stopped ==
  /\ In("restart", "stopping")
  /\ \/ Goto("restart", "release")
     \/ Serving /\ Goto("restart", "restore")
  /\ UNCHANGED <<ledger, world, cold, memory, history>>

\* restoreGatewayAfterRestartFailure
Restore ==
  LET old == [launch |-> flow["restart"].launch, pid |-> flow["restart"].proc]
      file == flow["restart"].candidate
  IN  /\ In("restart", "restore")
      /\ child' = IF ChildAlive(old) THEN old ELSE NoChild
      /\ pidfile' = IF ~ChildAlive(old) /\ Alive(file) THEN file ELSE pidfile
      /\ flow' = Restarted(FALSE)
      /\ UNCHANGED <<ledger, os, blind, cold, retained, closing,
                     timers, history>>

\* The new gateway did not become ready: if its port was taken, once more.
RestartFails ==
  /\ In("restart", "failed")
  /\ child' = NoChild
  /\ flow' = Restarted(FALSE)
  /\ UNCHANGED <<ledger, world, cold, retained, closing, timers, history>>

RestartRetries ==
  /\ In("restart", "failed") /\ ~flow["restart"].retried
  /\ StopGateway
  /\ flow' = [flow EXCEPT !["restart"] = [Idle EXCEPT !.pc = "launch",
                                                      !.retried = TRUE]]
  /\ UNCHANGED <<os, blind, cold, retained, closing, launches,
                 first>>

-----------------------------------------------------------------------------
(* stopAeraOwnedGateway: at a switch of owners and when the app quits.     *)
(* What cannot be proved makes it throw.  A process that gateway.pid names *)
(* and the record does not keeps its record.                               *)

DrainBegins ==
  LET tracked == ChildAlive(child)
      proved == /\ state.wrapper = child.pid
                /\ Status(Wrapper(state)) = "alive"
  IN  /\ In("drain", "drain")
      /\ adoption' = IF adoption.probing THEN adoption ELSE NoTick
      /\ child' = IF Unavailable \/ tracked THEN child ELSE NoChild
      /\ flow' = [flow EXCEPT !["drain"] =
           CASE Unavailable \/ (tracked /\ ~proved) -> Idle
             [] ~Unavailable /\ tracked /\ proved ->
                  [Idle EXCEPT !.pc = "drain wrapper", !.launch = state.launch,
                               !.proc = child.pid, !.kills = {Wrapper(state)}]
             [] OTHER -> [Idle EXCEPT !.pc = "drain listener",
                                      !.proc = child.pid]]
      /\ UNCHANGED <<ledger, world, cold, retained, closing, term, history>>

DrainWrapper(t) ==
  LET verified == /\ state.launch = flow["drain"].launch
                  /\ Wrapper(state).pid = t.pid
                  /\ Status(Wrapper(state)) = "alive"
      gone == verified \/ At(t.pid) # t.proof
  IN  /\ In("drain", "drain wrapper") /\ t \in flow["drain"].kills
      /\ Killed(IF verified THEN {t.pid} ELSE {})
      /\ child' = IF gone THEN NoChild ELSE child
      /\ flow' = [flow EXCEPT !["drain"] =
           IF gone THEN [@ EXCEPT !.pc = "drain listener"] ELSE Idle]
      /\ UNCHANGED <<ledger, pidfile, blind, cold, retained,
                     timers, launches, first, left>>

DrainListener ==
  LET t == Listener(state)
      here == [Idle EXCEPT !.launch = state.launch, !.kills = {t},
                           !.clean = ~Replaced]
      status == IF t.pid = flow["drain"].proc THEN "dead" ELSE Status(t)
  IN  /\ In("drain", "drain listener")
      /\ flow' = [flow EXCEPT !["drain"] =
           CASE status = "dead"  -> [here EXCEPT !.pc = "settle"]
             [] status = "alive" -> [here EXCEPT !.pc = "drain kill"]
             [] OTHER            -> Idle]
      /\ UNCHANGED <<ledger, world, cold, memory, history>>

DrainKill(t) ==
  LET verified == /\ pidfile = t.pid /\ state.launch = flow["drain"].launch
                  /\ Listener(state).pid = t.pid
                  /\ Status(Listener(state)) = "alive"
      gone == verified \/ ~Alive(t.pid)
  IN  /\ In("drain", "drain kill") /\ t \in flow["drain"].kills
      /\ Killed(IF verified THEN {t.pid} ELSE {})
      /\ pidfile' = IF gone /\ pidfile = t.pid THEN NoPid ELSE pidfile
      /\ flow' = [flow EXCEPT !["drain"] =
           IF gone THEN [@ EXCEPT !.pc = "settle"] ELSE Idle]
      /\ UNCHANGED <<ledger, blind, cold, child, retained,
                     timers, launches, first, left>>

\* What is left of the record is cleared, now or by the timer.
Settle ==
  LET l == flow["drain"].launch
      mine == l # 0 /\ flow["drain"].clean
  IN  /\ In("drain", "settle")
      /\ flow' = [flow EXCEPT !["drain"] = Idle]
      /\ \/ ~mine /\ NoUpdate /\ UNCHANGED <<pidfile, timers>>
         \/ /\ mine
            /\ Reconcile(l, FALSE)
            /\ term' = IF state' = NoEntry THEN term
                       ELSE [NoTimer EXCEPT !.launch = l]
      /\ UNCHANGED <<os, blind, cold, child, retained, closing,
                     launches, first, foul>>

-----------------------------------------------------------------------------
Init ==
  /\ state = NoEntry /\ LedgerInit
  /\ \E other \in Pid :   \* a gateway that is older than the ledger
       /\ pidfile = other
       /\ os = [p \in Pids |-> New(IF p = other THEN Legacy ELSE Nobody)]
  /\ blind = FALSE
  /\ cold = FALSE /\ child = NoChild /\ retained = {} /\ closing = {}
  /\ term = NoTimer /\ adoption = NoTick
  /\ flow = [f \in Flows |-> Idle]
  /\ launches = 0 /\ first = 0 /\ foul = FALSE
  /\ left \in Budgets

Machine ==
  \/ \E p \in Pids : Publish(p) \/ Exits(p) \/ Reuse(p) \/ \E q \in Pids : Fork(p, q)
  \/ Blind \/ Sight \/ Crash

Callbacks == Terminate \/ AdoptionTick \/ AdoptionProbed \/ \E c \in closing : Closed(c)

Launching(f) ==
  \/ LaunchRefused(f) \/ BeginLaunch(f) \/ SpawnFails(f)
  \/ \E p \in Pids : Spawn(f, p)
  \/ Look(f) \/ Probed(f) \/ Judge(f) \/ Adopt(f)
  \/ Cleanup(f) \/ (\E t \in flow[f].kills : CleanupKill(f, t)) \/ CleanupEnds(f)

Restarting ==
  \/ RestartBegins \/ Takeover \/ StopOld \/ Stopped \/ Restore \/ RestartFails
  \/ RestartRetries

Draining ==
  \/ DrainBegins \/ DrainListener \/ Settle
  \/ \E t \in flow["drain"].kills : DrainWrapper(t) \/ DrainKill(t)

Functions ==
  \/ \E f \in Flows \ {"drain"} : Launching(f)
  \/ \E f \in {"restart", "recovery"} :
       Release(f) \/ ReleaseTimesOut(f)
  \/ Check \/ Restarting \/ Draining

Next ==
  \/ Machine \/ Start \/ ColdStart \/ Callbacks \/ Stop \/ Functions
  \/ \E f \in Flows : Call(f)

Spec == Init /\ [][Next]_vars

-----------------------------------------------------------------------------
(* Properties                                                              *)

PCs ==
  {"idle", "launch", "spawn", "serving", "probe", "judge", "adopt", "cleanup",
   "kill wrapper", "kill listener", "clear", "check", "await", "join",
   "release", "begin", "takeover", "stop", "stopping", "failed", "restore",
   "drain", "drain wrapper", "drain listener", "drain kill", "settle"}

BudgetType ==
  [calls : SUBSET Flows, launches : Launch, troubles : Nat]
EventType == [launch : Launch, pid : Pids, clean : BOOLEAN]
TimerType == [launch : Launch, force : BOOLEAN, proc : Pid]
TickType ==
  [launch : Launch, probing : BOOLEAN, evidence : Processes]
TargetType == [pid : Pid, proof : Processes]
FlowType ==
  [pc : PCs, launch : Launch, proc : Pid, pre : Pid, candidate : Pid,
   evidence : Processes, of : Launch, kills : SUBSET TargetType,
   ready : BOOLEAN, clean : BOOLEAN, retried : BOOLEAN]

WorldOK ==
  /\ os \in [Pids -> [who : Processes, stage : Stages]]
  /\ pidfile \in Pid
  /\ blind \in BOOLEAN

MemoryOK ==
  /\ child \in [launch : Launch, pid : Pid]
  /\ retained \in SUBSET (Launch)
  /\ closing \in SUBSET EventType
  /\ term \in TimerType
  /\ adoption \in TickType

FlowOK == flow \in [Flows -> FlowType]

BudgetOK ==
  /\ left \in BudgetType
  /\ launches \in Nat /\ first \in 0..launches
  /\ launches + left.launches <= MaxLaunches

\* Every variable has its type, and launches are numbered within their budget.
TypeOK ==
  /\ LedgerTypeOK /\ WorldOK /\ MemoryOK /\ FlowOK /\ BudgetOK
  /\ cold \in BOOLEAN /\ foul \in BOOLEAN

(* No signal of stopGateway, of a cleanup, of the drain or of a termination *)
(* timer reaches a process of somebody else, although pids are used again  *)
(* at any time: a target is signalled by its evidence, never by its pid    *)
(* alone (hermes.ts, inspectOwnedTarget).                                  *)
OnlyOwnSignalled == ~foul

(* A listener that is on record and alive stays on record, whatever fails, *)
(* times out or is called, so that somebody can still stop it; but for the *)
(* last step of a cleanup, which forgets a listener that the adoption      *)
(* timer has adopted since it looked.                                      *)
ListenerStaysOwned ==
  [][Up /\ Alive(state.listener) /\ At(state.listener) = state.lproof
       => \/ state'.listener = state.listener /\ state'.lproof = state.lproof
          \/ \E f \in Flows : flow[f].pc = "clear"
                                /\ flow[f].of = state.launch]_vars

(* A wrapper that is on record and alive stays on record: no deadline,     *)
(* stop, restart, close event or failed write forgets a process that is    *)
(* about to fork a gateway; but for a cleanup that takes the record of     *)
(* another launch for its own, as it does not compare the launch ids.      *)
WrapperStaysOwned ==
  [][Up /\ At(state.wrapper) = Process("wrapper", state.launch)
       => \/ state'.launch = state.launch /\ state'.wrapper = state.wrapper
          \/ \E f \in Flows : flow[f].pc = "clear"
                                /\ flow[f].of # flow[f].launch]_vars
=============================================================================
