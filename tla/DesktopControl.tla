--------------------------- MODULE DesktopControl ---------------------------
(***************************************************************************)
(* Desktop control: agentera-desktop-control/coordinator.ts with the       *)
(* receipt journal of store.ts.  While an account is signed in and the     *)
(* cloud can be reached, one session of heartbeats runs for it: replay the *)
(* results not yet delivered, send a heartbeat, execute the health check   *)
(* the cloud hands out with the answer, wait for the timer.  A change of   *)
(* the account aborts the session's request.  A health check is not        *)
(* aborted: it ends as a stray, saves its result and reports it.           *)
(*                                                                         *)
(* The cloud is modelled by its contract (agentera-cloud.openapi.yaml,     *)
(* lines 388-477): it answers 200, 404 for a command of another device and *)
(* 409 for a result that conflicts with the command's state or expiry.     *)
(* Until it has a result it may claim a command any number of times.       *)
(***************************************************************************)
EXTENDS Integers

CONSTANTS
    Principals,   \* accounts, each with its device
    Nobody,
    Commands,     \* health checks the cloud ever hands out
    NoCommand,
    Owner,        \* the principal whose device a command is for
    MaxFailures,  \* bound: requests that fail on the way there or back
    MaxCrashes    \* bound: exits of the app at any point

ASSUME NobodyAssumption == Nobody \notin Principals
ASSUME CommandsAssumption ==
    NoCommand \notin Commands /\ Owner \in [Commands -> Principals]
ASSUME BoundsAssumption == MaxFailures \in Nat /\ MaxCrashes \in Nat

VARIABLES
    auth,      \* principal of the session, Nobody without one
    session,   \* the heartbeat session of auth
    stray,     \* health checks of aborted sessions, by command
    journal,   \* receipt of each command, on disk
    summary,   \* lastHealthSummary: whose health it tells
    cloud,     \* what the cloud knows of each command
    ran,       \* history: health checks started for a command
    finished,  \* history: commands whose health check has ended
    failures, crashes

vars == <<auth, session, stray, journal, summary, cloud, ran, finished,
          failures, crashes>>
bounds == <<failures, crashes>>

Results == {"done", "interrupted"}
Receipts == {"absent", "running"} \union Results
Fates == {"unknown", "queued", "claimed", "running", "expired"}
           \union Results

Mine(p) == {c \in Commands : Owner[c] = p}

-----------------------------------------------------------------------------
(* A session is off, waits for its timer, was refused for good, runs a     *)
(* health check, or has a request in flight: the replay of a result, the   *)
(* heartbeat, the announcement of a health check, its report.  todo: the   *)
(* records that replayPending listed and has left; next: what follows it.  *)
Requests == {"replay", "beat", "announce", "report"}
Off == [at |-> "off", cmd |-> NoCommand, sent |-> "absent", todo |-> {},
        next |-> "beat", reply |-> "none", fresh |-> FALSE]

Waiting(fresh) == [Off EXCEPT !.at = "timer", !.fresh = fresh]
Asking(kind, c, what) == [Off EXCEPT !.at = kind, !.cmd = c, !.sent = what]

(* replayPending over the records in todo, then the heartbeat or, inside   *)
(* executeCommand, the timer.                                              *)
Replaying(todo, next) ==
    IF todo = {}
    THEN {IF next = "beat" THEN Asking("beat", NoCommand, "absent")
                           ELSE Waiting(TRUE)}
    ELSE {[Off EXCEPT !.at = "replay", !.cmd = rec[1], !.sent = rec[2],
                      !.todo = todo \ {rec}, !.next = next] : rec \in todo}

Undelivered(p, receipts) ==
    {<<c, receipts[c]>> : c \in {d \in Mine(p) : receipts[d] \in Results}}

(* stopSession: the request is aborted, a health check goes on.            *)
NoStray == [at |-> "none", as |-> Nobody, reply |-> "none"]
Stopped ==
    IF session.at = "probe"
    THEN [stray EXCEPT ![session.cmd] = [NoStray EXCEPT !.at = "probe"]]
    ELSE stray

(* recoverInterrupted: what was running when the last session ended.       *)
Recovered(p) ==
    [c \in Commands |-> IF Owner[c] = p /\ journal[c] = "running"
                        THEN "interrupted" ELSE journal[c]]

(* onAuthState with an authenticated state; that of the running session    *)
(* changes nothing.                                                        *)
SignIn(p) ==
    /\ auth # p
    /\ auth' = p
    /\ stray' = Stopped
    /\ journal' = Recovered(p)
    /\ session' \in Replaying(Undelivered(p, journal'), "beat")
    /\ UNCHANGED <<summary, cloud, ran, finished, bounds>>

(* onAuthState with any other state.                                       *)
SignOut ==
    /\ auth # Nobody
    /\ auth' = Nobody /\ session' = Off /\ stray' = Stopped
    /\ summary' = Nobody
    /\ UNCHANGED <<journal, cloud, ran, finished, bounds>>

TimerFires ==
    /\ session.at = "timer"
    /\ session' \in Replaying(Undelivered(auth, journal), "beat")
    /\ UNCHANGED <<auth, stray, journal, summary, cloud, ran, finished,
                   bounds>>

-----------------------------------------------------------------------------
(* The cloud acts on a request; its answer is still under way.             *)

Advances(c, what) ==
    \/ what = "running" /\ cloud[c] \in {"claimed", "running"}
    \/ what \in Results /\ cloud[c] \in {"claimed", "running", what}

(* The reply to what was submitted for c with the bearer of p.             *)
Submitted(c, what, p) ==
    IF Owner[c] = p /\ Advances(c, what) THEN "ok" ELSE "rejected"
Accepted(c, what, p) ==
    IF Submitted(c, what, p) = "ok" THEN [cloud EXCEPT ![c] = what]
    ELSE cloud

Lands ==
    /\ session.reply = "none"
    /\ \/ /\ session.at \in Requests \ {"beat"}
          /\ session' = [session EXCEPT
                !.reply = Submitted(session.cmd, session.sent, auth)]
          /\ cloud' = Accepted(session.cmd, session.sent, auth)
       \/ /\ session.at = "beat"
          /\ \/ session' = [session EXCEPT !.reply = "ok"] /\ cloud' = cloud
             \/ \E c \in Mine(auth) :
                  /\ cloud[c] \in {"queued", "claimed", "running"}
                  /\ session' = [session EXCEPT !.reply = "ok", !.cmd = c]
                  /\ cloud' = [cloud EXCEPT ![c] = "claimed"]
    /\ UNCHANGED <<auth, stray, journal, summary, ran, finished, bounds>>

-----------------------------------------------------------------------------
(* runHeartbeat, replayPending and executeCommand go on with an answer.    *)

(* A command without a receipt is new: executeCommand runs it.             *)
Executable(c) == journal[c] = "absent"

BeatAnswered_RunsAtOnce ==
    /\ session.at = "beat" /\ session.reply = "ok"
    /\ LET c == session.cmd IN
       IF c # NoCommand /\ Executable(c)
       THEN /\ session' = [Off EXCEPT !.at = "probe", !.cmd = c]
            /\ ran' = [ran EXCEPT ![c] = @ + 1]
       ELSE session' \in Replaying({}, "timer") /\ ran' = ran
    /\ UNCHANGED <<auth, stray, journal, summary, cloud, finished, bounds>>

(* The heartbeat was accepted: schedule, replay, or run the command.       *)
BeatAnswered ==
    /\ session.at = "beat" /\ session.reply = "ok"
    /\ LET c == session.cmd IN
       IF c # NoCommand /\ Executable(c)
       THEN /\ journal' = [journal EXCEPT ![c] = "running"]
            /\ session' = Asking("announce", c, "running")
       ELSE /\ journal' = journal
            /\ session' \in
                 Replaying(IF c # NoCommand /\ journal[c] \in Results
                           THEN Undelivered(auth, journal) ELSE {}, "timer")
    /\ UNCHANGED <<auth, stray, summary, cloud, ran, finished, bounds>>

Announced ==
    /\ session.at = "announce" /\ session.reply = "ok"
    /\ session' = [Off EXCEPT !.at = "probe", !.cmd = session.cmd]
    /\ ran' = [ran EXCEPT ![session.cmd] = @ + 1]
    /\ UNCHANGED <<auth, stray, journal, summary, cloud, finished, bounds>>

ProbeDone_Unsaved ==
    /\ session.at = "probe"
    /\ finished' = finished \union {session.cmd}
    /\ summary' = Owner[session.cmd]
    /\ session' = Asking("report", session.cmd, "done")
    /\ UNCHANGED <<auth, stray, journal, cloud, ran, bounds>>

(* The health check ends: its result is saved, shown and reported.         *)
ProbeDone ==
    /\ session.at = "probe"
    /\ finished' = finished \union {session.cmd}
    /\ journal' = [journal EXCEPT ![session.cmd] = "done"]
    /\ summary' = Owner[session.cmd]
    /\ session' = Asking("report", session.cmd, "done")
    /\ UNCHANGED <<auth, stray, cloud, ran, bounds>>

(* A result was taken: markDelivered.                                      *)
Delivered ==
    /\ session.at \in {"replay", "report"} /\ session.reply = "ok"
    /\ journal' = [journal EXCEPT ![session.cmd] = "absent"]
    /\ summary' = Owner[session.cmd]
    /\ session' \in IF session.at = "replay"
                    THEN Replaying(session.todo, session.next)
                    ELSE {Waiting(TRUE)}
    /\ UNCHANGED <<auth, stray, cloud, ran, finished, bounds>>

Failed_SameRequest == session' = [session EXCEPT !.reply = "none"]

(* The catch of runHeartbeat: retry later.                                 *)
Failed == session' = Waiting(session.next = "timer")

Rejected ==
    /\ session.reply = "rejected"
    /\ Failed
    /\ UNCHANGED <<auth, stray, journal, summary, cloud, ran, finished,
                   bounds>>

(* Timed out, refused for now, or the answer was lost.                     *)
RequestFails ==
    /\ session.at \in Requests /\ failures < MaxFailures
    /\ Failed
    /\ failures' = failures + 1
    /\ UNCHANGED <<auth, stray, journal, summary, cloud, ran, finished,
                   crashes>>

(* One of TERMINAL_CODES: no timer, until the account changes.             *)
SessionRefused ==
    /\ session.at \in Requests /\ failures < MaxFailures
    /\ session' = [Off EXCEPT !.at = "refused"]
    /\ failures' = failures + 1
    /\ UNCHANGED <<auth, stray, journal, summary, cloud, ran, finished,
                   crashes>>

-----------------------------------------------------------------------------
(* executeCommand of a session that has been aborted.  Its signal was      *)
(* aborted before the report is sent, which combineSignals does not see:   *)
(* the report goes out with whatever bearer there is by then.              *)

StrayDone(c) ==
    /\ stray[c].at = "probe"
    /\ finished' = finished \union {c}
    /\ journal' = [journal EXCEPT ![c] = "done"]
    /\ summary' = Owner[c]
    /\ stray' = [stray EXCEPT ![c] =
                   IF auth = Nobody THEN NoStray
                   ELSE [NoStray EXCEPT !.at = "report", !.as = auth]]
    /\ UNCHANGED <<auth, session, cloud, ran, bounds>>

StrayLands(c) ==
    /\ stray[c].at = "report" /\ stray[c].reply = "none"
    /\ stray' = [stray EXCEPT ![c].reply = Submitted(c, "done", stray[c].as)]
    /\ cloud' = Accepted(c, "done", stray[c].as)
    /\ UNCHANGED <<auth, session, journal, summary, ran, finished, bounds>>

(* markDelivered on success; every error ends the stray.                   *)
StrayAnswered(c) ==
    /\ stray[c].at = "report"
    /\ \/ /\ stray[c].reply = "ok"
          /\ journal' = [journal EXCEPT ![c] = "absent"]
          /\ failures' = failures
       \/ /\ stray[c].reply = "rejected"
          /\ UNCHANGED <<journal, failures>>
       \/ /\ failures < MaxFailures /\ failures' = failures + 1
          /\ journal' = journal
    /\ stray' = [stray EXCEPT ![c] = NoStray]
    /\ UNCHANGED <<auth, session, summary, cloud, ran, finished, crashes>>

-----------------------------------------------------------------------------
(* The cloud's operators, and the end of the process.                      *)

Issue(c) ==
    /\ cloud[c] = "unknown"
    /\ cloud' = [cloud EXCEPT ![c] = "queued"]
    /\ UNCHANGED <<auth, session, stray, journal, summary, ran, finished,
                   bounds>>

Expire(c) ==
    /\ cloud[c] \in {"queued", "claimed", "running"}
    /\ cloud' = [cloud EXCEPT ![c] = "expired"]
    /\ UNCHANGED <<auth, session, stray, journal, summary, ran, finished,
                   bounds>>

Crash ==
    /\ crashes < MaxCrashes
    /\ crashes' = crashes + 1
    /\ auth' = Nobody /\ session' = Off
    /\ stray' = [c \in Commands |-> NoStray]
    /\ summary' = Nobody
    /\ UNCHANGED <<journal, cloud, ran, finished, failures>>

Init ==
    /\ auth = Nobody /\ session = Off
    /\ stray = [c \in Commands |-> NoStray]
    /\ journal = [c \in Commands |-> "absent"]
    /\ summary = Nobody
    /\ cloud = [c \in Commands |-> "unknown"]
    /\ ran = [c \in Commands |-> 0] /\ finished = {}
    /\ failures = 0 /\ crashes = 0

Step == \/ TimerFires \/ Lands \/ BeatAnswered \/ Announced \/ ProbeDone
        \/ Delivered \/ Rejected

Next ==
    \/ Step \/ RequestFails \/ SessionRefused \/ SignOut \/ Crash
    \/ \E p \in Principals : SignIn(p)
    \/ \E c \in Commands : \/ StrayDone(c) \/ StrayLands(c)
                           \/ StrayAnswered(c) \/ Issue(c) \/ Expire(c)

(* Timers fire, requests are answered, and the health check has a timeout  *)
(* of its own; only finitely many requests fail.                           *)
Spec == Init /\ [][Next]_vars /\ WF_vars(Step)

-----------------------------------------------------------------------------
(* Properties                                                              *)

SessionType ==
    [at : {"off", "timer", "refused", "probe"} \union Requests,
     cmd : Commands \union {NoCommand}, sent : Receipts,
     todo : SUBSET (Commands \X Results), next : {"beat", "timer"},
     reply : {"none", "ok", "rejected"}, fresh : BOOLEAN]
StrayType ==
    [at : {"none", "probe", "report"}, as : Principals \union {Nobody},
     reply : {"none", "ok", "rejected"}]

TypeOK ==
    /\ auth \in Principals \union {Nobody}
    /\ session \in SessionType
    /\ (session.at = "off") <=> (auth = Nobody)
    /\ stray \in [Commands -> StrayType]
    /\ journal \in [Commands -> Receipts]
    /\ summary \in Principals \union {Nobody}
    /\ cloud \in [Commands -> Fates]
    /\ ran \in [Commands -> Nat] /\ finished \subseteq Commands
    /\ failures \in 0 .. MaxFailures /\ crashes \in 0 .. MaxCrashes

(* "An interrupted running command is never executed twice"                *)
(* (lat.md/agentera-desktop-control.md, line 29): whatever is lost or      *)
(* delivered again, whoever signs in meanwhile and whenever the app exits. *)
AtMostOnce == \A c \in Commands : ran[c] <= 1

(* "A terminal result can be retried" (the same line): the outcome of a    *)
(* health check is on disk until the cloud has a result for the command,   *)
(* also when the health check outlived its session.                        *)
FinishedIsKept ==
    \A c \in finished : journal[c] = "done" \/ cloud[c] \in Results

(* A result in the journal that the cloud will never accept.               *)
Unacceptable(c) == journal[c] \in Results /\ ~Advances(c, journal[c])

(* A signed-in device keeps reporting to the cloud: a session that goes on *)
(* gets a heartbeat through, whatever failed before, unless it was refused *)
(* for good or holds a result that the cloud will never accept.            *)
HeartbeatsResume ==
    \A p \in Principals :
        auth = p ~>
            \/ auth # p \/ session.fresh \/ session.at = "refused"
            \/ \E c \in Mine(p) : Unacceptable(c)
=============================================================================
