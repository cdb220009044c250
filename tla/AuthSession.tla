----------------------------- MODULE AuthSession -----------------------------
(***************************************************************************)
(* The signed-in session of the desktop app: agentera-auth/controller.ts   *)
(* with the refresh timer of lifecycle.ts and the encrypted file of        *)
(* store.ts.  One refresh at a time, one browser sign-in at a time and     *)
(* any number of sign-outs run interleaved: each is a chain of awaits on   *)
(* the cloud, and each writes the same file, the same in-memory            *)
(* authorization and the same published state when its answer arrives.     *)
(*                                                                         *)
(* A session is the number the cloud gave it; it stands for the user, the  *)
(* enrolled device and the chain of refresh tokens of one sign-in.  The    *)
(* intent to revoke a device is named by the session it ends.              *)
(***************************************************************************)
EXTENDS Integers

CONSTANTS
    MaxSessions,  \* bound: browser sign-ins the cloud ever completes
    Budgets       \* how many sign-ins and which of AllFaults happen together

AllFaults == {"lost",    \* the cloud acts on a request and its answer is lost
              "refused", \* the cloud answers with an error that is not final
              "locked",  \* the platform's secure storage throws
              "expired", \* the offline entitlement expires, or the clock is
                        \* found turned back
             "crash",   \* the app exits at any point and is started again
              "revoked"} \* a device is revoked from another device's portal

ASSUME SessionsAssumption == MaxSessions \in Nat \ {0}
Sessions == 1 .. MaxSessions
SessionOrNone == 0 .. MaxSessions

ASSUME BudgetsAssumption ==
  Budgets \subseteq [sessions : Sessions, faults : SUBSET AllFaults]

VARIABLES
    alive,      \* the sessions the cloud still honours
    disk,       \* the encrypted file: stored session, whether the cloud has
                \* rotated its token since, pending revocation
    pub,        \* the published state and the session it names
    access,     \* the session of the bearer token in memory
    entitled,   \* the session of the offline entitlement in memory
    timer,      \* the refresh timer: off, the next renewal, or a retry
    refresh,    \* refreshInFlight; current: no sessionRevision since
    attempt,    \* activeAttempt
    restart,    \* a restartBrowserLogin waits for the active attempt
    logouts,    \* the sign-out of each session that awaits the cloud
    used,       \* sessions the cloud has created
    latest,     \* history: the last session signed in and not signed out
    signedOut,  \* history: the sessions signed out with an intent on disk
    budget      \* what may happen in this behaviour

cloud == <<alive, used>>
memory == <<access, entitled>>
history == <<latest, signedOut, budget>>
vars == <<alive, disk, pub, access, entitled, timer, refresh, attempt,
          restart, logouts, used, latest, signedOut, budget>>

Faults == budget.faults

-----------------------------------------------------------------------------
(* Helpers                                                                 *)

Stored(s, p) == [session |-> s, stale |-> FALSE, pending |-> p]
NoRefresh == [phase |-> "idle", sid |-> 0, stale |-> FALSE, current |-> FALSE]
NoAttempt == [phase |-> "none", sid |-> 0, cancelled |-> FALSE]
NoLogout == [phase |-> "idle", nonce |-> 0]

Statuses == {"checking", "unauthenticated", "authenticated", "offline",
             "blocked", "locked"}
Signed == pub.status \in {"authenticated", "offline"}

Publish(status, s) == pub' = [status |-> status, who |-> s]
Forget == access' = 0 /\ entitled' = 0
Superseded_Forgotten == refresh

Superseded == [refresh EXCEPT !.current = FALSE]

(* sendSelfRevocation of session s answered with o, and the timer it arms. *)
(* A request can have reached the cloud although no answer came back.      *)
Outcomes == {"delivered", "down"} \union (Faults \intersect {"refused"})
Revocation(o, s) ==
    \/ o = "delivered" /\ alive' = alive \ {s}
    \/ o # "delivered" /\ alive' = alive
    \/ o = "down" /\ "lost" \in Faults /\ alive' = alive \ {s}
Armed(o, armed) == IF o = "down" THEN "retry" ELSE armed
Settled_Early(o, pending) == 0

Settled(o, pending) == IF o = "delivered" THEN 0 ELSE pending

-----------------------------------------------------------------------------
Init ==
    /\ alive = {} /\ used = 0
    /\ disk = Stored(0, 0)
    /\ pub = [status |-> "checking", who |-> 0]
    /\ access = 0 /\ entitled = 0
    /\ timer = "off"
    /\ refresh = NoRefresh
    /\ attempt = NoAttempt /\ restart = FALSE
    /\ logouts = [s \in SessionOrNone |-> NoLogout]
    /\ latest = 0 /\ signedOut = {}
    /\ budget \in Budgets

-----------------------------------------------------------------------------
(* refreshOnline.  armed is what the caller leaves of the timer.           *)

ReadNothing ==
    /\ disk.session = 0
    /\ Forget
    /\ Publish("unauthenticated", 0)

Send(current) ==
    /\ disk.session # 0
    /\ refresh' = [phase |-> "refreshing", sid |-> disk.session,
                   stale |-> disk.stale, current |-> current]

BeginRefresh(armed) ==
    /\ refresh.phase = "idle"
    /\ \/ /\ "locked" \in Faults
          /\ Forget
          /\ Publish("locked", 0)
          /\ timer' = "off"
          /\ UNCHANGED <<disk, refresh>>
       \/ /\ disk.pending # 0
          /\ disk' = Stored(0, disk.pending)
          /\ refresh' = [phase |-> "revoking", sid |-> disk.pending,
                         stale |-> FALSE, current |-> TRUE]
          /\ timer' = armed
          /\ UNCHANGED <<pub, memory>>
       \/ /\ disk.pending = 0
          /\ ReadNothing
          /\ timer' = "off"
          /\ UNCHANGED <<disk, refresh>>
       \/ /\ disk.pending = 0
          /\ Send(TRUE)
          /\ timer' = armed
          /\ UNCHANGED <<disk, pub, memory>>
    /\ UNCHANGED <<cloud, attempt, restart, logouts, history>>

(* initialize at startup: the first thing a new process does.              *)
Initialize ==
    /\ pub.status = "checking" /\ attempt.phase = "none"
    /\ BeginRefresh(timer)

(* The timer fires; a refresh that is in flight is shared, not repeated.   *)
(* A request is over after 15 seconds, long before a renewal is due.       *)
TimerFires ==
    /\ timer # "off"
    /\ \/ BeginRefresh("off")
       \/ /\ refresh.phase # "idle" /\ timer = "retry"
          /\ timer' = "off"
          /\ UNCHANGED <<cloud, disk, pub, memory, refresh, attempt, restart,
                         logouts, history>>

(* The gate offers Retry only while secure storage is unavailable.         *)
Retry ==
    /\ pub.status = "locked"
    /\ BeginRefresh(timer)

(* The pending revocation is answered: clearPendingRevocation, then the    *)
(* stored session is read and its token sent.                              *)
RefreshRevoked ==
    /\ refresh.phase = "revoking"
    /\ \E o \in Outcomes :
        /\ Revocation(o, refresh.sid)
        /\ disk' = [disk EXCEPT !.pending = Settled(o, disk.pending)]
        /\ \/ /\ ReadNothing
              /\ refresh' = NoRefresh
              /\ timer' = IF o = "delivered" THEN "off" ELSE Armed(o, timer)
           \/ /\ Send(refresh.current)
              /\ timer' = Armed(o, timer)
              /\ UNCHANGED <<pub, memory>>
           \/ /\ "locked" \in Faults
              /\ Forget
              /\ Publish("locked", 0)
              /\ refresh' = NoRefresh
              /\ timer' = "off"
    /\ UNCHANGED <<used, attempt, restart, logouts, history>>

(* What the cloud does with a refresh token: it honours the newest one of  *)
(* a session that is alive, and then issues the next.                      *)
Honoured == refresh.sid \in alive /\ ~refresh.stale
Rotated == IF disk.session = refresh.sid THEN [disk EXCEPT !.stale = TRUE]
                                         ELSE disk

Accept(s) ==
    /\ disk' = Stored(s, 0)
    /\ access' = s /\ entitled' = s
    /\ timer' = "renewal"
    /\ Publish("authenticated", s)

Blocked ==
    /\ Forget
    /\ timer' = "off"
    /\ Publish("blocked", 0)

GoOffline_Unverified ==
    /\ access' = 0 /\ entitled' = entitled /\ timer' = "retry"
    /\ Publish("offline", refresh.sid)

GoOffline_Unscheduled ==
    /\ access' = 0 /\ entitled' = refresh.sid /\ timer' = "off"
    /\ Publish("offline", refresh.sid)

(* enterOfflineMode: the stored entitlement still holds, or it does not.   *)
GoOffline ==
    /\ access' = 0
    /\ \/ entitled' = refresh.sid /\ timer' = "retry"
          /\ Publish("offline", refresh.sid)
       \/ "expired" \in Faults /\ entitled' = 0 /\ timer' = "off"
          /\ Publish("blocked", 0)

RefreshAnswered ==
    /\ refresh.phase = "refreshing"
    /\ \/ \* superseded: whatever the answer, nothing is written or published
          /\ ~refresh.current
          /\ disk' \in (IF Honoured THEN {Rotated} ELSE {}) \union {disk}
          /\ UNCHANGED <<pub, memory, timer>>
       \/ refresh.current /\ Honoured /\ Accept(refresh.sid)
       \/ \* the answer or its entitlement is not acceptable, or is not saved
          /\ refresh.current /\ Faults \intersect {"refused", "locked"} # {}
          /\ disk' \in (IF Honoured THEN {Rotated} ELSE {}) \union {disk}
          /\ Blocked
       \/ \* 401: revoked, or a token used before
          /\ refresh.current /\ ~Honoured
          /\ disk' = Stored(0, 0)
          /\ Blocked
       \/ \* no answer
          /\ refresh.current
          /\ \/ disk' = disk
             \/ "lost" \in Faults /\ Honoured /\ disk' = Rotated
          /\ GoOffline
    /\ refresh' = NoRefresh
    /\ UNCHANGED <<cloud, attempt, restart, logouts, history>>

-----------------------------------------------------------------------------
(* startBrowserLogin, restartBrowserLogin, cancelBrowserLogin              *)

EndLogin(status) ==
    /\ attempt' = NoAttempt
    /\ Forget
    /\ Publish(status, 0)

BeginLogin ==
    /\ attempt.phase = "none"
    /\ refresh' = Superseded
    /\ timer' = "off"
    /\ \/ /\ disk.pending # 0
          /\ disk' = Stored(0, disk.pending)
          /\ attempt' = [phase |-> "revoking", sid |-> disk.pending,
                         cancelled |-> FALSE]
          /\ Publish("checking", 0)
          /\ UNCHANGED memory
       \/ /\ disk.pending = 0
          /\ disk' = disk
          /\ attempt' = [phase |-> "browser", sid |-> 0, cancelled |-> FALSE]
          /\ Publish("checking", 0)
          /\ UNCHANGED memory
       \/ /\ "locked" \in Faults
          /\ disk' = disk
          /\ EndLogin("locked")
    /\ UNCHANGED <<cloud, logouts, history>>

(* The gate offers sign-in while nobody is signed in and nothing runs.     *)
StartLogin ==
    /\ pub.status \in {"unauthenticated", "blocked"}
    /\ ~restart
    /\ BeginLogin
    /\ UNCHANGED restart

(* The previous sign-out's revocation is answered first.                   *)
LoginRevoked ==
    /\ attempt.phase = "revoking"
    /\ \E o \in Outcomes :
        /\ Revocation(o, attempt.sid)
        /\ disk' = [disk EXCEPT !.pending = Settled(o, disk.pending)]
        /\ timer' = Armed(o, timer)
        /\ \/ /\ o # "delivered" \/ attempt.cancelled
              /\ EndLogin("unauthenticated")
           \/ /\ "locked" \in Faults
              /\ EndLogin("locked")
           \/ /\ o = "delivered" /\ ~attempt.cancelled
              /\ attempt' = [attempt EXCEPT !.phase = "browser", !.sid = 0]
              /\ UNCHANGED <<pub, memory>>
    /\ UNCHANGED <<used, refresh, restart, logouts, history>>

(* The browser calls back with a code, which is sent to be exchanged.      *)
BrowserReturns ==
    /\ attempt.phase = "browser" /\ ~attempt.cancelled
    /\ attempt' = [attempt EXCEPT !.phase = "exchanging"]
    /\ UNCHANGED <<cloud, disk, pub, memory, timer, refresh, restart, logouts,
                   history>>

BrowserFails_Untimed ==
    /\ attempt.phase = "browser" /\ attempt.cancelled
    /\ EndLogin("unauthenticated")
    /\ UNCHANGED <<cloud, disk, timer, refresh, restart, logouts, history>>

(* The listener is cancelled, or times out.                                *)
BrowserFails ==
    /\ attempt.phase = "browser"
    /\ EndLogin("unauthenticated")
    /\ UNCHANGED <<cloud, disk, timer, refresh, restart, logouts, history>>

SignIn ==
    /\ attempt.phase = "exchanging" /\ ~attempt.cancelled
    /\ used < budget.sessions
    /\ used' = used + 1 /\ alive' = alive \union {used + 1}
    /\ Accept(used + 1)
    /\ attempt' = NoAttempt
    /\ latest' = used + 1
    /\ UNCHANGED <<refresh, restart, logouts, signedOut, budget>>

ExchangeFails ==
    /\ attempt.phase = "exchanging"
    /\ \/ EndLogin("unauthenticated")
       \/ "locked" \in Faults /\ EndLogin("locked")
    /\ UNCHANGED <<cloud, disk, timer, refresh, restart, logouts, history>>

Cancelled == [attempt EXCEPT !.cancelled = (attempt.phase # "none")]

(* Restart waits for the attempt it cancels; the newest restart wins.      *)
Restart ==
    /\ attempt.phase # "none"
    /\ attempt' = Cancelled
    /\ restart' = TRUE
    /\ UNCHANGED <<cloud, disk, pub, memory, timer, refresh, logouts, history>>

RestartContinues ==
    /\ restart
    /\ BeginLogin
    /\ restart' = FALSE

Cancel ==
    /\ attempt.phase # "none"
    /\ attempt' = Cancelled
    /\ restart' = FALSE
    /\ UNCHANGED <<cloud, disk, pub, memory, timer, refresh, logouts, history>>

-----------------------------------------------------------------------------
(* logout.  A stored session is kept beside the intent until an answer;    *)
(* with none stored, an older intent is tried again.                       *)

(* createPendingAgenteraSelfRevocation for the device of session s.        *)
SignedOut(s) == s

Logout ==
    /\ Signed /\ logouts[pub.who].phase = "idle"
    /\ refresh' = Superseded
    /\ restart' = FALSE /\ attempt' = Cancelled
    /\ \/ "locked" \in Faults
          /\ UNCHANGED <<disk, pub, memory, timer, logouts, history>>
       \/ /\ Forget
          /\ timer' = "off"
          /\ Publish("unauthenticated", 0)
          /\ latest' = 0
          /\ \/ /\ disk.session # 0
                /\ disk' = [disk EXCEPT !.pending = SignedOut(disk.session)]
                /\ logouts' = [logouts EXCEPT ![pub.who] =
                                 [phase |-> "held", nonce |-> disk.session]]
                /\ signedOut' = signedOut \union {disk.session}
             \/ /\ disk.session = 0
                /\ logouts' = [logouts EXCEPT ![pub.who] =
                                 IF disk.pending = 0 THEN NoLogout
                                 ELSE [phase |-> "plain",
                                       nonce |-> disk.pending]]
                /\ UNCHANGED <<disk, signedOut>>
    /\ UNCHANGED <<cloud, budget>>

LogoutAnswered(s) ==
    /\ logouts[s].phase # "idle"
    /\ \E o \in Outcomes :
        /\ Revocation(o, logouts[s].nonce)
        /\ timer' = Armed(o, timer)
        /\ \/ /\ logouts[s].phase = "held"
              /\ \/ disk' = Stored(0, Settled(o, logouts[s].nonce))
                 \/ "locked" \in Faults /\ o # "delivered" /\ disk' = disk
           \/ /\ logouts[s].phase = "plain"
              /\ disk' = [disk EXCEPT !.pending = Settled(o, disk.pending)]
    /\ logouts' = [logouts EXCEPT ![s] = NoLogout]
    /\ UNCHANGED <<used, pub, memory, refresh, attempt, restart, history>>

-----------------------------------------------------------------------------
(* assertCanStartNewTask finds the entitlement expired or the clock turned *)
(* back, at any Runtime call.                                              *)
Expire ==
    /\ "expired" \in Faults
    /\ Signed
    /\ Publish("blocked", 0)
    /\ timer' = "off"
    /\ UNCHANGED <<cloud, disk, memory, refresh, attempt, restart, logouts,
                   history>>

CloudRevokes(s) ==
    /\ "revoked" \in Faults
    /\ s \in alive
    /\ alive' = alive \ {s}
    /\ UNCHANGED <<disk, pub, memory, timer, refresh, attempt, restart,
                   logouts, used, history>>

(* The process ends.  A request it had sent may still be acted upon.       *)
Crash ==
    /\ "crash" \in Faults
    /\ disk' \in (IF refresh.phase = "refreshing" /\ Honoured THEN {Rotated}
                  ELSE {}) \union {disk}
    /\ alive' \in {alive} \union
          {alive \ {logouts[s].nonce} : s \in SessionOrNone}
    /\ pub' = [status |-> "checking", who |-> 0]
    /\ Forget
    /\ timer' = "off"
    /\ refresh' = NoRefresh
    /\ attempt' = NoAttempt /\ restart' = FALSE
    /\ logouts' = [s \in SessionOrNone |-> NoLogout]
    /\ UNCHANGED <<used, history>>

Next ==
    \/ Initialize \/ TimerFires \/ Retry \/ RefreshRevoked \/ RefreshAnswered
    \/ StartLogin \/ LoginRevoked \/ BrowserReturns \/ BrowserFails
    \/ SignIn \/ ExchangeFails \/ Restart \/ RestartContinues \/ Cancel
    \/ Logout \/ Expire \/ Crash
    \/ \E s \in SessionOrNone : LogoutAnswered(s) \/ CloudRevokes(s)

Spec == Init /\ [][Next]_vars

(* The event loop fires due timers and resumes what is answered, every     *)
(* request ends by its timeout, and the browser listener times out.        *)
Fairness ==
    /\ WF_vars(Initialize) /\ WF_vars(TimerFires)
    /\ WF_vars(RefreshRevoked) /\ WF_vars(RefreshAnswered)
    /\ WF_vars(LoginRevoked) /\ WF_vars(BrowserFails)
    /\ WF_vars(SignIn \/ ExchangeFails) /\ WF_vars(RestartContinues)
    /\ \A s \in SessionOrNone : WF_vars(LogoutAnswered(s))
LiveSpec == Spec /\ Fairness

-----------------------------------------------------------------------------
(* Properties                                                              *)

DiskType == [session : SessionOrNone, stale : BOOLEAN,
             pending : SessionOrNone]
PubType == [status : Statuses, who : SessionOrNone]
RefreshType == [phase : {"idle", "revoking", "refreshing"},
                sid : SessionOrNone, stale : BOOLEAN, current : BOOLEAN]
AttemptType == [phase : {"none", "revoking", "browser", "exchanging"},
                sid : SessionOrNone, cancelled : BOOLEAN]
LogoutType == [phase : {"idle", "held", "plain"}, nonce : SessionOrNone]

TypeOK ==
    /\ alive \subseteq Sessions /\ used \in SessionOrNone
    /\ disk \in DiskType
    /\ pub \in PubType
    /\ access \in SessionOrNone /\ entitled \in SessionOrNone
    /\ timer \in {"off", "renewal", "retry"} /\ restart \in BOOLEAN
    /\ refresh \in RefreshType
    /\ attempt \in AttemptType
    /\ logouts \in [SessionOrNone -> LogoutType]
    /\ latest \in SessionOrNone /\ signedOut \subseteq Sessions
    /\ budget \in Budgets

(* Whoever is published as signed in is the last account that signed in    *)
(* and has not signed out: no refresh answered late, no session kept for a *)
(* sign-out in progress and no restart brings another back.                *)
NoResurrection == Signed => pub.who = latest

(* The bearer token for the cloud and the entitlement that every Runtime   *)
(* call is checked against are of one session, and it is the published     *)
(* one while somebody is signed in.                                        *)
OneAccountInMemory ==
    /\ access \in {0, entitled}
    /\ Signed => entitled = pub.who

(* Access never ends silently with its entitlement: no step leaves a        *)
(* session in use without a timer and without a refresh in flight, unless   *)
(* the refresh that ended had been superseded by a sign-out or a sign-in.  *)
RenewalContinues ==
    [][Signed' /\ timer' = "off" /\ refresh'.phase = "idle"
         => Signed /\ timer = "off" /\ ~refresh.current]_vars

(* While only one session has been, its device is revoked when it was      *)
(* signed out, or the file still says that it is to be.  The intent of one *)
(* sign-out may be cleared by the answer to another's.                     *)
IntentsAreDelivered ==
    used <= 1 => \A s \in signedOut \intersect alive : disk.pending = s

(* A completed sign-in is the session in the file: a sign-out answered     *)
(* late does not take it away.                                             *)
NewLoginKept == pub.status = "authenticated" => disk.session = pub.who

(* The gate does not show "checking" for ever: startup, a sign-in nobody   *)
(* finishes and a restarted one all end in a state the user can act on,    *)
(* unless the app never stops crashing.                                    *)
GateIsNeverStuck ==
    (pub.status = "checking" ~> pub.status # "checking") \/ []<><<Crash>>_vars
=============================================================================
