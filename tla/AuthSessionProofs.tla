--------------------------- MODULE AuthSessionProofs ---------------------------
(***************************************************************************)
(* Proofs about AuthSession, for any number of sessions and any faults.    *)
(* Types and OneAccountInMemory stand by themselves.  Created says that    *)
(* whatever names a session names one the cloud has created; FirstSession  *)
(* how the file, what is published and what is in flight agree while it    *)
(* has created one only.                                                   *)
(***************************************************************************)
EXTENDS AuthSession, TLAPS

USE DEF cloud, memory, history, vars

-----------------------------------------------------------------------------
(* What the values that the actions write belong to.                       *)

(* No session is a value a session field may have.                         *)
LEMMA NoneTyped == 0 \in SessionOrNone
  BY SessionsAssumption DEF SessionOrNone

(* A session is one of the values a session field may have.                *)
LEMMA SessionTyped ==
  /\ Sessions \subseteq SessionOrNone
  /\ \A s \in SessionOrNone : s # 0 => s \in Sessions
  BY SessionsAssumption DEF SessionOrNone, Sessions

(* The file as the store writes it, and with one field changed.            *)
LEMMA DiskTyped ==
  /\ \A s, p \in SessionOrNone : Stored(s, p) \in DiskType
  /\ \A d \in DiskType, p \in SessionOrNone :
       [d EXCEPT !.pending = p] \in DiskType
  /\ \A d \in DiskType : [d EXCEPT !.stale = TRUE] \in DiskType
  /\ \A d \in DiskType : d.session \in SessionOrNone
                          /\ d.pending \in SessionOrNone
                          /\ d.stale \in BOOLEAN
  BY DEF Stored, DiskType

(* What is published.                                                      *)
LEMMA PubTyped ==
  /\ \A st \in Statuses, s \in SessionOrNone :
       [status |-> st, who |-> s] \in PubType
  /\ \A p \in PubType : p.who \in SessionOrNone
  BY DEF PubType

(* The refresh in flight: none, one that was sent, one superseded.         *)
LEMMA RefreshTyped ==
  /\ NoRefresh \in RefreshType
  /\ \A ph \in {"revoking", "refreshing"}, s \in SessionOrNone,
        st, c \in BOOLEAN :
       [phase |-> ph, sid |-> s, stale |-> st, current |-> c] \in RefreshType
  /\ \A r \in RefreshType : [r EXCEPT !.current = FALSE] \in RefreshType
  /\ \A r \in RefreshType : r.sid \in SessionOrNone /\ r.current \in BOOLEAN
  BY NoneTyped DEF NoRefresh, RefreshType

(* The sign-in attempt: none, one that was started, one moved on.          *)
LEMMA AttemptTyped ==
  /\ NoAttempt \in AttemptType
  /\ \A ph \in {"revoking", "browser"}, s \in SessionOrNone :
       [phase |-> ph, sid |-> s, cancelled |-> FALSE] \in AttemptType
  /\ \A a \in AttemptType, c \in BOOLEAN :
       [a EXCEPT !.cancelled = c] \in AttemptType
  /\ \A a \in AttemptType : [a EXCEPT !.phase = "exchanging"] \in AttemptType
  /\ \A a \in AttemptType :
       [a EXCEPT !.phase = "browser", !.sid = 0] \in AttemptType
  /\ \A a \in AttemptType : a.sid \in SessionOrNone
  BY NoneTyped DEF NoAttempt, AttemptType

(* The sign-outs that await the cloud.                                     *)
LEMMA LogoutsTyped ==
  /\ NoLogout \in LogoutType
  /\ \A ph \in {"held", "plain"}, n \in SessionOrNone :
       [phase |-> ph, nonce |-> n] \in LogoutType
  /\ \A l \in LogoutType : l.nonce \in SessionOrNone
  BY NoneTyped DEF NoLogout, LogoutType

(* An answered revocation: the cloud's sessions, the timer and the intent. *)
LEMMA RevocationTyped ==
  ASSUME alive \subseteq Sessions, NEW s, NEW o \in Outcomes,
         Revocation(o, s)
  PROVE  /\ alive' \subseteq Sessions
         /\ \A t \in {"off", "renewal", "retry"} :
              Armed(o, t) \in {"off", "renewal", "retry"}
         /\ \A p \in SessionOrNone : Settled(o, p) \in SessionOrNone
  BY NoneTyped DEF Revocation, Armed, Settled

-----------------------------------------------------------------------------
(* The two chains of calls that several actions share.                     *)

(* A refresh is sent for the stored session.                               *)
LEMMA SendTypes ==
  ASSUME disk \in DiskType, NEW current \in BOOLEAN, Send(current)
  PROVE  refresh' \in RefreshType
  BY DEF Send, DiskType, RefreshType

(* refreshOnline leaves every variable in its type.                        *)
LEMMA BeginRefreshTypes ==
  ASSUME TypeOK, NEW armed \in {"off", "renewal", "retry"},
         BeginRefresh(armed)
  PROVE  TypeOK'
  <1>1. pub' \in PubType
    BY NoneTyped, PubTyped
    DEF BeginRefresh, ReadNothing, Send, Publish, Statuses, TypeOK
  <1>2. access' \in SessionOrNone /\ entitled' \in SessionOrNone
    BY NoneTyped DEF BeginRefresh, ReadNothing, Send, Forget, TypeOK
  <1>3. disk' \in DiskType
    BY NoneTyped, DiskTyped DEF BeginRefresh, ReadNothing, Send, TypeOK
  <1>4. refresh' \in RefreshType
    <2>1. CASE refresh' = refresh
      BY <2>1 DEF TypeOK
    <2>2. CASE refresh' = [phase |-> "revoking", sid |-> disk.pending,
                           stale |-> FALSE, current |-> TRUE]
      BY <2>2, DiskTyped, RefreshTyped DEF TypeOK
    <2>3. CASE Send(TRUE)
      BY <2>3, SendTypes DEF TypeOK
    <2> QED  BY <2>1, <2>2, <2>3 DEF BeginRefresh
  <1>5. timer' \in {"off", "renewal", "retry"}
    BY DEF BeginRefresh
  <1> QED  BY <1>1, <1>2, <1>3, <1>4, <1>5 DEF BeginRefresh, TypeOK

(* startBrowserLogin leaves every variable but restart in its type.        *)
LEMMA BeginLoginTypes ==
  ASSUME TypeOK, BeginLogin, restart' \in BOOLEAN
  PROVE  TypeOK'
  <1>1. pub' \in PubType
    BY NoneTyped, PubTyped DEF BeginLogin, EndLogin, Publish, Statuses
  <1>2. access' \in SessionOrNone /\ entitled' \in SessionOrNone
    BY NoneTyped DEF BeginLogin, EndLogin, Forget, TypeOK
  <1>3. disk' \in DiskType
    BY NoneTyped, DiskTyped DEF BeginLogin, TypeOK
  <1>4. refresh' \in RefreshType
    BY RefreshTyped DEF BeginLogin, Superseded, TypeOK
  <1>5. attempt' \in AttemptType
    BY NoneTyped, DiskTyped, AttemptTyped DEF BeginLogin, EndLogin, TypeOK
  <1> QED  BY <1>1, <1>2, <1>3, <1>4, <1>5 DEF BeginLogin, TypeOK

(* Every step keeps every variable in its type.                            *)
LEMMA Typing == TypeOK /\ [Next]_vars => TypeOK'
  <1> SUFFICES ASSUME TypeOK, [Next]_vars PROVE TypeOK'
    OBVIOUS
  <1>1. CASE Initialize
    BY <1>1, BeginRefreshTypes DEF Initialize, TypeOK
  <1>2. CASE TimerFires
    <2>1. CASE BeginRefresh("off")
      BY <2>1, BeginRefreshTypes
    <2>2. CASE ~BeginRefresh("off")
      BY <1>2, <2>2 DEF TimerFires, TypeOK
    <2> QED  BY <2>1, <2>2
  <1>3. CASE Retry
    BY <1>3, BeginRefreshTypes DEF Retry, TypeOK
  <1>4. CASE StartLogin
    BY <1>4, BeginLoginTypes DEF StartLogin, TypeOK
  <1>5. CASE RestartContinues
    BY <1>5, BeginLoginTypes DEF RestartContinues
  <1>6. CASE RefreshRevoked
    <2>1. PICK o \in Outcomes :
             /\ Revocation(o, refresh.sid)
             /\ disk' = [disk EXCEPT !.pending = Settled(o, disk.pending)]
             /\ \/ /\ ReadNothing
                   /\ refresh' = NoRefresh
                   /\ timer' = IF o = "delivered" THEN "off"
                                                  ELSE Armed(o, timer)
                \/ /\ Send(refresh.current)
                   /\ timer' = Armed(o, timer)
                   /\ UNCHANGED <<pub, memory>>
                \/ /\ "locked" \in Faults
                   /\ Forget
                   /\ Publish("locked", 0)
                   /\ refresh' = NoRefresh
                   /\ timer' = "off"
      BY <1>6 DEF RefreshRevoked
    <2>2. alive' \subseteq Sessions /\ timer' \in {"off", "renewal", "retry"}
      BY <2>1, RevocationTyped DEF TypeOK
    <2>3. disk' \in DiskType
      BY <2>1, DiskTyped, RevocationTyped DEF TypeOK
    <2>4. refresh' \in RefreshType
      BY <2>1, RefreshTyped, SendTypes DEF TypeOK
    <2>5. pub' \in PubType
      BY <2>1, NoneTyped, PubTyped DEF ReadNothing, Publish, Statuses, TypeOK
    <2>6. access' \in SessionOrNone /\ entitled' \in SessionOrNone
      BY <2>1, NoneTyped DEF ReadNothing, Forget, TypeOK
    <2> QED  BY <1>6, <2>2, <2>3, <2>4, <2>5, <2>6 DEF RefreshRevoked, TypeOK
  <1>7. CASE RefreshAnswered
    <2>1. disk' \in DiskType
      <3>1. Rotated \in DiskType
        BY DiskTyped DEF Rotated, TypeOK
      <3> QED  BY <1>7, <3>1, NoneTyped, DiskTyped, RefreshTyped
               DEF RefreshAnswered, Accept, TypeOK
    <2>2. pub' \in PubType
      BY <1>7, NoneTyped, PubTyped, RefreshTyped
      DEF RefreshAnswered, Accept, Blocked, GoOffline, Publish, Statuses, TypeOK
    <2>3. access' \in SessionOrNone /\ entitled' \in SessionOrNone
      BY <1>7, NoneTyped, RefreshTyped
      DEF RefreshAnswered, Accept, Blocked, GoOffline, Forget, TypeOK
    <2>4. timer' \in {"off", "renewal", "retry"}
      BY <1>7 DEF RefreshAnswered, Accept, Blocked, GoOffline, TypeOK
    <2> QED  BY <1>7, <2>1, <2>2, <2>3, <2>4, RefreshTyped
             DEF RefreshAnswered, TypeOK
  <1>8. CASE LoginRevoked
    <2>1. PICK o \in Outcomes :
             /\ Revocation(o, attempt.sid)
             /\ disk' = [disk EXCEPT !.pending = Settled(o, disk.pending)]
             /\ timer' = Armed(o, timer)
             /\ \/ \E st \in Statuses : EndLogin(st)
                \/ /\ attempt' = [attempt EXCEPT !.phase = "browser", !.sid = 0]
                   /\ UNCHANGED <<pub, memory>>
      BY <1>8 DEF LoginRevoked, Statuses
    <2>2. alive' \subseteq Sessions /\ timer' \in {"off", "renewal", "retry"}
      BY <2>1, RevocationTyped DEF TypeOK
    <2>3. disk' \in DiskType
      BY <2>1, DiskTyped, RevocationTyped DEF TypeOK
    <2>4. /\ pub' \in PubType /\ attempt' \in AttemptType
          /\ access' \in SessionOrNone /\ entitled' \in SessionOrNone
      BY <2>1, NoneTyped, AttemptTyped, PubTyped
      DEF EndLogin, Publish, Forget, TypeOK
    <2> QED  BY <1>8, <2>2, <2>3, <2>4 DEF LoginRevoked, TypeOK
  <1>9. CASE BrowserReturns
    BY <1>9, AttemptTyped DEF BrowserReturns, TypeOK
  <1>10. CASE BrowserFails
    BY <1>10, NoneTyped, AttemptTyped, PubTyped
    DEF BrowserFails, EndLogin, Publish, Forget, Statuses, TypeOK
  <1>11. CASE SignIn
    <2>1. used + 1 \in Sessions
      BY <1>11, SessionsAssumption, BudgetsAssumption
      DEF SignIn, Sessions, SessionOrNone, TypeOK
    <2>2. disk' \in DiskType /\ pub' \in PubType /\ attempt' \in AttemptType
      BY <1>11, <2>1, NoneTyped, SessionTyped, DiskTyped, PubTyped, AttemptTyped
      DEF SignIn, Accept, Publish, Statuses
    <2> QED  BY <1>11, <2>1, <2>2, SessionTyped DEF SignIn, Accept, TypeOK
  <1>12. CASE ExchangeFails
    BY <1>12, NoneTyped, AttemptTyped, PubTyped
    DEF ExchangeFails, EndLogin, Publish, Forget, Statuses, TypeOK
  <1>13. Cancelled \in AttemptType
    BY AttemptTyped DEF Cancelled, TypeOK
  <1>14. CASE Restart
    BY <1>13, <1>14 DEF Restart, TypeOK
  <1>15. CASE Cancel
    BY <1>13, <1>15 DEF Cancel, TypeOK
  <1>16. CASE Logout
    <2>1. disk' \in DiskType
      BY <1>16, DiskTyped DEF Logout, SignedOut, TypeOK
    <2>2. refresh' \in RefreshType
      BY <1>16, RefreshTyped DEF Logout, Superseded, TypeOK
    <2>3. logouts' \in [SessionOrNone -> LogoutType]
      <3>1. PICK l \in LogoutType :
              logouts' = logouts \/ logouts' = [logouts EXCEPT ![pub.who] = l]
        BY <1>16, DiskTyped, LogoutsTyped DEF Logout, TypeOK
      <3> QED  BY <3>1 DEF TypeOK
    <2>4. pub' \in PubType /\ signedOut' \subseteq Sessions
      BY <1>16, NoneTyped, PubTyped, SessionTyped, DiskTyped
      DEF Logout, Publish, Statuses, TypeOK
    <2>5. /\ access' \in SessionOrNone /\ entitled' \in SessionOrNone
          /\ latest' \in SessionOrNone
      BY <1>16, NoneTyped DEF Logout, Forget, TypeOK
    <2> QED  BY <1>13, <1>16, <2>1, <2>2, <2>3, <2>4, <2>5 DEF Logout, TypeOK
  <1>17. CASE Expire
    BY <1>17, NoneTyped, PubTyped DEF Expire, Publish, Statuses, TypeOK
  <1>18. CASE Crash
    <2>1. disk' \in DiskType
      BY <1>18, DiskTyped DEF Crash, Rotated, TypeOK
    <2>2. logouts' \in [SessionOrNone -> LogoutType]
      BY <1>18, LogoutsTyped DEF Crash
    <2>3. pub' \in PubType /\ alive' \subseteq Sessions
      BY <1>18, NoneTyped, PubTyped DEF Crash, Statuses, TypeOK
    <2> QED  BY <1>18, <2>1, <2>2, <2>3, NoneTyped, RefreshTyped, AttemptTyped
             DEF Crash, Forget, TypeOK
  <1>19. CASE \E s \in SessionOrNone : LogoutAnswered(s)
    <2>1. PICK s \in SessionOrNone : LogoutAnswered(s)
      BY <1>19
    <2>2. logouts[s].nonce \in SessionOrNone
      BY LogoutsTyped DEF TypeOK
    <2>3. PICK o \in Outcomes :
             /\ Revocation(o, logouts[s].nonce)
             /\ timer' = Armed(o, timer)
             /\ \/ disk' = Stored(0, Settled(o, logouts[s].nonce))
                \/ disk' = disk
                \/ disk' = [disk EXCEPT !.pending = Settled(o, disk.pending)]
      BY <2>1 DEF LogoutAnswered
    <2>4. alive' \subseteq Sessions /\ timer' \in {"off", "renewal", "retry"}
      BY <2>3, RevocationTyped DEF TypeOK
    <2>5. disk' \in DiskType
      BY <2>2, <2>3, NoneTyped, DiskTyped, RevocationTyped DEF TypeOK
    <2>6. logouts' \in [SessionOrNone -> LogoutType]
      BY <2>1, LogoutsTyped DEF LogoutAnswered, TypeOK
    <2> QED  BY <2>1, <2>4, <2>5, <2>6 DEF LogoutAnswered, TypeOK
  <1>20. CASE \E s \in SessionOrNone : CloudRevokes(s)
    BY <1>20 DEF CloudRevokes, TypeOK
  <1>21. CASE UNCHANGED vars
    BY <1>21 DEF TypeOK
  <1> QED
    BY <1>1, <1>2, <1>3, <1>4, <1>5, <1>6, <1>7, <1>8, <1>9, <1>10, <1>11,
       <1>12, <1>14, <1>15, <1>16, <1>17, <1>18, <1>19, <1>20, <1>21 DEF Next

(* The type invariant, for every value of the constants.                   *)
THEOREM TypeCorrect == Spec => []TypeOK
  <1>1. Init => TypeOK
    <2>1. /\ Stored(0, 0) \in DiskType
          /\ [status |-> "checking", who |-> 0] \in PubType
          /\ NoRefresh \in RefreshType /\ NoAttempt \in AttemptType
          /\ NoLogout \in LogoutType
      BY NoneTyped, DiskTyped, PubTyped, RefreshTyped, AttemptTyped,
         LogoutsTyped DEF Statuses
    <2> QED  BY <2>1, NoneTyped DEF Init, TypeOK
  <1> QED  BY <1>1, Typing, PTL DEF Spec

-----------------------------------------------------------------------------
(* The authorization in memory.                                            *)

(* Every step keeps the token, the entitlement and the published session   *)
(* those of one session.                                                   *)
LEMMA OneAccountStep ==
  TypeOK /\ OneAccountInMemory /\ [Next]_vars => OneAccountInMemory'
  <1> SUFFICES ASSUME OneAccountInMemory, [Next]_vars
               PROVE  OneAccountInMemory'
    OBVIOUS
  <1> USE DEF OneAccountInMemory, Signed, Publish, Forget
  <1>1. ASSUME NEW armed, BeginRefresh(armed) PROVE OneAccountInMemory'
    BY <1>1 DEF BeginRefresh, ReadNothing, Send
  <1>2. ASSUME BeginLogin PROVE OneAccountInMemory'
    BY <1>2 DEF BeginLogin, EndLogin
  <1>3. CASE Initialize \/ TimerFires \/ Retry
    BY <1>1, <1>3 DEF Initialize, TimerFires, Retry
  <1>4. CASE StartLogin \/ RestartContinues
    BY <1>2, <1>4 DEF StartLogin, RestartContinues
  <1>5. CASE RefreshRevoked
    BY <1>5 DEF RefreshRevoked, ReadNothing, Send
  <1>6. CASE RefreshAnswered
    BY <1>6 DEF RefreshAnswered, Accept, Blocked, GoOffline
  <1>7. CASE LoginRevoked \/ BrowserReturns \/ BrowserFails \/ ExchangeFails
    BY <1>7 DEF LoginRevoked, BrowserReturns, BrowserFails, ExchangeFails,
                EndLogin
  <1>8. CASE SignIn
    BY <1>8 DEF SignIn, Accept
  <1>9. CASE Restart \/ Cancel \/ Expire \/ Crash
    BY <1>9 DEF Restart, Cancel, Expire, Crash
  <1>10. CASE Logout
    BY <1>10 DEF Logout
  <1>11. CASE \E s \in SessionOrNone : LogoutAnswered(s) \/ CloudRevokes(s)
    BY <1>11 DEF LogoutAnswered, CloudRevokes
  <1>12. CASE UNCHANGED vars
    BY <1>12
  <1> QED
    BY <1>3, <1>4, <1>5, <1>6, <1>7, <1>8, <1>9, <1>10, <1>11, <1>12 DEF Next

(* The bearer token and the entitlement are those of the published         *)
(* session, for any number of sign-ins and with every fault.               *)
THEOREM OneAccount == Spec => []OneAccountInMemory
  <1>1. Init => OneAccountInMemory
    BY DEF Init, OneAccountInMemory, Signed
  <1> QED  BY <1>1, TypeCorrect, OneAccountStep, PTL DEF Spec

-----------------------------------------------------------------------------
(* Sessions that the cloud has created, and the first of them.             *)

(* Whatever names a session names one that the cloud has created; an intent *)
(* that is being delivered names one.                                       *)
Created ==
    /\ used \in Nat
    /\ alive \subseteq 1 .. used /\ signedOut \subseteq 1 .. used
    /\ disk.session \in 0 .. used /\ disk.pending \in 0 .. used
    /\ refresh.sid \in 0 .. used /\ attempt.sid \in 0 .. used
    /\ latest \in 0 .. used /\ pub.who \in 0 .. used
    /\ \A s \in SessionOrNone :
         /\ logouts[s].nonce \in 0 .. used
         /\ logouts[s].phase # "idle" => logouts[s].nonce # 0
    /\ refresh.phase = "idle" => ~refresh.current
    /\ refresh.phase = "revoking" => refresh.sid # 0
    /\ attempt.phase = "revoking" => attempt.sid # 0

(* A refresh whose answer will be accepted.                                 *)
Awaited == refresh.phase = "refreshing" /\ refresh.current

(* While the cloud has created one session only: an intent, on disk or      *)
(* being delivered, means that it was signed out; then nobody is signed in, *)
(* no answer can change that, and the file holds the session only beside    *)
(* the intent.                                                              *)
FirstSession ==
    used <= 1 =>
      /\ disk.pending # 0 \/ signedOut # {} => latest = 0
      /\ \A s \in SessionOrNone :
           /\ logouts[s].phase # "idle" => latest = 0
           /\ logouts[s].phase # "plain"
      /\ latest = 0 => /\ ~Signed /\ ~Awaited
                       /\ disk.session # 0 => disk.pending # 0
      /\ Signed => disk.session # 0 /\ pub.who # 0
      /\ Awaited => disk.session # 0 /\ refresh.sid # 0
      /\ refresh.phase = "revoking" \/ attempt.phase = "revoking"
           => disk.session = 0
      /\ \A s \in signedOut \intersect alive : disk.pending = s

(* A record with one field changed keeps the others.                       *)
LEMMA Fields ==
  /\ \A p : \A d \in DiskType :
       /\ [d EXCEPT !.pending = p].session = d.session
       /\ [d EXCEPT !.pending = p].pending = p
  /\ \A d \in DiskType : /\ [d EXCEPT !.stale = TRUE].session = d.session
                         /\ [d EXCEPT !.stale = TRUE].pending = d.pending
  /\ \A r \in RefreshType : /\ [r EXCEPT !.current = FALSE].phase = r.phase
                            /\ [r EXCEPT !.current = FALSE].sid = r.sid
                            /\ [r EXCEPT !.current = FALSE].current = FALSE
  /\ \A c : \A a \in AttemptType :
       /\ [a EXCEPT !.cancelled = c].phase = a.phase
       /\ [a EXCEPT !.cancelled = c].sid = a.sid
  /\ \A a \in AttemptType :
       /\ [a EXCEPT !.phase = "exchanging"].phase = "exchanging"
       /\ [a EXCEPT !.phase = "exchanging"].sid = a.sid
       /\ [a EXCEPT !.phase = "browser", !.sid = 0].phase = "browser"
       /\ [a EXCEPT !.phase = "browser", !.sid = 0].sid = 0
  BY DEF DiskType, RefreshType, AttemptType

(* What the two invariants say of the state is kept by refreshOnline, ...  *)
LEMMA BeginRefreshCreated ==
  ASSUME TypeOK, Created, FirstSession, NEW armed, BeginRefresh(armed)
  PROVE  Created' /\ FirstSession'
  <1> USE DEF Publish, Forget, Stored, Awaited, Signed, ReadNothing, Send
  <1>1. CASE disk.pending # 0
    BY <1>1 DEF BeginRefresh, Created, FirstSession
  <1>2. CASE disk.pending = 0
    BY <1>2 DEF BeginRefresh, Created, FirstSession
  <1> QED  BY <1>1, <1>2

(* ... by startBrowserLogin, ...                                           *)
LEMMA BeginLoginCreated ==
  ASSUME TypeOK, Created, FirstSession, BeginLogin
  PROVE  Created' /\ FirstSession'
  <1>1. /\ refresh'.phase = refresh.phase /\ refresh'.sid = refresh.sid
        /\ refresh'.current = FALSE
    BY Fields DEF TypeOK, BeginLogin, Superseded
  <1> USE DEF Publish, Forget, Stored, Awaited, Signed, EndLogin, NoAttempt
  <1>2. CASE disk.pending # 0
    BY <1>1, <1>2 DEF BeginLogin, Created, FirstSession
  <1>3. CASE disk.pending = 0
    BY <1>1, <1>3 DEF BeginLogin, Created, FirstSession
  <1> QED  BY <1>2, <1>3

(* ... and by every step.                                                  *)
LEMMA CreatedStep ==
  TypeOK /\ Created /\ FirstSession /\ [Next]_vars => Created' /\ FirstSession'
  <1> SUFFICES ASSUME TypeOK, Created, FirstSession, [Next]_vars
               PROVE  Created' /\ FirstSession'
    OBVIOUS
  <1> USE DEF Publish, Forget, Stored, Awaited, Signed
  <1>1. CASE Initialize \/ TimerFires \/ Retry
    <2>1. ASSUME NEW armed, BeginRefresh(armed)
          PROVE  Created' /\ FirstSession'
      BY <2>1, BeginRefreshCreated
    <2>2. CASE ~\E armed : BeginRefresh(armed)
      BY <1>1, <2>2 DEF Initialize, TimerFires, Retry, Created, FirstSession
    <2> QED  BY <2>1, <2>2
  <1>2. CASE StartLogin \/ RestartContinues
    BY <1>2, BeginLoginCreated DEF StartLogin, RestartContinues
  <1>3. CASE RefreshRevoked
    <2>1. PICK o \in Outcomes :
             /\ Revocation(o, refresh.sid)
             /\ disk' = [disk EXCEPT !.pending = Settled(o, disk.pending)]
             /\ \/ ReadNothing /\ refresh' = NoRefresh
                \/ Send(refresh.current) /\ UNCHANGED <<pub, memory>>
                \/ Publish("locked", 0) /\ refresh' = NoRefresh
      BY <1>3 DEF RefreshRevoked
    <2>2. /\ disk'.session = disk.session
          /\ disk'.pending = Settled(o, disk.pending)
      BY <2>1, Fields DEF TypeOK
    <2>3. /\ disk'.pending \in {0, disk.pending}
          /\ disk'.pending # disk.pending => alive' = alive \ {refresh.sid}
          /\ alive' \subseteq alive
      BY <2>1, <2>2 DEF Revocation, Settled
    <2>4. UNCHANGED <<used, attempt, logouts, latest, signedOut>>
      BY <1>3 DEF RefreshRevoked
    <2>5. refresh.phase = "revoking"
      BY <1>3 DEF RefreshRevoked
    <2>6. Created'
      BY <2>1, <2>2, <2>3, <2>4
      DEF Created, ReadNothing, Send, NoRefresh
    <2>7. FirstSession'
      BY <2>1, <2>2, <2>3, <2>4, <2>5
      DEF Created, FirstSession, ReadNothing, Send, NoRefresh
    <2> QED  BY <2>6, <2>7
  <1>4. CASE RefreshAnswered
    <2>1. /\ UNCHANGED <<alive, used, attempt, logouts, latest, signedOut>>
          /\ refresh' = NoRefresh /\ refresh.phase = "refreshing"
      BY <1>4 DEF RefreshAnswered
    <2>2. Rotated.session = disk.session /\ Rotated.pending = disk.pending
      BY Fields DEF TypeOK, Rotated
    <2>3. \/ /\ disk'.session = disk.session /\ disk'.pending = disk.pending
             /\ \/ pub' = pub
                \/ pub' = [status |-> "blocked", who |-> 0]
                \/ Awaited /\ pub' = [status |-> "offline", who |-> refresh.sid]
          \/ /\ disk' = [session |-> 0, stale |-> FALSE, pending |-> 0]
             /\ Awaited /\ pub' = [status |-> "blocked", who |-> 0]
             /\ refresh.sid \notin alive \/ refresh.stale
          \/ /\ disk' = [session |-> refresh.sid, stale |-> FALSE, pending |-> 0]
             /\ Awaited /\ pub' = [status |-> "authenticated", who |-> refresh.sid]
      BY <1>4, <2>2 DEF RefreshAnswered, Accept, Blocked, GoOffline, Honoured
    <2>4. Created'
      BY <2>1, <2>3 DEF Created, NoRefresh
    <2>5. FirstSession'
      BY <2>1, <2>3 DEF Created, FirstSession, NoRefresh
    <2> QED  BY <2>4, <2>5
  <1>5. CASE LoginRevoked
    <2>1. PICK o \in Outcomes :
             /\ Revocation(o, attempt.sid)
             /\ disk' = [disk EXCEPT !.pending = Settled(o, disk.pending)]
             /\ \/ \E st \in {"unauthenticated", "locked"} : EndLogin(st)
                \/ /\ attempt' = [attempt EXCEPT !.phase = "browser", !.sid = 0]
                   /\ UNCHANGED <<pub, memory>>
      BY <1>5 DEF LoginRevoked
    <2>2. /\ disk'.session = disk.session
          /\ disk'.pending = Settled(o, disk.pending)
      BY <2>1, Fields DEF TypeOK
    <2>3. /\ disk'.pending \in {0, disk.pending}
          /\ disk'.pending # disk.pending => alive' = alive \ {attempt.sid}
          /\ alive' \subseteq alive
      BY <2>1, <2>2 DEF Revocation, Settled
    <2>4. /\ UNCHANGED <<used, refresh, logouts, latest, signedOut>>
          /\ attempt.phase = "revoking"
      BY <1>5 DEF LoginRevoked
    <2>5. /\ attempt'.phase # "revoking" /\ attempt'.sid = 0
          /\ \/ pub' = pub
             \/ pub'.who = 0 /\ pub'.status \notin {"authenticated", "offline"}
      <3>1. CASE \E st \in {"unauthenticated", "locked"} : EndLogin(st)
        BY <3>1 DEF EndLogin, NoAttempt
      <3>2. CASE /\ attempt' = [attempt EXCEPT !.phase = "browser", !.sid = 0]
                 /\ pub' = pub
        BY <3>2, Fields DEF TypeOK
      <3> QED  BY <2>1, <3>1, <3>2
    <2>6. Created'
      BY <2>2, <2>3, <2>4, <2>5 DEF Created
    <2>7. FirstSession'
      BY <2>2, <2>3, <2>4, <2>5 DEF Created, FirstSession
    <2> QED  BY <2>6, <2>7
  <1>6. CASE BrowserReturns \/ Restart \/ Cancel
    <2>1. /\ attempt'.phase = "revoking" => attempt.phase = "revoking"
          /\ attempt'.sid = attempt.sid
      <3>1. CASE BrowserReturns
        BY <3>1, Fields DEF TypeOK, BrowserReturns
      <3>2. CASE attempt' = Cancelled
        BY <3>2, Fields DEF TypeOK, Cancelled
      <3> QED  BY <1>6, <3>1, <3>2 DEF Restart, Cancel
    <2>2. UNCHANGED <<cloud, disk, pub, refresh, logouts, latest, signedOut>>
      BY <1>6 DEF BrowserReturns, Restart, Cancel
    <2>3. Created'
      BY <2>1, <2>2 DEF Created
    <2>4. FirstSession'
      BY <2>1, <2>2 DEF FirstSession
    <2> QED  BY <2>3, <2>4
  <1>7. CASE BrowserFails \/ ExchangeFails
    <2>1. /\ UNCHANGED <<cloud, disk, refresh, logouts, latest, signedOut>>
          /\ attempt'.phase = "none" /\ attempt'.sid = 0
          /\ pub'.who = 0 /\ pub'.status \notin {"authenticated", "offline"}
      BY <1>7 DEF BrowserFails, ExchangeFails, EndLogin, NoAttempt
    <2>2. Created'
      BY <2>1 DEF Created
    <2>3. FirstSession'
      BY <2>1 DEF FirstSession
    <2> QED  BY <2>2, <2>3
  <1>8. CASE SignIn
    <2>1. used \in Nat
      BY SessionsAssumption DEF TypeOK, SessionOrNone
    <2>2. Created'
      BY <1>8, <2>1 DEF SignIn, Accept, NoAttempt, Created
    <2>3. CASE used = 0
      <3>1. \A s \in SessionOrNone : logouts[s].phase = "idle"
        BY <2>3 DEF Created
      <3>2. signedOut = {} /\ refresh.phase # "revoking"
        BY <2>3 DEF Created
      <3>3. /\ disk' = Stored(1, 0) /\ attempt' = NoAttempt
            /\ pub' = [status |-> "authenticated", who |-> 1] /\ latest' = 1
            /\ UNCHANGED <<refresh, logouts, signedOut>>
        BY <1>8, <2>3 DEF SignIn, Accept
      <3>4. ~Awaited
        BY <2>3 DEF Created, FirstSession
      <3> QED  BY <2>2, <3>1, <3>2, <3>3, <3>4 DEF NoAttempt, FirstSession
    <2>4. CASE used # 0
      <3>1. used' = used + 1
        BY <1>8 DEF SignIn
      <3>2. ~(used' <= 1)
        BY <2>1, <2>4, <3>1
      <3> QED  BY <2>2, <3>2 DEF FirstSession
    <2> QED  BY <2>2, <2>3, <2>4
  <1>9. CASE Logout
    <2>1. /\ refresh'.phase = refresh.phase /\ refresh'.sid = refresh.sid
          /\ refresh'.current = FALSE
          /\ attempt'.phase = attempt.phase /\ attempt'.sid = attempt.sid
      BY <1>9, Fields DEF TypeOK, Logout, Superseded, Cancelled
    <2>2. UNCHANGED <<alive, used>>
      BY <1>9 DEF Logout
    <2>3. \A s \in SessionOrNone : pub.who = s \/ pub.who # s
      OBVIOUS
    <2>4. CASE UNCHANGED <<disk, pub, memory, timer, logouts, history>>
      BY <2>1, <2>2, <2>4 DEF Created, FirstSession
    <2>5. ASSUME disk.session # 0,
                 disk' = [disk EXCEPT !.pending = SignedOut(disk.session)],
                 logouts' = [logouts EXCEPT ![pub.who] =
                               [phase |-> "held", nonce |-> disk.session]],
                 signedOut' = signedOut \union {disk.session},
                 latest' = 0, pub' = [status |-> "unauthenticated", who |-> 0]
          PROVE  Created' /\ FirstSession'
      <3>1. disk'.session = disk.session /\ disk'.pending = disk.session
        BY <2>5, Fields DEF TypeOK, SignedOut
      <3>2. \A s \in SessionOrNone :
              \/ logouts'[s] = logouts[s]
              \/ logouts'[s] = [phase |-> "held", nonce |-> disk.session]
        BY <2>5 DEF TypeOK
      <3>3. Created'
        BY <2>1, <2>2, <2>5, <3>1, <3>2 DEF Created
      <3>4. FirstSession'
        BY <2>1, <2>2, <2>5, <3>1, <3>2 DEF Created, FirstSession
      <3> QED  BY <3>3, <3>4
    <2>6. ASSUME disk.session = 0,
                 logouts' = [logouts EXCEPT ![pub.who] =
                               IF disk.pending = 0 THEN NoLogout
                               ELSE [phase |-> "plain", nonce |-> disk.pending]],
                 UNCHANGED <<disk, signedOut>>,
                 latest' = 0, pub' = [status |-> "unauthenticated", who |-> 0]
          PROVE  Created' /\ FirstSession'
      <3>1. \A s \in SessionOrNone :
              \/ logouts'[s] = logouts[s]
              \/ logouts'[s] = NoLogout
              \/ /\ logouts'[s] = [phase |-> "plain", nonce |-> disk.pending]
                 /\ disk.pending # 0
        BY <2>6 DEF TypeOK
      <3>2. Created'
        BY <2>1, <2>2, <2>6, <3>1 DEF Created, NoLogout
      <3>3. FirstSession'
        BY <1>9, <2>2, <2>6 DEF Logout, FirstSession
      <3> QED  BY <3>2, <3>3
    <2> QED  BY <1>9, <2>4, <2>5, <2>6 DEF Logout
  <1>10. CASE Expire
    BY <1>10 DEF Expire, Created, FirstSession
  <1>11. CASE Crash
    <2>1. disk'.session = disk.session /\ disk'.pending = disk.pending
      BY <1>11, Fields DEF Crash, Rotated, TypeOK
    <2>2. alive' \subseteq alive /\ UNCHANGED <<used, latest, signedOut>>
      BY <1>11 DEF Crash
    <2>3. /\ refresh' = NoRefresh /\ attempt' = NoAttempt
          /\ \A s \in SessionOrNone : logouts'[s] = NoLogout
          /\ pub' = [status |-> "checking", who |-> 0]
      BY <1>11 DEF Crash
    <2> QED  BY <2>1, <2>2, <2>3
             DEF NoRefresh, NoAttempt, NoLogout, Created, FirstSession
  <1>12. CASE \E s \in SessionOrNone : LogoutAnswered(s)
    <2>1. PICK s \in SessionOrNone : LogoutAnswered(s)
      BY <1>12
    <2> DEFINE n == logouts[s].nonce
    <2>2. PICK o \in Outcomes :
             /\ Revocation(o, n)
             /\ \/ disk' = Stored(0, Settled(o, n))
                \/ o # "delivered" /\ disk' = disk
                \/ disk' = [disk EXCEPT !.pending = Settled(o, disk.pending)]
      BY <2>1 DEF LogoutAnswered
    <2>3. /\ UNCHANGED <<used, pub, refresh, attempt, latest, signedOut>>
          /\ logouts[s].phase # "idle"
          /\ \A t \in SessionOrNone :
               logouts'[t] \in {logouts[t], NoLogout}
      BY <2>1 DEF LogoutAnswered, TypeOK
    <2>4. n # 0 /\ n \in 0 .. used
      BY <2>3 DEF Created
    <2>5. /\ disk'.session \in {0, disk.session}
          /\ disk'.pending \in {0, n, disk.pending}
          /\ disk'.pending = 0 /\ disk.pending # 0 => alive' = alive \ {n}
          /\ alive' \subseteq alive
      <3>1. CASE disk' = Stored(0, Settled(o, n))
        BY <2>2, <2>4, <3>1 DEF Revocation, Settled
      <3>2. CASE disk' = disk
        BY <2>2, <3>2 DEF Revocation
      <3>3. CASE disk' = [disk EXCEPT !.pending = Settled(o, disk.pending)]
        <4>1. disk'.session = disk.session
              /\ disk'.pending = Settled(o, disk.pending)
          BY <3>3, Fields DEF TypeOK
        <4> QED  BY <2>2, <4>1 DEF Revocation, Settled
      <3> QED  BY <2>2, <3>1, <3>2, <3>3
    <2>6. \A t \in SessionOrNone :
            /\ logouts'[t].nonce \in 0 .. used
            /\ logouts'[t].phase # "idle" => logouts[t].phase # "idle"
                                            /\ logouts'[t].nonce # 0
            /\ logouts'[t].phase \in {"idle", logouts[t].phase}
      BY <2>3 DEF NoLogout, Created
    <2> HIDE DEF n
    <2>7. Created'
      BY <2>3, <2>4, <2>5, <2>6 DEF Created
    <2>8. FirstSession'
      <3> SUFFICES ASSUME used <= 1  PROVE FirstSession'
        BY <2>3 DEF FirstSession
      <3>1. latest = 0 /\ n = 1
        BY <2>3, <2>4 DEF FirstSession, Created
      <3>2. \A e \in signedOut \intersect alive' : disk'.pending = e
        BY <2>3, <2>5, <3>1 DEF FirstSession, Created
      <3>3. disk'.session = 0 \/ disk' = disk
        BY <2>1 DEF LogoutAnswered, FirstSession
      <3> QED  BY <2>3, <2>5, <2>6, <3>1, <3>2, <3>3 DEF FirstSession
    <2> QED  BY <2>7, <2>8
  <1>13. CASE \E s \in SessionOrNone : CloudRevokes(s)
    BY <1>13 DEF CloudRevokes, Created, FirstSession
  <1>14. CASE UNCHANGED vars
    BY <1>14 DEF Created, FirstSession
  <1> QED
    BY <1>1, <1>2, <1>3, <1>4, <1>5, <1>6, <1>7, <1>8, <1>9, <1>10, <1>11,
       <1>12, <1>13, <1>14 DEF Next

(* Both invariants hold of the session, whatever the constants are.        *)
LEMMA FirstSessionHolds == Spec => [](TypeOK /\ Created /\ FirstSession)
  <1>1. Init => Created /\ FirstSession
    BY DEF Init, Created, FirstSession, Stored, NoRefresh, NoAttempt,
                     NoLogout, Signed, Awaited
  <1> QED  BY <1>1, TypeCorrect, CreatedStep, PTL DEF Spec

(* While only one session has been, a sign-out's revocation is delivered   *)
(* or still on disk, whatever fails and whenever the app exits.            *)
THEOREM Intents == Spec => []IntentsAreDelivered
  <1>1. FirstSession => IntentsAreDelivered
    BY DEF FirstSession, IntentsAreDelivered
  <1> QED  BY <1>1, FirstSessionHolds, PTL

(* The first session that signs out stays out: with every fault, and       *)
(* however its refreshes, sign-outs and restarts interleave, nobody is     *)
(* published but the last account that signed in (performOnlineRefresh).   *)
(* With a second session the code does not ensure it.                      *)
THEOREM FirstAccount == Spec => [](used <= 1 => NoResurrection)
  <1>1. TypeOK /\ Created /\ FirstSession => (used <= 1 => NoResurrection)
    BY DEF Created, FirstSession, NoResurrection
  <1> QED  BY <1>1, FirstSessionHolds, PTL

-----------------------------------------------------------------------------
(* The renewal of the session in use.                                      *)

(* What RenewalContinues says of one step.                                 *)
Renewed ==
    Signed' /\ timer' = "off" /\ refresh'.phase = "idle"
      => Signed /\ timer = "off" /\ ~refresh.current

(* No step leaves a session in use without a timer.                        *)
LEMMA RenewalStep ==
  ASSUME TypeOK, Created, [Next]_vars
  PROVE  Renewed
  <1> USE DEF Publish, Forget, Signed, Renewed
  <1>1. refresh.phase = "idle" => ~refresh.current
    BY DEF Created
  <1>2. ASSUME NEW armed, armed = "off" \/ armed = timer, BeginRefresh(armed)
        PROVE  Renewed
    BY <1>1, <1>2 DEF BeginRefresh, ReadNothing, Send
  <1>3. CASE Initialize \/ TimerFires \/ Retry
    BY <1>1, <1>2, <1>3 DEF Initialize, TimerFires, Retry
  <1>4. CASE StartLogin \/ RestartContinues
    BY <1>4 DEF StartLogin, RestartContinues, BeginLogin, EndLogin
  <1>5. CASE RefreshRevoked
    BY <1>5 DEF RefreshRevoked, ReadNothing, Send
  <1>6. CASE RefreshAnswered
    BY <1>6 DEF RefreshAnswered, Accept, Blocked, GoOffline
  <1>7. CASE LoginRevoked
    BY <1>1, <1>7 DEF LoginRevoked, EndLogin, Armed
  <1>8. CASE BrowserReturns \/ BrowserFails \/ ExchangeFails \/ Restart \/ Cancel
    BY <1>1, <1>8 DEF BrowserReturns, BrowserFails, ExchangeFails, EndLogin,
                      Restart, Cancel
  <1>9. CASE SignIn
    BY <1>9 DEF SignIn, Accept
  <1>10. CASE Logout
    <2>1. refresh'.phase = refresh.phase
      BY <1>10, Fields DEF Logout, Superseded, TypeOK
    <2> QED  BY <1>1, <1>10, <2>1 DEF Logout
  <1>11. CASE Expire \/ Crash
    BY <1>11 DEF Expire, Crash
  <1>12. CASE \E s \in SessionOrNone : LogoutAnswered(s) \/ CloudRevokes(s)
    BY <1>1, <1>12 DEF LogoutAnswered, CloudRevokes, Armed
  <1>13. CASE UNCHANGED vars
    BY <1>1, <1>13
  <1> QED
    BY <1>3, <1>4, <1>5, <1>6, <1>7, <1>8, <1>9, <1>10, <1>11, <1>12, <1>13
    DEF Next

(* Access never ends silently: for any number of sign-ins and with every   *)
(* fault, no step leaves a session in use without a timer and without a    *)
(* refresh in flight, unless the refresh that ended was superseded.        *)
THEOREM Renewal == Spec => RenewalContinues
  <1>1. TypeOK /\ Created /\ [Next]_vars =>
          [Signed' /\ timer' = "off" /\ refresh'.phase = "idle"
             => Signed /\ timer = "off" /\ ~refresh.current]_vars
    BY RenewalStep DEF Renewed
  <1> QED  BY <1>1, FirstSessionHolds, PTL DEF Spec, RenewalContinues
=============================================================================
