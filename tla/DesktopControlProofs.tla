------------------------ MODULE DesktopControlProofs ------------------------
(***************************************************************************)
(* Proofs about DesktopControl: a command is executed at most once and the *)
(* outcome of a health check is kept until the cloud has one, for any      *)
(* accounts, commands and numbers of failures and exits.                   *)
(*                                                                         *)
(* Nothing is looked up to see whether a command has run before.  What     *)
(* keeps it from running again is an order of events: a receipt is on disk *)
(* before the health check starts (Begun, Kept), a new session finds no    *)
(* receipt running (NoneForgotten), and it delivers every result before it *)
(* asks the cloud for a command (ReplayedFirst, Settled).                  *)
(***************************************************************************)
EXTENDS DesktopControl, TLAPS

\* The request in flight is about a command of the account, and a request
\* that reports a result was accepted only if the cloud has one.
Faithful ==
  /\ session.at \in {"replay", "announce", "report", "probe"}
       => session.cmd \in Mine(auth)
  /\ session.at = "beat" => session.cmd \in Mine(auth) \cup {NoCommand}
  /\ session.todo \subseteq Mine(auth) \X Results
  /\ session.at = "replay" => session.sent \in Results
  /\ session.at = "report" => session.sent = "done"
  /\ session.at = "announce" => session.sent = "running"
  /\ session.at \notin Requests => session.reply = "none"

Acknowledged ==
  /\ session.at \in {"replay", "report"} /\ session.reply = "ok"
       => cloud[session.cmd] \in Results
  /\ \A c \in Commands : stray[c].at = "report" /\ stray[c].reply = "ok"
       => cloud[c] \in Results

\* A command that was executed has a receipt, or the cloud has its result.
Kept ==
  \A c \in Commands : ran[c] > 0 => journal[c] # "absent" \/ cloud[c] \in Results

\* A health check under way has begun; one that is announced has not.
Begun ==
  /\ session.at = "probe" => ran[session.cmd] > 0
  /\ session.at = "announce" =>
       ran[session.cmd] = 0 /\ journal[session.cmd] # "absent"
  /\ \A c \in Commands : stray[c].at # "none" => ran[c] > 0

\* A receipt of the account that still says running after its health check
\* began is that of the health check under way.
NoneForgotten ==
  \A c \in Commands :
    Owner[c] = auth /\ journal[c] = "running" /\ ran[c] > 0 =>
      session.at = "probe" /\ session.cmd = c

\* Before the heartbeat every result is delivered or about to be replayed.
ReplayedFirst ==
  session.at = "replay" /\ session.next = "beat" =>
    \A c \in Mine(auth) : ran[c] > 0 =>
      \/ cloud[c] \in Results \/ c = session.cmd
      \/ \E w \in Results : <<c, w>> \in session.todo

\* With the heartbeat on its way the cloud has them all, and the command it
\* hands out has not been executed.
Settled ==
  session.at = "beat" =>
    /\ \A c \in Mine(auth) : ran[c] > 0 => cloud[c] \in Results
    /\ session.cmd # NoCommand => ran[session.cmd] = 0

IndInv ==
  /\ TypeOK /\ Faithful /\ Acknowledged /\ Kept /\ Begun /\ NoneForgotten
  /\ ReplayedFirst /\ Settled /\ AtMostOnce /\ FinishedIsKept

-----------------------------------------------------------------------------
(* Sessions and what they are made of.                                     *)

LEMMA OffFields ==
  /\ Off \in SessionType /\ Off.at = "off" /\ Off.cmd = NoCommand
  /\ Off.todo = {} /\ Off.reply = "none"
  BY DEF Off, SessionType, Receipts, Requests

LEMMA WaitingFields ==
  ASSUME NEW f \in BOOLEAN
  PROVE  /\ Waiting(f) \in SessionType /\ Waiting(f).at = "timer"
         /\ Waiting(f).cmd = NoCommand /\ Waiting(f).todo = {}
         /\ Waiting(f).reply = "none"
  BY DEF Waiting, Off, SessionType, Receipts, Requests

LEMMA AskingFields ==
  ASSUME NEW k \in Requests, NEW c \in Commands \cup {NoCommand},
         NEW w \in Receipts
  PROVE  /\ Asking(k, c, w) \in SessionType /\ Asking(k, c, w).at = k
         /\ Asking(k, c, w).cmd = c /\ Asking(k, c, w).sent = w
         /\ Asking(k, c, w).todo = {} /\ Asking(k, c, w).reply = "none"
         /\ Asking(k, c, w).next = "beat"
  BY DEF Asking, Off, SessionType, Receipts, Requests

\* replayPending: one of the records is sent, the others are left.
LEMMA ReplayingFields ==
  ASSUME NEW todo \in SUBSET (Commands \X Results),
         NEW next \in {"beat", "timer"}, NEW s \in Replaying(todo, next)
  PROVE  /\ s \in SessionType /\ s.reply = "none"
         /\ todo = {} /\ next = "beat" =>
              s.at = "beat" /\ s.cmd = NoCommand /\ s.todo = {}
         /\ todo = {} /\ next = "timer" => s.at = "timer" /\ s.todo = {}
         /\ todo # {} =>
              /\ s.at = "replay" /\ s.next = next
              /\ <<s.cmd, s.sent>> \in todo
              /\ s.cmd \in Commands /\ s.sent \in Results
              /\ s.todo = todo \ {<<s.cmd, s.sent>>}
<1>1. CASE todo = {} /\ next = "beat"
  <2>1. s = Asking("beat", NoCommand, "absent")
    BY <1>1 DEF Replaying
  <2> QED BY <1>1, <2>1, AskingFields DEF Requests, Receipts
<1>2. CASE todo = {} /\ next = "timer"
  <2>1. s = Waiting(TRUE)
    BY <1>2 DEF Replaying
  <2> QED BY <1>2, <2>1, WaitingFields
<1>3. CASE todo # {}
  <2>1. PICK rec \in todo :
          s = [Off EXCEPT !.at = "replay", !.cmd = rec[1], !.sent = rec[2],
                          !.todo = todo \ {rec}, !.next = next]
    BY <1>3 DEF Replaying
  <2>2. rec = <<rec[1], rec[2]>> /\ rec[1] \in Commands /\ rec[2] \in Results
    OBVIOUS
  <2>3. s.at = "replay" /\ s.cmd = rec[1] /\ s.sent = rec[2]
        /\ s.todo = todo \ {rec} /\ s.next = next /\ s.reply = "none"
    BY <2>1 DEF Off
  <2>4. s \in SessionType
    BY <2>1, <2>2 DEF Off, SessionType, Receipts, Requests
  <2> QED BY <1>3, <2>2, <2>3, <2>4
<1> QED BY <1>1, <1>2, <1>3

LEMMA UndeliveredFields ==
  ASSUME NEW p, NEW receipts \in [Commands -> Receipts]
  PROVE  /\ Undelivered(p, receipts) \in SUBSET (Commands \X Results)
         /\ Undelivered(p, receipts) \subseteq Mine(p) \X Results
         /\ \A c \in Mine(p) : receipts[c] \in Results =>
              <<c, receipts[c]>> \in Undelivered(p, receipts)
  BY DEF Undelivered, Mine

-----------------------------------------------------------------------------
(* One lemma per action.                                                  *)

\* The catch of runHeartbeat: the timer is set, nothing else changes.
LEMMA RejectedStep ==
  ASSUME IndInv, Rejected
  PROVE  IndInv'
<1>1. /\ session' \in SessionType /\ session'.at \in {"timer", "refused"}
      /\ session'.todo = {} /\ session'.reply = "none"
  BY WaitingFields, OffFields DEF Rejected, Failed, Off, SessionType, Receipts, Requests
<1>2. /\ session.at \in Requests
      /\ UNCHANGED <<auth, stray, journal, summary, cloud, ran, finished>>
      /\ failures' \in 0 .. MaxFailures /\ crashes' \in 0 .. MaxCrashes
  BY BoundsAssumption DEF Rejected, IndInv, TypeOK, Faithful, bounds
<1>11. TypeOK'
  BY <1>1, <1>2 DEF IndInv, TypeOK, Requests
<1>12. Faithful'
  BY <1>1, <1>2 DEF IndInv, Faithful, TypeOK, Mine, Requests
<1>13. Acknowledged'
  BY <1>1, <1>2 DEF IndInv, Acknowledged, Faithful, TypeOK, Mine
<1>14. Kept'
  BY <1>1, <1>2 DEF IndInv, Kept, TypeOK
<1>15. Begun'
  BY <1>1, <1>2 DEF IndInv, Begun, TypeOK
<1>16. NoneForgotten'
  BY <1>1, <1>2 DEF IndInv, NoneForgotten, TypeOK, Requests
<1>17. ReplayedFirst'
  BY <1>1, <1>2 DEF IndInv, ReplayedFirst, TypeOK, Mine
<1>18. Settled'
  BY <1>1, <1>2 DEF IndInv, Settled, TypeOK, Mine
<1>19. AtMostOnce'
  BY <1>1, <1>2 DEF IndInv, AtMostOnce, TypeOK
<1>20. FinishedIsKept'
  BY <1>1, <1>2 DEF IndInv, FinishedIsKept, TypeOK
<1> QED BY <1>11, <1>12, <1>13, <1>14, <1>15,
           <1>16, <1>17, <1>18, <1>19, <1>20 DEF IndInv

\* The same when the request failed on the way.
LEMMA RequestFailsStep ==
  ASSUME IndInv, RequestFails
  PROVE  IndInv'
<1>1. /\ session' \in SessionType /\ session'.at \in {"timer", "refused"}
      /\ session'.todo = {} /\ session'.reply = "none"
  BY WaitingFields, OffFields DEF RequestFails, Failed, Off, SessionType, Receipts, Requests
<1>2. /\ session.at \in Requests
      /\ UNCHANGED <<auth, stray, journal, summary, cloud, ran, finished>>
      /\ failures' \in 0 .. MaxFailures /\ crashes' \in 0 .. MaxCrashes
  BY BoundsAssumption DEF RequestFails, IndInv, TypeOK, Faithful, bounds
<1>11. TypeOK'
  BY <1>1, <1>2 DEF IndInv, TypeOK, Requests
<1>12. Faithful'
  BY <1>1, <1>2 DEF IndInv, Faithful, TypeOK, Mine, Requests
<1>13. Acknowledged'
  BY <1>1, <1>2 DEF IndInv, Acknowledged, Faithful, TypeOK, Mine
<1>14. Kept'
  BY <1>1, <1>2 DEF IndInv, Kept, TypeOK
<1>15. Begun'
  BY <1>1, <1>2 DEF IndInv, Begun, TypeOK
<1>16. NoneForgotten'
  BY <1>1, <1>2 DEF IndInv, NoneForgotten, TypeOK, Requests
<1>17. ReplayedFirst'
  BY <1>1, <1>2 DEF IndInv, ReplayedFirst, TypeOK, Mine
<1>18. Settled'
  BY <1>1, <1>2 DEF IndInv, Settled, TypeOK, Mine
<1>19. AtMostOnce'
  BY <1>1, <1>2 DEF IndInv, AtMostOnce, TypeOK
<1>20. FinishedIsKept'
  BY <1>1, <1>2 DEF IndInv, FinishedIsKept, TypeOK
<1> QED BY <1>11, <1>12, <1>13, <1>14, <1>15,
           <1>16, <1>17, <1>18, <1>19, <1>20 DEF IndInv

\* The same without a timer.
LEMMA SessionRefusedStep ==
  ASSUME IndInv, SessionRefused
  PROVE  IndInv'
<1>1. /\ session' \in SessionType /\ session'.at \in {"timer", "refused"}
      /\ session'.todo = {} /\ session'.reply = "none"
  BY WaitingFields, OffFields DEF SessionRefused, Failed, Off, SessionType, Receipts, Requests
<1>2. /\ session.at \in Requests
      /\ UNCHANGED <<auth, stray, journal, summary, cloud, ran, finished>>
      /\ failures' \in 0 .. MaxFailures /\ crashes' \in 0 .. MaxCrashes
  BY BoundsAssumption DEF SessionRefused, IndInv, TypeOK, Faithful, bounds
<1>11. TypeOK'
  BY <1>1, <1>2 DEF IndInv, TypeOK, Requests
<1>12. Faithful'
  BY <1>1, <1>2 DEF IndInv, Faithful, TypeOK, Mine, Requests
<1>13. Acknowledged'
  BY <1>1, <1>2 DEF IndInv, Acknowledged, Faithful, TypeOK, Mine
<1>14. Kept'
  BY <1>1, <1>2 DEF IndInv, Kept, TypeOK
<1>15. Begun'
  BY <1>1, <1>2 DEF IndInv, Begun, TypeOK
<1>16. NoneForgotten'
  BY <1>1, <1>2 DEF IndInv, NoneForgotten, TypeOK, Requests
<1>17. ReplayedFirst'
  BY <1>1, <1>2 DEF IndInv, ReplayedFirst, TypeOK, Mine
<1>18. Settled'
  BY <1>1, <1>2 DEF IndInv, Settled, TypeOK, Mine
<1>19. AtMostOnce'
  BY <1>1, <1>2 DEF IndInv, AtMostOnce, TypeOK
<1>20. FinishedIsKept'
  BY <1>1, <1>2 DEF IndInv, FinishedIsKept, TypeOK
<1> QED BY <1>11, <1>12, <1>13, <1>14, <1>15,
           <1>16, <1>17, <1>18, <1>19, <1>20 DEF IndInv

\* The timer: what is to be replayed is every receipt of an executed command.
LEMMA TimerFiresStep ==
  ASSUME IndInv, TimerFires
  PROVE  IndInv'
<1>1. /\ Undelivered(auth, journal) \in SUBSET (Commands \X Results)
      /\ Undelivered(auth, journal) \subseteq Mine(auth) \X Results
      /\ \A c \in Mine(auth) : journal[c] \in Results =>
           <<c, journal[c]>> \in Undelivered(auth, journal)
  BY UndeliveredFields DEF IndInv, TypeOK
<1>2. /\ session.at = "timer"
      /\ session' \in Replaying(Undelivered(auth, journal), "beat")
      /\ UNCHANGED <<auth, stray, journal, summary, cloud, ran, finished,
                     failures, crashes>>
  BY DEF TimerFires, bounds
<1>3. /\ session' \in SessionType /\ session'.reply = "none"
      /\ Undelivered(auth, journal) = {} =>
           session'.at = "beat" /\ session'.cmd = NoCommand /\ session'.todo = {}
      /\ Undelivered(auth, journal) # {} =>
           /\ session'.at = "replay" /\ session'.next = "beat"
           /\ <<session'.cmd, session'.sent>> \in Undelivered(auth, journal)
           /\ session'.cmd \in Commands /\ session'.sent \in Results
           /\ session'.todo =
                Undelivered(auth, journal) \ {<<session'.cmd, session'.sent>>}
  BY <1>1, <1>2, ReplayingFields
<1>4. \A c \in Mine(auth) : ran[c] > 0 =>
        cloud[c] \in Results \/ <<c, journal[c]>> \in Undelivered(auth, journal)
  BY <1>1, <1>2 DEF IndInv, TypeOK, Kept, NoneForgotten, Mine, Receipts
<1>11. TypeOK'
  BY <1>1, <1>2, <1>3, <1>4 DEF IndInv, TypeOK
<1>12. Faithful'
  BY <1>1, <1>2, <1>3, <1>4 DEF IndInv, Faithful, TypeOK, Mine, Requests
<1>13. Acknowledged'
  BY <1>1, <1>2, <1>3, <1>4 DEF IndInv, Acknowledged, Faithful, TypeOK, Mine
<1>14. Kept'
  BY <1>1, <1>2, <1>3, <1>4 DEF IndInv, Kept, TypeOK
<1>15. Begun'
  BY <1>1, <1>2, <1>3, <1>4 DEF IndInv, Begun, TypeOK
<1>16. NoneForgotten'
  BY <1>1, <1>2, <1>3, <1>4 DEF IndInv, NoneForgotten, TypeOK
<1>17. ReplayedFirst'
  BY <1>1, <1>2, <1>3, <1>4 DEF IndInv, TypeOK, Mine, ReplayedFirst
<1>18. Settled'
  BY <1>1, <1>2, <1>3, <1>4 DEF IndInv, Settled, TypeOK, Mine
<1>19. AtMostOnce'
  BY <1>1, <1>2, <1>3, <1>4 DEF IndInv, AtMostOnce, TypeOK
<1>20. FinishedIsKept'
  BY <1>1, <1>2, <1>3, <1>4 DEF IndInv, FinishedIsKept, TypeOK
<1> QED BY <1>11, <1>12, <1>13, <1>14, <1>15,
           <1>16, <1>17, <1>18, <1>19, <1>20 DEF IndInv

\* A new session: what was running is interrupted and will be replayed.
LEMMA SignInStep ==
  ASSUME IndInv, \E p \in Principals : SignIn(p)
  PROVE  IndInv'
<1>1. PICK p \in Principals : SignIn(p)
  OBVIOUS
<1>2. /\ journal' = Recovered(p) /\ auth' = p /\ stray' = Stopped
      /\ session' \in Replaying(Undelivered(p, journal'), "beat")
      /\ UNCHANGED <<summary, cloud, ran, finished, failures, crashes>>
  BY <1>1 DEF SignIn, bounds
<1>3. /\ journal' \in [Commands -> Receipts]
      /\ \A c \in Mine(p) : journal'[c] # "running"
      /\ \A c \in Commands : journal[c] # "absent" => journal'[c] # "absent"
      /\ \A c \in Commands : journal[c] = "done" => journal'[c] = "done"
  BY <1>2 DEF Recovered, IndInv, TypeOK, Receipts, Results, Mine
<1>4. /\ Undelivered(p, journal') \in SUBSET (Commands \X Results)
      /\ Undelivered(p, journal') \subseteq Mine(p) \X Results
      /\ \A c \in Mine(p) : journal'[c] \in Results =>
           <<c, journal'[c]>> \in Undelivered(p, journal')
  BY <1>3, UndeliveredFields
<1>5. /\ session' \in SessionType /\ session'.reply = "none"
      /\ Undelivered(p, journal') = {} =>
           session'.at = "beat" /\ session'.cmd = NoCommand /\ session'.todo = {}
      /\ Undelivered(p, journal') # {} =>
           /\ session'.at = "replay" /\ session'.next = "beat"
           /\ <<session'.cmd, session'.sent>> \in Undelivered(p, journal')
           /\ session'.cmd \in Commands /\ session'.sent \in Results
           /\ session'.todo =
                Undelivered(p, journal') \ {<<session'.cmd, session'.sent>>}
  BY <1>2, <1>4, ReplayingFields
<1>6. \A c \in Mine(p) : ran[c] > 0 =>
        cloud[c] \in Results \/ <<c, journal'[c]>> \in Undelivered(p, journal')
  BY <1>3, <1>4 DEF IndInv, TypeOK, Kept, Mine, Receipts
<1>7. /\ stray' \in [Commands -> StrayType]
      /\ \A c \in Commands : \/ stray'[c] = stray[c]
                             \/ /\ session.at = "probe" /\ c = session.cmd
                                /\ stray'[c].at = "probe"
  BY <1>2 DEF Stopped, NoStray, StrayType, IndInv, TypeOK
<1>8. p # Nobody
  BY NobodyAssumption
<1>11. TypeOK'
  BY <1>2, <1>3, <1>5, <1>7, <1>8 DEF IndInv, TypeOK
<1>12. Faithful'
  BY <1>2, <1>4, <1>5 DEF Faithful, Mine, Requests
<1>13. Acknowledged'
  BY <1>2, <1>5, <1>7 DEF IndInv, Acknowledged
<1>14. Kept'
  BY <1>2, <1>3 DEF IndInv, Kept
<1>15. Begun'
  BY <1>2, <1>5, <1>7 DEF IndInv, Begun
<1>16. NoneForgotten'
  BY <1>2, <1>3 DEF NoneForgotten, Mine
<1>17. ReplayedFirst'
  <2> SUFFICES ASSUME session'.at = "replay", NEW c \in Mine(p), ran[c] > 0,
                      cloud[c] \notin Results, c # session'.cmd
               PROVE  \E w \in Results : <<c, w>> \in session'.todo
    BY <1>2 DEF ReplayedFirst
  <2>1. <<c, journal'[c]>> \in Undelivered(p, journal') /\ journal'[c] \in Results
    BY <1>4, <1>6
  <2>2. session'.todo =
          Undelivered(p, journal') \ {<<session'.cmd, session'.sent>>}
    BY <1>5
  <2> QED BY <2>1, <2>2
<1>18. Settled'
  BY <1>2, <1>5, <1>6 DEF Settled
<1>19. AtMostOnce'
  BY <1>2 DEF IndInv, AtMostOnce
<1>20. FinishedIsKept'
  BY <1>2, <1>3 DEF IndInv, TypeOK, FinishedIsKept
<1> QED BY <1>11, <1>12, <1>13, <1>14, <1>15,
           <1>16, <1>17, <1>18, <1>19, <1>20 DEF IndInv

\* A sign-out: a health check under way becomes a stray.
LEMMA SignOutStep ==
  ASSUME IndInv, SignOut
  PROVE  IndInv'
<1>1. /\ auth' = Nobody /\ session' = Off /\ summary' = Nobody
      /\ UNCHANGED <<journal, cloud, ran, finished>>
      /\ failures' \in 0 .. MaxFailures /\ crashes' \in 0 .. MaxCrashes
  BY BoundsAssumption DEF SignOut, bounds, IndInv, TypeOK
<1>2. /\ stray' \in [Commands -> StrayType]
      /\ \A c \in Commands : \/ stray'[c] = stray[c] \/ stray'[c].at = "none"
                             \/ /\ session.at = "probe" /\ c = session.cmd
                                /\ stray'[c].at = "probe"
  BY DEF SignOut, Stopped, NoStray, StrayType, IndInv, TypeOK
<1>3. \A c \in Commands : Owner[c] # Nobody
  BY NobodyAssumption, CommandsAssumption
<1>4. Off \in SessionType /\ Off.at = "off" /\ Off.todo = {} /\ Off.reply = "none"
  BY OffFields
<1>11. TypeOK'
  BY <1>1, <1>2, <1>3, <1>4 DEF IndInv, TypeOK
<1>12. Faithful'
  BY <1>1, <1>2, <1>3, <1>4 DEF IndInv, Faithful, TypeOK, Mine, Requests
<1>13. Acknowledged'
  BY <1>1, <1>2, <1>3, <1>4 DEF IndInv, Acknowledged, Faithful, TypeOK, Mine
<1>14. Kept'
  BY <1>1, <1>2, <1>3, <1>4 DEF IndInv, Kept, TypeOK
<1>15. Begun'
  BY <1>1, <1>2, <1>3, <1>4 DEF IndInv, Begun, TypeOK
<1>16. NoneForgotten'
  BY <1>1, <1>3 DEF NoneForgotten
<1>17. ReplayedFirst'
  BY <1>1, <1>2, <1>3, <1>4 DEF IndInv, ReplayedFirst, TypeOK, Mine
<1>18. Settled'
  BY <1>1, <1>2, <1>3, <1>4 DEF IndInv, Settled, TypeOK, Mine
<1>19. AtMostOnce'
  BY <1>1, <1>2, <1>3, <1>4 DEF IndInv, AtMostOnce, TypeOK
<1>20. FinishedIsKept'
  BY <1>1, <1>2, <1>3, <1>4 DEF IndInv, FinishedIsKept, TypeOK
<1> QED BY <1>11, <1>12, <1>13, <1>14, <1>15,
           <1>16, <1>17, <1>18, <1>19, <1>20 DEF IndInv

\* The process ends.
LEMMA CrashStep ==
  ASSUME IndInv, Crash
  PROVE  IndInv'
<1>1. /\ auth' = Nobody /\ session' = Off /\ summary' = Nobody
      /\ UNCHANGED <<journal, cloud, ran, finished>>
      /\ failures' \in 0 .. MaxFailures /\ crashes' \in 0 .. MaxCrashes
  BY BoundsAssumption DEF Crash, bounds, IndInv, TypeOK
<1>2. /\ stray' \in [Commands -> StrayType]
      /\ \A c \in Commands : \/ stray'[c] = stray[c] \/ stray'[c].at = "none"
                             \/ /\ session.at = "probe" /\ c = session.cmd
                                /\ stray'[c].at = "probe"
  BY DEF Crash, Stopped, NoStray, StrayType, IndInv, TypeOK
<1>3. \A c \in Commands : Owner[c] # Nobody
  BY NobodyAssumption, CommandsAssumption
<1>4. Off \in SessionType /\ Off.at = "off" /\ Off.todo = {} /\ Off.reply = "none"
  BY OffFields
<1>11. TypeOK'
  BY <1>1, <1>2, <1>3, <1>4 DEF IndInv, TypeOK
<1>12. Faithful'
  BY <1>1, <1>2, <1>3, <1>4 DEF IndInv, Faithful, TypeOK, Mine, Requests
<1>13. Acknowledged'
  BY <1>1, <1>2, <1>3, <1>4 DEF IndInv, Acknowledged, Faithful, TypeOK, Mine
<1>14. Kept'
  BY <1>1, <1>2, <1>3, <1>4 DEF IndInv, Kept, TypeOK
<1>15. Begun'
  BY <1>1, <1>2, <1>3, <1>4 DEF IndInv, Begun, TypeOK
<1>16. NoneForgotten'
  BY <1>1, <1>3 DEF NoneForgotten
<1>17. ReplayedFirst'
  BY <1>1, <1>2, <1>3, <1>4 DEF IndInv, ReplayedFirst, TypeOK, Mine
<1>18. Settled'
  BY <1>1, <1>2, <1>3, <1>4 DEF IndInv, Settled, TypeOK, Mine
<1>19. AtMostOnce'
  BY <1>1, <1>2, <1>3, <1>4 DEF IndInv, AtMostOnce, TypeOK
<1>20. FinishedIsKept'
  BY <1>1, <1>2, <1>3, <1>4 DEF IndInv, FinishedIsKept, TypeOK
<1> QED BY <1>11, <1>12, <1>13, <1>14, <1>15,
           <1>16, <1>17, <1>18, <1>19, <1>20 DEF IndInv

\* What the cloud does with a request: a result it takes stays.
LEMMA SubmittedFacts ==
  ASSUME NEW c \in Commands, NEW what \in Receipts, NEW p,
         cloud \in [Commands -> Fates]
  PROVE  /\ Submitted(c, what, p) \in {"ok", "rejected"}
         /\ Accepted(c, what, p) \in [Commands -> Fates]
         /\ \A d \in Commands :
              cloud[d] \in Results => Accepted(c, what, p)[d] \in Results
         /\ Submitted(c, what, p) = "ok" /\ what \in Results =>
              Accepted(c, what, p)[c] \in Results
<1>1. Submitted(c, what, p) \in {"ok", "rejected"}
  BY DEF Submitted
<1>2. CASE Submitted(c, what, p) = "ok"
  <2>1. Advances(c, what) /\ Accepted(c, what, p) = [cloud EXCEPT ![c] = what]
    BY <1>2 DEF Submitted, Accepted
  <2>2. what \in Fates /\ (cloud[c] \in Results => what \in Results)
    BY <2>1 DEF Advances, Receipts, Fates, Results
  <2> QED BY <1>1, <2>1, <2>2
<1>3. CASE Submitted(c, what, p) # "ok"
  BY <1>1, <1>3 DEF Accepted
<1> QED BY <1>2, <1>3

\* The cloud has acted on a request.
LEMMA LandsStep ==
  ASSUME IndInv, Lands
  PROVE  IndInv'
<1>1. UNCHANGED <<auth, stray, journal, summary, ran, finished, failures, crashes>>
  BY DEF Lands, bounds
<1>2. /\ session' \in SessionType /\ session.at \in Requests
      /\ session'.at = session.at /\ session'.sent = session.sent
      /\ session'.todo = session.todo /\ session'.next = session.next
      /\ \/ session'.cmd = session.cmd
         \/ /\ session.at = "beat" /\ session'.cmd \in Mine(auth)
            /\ ran[session'.cmd] = 0
      /\ cloud' \in [Commands -> Fates]
      /\ \A c \in Commands : cloud[c] \in Results => cloud'[c] \in Results
      /\ session.at \in {"replay", "report"} /\ session'.reply = "ok" =>
           cloud'[session.cmd] \in Results
  <2>1. CASE /\ session.at \in Requests \ {"beat"}
             /\ session' = [session EXCEPT
                   !.reply = Submitted(session.cmd, session.sent, auth)]
             /\ cloud' = Accepted(session.cmd, session.sent, auth)
    <3>1. session.cmd \in Commands /\ session.sent \in Receipts
      BY <2>1 DEF IndInv, TypeOK, SessionType, Faithful, Mine, Requests
    <3>2. /\ session' \in SessionType
          /\ session'.reply = Submitted(session.cmd, session.sent, auth)
          /\ session'.at = session.at /\ session'.cmd = session.cmd
          /\ session'.sent = session.sent /\ session'.todo = session.todo
          /\ session'.next = session.next
      BY <2>1, <3>1, SubmittedFacts DEF IndInv, TypeOK, SessionType
    <3>3. session.at \in {"replay", "report"} => session.sent \in Results
      BY DEF IndInv, Faithful, Results
    <3> QED BY <2>1, <3>1, <3>2, <3>3, SubmittedFacts DEF IndInv, TypeOK
  <2>2. CASE /\ session.at = "beat" /\ cloud' = cloud
             /\ session' = [session EXCEPT !.reply = "ok"]
    BY <2>2 DEF IndInv, TypeOK, SessionType, Requests
  <2>3. CASE /\ session.at = "beat"
             /\ \E c \in Mine(auth) :
                  /\ cloud[c] \in {"queued", "claimed", "running"}
                  /\ session' = [session EXCEPT !.reply = "ok", !.cmd = c]
                  /\ cloud' = [cloud EXCEPT ![c] = "claimed"]
    <3>1. PICK c \in Mine(auth) :
            /\ cloud[c] \in {"queued", "claimed", "running"}
            /\ session' = [session EXCEPT !.reply = "ok", !.cmd = c]
            /\ cloud' = [cloud EXCEPT ![c] = "claimed"]
      BY <2>3
    <3>2. c \in Commands /\ cloud[c] \notin Results
      BY <3>1 DEF Mine, Results
    <3>3. ran[c] = 0
      BY <2>3, <3>1, <3>2 DEF IndInv, TypeOK, Settled
    <3>4. /\ session' \in SessionType /\ session'.cmd = c
          /\ session'.at = session.at /\ session'.sent = session.sent
          /\ session'.todo = session.todo /\ session'.next = session.next
      BY <3>1, <3>2 DEF IndInv, TypeOK, SessionType
    <3>5. /\ cloud' \in [Commands -> Fates]
          /\ \A d \in Commands : cloud[d] \in Results => cloud'[d] \in Results
      BY <3>1, <3>2 DEF IndInv, TypeOK, Fates
    <3> QED BY <2>3, <3>1, <3>3, <3>4, <3>5 DEF Requests
  <2> QED BY <2>1, <2>2, <2>3 DEF Lands
<1>11. TypeOK'
  BY <1>1, <1>2 DEF IndInv, TypeOK, Requests
<1>12. Faithful'
  BY <1>1, <1>2 DEF IndInv, Faithful, TypeOK, Mine, Requests
<1>13. Acknowledged'
  BY <1>1, <1>2 DEF IndInv, Acknowledged, Faithful, TypeOK, Mine
<1>14. Kept'
  BY <1>1, <1>2 DEF IndInv, Kept, TypeOK
<1>15. Begun'
  BY <1>1, <1>2 DEF IndInv, Begun, TypeOK
<1>16. NoneForgotten'
  BY <1>1, <1>2 DEF IndInv, NoneForgotten, TypeOK
<1>17. ReplayedFirst'
  BY <1>1, <1>2 DEF IndInv, TypeOK, ReplayedFirst, Mine
<1>18. Settled'
  BY <1>1, <1>2 DEF IndInv, Settled, TypeOK, Mine
<1>19. AtMostOnce'
  BY <1>1, <1>2 DEF IndInv, AtMostOnce, TypeOK
<1>20. FinishedIsKept'
  BY <1>1, <1>2 DEF IndInv, FinishedIsKept, TypeOK
<1> QED BY <1>11, <1>12, <1>13, <1>14, <1>15,
           <1>16, <1>17, <1>18, <1>19, <1>20 DEF IndInv

\* A heartbeat was answered: the receipt is on disk before the announcement.
LEMMA BeatAnsweredStep ==
  ASSUME IndInv, BeatAnswered
  PROVE  IndInv'
<1>1. /\ UNCHANGED <<auth, stray, summary, cloud, ran, finished, failures, crashes>>
      /\ session.at = "beat"
  BY DEF BeatAnswered, bounds
<1>2. /\ session' \in SessionType /\ session'.reply = "none"
      /\ session'.at \in {"announce", "replay", "timer"}
      /\ session'.cmd \in Mine(auth) \/ session'.at = "timer"
      /\ session'.todo \subseteq Mine(auth) \X Results
      /\ session'.at = "replay" =>
           session'.sent \in Results /\ session'.next = "timer"
      /\ session'.at = "announce" =>
           /\ session'.sent = "running" /\ ran[session'.cmd] = 0
           /\ journal'[session'.cmd] # "absent"
      /\ journal' \in [Commands -> Receipts]
      /\ \A c \in Commands :
           \/ journal'[c] = journal[c]
           \/ journal[c] = "absent" /\ journal'[c] = "running" /\ ran[c] = 0
  <2>1. CASE session.cmd # NoCommand /\ Executable(session.cmd)
    <3>1. /\ journal' = [journal EXCEPT ![session.cmd] = "running"]
          /\ session' = Asking("announce", session.cmd, "running")
          /\ journal[session.cmd] = "absent"
      BY <2>1 DEF BeatAnswered, Executable
    <3>2. session.cmd \in Mine(auth) /\ session.cmd \in Commands
      BY <1>1, <2>1 DEF IndInv, Faithful, Mine
    <3>3. ran[session.cmd] = 0
      BY <1>1, <2>1 DEF IndInv, Settled
    <3>4. /\ session' \in SessionType /\ session'.at = "announce"
          /\ session'.cmd = session.cmd /\ session'.sent = "running"
          /\ session'.todo = {} /\ session'.reply = "none"
      BY <3>1, <3>2, AskingFields DEF Requests, Receipts
    <3>5. /\ journal' \in [Commands -> Receipts]
          /\ journal'[session.cmd] = "running"
          /\ \A c \in Commands : c # session.cmd => journal'[c] = journal[c]
      BY <3>1, <3>2 DEF IndInv, TypeOK, Receipts
    <3> QED BY <3>1, <3>2, <3>3, <3>4, <3>5
  <2>2. CASE ~(session.cmd # NoCommand /\ Executable(session.cmd))
    <3> DEFINE todo == IF session.cmd # NoCommand /\ journal[session.cmd] \in Results
                       THEN Undelivered(auth, journal) ELSE {}
    <3>1. journal' = journal /\ session' \in Replaying(todo, "timer")
      BY <2>2 DEF BeatAnswered
    <3>2. /\ todo \in SUBSET (Commands \X Results)
          /\ todo \subseteq Mine(auth) \X Results
      BY UndeliveredFields DEF IndInv, TypeOK
    <3> HIDE DEF todo
    <3>3. /\ session' \in SessionType /\ session'.reply = "none"
          /\ todo = {} => session'.at = "timer" /\ session'.todo = {}
          /\ todo # {} =>
               /\ session'.at = "replay" /\ session'.next = "timer"
               /\ <<session'.cmd, session'.sent>> \in todo
               /\ session'.sent \in Results
               /\ session'.todo = todo \ {<<session'.cmd, session'.sent>>}
      BY <3>1, <3>2, ReplayingFields
    <3>4. todo # {} => session'.cmd \in Mine(auth)
      BY <3>2, <3>3
    <3>5. session'.todo \subseteq Mine(auth) \X Results
      BY <3>2, <3>3
    <3> QED BY <3>1, <3>3, <3>4, <3>5 DEF IndInv, TypeOK
  <2> QED BY <2>1, <2>2
<1>11. TypeOK'
  BY <1>1, <1>2 DEF IndInv, TypeOK
<1>12. Faithful'
  BY <1>1, <1>2 DEF IndInv, Faithful, TypeOK, Mine, Requests
<1>13. Acknowledged'
  BY <1>1, <1>2 DEF IndInv, Acknowledged, Faithful, TypeOK, Mine
<1>14. Kept'
  BY <1>1, <1>2 DEF IndInv, Kept, TypeOK
<1>15. Begun'
  BY <1>1, <1>2 DEF IndInv, Begun, TypeOK
<1>16. NoneForgotten'
  BY <1>1, <1>2 DEF IndInv, NoneForgotten, TypeOK
<1>17. ReplayedFirst'
  BY <1>1, <1>2 DEF IndInv, ReplayedFirst, TypeOK, Mine
<1>18. Settled'
  BY <1>1, <1>2 DEF IndInv, Settled, TypeOK, Mine
<1>19. AtMostOnce'
  BY <1>1, <1>2 DEF IndInv, AtMostOnce, TypeOK
<1>20. FinishedIsKept'
  BY <1>1, <1>2 DEF IndInv, FinishedIsKept, TypeOK
<1> QED BY <1>11, <1>12, <1>13, <1>14, <1>15,
           <1>16, <1>17, <1>18, <1>19, <1>20 DEF IndInv

\* The health check starts.
LEMMA AnnouncedStep ==
  ASSUME IndInv, Announced
  PROVE  IndInv'
<1>1. /\ UNCHANGED <<auth, stray, journal, summary, cloud, finished, failures, crashes>>
      /\ session.at = "announce" /\ ran' = [ran EXCEPT ![session.cmd] = @ + 1]
      /\ session' = [Off EXCEPT !.at = "probe", !.cmd = session.cmd]
  BY DEF Announced, bounds
<1>2. /\ session.cmd \in Mine(auth) /\ session.cmd \in Commands
      /\ ran[session.cmd] = 0 /\ journal[session.cmd] # "absent"
  BY <1>1 DEF IndInv, Faithful, Begun, Mine
<1>3. /\ session' \in SessionType /\ session'.at = "probe"
      /\ session'.cmd = session.cmd /\ session'.todo = {}
      /\ session'.reply = "none"
  BY <1>1, <1>2 DEF Off, SessionType, Receipts
<1>4. /\ ran' \in [Commands -> Nat] /\ ran'[session.cmd] = 1
      /\ \A c \in Commands : c # session.cmd => ran'[c] = ran[c]
  BY <1>1, <1>2 DEF IndInv, TypeOK
<1>11. TypeOK'
  BY <1>1, <1>2, <1>3, <1>4 DEF IndInv, TypeOK
<1>12. Faithful'
  BY <1>1, <1>2, <1>3, <1>4 DEF IndInv, Faithful, TypeOK, Mine, Requests
<1>13. Acknowledged'
  BY <1>1, <1>2, <1>3, <1>4 DEF IndInv, Acknowledged, Faithful, TypeOK, Mine
<1>14. Kept'
  BY <1>1, <1>2, <1>3, <1>4 DEF IndInv, Kept, TypeOK
<1>15. Begun'
  BY <1>1, <1>2, <1>3, <1>4 DEF IndInv, Begun, TypeOK
<1>16. NoneForgotten'
  BY <1>1, <1>2, <1>3, <1>4 DEF IndInv, NoneForgotten, TypeOK
<1>17. ReplayedFirst'
  BY <1>1, <1>2, <1>3, <1>4 DEF IndInv, ReplayedFirst, TypeOK, Mine
<1>18. Settled'
  BY <1>1, <1>2, <1>3, <1>4 DEF IndInv, Settled, TypeOK, Mine
<1>19. AtMostOnce'
  BY <1>1, <1>2, <1>3, <1>4 DEF IndInv, AtMostOnce, TypeOK
<1>20. FinishedIsKept'
  BY <1>1, <1>2, <1>3, <1>4 DEF IndInv, FinishedIsKept, TypeOK
<1> QED BY <1>11, <1>12, <1>13, <1>14, <1>15,
           <1>16, <1>17, <1>18, <1>19, <1>20 DEF IndInv

\* The health check of the session ends.
LEMMA ProbeDoneStep ==
  ASSUME IndInv, ProbeDone
  PROVE  IndInv'
<1>1. /\ UNCHANGED <<auth, stray, cloud, ran, failures, crashes>>
      /\ session.at = "probe" /\ summary' = Owner[session.cmd]
      /\ journal' = [journal EXCEPT ![session.cmd] = "done"]
      /\ finished' = finished \union {session.cmd}
      /\ session' = Asking("report", session.cmd, "done")
  BY DEF ProbeDone, bounds
<1>2. /\ session.cmd \in Mine(auth) /\ session.cmd \in Commands
      /\ ran[session.cmd] > 0 /\ Owner[session.cmd] \in Principals
  BY <1>1, CommandsAssumption DEF IndInv, Faithful, Begun, Mine
<1>3. /\ session' \in SessionType /\ session'.at = "report"
      /\ session'.cmd = session.cmd /\ session'.todo = {}
      /\ session'.sent = "done" /\ session'.reply = "none"
  BY <1>1, <1>2, AskingFields DEF Requests, Receipts, Results
<1>4. /\ journal' \in [Commands -> Receipts] /\ journal'[session.cmd] = "done"
      /\ \A c \in Commands : c # session.cmd => journal'[c] = journal[c]
  BY <1>1, <1>2 DEF IndInv, TypeOK, Receipts, Results
<1>11. TypeOK'
  BY <1>1, <1>2, <1>3, <1>4 DEF IndInv, TypeOK
<1>12. Faithful'
  BY <1>1, <1>2, <1>3, <1>4 DEF IndInv, Faithful, TypeOK, Mine, Requests
<1>13. Acknowledged'
  BY <1>1, <1>2, <1>3, <1>4 DEF IndInv, Acknowledged, Faithful, TypeOK, Mine
<1>14. Kept'
  BY <1>1, <1>2, <1>3, <1>4 DEF IndInv, Kept, TypeOK
<1>15. Begun'
  BY <1>1, <1>2, <1>3, <1>4 DEF IndInv, Begun, TypeOK
<1>16. NoneForgotten'
  BY <1>1, <1>2, <1>3, <1>4 DEF IndInv, NoneForgotten, TypeOK
<1>17. ReplayedFirst'
  BY <1>1, <1>2, <1>3, <1>4 DEF IndInv, ReplayedFirst, TypeOK, Mine
<1>18. Settled'
  BY <1>1, <1>2, <1>3, <1>4 DEF IndInv, Settled, TypeOK, Mine
<1>19. AtMostOnce'
  BY <1>1, <1>2, <1>3, <1>4 DEF IndInv, AtMostOnce, TypeOK
<1>20. FinishedIsKept'
  BY <1>1, <1>2, <1>3, <1>4 DEF IndInv, FinishedIsKept, TypeOK
<1> QED BY <1>11, <1>12, <1>13, <1>14, <1>15,
           <1>16, <1>17, <1>18, <1>19, <1>20 DEF IndInv

\* The cloud has taken a result.
LEMMA DeliveredStep ==
  ASSUME IndInv, Delivered
  PROVE  IndInv'
<1>1. /\ UNCHANGED <<auth, stray, cloud, ran, finished, failures, crashes>>
      /\ session.at \in {"replay", "report"} /\ session.reply = "ok"
      /\ summary' = Owner[session.cmd]
      /\ journal' = [journal EXCEPT ![session.cmd] = "absent"]
      /\ session' \in IF session.at = "replay"
                      THEN Replaying(session.todo, session.next)
                      ELSE {Waiting(TRUE)}
  BY DEF Delivered, bounds
<1>2. /\ session.cmd \in Mine(auth) /\ session.cmd \in Commands
      /\ Owner[session.cmd] \in Principals /\ cloud[session.cmd] \in Results
  BY <1>1, CommandsAssumption DEF IndInv, Faithful, Acknowledged, Mine
<1>3. /\ journal' \in [Commands -> Receipts]
      /\ \A c \in Commands : c # session.cmd => journal'[c] = journal[c]
  BY <1>1, <1>2 DEF IndInv, TypeOK, Receipts
<1>4. /\ session' \in SessionType /\ session'.reply = "none"
      /\ session'.todo \subseteq session.todo
      /\ session'.at \in {"replay", "beat", "timer"}
      /\ session'.at = "beat" =>
           session'.cmd = NoCommand /\ session.at = "replay"
             /\ session.todo = {} /\ session.next = "beat"
      /\ session'.at = "replay" =>
           /\ session.at = "replay" /\ session'.next = session.next
           /\ <<session'.cmd, session'.sent>> \in session.todo
           /\ session'.sent \in Results
           /\ session'.todo = session.todo \ {<<session'.cmd, session'.sent>>}
  <2>1. CASE session.at = "replay"
    <3>1. /\ session.todo \in SUBSET (Commands \X Results)
          /\ session.next \in {"beat", "timer"}
      BY DEF IndInv, TypeOK, SessionType
    <3>2. session' \in Replaying(session.todo, session.next)
      BY <1>1, <2>1
    <3>3. /\ session' \in SessionType /\ session'.reply = "none"
          /\ session.todo = {} /\ session.next = "beat" =>
               session'.at = "beat" /\ session'.cmd = NoCommand
                 /\ session'.todo = {}
          /\ session.todo = {} /\ session.next = "timer" =>
               session'.at = "timer" /\ session'.todo = {}
          /\ session.todo # {} =>
               /\ session'.at = "replay" /\ session'.next = session.next
               /\ <<session'.cmd, session'.sent>> \in session.todo
               /\ session'.sent \in Results
               /\ session'.todo =
                    session.todo \ {<<session'.cmd, session'.sent>>}
      BY ONLY <3>1, <3>2, ReplayingFields
    <3>4. CASE session.todo = {} /\ session.next = "beat"
      BY ONLY <2>1, <3>3, <3>4
    <3>5. CASE session.todo = {} /\ session.next = "timer"
      BY ONLY <2>1, <3>3, <3>5
    <3>6. CASE session.todo # {}
      BY ONLY <2>1, <3>3, <3>6
    <3> QED BY <3>1, <3>4, <3>5, <3>6
  <2>2. CASE session.at = "report"
    BY <1>1, <2>2, WaitingFields
  <2> QED BY <1>1, <2>1, <2>2
<1>5. session'.at = "replay" => session'.cmd \in Mine(auth)
  BY <1>4 DEF IndInv, Faithful
<1>11. TypeOK'
  BY <1>1, <1>2, <1>3, <1>4 DEF IndInv, TypeOK
<1>12. Faithful'
  BY <1>1, <1>2, <1>3, <1>4, <1>5 DEF IndInv, Faithful, TypeOK, Mine, Requests
<1>13. Acknowledged'
  BY <1>1, <1>2, <1>3, <1>4, <1>5 DEF IndInv, Acknowledged, Faithful, TypeOK, Mine
<1>14. Kept'
  BY <1>1, <1>2, <1>3, <1>4, <1>5 DEF IndInv, Kept, TypeOK
<1>15. Begun'
  BY <1>1, <1>2, <1>3, <1>4, <1>5 DEF IndInv, Begun, TypeOK
<1>16. NoneForgotten'
  BY <1>1, <1>2, <1>3, <1>4, <1>5 DEF IndInv, NoneForgotten, TypeOK
<1>17. ReplayedFirst'
  <2> SUFFICES ASSUME session'.at = "replay", session'.next = "beat",
                      NEW c \in Mine(auth), ran[c] > 0,
                      cloud[c] \notin Results, c # session'.cmd
               PROVE  \E w \in Results : <<c, w>> \in session'.todo
    BY <1>1 DEF ReplayedFirst
  <2>1. session.at = "replay" /\ session.next = "beat" /\ c # session.cmd
    BY <1>2, <1>4
  <2>2. PICK w \in Results : <<c, w>> \in session.todo
    BY <2>1 DEF IndInv, ReplayedFirst
  <2> QED BY <1>4, <2>2
<1>18. Settled'
  <2> SUFFICES ASSUME session'.at = "beat"
               PROVE  \A c \in Mine(auth) : ran[c] > 0 => cloud[c] \in Results
    BY <1>1, <1>4 DEF Settled
  <2> QED BY <1>2, <1>4 DEF IndInv, ReplayedFirst
<1>19. AtMostOnce'
  BY <1>1, <1>2, <1>3, <1>4, <1>5 DEF IndInv, AtMostOnce, TypeOK
<1>20. FinishedIsKept'
  BY <1>1, <1>2, <1>3, <1>4, <1>5 DEF IndInv, FinishedIsKept, TypeOK
<1> QED BY <1>11, <1>12, <1>13, <1>14, <1>15,
           <1>16, <1>17, <1>18, <1>19, <1>20 DEF IndInv

\* A health check ends after its session.
LEMMA StrayDoneStep ==
  ASSUME IndInv, \E c \in Commands : StrayDone(c)
  PROVE  IndInv'
<1>1. PICK c \in Commands : StrayDone(c)
  OBVIOUS
<1>2. /\ UNCHANGED <<auth, session, cloud, ran, failures, crashes>>
      /\ summary' = Owner[c] /\ Owner[c] \in Principals
      /\ journal' = [journal EXCEPT ![c] = "done"]
      /\ finished' = finished \union {c} /\ ran[c] > 0
  BY <1>1, CommandsAssumption DEF StrayDone, bounds, IndInv, Begun
<1>3. /\ journal' \in [Commands -> Receipts] /\ journal'[c] = "done"
      /\ \A d \in Commands : d # c => journal'[d] = journal[d]
  BY <1>2 DEF IndInv, TypeOK, Receipts, Results
<1>4. /\ stray' \in [Commands -> StrayType]
      /\ \A d \in Commands : d # c => stray'[d] = stray[d]
      /\ stray'[c].reply = "none"
  <2>1. /\ NoStray \in StrayType /\ NoStray.reply = "none"
        /\ [NoStray EXCEPT !.at = "report", !.as = auth] \in StrayType
        /\ [NoStray EXCEPT !.at = "report", !.as = auth].reply = "none"
    BY DEF NoStray, StrayType, IndInv, TypeOK
  <2> QED BY <1>1, <2>1 DEF StrayDone, IndInv, TypeOK
<1>11. TypeOK'
  BY <1>2, <1>3, <1>4 DEF IndInv, TypeOK
<1>12. Faithful'
  BY <1>1, <1>2, <1>3, <1>4 DEF IndInv, Faithful, TypeOK, Mine
<1>13. Acknowledged'
  BY <1>1, <1>2, <1>3, <1>4 DEF IndInv, Acknowledged, Faithful, TypeOK, Mine
<1>14. Kept'
  BY <1>1, <1>2, <1>3, <1>4 DEF IndInv, Kept, TypeOK
<1>15. Begun'
  BY <1>1, <1>2, <1>3, <1>4 DEF IndInv, Begun, TypeOK
<1>16. NoneForgotten'
  BY <1>1, <1>2, <1>3, <1>4 DEF IndInv, NoneForgotten, TypeOK
<1>17. ReplayedFirst'
  BY <1>1, <1>2, <1>3, <1>4 DEF IndInv, ReplayedFirst, TypeOK, Mine
<1>18. Settled'
  BY <1>1, <1>2, <1>3, <1>4 DEF IndInv, Settled, TypeOK, Mine
<1>19. AtMostOnce'
  BY <1>1, <1>2, <1>3, <1>4 DEF IndInv, AtMostOnce, TypeOK
<1>20. FinishedIsKept'
  BY <1>1, <1>2, <1>3, <1>4 DEF IndInv, FinishedIsKept, TypeOK
<1> QED BY <1>11, <1>12, <1>13, <1>14, <1>15,
           <1>16, <1>17, <1>18, <1>19, <1>20 DEF IndInv

\* The cloud acts on the report of a stray.
LEMMA StrayLandsStep ==
  ASSUME IndInv, \E c \in Commands : StrayLands(c)
  PROVE  IndInv'
<1>1. PICK c \in Commands : StrayLands(c)
  OBVIOUS
<1>2. /\ UNCHANGED <<auth, session, journal, summary, ran, finished, failures, crashes>>
      /\ stray[c].at = "report"
      /\ stray' = [stray EXCEPT ![c].reply = Submitted(c, "done", stray[c].as)]
      /\ cloud' = Accepted(c, "done", stray[c].as)
  BY <1>1 DEF StrayLands, bounds
<1>3. /\ Submitted(c, "done", stray[c].as) \in {"ok", "rejected"}
      /\ cloud' \in [Commands -> Fates]
      /\ \A d \in Commands : cloud[d] \in Results => cloud'[d] \in Results
      /\ Submitted(c, "done", stray[c].as) = "ok" => cloud'[c] \in Results
  <2>1. "done" \in Receipts /\ "done" \in Results
    BY DEF Receipts, Results
  <2> QED BY <1>2, <2>1, SubmittedFacts DEF IndInv, TypeOK
<1>4. /\ stray' \in [Commands -> StrayType]
      /\ \A d \in Commands : d # c => stray'[d] = stray[d]
      /\ stray'[c].at = "report"
      /\ stray'[c].reply = Submitted(c, "done", stray[c].as)
  BY <1>2, <1>3 DEF IndInv, TypeOK, StrayType
<1>11. TypeOK'
  BY <1>2, <1>3, <1>4 DEF IndInv, TypeOK
<1>12. Faithful'
  BY <1>1, <1>2, <1>3, <1>4 DEF IndInv, Faithful, TypeOK, Mine
<1>13. Acknowledged'
  BY <1>1, <1>2, <1>3, <1>4 DEF IndInv, Acknowledged, Faithful, TypeOK, Mine
<1>14. Kept'
  BY <1>1, <1>2, <1>3, <1>4 DEF IndInv, Kept, TypeOK
<1>15. Begun'
  BY <1>1, <1>2, <1>3, <1>4 DEF IndInv, Begun, TypeOK
<1>16. NoneForgotten'
  BY <1>1, <1>2, <1>3, <1>4 DEF IndInv, NoneForgotten, TypeOK
<1>17. ReplayedFirst'
  BY <1>1, <1>2, <1>3, <1>4 DEF IndInv, ReplayedFirst, TypeOK, Mine
<1>18. Settled'
  BY <1>1, <1>2, <1>3, <1>4 DEF IndInv, Settled, TypeOK, Mine
<1>19. AtMostOnce'
  BY <1>1, <1>2, <1>3, <1>4 DEF IndInv, AtMostOnce, TypeOK
<1>20. FinishedIsKept'
  BY <1>1, <1>2, <1>3, <1>4 DEF IndInv, FinishedIsKept, TypeOK
<1> QED BY <1>11, <1>12, <1>13, <1>14, <1>15,
           <1>16, <1>17, <1>18, <1>19, <1>20 DEF IndInv

\* The report of a stray was answered.
LEMMA StrayAnsweredStep ==
  ASSUME IndInv, \E c \in Commands : StrayAnswered(c)
  PROVE  IndInv'
<1>1. PICK c \in Commands : StrayAnswered(c)
  OBVIOUS
<1>2. /\ UNCHANGED <<auth, session, summary, cloud, ran, finished, crashes>>
      /\ stray[c].at = "report" /\ stray' = [stray EXCEPT ![c] = NoStray]
      /\ ran[c] > 0
  BY <1>1 DEF StrayAnswered, IndInv, Begun
<1>3. /\ failures' \in 0 .. MaxFailures
      /\ \/ journal' = journal
         \/ /\ cloud[c] \in Results
            /\ journal' = [journal EXCEPT ![c] = "absent"]
  BY <1>1, BoundsAssumption DEF StrayAnswered, IndInv, TypeOK, Acknowledged
<1>4. /\ journal' \in [Commands -> Receipts]
      /\ \A d \in Commands : \/ journal'[d] = journal[d]
                             \/ /\ d = c /\ cloud[d] \in Results
                                /\ journal'[d] = "absent"
  BY <1>3 DEF IndInv, TypeOK, Receipts
<1>5. /\ stray' \in [Commands -> StrayType]
      /\ \A d \in Commands : stray'[d] = stray[d] \/ stray'[d].at = "none"
  BY <1>2 DEF NoStray, StrayType, IndInv, TypeOK
<1>11. TypeOK'
  BY <1>2, <1>3, <1>4, <1>5 DEF IndInv, TypeOK
<1>12. Faithful'
  BY <1>1, <1>2, <1>3, <1>4, <1>5 DEF IndInv, Faithful, TypeOK, Mine
<1>13. Acknowledged'
  BY <1>1, <1>2, <1>3, <1>4, <1>5 DEF IndInv, Acknowledged, Faithful, TypeOK, Mine
<1>14. Kept'
  BY <1>1, <1>2, <1>3, <1>4, <1>5 DEF IndInv, Kept, TypeOK
<1>15. Begun'
  BY <1>2, <1>4, <1>5 DEF IndInv, Begun, TypeOK, Faithful, Mine
<1>16. NoneForgotten'
  BY <1>1, <1>2, <1>3, <1>4, <1>5 DEF IndInv, NoneForgotten, TypeOK
<1>17. ReplayedFirst'
  BY <1>1, <1>2, <1>3, <1>4, <1>5 DEF IndInv, ReplayedFirst, TypeOK, Mine
<1>18. Settled'
  BY <1>1, <1>2, <1>3, <1>4, <1>5 DEF IndInv, Settled, TypeOK, Mine
<1>19. AtMostOnce'
  BY <1>1, <1>2, <1>3, <1>4, <1>5 DEF IndInv, AtMostOnce, TypeOK
<1>20. FinishedIsKept'
  BY <1>1, <1>2, <1>3, <1>4, <1>5 DEF IndInv, FinishedIsKept, TypeOK
<1> QED BY <1>11, <1>12, <1>13, <1>14, <1>15,
           <1>16, <1>17, <1>18, <1>19, <1>20 DEF IndInv

\* The cloud's operators issue and expire commands.
LEMMA IssueExpireStep ==
  ASSUME IndInv, \E c \in Commands : Issue(c) \/ Expire(c)
  PROVE  IndInv'
<1>1. PICK c \in Commands : Issue(c) \/ Expire(c)
  OBVIOUS
<1>2. UNCHANGED <<auth, session, stray, journal, summary, ran, finished,
                failures, crashes>>
  BY <1>1 DEF Issue, Expire, bounds
<1>3. /\ cloud' \in [Commands -> Fates]
      /\ \A d \in Commands : cloud[d] \in Results => cloud'[d] \in Results
  BY <1>1 DEF Issue, Expire, IndInv, TypeOK, Fates, Results
<1>11. TypeOK'
  BY <1>1, <1>2, <1>3 DEF IndInv, TypeOK
<1>12. Faithful'
  BY <1>1, <1>2, <1>3 DEF IndInv, Faithful, TypeOK, Mine
<1>13. Acknowledged'
  BY <1>1, <1>2, <1>3 DEF IndInv, Acknowledged, Faithful, TypeOK, Mine
<1>14. Kept'
  BY <1>1, <1>2, <1>3 DEF IndInv, Kept, TypeOK
<1>15. Begun'
  BY <1>1, <1>2, <1>3 DEF IndInv, Begun, TypeOK
<1>16. NoneForgotten'
  BY <1>1, <1>2, <1>3 DEF IndInv, NoneForgotten, TypeOK
<1>17. ReplayedFirst'
  BY <1>1, <1>2, <1>3 DEF IndInv, ReplayedFirst, TypeOK, Mine
<1>18. Settled'
  BY <1>1, <1>2, <1>3 DEF IndInv, Settled, TypeOK, Mine
<1>19. AtMostOnce'
  BY <1>1, <1>2, <1>3 DEF IndInv, AtMostOnce, TypeOK
<1>20. FinishedIsKept'
  BY <1>1, <1>2, <1>3 DEF IndInv, FinishedIsKept, TypeOK
<1> QED BY <1>11, <1>12, <1>13, <1>14, <1>15,
           <1>16, <1>17, <1>18, <1>19, <1>20 DEF IndInv

-----------------------------------------------------------------------------
(* The theorems.                                                           *)

LEMMA InitInv == Init => IndInv
<1> SUFFICES ASSUME Init PROVE IndInv
  OBVIOUS
<1>1. /\ Off \in SessionType /\ Off.at = "off" /\ Off.cmd = NoCommand
      /\ Off.todo = {} /\ Off.reply = "none"
  BY OffFields
<1>2. NoStray \in StrayType /\ NoStray.at = "none"
  BY DEF NoStray, StrayType
<1>3. TypeOK
  BY <1>1, <1>2, BoundsAssumption DEF Init, TypeOK, Receipts, Fates
<1>4. Faithful /\ ReplayedFirst /\ Settled
  BY <1>1 DEF Init, Faithful, ReplayedFirst, Settled, Requests
<1>5. Acknowledged /\ Kept /\ Begun /\ NoneForgotten
  BY <1>1, <1>2 DEF Init, Acknowledged, Kept, Begun, NoneForgotten
<1>6. AtMostOnce /\ FinishedIsKept
  BY DEF Init, AtMostOnce, FinishedIsKept
<1> QED BY <1>3, <1>4, <1>5, <1>6 DEF IndInv

LEMMA NextInv == IndInv /\ [Next]_vars => IndInv'
<1> SUFFICES ASSUME IndInv, [Next]_vars PROVE IndInv'
  OBVIOUS
<1>1. CASE Step
  BY <1>1, TimerFiresStep, LandsStep, BeatAnsweredStep, AnnouncedStep,
     ProbeDoneStep, DeliveredStep, RejectedStep DEF Step
<1>2. CASE RequestFails \/ SessionRefused \/ SignOut \/ Crash
  BY <1>2, RequestFailsStep, SessionRefusedStep, SignOutStep, CrashStep
<1>3. CASE \E p \in Principals : SignIn(p)
  BY <1>3, SignInStep
<1>4. CASE \E c \in Commands : StrayDone(c)
  BY <1>4, StrayDoneStep
<1>5. CASE \E c \in Commands : StrayLands(c)
  BY <1>5, StrayLandsStep
<1>6. CASE \E c \in Commands : StrayAnswered(c)
  BY <1>6, StrayAnsweredStep
<1>7. CASE \E c \in Commands : Issue(c) \/ Expire(c)
  BY <1>7, IssueExpireStep
<1>8. CASE UNCHANGED vars
  BY <1>8 DEF vars, IndInv, TypeOK, Faithful, Acknowledged, Kept, Begun,
              NoneForgotten, ReplayedFirst, Settled, AtMostOnce,
              FinishedIsKept, Mine
<1> QED BY <1>1, <1>2, <1>3, <1>4, <1>5, <1>6, <1>7, <1>8 DEF Next

LEMMA Inductive == Spec => []IndInv
<1> QED BY InitInv, NextInv, PTL DEF Spec

\* The state has its type: in particular there is a session exactly while an
\* account is signed in, whatever aborted it (coordinator.ts, onAuthState).
THEOREM TypeCorrect == Spec => []TypeOK
<1>1. IndInv => TypeOK
  BY DEF IndInv
<1> QED BY <1>1, Inductive, PTL

\* "An interrupted running command is never executed twice", for any number
\* of accounts and commands, lost answers, claims of the same command, changes
\* of the account and exits of the app.
THEOREM OncePerCommand == Spec => []AtMostOnce
<1>1. IndInv => AtMostOnce
  BY DEF IndInv
<1> QED BY <1>1, Inductive, PTL

\* "A terminal result can be retried": what a health check found is on disk
\* until the cloud has a result for the command.
THEOREM OutcomesKept == Spec => []FinishedIsKept
<1>1. IndInv => FinishedIsKept
  BY DEF IndInv
<1> QED BY <1>1, Inductive, PTL
=============================================================================
