---------------------------- MODULE GatewayProofs ----------------------------
(***************************************************************************)
(* Proofs about Gateway and its ledger, for any pids, launches, contents   *)
(* and troubles.                                                           *)
(*                                                                         *)
(* The ledger implements a durable register.  Whatever a write or a start  *)
(* does to the three files, a reader of them finds what it would have      *)
(* found before, or the value of the write (PersistReads, LoadsRead).  So  *)
(* what is on disk is the acknowledged value or one of a later write       *)
(* (Durable), and the backup is never all that is left (Sound).            *)
(*                                                                         *)
(* Every variable of the gateway keeps its type; whatever the app does     *)
(* with its processes, its ledger does only what GatewayLedger allows; and *)
(* what is on record stays there while it lives, which rests on the        *)
(* invariant Ownership.  Signals reach our own processes only: no evidence *)
(* the app goes by is a stranger's (OwnEvidence), as long as the record    *)
(* knows of a stranger whose pid is in gateway.pid or in use by a function *)
(* (KnownStranger).                                                        *)
(***************************************************************************)
EXTENDS Gateway, TLAPS

-----------------------------------------------------------------------------
(* The ledger.                                                             *)

\* Only the pending file can be torn, and the backup is never the only file.
Sound(f) ==
  /\ f \in Disk
  /\ f.canonical # Torn /\ f.backup # Torn
  /\ f.pending.kind = "whole" \/ f.canonical # Absent \/ f.backup = Absent

Durable ==
  /\ Read(files) \in asked \union {state}
  /\ asked = {} => Read(files) = state

LedgerInv == LedgerTypeOK /\ Sound(files) /\ Durable

-----------------------------------------------------------------------------
(* What a reader finds.                                                    *)

LEMMA Fixed ==
  /\ Absent \in Content /\ Torn \in Content /\ Absent # Torn
  /\ Absent.kind = "absent" /\ Torn.kind = "torn"
  /\ Absent.value \in Value /\ Torn.value \in Value
  BY EmptyAssumption DEF Content, Absent, Torn

LEMMA WholeFields ==
  ASSUME NEW v \in Value
  PROVE  /\ Whole(v) \in Content /\ Whole(v).kind = "whole"
         /\ Whole(v).value = v /\ Whole(v) # Absent /\ Whole(v) # Torn
  BY DEF Content, Absent, Torn, Whole

LEMMA Kinds ==
  ASSUME NEW c \in Content
  PROVE  /\ c = Absent \/ c = Torn \/ c.kind = "whole"
         /\ c.kind = "whole" => c # Absent /\ c # Torn
         /\ c.value \in Value
<1>1. CASE c = Absent \/ c = Torn
  BY <1>1, Fixed
<1>2. CASE c \in {Whole(v) : v \in Value}
  BY <1>2, WholeFields
<1> QED BY <1>1, <1>2 DEF Content

LEMMA ReadValue ==
  ASSUME NEW f \in Disk
  PROVE  Read(f) \in Value
  BY Kinds DEF Read, Disk

\* A promotion that ends, well or badly, changes nothing for a reader.
LEMMA PromotionsRead ==
  ASSUME NEW f, Sound(f), f.pending.kind = "whole", NEW r \in Promotions(f)
  PROVE  /\ Sound(r.files) /\ Read(r.files) = Read(f) /\ r.ok \in BOOLEAN
         /\ r.ok => r.files.pending = Absent
         /\ ~r.ok => r.files.pending.kind = "whole"
<1>0. /\ f = [pending |-> f.pending, canonical |-> f.canonical,
              backup |-> f.backup]
      /\ f.pending \in Content /\ f.canonical \in Content
      /\ f.backup \in Content /\ Absent \in Content /\ Absent # Torn
      /\ f.canonical # Torn /\ f.backup # Torn
      /\ f.pending # Absent /\ f.pending # Torn /\ Absent.kind = "absent"
  BY Fixed, Kinds DEF Sound, Disk
<1>1. CASE \E b \in {Absent, f.backup, f.canonical} :
             r = Result(TRUE, [pending |-> Absent, canonical |-> f.pending,
                               backup |-> b])
  <2>1. PICK b \in {Absent, f.backup, f.canonical} :
          r = Result(TRUE, [pending |-> Absent, canonical |-> f.pending,
                            backup |-> b])
    BY <1>1
  <2>2. /\ r.ok = TRUE /\ r.files.pending = Absent
        /\ r.files = [pending |-> Absent, canonical |-> f.pending, backup |-> b]
    BY <2>1 DEF Result
  <2>3. b \in Content /\ b # Torn
    BY <1>0
  <2>4. Sound(r.files)
    BY <1>0, <2>2, <2>3 DEF Sound, Disk
  <2>5. Read(r.files) = Read(f)
    BY <1>0, <2>2 DEF Read
  <2> QED BY <2>2, <2>4, <2>5
<1>2. CASE r = Result(FALSE, f)
  BY <1>2 DEF Result
<1>3. CASE r = Result(FALSE, [f EXCEPT !.backup = Absent])
  <2>1. /\ r.ok = FALSE
        /\ r.files = [pending |-> f.pending, canonical |-> f.canonical,
                      backup |-> Absent]
    BY <1>0, <1>3 DEF Result
  <2>2. Sound(r.files)
    BY <1>0, <2>1 DEF Sound, Disk
  <2>3. Read(r.files) = Read(f)
    BY <1>0, <2>1 DEF Read
  <2>4. r.files.pending.kind = "whole"
    BY <2>1
  <2> QED BY <2>1, <2>2, <2>3, <2>4
<1>4. CASE r = Result(FALSE, [f EXCEPT !.canonical = Absent,
                                       !.backup = f.canonical])
  <2>1. /\ r.ok = FALSE
        /\ r.files = [pending |-> f.pending, canonical |-> Absent,
                      backup |-> f.canonical]
    BY <1>0, <1>4 DEF Result
  <2>2. Sound(r.files)
    BY <1>0, <2>1 DEF Sound, Disk
  <2>3. Read(r.files) = Read(f)
    BY <1>0, <2>1 DEF Read
  <2>4. r.files.pending.kind = "whole"
    BY <2>1
  <2> QED BY <2>1, <2>2, <2>3, <2>4
<1> QED BY <1>1, <1>2, <1>3, <1>4 DEF Promotions

LEMMA PromotePendingReads ==
  ASSUME NEW f, Sound(f), NEW r \in PromotePending(f)
  PROVE  /\ Sound(r.files) /\ Read(r.files) = Read(f) /\ r.ok \in BOOLEAN
         /\ r.ok => r.files.pending = Absent
<1>1. CASE f.pending = Absent
  <2>1. r = Result(TRUE, f)
    BY <1>1, Fixed DEF PromotePending
  <2> QED BY <1>1, <2>1 DEF Result
<1>2. CASE f.pending = Torn
  <2>1. r = Result(FALSE, f)
    BY <1>2, Fixed DEF PromotePending
  <2> QED BY <2>1 DEF Result
<1>3. CASE f.pending # Absent /\ f.pending # Torn
  <2>1. f.pending.kind = "whole"
    BY <1>3, Kinds DEF Sound, Disk
  <2>2. r \in Promotions(f)
    BY <1>3 DEF PromotePending
  <2> QED BY <2>1, <2>2, PromotionsRead
<1> QED BY <1>1, <1>2, <1>3

\* An acknowledged write is found, one that failed is found or is not.
LEMMA PersistReads ==
  ASSUME NEW f, Sound(f), loadIssue \in BOOLEAN, NEW v \in Value,
         NEW e \in Persist(f, v)
  PROVE  /\ Sound(e.files) /\ e.ack \in BOOLEAN /\ e.issue \in BOOLEAN
         /\ e.ack => Read(e.files) = v
         /\ ~e.ack => Read(e.files) \in {Read(f), v}
<1> DEFINE before == PromotePending(f)
           clear == {r.files : r \in {p \in before : p.ok}}
<1>1. \A g \in clear : Sound(g) /\ Read(g) = Read(f) /\ g.pending = Absent
  BY PromotePendingReads
<1>2. CASE \E r \in before : e = Ending(FALSE, loadIssue, r.files)
  BY <1>2, PromotePendingReads DEF Ending
<1>3. CASE \E g \in clear : \E c \in {Absent, Torn, Whole(v)} :
             e = Ending(FALSE, loadIssue, [g EXCEPT !.pending = c])
  <2>1. PICK g \in clear, c \in {Absent, Torn, Whole(v)} :
          e = Ending(FALSE, loadIssue, [g EXCEPT !.pending = c])
    BY <1>3
  <2>2. g \in Disk
    BY <1>1 DEF Sound
  <2>3. /\ e.files = [pending |-> c, canonical |-> g.canonical,
                      backup |-> g.backup]
        /\ e.ack = FALSE /\ e.issue = loadIssue
    BY <2>1, <2>2 DEF Ending, Disk
  <2>4. Sound(e.files)
    BY <1>1, <2>2, <2>3, Fixed, WholeFields DEF Sound, Disk
  <2>5. Read(e.files) \in {Read(f), v}
    BY <1>1, <2>3, Fixed, WholeFields DEF Read
  <2> QED BY <2>3, <2>4, <2>5
<1>4. CASE \E g \in clear : \E r \in Promotions([g EXCEPT !.pending = Whole(v)]) :
             e = Ending(TRUE, ~r.ok, r.files)
  <2>0. PICK g \in clear : \E r \in Promotions([g EXCEPT !.pending = Whole(v)]) :
          e = Ending(TRUE, ~r.ok, r.files)
    BY <1>4
  <2> DEFINE h == [g EXCEPT !.pending = Whole(v)]
  <2>1. PICK r \in Promotions(h) : e = Ending(TRUE, ~r.ok, r.files)
    BY <2>0
  <2>2. /\ h = [pending |-> Whole(v), canonical |-> g.canonical,
                backup |-> g.backup]
        /\ g \in Disk
    BY <1>1 DEF Sound, Disk
  <2> HIDE DEF h
  <2>3. h.pending = Whole(v) /\ Sound(h)
    BY <1>1, <2>2, WholeFields DEF Sound, Disk
  <2>6. h.pending.kind = "whole" /\ Read(h) = v
    BY <2>3, WholeFields DEF Read
  <2>4. Sound(r.files) /\ Read(r.files) = v /\ r.ok \in BOOLEAN
    BY <2>1, <2>3, <2>6, PromotionsRead
  <2>5. e.ack = TRUE /\ e.issue = ~r.ok /\ e.files = r.files
    BY <2>1 DEF Ending
  <2> QED BY <2>4, <2>5
<1> DEFINE unwritten == {[g EXCEPT !.pending = c] :
                           g \in clear, c \in {Absent, Torn, Whole(v)}}
           after == UNION {Promotions([g EXCEPT !.pending = Whole(v)]) :
                             g \in clear}
<1>5. Persist(f, v) =
        {Ending(FALSE, loadIssue, r.files) : r \in {p \in before : ~p.ok}}
          \union {Ending(FALSE, loadIssue, g) : g \in unwritten}
          \union {Ending(TRUE, ~r.ok, r.files) : r \in after}
  BY DEF Persist
<1>6. CASE e \in {Ending(FALSE, loadIssue, g) : g \in unwritten}
  <2> HIDE DEF unwritten, clear
  <2>1. PICK h \in unwritten : e = Ending(FALSE, loadIssue, h)
    BY <1>6
  <2> USE DEF unwritten
  <2>2. PICK g \in clear, c \in {Absent, Torn, Whole(v)} :
          h = [g EXCEPT !.pending = c]
    OBVIOUS
  <2>3. e = Ending(FALSE, loadIssue, [g EXCEPT !.pending = c])
    BY <2>1, <2>2
  <2> HIDE DEF unwritten
  <2>4. \E x \in clear : \E y \in {Absent, Torn, Whole(v)} :
          e = Ending(FALSE, loadIssue, [x EXCEPT !.pending = y])
    BY <2>3
  <2> QED BY <1>3, <2>4
<1>7. CASE e \in {Ending(TRUE, ~r.ok, r.files) : r \in after}
  <2> HIDE DEF after, clear
  <2>1. PICK r \in after : e = Ending(TRUE, ~r.ok, r.files)
    BY <1>7
  <2> USE DEF after
  <2>2. PICK g \in clear : r \in Promotions([g EXCEPT !.pending = Whole(v)])
    OBVIOUS
  <2> HIDE DEF after
  <2> QED BY <1>4, <2>1, <2>2
<1>8. CASE e \in {Ending(FALSE, loadIssue, r.files) : r \in {p \in before : ~p.ok}}
  <2> HIDE DEF before
  <2> QED BY <1>2, <1>8
<1> HIDE DEF before, unwritten, after
<1> QED BY <1>5, <1>6, <1>7, <1>8

\* A start finds what was there and changes nothing for the next one.
LEMMA LoadsRead ==
  ASSUME NEW f, Sound(f), NEW l \in Loads(f)
  PROVE  Sound(l.files) /\ Read(l.files) = Read(f) /\ l.issue \in BOOLEAN
<1>1. CASE f.pending = Torn
  <2>1. PICK c \in {Absent, Torn} :
          l = [issue |-> TRUE, files |-> [f EXCEPT !.pending = c]]
    BY <1>1 DEF Loads
  <2>2. l.files = [pending |-> c, canonical |-> f.canonical,
                   backup |-> f.backup]
    BY <2>1 DEF Sound, Disk
  <2>3. l.issue = TRUE
    BY <2>1
  <2>4. Sound(l.files)
    BY <1>1, <2>2, Fixed DEF Sound, Disk
  <2>5. Read(l.files) = Read(f)
    BY <1>1, <2>2, Fixed DEF Read
  <2> QED BY <2>3, <2>4, <2>5
<1>2. CASE f.pending # Torn
  <2>1. PICK r \in PromotePending(f) :
          l = [issue |-> ~r.ok \/ (r.files.canonical = Absent
                                     /\ r.files.backup # Absent),
               files |-> r.files]
    BY <1>2 DEF Loads
  <2>2. Sound(r.files) /\ Read(r.files) = Read(f) /\ r.ok \in BOOLEAN
    BY PromotePendingReads
  <2>3. l.files = r.files /\ l.issue \in BOOLEAN
    BY <2>1, <2>2
  <2> QED BY <2>2, <2>3
<1> QED BY <1>1, <1>2

-----------------------------------------------------------------------------
(* Steps.                                                                  *)

LEMMA LedgerInitially ==
  LedgerInit => LedgerInv /\ Register!Init
<1> SUFFICES ASSUME LedgerInit PROVE LedgerInv /\ Register!Init
  OBVIOUS
<1> DEFINE main == IF state = Empty THEN Absent ELSE Whole(state)
<1>0. /\ files = [pending |-> Absent, backup |-> Absent, canonical |-> main]
      /\ state \in Value
  BY DEF LedgerInit
<1>3. /\ main \in Content /\ main # Torn
      /\ main.kind = "whole" => main.value = state
      /\ main.kind # "whole" => state = Absent.value
  BY <1>0, Fixed, WholeFields DEF Absent
<1> HIDE DEF main
<1>4. Sound(files)
  BY <1>0, <1>3, Fixed DEF Sound, Disk
<1>5. Read(files) = state
  BY <1>0, <1>3, Fixed DEF Read
<1>1. Sound(files) /\ Read(files) = state
  BY <1>4, <1>5
<1>2. LedgerTypeOK
  BY <1>1 DEF LedgerInit, LedgerTypeOK, Sound
<1> QED BY <1>1, <1>2 DEF LedgerInit, LedgerInv, Durable, Register!Init

LEMMA ReplaceStep ==
  ASSUME LedgerInv, NEW v \in Value, Replace(v)
  PROVE  LedgerInv' /\ (Register!Acknowledge \/ Register!Doubt)
<1>1. PICK r \in Persist(files, v) : Ends(v, r)
  BY DEF Replace
<1>2. /\ Sound(r.files) /\ r.ack \in BOOLEAN /\ r.issue \in BOOLEAN
      /\ r.ack => Read(r.files) = v
      /\ ~r.ack => Read(r.files) \in {Read(files), v}
  BY <1>1, PersistReads DEF LedgerInv, LedgerTypeOK
<1>3. Sound(files') /\ loadIssue' \in BOOLEAN /\ live /\ live' = live
  BY <1>1, <1>2 DEF Ends
<1>4. CASE r.ack
  <2>1. state' = v /\ asked' = {} /\ Read(files') = v
    BY <1>1, <1>2, <1>4 DEF Ends
  <2> QED BY <1>3, <2>1
        DEF LedgerInv, LedgerTypeOK, Durable, Sound, Register!Acknowledge
<1>5. CASE ~r.ack
  <2>1. /\ state' = state /\ asked' = asked \union {v}
        /\ Read(files') \in {Read(files), v}
    BY <1>1, <1>2, <1>5 DEF Ends
  <2>2. LedgerInv'
    BY <1>3, <2>1 DEF LedgerInv, LedgerTypeOK, Durable, Sound
  <2> QED BY <1>3, <2>1, <2>2 DEF Register!Doubt
<1> QED BY <1>2, <1>4, <1>5

LEMMA LoadStep ==
  ASSUME LedgerInv, Load
  PROVE  LedgerInv' /\ Register!Find
<1>1. Sound(files') /\ Read(files') = Read(files) /\ loadIssue' \in BOOLEAN
  BY LoadsRead DEF Load, LedgerInv
<1>2. Read(files) \in Value
  BY ReadValue DEF LedgerInv, LedgerTypeOK
<1> QED BY <1>1, <1>2 DEF LedgerInv, LedgerTypeOK, Durable, Sound, Load,
                          Register!Find

LEMMA LedgerStep ==
  ASSUME LedgerInv, [LedgerNext]_ledger
  PROVE  LedgerInv' /\ [Register!Next]_(Register!vars)
<1>1. ASSUME NEW v \in Value, Replace(v)
      PROVE  LedgerInv' /\ [Register!Next]_(Register!vars)
  BY <1>1, ReplaceStep DEF Register!Next
<1>2. CASE Load
  BY <1>2, LoadStep DEF Register!Next
<1>3. CASE Die
  <2>1. LedgerInv'
    BY <1>3 DEF Die, LedgerInv, LedgerTypeOK, Durable
  <2> QED BY <1>3, <2>1 DEF Die, Register!Next, Register!Die
<1>4. CASE UNCHANGED ledger
  <2>1. LedgerInv'
    BY <1>4 DEF ledger, LedgerInv, LedgerTypeOK, Durable
  <2> QED BY <1>4, <2>1 DEF ledger, Register!vars
<1> QED BY <1>1, <1>2, <1>3, <1>4 DEF LedgerNext

-----------------------------------------------------------------------------
(* The launch records: what is acknowledged is found by the next process,  *)
(* and nothing is found that was not acknowledged or asked for since       *)
(* (persist, promotePending and readState).                                *)
THEOREM LedgerIsDurable ==
  LedgerSpec => ImplementsDurableRegister
<1>1. LedgerSpec => []LedgerInv
  BY LedgerInitially, LedgerStep, PTL DEF LedgerSpec
<1> QED BY <1>1, LedgerInitially, LedgerStep, PTL
      DEF LedgerSpec, ImplementsDurableRegister, Register!Spec

(* readState never has only the backup to read.                            *)
THEOREM BackupIsNeverAll ==
  LedgerSpec => [](LedgerTypeOK /\ BackupNeverDecides)
<1>1. LedgerInv => LedgerTypeOK /\ BackupNeverDecides
  BY DEF LedgerInv, Sound, BackupNeverDecides
<1> QED BY <1>1, LedgerInitially, LedgerStep, PTL DEF LedgerSpec

-----------------------------------------------------------------------------
(* The gateway.                                                            *)

USE DEF world, timers, memory, history, vars

\* What a step may do to the ledger.
Moves == Die \/ Load \/ UNCHANGED ledger \/ \E v \in Entries : Replace(v)

-----------------------------------------------------------------------------
(* Values.                                                                 *)

LEMMA LaunchTyped ==
  MaxLaunches \in Nat /\ 0 \in Launch
  BY BudgetsAssumption DEF Launch

LEMMA ProcessesTyped ==
  /\ Nobody \in Processes /\ Legacy \in Processes /\ Foreign \in Processes
  /\ \A l \in Launch : /\ Process("wrapper", l) \in Processes
                       /\ Process("listener", l) \in Processes
  /\ \A x \in Processes : x.launch \in Launch
  <1>1. \A x \in Processes :
          \/ x \in {Nobody, Legacy, Foreign}
          \/ \E role \in {"wrapper", "listener"}, l \in Launch :
               x = Process(role, l)
    BY DEF Processes
  <1>2. \A x \in Processes :
          x.launch \in Launch
    BY <1>1, LaunchTyped DEF Nobody, Legacy, Foreign, Process
  <1>3. /\ Nobody \in Processes /\ Legacy \in Processes /\ Foreign \in Processes
        /\ \A role \in {"wrapper", "listener"}, l \in Launch :
             Process(role, l) \in Processes
    BY DEF Processes
  <1> QED  BY <1>2, <1>3

LEMMA PidTyped == NoPid \in Pid /\ Pids \subseteq Pid
  BY DEF Pid

LEMMA NothingTyped ==
  /\ NoEntry \in Entries
  /\ NoChild \in [launch : Launch, pid : Pid]
  /\ NoTimer \in TimerType
  /\ NoTick \in TickType
  /\ Idle \in FlowType
  BY LaunchTyped, ProcessesTyped, PidTyped
  DEF Entries, NoEntry, NoChild, NoTimer, NoTick, Idle, TimerType, TickType,
      FlowType, PCs

(* Who has a pid, and what the app can see of it.                          *)
LEMMA AtTyped ==
  ASSUME WorldOK, NEW p \in Pid
  PROVE  /\ At(p) \in Processes /\ Observed(p) \in Processes
         /\ At(p).role = "wrapper" => p \in Pids
  BY ProcessesTyped DEF WorldOK, At, Observed, Pid, Nobody

(* The records that are written.                                           *)
LEMMA EntriesTyped ==
  /\ \A l \in Launch, p \in Pid :
       [NoEntry EXCEPT !.launch = l, !.pre = p] \in Entries
  /\ \A e \in Entries, p \in Pid : [e EXCEPT !.wrapper = p] \in Entries
  /\ \A e \in Entries, x \in Processes : [e EXCEPT !.wproof = x] \in Entries
  /\ WorldOK =>
       \A e \in Entries, x \in Processes : Adopted(e, x) \in Entries
  BY NothingTyped DEF Entries, NoEntry, Adopted, WorldOK

LEMMA EntryFields ==
  ASSUME NEW e \in Entries
  PROVE  /\ e.launch \in Launch
         /\ e.pre \in Pid /\ e.wrapper \in Pid /\ e.listener \in Pid
         /\ e.wproof \in Processes /\ e.lproof \in Processes
         /\ Wrapper(e) \in TargetType
         /\ WorldOK => Listener(e) \in TargetType
  BY ProcessesTyped, PidTyped
  DEF Entries, Wrapper, Listener, Target, TargetType, WorldOK

LEMMA FlowFields ==
  ASSUME NEW r \in FlowType
  PROVE  /\ r.launch \in Launch
         /\ r.proc \in Pid /\ r.pre \in Pid /\ r.candidate \in Pid
         /\ r.evidence \in Processes
         /\ r.kills \in SUBSET TargetType
         /\ r.ready \in BOOLEAN /\ r.clean \in BOOLEAN /\ r.retried \in BOOLEAN
  BY DEF FlowType

LEMMA StateTyped == LedgerTypeOK => state \in Entries
  BY ValueAssumption DEF LedgerTypeOK

-----------------------------------------------------------------------------
(* Writes of the ledger.                                                   *)

(* A write that meets no trouble is one of those the ledger allows.        *)
LEMMA UndisturbedWrites ==
  ASSUME Sound(files), files.pending # Torn, NEW v \in Value
  PROVE  Undisturbed(v) \in Persist(files, v)
  <1> DEFINE before == PromotePending(files)
             clear == {r.files : r \in {p \in before : p.ok}}
  <1>1. PICK g \in clear : TRUE
    <2>1. CASE files.pending = Absent
      <3>1. Result(TRUE, files) \in before /\ Result(TRUE, files).ok
        BY <2>1 DEF PromotePending, Result
      <3> QED  BY <3>1
    <2>2. CASE files.pending # Absent
      <3> DEFINE r == Result(TRUE, [pending |-> Absent,
                                    canonical |-> files.pending,
                                    backup |-> Absent])
      <3>1. r \in before
        BY <2>2 DEF PromotePending, Promotions
      <3>2. r.ok
        BY DEF Result
      <3> QED  BY <3>1, <3>2
    <2> QED  BY <2>1, <2>2
  <1> DEFINE h == [g EXCEPT !.pending = Whole(v)]
             done == Result(TRUE, [pending |-> Absent, canonical |-> Whole(v),
                                   backup |-> Absent])
  <1>2. g \in Disk
    <2>1. \A r \in before : r.files \in Disk
      BY PromotePendingReads DEF Sound
    <2> QED  BY <1>1, <2>1
  <1>3. h.pending = Whole(v)
    BY <1>2 DEF Disk
  <1>4. done \in Promotions(h)
    BY <1>3 DEF Promotions
  <1>5. Undisturbed(v) = Ending(TRUE, ~done.ok, done.files)
    BY DEF Undisturbed, Ending, Result
  <1> DEFINE after ==
               UNION {Promotions([k EXCEPT !.pending = Whole(v)]) : k \in clear}
  <1>6. done \in after
    <2>1. Promotions(h) \in
            {Promotions([k EXCEPT !.pending = Whole(v)]) : k \in clear}
      BY <1>1
    <2> QED  BY <1>4, <2>1, Zenon
  <1>7. {Ending(TRUE, ~r.ok, r.files) : r \in after} \subseteq Persist(files, v)
    <2> DEFINE acknowledged == {Ending(TRUE, ~r.ok, r.files) : r \in after}
               failed == {Ending(FALSE, loadIssue, r.files) :
                            r \in {p \in before : ~p.ok}}
               unwritten == {[k EXCEPT !.pending = c] :
                               k \in clear, c \in {Absent, Torn, Whole(v)}}
               lost == {Ending(FALSE, loadIssue, k) : k \in unwritten}
    <2>1. Persist(files, v) = failed \union lost \union acknowledged
      BY DEF Persist
    <2> HIDE DEF acknowledged, failed, lost
    <2>2. acknowledged \subseteq Persist(files, v)
      BY <2>1
    <2> QED  BY <2>2 DEF acknowledged
  <1> HIDE DEF done, after
  <1>8. Undisturbed(v) \in {Ending(TRUE, ~r.ok, r.files) : r \in after}
    BY <1>5, <1>6, Zenon
  <1> QED  BY <1>7, <1>8, Zenon

(* Spend writes v, or fails to, and takes at most one trouble.             *)
LEMMA SpendWrites ==
  ASSUME LedgerInv, NEW v \in Entries, NEW b \in BudgetType, Spend(v, b)
  PROVE  /\ Moves
         /\ state' \in {v, state}
         /\ left' \in BudgetType /\ left'.launches = b.launches
         /\ live /\ live' = live
  <1>0. v \in Value /\ Sound(files)
    BY ValueAssumption DEF LedgerInv
  <1>1. CASE /\ files.pending # Torn
             /\ Ends(v, Undisturbed(v))
             /\ left' = b
    BY <1>0, <1>1, UndisturbedWrites DEF Moves, Replace, Ends
  <1>2. CASE ~(files.pending # Torn /\ Ends(v, Undisturbed(v)) /\ left' = b)
    <2>1. PICK r \in Persist(files, v) :
            /\ Ends(v, r)
            /\ b.troubles # 0 \/ files.pending = Torn
            /\ left' = IF files.pending = Torn THEN b
                       ELSE [b EXCEPT !.troubles = @ - 1]
      BY <1>2 DEF Spend
    <2>2. left' \in BudgetType /\ left'.launches = b.launches
      BY <2>1 DEF BudgetType
    <2> QED  BY <2>1, <2>2 DEF Moves, Replace, Ends
  <1> QED  BY <1>1, <1>2

(* The counters stay within the budget.                                    *)
LEMMA UpdateWrites ==
  ASSUME LedgerInv, BudgetOK, NEW v \in Entries,
         Update(v), UNCHANGED <<launches, first>>
  PROVE  Moves /\ BudgetOK' /\ state' \in {v, state} /\ live /\ live' = live
  <1>1. left \in BudgetType
    BY DEF BudgetOK
  <1> QED  BY <1>1, SpendWrites DEF Update, BudgetOK

LEMMA NoUpdateWrites ==
  ASSUME BudgetOK, NoUpdate, UNCHANGED <<launches, first>>
  PROVE  Moves /\ BudgetOK' /\ state' = state /\ live' = live
  BY DEF NoUpdate, Moves, BudgetOK, ledger
-----------------------------------------------------------------------------
(* The parts that several actions share.                                   *)

GatewayInv == TypeOK /\ LedgerInv

LEMMA GotoTyped ==
  ASSUME FlowOK, NEW f \in Flows, NEW pc \in PCs, Goto(f, pc)
  PROVE  FlowOK'
  BY DEF FlowOK, FlowType, Goto

LEMMA FlowUpdated ==
  ASSUME FlowOK, NEW f \in Flows, NEW r \in FlowType,
         flow' = [flow EXCEPT ![f] = r]
  PROVE  FlowOK'
  BY DEF FlowOK

LEMMA IdleAt ==
  /\ \A pc \in PCs : [Idle EXCEPT !.pc = pc] \in FlowType
  /\ \A pc \in PCs, r \in BOOLEAN :
       [Idle EXCEPT !.pc = pc, !.retried = r] \in FlowType
  BY NothingTyped DEF FlowType, Idle

LEMMA RestartedTyped ==
  ASSUME FlowOK, NEW ok \in BOOLEAN
  PROVE  Restarted(ok) \in [Flows -> FlowType]
  BY NothingTyped, IdleAt DEF FlowOK, Restarted, PCs

LEMMA AwaitsRestartTyped ==
  ASSUME FlowOK
  PROVE  AwaitsRestart \in [Flows -> FlowType]
  BY IdleAt DEF FlowOK, AwaitsRestart, PCs

LEMMA AnswersTyped ==
  ASSUME FlowOK, NEW f \in Flows, NEW ok \in BOOLEAN
  PROVE  Answers(f, ok) \in [Flows -> FlowType]
  <1>1. flow[f].retried \in BOOLEAN
    BY FlowFields DEF FlowOK
  <1>2. CASE f = "restart" /\ ok
    BY <1>2, RestartedTyped DEF Answers
  <1>3. CASE f = "restart" /\ ~ok
    <2>1. [Idle EXCEPT !.pc = "failed", !.retried = flow[f].retried] \in FlowType
      BY <1>1, IdleAt DEF PCs
    <2>2. Answers(f, ok) =
            [flow EXCEPT ![f] = [Idle EXCEPT !.pc = "failed",
                                             !.retried = flow[f].retried]]
      BY <1>3 DEF Answers
    <2> QED  BY <2>1, <2>2 DEF FlowOK
  <1>4. CASE f = "recovery" /\ ~ok
    BY <1>4, AwaitsRestartTyped DEF Answers
  <1>5. CASE f # "restart" /\ ~(f = "recovery" /\ ~ok)
    <2>1. Answers(f, ok) = [flow EXCEPT ![f] = Idle]
      BY <1>5 DEF Answers
    <2> QED  BY <2>1, NothingTyped DEF FlowOK
  <1> QED  BY <1>2, <1>3, <1>4, <1>5

LEMMA ClearPidFileTyped ==
  ASSUME WorldOK, NEW p, ClearPidFile(p)
  PROVE  pidfile' \in Pid
  BY PidTyped DEF WorldOK, ClearPidFile

LEMMA ClearRecordTyped ==
  ASSUME GatewayInv, ClearRecord, UNCHANGED <<launches, first>>
  PROVE  /\ Moves /\ BudgetOK' /\ pidfile' \in Pid
         /\ state' \in {NoEntry, state} /\ live' = live
  BY ClearPidFileTyped, UpdateWrites, NothingTyped
  DEF ClearRecord, GatewayInv, TypeOK

LEMMA TickTyped ==
  ASSUME NEW l \in Launch
  PROVE  [NoTick EXCEPT !.launch = l] \in TickType
  BY NothingTyped DEF TickType, NoTick

LEMMA TimerTyped ==
  ASSUME NEW l \in Launch
  PROVE  /\ [NoTimer EXCEPT !.launch = l] \in TimerType
         /\ \A p \in Pid : [NoTimer EXCEPT !.launch = l, !.proc = p] \in TimerType
  BY NothingTyped DEF TimerType, NoTimer

LEMMA ReconcileTyped ==
  ASSUME GatewayInv, NEW l \in Launch, NEW clean,
         Reconcile(l, clean), UNCHANGED <<launches, first>>
  PROVE  /\ Moves /\ BudgetOK' /\ state' \in {NoEntry, state} /\ live' = live
         /\ pidfile' \in Pid /\ adoption' \in TickType
  <1>0. WorldOK /\ BudgetOK /\ adoption \in TickType /\ pidfile \in Pid
    BY DEF GatewayInv, TypeOK, MemoryOK, WorldOK
  <1>1. CASE ClearRecord /\ UNCHANGED adoption
    BY <1>0, <1>1, ClearRecordTyped
  <1>2. CASE /\ adoption' \in {adoption, [NoTick EXCEPT !.launch = l]}
             /\ NoUpdate /\ UNCHANGED pidfile
    BY <1>0, <1>2, NoUpdateWrites, TickTyped
  <1> QED  BY <1>1, <1>2 DEF Reconcile

LEMMA EndedTyped ==
  ASSUME WorldOK, closing \in SUBSET EventType, NEW S, S \subseteq Pid, Ended(S)
  PROVE  /\ os' \in [Pids -> [who : Processes, stage : Stages]]
         /\ closing' \in SUBSET EventType
  <1>1. New(Nobody) \in [who : Processes, stage : Stages]
    BY ProcessesTyped DEF New, Stages
  <1>2. CloseEvents(S, FALSE) \subseteq EventType
    <2>1. \A p \in S : At(p).role = "wrapper"
                         => At(p).launch \in Launch /\ p \in Pids
      BY AtTyped, ProcessesTyped
    <2> SUFFICES ASSUME NEW e \in CloseEvents(S, FALSE)
                 PROVE  e \in EventType
      OBVIOUS
    <2>2. PICK p \in S : /\ At(p).role = "wrapper"
                         /\ e = [launch |-> At(p).launch, pid |-> p,
                                 clean |-> FALSE]
      BY DEF CloseEvents
    <2> QED  BY <2>1, <2>2 DEF EventType
  <1>3. os' \in [Pids -> [who : Processes, stage : Stages]]
    BY <1>1 DEF Ended, WorldOK
  <1>4. closing' = closing \union CloseEvents(S, FALSE)
    BY DEF Ended
  <1> QED  BY <1>2, <1>3, <1>4

LEMMA KilledTyped ==
  ASSUME WorldOK, closing \in SUBSET EventType, foul \in BOOLEAN,
         NEW S, S \subseteq Pid, Killed(S)
  PROVE  /\ os' \in [Pids -> [who : Processes, stage : Stages]]
         /\ closing' \in SUBSET EventType
         /\ foul' \in BOOLEAN
  BY EndedTyped DEF Killed, Signals

LEMMA StopGatewayTyped ==
  ASSUME GatewayInv, StopGateway, UNCHANGED <<launches, first>>
  PROVE  /\ Moves /\ BudgetOK' /\ pidfile' \in Pid
         /\ state' \in {NoEntry, state} /\ live' = live
         /\ adoption' \in TickType /\ term' \in TimerType
         /\ child' \in [launch : Launch, pid : Pid]
         /\ foul' \in BOOLEAN
  <1>0. /\ WorldOK /\ BudgetOK /\ adoption \in TickType /\ pidfile \in Pid
        /\ term \in TimerType /\ foul \in BOOLEAN
        /\ child \in [launch : Launch, pid : Pid]
        /\ state.launch \in Launch
    BY StateTyped, EntryFields DEF GatewayInv, TypeOK, MemoryOK, WorldOK
  <1>1. /\ adoption' \in TickType
        /\ child' \in [launch : Launch, pid : Pid]
    BY <1>0, NothingTyped DEF StopGateway
  <1>2. foul' \in BOOLEAN
    BY <1>0 DEF StopGateway, Signals
  <1>3. CASE ClearRecord /\ UNCHANGED term
    BY <1>0, <1>1, <1>2, <1>3, ClearRecordTyped
  <1>4. CASE /\ NoUpdate /\ pidfile' \in {pidfile, NoPid}
             /\ term' \in {term, [NoTimer EXCEPT !.launch = state.launch]}
    BY <1>0, <1>1, <1>2, <1>4, NoUpdateWrites, TimerTyped, PidTyped
  <1> QED  BY <1>3, <1>4 DEF StopGateway
-----------------------------------------------------------------------------
(* Every action.                                                           *)

StepOK ==
  /\ Moves
  /\ WorldOK' /\ MemoryOK' /\ FlowOK' /\ BudgetOK'
  /\ cold' \in BOOLEAN /\ foul' \in BOOLEAN

LEMMA FlowOnly ==
  ASSUME GatewayInv, FlowOK', UNCHANGED <<ledger, world, cold, memory, history>>
  PROVE  StepOK
  BY DEF GatewayInv, TypeOK, StepOK, Moves, WorldOK, MemoryOK, BudgetOK, ledger

LEMMA MachineSteps ==
  ASSUME GatewayInv, Machine
  PROVE  StepOK
  <1>0. /\ WorldOK /\ MemoryOK /\ FlowOK /\ BudgetOK /\ closing \in SUBSET EventType
        /\ cold \in BOOLEAN /\ foul \in BOOLEAN
    BY DEF GatewayInv, TypeOK, MemoryOK
  <1> USE DEF StepOK, Moves, ledger
  <1>1. ASSUME NEW p \in Pids, NEW q \in Pids, Fork(p, q)
        PROVE  StepOK
    <2>1. Process("listener", At(p).launch) \in Processes
      BY <1>0, <1>1, AtTyped, ProcessesTyped, PidTyped DEF Fork
    <2>2. WorldOK'
      BY <1>0, <1>1, <2>1 DEF Fork, WorldOK, New, Stages
    <2> QED  BY <1>0, <1>1, <2>2 DEF Fork, MemoryOK, FlowOK, BudgetOK
  <1>2. ASSUME NEW p \in Pids, Publish(p)
        PROVE  StepOK
    <2>1. WorldOK'
      BY <1>0, <1>2, PidTyped DEF Publish, WorldOK, Stages
    <2> QED  BY <1>0, <1>2, <2>1 DEF Publish, MemoryOK, FlowOK, BudgetOK
  <1>3. ASSUME NEW p \in Pids, Exits(p)
        PROVE  StepOK
    <2>1. WorldOK'
      BY <1>0, <1>3, ProcessesTyped, PidTyped DEF Exits, WorldOK, New, Stages
    <2>2. \A clean \in BOOLEAN : CloseEvents({p}, clean) \subseteq EventType
      <3>1. At(p).role = "wrapper" => At(p).launch \in Launch
        BY <1>0, AtTyped, ProcessesTyped, PidTyped
      <3> QED  BY <3>1 DEF CloseEvents, EventType
    <2>3. closing' \in SUBSET EventType
      BY <1>0, <1>3, <2>2 DEF Exits
    <2> QED  BY <1>0, <1>3, <2>1, <2>3 DEF Exits, MemoryOK, FlowOK, BudgetOK
  <1>4. ASSUME NEW p \in Pids, Reuse(p)
        PROVE  StepOK
    <2>1. WorldOK'
      BY <1>0, <1>4, ProcessesTyped DEF Reuse, WorldOK, New, Stages
    <2>2. BudgetOK'
      BY <1>0, <1>4 DEF Reuse, BudgetOK, BudgetType
    <2> QED  BY <1>0, <1>4, <2>1, <2>2 DEF Reuse, MemoryOK, FlowOK
  <1>5. CASE Blind
    <2>1. BudgetOK'
      BY <1>0, <1>5 DEF Blind, BudgetOK, BudgetType
    <2> QED  BY <1>0, <1>5, <2>1 DEF Blind, WorldOK, MemoryOK, FlowOK
  <1>6. CASE Sight
    BY <1>0, <1>6 DEF Sight, WorldOK, MemoryOK, FlowOK, BudgetOK
  <1>7. CASE Crash
    <2>1. BudgetOK'
      <3>1. left' \in BudgetType /\ left'.launches = left.launches
        BY <1>0, <1>7 DEF Crash, BudgetOK, BudgetType
      <3> QED  BY <1>0, <1>7, <3>1 DEF Crash, BudgetOK
    <2>2. MemoryOK' /\ FlowOK'
      BY <1>7, NothingTyped DEF Crash, MemoryOK, FlowOK
    <2> QED  BY <1>0, <1>7, <2>1, <2>2 DEF Crash, WorldOK
  <1> QED  BY <1>1, <1>2, <1>3, <1>4, <1>5, <1>6, <1>7 DEF Machine

LEMMA StartSteps ==
  ASSUME GatewayInv, Start \/ ColdStart \/ Stop \/ \E f \in Flows : Call(f)
  PROVE  StepOK
  <1>0. /\ WorldOK /\ MemoryOK /\ FlowOK /\ BudgetOK
        /\ cold \in BOOLEAN /\ foul \in BOOLEAN
        /\ state.launch \in Launch
    BY StateTyped, EntryFields DEF GatewayInv, TypeOK
  <1>1. CASE Start
    BY <1>0, <1>1 DEF Start, StepOK, Moves, WorldOK, MemoryOK, FlowOK, BudgetOK
  <1>2. CASE ColdStart
    <2>1. /\ Moves /\ BudgetOK' /\ pidfile' \in Pid
          /\ foul' \in BOOLEAN /\ term' \in TimerType
      <3>0. UNCHANGED <<launches, first>> /\ pidfile \in Pid /\ term \in TimerType
        BY <1>0, <1>2 DEF ColdStart, WorldOK, MemoryOK
      <3>1. CASE /\ Update(NoEntry)
                 /\ \/ UNCHANGED pidfile
                    \/ \E p \in {state.listener, state.wrapper} : ClearPidFile(p)
                 /\ UNCHANGED <<term, foul>>
        BY <1>0, <3>0, <3>1, UpdateWrites, NothingTyped, ClearPidFileTyped
        DEF GatewayInv
      <3>2. CASE /\ NoUpdate /\ UNCHANGED pidfile
                 /\ foul' \in BOOLEAN
                 /\ term' \in {term, [NoTimer EXCEPT !.launch = state.launch]}
        BY <1>0, <3>0, <3>2, NoUpdateWrites, TimerTyped
      <3> QED  BY <1>0, <1>2, <3>1, <3>2 DEF ColdStart, Signals
    <2> QED  BY <1>0, <1>2, <2>1 DEF ColdStart, StepOK, WorldOK, MemoryOK, FlowOK
  <1>3. CASE Stop
    <2>1. UNCHANGED <<launches, first>> /\ StopGateway
      BY <1>3 DEF Stop
    <2> QED  BY <1>0, <1>3, <2>1, StopGatewayTyped
             DEF Stop, StepOK, WorldOK, MemoryOK, FlowOK
  <1>4. ASSUME NEW f \in Flows, Call(f)
        PROVE  StepOK
    <2>1. FlowOK'
      <3>1. \E pc \in PCs : Goto(f, pc)
        BY <1>4 DEF Call, Flows, PCs
      <3> QED  BY <1>0, <3>1, GotoTyped
    <2>2. BudgetOK'
      BY <1>0, <1>4 DEF Call, BudgetOK, BudgetType
    <2> QED  BY <1>0, <1>4, <2>1, <2>2
             DEF Call, StepOK, Moves, WorldOK, MemoryOK, ledger
  <1> QED  BY <1>1, <1>2, <1>3, <1>4
LEMMA CallbackSteps ==
  ASSUME GatewayInv, Callbacks
  PROVE  StepOK
  <1>0. /\ WorldOK /\ MemoryOK /\ FlowOK /\ BudgetOK /\ closing \in SUBSET EventType
        /\ cold \in BOOLEAN /\ foul \in BOOLEAN /\ state \in Entries
        /\ term \in TimerType /\ adoption \in TickType /\ pidfile \in Pid
    BY StateTyped DEF GatewayInv, TypeOK, MemoryOK, WorldOK
  <1>1. ASSUME NEW c \in closing, Closed(c)
        PROVE  StepOK
    <2>0. /\ c.launch \in Launch /\ UNCHANGED <<launches, first>>
          /\ closing' \in SUBSET EventType /\ retained' \in SUBSET Launch
      BY <1>0, <1>1, LaunchTyped DEF Closed, EventType, MemoryOK
    <2>1. child' \in [launch : Launch, pid : Pid]
      BY <1>0, <1>1, NothingTyped DEF Closed, MemoryOK
    <2>2. CASE c.launch \notin retained
      <3>1. Reconcile(c.launch, c.clean) /\ UNCHANGED term
        BY <1>1, <2>2 DEF Closed
      <3> QED  BY <1>0, <1>1, <2>0, <2>1, <3>1, ReconcileTyped
               DEF Closed, StepOK, WorldOK, MemoryOK, FlowOK
    <2>3. CASE c.launch \in retained
      <3>1. /\ term' = NoTimer /\ UNCHANGED adoption
            /\ ClearPidFile(c.pid)
            /\ Update(NoEntry) \/ NoUpdate
        BY <1>1, <2>3 DEF Closed
      <3>2. Moves /\ BudgetOK'
        BY <1>0, <2>0, <3>1, UpdateWrites, NoUpdateWrites, NothingTyped
        DEF GatewayInv
      <3> QED  BY <1>0, <1>1, <2>0, <2>1, <3>1, <3>2, NothingTyped,
                  ClearPidFileTyped
               DEF Closed, StepOK, WorldOK, MemoryOK, FlowOK
    <2> QED  BY <2>2, <2>3
  <1>2. CASE Terminate
    <2>0. UNCHANGED <<launches, first>>
      BY <1>2 DEF Terminate
    <2>1. term' \in TimerType
      <3>1. [term EXCEPT !.force = TRUE] \in TimerType
        BY <1>0 DEF TimerType
      <3> QED  BY <1>2, <3>1, NothingTyped DEF Terminate
    <2>2. /\ Moves /\ BudgetOK' /\ pidfile' \in Pid /\ foul' \in BOOLEAN
          /\ os' \in [Pids -> [who : Processes, stage : Stages]]
          /\ closing' \in SUBSET EventType
      <3>1. CASE NoUpdate /\ UNCHANGED <<os, closing, pidfile, foul>>
        BY <1>0, <2>0, <3>1, NoUpdateWrites DEF WorldOK
      <3>2. CASE ClearRecord /\ UNCHANGED <<os, closing, foul>>
        BY <1>0, <2>0, <3>2, ClearRecordTyped DEF WorldOK
      <3>3. CASE /\ \E S \in SUBSET Pid : Killed(S)
                 /\ NoUpdate /\ UNCHANGED pidfile
        BY <1>0, <2>0, <3>3, NoUpdateWrites, KilledTyped
      <3>4. Targets \in SUBSET TargetType
        BY <1>0, EntryFields, ProcessesTyped
        DEF Targets, Target, TargetType, TimerType
      <3>5. \A K \in SUBSET Targets : {t.pid : t \in K} \in SUBSET Pid
        BY <3>4 DEF TargetType
      <3>6. (IF ~term.force THEN {}
             ELSE {t \in {u \in Targets : Status(u) = "alive"} :
                     t.pid \in {state.wrapper, pidfile}}) \in SUBSET Targets
        OBVIOUS
      <3> QED  BY <1>2, <3>1, <3>2, <3>3, <3>5, <3>6 DEF Terminate
    <2> QED  BY <1>0, <1>2, <2>1, <2>2
             DEF Terminate, StepOK, WorldOK, MemoryOK, FlowOK
  <1>3. CASE AdoptionTick
    <2>1. adoption' \in TickType
      <3>1. [adoption EXCEPT !.probing = TRUE, !.evidence = At(pidfile)] \in TickType
        BY <1>0, AtTyped DEF TickType
      <3> QED  BY <1>3, <3>1, NothingTyped DEF AdoptionTick
    <2> QED  BY <1>0, <1>3, <2>1
             DEF AdoptionTick, StepOK, Moves, WorldOK, MemoryOK, FlowOK, BudgetOK,
                 ledger
  <1>4. CASE AdoptionProbed
    <2>1. adoption' \in TickType
      <3>1. adoption.launch \in Launch
        BY <1>0 DEF TickType
      <3> QED  BY <1>4, <3>1, NothingTyped, TickTyped DEF AdoptionProbed
    <2>2. Moves /\ BudgetOK'
      <3>1. Adopted(state, adoption.evidence) \in Entries
        BY <1>0, EntriesTyped DEF TickType
      <3>2. /\ Update(Adopted(state, adoption.evidence)) \/ NoUpdate
            /\ UNCHANGED <<launches, first>>
        BY <1>4 DEF AdoptionProbed
      <3> QED  BY <1>0, <3>1, <3>2, UpdateWrites, NoUpdateWrites DEF GatewayInv
    <2> QED  BY <1>0, <1>4, <2>1, <2>2
             DEF AdoptionProbed, StepOK, WorldOK, MemoryOK, FlowOK
  <1> QED  BY <1>1, <1>2, <1>3, <1>4 DEF Callbacks

LEMMA LaunchSteps ==
  ASSUME GatewayInv, NEW f \in Flows,
         \/ LaunchRefused(f) \/ BeginLaunch(f) \/ SpawnFails(f)
         \/ \E p \in Pids : Spawn(f, p)
         \/ Look(f) \/ Probed(f) \/ Judge(f) \/ Adopt(f)
  PROVE  StepOK
  <1>0. /\ WorldOK /\ MemoryOK /\ FlowOK /\ BudgetOK
        /\ cold \in BOOLEAN /\ foul \in BOOLEAN /\ state \in Entries
        /\ pidfile \in Pid /\ flow[f] \in FlowType
    BY StateTyped DEF GatewayInv, TypeOK, WorldOK, FlowOK
  <1>a. \A pc \in PCs : [flow[f] EXCEPT !.pc = pc] \in FlowType
    BY <1>0 DEF FlowType
  <1>1. CASE LaunchRefused(f)
    <2>1. FlowOK'
      BY <1>0, <1>1, AnswersTyped DEF LaunchRefused, Answer, FlowOK
    <2> QED  BY <1>1, <2>1, FlowOnly DEF LaunchRefused
  <1>2. CASE BeginLaunch(f)
    <2> DEFINE l == launches + 1
               entry == [NoEntry EXCEPT !.launch = l, !.pre = pidfile]
               less == [left EXCEPT !.launches = @ - 1]
    <2>1. /\ less \in BudgetType /\ less.launches = left.launches - 1
          /\ l \in Launch /\ launches' = l /\ first' = first
      <3>1. /\ left \in BudgetType /\ left.launches > 0
            /\ launches \in Nat /\ launches + left.launches <= MaxLaunches
            /\ launches' = l /\ first' = first
        BY <1>0, <1>2 DEF BeginLaunch, BudgetOK
      <3>2. left.launches \in Nat /\ left.launches - 1 \in Launch
        BY <3>1, LaunchTyped DEF BudgetType, Launch
      <3>3. less \in BudgetType /\ less.launches = left.launches - 1
        BY <3>1, <3>2 DEF BudgetType
      <3> QED  BY <3>1, <3>2, <3>3, LaunchTyped DEF Launch
    <2>2. entry \in Entries /\ Spend(entry, less)
      BY <1>0, <1>2, <2>1, EntriesTyped DEF BeginLaunch
    <2>3. Moves /\ BudgetOK'
      <3> HIDE DEF less, entry
      <3>1. Moves /\ left' \in BudgetType /\ left'.launches = less.launches
        BY <2>1, <2>2, SpendWrites DEF GatewayInv
      <3>2. less.launches \in Nat /\ left.launches \in Nat
        BY <1>0, <2>1 DEF BudgetOK, BudgetType, Launch
      <3> QED  BY <1>0, <2>1, <3>1, <3>2 DEF BudgetOK
    <2>4. FlowOK'
      <3>1. [flow[f] EXCEPT !.pc = "spawn", !.launch = l, !.pre = pidfile,
                            !.candidate = NoPid] \in FlowType
        BY <1>0, <2>1, PidTyped DEF FlowType, PCs
      <3>2. \/ flow' = [flow EXCEPT ![f] =
                 [flow[f] EXCEPT !.pc = "spawn", !.launch = l, !.pre = pidfile,
                                 !.candidate = NoPid]]
            \/ Answer(f, FALSE)
        BY <1>2 DEF BeginLaunch
      <3> QED  BY <1>0, <3>1, <3>2, AnswersTyped DEF Answer, FlowOK
    <2> QED  BY <1>0, <1>2, <2>3, <2>4 DEF BeginLaunch, StepOK, WorldOK, MemoryOK
  <1>3. CASE SpawnFails(f)
    <2>1. FlowOK'
      BY <1>0, <1>3, AnswersTyped DEF SpawnFails, Answer, FlowOK
    <2>2. Moves /\ BudgetOK'
      BY <1>0, <1>3, UpdateWrites, NothingTyped DEF SpawnFails, GatewayInv
    <2> QED  BY <1>0, <1>3, <2>1, <2>2 DEF SpawnFails, StepOK, WorldOK, MemoryOK
  <1>4. ASSUME NEW p \in Pids, Spawn(f, p)
        PROVE  StepOK
    <2> DEFINE l == flow[f].launch
               entry == [state EXCEPT !.wrapper = p]
    <2>0. l \in Launch /\ p \in Pid
      BY <1>0, FlowFields, PidTyped
    <2>1. FlowOK'
      <3>1. [flow[f] EXCEPT !.pc = "serving", !.proc = p] \in FlowType
        BY <1>0, <2>0 DEF FlowType, PCs
      <3>2. \/ flow' = [flow EXCEPT ![f] =
                          [flow[f] EXCEPT !.pc = "serving", !.proc = p]]
            \/ Answer(f, FALSE)
        BY <1>4 DEF Spawn
      <3> QED  BY <1>0, <3>1, <3>2, AnswersTyped DEF Answer, FlowOK
    <2>2. Moves /\ BudgetOK'
      BY <1>0, <1>4, <2>0, UpdateWrites, EntriesTyped DEF Spawn, GatewayInv
    <2>3. MemoryOK'
      BY <1>0, <1>4, <2>0, TimerTyped DEF Spawn, MemoryOK
    <2>4. WorldOK'
      <3>1. Process("wrapper", l) \in Processes
        BY <2>0, ProcessesTyped
      <3> QED  BY <1>0, <1>4, <3>1 DEF Spawn, WorldOK, New, Stages
    <2> QED  BY <1>0, <1>4, <2>1, <2>2, <2>3, <2>4 DEF Spawn, StepOK
  <1>5. CASE Look(f)
    <2>1. FlowOK'
      <3>1. /\ [flow[f] EXCEPT !.pc = "probe", !.candidate = pidfile,
                               !.evidence = At(pidfile)] \in FlowType
            /\ \A pc \in {"serving", "judge"} :
                 [flow[f] EXCEPT !.pc = pc, !.candidate = NoPid,
                                 !.evidence = Nobody] \in FlowType
        BY <1>0, AtTyped, ProcessesTyped, PidTyped DEF FlowType, PCs
      <3> QED  BY <1>0, <1>5, <3>1 DEF Look, Again, FlowOK
    <2> QED  BY <1>5, <2>1, FlowOnly DEF Look
  <1>6. CASE Probed(f)
    <2>1. FlowOK'
      <3>1. /\ \A ok \in BOOLEAN :
                 [flow[f] EXCEPT !.ready = ok, !.pc = "judge"] \in FlowType
            /\ \A pc \in {"serving", "judge"} :
                 [flow[f] EXCEPT !.pc = pc, !.candidate = NoPid,
                                 !.evidence = Nobody] \in FlowType
        BY <1>0, ProcessesTyped, PidTyped DEF FlowType, PCs
      <3>2. CASE Again(f)
        BY <1>0, <3>1, <3>2 DEF Again, FlowOK
      <3>3. CASE \E ok \in BOOLEAN :
                   flow' = [flow EXCEPT ![f] =
                              [@ EXCEPT !.ready = ok, !.pc = "judge"]]
        BY <1>0, <3>1, <3>3 DEF FlowOK
      <3> QED  BY <1>6, <3>2, <3>3 DEF Probed, Serving
    <2> QED  BY <1>6, <2>1, FlowOnly DEF Probed
  <1>7. CASE Judge(f)
    <2>1. FlowOK'
      BY <1>0, <1>7, GotoTyped DEF Judge, PCs
    <2>2. Moves /\ BudgetOK'
      <3>1. CASE \E x \in Processes : Update([state EXCEPT !.wproof = x])
        BY <1>0, <1>7, <3>1, UpdateWrites, EntriesTyped DEF Judge, GatewayInv
      <3>2. CASE NoUpdate
        BY <1>0, <1>7, <3>2, NoUpdateWrites DEF Judge
      <3>3. At(flow[f].proc) \in Processes /\ Process("wrapper", flow[f].launch) \in Processes
        BY <1>0, AtTyped, FlowFields, ProcessesTyped
      <3> QED  BY <1>7, <3>1, <3>2, <3>3 DEF Judge
    <2> QED  BY <1>0, <1>7, <2>1, <2>2 DEF Judge, StepOK, WorldOK, MemoryOK
  <1>8. CASE Adopt(f)
    <2>1. FlowOK'
      BY <1>0, <1>8, GotoTyped, AnswersTyped DEF Adopt, Answer, FlowOK, PCs
    <2>2. Moves /\ BudgetOK'
      <3>1. Adopted(state, flow[f].evidence) \in Entries
        BY <1>0, EntriesTyped, FlowFields
      <3>2. /\ Update(Adopted(state, flow[f].evidence)) \/ NoUpdate
            /\ UNCHANGED <<launches, first>>
        BY <1>8 DEF Adopt
      <3> QED  BY <1>0, <3>1, <3>2, UpdateWrites, NoUpdateWrites DEF GatewayInv
    <2> QED  BY <1>0, <1>8, <2>1, <2>2 DEF Adopt, StepOK, WorldOK, MemoryOK
  <1> QED  BY <1>1, <1>2, <1>3, <1>4, <1>5, <1>6, <1>7, <1>8

(* The plan of a cleanup is a state of its function.                       *)
LEMMA PlanTyped ==
  ASSUME WorldOK, FlowOK, NEW f \in Flows, NEW e \in Entries,
         NEW t \in TargetType
  PROVE  Plan(f, e, t) \in FlowType
  <1> DEFINE proved ==
        {u \in {w \in {Wrapper(e)} : w.pid = flow[f].proc /\
                  ChildAlive([launch |-> flow[f].launch, pid |-> flow[f].proc])}
               \union {w \in {t} : w.pid # flow[f].proc} :
           u.proof # Nobody /\ Observed(u.pid) = u.proof}
  <1>1. proved \in SUBSET TargetType /\ e.launch \in Launch /\ flow[f] \in FlowType
    BY EntryFields DEF FlowOK
  <1> HIDE DEF proved
  <1>2. ASSUME NEW clean \in BOOLEAN, NEW pc \in PCs
        PROVE  [flow[f] EXCEPT !.kills = proved, !.of = e.launch,
                               !.clean = clean, !.pc = pc] \in FlowType
    BY <1>1 DEF FlowType
  <1>3. \E clean \in BOOLEAN, pc \in PCs :
          Plan(f, e, t) = [flow[f] EXCEPT !.kills = proved, !.of = e.launch,
                                          !.clean = clean, !.pc = pc]
    BY DEF Plan, proved, PCs
  <1> QED  BY <1>2, <1>3

LEMMA CleanupSteps ==
  ASSUME GatewayInv, NEW f \in Flows,
         Cleanup(f) \/ (\E t \in flow[f].kills : CleanupKill(f, t)) \/ CleanupEnds(f)
  PROVE  StepOK
  <1>0. /\ WorldOK /\ MemoryOK /\ FlowOK /\ BudgetOK /\ closing \in SUBSET EventType
        /\ cold \in BOOLEAN /\ foul \in BOOLEAN /\ state \in Entries
        /\ pidfile \in Pid /\ flow[f] \in FlowType
    BY StateTyped DEF GatewayInv, TypeOK, WorldOK, MemoryOK, FlowOK
  <1>1. CASE Cleanup(f)
    <2> DEFINE new == Adopted(state, At(pidfile))
    <2>1. new \in Entries /\ At(pidfile) \in Processes
      BY <1>0, EntriesTyped, AtTyped
    <2>2. Moves /\ BudgetOK' /\ state' \in Entries
      BY <1>0, <1>1, <2>1, UpdateWrites, NoUpdateWrites DEF Cleanup, GatewayInv
    <2>3. FlowOK'
      <3>1. PICK t \in {Target(pidfile, At(pidfile)),
                        Target(flow[f].candidate, flow[f].evidence)} :
              flow' = [flow EXCEPT ![f] = Plan(f, state', t)]
        BY <1>1 DEF Cleanup
      <3>2. t \in TargetType
        BY <1>0, <2>1, FlowFields DEF Target, TargetType
      <3> QED  BY <1>0, <2>2, <3>1, <3>2, PlanTyped, FlowUpdated
    <2> QED  BY <1>0, <1>1, <2>2, <2>3 DEF Cleanup, StepOK, WorldOK, MemoryOK
  <1>2. ASSUME NEW t \in flow[f].kills, CleanupKill(f, t)
        PROVE  StepOK
    <2>1. t.pid \in Pid
      BY <1>0, FlowFields DEF TargetType
    <2>2. /\ os' \in [Pids -> [who : Processes, stage : Stages]]
          /\ closing' \in SUBSET EventType /\ foul' \in BOOLEAN
      <3>1. PICK S \in SUBSET {t.pid} : Killed(S)
        BY <1>2 DEF CleanupKill
      <3> QED  BY <1>0, <2>1, <3>1, KilledTyped
    <2>3. FlowOK'
      <3>1. PICK clean \in BOOLEAN, pc \in {"kill listener", "clear"} :
              flow' = [flow EXCEPT ![f] = [@ EXCEPT !.clean = clean, !.pc = pc]]
        BY <1>0, <1>2, FlowFields DEF CleanupKill, Alive
      <3>2. [flow[f] EXCEPT !.clean = clean, !.pc = pc] \in FlowType
        BY <1>0 DEF FlowType, PCs
      <3> QED  BY <1>0, <3>1, <3>2, FlowUpdated DEF FlowOK
    <2> QED  BY <1>0, <1>2, <2>2, <2>3
             DEF CleanupKill, StepOK, Moves, WorldOK, MemoryOK, BudgetOK, ledger
  <1>3. CASE CleanupEnds(f)
    <2>1. FlowOK'
      BY <1>0, <1>3, AnswersTyped DEF CleanupEnds, Answer, FlowOK
    <2>2. Moves /\ BudgetOK'
      BY <1>0, <1>3, UpdateWrites, NoUpdateWrites, NothingTyped
      DEF CleanupEnds, GatewayInv
    <2>3. pidfile' \in Pid /\ adoption' \in TickType
      BY <1>0, <1>3, NothingTyped, PidTyped DEF CleanupEnds, MemoryOK
    <2> QED  BY <1>0, <1>3, <2>1, <2>2, <2>3
             DEF CleanupEnds, StepOK, WorldOK, MemoryOK
  <1> QED  BY <1>1, <1>2, <1>3

LEMMA RecoverySteps ==
  ASSUME GatewayInv,
         \/ Check
         \/ \E f \in {"restart", "recovery"} : Release(f) \/ ReleaseTimesOut(f)
  PROVE  StepOK
  <1>0. /\ WorldOK /\ MemoryOK /\ FlowOK /\ BudgetOK
        /\ cold \in BOOLEAN /\ foul \in BOOLEAN /\ state.launch \in Launch
    BY StateTyped, EntryFields DEF GatewayInv, TypeOK
  <1>1. CASE Check
    <2>1. FlowOK'
      BY <1>0, <1>1, AnswersTyped, AwaitsRestartTyped, GotoTyped
      DEF Check, Answer, FlowOK, Flows, PCs
    <2> QED  BY <1>1, <2>1, FlowOnly DEF Check
  <1>2. ASSUME NEW f \in {"restart", "recovery"}, Release(f)
        PROVE  StepOK
    <2>0. f \in Flows /\ UNCHANGED <<launches, first>>
      BY <1>2 DEF Flows, Release
    <2>1. /\ Moves /\ BudgetOK' /\ pidfile' \in Pid
          /\ adoption' \in TickType
      <3>1. CASE NoUpdate /\ UNCHANGED <<pidfile, adoption>>
        BY <1>0, <2>0, <3>1, NoUpdateWrites DEF WorldOK, MemoryOK
      <3>2. CASE Reconcile(state.launch, FALSE)
        BY <1>0, <2>0, <3>2, ReconcileTyped
      <3> QED  BY <1>2, <3>1, <3>2 DEF Release
    <2>2. FlowOK'
      <3>1. [Idle EXCEPT !.pc = "launch"] \in FlowType
        BY IdleAt DEF PCs
      <3>2. [flow[f] EXCEPT !.pc = "launch"] \in FlowType
        <4>1. flow[f] \in FlowType
          BY <1>0, <2>0 DEF FlowOK
        <4> QED  BY <4>1 DEF FlowType, PCs
      <3>3. CASE UNCHANGED flow
        BY <1>0, <3>3 DEF FlowOK
      <3>4. CASE Released(f)
        <4>1. CASE flow' = Answers(f, TRUE)
          BY <1>0, <2>0, <4>1, AnswersTyped DEF FlowOK
        <4>2. CASE flow' = [flow EXCEPT ![f].pc = "launch"]
          BY <1>0, <2>0, <3>2, <4>2 DEF FlowOK
        <4>3. CASE flow' = [flow EXCEPT ![f] = [Idle EXCEPT !.pc = "launch"]]
          BY <1>0, <2>0, <3>1, <4>3 DEF FlowOK
        <4> QED  BY <3>4, <4>1, <4>2, <4>3 DEF Released
      <3> QED  BY <1>2, <3>3, <3>4 DEF Release
    <2> QED  BY <1>0, <1>2, <2>1, <2>2 DEF Release, StepOK, WorldOK, MemoryOK
  <1>3. ASSUME NEW f \in {"restart", "recovery"}, ReleaseTimesOut(f)
        PROVE  StepOK
    <2>1. FlowOK'
      <3>0. f \in Flows
        BY DEF Flows
      <3>1. CASE Goto(f, "restore")
        BY <1>0, <3>0, <3>1, GotoTyped DEF PCs
      <3>2. CASE flow' = [flow EXCEPT ![f] = Idle]
        BY <1>0, <3>0, <3>2, NothingTyped, FlowUpdated
      <3> QED  BY <1>3, <3>1, <3>2 DEF ReleaseTimesOut
    <2> QED  BY <1>3, <2>1, FlowOnly DEF ReleaseTimesOut
  <1> QED  BY <1>1, <1>2, <1>3

LEMMA RestartSteps ==
  ASSUME GatewayInv, Restarting
  PROVE  StepOK
  <1>0. /\ WorldOK /\ MemoryOK /\ FlowOK /\ BudgetOK /\ closing \in SUBSET EventType
        /\ cold \in BOOLEAN /\ foul \in BOOLEAN
        /\ pidfile \in Pid /\ child \in [launch : Launch, pid : Pid]
        /\ "restart" \in Flows /\ flow["restart"] \in FlowType
    BY DEF GatewayInv, TypeOK, WorldOK, MemoryOK, FlowOK, Flows
  <1>1. CASE RestartBegins
    <2> DEFINE before == [Idle EXCEPT !.launch = child.launch, !.proc = child.pid,
                                      !.candidate = pidfile]
    <2>1. PICK pc \in {"restore", "takeover", "stop"}, x \in Processes :
            flow' = [flow EXCEPT !["restart"] =
                       [before EXCEPT !.pc = pc, !.evidence = x]]
      <3>1. At(pidfile) \in Processes /\ before.evidence \in Processes
        BY <1>0, AtTyped, ProcessesTyped DEF Idle
      <3>2. \A pc \in PCs :
              [before EXCEPT !.pc = pc]
                = [before EXCEPT !.pc = pc, !.evidence = before.evidence]
        BY DEF Idle
      <3> QED  BY <1>1, <3>1, <3>2 DEF RestartBegins, PCs
    <2>2. before \in FlowType
      BY <1>0, NothingTyped DEF FlowType
    <2> HIDE DEF before
    <2>3. [before EXCEPT !.pc = pc, !.evidence = x] \in FlowType
      BY <2>2 DEF FlowType, PCs
    <2>4. FlowOK'
      BY <1>0, <2>1, <2>3, FlowUpdated
    <2> QED  BY <1>1, <2>4, FlowOnly DEF RestartBegins
  <1>2. CASE Takeover
    <2>1. FlowOK'
      BY <1>0, <1>2, GotoTyped DEF Takeover, PCs
    <2>2. /\ os' \in [Pids -> [who : Processes, stage : Stages]]
          /\ closing' \in SUBSET EventType
      <3>1. PICK S \in SUBSET {flow["restart"].candidate} : Ended(S)
        BY <1>2 DEF Takeover
      <3> QED  BY <1>0, <3>1, EndedTyped, FlowFields
    <2>3. pidfile' \in Pid
      BY <1>0, <1>2, PidTyped DEF Takeover
    <2> QED  BY <1>0, <1>2, <2>1, <2>2, <2>3
             DEF Takeover, StepOK, Moves, WorldOK, MemoryOK, BudgetOK, ledger
  <1>3. CASE StopOld
    <2>1. UNCHANGED <<launches, first>> /\ StopGateway /\ FlowOK'
      BY <1>0, <1>3, GotoTyped DEF StopOld, PCs
    <2> QED  BY <1>0, <1>3, <2>1, StopGatewayTyped
             DEF StopOld, StepOK, WorldOK, MemoryOK
  <1>4. CASE Stopped
    <2>1. FlowOK'
      BY <1>0, <1>4, GotoTyped DEF Stopped, PCs
    <2> QED  BY <1>4, <2>1, FlowOnly DEF Stopped
  <1>5. CASE Restore
    <2>1. FlowOK'
      BY <1>0, <1>5, RestartedTyped DEF Restore, FlowOK
    <2>2. /\ child' \in [launch : Launch, pid : Pid]
          /\ pidfile' \in Pid
      BY <1>0, <1>5, NothingTyped, FlowFields DEF Restore
    <2> QED  BY <1>0, <1>5, <2>1, <2>2
             DEF Restore, StepOK, Moves, WorldOK, MemoryOK, BudgetOK, ledger
  <1>6. CASE RestartFails
    <2>1. FlowOK'
      BY <1>0, <1>6, RestartedTyped DEF RestartFails, FlowOK
    <2> QED  BY <1>0, <1>6, <2>1, NothingTyped
             DEF RestartFails, StepOK, Moves, WorldOK, MemoryOK, BudgetOK, ledger
  <1>7. CASE RestartRetries
    <2>1. UNCHANGED <<launches, first>> /\ StopGateway
      BY <1>7 DEF RestartRetries
    <2>2. FlowOK'
      <3>1. [Idle EXCEPT !.pc = "launch", !.retried = TRUE] \in FlowType
        BY IdleAt DEF PCs
      <3> QED  BY <1>0, <1>7, <3>1, FlowUpdated DEF RestartRetries
    <2> QED  BY <1>0, <1>7, <2>1, <2>2, StopGatewayTyped
             DEF RestartRetries, StepOK, WorldOK, MemoryOK
  <1> QED  BY <1>1, <1>2, <1>3, <1>4, <1>5, <1>6, <1>7 DEF Restarting

LEMMA DrainSteps ==
  ASSUME GatewayInv, Draining
  PROVE  StepOK
  <1>0. /\ WorldOK /\ MemoryOK /\ FlowOK /\ BudgetOK /\ closing \in SUBSET EventType
        /\ cold \in BOOLEAN /\ foul \in BOOLEAN /\ state \in Entries
        /\ child \in [launch : Launch, pid : Pid]
        /\ "drain" \in Flows /\ flow["drain"] \in FlowType
    BY StateTyped DEF GatewayInv, TypeOK, WorldOK, MemoryOK, FlowOK, Flows
  <1>a. /\ state.launch \in Launch
        /\ Wrapper(state) \in TargetType /\ Listener(state) \in TargetType
    BY <1>0, EntryFields
  <1>b. \A pc \in PCs : [flow["drain"] EXCEPT !.pc = pc] \in FlowType
    BY <1>0 DEF FlowType
  <1>1. CASE DrainBegins
    <2>1. FlowOK'
      <3>1. /\ [Idle EXCEPT !.pc = "drain wrapper", !.launch = state.launch,
                  !.proc = child.pid, !.kills = {Wrapper(state)}] \in FlowType
            /\ [Idle EXCEPT !.pc = "drain listener", !.proc = child.pid] \in FlowType
        BY <1>0, <1>a, NothingTyped DEF FlowType, PCs
      <3> QED  BY <1>0, <1>1, <3>1, NothingTyped DEF DrainBegins, FlowOK
    <2>2. adoption' \in TickType /\ child' \in [launch : Launch, pid : Pid]
      BY <1>0, <1>1, NothingTyped DEF DrainBegins, MemoryOK
    <2> QED  BY <1>0, <1>1, <2>1, <2>2
             DEF DrainBegins, StepOK, Moves, WorldOK, MemoryOK, BudgetOK, ledger
  <1>2. ASSUME NEW t \in flow["drain"].kills, DrainWrapper(t)
        PROVE  StepOK
    <2>1. t.pid \in Pid
      BY <1>0, FlowFields DEF TargetType
    <2>2. /\ os' \in [Pids -> [who : Processes, stage : Stages]]
          /\ closing' \in SUBSET EventType /\ foul' \in BOOLEAN
      <3>1. PICK S \in SUBSET {t.pid} : Killed(S)
        BY <1>2 DEF DrainWrapper
      <3> QED  BY <1>0, <2>1, <3>1, KilledTyped
    <2>3. FlowOK'
      <3>1. [flow["drain"] EXCEPT !.pc = "drain listener"] \in FlowType
        BY <1>b DEF PCs
      <3> QED  BY <1>0, <1>2, <3>1, NothingTyped DEF DrainWrapper, FlowOK
    <2>4. child' \in [launch : Launch, pid : Pid]
      BY <1>0, <1>2, NothingTyped DEF DrainWrapper
    <2> QED  BY <1>0, <1>2, <2>2, <2>3, <2>4
             DEF DrainWrapper, StepOK, Moves, WorldOK, MemoryOK, BudgetOK, ledger
  <1>3. CASE DrainListener
    <2>1. FlowOK'
      <3> DEFINE here == [Idle EXCEPT !.launch = state.launch,
                            !.kills = {Listener(state)}, !.clean = ~Replaced]
      <3>1. \A clean \in BOOLEAN :
              [Idle EXCEPT !.launch = state.launch, !.kills = {Listener(state)},
                           !.clean = clean] \in FlowType
        BY <1>a, NothingTyped DEF FlowType
      <3>2. here \in FlowType
        <4>1. CASE Replaced
          BY <3>1, <4>1
        <4>2. CASE ~Replaced
          BY <3>1, <4>2
        <4> QED  BY <4>1, <4>2
      <3>3. \E r \in {Idle, [here EXCEPT !.pc = "settle"],
                      [here EXCEPT !.pc = "drain kill"]} :
              flow' = [flow EXCEPT !["drain"] = r]
        BY <1>3 DEF DrainListener
      <3> HIDE DEF here
      <3>4. \A pc \in PCs : [here EXCEPT !.pc = pc] \in FlowType
        BY <3>2 DEF FlowType
      <3> QED  BY <1>0, <3>3, <3>4, NothingTyped, FlowUpdated DEF PCs
    <2> QED  BY <1>3, <2>1, FlowOnly DEF DrainListener
  <1>4. ASSUME NEW t \in flow["drain"].kills, DrainKill(t)
        PROVE  StepOK
    <2>1. t.pid \in Pid
      BY <1>0, FlowFields DEF TargetType
    <2>2. /\ os' \in [Pids -> [who : Processes, stage : Stages]]
          /\ closing' \in SUBSET EventType /\ foul' \in BOOLEAN
      <3>1. PICK S \in SUBSET {t.pid} : Killed(S)
        BY <1>4 DEF DrainKill
      <3> QED  BY <1>0, <2>1, <3>1, KilledTyped
    <2>3. FlowOK'
      <3>1. [flow["drain"] EXCEPT !.pc = "settle"] \in FlowType
        BY <1>b DEF PCs
      <3> QED  BY <1>0, <1>4, <3>1, NothingTyped DEF DrainKill, FlowOK
    <2>4. pidfile' \in Pid
      BY <1>0, <1>4, PidTyped DEF DrainKill, WorldOK
    <2> QED  BY <1>0, <1>4, <2>2, <2>3, <2>4
             DEF DrainKill, StepOK, Moves, WorldOK, MemoryOK, BudgetOK, ledger
  <1>5. CASE Settle
    <2> DEFINE l == flow["drain"].launch
    <2>0. l \in Launch /\ UNCHANGED <<launches, first>>
      BY <1>0, <1>5, FlowFields DEF Settle
    <2>1. FlowOK'
      BY <1>0, <1>5, NothingTyped DEF Settle, FlowOK
    <2>2. /\ Moves /\ BudgetOK' /\ pidfile' \in Pid
          /\ adoption' \in TickType /\ term' \in TimerType
      <3>1. CASE NoUpdate /\ UNCHANGED <<pidfile, timers>>
        BY <1>0, <2>0, <3>1, NoUpdateWrites DEF WorldOK, MemoryOK
      <3>2. CASE /\ Reconcile(l, FALSE)
                 /\ term' \in {term, [NoTimer EXCEPT !.launch = l]}
        BY <1>0, <2>0, <3>2, ReconcileTyped, TimerTyped DEF MemoryOK
      <3> QED  BY <1>5, <3>1, <3>2 DEF Settle
    <2> QED  BY <1>0, <1>5, <2>1, <2>2 DEF Settle, StepOK, WorldOK, MemoryOK
  <1> QED  BY <1>1, <1>2, <1>3, <1>4, <1>5 DEF Draining

-----------------------------------------------------------------------------
LEMMA GatewayInitially ==
  Init => GatewayInv /\ LedgerInit
  <1> SUFFICES ASSUME Init PROVE GatewayInv /\ LedgerInit
    OBVIOUS
  <1>1. LedgerInv /\ LedgerInit
    BY LedgerInitially DEF Init
  <1>2. WorldOK
    <2>1. PICK other \in Pid :
            /\ pidfile = other
            /\ os = [p \in Pids |-> New(IF p = other THEN Legacy ELSE Nobody)]
      BY DEF Init
    <2>2. \A x \in {Legacy, Nobody} : New(x) \in [who : Processes, stage : Stages]
      BY ProcessesTyped DEF New, Stages
    <2> QED  BY <2>1, <2>2 DEF Init, WorldOK
  <1>3. MemoryOK /\ FlowOK
    BY NothingTyped DEF Init, MemoryOK, FlowOK
  <1>4. BudgetOK
    <2>1. left \in BudgetType
      BY BudgetsAssumption DEF Init, BudgetType, Launch
    <2>2. left.launches \in 0..MaxLaunches
      BY <2>1 DEF BudgetType, Launch
    <2> QED  BY <2>1, <2>2, LaunchTyped DEF Init, BudgetOK
  <1> QED  BY <1>1, <1>2, <1>3, <1>4 DEF Init, GatewayInv, TypeOK, LedgerInv

LEMMA GatewayStep ==
  ASSUME GatewayInv, [Next]_vars
  PROVE  GatewayInv' /\ [LedgerNext]_ledger
  <1>1. StepOK
    <2>1. CASE UNCHANGED vars
      BY <2>1, FlowOnly DEF GatewayInv, TypeOK, FlowOK
    <2>2. CASE Next
      <3>1. ASSUME NEW f \in Flows \ {"drain"}, Launching(f)
            PROVE  StepOK
        BY <3>1, LaunchSteps, CleanupSteps DEF Launching
      <3>2. CASE Functions
        BY <3>1, <3>2, RecoverySteps, RestartSteps, DrainSteps DEF Functions
      <3> QED  BY <2>2, <3>2, MachineSteps, StartSteps, CallbackSteps DEF Next
    <2> QED  BY <2>1, <2>2
  <1>2. [LedgerNext]_ledger
    BY <1>1, ValueAssumption DEF StepOK, Moves, LedgerNext
  <1>3. LedgerInv'
    BY <1>2, LedgerStep DEF GatewayInv
  <1> QED  BY <1>1, <1>2, <1>3 DEF StepOK, GatewayInv, TypeOK, LedgerInv

(* Every variable keeps its type, and no more launches are made than the   *)
(* budget allows.                                                          *)
THEOREM GatewayTypes ==
  Spec => []TypeOK
  <1>1. GatewayInv => TypeOK
    BY DEF GatewayInv
  <1> QED  BY <1>1, GatewayInitially, GatewayStep, PTL DEF Spec

(* Whatever the app does with its gateways, its ledger is a durable        *)
(* register: the composed system implements GatewayLedger.                 *)
THEOREM GatewayKeepsItsLedger ==
  Spec => LedgerSpec
  BY GatewayInitially, GatewayStep, PTL DEF Spec, LedgerSpec

(* So the record of a launch that was acknowledged is what the next run of *)
(* the app finds (configureGatewayProcessOwnership).                       *)
THEOREM RecordsAreDurable ==
  Spec => ImplementsDurableRegister /\ []BackupNeverDecides
  BY GatewayKeepsItsLedger, LedgerIsDurable, BackupIsNeverAll, PTL

-----------------------------------------------------------------------------
(* What is on record is owned.                                             *)

\* A function that has spawned a wrapper, until it is done with it.
Following ==
  {"serving", "probe", "judge", "adopt", "cleanup", "kill wrapper",
   "kill listener", "clear"}

Apart == Following \union {"spawn"}

Unspawned(l) == state.launch = l => state.wrapper = NoPid /\ state.listener = NoPid

\* A launch about to spawn has the record to itself.
SpawnsAlone ==
  \A f \in Flows : flow[f].pc = "spawn" =>
    /\ Up
    /\ launches > 0 /\ flow[f].launch = launches
    /\ state.launch = launches /\ Unspawned(launches)
    /\ launches \notin retained
    /\ \A g \in Flows : flow[g].pc \in Following => flow[g].launch # launches

\* A launch that is retained has no pid on record.
RetainedIsBare == retained \subseteq 1..launches /\ \A l \in retained : Unspawned(l)

\* The record of a launch names the wrapper its function has spawned.
FollowsItsOwn ==
  \A f \in Flows : flow[f].pc \in Following =>
    /\ flow[f].launch \in 1..launches
    /\ flow[f].proc \in Pids
    /\ state.launch = flow[f].launch => state.wrapper = flow[f].proc

\* A cleanup that looks clean has seen its wrapper gone.
CleanMeansGone ==
  \A f \in Flows :
    flow[f].pc \in {"kill listener", "clear"} /\ flow[f].clean
      => At(flow[f].proc) # Process("wrapper", flow[f].launch)

\* Without the app there are no functions.
DownIsIdle == ~live => retained = {} /\ \A f \in Flows : flow[f].pc = "idle"

Ownership ==
  /\ SpawnsAlone /\ RetainedIsBare /\ FollowsItsOwn /\ CleanMeansGone /\ DownIsIdle

\* Who has pid p when the processes are procs.
Who(procs, p) == IF p = NoPid THEN Nobody ELSE procs[p].who

\* The record is the same but for evidence, or for a listener it did not have.
Grown ==
  /\ state'.launch = state.launch /\ state'.wrapper = state.wrapper
  /\ \/ state'.listener = state.listener /\ state'.lproof = state.lproof
     \/ state.listener = NoPid /\ state.wrapper # NoPid

\* Nothing on record is alive.
Over ==
  /\ At(state.wrapper) # Process("wrapper", state.launch)
  /\ ~Alive(state.listener)

\* A cleanup is about to clear the record for another one's, or after its own
\* wrapper.
Exceptional ==
  \E f \in Flows :
    /\ flow[f].pc = "clear" /\ flow[f].of = state.launch
    /\ \/ flow[f].of # flow[f].launch
       \/ At(state.wrapper) # Process("wrapper", state.launch)

Stays == Grown \/ ~Up \/ Over \/ Exceptional

\* Nobody becomes a wrapper.
Alike ==
  \A p \in Pid : Who(os', p) = At(p) \/ Who(os', p).role # "wrapper"

\* A function that goes on with its launch.
Onward(f) ==
  /\ flow[f].pc \in Following /\ flow'[f].pc \in Following
  /\ flow'[f].launch = flow[f].launch /\ flow'[f].proc = flow[f].proc
  /\ flow'[f].pc \in {"kill listener", "clear"} /\ flow'[f].clean
       => \/ flow[f].pc = "kill listener" /\ flow[f].clean
          \/ Who(os', flow[f].proc) # Process("wrapper", flow[f].launch)

\* No function begins to spawn or stays there.
NoneSpawns ==
  \A f \in Flows :
    /\ flow'[f].pc # "spawn"
    /\ flow'[f] = flow[f] \/ flow'[f].pc \notin Following \/ Onward(f)

LEMMA OtherRole ==
  ASSUME NEW x, x.role # "wrapper"
  PROVE  \A l : x # Process("wrapper", l)
  BY DEF Process

LEMMA OwnershipHolds ==
  ASSUME GatewayInv, Ownership, live, live' = live,
         launches' \in {launches, launches + 1}, retained' \subseteq retained,
         Grown \/ state' = NoEntry, Alike, NoneSpawns
  PROVE  Ownership'
  <1>0. /\ launches \in Nat /\ launches' \in Nat /\ launches <= launches'
        /\ 1..launches \subseteq 1..launches' /\ 0 \notin 1..launches
    BY DEF GatewayInv, TypeOK, BudgetOK
  <1>1. \A l \in 1..launches : Unspawned(l) => Unspawned(l)'
    BY <1>0 DEF Unspawned, Grown, NoEntry
  <1>2. SpawnsAlone'
    BY DEF NoneSpawns, SpawnsAlone
  <1>3. RetainedIsBare'
    BY <1>0, <1>1 DEF Ownership, RetainedIsBare
  <1>4. FollowsItsOwn'
    <2> SUFFICES ASSUME NEW f \in Flows, flow'[f].pc \in Following
                 PROVE  /\ flow'[f].launch \in 1..launches'
                        /\ flow'[f].proc \in Pids
                        /\ state'.launch = flow'[f].launch
                             => state'.wrapper = flow'[f].proc
      BY DEF FollowsItsOwn
    <2>1. /\ flow[f].pc \in Following
          /\ flow'[f].launch = flow[f].launch /\ flow'[f].proc = flow[f].proc
      BY DEF NoneSpawns, Onward
    <2>2. /\ flow[f].launch \in 1..launches
          /\ flow[f].proc \in Pids
          /\ state.launch = flow[f].launch => state.wrapper = flow[f].proc
      BY <2>1 DEF Ownership, FollowsItsOwn
    <2> QED  BY <1>0, <2>1, <2>2 DEF Grown, NoEntry
  <1>5. CleanMeansGone'
    <2> SUFFICES ASSUME NEW f \in Flows,
                        flow'[f].pc \in {"kill listener", "clear"}, flow'[f].clean
                 PROVE  Who(os', flow'[f].proc) # Process("wrapper", flow'[f].launch)
      BY DEF CleanMeansGone, At, Who
    <2>1. flow'[f] = flow[f] \/ Onward(f)
      BY DEF NoneSpawns, Following
    <2>2. /\ flow'[f].proc = flow[f].proc /\ flow'[f].launch = flow[f].launch
          /\ flow[f].proc \in Pid
      BY <2>1, PidTyped DEF Onward, Ownership, FollowsItsOwn, Following
    <2>3. CASE Who(os', flow[f].proc) # Process("wrapper", flow[f].launch)
      BY <2>2, <2>3
    <2>4. CASE flow[f].pc \in {"kill listener", "clear"} /\ flow[f].clean
      <3>1. At(flow[f].proc) # Process("wrapper", flow[f].launch)
        BY <2>4 DEF Ownership, CleanMeansGone
      <3>2. Who(os', flow[f].proc) = At(flow[f].proc)
              \/ Who(os', flow[f].proc).role # "wrapper"
        BY <2>2 DEF Alike
      <3> QED  BY <2>2, <3>1, <3>2, OtherRole
    <2> QED  BY <2>1, <2>3, <2>4 DEF Onward
  <1>6. DownIsIdle'
    BY DEF DownIsIdle
  <1> QED  BY <1>2, <1>3, <1>4, <1>5, <1>6 DEF Ownership

(* What the machine does to processes and files leaves the records alone.  *)
LEMMA OwnershipUntouched ==
  ASSUME GatewayInv, Ownership, Alike,
         UNCHANGED <<state, live, cold, retained, flow, launches>>
  PROVE  Ownership' /\ Stays
  <1>1. SpawnsAlone' /\ RetainedIsBare' /\ FollowsItsOwn' /\ DownIsIdle'
    BY DEF Ownership, SpawnsAlone, RetainedIsBare, FollowsItsOwn, DownIsIdle,
           Unspawned, Up
  <1>2. CleanMeansGone'
    <2> SUFFICES ASSUME NEW f \in Flows,
                        flow[f].pc \in {"kill listener", "clear"}, flow[f].clean
                 PROVE  Who(os', flow[f].proc) # Process("wrapper", flow[f].launch)
      BY DEF CleanMeansGone, At, Who
    <2>1. At(flow[f].proc) # Process("wrapper", flow[f].launch)
      BY DEF Ownership, CleanMeansGone
    <2>2. flow[f].proc \in Pid
      BY PidTyped DEF Ownership, FollowsItsOwn, Following
    <2>3. Who(os', flow[f].proc) = At(flow[f].proc)
            \/ Who(os', flow[f].proc).role # "wrapper"
      BY <2>2 DEF Alike
    <2> QED  BY <2>1, <2>3, OtherRole
  <1> QED  BY <1>1, <1>2 DEF Ownership, Stays, Grown

-----------------------------------------------------------------------------
(* Parts of steps.                                                         *)

LEMMA NobodyAt ==
  /\ \A l : Nobody # Process("wrapper", l)
  /\ Nobody.role # "wrapper"
  /\ \A l : Process("listener", l).role # "wrapper"
  /\ Foreign.role # "wrapper"
  BY DEF Nobody, Process, Foreign

LEMMA SameProcesses ==
  ASSUME UNCHANGED os
  PROVE  Alike
  BY DEF Alike, At, Who

LEMMA EndedAlike ==
  ASSUME WorldOK, NEW S, Ended(S) \/ Killed(S)
  PROVE  Alike
  <1>1. PICK T \in SUBSET Children(S) :
          os' = [p \in Pids |-> IF p \in S \union T THEN New(Nobody) ELSE os[p]]
    BY DEF Ended, Killed
  <1>2. \A p \in Pids : os'[p].who \in {Nobody, os[p].who}
    BY <1>1 DEF New
  <1> QED  BY <1>2, NobodyAt DEF Alike, At, Who, Pid

LEMMA CompletedIsOver ==
  ASSUME NEW l, Completed(l)
  PROVE  Over
  <1>1. ~Alive(Wrapper(state).pid) /\ ~Alive(Listener(state).pid)
    BY DEF Completed, Status
  <1>2. ~Alive(state.wrapper)
    BY <1>1 DEF Wrapper, Target
  <1>3. ~Alive(state.listener)
    BY <1>1 DEF Listener, Target, Alive, At
  <1> QED  BY <1>2, <1>3, NobodyAt DEF Over, Alive

\* A step that keeps the record, or drops it when all it names is dead.
Settles == Grown \/ (state' = NoEntry /\ Over)

LEMMA SameStateSettles == state' = state => Settles
  BY DEF Settles, Grown

LEMMA ReconcileSettles ==
  ASSUME GatewayInv, NEW l \in Launch, NEW clean,
         Reconcile(l, clean), UNCHANGED <<launches, first>>
  PROVE  Settles /\ live' = live
  <1>1. state' \in {NoEntry, state} /\ live' = live
    BY ReconcileTyped
  <1>2. CASE Completed(l)
    BY <1>1, <1>2, CompletedIsOver, SameStateSettles DEF Settles
  <1>3. CASE ~Completed(l)
    BY <1>1, <1>3, SameStateSettles DEF Reconcile, NoUpdate, ledger
  <1> QED  BY <1>2, <1>3

LEMMA StopGatewaySettles ==
  ASSUME GatewayInv, StopGateway, UNCHANGED <<launches, first>>
  PROVE  Settles /\ live' = live
  <1>1. state' \in {NoEntry, state} /\ live' = live
    BY StopGatewayTyped
  <1>2. CASE Completed(state.launch)
    BY <1>1, <1>2, CompletedIsOver, SameStateSettles DEF Settles
  <1>3. CASE ~Completed(state.launch)
    BY <1>3, <1>1, SameStateSettles DEF StopGateway, NoUpdate, ledger
  <1> QED  BY <1>2, <1>3

LEMMA AdoptedGrows ==
  ASSUME state \in Entries, NEW x, Adoptable(state, x),
         state' \in {Adopted(state, x), state}
  PROVE  Grown
  BY DEF Entries, Adoptable, Adopted, Grown

(* Where a function is not about to spawn, none is.                        *)
LEMMA InAlone ==
  ASSUME NEW f \in Flows, NEW pc, In(f, pc)
  PROVE  /\ live /\ flow[f].pc = pc
         /\ \A g \in Flows \ {f} : flow[g].pc # "spawn"
  BY DEF In, Up, Synchronous

LEMMA FreeCalm ==
  Free => live /\ \A g \in Flows : flow[g].pc # "spawn"
  BY DEF Free, Up, Synchronous

LEMMA CalmNoneSpawns ==
  ASSUME \A g \in Flows : flow[g].pc # "spawn", UNCHANGED flow
  PROVE  NoneSpawns
  BY DEF NoneSpawns

LEMMA SetNoneSpawns ==
  ASSUME FlowOK, NEW f \in Flows, \A g \in Flows \ {f} : flow[g].pc # "spawn",
         NEW r, r.pc \notin Apart, flow' = [flow EXCEPT ![f] = r]
  PROVE  NoneSpawns
  BY DEF NoneSpawns, FlowOK, Apart

LEMMA GotoNoneSpawns ==
  ASSUME FlowOK, NEW f \in Flows, \A g \in Flows \ {f} : flow[g].pc # "spawn",
         NEW pc \in PCs \ Apart, Goto(f, pc)
  PROVE  NoneSpawns
  BY DEF NoneSpawns, FlowOK, Apart, Goto, FlowType

LEMMA OnwardNoneSpawns ==
  ASSUME FlowOK, NEW f \in Flows, \A g \in Flows \ {f} : flow[g].pc # "spawn",
         NEW r \in FlowType, flow' = [flow EXCEPT ![f] = r],
         flow[f].pc \in Following, r.pc \in Following,
         r.launch = flow[f].launch, r.proc = flow[f].proc,
         r.pc \in {"kill listener", "clear"} /\ r.clean
           => \/ flow[f].pc = "kill listener" /\ flow[f].clean
              \/ Who(os', flow[f].proc) # Process("wrapper", flow[f].launch)
  PROVE  NoneSpawns
  <1>1. flow'[f] = r /\ \A g \in Flows \ {f} : flow'[g] = flow[g]
    BY DEF FlowOK
  <1>2. Onward(f)
    BY <1>1 DEF Onward
  <1> QED  BY <1>1, <1>2 DEF NoneSpawns, Following

\* The functions whose place changes are not at a launch any more.
Leaves(new) ==
  \A g \in Flows : new[g] = flow[g] \/ new[g].pc \notin Apart

LEMMA RestartedLeaves ==
  ASSUME FlowOK, NEW ok
  PROVE  Leaves(Restarted(ok)) /\ Restarted(ok)["restart"].pc \notin Apart
  BY DEF FlowOK, Leaves, Restarted, Idle, Apart, Following, Flows

LEMMA AwaitsRestartLeaves ==
  ASSUME FlowOK
  PROVE  Leaves(AwaitsRestart) /\ AwaitsRestart["recovery"].pc \notin Apart
  BY DEF FlowOK, Leaves, AwaitsRestart, Idle, Apart, Following, Flows

LEMMA AnswersLeaves ==
  ASSUME FlowOK, NEW f \in Flows, NEW ok \in BOOLEAN
  PROVE  Leaves(Answers(f, ok)) /\ Answers(f, ok)[f].pc \notin Apart
  <1>1. CASE f = "restart" /\ ok
    BY <1>1, RestartedLeaves DEF Answers
  <1>2. CASE f = "restart" /\ ~ok
    <2>1. Answers(f, ok) =
            [flow EXCEPT ![f] = [Idle EXCEPT !.pc = "failed",
                                             !.retried = flow[f].retried]]
      BY <1>2 DEF Answers
    <2> QED  BY <2>1 DEF FlowOK, Leaves, Idle, Apart, Following
  <1>3. CASE f = "recovery" /\ ~ok
    BY <1>3, AwaitsRestartLeaves DEF Answers
  <1>4. CASE f # "restart" /\ ~(f = "recovery" /\ ~ok)
    <2>1. Answers(f, ok) = [flow EXCEPT ![f] = Idle]
      BY <1>4 DEF Answers
    <2> QED  BY <2>1 DEF FlowOK, Leaves, Idle, Apart, Following
  <1> QED  BY <1>1, <1>2, <1>3, <1>4

LEMMA LeavesNoneSpawns ==
  ASSUME FlowOK, NEW f \in Flows, \A g \in Flows \ {f} : flow[g].pc # "spawn",
         Leaves(flow'), flow'[f].pc \notin Apart
  PROVE  NoneSpawns
  BY DEF NoneSpawns, Leaves, Apart

LEMMA AnswerNoneSpawns ==
  ASSUME FlowOK, NEW f \in Flows, \A g \in Flows \ {f} : flow[g].pc # "spawn",
         NEW ok \in BOOLEAN, Answer(f, ok)
  PROVE  NoneSpawns
  BY AnswersLeaves, LeavesNoneSpawns DEF Answer

(* A step of the app that no wrapper comes from.                           *)
LEMMA QuietStep ==
  ASSUME GatewayInv, Ownership, live, live' = live,
         UNCHANGED launches, retained' \subseteq retained,
         Settles, Alike, NoneSpawns
  PROVE  Ownership' /\ Stays
  BY OwnershipHolds DEF Settles, Stays

LEMMA StatusIs ==
  \A t : Status(t) \in {"dead", "unknown", "alive", "mismatch"}
  BY DEF Status

(* When every target of the termination timer is dead, all on record is.   *)
LEMMA NoTargetIsOver ==
  ASSUME \A t \in Targets : Status(t) = "dead"
  PROVE  Over
  <1>1. \A t \in Targets : ~Alive(t.pid)
    BY DEF Status
  <1>2. ~Alive(NoPid)
    BY DEF Alive, At
  <1>3. Wrapper(state).pid = state.wrapper
    BY DEF Wrapper, Target
  <1>4. ~Alive(state.wrapper)
    <2>1. CASE state.wrapper # NoPid
      <3>1. Wrapper(state) \in Targets
        BY <1>3, <2>1 DEF Targets
      <3> QED  BY <1>1, <1>3, <3>1
    <2> QED  BY <1>2, <2>1
  <1>5. ~Alive(state.listener)
    <2>1. CASE state.listener \notin {NoPid, state.wrapper}
      <3>1. Listener(state).pid = state.listener
        BY <2>1 DEF Listener, Target
      <3>2. Listener(state) \in Targets
        BY <2>1, <3>1 DEF Targets
      <3> QED  BY <1>1, <3>1, <3>2
    <2> QED  BY <1>2, <1>4, <2>1
  <1> QED  BY <1>4, <1>5, NobodyAt DEF Over, Alive

(* A plan that looks clean and does not stop the wrapper found it gone.    *)
LEMMA PlanLooks ==
  ASSUME NEW f \in Flows, flow[f] \in FlowType, NEW e, NEW t
  PROVE  LET r == Plan(f, e, t)
         IN  /\ r.pc \in Following
             /\ r.launch = flow[f].launch /\ r.proc = flow[f].proc
             /\ r.pc \in {"kill listener", "clear"} /\ r.clean
                  => At(flow[f].proc) # Process("wrapper", flow[f].launch)
  <1> DEFINE proc == flow[f].proc
             alive == ChildAlive([launch |-> flow[f].launch, pid |-> proc])
             kills == {u \in {Wrapper(e)} : u.pid = proc /\ alive} \union
                      {u \in {t} : u.pid # proc}
             proved == {u \in kills : u.proof # Nobody /\ Observed(u.pid) = u.proof}
             others == {p \in {proc} : alive} \union
                       {p \in {pidfile} \ {NoPid, e.pre} : Alive(p)}
             clean == others \subseteq {u.pid : u \in proved}
             pc == IF \E u \in proved : u.pid = proc THEN "kill wrapper"
                   ELSE IF proved # {} THEN "kill listener" ELSE "clear"
  <1>1. Plan(f, e, t) = [flow[f] EXCEPT !.kills = proved, !.of = e.launch,
                                        !.clean = clean, !.pc = pc]
    BY DEF Plan
  <1>2. pc \in {"kill listener", "clear"} /\ clean => ~alive
    OBVIOUS
  <1>3. ~alive => At(proc) # Process("wrapper", flow[f].launch)
    BY NobodyAt DEF ChildAlive, At
  <1>4. pc \in Following
    BY DEF Following
  <1> HIDE DEF proved, clean, pc, alive
  <1>5. /\ Plan(f, e, t).pc = pc /\ Plan(f, e, t).clean = clean
        /\ Plan(f, e, t).launch = flow[f].launch /\ Plan(f, e, t).proc = proc
    BY <1>1 DEF FlowType
  <1> QED  BY <1>2, <1>3, <1>4, <1>5

-----------------------------------------------------------------------------
(* Every action keeps Ownership and what is on record.                     *)

LEMMA MachineOwns ==
  ASSUME GatewayInv, Ownership, Machine
  PROVE  Ownership' /\ Stays
  <1>0. WorldOK
    BY DEF GatewayInv, TypeOK
  <1>1. ASSUME NEW p \in Pids, NEW q \in Pids, Fork(p, q)
        PROVE  Ownership' /\ Stays
    <2>1. Alike
      <3>1. \A r \in Pids :
              os'[r].who \in {os[r].who, Process("listener", At(p).launch)}
        BY <1>0, <1>1 DEF Fork, WorldOK, New
      <3> QED  BY <3>1, NobodyAt DEF Alike, At, Who, Pid
    <2> QED  BY <1>1, <2>1, OwnershipUntouched DEF Fork, ledger
  <1>2. ASSUME NEW p \in Pids, Publish(p)
        PROVE  Ownership' /\ Stays
    <2>1. Alike
      BY <1>0, <1>2 DEF Publish, WorldOK, Alike, At, Who, Pid
    <2> QED  BY <1>2, <2>1, OwnershipUntouched DEF Publish, ledger
  <1>3. ASSUME NEW p \in Pids, Exits(p)
        PROVE  Ownership' /\ Stays
    <2>1. Alike
      <3>1. \A r \in Pids : os'[r].who \in {os[r].who, Nobody}
        BY <1>0, <1>3 DEF Exits, WorldOK, New
      <3> QED  BY <3>1, NobodyAt DEF Alike, At, Who, Pid
    <2> QED  BY <1>3, <2>1, OwnershipUntouched DEF Exits, ledger
  <1>4. ASSUME NEW p \in Pids, Reuse(p)
        PROVE  Ownership' /\ Stays
    <2>1. Alike
      <3>1. \A r \in Pids : os'[r].who \in {os[r].who, Foreign}
        BY <1>0, <1>4 DEF Reuse, WorldOK, New
      <3> QED  BY <3>1, NobodyAt DEF Alike, At, Who, Pid
    <2> QED  BY <1>4, <2>1, OwnershipUntouched DEF Reuse, ledger
  <1>5. CASE Blind
    BY <1>5, SameProcesses, OwnershipUntouched DEF Blind, ledger
  <1>6. CASE Sight
    BY <1>6, SameProcesses, OwnershipUntouched DEF Sight, ledger
  <1>7. CASE Crash
    <2>1. \A f \in Flows : flow'[f].pc = "idle"
      BY <1>7 DEF Crash, Idle
    <2>2. retained' = {} /\ UNCHANGED state
      BY <1>7 DEF Crash, Die
    <2> QED  BY <2>1, <2>2
             DEF Ownership, SpawnsAlone, RetainedIsBare, FollowsItsOwn, Following,
                 CleanMeansGone, DownIsIdle, Stays, Grown
  <1> QED  BY <1>1, <1>2, <1>3, <1>4, <1>5, <1>6, <1>7 DEF Machine

LEMMA StartOwns ==
  ASSUME GatewayInv, Ownership,
         Start \/ ColdStart \/ Stop \/ \E f \in Flows : Call(f)
  PROVE  Ownership' /\ Stays
  <1>0. WorldOK /\ FlowOK /\ BudgetOK
    BY DEF GatewayInv, TypeOK
  <1>1. CASE Start
    <2>1. ~live /\ UNCHANGED <<retained, flow>>
      BY <1>1 DEF Start, Load
    <2>2. retained' = {} /\ \A f \in Flows : flow'[f].pc = "idle"
      BY <2>1 DEF Ownership, DownIsIdle
    <2> QED  BY <2>1, <2>2
             DEF Ownership, SpawnsAlone, RetainedIsBare, FollowsItsOwn, Following,
                 CleanMeansGone, DownIsIdle, Stays, Up
  <1>2. CASE ColdStart
    <2>1. /\ live /\ ~Up
          /\ UNCHANGED <<os, retained, flow, launches, first>>
          /\ Update(NoEntry) \/ NoUpdate
      BY <1>2 DEF ColdStart, Up
    <2>2. NoneSpawns
      BY <2>1, CalmNoneSpawns DEF Ownership, SpawnsAlone
    <2>3. state' \in {NoEntry, state} /\ live' = live
      BY <1>0, <2>1, UpdateWrites, NoUpdateWrites, NothingTyped DEF GatewayInv
    <2>4. Grown \/ state' = NoEntry
      BY <2>3 DEF Grown
    <2> QED  BY <2>1, <2>2, <2>3, <2>4, SameProcesses, OwnershipHolds DEF Stays
  <1>3. CASE Stop
    <2>1. /\ Free /\ StopGateway
          /\ UNCHANGED <<os, retained, flow, launches, first>>
      BY <1>3 DEF Stop
    <2>2. Settles /\ live' = live
      BY <2>1, StopGatewaySettles
    <2>3. live /\ NoneSpawns
      BY <2>1, FreeCalm, CalmNoneSpawns
    <2> QED  BY <2>1, <2>2, <2>3, SameProcesses, QuietStep
  <1>4. ASSUME NEW f \in Flows, Call(f)
        PROVE  Ownership' /\ Stays
    <2>1. /\ Free
          /\ UNCHANGED <<ledger, os, retained, launches>>
          /\ \E pc \in PCs \ Apart : Goto(f, pc)
      BY <1>4 DEF Call, Flows, PCs, Apart, Following
    <2>2. live /\ NoneSpawns
      BY <1>0, <2>1, FreeCalm, GotoNoneSpawns
    <2> QED  BY <2>1, <2>2, SameStateSettles, SameProcesses, QuietStep DEF ledger
  <1> QED  BY <1>1, <1>2, <1>3, <1>4

LEMMA CallbackOwns ==
  ASSUME GatewayInv, Ownership, Callbacks
  PROVE  Ownership' /\ Stays
  <1>0. /\ WorldOK /\ FlowOK /\ BudgetOK /\ state \in Entries
        /\ closing \in SUBSET EventType /\ adoption \in TickType
    BY StateTyped DEF GatewayInv, TypeOK, MemoryOK
  <1>1. ASSUME NEW c \in closing, Closed(c)
        PROVE  Ownership' /\ Stays
    <2>1. /\ Free /\ c.launch \in Launch
          /\ UNCHANGED <<os, flow, launches, first>>
      BY <1>0, <1>1 DEF Closed, EventType
    <2>2. live /\ NoneSpawns
      BY <2>1, FreeCalm, CalmNoneSpawns
    <2>3. retained' \subseteq retained
      BY <1>1 DEF Closed
    <2>4. Settles /\ live' = live
      <3>1. CASE Reconcile(c.launch, c.clean)
        BY <2>1, <3>1, ReconcileSettles
      <3>2. CASE c.launch \in retained /\ state.launch = c.launch /\ Update(NoEntry)
        <4>1. state.wrapper = NoPid /\ state.listener = NoPid
          BY <3>2 DEF Ownership, RetainedIsBare, Unspawned
        <4>2. Over
          BY <4>1, NobodyAt DEF Over, At, Alive
        <4> QED  BY <1>0, <2>1, <3>2, <4>2, UpdateWrites, NothingTyped,
                    SameStateSettles
                 DEF Settles, GatewayInv
      <3>3. CASE NoUpdate
        BY <1>0, <2>1, <3>3, NoUpdateWrites, SameStateSettles
      <3> QED  BY <1>1, <3>1, <3>2, <3>3 DEF Closed
    <2> QED  BY <2>1, <2>2, <2>3, <2>4, SameProcesses, QuietStep
  <1>2. CASE Terminate
    <2>1. Free /\ UNCHANGED <<retained, flow, launches, first>>
      BY <1>2 DEF Terminate
    <2>2. live /\ NoneSpawns
      BY <2>1, FreeCalm, CalmNoneSpawns
    <2>3. Alike
      BY <1>0, <1>2, SameProcesses, EndedAlike DEF Terminate
    <2>4. Settles /\ live' = live
      <3>1. CASE NoUpdate
        BY <1>0, <2>1, <3>1, NoUpdateWrites, SameStateSettles
      <3>2. CASE ClearRecord /\ \A t \in Targets : Status(t) = "dead"
        <4>1. Over
          BY <3>2, NoTargetIsOver
        <4>2. state' \in {NoEntry, state} /\ live' = live
          BY <2>1, <3>2, ClearRecordTyped
        <4> QED  BY <4>1, <4>2, SameStateSettles DEF Settles
      <3> QED  BY <1>2, <3>1, <3>2, StatusIs DEF Terminate
    <2> QED  BY <2>1, <2>2, <2>3, <2>4, QuietStep
  <1>3. CASE AdoptionTick
    <2>1. Free /\ UNCHANGED <<ledger, os, retained, flow, launches>>
      BY <1>3 DEF AdoptionTick
    <2>2. live /\ NoneSpawns
      BY <2>1, FreeCalm, CalmNoneSpawns
    <2> QED  BY <2>1, <2>2, SameStateSettles, SameProcesses, QuietStep DEF ledger
  <1>4. CASE AdoptionProbed
    <2>1. Free /\ UNCHANGED <<os, retained, flow, launches, first>>
      BY <1>4 DEF AdoptionProbed
    <2>2. live /\ NoneSpawns
      BY <2>1, FreeCalm, CalmNoneSpawns
    <2>3. Settles /\ live' = live
      <3>1. CASE NoUpdate
        BY <1>0, <2>1, <3>1, NoUpdateWrites, SameStateSettles
      <3>2. CASE /\ Adoptable(state, adoption.evidence)
                 /\ Update(Adopted(state, adoption.evidence))
        <4>1. Adopted(state, adoption.evidence) \in Entries
          BY <1>0, EntriesTyped DEF TickType
        <4>2. /\ state' \in {Adopted(state, adoption.evidence), state}
              /\ live' = live
          BY <1>0, <2>1, <3>2, <4>1, UpdateWrites DEF GatewayInv
        <4> QED  BY <1>0, <3>2, <4>2, AdoptedGrows DEF Settles
      <3> QED  BY <1>4, <3>1, <3>2 DEF AdoptionProbed
    <2> QED  BY <2>1, <2>2, <2>3, SameProcesses, QuietStep
  <1> QED  BY <1>1, <1>2, <1>3, <1>4 DEF Callbacks

LEMMA LaunchOwns ==
  ASSUME GatewayInv, Ownership, NEW f \in Flows,
         \/ LaunchRefused(f) \/ BeginLaunch(f) \/ SpawnFails(f)
         \/ Look(f) \/ Probed(f) \/ Judge(f) \/ Adopt(f)
  PROVE  Ownership' /\ Stays
  <1>0. /\ WorldOK /\ FlowOK /\ BudgetOK /\ state \in Entries /\ pidfile \in Pid
        /\ flow[f] \in FlowType
    BY StateTyped DEF GatewayInv, TypeOK, FlowOK, WorldOK
  <1>a. /\ flow[f].launch \in Launch /\ flow[f].proc \in Pid
        /\ flow[f].evidence \in Processes
    BY <1>0, FlowFields
  <1>1. CASE LaunchRefused(f)
    <2>1. /\ In(f, "launch") /\ \E ok \in BOOLEAN : Answer(f, ok)
          /\ UNCHANGED <<ledger, os, retained, launches>>
      BY <1>1 DEF LaunchRefused, Unavailable, Running, Serving
    <2>2. live /\ NoneSpawns
      BY <1>0, <2>1, InAlone, AnswerNoneSpawns
    <2> QED  BY <2>1, <2>2, SameStateSettles, SameProcesses, QuietStep DEF ledger
  <1>2. CASE BeginLaunch(f)
    <2> DEFINE l == launches + 1
               entry == [NoEntry EXCEPT !.launch = l, !.pre = pidfile]
               less == [left EXCEPT !.launches = @ - 1]
    <2>1. /\ In(f, "launch") /\ Up /\ state = NoEntry /\ launches' = l
          /\ Spend(entry, less)
          /\ UNCHANGED <<os, retained, cold>>
      BY <1>2 DEF BeginLaunch, In
    <2>2. /\ live /\ flow[f].pc = "launch"
          /\ \A g \in Flows \ {f} : flow[g].pc # "spawn"
      BY <2>1, InAlone
    <2>3. entry \in Entries /\ less \in BudgetType
      <3>1. /\ left \in BudgetType /\ left.launches > 0
            /\ launches \in Nat /\ launches + left.launches <= MaxLaunches
        BY <1>0, <1>2 DEF BeginLaunch, BudgetOK
      <3>2. left.launches \in Nat /\ left.launches - 1 \in Launch /\ l \in Launch
        BY <3>1, LaunchTyped DEF BudgetType, Launch
      <3> QED  BY <1>0, <3>1, <3>2, EntriesTyped DEF BudgetType
    <2>4. state' \in {entry, state} /\ live' = live
      <3> HIDE DEF entry, less
      <3> QED  BY <2>1, <2>3, SpendWrites DEF GatewayInv
    <2>5. Stays
      <3>1. state.wrapper = NoPid /\ state.listener = NoPid
        BY <2>1 DEF NoEntry
      <3> QED  BY <3>1, NobodyAt DEF Stays, Over, At, Alive
    <2>6. CASE state' = entry
      <3>1. /\ state'.launch = l /\ state'.wrapper = NoPid
            /\ state'.listener = NoPid
        BY <2>6 DEF NoEntry
      <3>2. /\ flow' = [flow EXCEPT ![f] = [flow[f] EXCEPT !.pc = "spawn",
                          !.launch = l, !.pre = pidfile, !.candidate = NoPid]]
        BY <1>2, <2>6 DEF BeginLaunch
      <3>3. /\ flow'[f].pc = "spawn" /\ flow'[f].launch = l
            /\ \A g \in Flows \ {f} : flow'[g] = flow[g]
        BY <1>0, <3>2 DEF FlowOK, FlowType
      <3>4. launches \in Nat /\ l = launches + 1 /\ l \notin 1..launches
        BY <1>0 DEF BudgetOK
      <3>5. SpawnsAlone'
        <4>1. l \notin retained
          BY <3>4 DEF Ownership, RetainedIsBare
        <4>2. \A g \in Flows \ {f} : flow[g].pc \in Following => flow[g].launch # l
          BY <3>4 DEF Ownership, FollowsItsOwn
        <4>3. \A g \in Flows : flow'[g].pc \in Following => flow'[g].launch # l
          BY <3>3, <4>2 DEF Following
        <4>4. Up' /\ launches' > 0 /\ l \notin retained'
          BY <2>1, <2>4, <3>4, <4>1 DEF Up
        <4>5. \A g \in Flows : flow'[g].pc = "spawn" => flow'[g].launch = l
          BY <2>2, <3>3
        <4> QED  BY <2>1, <3>1, <4>3, <4>4, <4>5 DEF SpawnsAlone, Unspawned
      <3>6. RetainedIsBare'
        <4>1. retained' \subseteq 1..launches
          BY <2>1 DEF Ownership, RetainedIsBare
        <4>2. 1..launches \subseteq 1..launches'
          BY <2>1, <3>4
        <4>3. state'.wrapper = NoPid /\ state'.listener = NoPid
          BY <3>1
        <4>4. retained' \subseteq 1..launches'
          BY <4>1, <4>2
        <4> QED  BY <4>3, <4>4 DEF RetainedIsBare, Unspawned
      <3>7. FollowsItsOwn'
        <4> SUFFICES ASSUME NEW g \in Flows, flow'[g].pc \in Following
                     PROVE  /\ flow'[g].launch \in 1..launches'
                            /\ flow'[g].proc \in Pids
                            /\ state'.launch = flow'[g].launch
                                 => state'.wrapper = flow'[g].proc
          BY DEF FollowsItsOwn
        <4>1. flow'[g] = flow[g]
          BY <3>3 DEF Following
        <4>2. flow[g].launch \in 1..launches /\ flow[g].proc \in Pids
          BY <4>1 DEF Ownership, FollowsItsOwn
        <4>3. flow[g].launch # l /\ flow[g].launch \in 1..launches'
          BY <2>1, <3>4, <4>2
        <4> QED  BY <3>1, <4>1, <4>2, <4>3
      <3>8. CleanMeansGone' /\ DownIsIdle'
        BY <2>1, <2>2, <2>4, <3>3
        DEF Ownership, CleanMeansGone, DownIsIdle, At
      <3> QED  BY <2>5, <3>5, <3>6, <3>7, <3>8 DEF Ownership
    <2>7. CASE state' # entry
      <3>1. state' = state
        BY <2>4, <2>7
      <3>2. Answer(f, FALSE)
        BY <1>2, <2>7 DEF BeginLaunch
      <3>3. NoneSpawns
        BY <1>0, <2>2, <3>2, AnswerNoneSpawns
      <3> QED  BY <2>1, <2>2, <2>4, <2>5, <3>1, <3>3, SameProcesses,
                  OwnershipHolds DEF Grown
    <2> QED  BY <2>6, <2>7
  <1>3. CASE SpawnFails(f)
    <2>1. /\ In(f, "spawn") /\ Update(NoEntry) /\ Answer(f, FALSE)
          /\ UNCHANGED <<os, retained, launches, first>>
      BY <1>3 DEF SpawnFails
    <2>2. live /\ flow[f].pc = "spawn" /\ NoneSpawns
      BY <1>0, <2>1, InAlone, AnswerNoneSpawns
    <2>3. Over
      <3>1. state.wrapper = NoPid /\ state.listener = NoPid
        BY <2>2 DEF Ownership, SpawnsAlone, Unspawned
      <3> QED  BY <3>1, NobodyAt DEF Over, At, Alive
    <2>4. Settles /\ live' = live
      BY <1>0, <2>1, <2>3, UpdateWrites, NothingTyped, SameStateSettles
      DEF Settles, GatewayInv
    <2> QED  BY <2>1, <2>2, <2>4, SameProcesses, QuietStep
  <1>4. CASE Look(f) \/ Probed(f)
    <2>1. /\ \E pc \in {"serving", "probe"} : In(f, pc)
          /\ UNCHANGED <<ledger, os, retained, launches>>
      BY <1>4 DEF Look, Probed
    <2>2. /\ live /\ flow[f].pc \in {"serving", "probe"}
          /\ \A g \in Flows \ {f} : flow[g].pc # "spawn"
      BY <2>1, InAlone
    <2>3. PICK r \in FlowType :
            /\ flow' = [flow EXCEPT ![f] = r]
            /\ r.pc \in {"serving", "probe", "judge"}
            /\ r.launch = flow[f].launch /\ r.proc = flow[f].proc
      <3>1. \A ok \in BOOLEAN :
              LET r == [flow[f] EXCEPT !.ready = ok, !.pc = "judge"]
              IN  /\ r \in FlowType /\ r.pc = "judge"
                  /\ r.launch = flow[f].launch /\ r.proc = flow[f].proc
        BY <1>0 DEF FlowType, PCs
      <3>2. CASE Again(f)
        <4>1. PICK pc \in {"serving", "judge"} :
                flow' = [flow EXCEPT ![f] = [flow[f] EXCEPT !.pc = pc,
                           !.candidate = NoPid, !.evidence = Nobody]]
          BY <3>2 DEF Again
        <4>2. pc \in PCs /\ NoPid \in Pid /\ Nobody \in Processes
          BY ProcessesTyped, PidTyped DEF PCs
        <4> DEFINE r == [flow[f] EXCEPT !.pc = pc, !.candidate = NoPid,
                                        !.evidence = Nobody]
        <4>3. /\ r \in FlowType /\ r.pc = pc
              /\ r.launch = flow[f].launch /\ r.proc = flow[f].proc
          BY <1>0, <4>2 DEF FlowType
        <4>4. flow' = [flow EXCEPT ![f] = r]
          BY <4>1
        <4> HIDE DEF r
        <4> QED  BY <4>3, <4>4
      <3>3. CASE \E ok \in BOOLEAN :
                   flow' = [flow EXCEPT ![f] =
                              [@ EXCEPT !.ready = ok, !.pc = "judge"]]
        BY <3>1, <3>3
      <3>4. CASE flow' = [flow EXCEPT ![f] = [@ EXCEPT !.pc = "probe",
                            !.candidate = pidfile, !.evidence = At(pidfile)]]
        <4>1. "probe" \in PCs /\ At(pidfile) \in Processes
          BY <1>0, AtTyped DEF PCs
        <4> DEFINE r == [flow[f] EXCEPT !.pc = "probe", !.candidate = pidfile,
                                        !.evidence = At(pidfile)]
        <4>2. /\ r \in FlowType /\ r.pc = "probe"
              /\ r.launch = flow[f].launch /\ r.proc = flow[f].proc
          BY <1>0, <4>1 DEF FlowType
        <4>3. flow' = [flow EXCEPT ![f] = r]
          BY <3>4
        <4> HIDE DEF r
        <4> QED  BY <4>2, <4>3
      <3> QED  BY <1>4, <3>2, <3>3, <3>4 DEF Look, Probed, Serving
    <2>4. NoneSpawns
      BY <1>0, <2>2, <2>3, OnwardNoneSpawns DEF Following
    <2> QED  BY <2>1, <2>2, <2>4, SameStateSettles, SameProcesses, QuietStep
             DEF ledger
  <1>b. \A pc \in PCs :
          LET r == [flow[f] EXCEPT !.pc = pc]
          IN  /\ r \in FlowType /\ r.pc = pc
              /\ r.launch = flow[f].launch /\ r.proc = flow[f].proc
    BY <1>0 DEF FlowType
  <1>5. CASE Judge(f)
    <2>1. /\ In(f, "judge") /\ \E pc \in {"adopt", "cleanup"} : Goto(f, pc)
          /\ UNCHANGED <<os, retained, launches, first>>
      BY <1>5 DEF Judge
    <2>2. /\ live /\ flow[f].pc = "judge"
          /\ \A g \in Flows \ {f} : flow[g].pc # "spawn"
      BY <2>1, InAlone
    <2>3. NoneSpawns
      <3>1. PICK pc \in {"adopt", "cleanup"} :
              flow' = [flow EXCEPT ![f] = [flow[f] EXCEPT !.pc = pc]]
        BY <2>1 DEF Goto
      <3>2. pc \in PCs /\ pc \in Following /\ "judge" \in Following
        BY DEF PCs, Following
      <3> DEFINE r == [flow[f] EXCEPT !.pc = pc]
      <3>3. /\ r \in FlowType /\ r.pc = pc
            /\ r.launch = flow[f].launch /\ r.proc = flow[f].proc
        BY <1>b, <3>2
      <3> HIDE DEF r
      <3>4. flow' = [flow EXCEPT ![f] = r]
        BY <3>1 DEF r
      <3> QED  BY <1>0, <2>2, <3>2, <3>3, <3>4, OnwardNoneSpawns
    <2>4. Settles /\ live' = live
      <3>1. CASE \E x \in Processes : Update([state EXCEPT !.wproof = x])
        <4>1. PICK x \in Processes : Update([state EXCEPT !.wproof = x])
          BY <3>1
        <4>2. /\ state' \in {[state EXCEPT !.wproof = x], state} /\ live' = live
          BY <1>0, <2>1, <4>1, UpdateWrites, EntriesTyped DEF GatewayInv
        <4> QED  BY <1>0, <4>2 DEF Settles, Grown, Entries
      <3>2. CASE NoUpdate
        BY <1>0, <2>1, <3>2, NoUpdateWrites, SameStateSettles
      <3>3. /\ At(flow[f].proc) \in Processes
            /\ Process("wrapper", flow[f].launch) \in Processes
        BY <1>0, <1>a, AtTyped, ProcessesTyped
      <3> QED  BY <1>5, <3>1, <3>2, <3>3 DEF Judge
    <2> QED  BY <2>1, <2>2, <2>3, <2>4, SameProcesses, QuietStep
  <1>6. CASE Adopt(f)
    <2>1. /\ In(f, "adopt") /\ (Answer(f, TRUE) \/ Goto(f, "cleanup"))
          /\ UNCHANGED <<os, retained, launches, first>>
      BY <1>6 DEF Adopt
    <2>2. /\ live /\ flow[f].pc = "adopt"
          /\ \A g \in Flows \ {f} : flow[g].pc # "spawn"
      BY <1>6, InAlone DEF Adopt
    <2>3. NoneSpawns
      <3>1. CASE Answer(f, TRUE)
        BY <1>0, <2>2, <3>1, AnswerNoneSpawns
      <3>2. CASE Goto(f, "cleanup")
        BY <1>0, <1>b, <2>2, <3>2, OnwardNoneSpawns DEF Goto, Following, PCs
      <3> QED  BY <1>6, <3>1, <3>2 DEF Adopt
    <2>4. Settles /\ live' = live
      <3>1. CASE NoUpdate
        BY <1>0, <1>6, <3>1, NoUpdateWrites, SameStateSettles DEF Adopt
      <3>2. CASE /\ Adoptable(state, flow[f].evidence)
                 /\ Update(Adopted(state, flow[f].evidence))
        <4>1. Adopted(state, flow[f].evidence) \in Entries
          BY <1>0, <1>a, EntriesTyped
        <4>2. /\ state' \in {Adopted(state, flow[f].evidence), state}
              /\ live' = live
          BY <1>0, <1>6, <3>2, <4>1, UpdateWrites DEF Adopt, GatewayInv
        <4> QED  BY <1>0, <3>2, <4>2, AdoptedGrows DEF Settles
      <3> QED  BY <1>6, <3>1, <3>2 DEF Adopt
    <2>5. UNCHANGED <<os, retained, launches>>
      BY <1>6 DEF Adopt
    <2> QED  BY <2>2, <2>3, <2>4, <2>5, SameProcesses, QuietStep
  <1> QED  BY <1>1, <1>2, <1>3, <1>4, <1>5, <1>6


LEMMA SpawnOwns ==
  ASSUME GatewayInv, Ownership, NEW f \in Flows, NEW p \in Pids, Spawn(f, p)
  PROVE  Ownership' /\ Stays
  <1> DEFINE l == flow[f].launch
             entry == [state EXCEPT !.wrapper = p]
  <1>0. /\ WorldOK /\ FlowOK /\ BudgetOK /\ state \in Entries
        /\ flow[f] \in FlowType /\ launches \in Nat
    BY StateTyped DEF GatewayInv, TypeOK, FlowOK, BudgetOK
  <1>1. /\ live /\ flow[f].pc = "spawn"
        /\ \A g \in Flows \ {f} : flow[g].pc # "spawn"
    BY InAlone DEF Spawn
  <1>2. /\ launches > 0 /\ l = launches /\ state.launch = l
        /\ state.wrapper = NoPid /\ state.listener = NoPid /\ l \notin retained
        /\ \A g \in Flows : flow[g].pc \in Following => flow[g].launch # l
    BY <1>1 DEF Ownership, SpawnsAlone, Unspawned
  <1>3. state' \in {entry, state} /\ live' = live
    <2>1. entry \in Entries
      BY <1>0, EntriesTyped, PidTyped
    <2> QED  BY <1>0, <2>1, UpdateWrites DEF Spawn, GatewayInv
  <1>4. Stays
    BY <1>2, NobodyAt DEF Stays, Over, At, Alive
  <1>5. \A q \in Pid : \/ Who(os', q) = At(q)
                       \/ Who(os', q) = Process("wrapper", l)
    BY <1>0 DEF Spawn, WorldOK, New, Who, At, Pid
  <1>6. UNCHANGED launches
    BY DEF Spawn
  <1>7. ASSUME NEW g \in Flows, flow[g].pc \in {"kill listener", "clear"},
               flow[g].clean
        PROVE  Who(os', flow[g].proc) # Process("wrapper", flow[g].launch)
    <2>1. At(flow[g].proc) # Process("wrapper", flow[g].launch)
      BY <1>7 DEF Ownership, CleanMeansGone
    <2>2. flow[g].launch # l /\ flow[g].proc \in Pid
      BY <1>2, <1>7, PidTyped DEF Following, Ownership, FollowsItsOwn
    <2> QED  BY <1>5, <2>1, <2>2 DEF Process
  <1>8. CASE state' = entry
    <2>1. /\ state'.launch = l /\ state'.wrapper = p
          /\ UNCHANGED retained
      BY <1>0, <1>2, <1>8 DEF Entries, Spawn
    <2>2. flow' = [flow EXCEPT ![f] = [flow[f] EXCEPT !.pc = "serving", !.proc = p]]
      BY <1>8 DEF Spawn
    <2>3. /\ flow'[f].pc = "serving" /\ flow'[f].proc = p /\ flow'[f].launch = l
          /\ \A g \in Flows \ {f} : flow'[g] = flow[g]
      BY <1>0, <2>2 DEF FlowOK, FlowType
    <2>4. SpawnsAlone'
      BY <1>1, <2>3 DEF SpawnsAlone
    <2>5. RetainedIsBare'
      <3>1. retained' \subseteq 1..launches'
        BY <1>6, <2>1 DEF Ownership, RetainedIsBare
      <3>2. \A x \in retained' : state'.launch # x
        BY <1>2, <2>1
      <3> QED  BY <3>1, <3>2 DEF RetainedIsBare, Unspawned
    <2>6. FollowsItsOwn'
      <3> SUFFICES ASSUME NEW g \in Flows, flow'[g].pc \in Following
                   PROVE  /\ flow'[g].launch \in 1..launches
                          /\ flow'[g].proc \in Pids
                          /\ state'.launch = flow'[g].launch
                               => state'.wrapper = flow'[g].proc
        BY <1>6 DEF FollowsItsOwn
      <3>1. CASE g = f
        BY <1>0, <1>2, <2>1, <2>3, <3>1
      <3>2. CASE g # f
        <4>1. flow'[g] = flow[g]
          BY <2>3, <3>2
        <4>2. flow[g].launch # l
          BY <1>2, <4>1
        <4> QED  BY <2>1, <4>1, <4>2 DEF Ownership, FollowsItsOwn
      <3> QED  BY <3>1, <3>2
    <2>7. CleanMeansGone'
      BY <1>7, <2>3 DEF CleanMeansGone, At, Who
    <2>8. DownIsIdle'
      BY <1>1, <1>3 DEF DownIsIdle
    <2> QED  BY <1>4, <2>4, <2>5, <2>6, <2>7, <2>8 DEF Ownership
  <1>9. CASE state' # entry
    <2>1. state' = state /\ Answer(f, FALSE) /\ retained' = retained \union {l}
      BY <1>3, <1>9 DEF Spawn
    <2>2. /\ flow'[f].pc \notin Apart
          /\ \A g \in Flows : flow'[g] = flow[g] \/ flow'[g].pc \notin Apart
      BY <1>0, <2>1, AnswersLeaves DEF Answer, Leaves
    <2>3. SpawnsAlone'
      BY <1>1, <2>2 DEF SpawnsAlone, Apart
    <2>4. RetainedIsBare'
      BY <1>0, <1>2, <1>6, <2>1 DEF Ownership, RetainedIsBare, Unspawned
    <2>5. FollowsItsOwn'
      BY <1>6, <2>1, <2>2 DEF Ownership, FollowsItsOwn, Apart
    <2>6. CleanMeansGone'
      BY <1>7, <2>2 DEF CleanMeansGone, At, Who, Apart, Following
    <2>7. DownIsIdle'
      BY <1>1, <1>3 DEF DownIsIdle
    <2> QED  BY <1>4, <2>3, <2>4, <2>5, <2>6, <2>7 DEF Ownership
  <1> QED  BY <1>8, <1>9

LEMMA CleanupOwns ==
  ASSUME GatewayInv, Ownership, NEW f \in Flows,
         Cleanup(f) \/ (\E t \in flow[f].kills : CleanupKill(f, t)) \/ CleanupEnds(f)
  PROVE  Ownership' /\ Stays
  <1>0. /\ WorldOK /\ FlowOK /\ BudgetOK /\ state \in Entries /\ pidfile \in Pid
        /\ flow[f] \in FlowType
    BY StateTyped DEF GatewayInv, TypeOK, FlowOK, WorldOK
  <1>a. /\ flow[f].launch \in Launch /\ flow[f].proc \in Pid
        /\ flow[f].kills \in SUBSET TargetType /\ flow[f].clean \in BOOLEAN
        /\ flow[f].evidence \in Processes /\ flow[f].candidate \in Pid
    BY <1>0, FlowFields
  <1>1. CASE Cleanup(f)
    <2> DEFINE new == Adopted(state, At(pidfile))
    <2>1. /\ live /\ flow[f].pc = "cleanup"
          /\ \A g \in Flows \ {f} : flow[g].pc # "spawn"
          /\ UNCHANGED <<os, retained, launches, first>>
      BY <1>1, InAlone DEF Cleanup
    <2>2. new \in Entries /\ At(pidfile) \in Processes
      BY <1>0, EntriesTyped, AtTyped
    <2>3. /\ Settles /\ live' = live
          /\ state' \in Entries
      <3>1. CASE NoUpdate
        BY <1>0, <2>1, <3>1, NoUpdateWrites, SameStateSettles
      <3>2. CASE /\ Adoptable(state, Observed(pidfile))
                 /\ Update(new)
        <4>1. Observed(pidfile) = At(pidfile)
          BY <3>2 DEF Adoptable, Observed
        <4>2. state' \in {new, state} /\ live' = live
          BY <1>0, <2>1, <2>2, <3>2, UpdateWrites DEF GatewayInv
        <4> QED  BY <1>0, <2>2, <3>2, <4>1, <4>2, AdoptedGrows DEF Settles
      <3> QED  BY <1>1, <3>1, <3>2 DEF Cleanup
    <2>4. NoneSpawns
      <3>1. PICK t \in {Target(pidfile, At(pidfile)),
                        Target(flow[f].candidate, flow[f].evidence)} :
              flow' = [flow EXCEPT ![f] = Plan(f, state', t)]
        BY <1>1 DEF Cleanup
      <3>2. t \in TargetType
        BY <1>0, <1>a, <2>2 DEF Target, TargetType
      <3> DEFINE r == Plan(f, state', t)
      <3>3. r \in FlowType
        BY <1>0, <2>3, <3>2, PlanTyped
      <3>4. /\ r.pc \in Following
            /\ r.launch = flow[f].launch /\ r.proc = flow[f].proc
            /\ r.pc \in {"kill listener", "clear"} /\ r.clean
                 => At(flow[f].proc) # Process("wrapper", flow[f].launch)
        BY <1>0, PlanLooks
      <3>5. flow[f].pc \in Following
        BY <2>1 DEF Following
      <3>6. Who(os', flow[f].proc) = At(flow[f].proc)
        BY <2>1 DEF Who, At
      <3> HIDE DEF r
      <3>7. flow' = [flow EXCEPT ![f] = r]
        BY <3>1 DEF r
      <3> QED  BY <1>0, <2>1, <3>3, <3>4, <3>5, <3>6, <3>7, OnwardNoneSpawns
    <2> QED  BY <2>1, <2>3, <2>4, SameProcesses, QuietStep
  <1>2. ASSUME NEW t \in flow[f].kills, CleanupKill(f, t)
        PROVE  Ownership' /\ Stays
    <2> DEFINE wrapper == t.pid = flow[f].proc
               S == IF /\ Observed(t.pid) = t.proof
                       /\ state # NoEntry /\ state.launch = flow[f].of
                       /\ wrapper \/ pidfile = t.pid
                      THEN {t.pid} ELSE {}
               clean == flow[f].clean /\ (S # {} \/ ~Alive(t.pid))
    <2>1. /\ In(f, IF wrapper THEN "kill wrapper" ELSE "kill listener")
          /\ Killed(S)
          /\ UNCHANGED <<ledger, retained, launches>>
          /\ \E pc \in {"kill listener", "clear"} :
               flow' = [flow EXCEPT ![f] = [@ EXCEPT !.clean = clean, !.pc = pc]]
      BY <1>2 DEF CleanupKill
    <2>2. /\ live
          /\ flow[f].pc = IF wrapper THEN "kill wrapper" ELSE "kill listener"
          /\ \A g \in Flows \ {f} : flow[g].pc # "spawn"
      BY <2>1, InAlone
    <2>3. Alike
      BY <1>0, <2>1, EndedAlike
    <2>4. wrapper /\ clean => Who(os', flow[f].proc) # Process("wrapper", flow[f].launch)
      <3>1. CASE S # {} /\ wrapper
        <4>1. flow[f].proc \in S
          BY <3>1
        <4>2. Who(os', flow[f].proc) = Nobody
          <5>1. PICK T \in SUBSET Children(S) :
                  os' = [p \in Pids |-> IF p \in S \union T THEN New(Nobody)
                                       ELSE os[p]]
            BY <2>1 DEF Killed, Ended
          <5>2. flow[f].proc \in Pids /\ flow[f].proc # NoPid
            BY <2>2, PidsAssumption DEF Ownership, FollowsItsOwn, Following
          <5> HIDE DEF S
          <5>3. os'[flow[f].proc] = New(Nobody)
            BY <4>1, <5>1, <5>2
          <5> QED  BY <5>2, <5>3 DEF Who, New
        <4> QED  BY <4>2, NobodyAt
      <3>2. CASE ~Alive(t.pid) /\ wrapper
        <4>1. At(flow[f].proc) = Nobody
          BY <3>2 DEF Alive
        <4> QED  BY <1>a, <2>3, <4>1, NobodyAt, OtherRole DEF Alike
      <3> QED  BY <3>1, <3>2
    <2>5. PICK pc \in {"kill listener", "clear"} :
            flow' = [flow EXCEPT ![f] = [flow[f] EXCEPT !.clean = clean, !.pc = pc]]
      BY <2>1
    <2> DEFINE r == [flow[f] EXCEPT !.clean = clean, !.pc = pc]
    <2>6. /\ r \in FlowType /\ r.pc = pc /\ r.clean = clean
          /\ r.launch = flow[f].launch /\ r.proc = flow[f].proc
      <3>1. clean \in BOOLEAN /\ pc \in PCs
        BY <1>a DEF PCs
      <3> HIDE DEF clean
      <3> QED  BY <1>0, <3>1 DEF FlowType
    <2>7. clean => flow[f].clean
      OBVIOUS
    <2> HIDE DEF S, clean
    <2>8. flow' = [flow EXCEPT ![f] = r]
      BY <2>5
    <2>9. NoneSpawns
      <3> HIDE DEF r
      <3>1. flow[f].pc \in Following /\ r.pc \in Following
        BY <2>2, <2>6 DEF Following
      <3>2. r.clean => \/ flow[f].pc = "kill listener" /\ flow[f].clean
                       \/ Who(os', flow[f].proc) # Process("wrapper", flow[f].launch)
        BY <2>2, <2>4, <2>6, <2>7
      <3> QED  BY <1>0, <2>2, <2>6, <2>8, <3>1, <3>2, OnwardNoneSpawns
    <2> QED  BY <2>1, <2>2, <2>3, <2>9, SameStateSettles, QuietStep DEF ledger
  <1>3. CASE CleanupEnds(f)
    <2>1. /\ live /\ flow[f].pc = "clear"
          /\ \A g \in Flows \ {f} : flow[g].pc # "spawn"
          /\ Answer(f, FALSE)
          /\ UNCHANGED <<os, retained, launches, first>>
      BY <1>3, InAlone DEF CleanupEnds
    <2>2. NoneSpawns
      BY <1>0, <2>1, AnswerNoneSpawns
    <2>3. CASE NoUpdate
      BY <1>0, <2>1, <2>2, <2>3, NoUpdateWrites, SameStateSettles,
         SameProcesses, QuietStep
    <2>4. CASE /\ flow[f].clean /\ state.launch = flow[f].of
               /\ Update(NoEntry)
      <3>1. state' \in {NoEntry, state} /\ live' = live
        BY <1>0, <2>1, <2>4, UpdateWrites, NothingTyped DEF GatewayInv
      <3>2. Grown \/ state' = NoEntry
        BY <3>1 DEF Grown
      <3>3. Exceptional
        <4>1. At(flow[f].proc) # Process("wrapper", flow[f].launch)
          BY <2>1, <2>4 DEF Ownership, CleanMeansGone
        <4>2. flow[f].launch = state.launch => state.wrapper = flow[f].proc
          BY <2>1 DEF Ownership, FollowsItsOwn, Following
        <4> QED  BY <2>1, <2>4, <4>1, <4>2 DEF Exceptional
      <3> QED  BY <2>1, <2>2, <3>1, <3>2, <3>3, SameProcesses, OwnershipHolds
               DEF Stays
    <2> QED  BY <1>3, <2>3, <2>4 DEF CleanupEnds
  <1> QED  BY <1>1, <1>2, <1>3

LEMMA RecoveryOwns ==
  ASSUME GatewayInv, Ownership,
         \/ Check
         \/ \E f \in {"restart", "recovery"} : Release(f) \/ ReleaseTimesOut(f)
  PROVE  Ownership' /\ Stays
  <1>0. /\ FlowOK /\ BudgetOK /\ {"restart", "recovery"} \subseteq Flows
        /\ state \in Entries
    BY StateTyped DEF GatewayInv, TypeOK, Flows
  <1>1. CASE Check
    <2>1. /\ live /\ flow["recovery"].pc = "check"
          /\ \A g \in Flows \ {"recovery"} : flow[g].pc # "spawn"
          /\ UNCHANGED <<ledger, os, retained, launches>>
      BY <1>0, <1>1, InAlone DEF Check
    <2>2. NoneSpawns
      <3>1. CASE Answer("recovery", TRUE)
        BY <1>0, <2>1, <3>1, AnswerNoneSpawns
      <3>2. CASE flow' = AwaitsRestart
        BY <1>0, <2>1, <3>2, AwaitsRestartLeaves, LeavesNoneSpawns
      <3>3. CASE Goto("recovery", "release")
        BY <1>0, <2>1, <3>3, GotoNoneSpawns DEF PCs, Apart, Following
      <3> QED  BY <1>1, <3>1, <3>2, <3>3 DEF Check
    <2> QED  BY <2>1, <2>2, SameStateSettles, SameProcesses, QuietStep DEF ledger
  <1>2. ASSUME NEW f \in {"restart", "recovery"}, Release(f)
        PROVE  Ownership' /\ Stays
    <2>1. /\ live /\ flow[f].pc = "release"
          /\ \A g \in Flows \ {f} : flow[g].pc # "spawn"
          /\ UNCHANGED <<os, retained, launches, first>>
      BY <1>0, <1>2, InAlone DEF Release
    <2>2. Settles /\ live' = live
      <3>1. CASE NoUpdate
        BY <1>0, <2>1, <3>1, NoUpdateWrites, SameStateSettles
      <3>2. CASE Reconcile(state.launch, FALSE)
        <4>1. state.launch \in Launch
          BY <1>0 DEF Entries
        <4> QED  BY <2>1, <3>2, <4>1, ReconcileSettles
      <3> QED  BY <1>2, <3>1, <3>2 DEF Release
    <2>3. NoneSpawns
      <3>1. CASE UNCHANGED flow
        BY <2>1, <3>1, CalmNoneSpawns
      <3>2. CASE Answer(f, TRUE)
        BY <1>0, <2>1, <3>2, AnswerNoneSpawns
      <3>3. CASE Goto(f, "launch")
        BY <1>0, <2>1, <3>3, GotoNoneSpawns DEF PCs, Apart, Following
      <3>4. CASE flow' = [flow EXCEPT ![f] = [Idle EXCEPT !.pc = "launch"]]
        BY <1>0, <2>1, <3>4, SetNoneSpawns DEF Idle, Apart, Following
      <3> QED  BY <1>2, <3>1, <3>2, <3>3, <3>4 DEF Release, Released, Answer, Goto
    <2> QED  BY <2>1, <2>2, <2>3, SameProcesses, QuietStep
  <1>3. ASSUME NEW f \in {"restart", "recovery"}, ReleaseTimesOut(f)
        PROVE  Ownership' /\ Stays
    <2>1. /\ live /\ flow[f].pc = "release"
          /\ \A g \in Flows \ {f} : flow[g].pc # "spawn"
          /\ UNCHANGED <<ledger, os, retained, launches>>
      BY <1>0, <1>3, InAlone DEF ReleaseTimesOut
    <2>2. NoneSpawns
      <3>1. CASE Goto(f, "restore")
        BY <1>0, <2>1, <3>1, GotoNoneSpawns DEF PCs, Apart, Following
      <3>2. CASE flow' = [flow EXCEPT ![f] = Idle]
        BY <1>0, <2>1, <3>2, SetNoneSpawns DEF Idle, Apart, Following
      <3> QED  BY <1>3, <3>1, <3>2 DEF ReleaseTimesOut
    <2> QED  BY <2>1, <2>2, SameStateSettles, SameProcesses, QuietStep DEF ledger
  <1> QED  BY <1>1, <1>2, <1>3

LEMMA RestartOwns ==
  ASSUME GatewayInv, Ownership, Restarting
  PROVE  Ownership' /\ Stays
  <1>0. WorldOK /\ FlowOK /\ "restart" \in Flows
    BY DEF GatewayInv, TypeOK, Flows
  <1> DEFINE Alone == /\ live
                      /\ \A g \in Flows \ {"restart"} : flow[g].pc # "spawn"
                      /\ UNCHANGED <<retained, launches>>
  <1>1. CASE RestartBegins
    <2>1. Alone /\ UNCHANGED <<ledger, os>>
      BY <1>0, <1>1, InAlone DEF RestartBegins
    <2>2. \E pc \in {"restore", "takeover", "stop"} : \E x :
            flow' = [flow EXCEPT !["restart"] =
                       [[Idle EXCEPT !.launch = child.launch, !.proc = child.pid,
                                     !.candidate = pidfile]
                          EXCEPT !.pc = pc, !.evidence = x]]
      <3> DEFINE before == [Idle EXCEPT !.launch = child.launch, !.proc = child.pid,
                                        !.candidate = pidfile]
                 legacy == ~Unavailable /\ state = NoEntry /\ Alive(pidfile)
      <3>1. before = [before EXCEPT !.evidence = before.evidence]
        BY DEF Idle
      <3>2. CASE legacy /\ blind
        <4>1. flow' = [flow EXCEPT !["restart"] = [before EXCEPT !.pc = "restore"]]
          BY <1>1, <3>2 DEF RestartBegins
        <4>2. [before EXCEPT !.pc = "restore"]
                = [before EXCEPT !.pc = "restore", !.evidence = before.evidence]
          BY DEF Idle
        <4> QED  BY <4>1, <4>2
      <3>3. CASE legacy /\ ~blind
        BY <1>1, <3>3 DEF RestartBegins
      <3>4. CASE ~legacy
        <4>1. flow' = [flow EXCEPT !["restart"] = [before EXCEPT !.pc = "stop"]]
          BY <1>1, <3>4 DEF RestartBegins
        <4>2. [before EXCEPT !.pc = "stop"]
                = [before EXCEPT !.pc = "stop", !.evidence = before.evidence]
          BY DEF Idle
        <4> QED  BY <4>1, <4>2
      <3> QED  BY <3>2, <3>3, <3>4
    <2>3. NoneSpawns
      <3>0. PICK pc \in {"restore", "takeover", "stop"} : \E x :
              flow' = [flow EXCEPT !["restart"] =
                         [[Idle EXCEPT !.launch = child.launch, !.proc = child.pid,
                                       !.candidate = pidfile]
                            EXCEPT !.pc = pc, !.evidence = x]]
        BY <2>2
      <3>a. PICK x :
              flow' = [flow EXCEPT !["restart"] =
                         [[Idle EXCEPT !.launch = child.launch, !.proc = child.pid,
                                       !.candidate = pidfile]
                            EXCEPT !.pc = pc, !.evidence = x]]
        BY <3>0
      <3> DEFINE r == [[Idle EXCEPT !.launch = child.launch, !.proc = child.pid,
                                    !.candidate = pidfile]
                         EXCEPT !.pc = pc, !.evidence = x]
      <3>1. r.pc \notin Apart
        BY DEF Idle, Apart, Following
      <3>2. flow' = [flow EXCEPT !["restart"] = r]
        BY <3>a
      <3> HIDE DEF r
      <3> QED  BY <1>0, <2>1, <3>1, <3>2, SetNoneSpawns
    <2> QED  BY <2>1, <2>3, SameStateSettles, SameProcesses, QuietStep DEF ledger
  <1>2. CASE Takeover
    <2>1. Alone /\ UNCHANGED ledger
      BY <1>0, <1>2, InAlone DEF Takeover
    <2>2. \E pc \in {"stop", "restore"} : Goto("restart", pc)
      BY <1>2 DEF Takeover
    <2>3. NoneSpawns
      BY <1>0, <2>1, <2>2, GotoNoneSpawns DEF PCs, Apart, Following
    <2>4. Alike
      BY <1>0, <1>2, EndedAlike DEF Takeover
    <2> QED  BY <2>1, <2>3, <2>4, SameStateSettles, QuietStep DEF ledger
  <1>3. CASE StopOld
    <2>1. Alone /\ UNCHANGED <<os, first>>
      BY <1>0, <1>3, InAlone DEF StopOld
    <2>2. NoneSpawns
      BY <1>0, <1>3, <2>1, GotoNoneSpawns DEF StopOld, PCs, Apart, Following
    <2>3. Settles /\ live' = live
      BY <1>3, <2>1, StopGatewaySettles DEF StopOld
    <2> QED  BY <2>1, <2>2, <2>3, SameProcesses, QuietStep
  <1>4. CASE Stopped
    <2>1. Alone /\ UNCHANGED <<ledger, os>>
      BY <1>0, <1>4, InAlone DEF Stopped
    <2>2. \E pc \in {"release", "restore"} : Goto("restart", pc)
      BY <1>4 DEF Stopped
    <2>3. NoneSpawns
      BY <1>0, <2>1, <2>2, GotoNoneSpawns DEF PCs, Apart, Following
    <2> QED  BY <2>1, <2>3, SameStateSettles, SameProcesses, QuietStep DEF ledger
  <1>5. CASE Restore \/ RestartFails
    <2>1. Alone /\ UNCHANGED <<ledger, os>> /\ flow' = Restarted(FALSE)
      BY <1>0, <1>5, InAlone DEF Restore, RestartFails
    <2>2. NoneSpawns
      BY <1>0, <2>1, RestartedLeaves, LeavesNoneSpawns
    <2> QED  BY <2>1, <2>2, SameStateSettles, SameProcesses, QuietStep DEF ledger
  <1>6. CASE RestartRetries
    <2>1. Alone /\ UNCHANGED <<os, first>>
      BY <1>0, <1>6, InAlone DEF RestartRetries
    <2>2. NoneSpawns
      BY <1>0, <1>6, <2>1, SetNoneSpawns DEF RestartRetries, Idle, Apart, Following
    <2>3. Settles /\ live' = live
      BY <1>6, <2>1, StopGatewaySettles DEF RestartRetries
    <2> QED  BY <2>1, <2>2, <2>3, SameProcesses, QuietStep
  <1> QED  BY <1>1, <1>2, <1>3, <1>4, <1>5, <1>6 DEF Restarting

LEMMA DrainOwns ==
  ASSUME GatewayInv, Ownership, Draining
  PROVE  Ownership' /\ Stays
  <1>0. WorldOK /\ FlowOK /\ BudgetOK /\ "drain" \in Flows /\ flow["drain"] \in FlowType
    BY DEF GatewayInv, TypeOK, FlowOK, Flows
  <1> DEFINE Alone == /\ live
                      /\ \A g \in Flows \ {"drain"} : flow[g].pc # "spawn"
                      /\ UNCHANGED <<retained, launches>>
             Done(r) == r.pc \notin Apart
  <1>1. Done(Idle)
    BY DEF Idle, Apart, Following
  <1>2. CASE DrainBegins
    <2>1. Alone /\ UNCHANGED <<ledger, os>>
      BY <1>0, <1>2, InAlone DEF DrainBegins
    <2>2. \E r : Done(r) /\ flow' = [flow EXCEPT !["drain"] = r]
      <3> DEFINE tracked == ChildAlive(child)
                 proved == /\ state.wrapper = child.pid
                           /\ Status(Wrapper(state)) = "alive"
                 a == Idle
                 b == [Idle EXCEPT !.pc = "drain wrapper", !.launch = state.launch,
                                   !.proc = child.pid, !.kills = {Wrapper(state)}]
                 c == [Idle EXCEPT !.pc = "drain listener", !.proc = child.pid]
      <3>1. Done(a) /\ Done(b) /\ Done(c)
        BY <1>1 DEF Idle, Apart, Following
      <3>2. flow' = [flow EXCEPT !["drain"] =
              CASE Unavailable \/ (tracked /\ ~proved) -> a
                [] ~Unavailable /\ tracked /\ proved -> b
                [] OTHER -> c]
        BY <1>2 DEF DrainBegins
      <3> HIDE DEF a, b, c, tracked, proved, Done
      <3> QED  BY <3>1, <3>2
    <2>3. NoneSpawns
      BY <1>0, <2>1, <2>2, SetNoneSpawns
    <2> QED  BY <2>1, <2>3, SameStateSettles, SameProcesses, QuietStep DEF ledger
  <1>3. ASSUME NEW t \in flow["drain"].kills, DrainWrapper(t) \/ DrainKill(t)
        PROVE  Ownership' /\ Stays
    <2>1. Alone /\ UNCHANGED ledger
      BY <1>0, <1>3, InAlone DEF DrainWrapper, DrainKill
    <2>2. \/ \E pc \in {"drain listener", "settle"} : Goto("drain", pc)
          \/ flow' = [flow EXCEPT !["drain"] = Idle]
      BY <1>3 DEF DrainWrapper, DrainKill, Goto
    <2>3. NoneSpawns
      <3>1. CASE \E pc \in {"drain listener", "settle"} : Goto("drain", pc)
        BY <1>0, <2>1, <3>1, GotoNoneSpawns DEF PCs, Apart, Following
      <3>2. CASE flow' = [flow EXCEPT !["drain"] = Idle]
        BY <1>0, <1>1, <2>1, <3>2, SetNoneSpawns
      <3> QED  BY <2>2, <3>1, <3>2
    <2>4. Alike
      <3>1. \E S : Killed(S)
        BY <1>3 DEF DrainWrapper, DrainKill
      <3> QED  BY <1>0, <3>1, EndedAlike
    <2> QED  BY <2>1, <2>3, <2>4, SameStateSettles, QuietStep DEF ledger
  <1>4. CASE DrainListener
    <2>1. Alone /\ UNCHANGED <<ledger, os>>
      BY <1>0, <1>4, InAlone DEF DrainListener
    <2>2. \E r : Done(r) /\ flow' = [flow EXCEPT !["drain"] = r]
      <3> DEFINE u == Listener(state)
                 here == [Idle EXCEPT !.launch = state.launch, !.kills = {u},
                                      !.clean = ~Replaced]
                 status == IF u.pid = flow["drain"].proc THEN "dead" ELSE Status(u)
                 a == [here EXCEPT !.pc = "settle"]
                 b == [here EXCEPT !.pc = "drain kill"]
      <3>1. Done(a) /\ Done(b)
        BY DEF Idle, Apart, Following
      <3>2. flow' = [flow EXCEPT !["drain"] =
              CASE status = "dead" -> a [] status = "alive" -> b [] OTHER -> Idle]
        BY <1>4 DEF DrainListener
      <3> HIDE DEF a, b, status, Done
      <3> QED  BY <1>1, <3>1, <3>2
    <2>3. NoneSpawns
      BY <1>0, <2>1, <2>2, SetNoneSpawns
    <2> QED  BY <2>1, <2>3, SameStateSettles, SameProcesses, QuietStep DEF ledger
  <1>5. CASE Settle
    <2>1. Alone /\ UNCHANGED <<os, first>>
      BY <1>0, <1>5, InAlone DEF Settle
    <2>2. NoneSpawns
      BY <1>0, <1>1, <1>5, <2>1, SetNoneSpawns DEF Settle
    <2>3. Settles /\ live' = live
      <3>1. CASE NoUpdate
        BY <1>0, <2>1, <3>1, NoUpdateWrites, SameStateSettles
      <3>2. CASE Reconcile(flow["drain"].launch, FALSE)
        BY <1>0, <2>1, <3>2, ReconcileSettles, FlowFields
      <3> QED  BY <1>5, <3>1, <3>2 DEF Settle
    <2> QED  BY <2>1, <2>2, <2>3, SameProcesses, QuietStep
  <1> QED  BY <1>2, <1>3, <1>4, <1>5 DEF Draining

-----------------------------------------------------------------------------
LEMMA OwnershipInitially == Init => Ownership
  <1> SUFFICES ASSUME Init PROVE Ownership
    OBVIOUS
  <1>1. retained = {} /\ \A f \in Flows : flow[f].pc = "idle"
    BY DEF Init, Idle
  <1> QED  BY <1>1 DEF Ownership, SpawnsAlone, RetainedIsBare, FollowsItsOwn,
                       Following, CleanMeansGone, DownIsIdle

LEMMA OwnershipStep ==
  ASSUME GatewayInv, Ownership, [Next]_vars
  PROVE  Ownership' /\ Stays
  <1>1. CASE UNCHANGED vars
    BY <1>1, SameProcesses, OwnershipUntouched
    DEF vars, ledger, world, memory, history
  <1>2. CASE Start \/ ColdStart \/ Stop \/ \E f \in Flows : Call(f)
    BY <1>2, StartOwns
  <1>3. CASE Machine \/ Callbacks
    BY <1>3, MachineOwns, CallbackOwns
  <1>4. ASSUME NEW f \in Flows \ {"drain"}, Launching(f)
        PROVE  Ownership' /\ Stays
    BY <1>4, LaunchOwns, SpawnOwns, CleanupOwns DEF Launching
  <1>5. CASE Functions
    BY <1>4, <1>5, RecoveryOwns, RestartOwns, DrainOwns DEF Functions
  <1> QED  BY <1>1, <1>2, <1>3, <1>5 DEF Next

(* What is on record follows from what a step may do to it.                *)
LEMMA StaysOwned ==
  ASSUME GatewayInv, Stays
  PROVE  /\ Up /\ Alive(state.listener) /\ At(state.listener) = state.lproof
              => \/ state'.listener = state.listener /\ state'.lproof = state.lproof
                 \/ \E f \in Flows : flow[f].pc = "clear"
                                       /\ flow[f].of = state.launch
         /\ Up /\ At(state.wrapper) = Process("wrapper", state.launch)
              => \/ state'.launch = state.launch /\ state'.wrapper = state.wrapper
                 \/ \E f \in Flows : flow[f].pc = "clear"
                                       /\ flow[f].of # flow[f].launch
  <1>1. ~Alive(NoPid)
    BY DEF Alive, At
  <1>2. CASE Grown
    BY <1>1, <1>2 DEF Grown
  <1>3. CASE Over
    BY <1>3 DEF Over
  <1>4. CASE Exceptional
    BY <1>4 DEF Exceptional
  <1> QED  BY <1>2, <1>3, <1>4 DEF Stays

(* A listener on record stays there while it lives: no deadline, stop,     *)
(* restart, close event or failed write forgets it, but for the last step  *)
(* of a cleanup (hermes.ts, clearCompletedGatewayOwnership and its         *)
(* callers), whatever the number of pids, launches and troubles.           *)
THEOREM ListenersStayOwned ==
  Spec => ListenerStaysOwned
  <1>1. GatewayInv /\ Ownership /\ [Next]_vars
          => /\ GatewayInv' /\ Ownership'
             /\ [Up /\ Alive(state.listener) /\ At(state.listener) = state.lproof
                   => \/ state'.listener = state.listener
                         /\ state'.lproof = state.lproof
                      \/ \E f \in Flows : flow[f].pc = "clear"
                                            /\ flow[f].of = state.launch]_vars
    BY GatewayStep, OwnershipStep, StaysOwned
  <1> QED  BY <1>1, GatewayInitially, OwnershipInitially, PTL
           DEF Spec, ListenerStaysOwned

(* A wrapper on record stays there while it lives, so that the gateway it  *)
(* is about to fork has an owner; but for a cleanup that found the record  *)
(* of another launch (cleanupGatewayLaunch).                               *)
THEOREM WrappersStayOwned ==
  Spec => WrapperStaysOwned
  <1>1. GatewayInv /\ Ownership /\ [Next]_vars
          => /\ GatewayInv' /\ Ownership'
             /\ [Up /\ At(state.wrapper) = Process("wrapper", state.launch)
                   => \/ state'.launch = state.launch
                         /\ state'.wrapper = state.wrapper
                      \/ \E f \in Flows : flow[f].pc = "clear"
                                            /\ flow[f].of # flow[f].launch]_vars
    BY GatewayStep, OwnershipStep, StaysOwned
  <1> QED  BY <1>1, GatewayInitially, OwnershipInitially, PTL
           DEF Spec, WrapperStaysOwned

-----------------------------------------------------------------------------
(* Signals reach our own processes only.                                   *)

\* A stranger has the pid that gateway.pid names, or a function goes by, only
\* while that pid is the listener's on record.
KnownStranger ==
  \A p \in Pids :
    At(p) = Foreign /\ (p = pidfile \/ \E f \in Flows : p = flow[f].candidate)
      => state.listener = p

OwnEntry(e) == e.wproof # Foreign /\ e.lproof # Foreign

\* No record names a stranger, nor will one be read after a crash.
OwnRecords ==
  \A e \in asked \union {state} : OwnEntry(e) /\ e.launch \in 0..launches

\* A stranger whose evidence the adoption timer has read cannot be adopted.
OwnTick ==
  /\ adoption # NoTick => live /\ adoption.launch \in 1..launches
  /\ adoption.evidence = Foreign
       => state.launch # adoption.launch \/ state.listener # NoPid

Killing == {"kill wrapper", "kill listener"}

\* What a function has seen, and is about to kill, is ours.
OwnFlow(r) ==
  /\ r.evidence # Foreign
  /\ \A t \in r.kills : t.proof # Foreign /\ (r.pc \in Killing => t.proof # Nobody)

OwnFlows == \A f \in Flows : OwnFlow(flow[f])

\* While a function waits, no pid it may go by is a stranger's.
WaitsForOwn ==
  \A f \in Flows : flow[f].pc \in Waiting =>
    /\ At(flow[f].proc) # Foreign /\ At(pidfile) # Foreign
    /\ \A g \in Flows : At(flow[g].candidate) # Foreign

OwnEvidence ==
  OwnRecords /\ OwnTick /\ OwnFlows /\ WaitsForOwn /\ OnlyOwnSignalled

-----------------------------------------------------------------------------
(* What a step may do.                                                     *)

\* A write of a record of ours, or none.
Records(v) ==
  /\ OwnEntry(v) /\ v.launch \in 0..launches' /\ launches' \in {launches, launches + 1}
  /\ asked' \subseteq asked \union {v} /\ state' \in {v, state}
  /\ \/ v.launch = 0 \/ v.launch = launches + 1
     \/ v.launch = state.launch /\ (state.listener # NoPid => v.listener # NoPid)

\* The adoption timer goes on, ends, or is armed for the record.
Ticks ==
  /\ live' = live
  /\ \/ adoption' \in {adoption, NoTick}
     \/ /\ live /\ state.launch # 0
        /\ adoption' = [NoTick EXCEPT !.launch = state.launch]

Fresh(r) ==
  r.candidate = NoPid /\ r.evidence = Nobody /\ r.kills = {} /\ r.pc \notin Waiting

GoesOn(f) ==
  /\ OwnFlow(flow'[f])
  /\ flow'[f].candidate \in {flow[f].candidate, NoPid, pidfile}
  /\ flow'[f].pc \in Waiting
       => flow[f].pc \in Waiting /\ flow'[f].proc = flow[f].proc

Continues ==
  \A f \in Flows : flow'[f] = flow[f] \/ Fresh(flow'[f]) \/ GoesOn(f)

\* Nobody becomes a stranger.
NoStranger == \A p \in Pid : Who(os', p) = Foreign => At(p) = Foreign

Pointed ==
  \/ pidfile' \in {pidfile, NoPid}
  \/ Who(os', pidfile') # Foreign
  \/ \E f \in Flows : pidfile' = flow[f].candidate

LEMMA Persons ==
  /\ Nobody # Foreign /\ Legacy # Foreign
  /\ \A role \in {"wrapper", "listener"}, l \in Launch : Process(role, l) # Foreign
  /\ At(NoPid) = Nobody
  BY DEF Nobody, Legacy, Foreign, Process, At

LEMMA RecordsStep ==
  ASSUME OwnRecords, launches \in Nat, NEW v, Records(v)
  PROVE  OwnRecords'
  <1>1. ASSUME NEW e \in asked' \union {state'}
        PROVE  OwnEntry(e) /\ e.launch \in 0..launches'
    <2>1. e = v \/ e \in asked \union {state}
      BY <1>1 DEF Records
    <2>2. CASE e = v  BY <2>2 DEF Records
    <2>3. CASE e \in asked \union {state}
      BY <2>3 DEF Records, OwnRecords
    <2> QED  BY <2>1, <2>2, <2>3
  <1> QED  BY <1>1 DEF OwnRecords, OwnEntry

LEMMA TicksStep ==
  ASSUME OwnRecords, OwnTick, launches \in Nat, NEW v, Records(v), Ticks
  PROVE  OwnTick'
  <1>1. NoTick.evidence # Foreign
        /\ \A l : [NoTick EXCEPT !.launch = l].evidence # Foreign
        /\ \A m : [NoTick EXCEPT !.launch = m].launch = m
    BY Persons DEF NoTick
  <1>2. adoption' # NoTick => live' /\ adoption'.launch \in 1..launches'
    <2>1. state.launch \in 0..launches
      BY DEF OwnRecords
    <2>2. CASE adoption' = adoption
      BY <2>2 DEF OwnTick, Ticks, Records
    <2>3. CASE live /\ state.launch # 0
               /\ adoption' = [NoTick EXCEPT !.launch = state.launch]
      BY <1>1, <2>1, <2>3 DEF Ticks, Records
    <2> QED  BY <2>2, <2>3 DEF Ticks
  <1>3. ASSUME adoption'.evidence = Foreign
        PROVE  state'.launch # adoption'.launch \/ state'.listener # NoPid
    <2>1. adoption' = adoption /\ adoption # NoTick
      BY <1>1, <1>3 DEF Ticks
    <2>2. adoption.launch \in 1..launches
      BY <2>1 DEF OwnTick
    <2>3. state.launch # adoption.launch \/ state.listener # NoPid
      BY <1>3, <2>1 DEF OwnTick
    <2> QED  BY <2>1, <2>2, <2>3 DEF Records
  <1> QED  BY <1>2, <1>3 DEF OwnTick

LEMMA FlowsStep ==
  ASSUME OwnFlows, Continues
  PROVE  OwnFlows'
  BY Persons DEF OwnFlows, Continues, Fresh, GoesOn, OwnFlow

LEMMA WaitsStep ==
  ASSUME WaitsForOwn, FlowOK, pidfile \in Pid, Continues, NoStranger, Pointed
  PROVE  WaitsForOwn'
  <1>1. ASSUME NEW f \in Flows, flow'[f].pc \in Waiting
        PROVE  /\ Who(os', flow'[f].proc) # Foreign /\ Who(os', pidfile') # Foreign
               /\ \A g \in Flows : Who(os', flow'[g].candidate) # Foreign
    <2>1. flow[f].pc \in Waiting /\ flow'[f].proc = flow[f].proc
      BY <1>1 DEF Continues, Fresh, GoesOn
    <2>2. /\ At(flow[f].proc) # Foreign /\ At(pidfile) # Foreign
          /\ \A g \in Flows : At(flow[g].candidate) # Foreign
      BY <2>1 DEF WaitsForOwn
    <2>3. \A g \in Flows : flow[g].candidate \in Pid /\ flow[g].proc \in Pid
      BY FlowFields DEF FlowOK
    <2>4. Who(os', NoPid) # Foreign
      BY Persons DEF Who
    <2>5. ASSUME NEW p \in Pid, At(p) # Foreign
          PROVE  Who(os', p) # Foreign
      BY <2>5 DEF NoStranger
    <2>6. Who(os', pidfile) # Foreign /\ \A g \in Flows : Who(os', flow[g].candidate) # Foreign
      BY <2>2, <2>3, <2>5
    <2>7. \A g \in Flows : flow'[g].candidate \in {flow[g].candidate, NoPid, pidfile}
      BY DEF Continues, Fresh, GoesOn
    <2> QED  BY <2>1, <2>2, <2>3, <2>4, <2>5, <2>6, <2>7 DEF Pointed
  <1> QED  BY <1>1 DEF WaitsForOwn, At, Who

\* A step that does no more than these keeps everything ours.
LEMMA OwnStep ==
  ASSUME GatewayInv, OwnEvidence, NEW v, Records(v), Ticks, Continues, NoStranger,
         Pointed, ~foul'
  PROVE  OwnEvidence'
  <1>1. launches \in Nat /\ FlowOK /\ pidfile \in Pid
    BY DEF GatewayInv, TypeOK, BudgetOK, WorldOK
  <1> QED  BY <1>1, RecordsStep, TicksStep, FlowsStep, WaitsStep
           DEF OwnEvidence, OnlyOwnSignalled

-----------------------------------------------------------------------------
(* Parts of steps. The targets of a record of ours are ours.               *)

LEMMA OwnNothing ==
  /\ OwnEntry(NoEntry) /\ NoEntry.launch = 0 /\ NoEntry.listener = NoPid
  /\ \A r \in BOOLEAN : \A pc : pc \notin Waiting =>
       /\ Fresh([Idle EXCEPT !.pc = pc])
       /\ Fresh([Idle EXCEPT !.pc = pc, !.retried = r])
  /\ Fresh(Idle)
  BY Persons DEF OwnEntry, NoEntry, Fresh, Idle, Waiting

LEMMA OwnTargets ==
  ASSUME NEW e, OwnEntry(e)
  PROVE  Wrapper(e).proof # Foreign /\ Listener(e).proof # Foreign
  BY Persons DEF OwnEntry, Wrapper, Listener, Target

LEMMA OwnAlive ==
  ASSUME NEW t, t.proof # Foreign, Status(t) = "alive"
  PROVE  At(t.pid) # Foreign
  BY DEF Status

LEMMA SignalsOwn ==
  ASSUME ~foul, NEW S, Signals(S), \A p \in S : At(p) # Foreign
  PROVE  ~foul'
  BY DEF Signals

LEMMA NoWrite ==
  ASSUME OwnRecords, launches \in Nat, UNCHANGED <<state, asked, launches>>
  PROVE  Records(state)
  BY DEF Records, OwnRecords

LEMMA SpendAsks ==
  ASSUME NEW v, NEW b, Spend(v, b)
  PROVE  /\ asked' \subseteq asked \union {v} /\ state' \in {v, state}
         /\ live /\ live' = live
  BY DEF Spend, Ends, Undisturbed, Ending

LEMMA RecordWritten ==
  ASSUME OwnRecords, launches \in Nat, UNCHANGED launches,
         NEW v, OwnEntry(v), NEW b, Spend(v, b),
         \/ v.launch = 0
         \/ v.launch = state.launch /\ (state.listener # NoPid => v.listener # NoPid)
  PROVE  Records(v) /\ live' = live
  <1>1. /\ asked' \subseteq asked \union {v} /\ state' \in {v, state}
        /\ live' = live
    BY SpendAsks
  <1>2. v.launch \in 0..launches'
    BY DEF OwnRecords
  <1> QED  BY <1>1, <1>2 DEF Records

LEMMA RecordForgotten ==
  ASSUME OwnRecords, launches \in Nat, UNCHANGED launches, Update(NoEntry)
  PROVE  Records(NoEntry) /\ live' = live
  <1>1. OwnEntry(NoEntry) /\ NoEntry.launch = 0
    BY OwnNothing
  <1> QED  BY <1>1, RecordWritten DEF Update

LEMMA NoUpdateRecords ==
  ASSUME OwnRecords, launches \in Nat, UNCHANGED launches, NoUpdate
  PROVE  Records(state) /\ live' = live
  BY NoWrite DEF NoUpdate, ledger

LEMMA ReconcileOwn ==
  ASSUME OwnRecords, launches \in Nat, UNCHANGED launches, live,
         NEW l, NEW clean, Reconcile(l, clean)
  PROVE  /\ Records(NoEntry) \/ Records(state)
         /\ Ticks /\ pidfile' \in {pidfile, NoPid}
  <1>1. CASE /\ Completed(l) /\ adoption' = [NoTick EXCEPT !.launch = l]
             /\ NoUpdate /\ UNCHANGED pidfile
    BY <1>1, NoUpdateRecords DEF Ticks, Completed
  <1>2. CASE ClearRecord /\ UNCHANGED adoption
    BY <1>2, RecordForgotten DEF Ticks, ClearRecord, ClearPidFile
  <1>3. CASE NoUpdate /\ UNCHANGED <<pidfile, adoption>>
    BY <1>3, NoUpdateRecords DEF Ticks
  <1> QED  BY <1>1, <1>2, <1>3 DEF Reconcile

LEMMA StopGatewayOwn ==
  ASSUME OwnRecords, launches \in Nat, UNCHANGED launches, ~foul, StopGateway
  PROVE  /\ Records(NoEntry) \/ Records(state)
         /\ Ticks /\ pidfile' \in {pidfile, NoPid} /\ ~foul'
  <1> DEFINE wrapper == Wrapper(state)
             listener == Listener(state)
             tracked == ChildAlive(child) /\ Status(wrapper) = "alive"
             hits == (IF tracked THEN {wrapper.pid} ELSE {}) \union
                     (IF listener.pid # child.pid /\ Status(listener) = "alive"
                        THEN {listener.pid} ELSE {})
  <1>1. \A p \in hits : At(p) # Foreign
    BY OwnTargets, OwnAlive DEF OwnRecords
  <1> HIDE DEF hits
  <1>2. UNCHANGED foul \/ Signals(hits)
    BY DEF StopGateway, hits
  <1>3. ~foul'
    BY <1>1, <1>2, SignalsOwn
  <1>4. /\ adoption' \in {adoption, NoTick}
        /\ \/ NoUpdate /\ pidfile' \in {pidfile, NoPid}
           \/ ClearRecord
    BY DEF StopGateway
  <1>5. CASE NoUpdate /\ pidfile' \in {pidfile, NoPid}
    BY <1>3, <1>4, <1>5, NoUpdateRecords DEF Ticks
  <1>6. CASE ClearRecord
    BY <1>3, <1>4, <1>6, RecordForgotten DEF Ticks, ClearRecord, ClearPidFile
  <1> QED  BY <1>4, <1>5, <1>6

LEMMA SameFlows == UNCHANGED flow => Continues
  BY DEF Continues

LEMMA SamePeople == UNCHANGED os => NoStranger
  BY DEF NoStranger, At, Who

LEMMA EndedNoStranger ==
  ASSUME NEW S, Ended(S) \/ Killed(S)
  PROVE  NoStranger
  <1>1. PICK T \in SUBSET Children(S) :
          os' = [p \in Pids |-> IF p \in S \union T THEN New(Nobody) ELSE os[p]]
    BY DEF Ended, Killed
  <1>2. \A p \in Pids : os'[p].who \in {Nobody, os[p].who}
    BY <1>1 DEF New
  <1> QED  BY <1>2, Persons DEF NoStranger, At, Who, Pid

LEMMA SetContinues ==
  ASSUME FlowOK, NEW f \in Flows, NEW r, flow' = [flow EXCEPT ![f] = r],
         \/ r = flow[f] \/ Fresh(r)
         \/ /\ OwnFlow(r) /\ r.candidate \in {flow[f].candidate, NoPid, pidfile}
            /\ r.pc \in Waiting => flow[f].pc \in Waiting /\ r.proc = flow[f].proc
  PROVE  Continues
  BY DEF Continues, GoesOn, FlowOK

LEMMA GotoContinues ==
  ASSUME FlowOK, OwnFlows, NEW f \in Flows, NEW pc,
         pc \in Waiting => flow[f].pc \in Waiting, pc \notin Killing, Goto(f, pc)
  PROVE  Continues
  <1>1. flow[f] \in FlowType /\ OwnFlow(flow[f])
    BY DEF FlowOK, OwnFlows
  <1> DEFINE r == [flow[f] EXCEPT !.pc = pc]
  <1>2. /\ r.candidate = flow[f].candidate /\ r.pc = pc /\ r.proc = flow[f].proc
        /\ r.evidence = flow[f].evidence /\ r.kills = flow[f].kills
    BY <1>1 DEF FlowType
  <1>3. flow' = [flow EXCEPT ![f] = r]
    BY DEF Goto
  <1> HIDE DEF r
  <1>4. OwnFlow(r)
    BY <1>1, <1>2 DEF OwnFlow
  <1> QED  BY <1>2, <1>3, <1>4, SetContinues

LEMMA RestartedContinues ==
  ASSUME FlowOK, NEW ok, flow' = Restarted(ok)
  PROVE  Continues
  BY OwnNothing DEF FlowOK, Continues, Restarted, Waiting

LEMMA AwaitsRestartContinues ==
  ASSUME FlowOK, flow' = AwaitsRestart
  PROVE  Continues
  BY OwnNothing DEF FlowOK, Continues, AwaitsRestart, Waiting

LEMMA AnswerContinues ==
  ASSUME FlowOK, NEW f \in Flows, NEW ok, flow' = Answers(f, ok)
  PROVE  Continues
  <1>1. CASE f = "restart" /\ ok
    BY <1>1, RestartedContinues DEF Answers
  <1>2. CASE f = "restart" /\ ~ok
    <2>1. flow' = [flow EXCEPT ![f] = [Idle EXCEPT !.pc = "failed",
                                                   !.retried = flow[f].retried]]
      BY <1>2 DEF Answers
    <2>2. Fresh([Idle EXCEPT !.pc = "failed", !.retried = flow[f].retried])
      BY OwnNothing, FlowFields DEF FlowOK, Waiting
    <2> QED  BY <2>1, <2>2, SetContinues
  <1>3. CASE f = "recovery" /\ ~ok
    BY <1>3, AwaitsRestartContinues DEF Answers
  <1>4. CASE f # "restart" /\ ~(f = "recovery" /\ ~ok)
    <2>1. flow' = [flow EXCEPT ![f] = Idle]
      BY <1>4 DEF Answers
    <2> QED  BY <2>1, OwnNothing, SetContinues
  <1> QED  BY <1>1, <1>2, <1>3, <1>4

-----------------------------------------------------------------------------
(* Every action.                                                           *)

LEMMA OwnFacts ==
  ASSUME GatewayInv, OwnEvidence
  PROVE  /\ OwnRecords /\ OwnTick /\ OwnFlows /\ WaitsForOwn /\ ~foul
         /\ launches \in Nat /\ WorldOK /\ FlowOK /\ state \in Entries
         /\ OwnEntry(state) /\ state.launch \in 0..launches
  BY StateTyped DEF GatewayInv, TypeOK, BudgetOK, OwnEvidence, OnlyOwnSignalled,
                    OwnRecords

(* A step that leaves the app's own state alone.                           *)
LEMMA OutsideOwn ==
  ASSUME GatewayInv, OwnEvidence, NoStranger, Pointed,
         UNCHANGED <<state, asked, launches, live, adoption, flow, foul>>
  PROVE  OwnEvidence'
  <1>1. Records(state)
    BY OwnFacts, NoWrite
  <1>2. Ticks /\ Continues /\ ~foul'
    BY OwnFacts, SameFlows DEF Ticks
  <1> QED  BY <1>1, <1>2, OwnStep

LEMMA MachineOwn ==
  ASSUME GatewayInv, OwnEvidence, Machine
  PROVE  OwnEvidence'
  <1>0. WorldOK
    BY OwnFacts
  <1>1. ASSUME NEW p \in Pids, NEW q \in Pids, Fork(p, q)
        PROVE  OwnEvidence'
    <2>1. NoStranger
      <3>1. \A r \in Pids :
              os'[r].who \in {os[r].who, Process("listener", At(p).launch)}
        BY <1>0, <1>1 DEF Fork, WorldOK, New
      <3>2. Process("listener", At(p).launch) # Foreign
        BY DEF Process, Foreign
      <3> QED  BY <3>1, <3>2, Persons DEF NoStranger, At, Who, Pid
    <2> QED  BY <1>1, <2>1, OutsideOwn DEF Fork, ledger, Pointed
  <1>2. ASSUME NEW p \in Pids, Publish(p)
        PROVE  OwnEvidence'
    <2>1. \A r \in Pids : os'[r].who = os[r].who
      BY <1>0, <1>2 DEF Publish, WorldOK
    <2>2. NoStranger
      BY <2>1, Persons DEF NoStranger, At, Who, Pid
    <2>3. At(p) # Foreign /\ p \in Pid
      BY <1>2, PidTyped DEF Publish, Foreign
    <2>4. Pointed
      BY <1>2, <2>2, <2>3 DEF Publish, Pointed, NoStranger
    <2> QED  BY <1>2, <2>2, <2>4, OutsideOwn DEF Publish, ledger
  <1>3. ASSUME NEW p \in Pids, Exits(p)
        PROVE  OwnEvidence'
    <2>1. NoStranger
      <3>1. \A r \in Pids : os'[r].who \in {os[r].who, Nobody}
        BY <1>0, <1>3 DEF Exits, WorldOK, New
      <3> QED  BY <3>1, Persons DEF NoStranger, At, Who, Pid
    <2>2. Pointed
      BY <1>3 DEF Exits, Pointed
    <2> QED  BY <1>3, <2>1, <2>2, OutsideOwn DEF Exits, ledger
  <1>4. ASSUME NEW p \in Pids, Reuse(p)
        PROVE  OwnEvidence'
    <2>1. /\ UNCHANGED <<ledger, adoption, flow, pidfile, launches, foul>>
          /\ \A r \in Pid \ {p} : Who(os', r) = At(r)
      BY <1>0, <1>4 DEF Reuse, WorldOK, At, Who, Pid
    <2>2. OwnRecords' /\ OwnTick' /\ OwnFlows' /\ ~foul'
      BY <2>1, OwnFacts DEF OwnRecords, OwnTick, OwnFlows, ledger
    <2>3. WaitsForOwn'
      <3>1. ASSUME NEW f \in Flows, flow[f].pc \in Waiting
            PROVE  /\ Who(os', flow[f].proc) # Foreign /\ Who(os', pidfile) # Foreign
                   /\ \A g \in Flows : Who(os', flow[g].candidate) # Foreign
        <4>1. /\ p # flow[f].proc /\ p # pidfile
              /\ \A g \in Flows : p # flow[g].candidate
          BY <1>4, <3>1 DEF Reuse, Unproven
        <4>2. /\ At(flow[f].proc) # Foreign /\ At(pidfile) # Foreign
              /\ \A g \in Flows : At(flow[g].candidate) # Foreign
          BY <3>1, OwnFacts DEF WaitsForOwn
        <4>3. /\ pidfile \in Pid /\ flow[f].proc \in Pid
              /\ \A g \in Flows : flow[g].candidate \in Pid
          BY <1>0, OwnFacts, FlowFields DEF FlowOK, WorldOK
        <4> QED  BY <2>1, <4>1, <4>2, <4>3
      <3> QED  BY <2>1, <3>1 DEF WaitsForOwn, At, Who
    <2> QED  BY <2>2, <2>3 DEF OwnEvidence, OnlyOwnSignalled
  <1>5. CASE Blind \/ Sight
    <2>1. UNCHANGED <<state, asked, launches, live, adoption, flow, foul, os, pidfile>>
      BY <1>5 DEF Blind, Sight, ledger
    <2> QED  BY <2>1, SamePeople, OutsideOwn DEF Pointed
  <1>6. CASE Crash
    <2>1. /\ UNCHANGED <<state, asked, launches, foul>>
          /\ adoption' = NoTick /\ flow' = [f \in Flows |-> Idle]
      BY <1>6 DEF Crash, Die
    <2>2. OwnRecords' /\ ~foul'
      BY <2>1, OwnFacts DEF OwnRecords
    <2>3. OwnTick'
      BY <2>1, Persons DEF OwnTick, NoTick
    <2>4. OwnFlows' /\ WaitsForOwn'
      BY <2>1, OwnNothing, Persons DEF OwnFlows, WaitsForOwn, OwnFlow, Fresh
    <2> QED  BY <2>2, <2>3, <2>4 DEF OwnEvidence, OnlyOwnSignalled
  <1> QED  BY <1>1, <1>2, <1>3, <1>4, <1>5, <1>6 DEF Machine

LEMMA StartOwn ==
  ASSUME GatewayInv, Ownership, OwnEvidence,
         Start \/ ColdStart \/ Stop \/ \E f \in Flows : Call(f)
  PROVE  OwnEvidence'
  <1>1. CASE Start
    <2>1. /\ ~live /\ live' /\ state' = Read(files) /\ asked' = {}
          /\ UNCHANGED <<os, pidfile, adoption, flow, launches, foul>>
      BY <1>1 DEF Start, Load
    <2>2. Read(files) \in asked \union {state}
      BY DEF GatewayInv, LedgerInv, Durable
    <2>3. OwnRecords' /\ ~foul'
      BY <2>1, <2>2, OwnFacts DEF OwnRecords
    <2>4. adoption = NoTick
      BY <2>1, OwnFacts DEF OwnTick
    <2>5. OwnTick'
      BY <2>1, <2>4, Persons DEF OwnTick, NoTick
    <2>6. OwnFlows'
      BY <2>1, OwnFacts DEF OwnFlows
    <2>7. \A f \in Flows : flow[f].pc \notin Waiting
      BY <2>1 DEF Ownership, DownIsIdle, Waiting
    <2>8. WaitsForOwn'
      BY <2>1, <2>7 DEF WaitsForOwn
    <2> QED  BY <2>3, <2>5, <2>6, <2>8 DEF OwnEvidence, OnlyOwnSignalled
  <1>2. CASE ColdStart
    <2>1. /\ UNCHANGED <<os, adoption, flow, launches>> /\ live
      BY <1>2 DEF ColdStart
    <2>2. CASE /\ Update(NoEntry) /\ UNCHANGED foul
               /\ \/ UNCHANGED pidfile
                  \/ \E p \in {state.listener, state.wrapper} : ClearPidFile(p)
      <3>1. Records(NoEntry) /\ live' = live
        BY <2>1, <2>2, OwnFacts, RecordForgotten
      <3>2. Pointed
        BY <2>2 DEF Pointed, ClearPidFile
      <3> QED  BY <2>1, <2>2, <3>1, <3>2, OwnFacts, OwnStep, SameFlows, SamePeople
               DEF Ticks
    <2>3. CASE NoUpdate /\ UNCHANGED pidfile /\ (UNCHANGED foul \/ (Ours /\ Signals({pidfile})))
      <3>1. Records(state) /\ live' = live
        BY <2>1, <2>3, OwnFacts, NoUpdateRecords
      <3>2. Ours => At(pidfile) # Foreign
        BY OwnFacts, OwnTargets, OwnAlive DEF Ours
      <3>3. ~foul'
        BY <2>3, <3>2, OwnFacts, SignalsOwn
      <3> QED  BY <2>1, <2>3, <3>1, <3>3, OwnFacts, OwnStep, SameFlows, SamePeople
               DEF Ticks, Pointed
    <2> QED  BY <1>2, <2>2, <2>3 DEF ColdStart
  <1>3. CASE Stop
    <2>1. UNCHANGED <<os, flow, launches>> /\ StopGateway
      BY <1>3 DEF Stop
    <2>2. /\ Records(NoEntry) \/ Records(state)
          /\ Ticks /\ pidfile' \in {pidfile, NoPid} /\ ~foul'
      BY <2>1, OwnFacts, StopGatewayOwn
    <2> QED  BY <2>1, <2>2, OwnStep, SameFlows, SamePeople DEF Pointed
  <1>4. ASSUME NEW f \in Flows, Call(f)
        PROVE  OwnEvidence'
    <2>1. UNCHANGED <<ledger, os, pidfile, adoption, launches, foul>>
      BY <1>4 DEF Call
    <2>2. Continues
      <3>1. \E pc : pc \notin Waiting \union Killing /\ Goto(f, pc)
        BY <1>4 DEF Call, Flows, Waiting, Killing
      <3> QED  BY <3>1, OwnFacts, GotoContinues
    <2>3. Records(state) /\ Ticks /\ ~foul'
      BY <2>1, OwnFacts, NoWrite DEF Ticks, ledger
    <2> QED  BY <2>1, <2>2, <2>3, OwnStep, SamePeople DEF Pointed
  <1> QED  BY <1>1, <1>2, <1>3, <1>4

LEMMA TargetsOwn ==
  ASSUME OwnEntry(state), NEW t \in Targets
  PROVE  t.proof # Foreign
  <1>1. t \in {Wrapper(state), Listener(state)} \/ t = Target(term.proc, Nobody)
    BY DEF Targets
  <1>2. Target(term.proc, Nobody).proof # Foreign
    BY Persons DEF Target
  <1> QED  BY <1>1, <1>2, OwnTargets

LEMMA AdoptedOwn ==
  ASSUME state \in Entries, OwnEntry(state), NEW x, x # Foreign, Adoptable(state, x)
  PROVE  /\ OwnEntry(Adopted(state, x))
         /\ Adopted(state, x).launch = state.launch
         /\ Adopted(state, x).listener # NoPid
  BY DEF Entries, OwnEntry, Adopted, Adoptable

LEMMA CallbackOwn ==
  ASSUME GatewayInv, OwnEvidence, KnownStranger, Callbacks
  PROVE  OwnEvidence'
  <1>1. ASSUME NEW c \in closing, Closed(c)
        PROVE  OwnEvidence'
    <2>1. live /\ UNCHANGED <<os, flow, launches, foul>>
      BY <1>1 DEF Closed, Free, Up
    <2>2. CASE Reconcile(c.launch, c.clean)
      <3>1. /\ Records(NoEntry) \/ Records(state)
            /\ Ticks /\ pidfile' \in {pidfile, NoPid}
        BY <2>1, <2>2, OwnFacts, ReconcileOwn
      <3> QED  BY <2>1, <3>1, OwnFacts, OwnStep, SameFlows, SamePeople DEF Pointed
    <2>3. CASE /\ Update(NoEntry) \/ NoUpdate
               /\ ClearPidFile(c.pid) /\ UNCHANGED adoption
      <3>1. (Records(NoEntry) \/ Records(state)) /\ live' = live
        BY <2>1, <2>3, OwnFacts, RecordForgotten, NoUpdateRecords
      <3>2. Pointed /\ Ticks
        BY <2>3, <3>1 DEF Pointed, ClearPidFile, Ticks
      <3> QED  BY <2>1, <3>1, <3>2, OwnFacts, OwnStep, SameFlows, SamePeople
    <2> QED  BY <1>1, <2>2, <2>3 DEF Closed
  <1>2. CASE Terminate
    <2>1. UNCHANGED <<adoption, flow, launches>>
      BY <1>2 DEF Terminate
    <2>2. CASE NoUpdate /\ UNCHANGED <<os, pidfile, foul>>
      <3>1. Records(state) /\ live' = live
        BY <2>1, <2>2, OwnFacts, NoUpdateRecords
      <3> QED  BY <2>1, <2>2, <3>1, OwnFacts, OwnStep, SameFlows, SamePeople
               DEF Pointed, Ticks
    <2>3. CASE ClearRecord /\ UNCHANGED <<os, foul>>
      <3>1. Records(NoEntry) /\ live' = live
        BY <2>1, <2>3, OwnFacts, RecordForgotten DEF ClearRecord
      <3>2. Pointed
        BY <2>3 DEF Pointed, ClearRecord, ClearPidFile
      <3> QED  BY <2>1, <2>3, <3>1, <3>2, OwnFacts, OwnStep, SameFlows, SamePeople
               DEF Ticks
    <2>4. CASE /\ NoUpdate /\ UNCHANGED pidfile
               /\ \E S \in SUBSET {t \in Targets : Status(t) = "alive"} :
                    Killed({t.pid : t \in S})
      <3>1. PICK S \in SUBSET {t \in Targets : Status(t) = "alive"} :
              Killed({t.pid : t \in S})
        BY <2>4
      <3>2. \A p \in {t.pid : t \in S} : At(p) # Foreign
        BY OwnFacts, TargetsOwn, OwnAlive
      <3>3. Signals({t.pid : t \in S}) /\ NoStranger
        BY <3>1, EndedNoStranger DEF Killed
      <3>4. ~foul'
        BY <3>2, <3>3, OwnFacts, SignalsOwn
      <3>5. Records(state) /\ live' = live
        BY <2>1, <2>4, OwnFacts, NoUpdateRecords
      <3> QED  BY <2>1, <2>4, <3>3, <3>4, <3>5, OwnFacts, OwnStep, SameFlows
               DEF Pointed, Ticks
    <2>5. \/ NoUpdate /\ UNCHANGED <<os, pidfile, foul>>
          \/ ClearRecord /\ UNCHANGED <<os, foul>>
          \/ /\ NoUpdate /\ UNCHANGED pidfile
             /\ \E S \in SUBSET {t \in Targets : Status(t) = "alive"} :
                  Killed({t.pid : t \in S})
      <3> DEFINE alive == {t \in Targets : Status(t) = "alive"}
                 kills == IF ~term.force THEN {}
                          ELSE {t \in alive : t.pid \in {state.wrapper, pidfile}}
      <3>1. kills \in SUBSET alive
        OBVIOUS
      <3> HIDE DEF kills
      <3>2. \/ NoUpdate /\ UNCHANGED <<os, pidfile, foul>>
            \/ ClearRecord /\ UNCHANGED <<os, foul>>
            \/ NoUpdate /\ UNCHANGED pidfile /\ Killed({t.pid : t \in kills})
        BY <1>2 DEF Terminate, kills
      <3> QED  BY <3>1, <3>2
    <2> QED  BY <2>2, <2>3, <2>4, <2>5
  <1>3. CASE AdoptionTick
    <2>1. /\ UNCHANGED <<state, asked, live, os, pidfile, flow, launches, foul>>
          /\ live /\ adoption # NoTick
      BY <1>3 DEF AdoptionTick, Free, Up, ledger
    <2>2. OwnRecords' /\ ~foul'
      BY <2>1, OwnFacts DEF OwnRecords
    <2>3. OwnFlows' /\ WaitsForOwn'
      BY <2>1, OwnFacts DEF OwnFlows, WaitsForOwn, At
    <2>4. OwnTick'
      <3>1. CASE adoption' = NoTick
        BY <2>1, <3>1, Persons DEF OwnTick, NoTick
      <3>2. CASE /\ state.launch = adoption.launch /\ pidfile # NoPid
                 /\ adoption' = [adoption EXCEPT !.probing = TRUE,
                                                 !.evidence = At(pidfile)]
        <4>1. adoption'.launch = adoption.launch /\ adoption'.evidence = At(pidfile)
          BY <3>2 DEF GatewayInv, TypeOK, MemoryOK, TickType
        <4>2. At(pidfile) = Foreign => state.listener # NoPid
          BY <3>2, OwnFacts DEF KnownStranger, WorldOK, Pid
        <4>3. adoption.launch \in 1..launches
          BY <2>1, OwnFacts DEF OwnTick
        <4> QED  BY <2>1, <4>1, <4>2, <4>3 DEF OwnTick
      <3> QED  BY <1>3, <3>1, <3>2 DEF AdoptionTick
    <2> QED  BY <2>2, <2>3, <2>4 DEF OwnEvidence, OnlyOwnSignalled
  <1>4. CASE AdoptionProbed
    <2> DEFINE current == state.launch = adoption.launch
               new == Adopted(state, adoption.evidence)
    <2>1. /\ UNCHANGED <<os, pidfile, flow, launches, foul>> /\ live
          /\ adoption # NoTick
      BY <1>4 DEF AdoptionProbed, Free, Up, NoTick
    <2>2. /\ state.launch # 0 \/ ~current
      BY <2>1, OwnFacts DEF OwnTick
    <2>3. (\E v : Records(v)) /\ live' = live
      <3>1. CASE NoUpdate
        BY <2>1, <3>1, OwnFacts, NoUpdateRecords
      <3>2. CASE current /\ Adoptable(state, adoption.evidence) /\ Update(new)
        <4>1. adoption.evidence # Foreign
          <5>. SUFFICES ASSUME adoption.evidence = Foreign PROVE FALSE
            OBVIOUS
          <5>1. state.listener # NoPid
            BY <3>2, OwnFacts DEF OwnTick
          <5>2. state.lproof = Foreign
            BY <3>2, <5>1 DEF Adoptable
          <5> QED  BY <5>2, OwnFacts DEF OwnEntry
        <4>2. OwnEntry(new) /\ new.launch = state.launch /\ new.listener # NoPid
          BY <3>2, <4>1, OwnFacts, AdoptedOwn
        <4> HIDE DEF new
        <4>3. Records(new) /\ live' = live
          BY <2>1, <3>2, <4>2, OwnFacts, RecordWritten DEF Update
        <4> QED  BY <4>3
      <3> QED  BY <1>4, <3>1, <3>2 DEF AdoptionProbed
    <2>4. Ticks
      BY <1>4, <2>1, <2>2, <2>3 DEF AdoptionProbed, Ticks
    <2> QED  BY <2>1, <2>3, <2>4, OwnFacts, OwnStep, SameFlows, SamePeople DEF Pointed
  <1> QED  BY <1>1, <1>2, <1>3, <1>4 DEF Callbacks

LEMMA LaunchOwn ==
  ASSUME GatewayInv, Ownership, OwnEvidence, KnownStranger, NEW f \in Flows,
         \/ LaunchRefused(f) \/ BeginLaunch(f) \/ SpawnFails(f)
         \/ Look(f) \/ Probed(f) \/ Judge(f) \/ Adopt(f)
  PROVE  OwnEvidence'
  <1>0. flow[f] \in FlowType /\ OwnFlow(flow[f])
    BY OwnFacts DEF FlowOK, OwnFlows
  <1>1. CASE LaunchRefused(f)
    <2>1. UNCHANGED <<state, asked, live, os, pidfile, adoption, launches, foul>>
      BY <1>1 DEF LaunchRefused, ledger
    <2>2. Continues
      BY <1>1, OwnFacts, AnswerContinues DEF LaunchRefused, Answer
    <2>3. Records(state)
      BY <2>1, OwnFacts, NoWrite
    <2> QED  BY <2>1, <2>2, <2>3, OwnFacts, OwnStep, SamePeople DEF Ticks, Pointed
  <1>2. CASE BeginLaunch(f)
    <2> DEFINE l == launches + 1
               entry == [NoEntry EXCEPT !.launch = l, !.pre = pidfile]
               r == [flow[f] EXCEPT !.pc = "spawn", !.launch = l, !.pre = pidfile,
                                    !.candidate = NoPid]
    <2>1. UNCHANGED <<os, pidfile, adoption, foul>> /\ launches' = l
      BY <1>2 DEF BeginLaunch
    <2>2. OwnEntry(entry) /\ entry.launch = l
      BY Persons DEF OwnEntry, NoEntry
    <2>3. Records(entry) /\ live' = live
      <3> HIDE DEF entry
      <3>1. \E b : Spend(entry, b)
        BY <1>2 DEF BeginLaunch, entry
      <3>2. asked' \subseteq asked \union {entry} /\ state' \in {entry, state} /\ live' = live
        BY <3>1, SpendAsks
      <3> QED  BY <2>1, <2>2, <3>2, OwnFacts DEF Records
    <2>4. Continues
      <3>1. CASE flow' = [flow EXCEPT ![f] = r]
        <4>1. /\ r.candidate = NoPid /\ r.pc = "spawn"
              /\ r.evidence = flow[f].evidence /\ r.kills = flow[f].kills
          BY <1>0 DEF FlowType
        <4> HIDE DEF r
        <4>2. OwnFlow(r) /\ r.pc \notin Waiting
          BY <1>0, <4>1 DEF OwnFlow, Waiting, Killing
        <4> QED  BY <3>1, <4>1, <4>2, OwnFacts, SetContinues
      <3>2. CASE Answer(f, FALSE)
        BY <3>2, OwnFacts, AnswerContinues DEF Answer
      <3> QED  BY <1>2, <3>1, <3>2 DEF BeginLaunch
    <2> HIDE DEF entry
    <2> QED  BY <2>1, <2>3, <2>4, OwnFacts, OwnStep, SamePeople DEF Ticks, Pointed
  <1>3. CASE SpawnFails(f)
    <2>1. UNCHANGED <<os, pidfile, adoption, launches, foul>> /\ Update(NoEntry)
      BY <1>3 DEF SpawnFails
    <2>2. Records(NoEntry) /\ live' = live
      BY <2>1, OwnFacts, RecordForgotten
    <2>3. Continues
      BY <1>3, OwnFacts, AnswerContinues DEF SpawnFails, Answer
    <2> QED  BY <2>1, <2>2, <2>3, OwnFacts, OwnStep, SamePeople DEF Ticks, Pointed
  <1>4. ASSUME Again(f), flow[f].pc \in Waiting
        PROVE  Continues
    <2>1. PICK pc \in {"serving", "judge"} :
            flow' = [flow EXCEPT ![f] = [flow[f] EXCEPT !.pc = pc, !.candidate = NoPid,
                                                        !.evidence = Nobody]]
      BY <1>4 DEF Again
    <2> DEFINE r == [flow[f] EXCEPT !.pc = pc, !.candidate = NoPid,
                                    !.evidence = Nobody]
    <2>2. /\ r.candidate = NoPid /\ r.proc = flow[f].proc
          /\ r.evidence = Nobody /\ r.kills = flow[f].kills /\ r.pc = pc
      BY <1>0 DEF FlowType
    <2>3. flow' = [flow EXCEPT ![f] = r]
      BY <2>1
    <2> HIDE DEF r
    <2>4. OwnFlow(r)
      BY <1>0, <2>2, Persons DEF OwnFlow, Killing
    <2> QED  BY <1>4, <2>2, <2>3, <2>4, OwnFacts, SetContinues
  <1>5. CASE Look(f)
    <2>1. /\ UNCHANGED <<state, asked, live, os, pidfile, adoption, launches, foul>>
          /\ flow[f].pc = "serving"
      BY <1>5 DEF Look, ledger, In
    <2>2. At(pidfile) # Foreign
      BY <2>1, OwnFacts DEF WaitsForOwn, Waiting
    <2> DEFINE r == [flow[f] EXCEPT !.pc = "probe", !.candidate = pidfile,
                                    !.evidence = At(pidfile)]
    <2>3. Continues
      <3>1. CASE flow' = [flow EXCEPT ![f] = r]
        <4>1. /\ r.candidate = pidfile /\ r.proc = flow[f].proc
              /\ r.evidence = At(pidfile) /\ r.kills = flow[f].kills
              /\ r.pc = "probe"
          BY <1>0 DEF FlowType
        <4> HIDE DEF r
        <4>2. OwnFlow(r)
          BY <1>0, <2>2, <4>1 DEF OwnFlow, Killing
        <4> QED  BY <2>1, <3>1, <4>1, <4>2, OwnFacts, SetContinues DEF Waiting
      <3>2. CASE Again(f)
        BY <1>4, <2>1, <3>2 DEF Waiting
      <3> QED  BY <1>5, <3>1, <3>2 DEF Look
    <2>4. Records(state)
      BY <2>1, OwnFacts, NoWrite
    <2> QED  BY <2>1, <2>3, <2>4, OwnFacts, OwnStep, SamePeople DEF Ticks, Pointed
  <1>6. CASE Probed(f)
    <2>1. /\ UNCHANGED <<state, asked, live, os, pidfile, adoption, launches, foul>>
          /\ flow[f].pc = "probe"
      BY <1>6 DEF Probed, ledger, In
    <2>2. Continues
      <3>1. ASSUME NEW ok,
                   flow' = [flow EXCEPT ![f] = [flow[f] EXCEPT !.ready = ok,
                                                               !.pc = "judge"]]
            PROVE  Continues
        <4> DEFINE r == [flow[f] EXCEPT !.ready = ok, !.pc = "judge"]
        <4>1. /\ r.candidate = flow[f].candidate /\ r.proc = flow[f].proc
              /\ r.evidence = flow[f].evidence /\ r.kills = flow[f].kills
              /\ r.pc = "judge"
          BY <1>0 DEF FlowType
        <4>2. flow' = [flow EXCEPT ![f] = r]
          BY <3>1
        <4> HIDE DEF r
        <4>3. OwnFlow(r)
          BY <1>0, <4>1 DEF OwnFlow, Killing
        <4> QED  BY <2>1, <4>1, <4>2, <4>3, OwnFacts, SetContinues DEF Waiting
      <3>2. CASE Again(f)
        BY <1>4, <2>1, <3>2 DEF Waiting
      <3> QED  BY <1>6, <3>1, <3>2 DEF Probed
    <2>3. Records(state)
      BY <2>1, OwnFacts, NoWrite
    <2> QED  BY <2>1, <2>2, <2>3, OwnFacts, OwnStep, SamePeople DEF Ticks, Pointed
  <1>7. CASE Judge(f)
    <2>1. /\ UNCHANGED <<os, pidfile, adoption, launches, foul>>
          /\ flow[f].pc = "judge"
      BY <1>7 DEF Judge, In
    <2>2. At(flow[f].proc) # Foreign
      BY <2>1, OwnFacts DEF WaitsForOwn, Waiting
    <2>3. Continues
      BY <1>7, <2>1, OwnFacts, GotoContinues DEF Judge, Waiting, Killing
    <2>4. (\E v : Records(v)) /\ live' = live
      <3>1. CASE NoUpdate
        BY <2>1, <3>1, OwnFacts, NoUpdateRecords
      <3>2. ASSUME NEW proof, proof # Foreign, Update([state EXCEPT !.wproof = proof])
            PROVE  (\E v : Records(v)) /\ live' = live
        <4> DEFINE e == [state EXCEPT !.wproof = proof]
        <4>1. OwnEntry(e) /\ e.launch = state.launch /\ e.listener = state.listener
          BY <3>2, OwnFacts DEF OwnEntry, Entries
        <4>2. Spend(e, left)
          BY <3>2 DEF Update
        <4> HIDE DEF e
        <4>3. Records(e) /\ live' = live
          BY <2>1, <4>1, <4>2, OwnFacts, RecordWritten
        <4> QED  BY <4>3
      <3>3. \A proof \in {Process("wrapper", flow[f].launch), At(flow[f].proc)} :
              proof # Foreign
        BY <2>2 DEF Process, Foreign
      <3> QED  BY <1>7, <3>1, <3>2, <3>3 DEF Judge
    <2> QED  BY <2>1, <2>3, <2>4, OwnFacts, OwnStep, SamePeople DEF Ticks, Pointed
  <1>8. CASE Adopt(f)
    <2>1. /\ UNCHANGED <<os, pidfile, adoption, launches, foul>>
          /\ flow[f].pc = "adopt"
      BY <1>8 DEF Adopt, In
    <2>2. Continues
      BY <1>8, <2>1, OwnFacts, GotoContinues, AnswerContinues DEF Adopt, Answer, Waiting, Killing
    <2>3. (\E v : Records(v)) /\ live' = live
      <3>1. CASE NoUpdate
        BY <2>1, <3>1, OwnFacts, NoUpdateRecords
      <3>2. CASE /\ Adoptable(state, flow[f].evidence)
                 /\ Update(Adopted(state, flow[f].evidence))
        <4> DEFINE e == Adopted(state, flow[f].evidence)
        <4>1. OwnEntry(e) /\ e.launch = state.launch /\ e.listener # NoPid
          BY <1>0, <3>2, OwnFacts, AdoptedOwn DEF OwnFlow
        <4>2. Spend(e, left)
          BY <3>2 DEF Update
        <4> HIDE DEF e
        <4>3. Records(e) /\ live' = live
          BY <2>1, <4>1, <4>2, OwnFacts, RecordWritten
        <4> QED  BY <4>3
      <3> QED  BY <1>8, <3>1, <3>2 DEF Adopt
    <2> QED  BY <2>1, <2>2, <2>3, OwnFacts, OwnStep, SamePeople DEF Ticks, Pointed
  <1> QED  BY <1>1, <1>2, <1>3, <1>5, <1>6, <1>7, <1>8

(* At a spawn nothing goes by a stranger's pid: the record is bare.        *)
LEMMA SpawnOwn ==
  ASSUME GatewayInv, Ownership, OwnEvidence, KnownStranger,
         NEW f \in Flows, NEW p \in Pids, Spawn(f, p)
  PROVE  OwnEvidence'
  <1> DEFINE l == flow[f].launch
             entry == [state EXCEPT !.wrapper = p]
             r == [flow[f] EXCEPT !.pc = "serving", !.proc = p]
  <1>0. /\ flow[f] \in FlowType /\ OwnFlow(flow[f]) /\ flow[f].pc = "spawn"
        /\ WorldOK /\ FlowOK /\ pidfile \in Pid /\ p \in Pid
    BY OwnFacts, PidTyped DEF FlowOK, OwnFlows, Spawn, In, WorldOK
  <1>1. /\ UNCHANGED <<pidfile, adoption, launches, foul>>
        /\ os' = [os EXCEPT ![p] = New(Process("wrapper", l))]
    BY DEF Spawn
  <1>2. Records(entry) /\ live' = live
    <2>1. OwnEntry(entry) /\ entry.launch = state.launch /\ entry.listener = state.listener
      BY OwnFacts DEF OwnEntry, Entries
    <2>2. Spend(entry, left)
      BY DEF Spawn, Update
    <2> HIDE DEF entry
    <2> QED  BY <1>1, <2>1, <2>2, OwnFacts, RecordWritten
  <1> HIDE DEF entry
  <1>3. NoStranger
    <2>1. \A q \in Pids : os'[q].who \in {os[q].who, Process("wrapper", l)}
      BY <1>0, <1>1 DEF WorldOK, New
    <2>2. Process("wrapper", l) # Foreign
      BY DEF Process, Foreign
    <2> QED  BY <2>1, <2>2, Persons DEF NoStranger, At, Who, Pid
  <1>4. /\ At(pidfile) # Foreign
        /\ \A g \in Flows : At(flow[g].candidate) # Foreign
    <2>1. state.listener = NoPid
      BY <1>0 DEF Ownership, SpawnsAlone, Unspawned
    <2>2. /\ pidfile \in Pid /\ \A g \in Flows : flow[g].candidate \in Pid
      BY <1>0, FlowFields DEF FlowOK
    <2>3. NoPid \notin Pids
      BY PidsAssumption
    <2> QED  BY <2>1, <2>2, <2>3, Persons DEF KnownStranger, Pid
  <1>5. CASE flow' = [flow EXCEPT ![f] = r]
    <2>1. /\ r.candidate = flow[f].candidate /\ r.proc = p
          /\ r.evidence = flow[f].evidence /\ r.kills = flow[f].kills
          /\ r.pc = "serving"
      BY <1>0 DEF FlowType
    <2>2. flow'[f] = r /\ \A g \in Flows \ {f} : flow'[g] = flow[g]
      BY <1>0, <1>5 DEF FlowOK
    <2> HIDE DEF r
    <2>3. OwnRecords' /\ OwnTick' /\ ~foul'
      <3>1. Ticks
        BY <1>1, <1>2 DEF Ticks
      <3> QED  BY <1>1, <1>2, <3>1, OwnFacts, RecordsStep, TicksStep
    <2>4. OwnFlows'
      BY <1>0, <2>1, <2>2, OwnFacts DEF OwnFlows, OwnFlow, Killing
    <2>5. WaitsForOwn'
      <3>1. \A x \in Pid : At(x) # Foreign => Who(os', x) # Foreign
        BY <1>3 DEF NoStranger
      <3>2. Who(os', pidfile') # Foreign
        BY <1>0, <1>1, <1>4, <3>1
      <3>3. \A g \in Flows : Who(os', flow'[g].candidate) # Foreign
        <4>1. \A g \in Flows : flow'[g].candidate = flow[g].candidate
          BY <2>1, <2>2
        <4>2. \A g \in Flows : flow[g].candidate \in Pid
          BY <1>0, FlowFields DEF FlowOK
        <4> QED  BY <1>4, <3>1, <4>1, <4>2
      <3>4. Who(os', p) # Foreign
        <4>1. os'[p].who = Process("wrapper", l)
          BY <1>0, <1>1 DEF WorldOK, New
        <4> QED  BY <4>1, Persons DEF Who, Process, Foreign
      <3>5. ASSUME NEW g \in Flows, flow'[g].pc \in Waiting
            PROVE  Who(os', flow'[g].proc) # Foreign
        <4>1. CASE g = f
          BY <2>1, <2>2, <3>4, <4>1
        <4>2. CASE g # f
          <5>1. At(flow[g].proc) # Foreign /\ flow[g].proc \in Pid
            BY <2>2, <3>5, <4>2, OwnFacts, FlowFields DEF WaitsForOwn, FlowOK
          <5> QED  BY <2>2, <3>1, <4>2, <5>1
        <4> QED  BY <4>1, <4>2
      <3> QED  BY <3>2, <3>3, <3>5 DEF WaitsForOwn, At, Who
    <2> QED  BY <2>3, <2>4, <2>5 DEF OwnEvidence, OnlyOwnSignalled
  <1>6. CASE Answer(f, FALSE)
    <2>1. Continues
      BY <1>0, <1>6, AnswerContinues DEF Answer
    <2> QED  BY <1>1, <1>2, <1>3, <2>1, OwnFacts, OwnStep DEF Ticks, Pointed
  <1> QED  BY <1>5, <1>6 DEF Spawn

LEMMA PlanOwn ==
  ASSUME NEW f \in Flows, flow[f] \in FlowType, OwnFlow(flow[f]),
         NEW e, OwnEntry(e), NEW t, t.proof # Foreign
  PROVE  LET r == Plan(f, e, t)
         IN  /\ OwnFlow(r) /\ r.candidate = flow[f].candidate
             /\ r.pc \notin Waiting
  <1> DEFINE proc == flow[f].proc
             alive == ChildAlive([launch |-> flow[f].launch, pid |-> proc])
             kills == {u \in {Wrapper(e)} : u.pid = proc /\ alive} \union
                      {u \in {t} : u.pid # proc}
             proved == {u \in kills : u.proof # Nobody /\ Observed(u.pid) = u.proof}
             others == {p \in {proc} : alive} \union
                       {p \in {pidfile} \ {NoPid, e.pre} : Alive(p)}
             clean == others \subseteq {u.pid : u \in proved}
             pc == IF \E u \in proved : u.pid = proc THEN "kill wrapper"
                   ELSE IF proved # {} THEN "kill listener" ELSE "clear"
  <1>1. Plan(f, e, t) = [flow[f] EXCEPT !.kills = proved, !.of = e.launch,
                                        !.clean = clean, !.pc = pc]
    BY DEF Plan
  <1>2. pc \notin Waiting
    BY DEF Waiting
  <1>3. proved \subseteq {Wrapper(e), t}
    OBVIOUS
  <1>4. \A u \in proved : u.proof # Foreign /\ u.proof # Nobody
    BY <1>3, OwnTargets
  <1> HIDE DEF proved, clean, pc
  <1>5. /\ Plan(f, e, t).pc = pc /\ Plan(f, e, t).kills = proved
        /\ Plan(f, e, t).candidate = flow[f].candidate
        /\ Plan(f, e, t).evidence = flow[f].evidence
    BY <1>1 DEF FlowType
  <1> QED  BY <1>2, <1>4, <1>5 DEF OwnFlow

LEMMA CleanupOwn ==
  ASSUME GatewayInv, Ownership, OwnEvidence, NEW f \in Flows,
         Cleanup(f) \/ (\E t \in flow[f].kills : CleanupKill(f, t)) \/ CleanupEnds(f)
  PROVE  OwnEvidence'
  <1>0. flow[f] \in FlowType /\ OwnFlow(flow[f])
    BY OwnFacts DEF FlowOK, OwnFlows
  <1>1. CASE Cleanup(f)
    <2> DEFINE new == Adopted(state, At(pidfile))
    <2>1. /\ flow[f].pc = "cleanup"
          /\ UNCHANGED <<os, pidfile, adoption, launches, foul>>
      BY <1>1 DEF Cleanup, In
    <2>2. At(pidfile) # Foreign
      BY <2>1, OwnFacts DEF WaitsForOwn, Waiting
    <2>3. (\E v : Records(v)) /\ live' = live /\ OwnEntry(state')
      <3>1. CASE NoUpdate
        <4>1. state' = state
          BY <3>1 DEF NoUpdate, ledger
        <4> QED  BY <2>1, <3>1, <4>1, OwnFacts, NoUpdateRecords
      <3>2. CASE Adoptable(state, Observed(pidfile)) /\ Update(new)
        <4>1. Observed(pidfile) = At(pidfile)
          BY <3>2 DEF Adoptable, Observed
        <4>2. OwnEntry(new) /\ new.launch = state.launch /\ new.listener # NoPid
          BY <2>2, <3>2, <4>1, OwnFacts, AdoptedOwn
        <4>3. Spend(new, left)
          BY <3>2 DEF Update
        <4> HIDE DEF new
        <4>4. Records(new) /\ live' = live
          BY <2>1, <4>2, <4>3, OwnFacts, RecordWritten
        <4>5. state' \in {new, state}
          BY <4>4 DEF Records
        <4> QED  BY <4>2, <4>4, <4>5, OwnFacts
      <3> QED  BY <1>1, <3>1, <3>2 DEF Cleanup
    <2>4. Continues
      <3>1. PICK t \in {Target(pidfile, At(pidfile)),
                        Target(flow[f].candidate, flow[f].evidence)} :
              flow' = [flow EXCEPT ![f] = Plan(f, state', t)]
        BY <1>1 DEF Cleanup
      <3>2. t.proof # Foreign
        BY <1>0, <2>2 DEF Target, OwnFlow
      <3> DEFINE r == Plan(f, state', t)
      <3>3. OwnFlow(r) /\ r.candidate = flow[f].candidate /\ r.pc \notin Waiting
        BY <1>0, <2>3, <3>2, PlanOwn
      <3> HIDE DEF r
      <3>4. flow' = [flow EXCEPT ![f] = r]
        BY <3>1 DEF r
      <3> QED  BY <3>3, <3>4, OwnFacts, SetContinues
    <2> QED  BY <2>1, <2>3, <2>4, OwnFacts, OwnStep, SamePeople DEF Ticks, Pointed
  <1>2. ASSUME NEW t \in flow[f].kills, CleanupKill(f, t)
        PROVE  OwnEvidence'
    <2> DEFINE S == IF /\ Observed(t.pid) = t.proof
                       /\ state # NoEntry /\ state.launch = flow[f].of
                       /\ t.pid = flow[f].proc \/ pidfile = t.pid
                      THEN {t.pid} ELSE {}
    <2>1. /\ Killed(S)
          /\ UNCHANGED <<state, asked, live, pidfile, adoption, launches>>
          /\ \E clean, pc : pc \in {"kill listener", "clear"} /\
               flow' = [flow EXCEPT ![f] = [flow[f] EXCEPT !.clean = clean, !.pc = pc]]
      BY <1>2 DEF CleanupKill, ledger
    <2>2. flow[f].pc \in Killing
      BY <1>2 DEF CleanupKill, In, Killing
    <2>7. t.proof # Foreign /\ t.proof # Nobody
      BY <1>0, <1>2, <2>2 DEF OwnFlow
    <2>3. \A p \in S : At(p) # Foreign
      BY <2>7, Persons DEF Observed
    <2> HIDE DEF S
    <2>4. ~foul' /\ NoStranger
      BY <2>1, <2>3, OwnFacts, SignalsOwn, EndedNoStranger DEF Killed
    <2>5. Continues
      <3>1. PICK clean, pc : pc \in {"kill listener", "clear"} /\
               flow' = [flow EXCEPT ![f] = [flow[f] EXCEPT !.clean = clean, !.pc = pc]]
        BY <2>1
      <3> DEFINE r == [flow[f] EXCEPT !.clean = clean, !.pc = pc]
      <3>2. /\ r.pc = pc /\ r.kills = flow[f].kills
            /\ r.candidate = flow[f].candidate /\ r.evidence = flow[f].evidence
        BY <1>0 DEF FlowType
      <3>3. flow' = [flow EXCEPT ![f] = r]
        BY <3>1
      <3> HIDE DEF r
      <3>4. OwnFlow(r) /\ r.pc \notin Waiting
        <4>1. \A u \in flow[f].kills : u.proof # Foreign /\ u.proof # Nobody
          BY <1>0, <2>2 DEF OwnFlow
        <4> QED  BY <1>0, <3>1, <3>2, <4>1 DEF OwnFlow, Waiting
      <3> QED  BY <3>2, <3>3, <3>4, OwnFacts, SetContinues
    <2>6. Records(state)
      BY <2>1, OwnFacts, NoWrite
    <2> QED  BY <2>1, <2>4, <2>5, <2>6, OwnStep DEF Ticks, Pointed
  <1>3. CASE CleanupEnds(f)
    <2>1. /\ UNCHANGED <<os, launches, foul>>
          /\ adoption' \in {adoption, NoTick} /\ pidfile' \in {pidfile, NoPid}
          /\ Update(NoEntry) \/ NoUpdate
      BY <1>3 DEF CleanupEnds
    <2>2. Continues
      BY <1>3, OwnFacts, AnswerContinues DEF CleanupEnds, Answer
    <2>3. (Records(NoEntry) \/ Records(state)) /\ live' = live
      BY <2>1, OwnFacts, RecordForgotten, NoUpdateRecords
    <2> QED  BY <2>1, <2>2, <2>3, OwnFacts, OwnStep, SamePeople DEF Ticks, Pointed
  <1> QED  BY <1>1, <1>2, <1>3

LEMMA RecoveryOwn ==
  ASSUME GatewayInv, OwnEvidence,
         \/ Check
         \/ \E f \in {"restart", "recovery"} : Release(f) \/ ReleaseTimesOut(f)
  PROVE  OwnEvidence'
  <1>0. "recovery" \in Flows /\ {"restart", "recovery"} \subseteq Flows
    BY DEF Flows
  <1>1. CASE Check
    <2>1. UNCHANGED <<state, asked, live, os, pidfile, adoption, launches, foul>>
      BY <1>1 DEF Check, ledger
    <2>2. Continues
      BY <1>0, <1>1, OwnFacts, AnswerContinues, AwaitsRestartContinues, GotoContinues
      DEF Check, Answer, Waiting, Killing
    <2>3. Records(state)
      BY <2>1, OwnFacts, NoWrite
    <2> QED  BY <2>1, <2>2, <2>3, OwnFacts, OwnStep, SamePeople DEF Ticks, Pointed
  <1>2. ASSUME NEW f \in {"restart", "recovery"}, Release(f)
        PROVE  OwnEvidence'
    <2>1. live /\ UNCHANGED <<os, launches, foul>>
      BY <1>2 DEF Release, In, Up
    <2>2. Continues
      <3>1. CASE Released(f)
        <4>1. CASE flow' = Answers(f, TRUE)
          BY <1>0, <4>1, OwnFacts, AnswerContinues
        <4>2. CASE Goto(f, "launch")
          BY <1>0, <4>2, OwnFacts, GotoContinues DEF Waiting, Killing
        <4>3. CASE flow' = [flow EXCEPT ![f] = [Idle EXCEPT !.pc = "launch"]]
          <5>1. Fresh([Idle EXCEPT !.pc = "launch"])
            BY OwnNothing DEF Waiting
          <5> QED  BY <1>0, <4>3, <5>1, OwnFacts, SetContinues
        <4> QED  BY <3>1, <4>1, <4>2, <4>3 DEF Released, Goto
      <3> QED  BY <1>2, <3>1, SameFlows DEF Release
    <2>3. /\ Records(NoEntry) \/ Records(state)
          /\ Ticks /\ pidfile' \in {pidfile, NoPid}
      <3>1. CASE NoUpdate /\ UNCHANGED <<pidfile, adoption>>
        BY <2>1, <3>1, OwnFacts, NoUpdateRecords DEF Ticks
      <3>2. CASE Reconcile(state.launch, FALSE)
        BY <2>1, <3>2, OwnFacts, ReconcileOwn
      <3> QED  BY <1>2, <3>1, <3>2 DEF Release
    <2> QED  BY <2>1, <2>2, <2>3, OwnFacts, OwnStep, SamePeople DEF Pointed
  <1>3. ASSUME NEW f \in {"restart", "recovery"}, ReleaseTimesOut(f)
        PROVE  OwnEvidence'
    <2>1. UNCHANGED <<state, asked, live, os, pidfile, adoption, launches, foul>>
      BY <1>3 DEF ReleaseTimesOut, ledger
    <2>2. Continues
      BY <1>0, <1>3, OwnFacts, GotoContinues, SetContinues, OwnNothing
      DEF ReleaseTimesOut, Waiting, Killing
    <2>3. Records(state)
      BY <2>1, OwnFacts, NoWrite
    <2> QED  BY <2>1, <2>2, <2>3, OwnFacts, OwnStep, SamePeople DEF Ticks, Pointed
  <1> QED  BY <1>1, <1>2, <1>3

LEMMA RestartOwn ==
  ASSUME GatewayInv, OwnEvidence, KnownStranger, Restarting
  PROVE  OwnEvidence'
  <1>0. /\ "restart" \in Flows /\ flow["restart"] \in FlowType
        /\ OwnFlow(flow["restart"])
    BY OwnFacts DEF FlowOK, OwnFlows, Flows
  <1>1. CASE RestartBegins
    <2> DEFINE before == [Idle EXCEPT !.launch = child.launch, !.proc = child.pid,
                                      !.candidate = pidfile]
               legacy == ~Unavailable /\ state = NoEntry /\ Alive(pidfile)
               a == [before EXCEPT !.pc = "restore"]
               b == [before EXCEPT !.pc = "takeover", !.evidence = At(pidfile)]
               c == [before EXCEPT !.pc = "stop"]
    <2>1. UNCHANGED <<state, asked, live, os, pidfile, adoption, launches, foul>>
      BY <1>1 DEF RestartBegins, ledger
    <2>2. state = NoEntry => At(pidfile) # Foreign
      <3>1. pidfile \in Pids \union {NoPid} /\ NoPid \notin Pids
        BY OwnFacts, PidsAssumption DEF WorldOK, Pid
      <3>2. NoEntry.listener = NoPid
        BY OwnNothing
      <3> QED  BY <3>1, <3>2, Persons DEF KnownStranger
    <2>3. /\ a.candidate = pidfile /\ a.evidence = Nobody /\ a.kills = {} /\ a.pc = "restore"
          /\ c.candidate = pidfile /\ c.evidence = Nobody /\ c.kills = {} /\ c.pc = "stop"
          /\ b.candidate = pidfile /\ b.evidence = At(pidfile) /\ b.kills = {}
          /\ b.pc = "takeover"
      BY DEF Idle
    <2>4. \/ flow' = [flow EXCEPT !["restart"] = a]
          \/ state = NoEntry /\ flow' = [flow EXCEPT !["restart"] = b]
          \/ flow' = [flow EXCEPT !["restart"] = c]
      <3>1. flow' = [flow EXCEPT !["restart"] =
              CASE legacy /\ blind -> a [] legacy /\ ~blind -> b [] ~legacy -> c]
        BY <1>1 DEF RestartBegins
      <3>2. blind \in BOOLEAN
        BY OwnFacts DEF WorldOK
      <3> HIDE DEF a, b, c
      <3> QED  BY <3>1, <3>2
    <2> HIDE DEF a, b, c
    <2>5. /\ OwnFlow(a) /\ OwnFlow(c) /\ (state = NoEntry => OwnFlow(b))
          /\ {a.pc, b.pc, c.pc} \intersect Waiting = {}
      BY <2>2, <2>3, Persons DEF OwnFlow, Waiting
    <2>6. Continues
      BY <1>0, <2>3, <2>4, <2>5, OwnFacts, SetContinues
    <2>7. Records(state)
      BY <2>1, OwnFacts, NoWrite
    <2> QED  BY <2>1, <2>6, <2>7, OwnFacts, OwnStep, SamePeople DEF Ticks, Pointed
  <1>2. CASE Takeover
    <2>1. /\ UNCHANGED <<state, asked, live, adoption, launches, foul>>
          /\ \E S : Ended(S)
          /\ \E pc \in {"stop", "restore"} : Goto("restart", pc)
          /\ pidfile' \in {pidfile, NoPid}
      BY <1>2 DEF Takeover, ledger
    <2>2. Continues
      BY <1>0, <2>1, OwnFacts, GotoContinues DEF Waiting, Killing
    <2>3. Records(state)
      BY <2>1, OwnFacts, NoWrite
    <2> QED  BY <2>1, <2>2, <2>3, OwnFacts, OwnStep, EndedNoStranger
             DEF Ticks, Pointed
  <1>3. CASE StopOld \/ RestartRetries
    <2>1. UNCHANGED <<os, launches>> /\ StopGateway
      BY <1>3 DEF StopOld, RestartRetries
    <2>2. /\ Records(NoEntry) \/ Records(state)
          /\ Ticks /\ pidfile' \in {pidfile, NoPid} /\ ~foul'
      BY <2>1, OwnFacts, StopGatewayOwn
    <2>3. Continues
      <3>1. CASE StopOld
        BY <1>0, <3>1, OwnFacts, GotoContinues DEF StopOld, Waiting, Killing
      <3>2. CASE RestartRetries
        <4> DEFINE r == [Idle EXCEPT !.pc = "launch", !.retried = TRUE]
        <4>1. Fresh(r)
          BY OwnNothing DEF Waiting
        <4>2. flow' = [flow EXCEPT !["restart"] = r]
          BY <3>2 DEF RestartRetries
        <4> HIDE DEF r
        <4> QED  BY <1>0, <4>1, <4>2, OwnFacts, SetContinues
      <3> QED  BY <1>3, <3>1, <3>2
    <2> QED  BY <2>1, <2>2, <2>3, OwnStep, SamePeople DEF Pointed
  <1>4. CASE Stopped \/ Restore \/ RestartFails
    <2>1. UNCHANGED <<state, asked, live, os, adoption, launches, foul>>
      BY <1>4 DEF Stopped, Restore, RestartFails, ledger
    <2>2. Pointed
      BY <1>0, <1>4 DEF Stopped, Restore, RestartFails, Pointed
    <2>3. Continues
      <3>1. CASE Stopped
        BY <1>0, <3>1, OwnFacts, GotoContinues DEF Stopped, Waiting, Killing
      <3>2. CASE Restore \/ RestartFails
        BY <3>2, OwnFacts, RestartedContinues DEF Restore, RestartFails
      <3> QED  BY <1>4, <3>1, <3>2
    <2>4. Records(state)
      BY <2>1, OwnFacts, NoWrite
    <2> QED  BY <2>1, <2>2, <2>3, <2>4, OwnFacts, OwnStep, SamePeople DEF Ticks
  <1> QED  BY <1>1, <1>2, <1>3, <1>4 DEF Restarting

LEMMA DrainOwn ==
  ASSUME GatewayInv, OwnEvidence, Draining
  PROVE  OwnEvidence'
  <1>0. /\ "drain" \in Flows /\ flow["drain"] \in FlowType
        /\ OwnFlow(flow["drain"])
    BY OwnFacts DEF FlowOK, OwnFlows, Flows
  <1>a. Wrapper(state).proof # Foreign /\ Listener(state).proof # Foreign
    BY OwnFacts, OwnTargets
  (* The drain goes by no pid of its own but those of the record.          *)
  <1> DEFINE Drains(r) == /\ r.candidate = NoPid /\ r.evidence = Nobody
                          /\ r.pc \notin Waiting \union Killing
                          /\ \A t \in r.kills : t.proof # Foreign
  <1>b. ASSUME NEW r, Drains(r), flow' = [flow EXCEPT !["drain"] = r]
        PROVE  Continues
    <2>1. OwnFlow(r)
      BY <1>b, Persons DEF OwnFlow
    <2> QED  BY <1>0, <1>b, <2>1, OwnFacts, SetContinues
  <1>c. Drains(Idle)
    BY DEF Idle, Waiting, Killing
  <1>1. CASE DrainBegins
    <2> DEFINE a == [Idle EXCEPT !.pc = "drain wrapper", !.launch = state.launch,
                                 !.proc = child.pid, !.kills = {Wrapper(state)}]
               b == [Idle EXCEPT !.pc = "drain listener", !.proc = child.pid]
               tracked == ChildAlive(child)
               proved == state.wrapper = child.pid /\ Status(Wrapper(state)) = "alive"
    <2>1. /\ UNCHANGED <<state, asked, live, os, pidfile, launches, foul>>
          /\ adoption' \in {adoption, NoTick}
      BY <1>1 DEF DrainBegins, ledger
    <2>2. Drains(a) /\ Drains(b)
      BY <1>a DEF Idle, Waiting, Killing
    <2>3. \E r \in {a, b, Idle} : flow' = [flow EXCEPT !["drain"] = r]
      <3>1. flow' = [flow EXCEPT !["drain"] =
              CASE Unavailable \/ (tracked /\ ~proved) -> Idle
                [] ~Unavailable /\ tracked /\ proved -> a
                [] OTHER -> b]
        BY <1>1 DEF DrainBegins
      <3> HIDE DEF a, b, tracked, proved
      <3> QED  BY <3>1
    <2> HIDE DEF a, b, Drains
    <2>4. Continues
      BY <1>b, <1>c, <2>2, <2>3
    <2>5. Records(state)
      BY <2>1, OwnFacts, NoWrite
    <2> QED  BY <2>1, <2>4, <2>5, OwnFacts, OwnStep, SamePeople DEF Ticks, Pointed
  <1>2. ASSUME NEW t \in flow["drain"].kills, DrainWrapper(t) \/ DrainKill(t)
        PROVE  OwnEvidence'
    <2>1. /\ \E S : Killed(S) /\ \A p \in S : At(p) # Foreign
          /\ UNCHANGED <<state, asked, live, adoption, launches>>
          /\ pidfile' \in {pidfile, NoPid}
      <3>1. CASE DrainWrapper(t)
        <4> DEFINE verified == /\ state.launch = flow["drain"].launch
                               /\ Wrapper(state).pid = t.pid
                               /\ Status(Wrapper(state)) = "alive"
                   S == IF verified THEN {t.pid} ELSE {}
        <4>1. Killed(S) /\ UNCHANGED <<ledger, pidfile, adoption, launches>>
          BY <3>1 DEF DrainWrapper
        <4>2. \A p \in S : At(p) # Foreign
          BY <1>a, OwnAlive
        <4> HIDE DEF S
        <4> QED  BY <4>1, <4>2 DEF ledger
      <3>2. CASE DrainKill(t)
        <4> DEFINE verified == /\ pidfile = t.pid
                               /\ state.launch = flow["drain"].launch
                               /\ Listener(state).pid = t.pid
                               /\ Status(Listener(state)) = "alive"
                   S == IF verified THEN {t.pid} ELSE {}
        <4>1. /\ Killed(S) /\ UNCHANGED <<ledger, adoption, launches>>
              /\ pidfile' \in {pidfile, NoPid}
          BY <3>2 DEF DrainKill
        <4>2. \A p \in S : At(p) # Foreign
          BY <1>a, OwnAlive
        <4> HIDE DEF S
        <4> QED  BY <4>1, <4>2 DEF ledger
      <3> QED  BY <1>2, <3>1, <3>2
    <2>2. ~foul' /\ NoStranger
      BY <2>1, OwnFacts, SignalsOwn, EndedNoStranger DEF Killed
    <2>3. Continues
      <3>1. \/ flow' = [flow EXCEPT !["drain"] = Idle]
            \/ \E pc \in {"drain listener", "settle"} : Goto("drain", pc)
        BY <1>2 DEF DrainWrapper, DrainKill, Goto
      <3>2. CASE flow' = [flow EXCEPT !["drain"] = Idle]
        BY <1>b, <1>c, <3>2
      <3>3. CASE \E pc \in {"drain listener", "settle"} : Goto("drain", pc)
        BY <1>0, <3>3, OwnFacts, GotoContinues DEF Waiting, Killing
      <3> QED  BY <3>1, <3>2, <3>3
    <2>4. Records(state)
      BY <2>1, OwnFacts, NoWrite
    <2> QED  BY <2>1, <2>2, <2>3, <2>4, OwnStep DEF Ticks, Pointed
  <1>3. CASE DrainListener
    <2> DEFINE t == Listener(state)
               here == [Idle EXCEPT !.launch = state.launch, !.kills = {t},
                                    !.clean = ~Replaced]
               status == IF t.pid = flow["drain"].proc THEN "dead" ELSE Status(t)
               a == [here EXCEPT !.pc = "settle"]
               b == [here EXCEPT !.pc = "drain kill"]
    <2>1. UNCHANGED <<state, asked, live, os, pidfile, adoption, launches, foul>>
      BY <1>3 DEF DrainListener, ledger
    <2>2. Drains(a) /\ Drains(b)
      BY <1>a DEF Idle, Waiting, Killing
    <2>3. \E r \in {a, b, Idle} : flow' = [flow EXCEPT !["drain"] = r]
      <3>1. flow' = [flow EXCEPT !["drain"] =
              CASE status = "dead" -> a [] status = "alive" -> b [] OTHER -> Idle]
        BY <1>3 DEF DrainListener
      <3> HIDE DEF a, b, status
      <3> QED  BY <3>1
    <2> HIDE DEF a, b, Drains
    <2>4. Continues
      BY <1>b, <1>c, <2>2, <2>3
    <2>5. Records(state)
      BY <2>1, OwnFacts, NoWrite
    <2> QED  BY <2>1, <2>4, <2>5, OwnFacts, OwnStep, SamePeople DEF Ticks, Pointed
  <1>4. CASE Settle
    <2>1. live /\ UNCHANGED <<os, launches, foul>>
      BY <1>4 DEF Settle, In, Up
    <2>2. Continues
      BY <1>4, <1>b, <1>c DEF Settle
    <2>3. /\ Records(NoEntry) \/ Records(state)
          /\ Ticks /\ pidfile' \in {pidfile, NoPid}
      <3>1. CASE NoUpdate /\ UNCHANGED <<pidfile, adoption>>
        BY <2>1, <3>1, OwnFacts, NoUpdateRecords DEF Ticks
      <3>2. CASE Reconcile(flow["drain"].launch, FALSE)
        BY <2>1, <3>2, OwnFacts, ReconcileOwn
      <3> QED  BY <1>4, <3>1, <3>2 DEF Settle
    <2> QED  BY <2>1, <2>2, <2>3, OwnFacts, OwnStep, SamePeople DEF Pointed
  <1> QED  BY <1>1, <1>2, <1>3, <1>4 DEF Draining

-----------------------------------------------------------------------------
LEMMA OwnInitially == Init => OwnEvidence
  <1> SUFFICES ASSUME Init PROVE OwnEvidence
    OBVIOUS
  <1>1. state = NoEntry /\ asked = {} /\ launches = 0 /\ ~foul /\ adoption = NoTick
    BY DEF Init, LedgerInit
  <1>2. \A f \in Flows : flow[f] = Idle
    BY DEF Init
  <1>3. OwnRecords
    <2>1. OwnEntry(NoEntry) /\ NoEntry.launch = 0
      BY OwnNothing
    <2>2. 0 \in 0..launches
      BY <1>1
    <2> QED  BY <1>1, <2>1, <2>2 DEF OwnRecords
  <1>4. OwnTick
    BY <1>1, Persons DEF OwnTick, NoTick
  <1>5. OwnFlows /\ WaitsForOwn
    BY <1>2, OwnNothing, Persons DEF OwnFlows, WaitsForOwn, OwnFlow, Fresh
  <1> QED  BY <1>1, <1>3, <1>4, <1>5 DEF OwnEvidence, OnlyOwnSignalled

LEMMA OwnEvidenceStep ==
  ASSUME GatewayInv, Ownership, OwnEvidence, KnownStranger, [Next]_vars
  PROVE  OwnEvidence'
  <1>1. CASE UNCHANGED vars
    <2>1. UNCHANGED <<state, asked, launches, live, adoption, flow, foul, os, pidfile>>
      BY <1>1 DEF vars, ledger, world, memory, timers, history
    <2> QED  BY <2>1, SamePeople, OutsideOwn DEF Pointed
  <1>2. CASE Start \/ ColdStart \/ Stop \/ \E f \in Flows : Call(f)
    BY <1>2, StartOwn
  <1>3. CASE Machine \/ Callbacks
    BY <1>3, MachineOwn, CallbackOwn
  <1>4. ASSUME NEW f \in Flows \ {"drain"}, Launching(f)
        PROVE  OwnEvidence'
    BY <1>4, LaunchOwn, SpawnOwn, CleanupOwn DEF Launching
  <1>5. CASE Functions
    BY <1>4, <1>5, RecoveryOwn, RestartOwn, DrainOwn DEF Functions
  <1> QED  BY <1>1, <1>2, <1>3, <1>5 DEF Next

(* No signal reaches a process of somebody else (hermes.ts: what           *)
(* inspectOwnedTarget guards), however many pids are used again, writes    *)
(* fail and runs of the app crash, as long as whoever gets a pid that      *)
(* gateway.pid still names, or that a function goes by, gets one that the  *)
(* record names as its listener's.  Pids that only the record names may be *)
(* anybody's at any time: evidence tells.                                  *)
THEOREM OnlyOwn ==
  Spec /\ []KnownStranger => []OnlyOwnSignalled
  <1>1. /\ GatewayInv /\ Ownership /\ OwnEvidence /\ KnownStranger /\ [Next]_vars
             => GatewayInv' /\ Ownership' /\ OwnEvidence'
        /\ Init => GatewayInv /\ Ownership /\ OwnEvidence
        /\ OwnEvidence => OnlyOwnSignalled
    BY GatewayStep, OwnershipStep, OwnEvidenceStep, GatewayInitially,
       OwnershipInitially, OwnInitially DEF OwnEvidence
  <1> QED  BY <1>1, PTL DEF Spec
=============================================================================
