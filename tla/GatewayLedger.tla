---------------------------- MODULE GatewayLedger ----------------------------
(***************************************************************************)
(* GatewayProcessOwnershipLedger: the durable record of which gateway      *)
(* processes belong to the app (src/main/gateway-process-ownership.ts).    *)
(* A write goes to a pending file, whose fsync is the commit point, and is *)
(* promoted by renames; where a rename over the old file is refused, the   *)
(* old file is first moved to a backup.  All of it is synchronous, so one  *)
(* action stands for a whole write and chooses among the ways it can end:  *)
(* every file operation may fail, and the process may die after each.      *)
(***************************************************************************)
EXTENDS Naturals

CONSTANTS Value,  \* contents of the ledger
          Empty   \* the contents when there is no file

ASSUME EmptyAssumption == Empty \in Value

VARIABLES
    files,      \* the pending file, the ledger file and its backup
    state,      \* the ledger in memory; after a crash, what it was
    live,       \* whether there is a process that has loaded it
    loadIssue,  \* why the ledger may not be trusted, if it may not
    asked       \* history: values of writes since the last acknowledged one

ledger == <<files, state, live, loadIssue, asked>>

Absent == [kind |-> "absent", value |-> Empty]
Torn == [kind |-> "torn", value |-> Empty]
Whole(v) == [kind |-> "whole", value |-> v]
Content == {Absent, Torn} \union {Whole(v) : v \in Value}

Disk == [pending : Content, canonical : Content, backup : Content]

-----------------------------------------------------------------------------
(* File operations                                                         *)

Result(ok, f) == [ok |-> ok, files |-> f]

\* Altered: the pending file is removed when its promotion failed.
Promotions_CleansUp(f) ==
  {Result(TRUE, [pending |-> Absent, canonical |-> f.pending, backup |-> Absent]),
   Result(FALSE, [pending |-> Absent, canonical |-> Absent,
                  backup |-> f.canonical])}

(* promotePending of a whole file: by one rename, or with the old file     *)
(* moved aside first.  Backups are removed at best effort.                 *)
Promotions(f) ==
  {Result(TRUE, [pending |-> Absent, canonical |-> f.pending, backup |-> b]) :
     b \in {Absent, f.backup, f.canonical}}
  \union {Result(FALSE, f), Result(FALSE, [f EXCEPT !.backup = Absent])}
  \union (IF f.canonical = Absent THEN {}
          ELSE {Result(FALSE, [f EXCEPT !.canonical = Absent,
                                        !.backup = f.canonical])})

PromotePending(f) ==
  CASE f.pending = Absent -> {Result(TRUE, f)}
    [] f.pending = Torn   -> {Result(FALSE, f)}
    [] OTHER              -> Promotions(f)

\* How a write of v ends, as [ack, issue, files].
Ending(ack, issue, f) == [ack |-> ack, issue |-> issue, files |-> f]

(* The pending file of an earlier write is promoted first.  The new one is *)
(* opened, written and fsynced; when that fails it is removed at best      *)
(* effort.  From the fsync on the write counts, promoted or not.           *)
Persist(f, v) ==
  LET before == PromotePending(f)
      clear == {r.files : r \in {p \in before : p.ok}}
      unwritten == {[g EXCEPT !.pending = c] :
                      g \in clear, c \in {Absent, Torn, Whole(v)}}
      after == UNION {Promotions([g EXCEPT !.pending = Whole(v)]) : g \in clear}
  IN  {Ending(FALSE, loadIssue, r.files) : r \in {p \in before : ~p.ok}}
      \union {Ending(FALSE, loadIssue, g) : g \in unwritten}
      \union {Ending(TRUE, ~r.ok, r.files) : r \in after}

\* Altered: the pending file is only read when there is no other.
Read_PendingLast(f) ==
  IF f.canonical.kind = "whole" THEN f.canonical.value ELSE f.pending.value

(* readState: a whole pending file is the newest commit; a torn one was    *)
(* never one and is removed; the backup counts when there is nothing else. *)
Read(f) ==
  IF f.pending.kind = "whole" THEN f.pending.value
  ELSE IF f.canonical.kind = "whole" THEN f.canonical.value
  ELSE f.backup.value

\* The files and the issue that readState leaves.
Loads(f) ==
  IF f.pending = Torn
    THEN {[issue |-> TRUE, files |-> [f EXCEPT !.pending = c]] :
            c \in {Absent, Torn}}
    ELSE {[issue |-> ~r.ok \/ (r.files.canonical = Absent
                                 /\ r.files.backup # Absent),
           files |-> r.files] : r \in PromotePending(f)}

-----------------------------------------------------------------------------
(* Operations                                                              *)

\* What a write without a fault does.
Undisturbed(v) ==
  Ending(TRUE, FALSE, [pending |-> Absent, canonical |-> Whole(v),
                       backup |-> Absent])

\* replaceState, whose write of v ends as r.
Ends(v, r) ==
  /\ live /\ live' = live
  /\ files' = r.files
  /\ loadIssue' = r.issue
  /\ IF r.ack THEN state' = v /\ asked' = {}
              ELSE state' = state /\ asked' = asked \union {v}

Replace(v) == \E r \in Persist(files, v) : Ends(v, r)

\* The process dies; if it was writing, the write has ended as one that failed.
Die ==
  /\ live /\ live' = FALSE
  /\ UNCHANGED <<files, state, loadIssue, asked>>

\* The constructor in the next process.
Load ==
  /\ ~live /\ live' = TRUE
  /\ \E l \in Loads(files) : files' = l.files /\ loadIssue' = l.issue
  /\ state' = Read(files)
  /\ asked' = {}

(* getLoadIssue: a pending file nobody can read makes the ledger           *)
(* unavailable, also when the write that left it there only failed.        *)
Unavailable == loadIssue \/ files.pending = Torn

LedgerInit ==
  /\ state \in Value
  /\ files = [pending |-> Absent, backup |-> Absent,
              canonical |-> IF state = Empty THEN Absent ELSE Whole(state)]
  /\ live = TRUE /\ loadIssue = FALSE /\ asked = {}

LedgerNext ==
  \/ Die \/ Load
  \/ \E v \in Value : Replace(v)

LedgerSpec == LedgerInit /\ [][LedgerNext]_ledger

-----------------------------------------------------------------------------
(* Properties                                                              *)

LedgerTypeOK ==
  /\ files \in Disk
  /\ state \in Value
  /\ live \in BOOLEAN /\ loadIssue \in BOOLEAN
  /\ asked \in SUBSET Value

Register == INSTANCE DurableRegister WITH value <- state, open <- asked

(* An acknowledged launch record is what the next process reads, whatever  *)
(* failed or died before; a failed one is read at most until the next is   *)
(* acknowledged.                                                           *)
ImplementsDurableRegister == Register!Spec

(* The backup is never all that is left: readState's last resort is not    *)
(* needed for any sequence of failures and deaths of the app.              *)
BackupNeverDecides ==
  files.pending.kind = "whole" \/ files.canonical # Absent
    \/ files.backup = Absent
=============================================================================
