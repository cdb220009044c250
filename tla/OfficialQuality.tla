--------------------------- MODULE OfficialQuality ---------------------------
(***************************************************************************)
(* Quality events of official agents: the consents and the outbox of       *)
(* db.ts, the upload of manager.ts, the events of collector.ts, and the    *)
(* queue of owner transitions in start.ts that tells the manager who is    *)
(* signed in.  A consent is local at once and travels to the cloud in      *)
(* requests that are lost, late and reordered.  One upload runs at a time: *)
(* it reconciles the consents, lists the due events and sends each, and    *)
(* awaits the cloud between these steps.                                   *)
(*                                                                         *)
(* There is one device.  What an event says is left out.  The cloud's side *)
(* is external: an account's consent for a purpose only moves to a higher  *)
(* version, and an event needs the consent version it was recorded under.  *)
(***************************************************************************)
EXTENDS Naturals, Sequences, FiniteSets

CONSTANTS
    Accounts,     \* accounts that sign in on this device
    None,         \* nobody signed in, a guest, or no known account
    Capacity,     \* MAXIMUM_OUTBOX_EVENTS
    Budgets       \* bound: how many events, choices of consent, states the
                  \* session publishes and exits of the app happen together

ASSUME QualityAssumption ==
  /\ None \notin Accounts
  /\ Capacity \in Nat \ {0}
  /\ Budgets \subseteq
       [events : Nat, choices : Nat, published : Nat, exits : Nat]

\* The order in which an upload reconciles them.
PurposeOrder == <<"metrics", "feedback">>
Purposes == {"metrics", "feedback"}

VARIABLES
    auth,        \* the account of getPrincipal
    told,        \* previousPrincipal of the manager
    mounted,     \* the owner whose conversations can run
    queue,       \* ownerTransitionQueue: the owners published and not mounted
    consent,     \* the consent table, per account and purpose
    outbox,      \* the outbox table
    candidates,  \* feedbackCandidates
    upload,      \* activeUpload
    granting,    \* setConsent calls that will start an upload when answered
    letters,     \* consent requests that can still reach the cloud
    cloud,       \* the cloud's consents, per account and purpose
    left,        \* history: events in the outbox when the app exited
    strayed,     \* history: a consent went under another account's token
    budget       \* what may still happen in this behaviour

vars == <<auth, told, mounted, queue, consent, outbox, candidates, upload,
          granting, letters, cloud, left, strayed, budget>>

Unset == [on |-> FALSE, version |-> 0]
Idle == [pc |-> "idle"]
Ids(rows) == {r.id : r \in rows}

-----------------------------------------------------------------------------
(* The outbox.  Ages are left out: where the code takes the oldest row, or *)
(* sends due rows in their order, the model takes any.                     *)

Row(a, p, id) == [id |-> id, account |-> a, purpose |-> p,
                  version |-> consent[a][p].version, retried |-> FALSE]

Full(rows, a) == Cardinality({r \in rows : r.account = a}) >= Capacity

\* reserveOutboxCapacity: metrics go first, and never make a rating go.
Evictable(rows, a, p) ==
    LET mine == {r \in rows : r.account = a}
        metrics == {r \in mine : r.purpose = "metrics"}
    IN  IF metrics = {} /\ p = "feedback" THEN mine ELSE metrics

\* What the outbox can be once there is room for an event: nothing if there
\* is none.
Room(rows, a, p) == IF Full(rows, a) THEN {rows \ {r} : r \in Evictable(rows, a, p)}
                                     ELSE {rows}

Acknowledge(rows, e) == {r \in rows : r.id # e.id \/ r.account # e.account}
RecordRetry(rows, entries) ==
    {r \in rows : r.id \notin Ids(entries)} \union
    {[r EXCEPT !.retried = TRUE] : r \in {x \in rows : x.id \in Ids(entries)}}

-----------------------------------------------------------------------------
(* performUpload, cut at its awaits.  Each operator gives what the upload, *)
(* the requests under way and the outbox can be at the next await.         *)

At(u, rows, ls) == [upload |-> u, letters |-> ls, outbox |-> rows]

\* The request for an entry travels under the token of the moment; without
\* one every entry left fails at once.
SendEvents(entries, rows, ls) ==
    IF entries = {} \/ auth = None
    THEN {At(Idle, RecordRetry(rows, entries), ls)}
    ELSE {At([pc |-> "event", token |-> auth, entry |-> e,
              rest |-> entries \ {e}, verdict |-> "none"], rows, ls)
             : e \in entries}

\* Altered: the due time is taken when the events are listed.
Listed_Now(due, who, rows) == {r \in rows : r.account = who}

\* listDue as of the time the upload began: a later row is not due.
Listed(due, who, rows) == {r \in rows : r.account = who /\ r.id \in due}

\* The consents from the i-th purpose on, then the events.
Reconcile(i, who, due, rows, ls) ==
    LET unsent == {k \in {1, 2} :
                      k >= i /\ consent[who][PurposeOrder[k]].version >= 1}
        k == CHOOSE n \in unsent : \A m \in unsent : n <= m
        letter == [account |-> auth, purpose |-> PurposeOrder[k],
                   receipt |-> consent[who][PurposeOrder[k]]]
    IN  IF unsent = {} THEN SendEvents(Listed(due, who, rows), rows, ls)
        ELSE IF auth = None THEN {At(Idle, rows, ls)}
        ELSE {At([pc |-> "consent", who |-> who, due |-> due, step |-> k,
                  letter |-> letter, answer |-> "none"],
                 rows, ls \union {letter})}

\* uploadPending of a signed-in user, when no upload runs.  Rows of more than
\* thirty days are deleted first; late are retried rows whose time has not
\* come.
PerformUpload(rows, ls) ==
    UNION {LET kept == {r \in rows : r.id \notin expired}
               retried == Ids({r \in kept : r.retried})
           IN  UNION {Reconcile(1, auth, Ids(kept) \ late, kept, ls)
                         : late \in SUBSET retried}
              : expired \in SUBSET Ids(rows)}
UploadPending(rows, ls) ==
    IF upload # Idle \/ auth = None THEN {At(upload, rows, ls)}
                                    ELSE PerformUpload(rows, ls)

Becomes(outcomes) ==
    \E s \in outcomes :
        upload' = s.upload /\ letters' = s.letters /\ outbox' = s.outbox

-----------------------------------------------------------------------------
Init ==
    /\ auth = None /\ told = None /\ mounted = None /\ queue = <<>>
    /\ consent = [a \in Accounts |-> [p \in Purposes |-> Unset]]
    /\ outbox = {} /\ candidates = {} /\ upload = Idle
    /\ granting = 0 /\ letters = {}
    /\ cloud = consent
    /\ left = {} /\ strayed = FALSE
    /\ budget \in Budgets

-----------------------------------------------------------------------------
(* The session and the owner                                               *)

\* The session publishes its state: a sign-in, a sign-out or a renewal.
Publish(a) ==
    /\ budget.published > 0
    /\ a = auth \/ None \in {a, auth}
    /\ auth' = a
    /\ queue' = Append(queue, a)
    /\ budget' = [budget EXCEPT !.published = @ - 1]
    /\ UNCHANGED <<told, mounted, consent, outbox, candidates, upload, granting,
                   letters, cloud, left, strayed>>

\* Altered: a sign-out alone deletes nothing.
Kept_Signed(rows) ==
    IF auth \in {None, told} THEN rows ELSE {r \in rows : r.account # told}

\* The rows that outlive notifyPrincipalChanged.
Kept(rows) == IF told = auth THEN rows ELSE {r \in rows : r.account # told}

\* An owner is mounted once the runs of the last one are over, and the
\* manager is told who is signed in by then.  While another transition
\* waits, no conversation of this owner can start.
Mount ==
    /\ queue # <<>>
    /\ queue' = Tail(queue)
    /\ mounted' = IF Tail(queue) = <<>> THEN Head(queue) ELSE None
    /\ told' = auth
    /\ candidates' = IF told = auth THEN candidates
                     ELSE {c \in candidates : c.account # told}
    /\ \/ /\ told # auth \/ Head(queue) # None  \* a change, or cloudAvailable
          /\ Becomes(UploadPending(Kept(outbox), letters))
       \/ auth \in {told, None}
          /\ upload' = upload /\ letters' = letters
          /\ outbox' = Kept(outbox)
    /\ UNCHANGED <<auth, consent, granting, cloud, left, strayed, budget>>

\* Cleanup failed: nothing is mounted and the manager is not told.
MountFails ==
    /\ queue # <<>>
    /\ queue' = Tail(queue)
    /\ mounted' \in {None, mounted}
    /\ UNCHANGED <<auth, told, consent, outbox, candidates, upload, granting,
                   letters, cloud, left, strayed, budget>>

-----------------------------------------------------------------------------
(* Consents and events                                                     *)

\* setConsent of the table: the same choice again is the same receipt.
Receipt(p, on) ==
    LET current == consent[auth][p]
    IN  IF current.version > 0 /\ current.on = on THEN current
        ELSE [on |-> on, version |-> current.version + 1]

\* A withdrawal deletes what waits under the consent, then asks the cloud.
SetConsent(p, on) ==
    LET letter == [account |-> auth, purpose |-> p, receipt |-> Receipt(p, on)]
        withdrawn == {r \in outbox : ~on /\ r.account = auth /\ r.purpose = p}
    IN  /\ auth # None /\ budget.choices > 0
        /\ budget' = [budget EXCEPT !.choices = @ - 1]
        /\ consent' = [consent EXCEPT ![auth][p] = Receipt(p, on)]
        /\ outbox' = outbox \ withdrawn
        /\ candidates' = IF on \/ p = "metrics" THEN candidates
                         ELSE {c \in candidates : c.account # auth}
        /\ letters' = letters \union {letter}
        /\ granting' = IF on THEN granting + 1 ELSE granting
        /\ UNCHANGED <<auth, told, mounted, queue, upload, cloud, left, strayed>>

\* The answer to a grant, or its failure, starts an upload.
ConsentAnswered ==
    /\ granting > 0
    /\ granting' = granting - 1
    /\ Becomes(UploadPending(outbox, letters))
    /\ UNCHANGED <<auth, told, mounted, queue, consent, candidates, cloud,
                   left, strayed, budget>>

\* A conversation of the mounted owner ends: recordMetric.  A successful
\* one can be rated, so a feedback candidate is kept for it.
RecordMetric(success) ==
    LET metric == consent[auth]["metrics"].on
        rated == success /\ consent[auth]["feedback"].on
        n == budget.events
        m == n - (IF metric THEN 1 ELSE 0)
        rest == m - (IF rated THEN 1 ELSE 0)
        candidate == [id |-> m, account |-> auth,
                      version |-> consent[auth]["feedback"].version]
    IN  /\ auth # None /\ auth = mounted
        /\ metric \/ rated
        /\ rest >= 0
        /\ budget' = [budget EXCEPT !.events = rest]
        /\ candidates' = IF rated THEN candidates \union {candidate}
                                  ELSE candidates
        /\ \/ \E room \in Room(outbox, auth, "metrics") :
                metric /\ Becomes(UploadPending(
                              room \union {Row(auth, "metrics", n)}, letters))
           \/ /\ ~metric \/ Room(outbox, auth, "metrics") = {}
              /\ UNCHANGED <<outbox, upload, letters>>
        /\ UNCHANGED <<auth, told, mounted, queue, consent, granting, cloud,
                       left, strayed>>

\* submitFeedback.  A candidate of more than thirty minutes is dropped.
SubmitFeedback(c) ==
    /\ c.account = auth
    /\ candidates' = candidates \ {c}
    /\ \/ /\ consent[auth]["feedback"] = [on |-> TRUE, version |-> c.version]
          /\ \E room \in Room(outbox, auth, "feedback") :
                Becomes(UploadPending(
                    room \union {Row(auth, "feedback", c.id)}, letters))
       \/ UNCHANGED <<outbox, upload, letters>>
    /\ UNCHANGED <<auth, told, mounted, queue, consent, granting, cloud, left,
                   strayed, budget>>

-----------------------------------------------------------------------------
(* The cloud, and the upload as it is answered                             *)

\* A consent request arrives: it is new, it repeats the last, or it is stale.
ConsentArrives(l) ==
    LET current == cloud[l.account][l.purpose]
        newer == l.receipt.version > current.version
    IN  /\ letters' = letters \ {l}
        /\ cloud' = IF newer
                    THEN [cloud EXCEPT ![l.account][l.purpose] = l.receipt]
                    ELSE cloud
        /\ upload' = IF upload.pc = "consent" /\ upload.letter = l
                     THEN [upload EXCEPT !.answer =
                             IF newer \/ current = l.receipt THEN "recorded"
                                                            ELSE "conflict"]
                     ELSE upload
        /\ UNCHANGED <<auth, told, mounted, queue, consent, outbox, candidates,
                       granting, left, strayed, budget>>

\* The consent is reconciled: the next purpose, or the events.
ConsentReconciled ==
    /\ upload.pc = "consent" /\ upload.answer = "recorded"
    /\ Becomes(Reconcile(upload.step + 1, upload.who, upload.due, outbox,
                         letters))
    /\ strayed' = (strayed \/ (upload'.pc = "consent" /\ auth # upload.who))
    /\ UNCHANGED <<auth, told, mounted, queue, consent, candidates, granting,
                   cloud, left, budget>>

\* A conflict, an error or no answer in time ends the upload.
ReconciliationFails ==
    /\ upload.pc = "consent"
    /\ upload' = Idle
    /\ UNCHANGED <<auth, told, mounted, queue, consent, outbox, candidates,
                   granting, letters, cloud, left, strayed, budget>>

\* The cloud takes an event of the account of the token, recorded under the
\* consent it holds.
EventArrives ==
    /\ upload.pc = "event" /\ upload.verdict = "none"
    /\ LET e == upload.entry
           held == cloud[e.account][e.purpose]
       IN  upload' = [upload EXCEPT !.verdict =
               IF upload.token # e.account THEN "forbidden"
               ELSE IF held = [on |-> TRUE, version |-> e.version]
               THEN "accepted" ELSE "no consent"]
    /\ UNCHANGED <<auth, told, mounted, queue, consent, outbox, candidates,
                   granting, letters, cloud, left, strayed, budget>>

SendRest(rows) == Becomes(SendEvents(upload.rest, rows, letters))

\* A receipt, a final refusal, or an answer that cannot be read, which is
\* never retried whatever its status: the event leaves the outbox.
EventAnswered ==
    /\ upload.pc = "event"
    /\ SendRest(Acknowledge(outbox, upload.entry))
    /\ UNCHANGED <<auth, told, mounted, queue, consent, candidates, granting,
                   cloud, left, strayed, budget>>

\* No answer, or an error that is not final.
EventFails ==
    /\ upload.pc = "event"
    /\ SendRest(RecordRetry(outbox, {upload.entry}))
    /\ UNCHANGED <<auth, told, mounted, queue, consent, candidates, granting,
                   cloud, left, strayed, budget>>

-----------------------------------------------------------------------------
\* The app exits and is started again; requests under way may still arrive.
Restart ==
    /\ budget.exits > 0
    /\ budget' = [budget EXCEPT !.exits = @ - 1]
    /\ left' = left \union Ids(outbox)
    /\ auth' = None /\ told' = None /\ mounted' = None /\ queue' = <<>>
    /\ candidates' = {} /\ upload' = Idle /\ granting' = 0
    /\ UNCHANGED <<outbox, letters, cloud, strayed>>

Die == Restart /\ UNCHANGED consent

\* The exit falls between the two statements of a withdrawal.
DieWithdrawing(p) ==
    /\ auth # None /\ consent[auth][p].on
    /\ consent' = [consent EXCEPT ![auth][p] = Receipt(p, FALSE)]
    /\ Restart

-----------------------------------------------------------------------------
Next ==
    \/ \E a \in Accounts \union {None} : Publish(a)
    \/ Mount
    \/ MountFails
    \/ \E p \in Purposes, on \in BOOLEAN : SetConsent(p, on)
    \/ ConsentAnswered
    \/ \E success \in BOOLEAN : RecordMetric(success)
    \/ \E c \in candidates : SubmitFeedback(c)
    \/ \E l \in letters : ConsentArrives(l)
    \/ ConsentReconciled
    \/ ReconciliationFails
    \/ EventArrives
    \/ EventAnswered
    \/ EventFails
    \/ Die
    \/ \E p \in Purposes : DieWithdrawing(p)

Spec == Init /\ [][Next]_vars

-----------------------------------------------------------------------------
(* Properties                                                              *)

\* What a consent, a row, a request and an upload look like.
ReceiptType == [on : BOOLEAN, version : Nat]
RowType == [id : Nat, account : Accounts, purpose : Purposes, version : Nat,
            retried : BOOLEAN]
LetterType == [account : Accounts, purpose : Purposes, receipt : ReceiptType]
Waiting == [pc : {"consent"}, who : Accounts, due : SUBSET Nat, step : {1, 2},
            letter : LetterType, answer : {"none", "recorded", "conflict"}]
Sending == [pc : {"event"}, token : Accounts, entry : RowType,
            rest : SUBSET RowType,
            verdict : {"none", "accepted", "forbidden", "no consent"}]

\* Every variable has its type, the upload with what it keeps over its awaits.
TypeOK ==
  /\ auth \in Accounts \union {None} /\ told \in Accounts \union {None}
  /\ mounted \in Accounts \union {None}
  /\ queue \in Seq(Accounts \union {None})
  /\ consent \in [Accounts -> [Purposes -> ReceiptType]]
  /\ cloud \in [Accounts -> [Purposes -> ReceiptType]]
  /\ outbox \subseteq RowType
  /\ candidates \subseteq [id : Nat, account : Accounts, version : Nat]
  /\ upload \in {Idle} \union Waiting \union Sending
  /\ granting \in Nat /\ letters \subseteq LetterType
  /\ strayed \in BOOLEAN
  /\ budget \in [events : Nat, choices : Nat, published : Nat, exits : Nat]

\* An event the cloud refuses for want of consent is one whose consent was
\* withdrawn on this device after it was listed or before the app exited: an
\* upload never outruns the consent its events stand on, whatever became of
\* the requests of setConsent, as long as no consent request of one account
\* went out under the token of another.
RefusedOnlyIfWithdrawn ==
    upload.pc = "event" /\ upload.verdict = "no consent" /\ ~strayed =>
        LET e == upload.entry
        IN  consent[e.account][e.purpose] # [on |-> TRUE, version |-> e.version]

\* What waits to be sent never outlives the sign-in and the consent it was
\* recorded under, but for the events an exit of the app left behind.
OutboxIsCurrent ==
    \A r \in outbox : r.id \notin left =>
        /\ r.account = told
        /\ consent[r.account][r.purpose] = [on |-> TRUE, version |-> r.version]
=============================================================================
