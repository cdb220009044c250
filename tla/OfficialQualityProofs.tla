------------------------ MODULE OfficialQualityProofs ------------------------
(***************************************************************************)
(* Proof that, for any accounts, capacity and budgets, the outbox stays    *)
(* with the sign-in and the consents it was recorded under, and no event   *)
(* is sent ahead of its consent.                                           *)
(*                                                                         *)
(* The cloud and the requests under way know nothing newer than the        *)
(* choices made here (Honest), an event's id is drawn once, so an event    *)
(* recorded during an upload is not due in it (Fresh), and the events due  *)
(* have their consents reconciled in the order of the purposes             *)
(* (Reconciling).  So the events in hand are Reconciled.                   *)
(***************************************************************************)
EXTENDS OfficialQuality, TLAPS

-----------------------------------------------------------------------------
(* The parts of the inductive invariant.                                   *)

\* The owner whose conversations run is the account the manager knows of, and
\* the last transition that waits is to the state published last.
OneOwner ==
  /\ mounted # None => mounted = told
  /\ queue # <<>> => queue[Len(queue)] = auth

\* The consent a row was recorded under, and whether it still holds or has been
\* followed by another choice.
Choice(r) == consent[r.account][r.purpose]
Granted(r) == [on |-> TRUE, version |-> r.version]
Superseded(r) == r.version < Choice(r).version
Under(r) == Superseded(r) \/ Choice(r) = Granted(r)

\* A row was recorded under a consent that has been withdrawn since or holds.
Held ==
  /\ \A a \in Accounts, p \in Purposes :
        consent[a][p].on => consent[a][p].version >= 1
  /\ \A r \in outbox : r.version >= 1 /\ Under(r)

\* What can be rated belongs to who is signed in, under a consent that holds.
CandidatesAreCurrent ==
  \A c \in candidates :
    /\ c.account = told
    /\ consent[c.account]["feedback"] = Granted(c)

\* Event ids are drawn once.
Fresh ==
  /\ \A r \in outbox : r.id > budget.events
  /\ \A c \in candidates : c.id > budget.events /\ c.id \notin Ids(outbox)
  /\ \A c, d \in candidates : c.id = d.id => c = d
  /\ upload.pc = "consent" =>
       /\ \A i \in upload.due : i > budget.events
       /\ \A c \in candidates : c.id \notin upload.due

\* A receipt that is no newer than the choice it is of.
Past(a, p, receipt) ==
  receipt.version < consent[a][p].version \/ receipt = consent[a][p]

\* While every consent travels under its own account's token, the cloud and
\* the requests under way know only choices that were made.
Honest ==
  ~strayed =>
    /\ \A a \in Accounts, p \in Purposes : Past(a, p, cloud[a][p])
    /\ \A l \in letters : Past(l.account, l.purpose, l.receipt)
    /\ upload.pc = "consent" =>
         /\ upload.letter.account = upload.who
         /\ upload.letter.purpose = PurposeOrder[upload.step]
         /\ Past(upload.who, upload.letter.purpose, upload.letter.receipt)

\* The cloud knows the consent of a row, unless it does not hold any more.
Known(r) == Superseded(r) \/ cloud[r.account][r.purpose] = Choice(r)

\* Rows the upload will list: their consent is reconciled once its purpose
\* is done, and under way when it is the purpose's turn.
Reconciling ==
  ~strayed /\ upload.pc = "consent" =>
    \A r \in outbox : r.account = upload.who /\ r.id \in upload.due =>
      /\ upload.step = 2 /\ r.purpose = "metrics" => Known(r)
      /\ r.purpose = upload.letter.purpose =>
           /\ Superseded(r) \/ upload.letter.receipt = Choice(r)
           /\ upload.answer = "recorded" => Known(r)

\* The entries in hand are reconciled.
Reconciled ==
  upload.pc = "event" =>
    \A e \in upload.rest \union {upload.entry} :
      /\ e.version >= 1 /\ Under(e)
      /\ ~strayed => Known(e)

QualityInv ==
  /\ TypeOK /\ OneOwner /\ Held /\ CandidatesAreCurrent /\ OutboxIsCurrent
  /\ Fresh /\ Honest /\ Reconciling /\ Reconciled /\ RefusedOnlyIfWithdrawn

-----------------------------------------------------------------------------
(* Values.                                                                 *)

\* The purposes and their order.
LEMMA Orders ==
  /\ PurposeOrder[1] = "metrics" /\ PurposeOrder[2] = "feedback"
  /\ Purposes = {"metrics", "feedback"} /\ "metrics" # "feedback"
  /\ \A k \in {1, 2} : PurposeOrder[k] \in Purposes
  BY DEF PurposeOrder, Purposes

\* An upload is idle, waits for a consent or sends an event.
LEMMA UploadCases ==
  ASSUME TypeOK
  PROVE  \/ upload = Idle /\ upload.pc = "idle"
         \/ upload \in Waiting /\ upload.pc = "consent"
         \/ upload \in Sending /\ upload.pc = "event"
<1>1. upload \in {Idle} \union Waiting \union Sending
  BY DEF TypeOK
<1>2. \A u \in Waiting : u.pc = "consent"
  BY DEF Waiting
<1>3. \A u \in Sending : u.pc = "event"
  BY DEF Sending
<1>4. Idle.pc = "idle"
  BY DEF Idle
<1> QED BY <1>1, <1>2, <1>3, <1>4

\* The parts of an outcome.
LEMMA Outcomes ==
  ASSUME NEW u, NEW rows, NEW ls
  PROVE  /\ At(u, rows, ls).upload = u
         /\ At(u, rows, ls).outbox = rows
         /\ At(u, rows, ls).letters = ls
  BY DEF At

\* The same event, sent once or more.
Same(r, x) == /\ r.id = x.id /\ r.account = x.account
              /\ r.purpose = x.purpose /\ r.version = x.version

From(rows, old) == /\ rows \subseteq RowType
                   /\ \A r \in rows : \E x \in old : Same(r, x)

\* Rows that are deleted leave the others as they are.
LEMMA FromSubset ==
  ASSUME NEW old \in SUBSET RowType, NEW rows \in SUBSET old
  PROVE  From(rows, old)
  BY DEF From, Same

\* Marking rows as retried changes nothing else.
LEMMA RetryKeeps ==
  ASSUME NEW rows \in SUBSET RowType, NEW entries \in SUBSET RowType
  PROVE  From(RecordRetry(rows, entries), rows)
<1>1. ASSUME NEW x \in RowType
      PROVE  /\ [x EXCEPT !.retried = TRUE] \in RowType
             /\ Same([x EXCEPT !.retried = TRUE], x) /\ Same(x, x)
  BY DEF RowType, Same
<1>2. ASSUME NEW r \in RecordRetry(rows, entries)
      PROVE  r \in RowType /\ \E x \in rows : Same(r, x)
  <2>1. CASE r \in rows
    BY <2>1, <1>1
  <2>2. CASE \E x \in rows : r = [x EXCEPT !.retried = TRUE]
    BY <2>2, <1>1
  <2> QED BY <1>2, <2>1, <2>2 DEF RecordRetry
<1> QED BY <1>2 DEF From

-----------------------------------------------------------------------------
(* What an upload does up to its next await.                               *)

\* The upload sends one of these events next.
Sends(u, entries) ==
  /\ u \in Sending /\ u.pc = "event" /\ u.verdict = "none"
  /\ u.entry \in entries /\ u.rest \subseteq entries

\* The next of some entries goes out, or the upload ends.
LEMMA Sent ==
  ASSUME TypeOK, NEW entries \in SUBSET RowType, NEW rows \in SUBSET RowType,
         NEW ls, NEW s \in SendEvents(entries, rows, ls)
  PROVE  /\ From(s.outbox, rows) /\ s.letters = ls
         /\ s.upload = Idle \/ Sends(s.upload, entries)
<1>1. CASE entries = {} \/ auth = None
  <2>1. s = At(Idle, RecordRetry(rows, entries), ls)
    BY <1>1 DEF SendEvents
  <2> QED BY <2>1, Outcomes, RetryKeeps
<1>2. CASE ~(entries = {} \/ auth = None)
  <2>1. PICK e \in entries :
          s = At([pc |-> "event", token |-> auth, entry |-> e,
                  rest |-> entries \ {e}, verdict |-> "none"], rows, ls)
    BY <1>2 DEF SendEvents
  <2>2. auth \in Accounts
    BY <1>2 DEF TypeOK
  <2>3. Sends([pc |-> "event", token |-> auth, entry |-> e,
               rest |-> entries \ {e}, verdict |-> "none"], entries)
    BY <2>2 DEF Sends, Sending
  <2> QED BY <2>1, <2>3, Outcomes, FromSubset
<1> QED BY <1>1, <1>2

\* The upload waits for the k-th purpose's consent of who.
Asks(u, who, due, k) ==
  /\ u \in Waiting /\ u.pc = "consent" /\ u.answer = "none"
  /\ u.who = who /\ u.due = due /\ u.step = k
  /\ auth \in Accounts /\ u.letter.account = auth
  /\ u.letter.purpose = PurposeOrder[k]
  /\ u.letter.receipt = consent[who][PurposeOrder[k]]

\* No consent was ever given for the purposes from the i-th to the k-th.
Skipped(who, i, k) ==
  \A m \in {1, 2} : i <= m /\ m < k => consent[who][PurposeOrder[m]].version = 0

\* The next purpose with a consent is asked for, or the events are next.
LEMMA Reconciles ==
  ASSUME TypeOK, NEW i \in {1, 2, 3}, NEW who \in Accounts,
         NEW due \in SUBSET Nat, NEW rows \in SUBSET RowType,
         NEW ls \in SUBSET LetterType,
         NEW s \in Reconcile(i, who, due, rows, ls)
  PROVE  /\ From(s.outbox, rows)
         /\ \/ s.upload = Idle /\ s.letters = ls
            \/ /\ Sends(s.upload, Listed(due, who, rows)) /\ s.letters = ls
               /\ Skipped(who, i, 3)
            \/ \E k \in {1, 2} :
                 /\ k >= i /\ Asks(s.upload, who, due, k)
                 /\ Skipped(who, i, k)
                 /\ s.letters = ls \union {s.upload.letter}
<1> DEFINE unsent == {k \in {1, 2} :
                        k >= i /\ consent[who][PurposeOrder[k]].version >= 1}
           k == CHOOSE n \in unsent : \A m \in unsent : n <= m
           letter == [account |-> auth, purpose |-> PurposeOrder[k],
                      receipt |-> consent[who][PurposeOrder[k]]]
           asking == [pc |-> "consent", who |-> who, due |-> due, step |-> k,
                      letter |-> letter, answer |-> "none"]
<1>1. \A m \in {1, 2} : consent[who][PurposeOrder[m]] \in ReceiptType
  BY Orders DEF TypeOK
<1>2. \A m \in {1, 2} : m \notin unsent /\ i <= m
                       => consent[who][PurposeOrder[m]].version = 0
  BY <1>1 DEF ReceiptType
<1>3. CASE unsent = {}
  <2>1. s \in SendEvents(Listed(due, who, rows), rows, ls)
    BY <1>3 DEF Reconcile
  <2>2. Listed(due, who, rows) \in SUBSET RowType
    BY DEF Listed
  <2>3. Skipped(who, i, 3)
    BY <1>2, <1>3 DEF Skipped
  <2> QED BY <2>1, <2>2, <2>3, Sent
<1>4. CASE unsent # {} /\ auth = None
  <2>1. s = At(Idle, rows, ls)
    BY <1>4 DEF Reconcile
  <2> QED BY <2>1, Outcomes, FromSubset
<1>5. CASE unsent # {} /\ auth # None
  <2>1. s = At(asking, rows, ls \union {letter})
    BY <1>5 DEF Reconcile
  <2>2. k \in unsent /\ \A m \in unsent : k <= m
    <3>1. \E n \in unsent : \A m \in unsent : n <= m
      BY <1>5
    <3> QED BY <3>1
  <2>3. k \in {1, 2} /\ k >= i
    BY <2>2
  <2> HIDE DEF k
  <2>4. Skipped(who, i, k)
    <3>1. \A m \in {1, 2} : m < k => m \notin unsent
      BY <2>2, <2>3
    <3> HIDE DEF unsent
    <3> QED BY <1>2, <3>1 DEF Skipped
  <2>5. auth \in Accounts
    BY <1>5 DEF TypeOK
  <2>6. letter \in LetterType
    BY <2>3, <2>5, <1>1, Orders DEF LetterType
  <2>7. Asks(asking, who, due, k)
    BY <2>3, <2>5, <2>6 DEF Asks, Waiting
  <2>8. asking.letter = letter
    OBVIOUS
  <2> HIDE DEF asking, letter, unsent
  <2> QED BY <2>1, <2>3, <2>4, <2>7, <2>8, Outcomes, FromSubset
<1> QED BY <1>3, <1>4, <1>5

\* An upload that begins works on rows that are there and for who is
\* signed in.
LEMMA Uploads ==
  ASSUME TypeOK, NEW rows \in SUBSET RowType, NEW ls \in SUBSET LetterType,
         NEW s \in UploadPending(rows, ls)
  PROVE  /\ From(s.outbox, rows)
         /\ \/ s.upload = upload /\ s.letters = ls
            \/ s.upload = Idle /\ s.letters = ls
            \/ \E due \in SUBSET Ids(rows) :
                 /\ auth \in Accounts
                 /\ \/ /\ Sends(s.upload, Listed(due, auth, rows))
                       /\ s.letters = ls
                       /\ Skipped(auth, 1, 3)
                    \/ \E k \in {1, 2} :
                         /\ Asks(s.upload, auth, due, k)
                         /\ Skipped(auth, 1, k)
                         /\ s.letters = ls \union {s.upload.letter}
<1>1. CASE upload # Idle \/ auth = None
  <2>1. s = At(upload, rows, ls)
    BY <1>1 DEF UploadPending
  <2> QED BY <2>1, Outcomes, FromSubset
<1>2. CASE ~(upload # Idle \/ auth = None)
  <2>1. auth \in Accounts
    BY <1>2 DEF TypeOK
  <2>2. PICK kept \in SUBSET rows :
          \E due \in SUBSET Ids(kept) : s \in Reconcile(1, auth, due, kept, ls)
    <3>1. s \in PerformUpload(rows, ls)
      BY <1>2 DEF UploadPending
    <3> DEFINE young(expired) == {r \in rows : r.id \notin expired}
               from(kept) == UNION {Reconcile(1, auth, Ids(kept) \ late, kept, ls)
                   : late \in SUBSET Ids({r \in kept : r.retried})}
    <3>2. s \in UNION {from(young(expired)) : expired \in SUBSET Ids(rows)}
      BY <3>1 DEF PerformUpload
    <3>3. PICK expired \in SUBSET Ids(rows) : s \in from(young(expired))
      BY <3>2
    <3>4. young(expired) \in SUBSET rows
      OBVIOUS
    <3>5. PICK late : s \in Reconcile(1, auth, Ids(young(expired)) \ late,
                                      young(expired), ls)
      BY <3>3
    <3>6. Ids(young(expired)) \ late \in SUBSET Ids(young(expired))
      OBVIOUS
    <3> HIDE DEF young, from
    <3> QED BY <3>4, <3>5, <3>6
  <2>0. PICK due \in SUBSET Ids(kept) : s \in Reconcile(1, auth, due, kept, ls)
    BY <2>2
  <2>3. due \in SUBSET Nat /\ due \in SUBSET Ids(rows)
    BY <2>0, <2>2 DEF Ids, RowType
  <2>4. From(s.outbox, rows)
    <3>1. From(s.outbox, kept)
      BY <2>0, <2>1, <2>2, <2>3, Reconciles
    <3> QED BY <3>1 DEF From
  <2>5. Listed(due, auth, kept) \in SUBSET Listed(due, auth, rows)
    BY DEF Listed
  <2>6. \A u : Sends(u, Listed(due, auth, kept))
              => Sends(u, Listed(due, auth, rows))
    BY <2>5 DEF Sends
  <2> QED BY <2>0, <2>1, <2>2, <2>3, <2>4, <2>6, Reconciles
<1> QED BY <1>1, <1>2

-----------------------------------------------------------------------------
(* An upload keeps the invariant while the choices made here and the       *)
(* consents the cloud holds stay.                                          *)

\* Nothing that is said of a row depends on whether it was retried.
LEMMA SameRows ==
  ASSUME NEW r, NEW x, Same(r, x)
  PROVE  /\ Choice(r) = Choice(x) /\ Granted(r) = Granted(x)
         /\ Superseded(r) = Superseded(x)
         /\ Under(r) = Under(x) /\ Known(r) = Known(x)
  BY DEF Same, Choice, Granted, Superseded, Under, Known

\* What is said of rows and receipts stays while the consents do.
LEMMA Unmoved ==
  ASSUME UNCHANGED <<consent, cloud>>
  PROVE  /\ \A r : /\ Choice(r)' = Choice(r) /\ Granted(r)' = Granted(r)
                   /\ Superseded(r)' = Superseded(r)
                   /\ Under(r)' = Under(r) /\ Known(r)' = Known(r)
         /\ \A a, p, receipt : Past(a, p, receipt)' = Past(a, p, receipt)
<1>1. \A r : Choice(r)' = Choice(r) /\ Granted(r)' = Granted(r)
  BY DEF Choice, Granted
<1>2. \A r : Superseded(r)' = Superseded(r)
  BY <1>1 DEF Superseded
<1>3. \A r : Under(r)' = Under(r) /\ Known(r)' = Known(r)
  BY <1>1, <1>2 DEF Under, Known
<1>4. \A a, p, receipt : Past(a, p, receipt)' = Past(a, p, receipt)
  BY DEF Past
<1> QED BY <1>1, <1>2, <1>3, <1>4

\* A purpose that is skipped has no rows.
LEMMA NoRows ==
  ASSUME TypeOK, NEW who \in Accounts, NEW i \in {1, 2, 3}, NEW k \in {1, 2, 3},
         Skipped(who, i, k), NEW r \in RowType, r.account = who,
         r.version >= 1, Under(r), NEW m \in {1, 2}, i <= m, m < k
  PROVE  r.purpose # PurposeOrder[m]
<1>1. consent[who][PurposeOrder[m]].version = 0
  BY DEF Skipped
<1>2. SUFFICES ASSUME r.purpose = PurposeOrder[m] PROVE FALSE
  OBVIOUS
<1>3. Choice(r).version = 0 /\ r.version \in Nat
  BY <1>1, <1>2 DEF Choice, RowType
<1>4. Granted(r).version = r.version
  BY DEF Granted
<1> QED BY <1>3, <1>4 DEF Under, Superseded

\* A row was recorded under a consent.
Entered(e) == e.version >= 1 /\ Under(e)

\* The upload ends.
LEMMA Ends ==
  ASSUME upload' = Idle
  PROVE  /\ Reconciling' /\ Reconciled' /\ RefusedOnlyIfWithdrawn'
         /\ upload'.pc # "consent"
  BY DEF Reconciling, Reconciled, RefusedOnlyIfWithdrawn, Idle

\* The upload turns to events whose consents are reconciled.
LEMMA TurnsToEvents ==
  ASSUME UNCHANGED <<consent, cloud>>, strayed \in BOOLEAN,
         strayed => strayed', NEW entries, Sends(upload', entries),
         \A e \in entries : Entered(e) /\ (~strayed => Known(e))
  PROVE  /\ Reconciling' /\ Reconciled' /\ RefusedOnlyIfWithdrawn'
         /\ upload'.pc # "consent"
<1>1. upload'.pc = "event" /\ upload'.verdict = "none"
  BY DEF Sends
<1>2. \A e \in upload'.rest \union {upload'.entry} :
        e.version >= 1 /\ Under(e)' /\ (~strayed' => Known(e)')
  BY Unmoved DEF Sends, Entered
<1> QED BY <1>1, <1>2 DEF Reconciling, Reconciled, RefusedOnlyIfWithdrawn

\* The upload turns to the consent of the k-th purpose.
LEMMA TurnsToConsent ==
  ASSUME UNCHANGED <<consent, cloud>>, strayed \in BOOLEAN,
         strayed => strayed',
         NEW who \in Accounts, NEW due, NEW k \in {1, 2},
         Asks(upload', who, due, k), ~strayed' => auth = who,
         ~strayed /\ k = 2 =>
           \A r \in outbox' : r.account = who /\ r.id \in due
                              /\ r.purpose = "metrics" => Known(r)
  PROVE  /\ Reconciling' /\ Reconciled' /\ RefusedOnlyIfWithdrawn'
         /\ ~strayed' => /\ upload'.letter.account = upload'.who
                         /\ upload'.letter.purpose = PurposeOrder[upload'.step]
                         /\ Past(upload'.who, upload'.letter.purpose,
                                 upload'.letter.receipt)
         /\ upload'.due = due
<1>1. /\ upload'.pc = "consent" /\ upload'.answer = "none"
      /\ upload'.who = who /\ upload'.due = due /\ upload'.step = k
      /\ upload'.letter.account = auth
      /\ upload'.letter.purpose = PurposeOrder[k]
      /\ upload'.letter.receipt = consent[who][PurposeOrder[k]]
  BY DEF Asks
<1>2. Reconciling'
  <2> SUFFICES ASSUME ~strayed', NEW r \in outbox',
                      r.account = who, r.id \in due
               PROVE  /\ k = 2 /\ r.purpose = "metrics" => Known(r)'
                      /\ r.purpose = PurposeOrder[k] =>
                           upload'.letter.receipt = Choice(r)'
    BY <1>1 DEF Reconciling
  <2>1. k = 2 /\ r.purpose = "metrics" => Known(r)'
    BY Unmoved
  <2>2. r.purpose = PurposeOrder[k] => upload'.letter.receipt = Choice(r)'
    BY <1>1, Unmoved DEF Choice
  <2> QED BY <2>1, <2>2
<1>3. Reconciled' /\ RefusedOnlyIfWithdrawn'
  BY <1>1 DEF Reconciled, RefusedOnlyIfWithdrawn
<1>4. Past(who, PurposeOrder[k], upload'.letter.receipt)
  BY <1>1 DEF Past
<1> QED BY <1>1, <1>2, <1>3, <1>4

\* What the steps of an upload keep.
Delivery == Honest /\ Reconciling /\ Reconciled /\ RefusedOnlyIfWithdrawn

\* The cloud and the requests but for the upload's own.
LEMMA StaysHonest ==
  ASSUME Honest, UNCHANGED <<consent, cloud>>, strayed => strayed',
         \/ letters' = letters /\ upload'.pc # "consent"
         \/ letters' = letters /\ upload' = upload
         \/ /\ letters' = letters \union {upload'.letter}
            /\ ~strayed' =>
                 /\ upload'.letter.account = upload'.who
                 /\ upload'.letter.purpose = PurposeOrder[upload'.step]
                 /\ Past(upload'.who, upload'.letter.purpose,
                         upload'.letter.receipt)
  PROVE  Honest'
<1> SUFFICES ASSUME ~strayed' PROVE Honest'
  BY DEF Honest
<1>0. \A a, p, receipt : Past(a, p, receipt)
                          = (\/ receipt.version < consent'[a][p].version
                             \/ receipt = consent'[a][p])
  BY DEF Past
<1>1. \A a \in Accounts, p \in Purposes : Past(a, p, cloud[a][p])'
  BY Unmoved DEF Honest
<1>2. \A l \in letters : Past(l.account, l.purpose, l.receipt)'
  BY Unmoved DEF Honest
<1>3. \A l \in letters' : Past(l.account, l.purpose, l.receipt)'
  BY <1>2, Unmoved
<1>4. upload'.pc = "consent" =>
        /\ upload'.letter.account = upload'.who
        /\ upload'.letter.purpose = PurposeOrder[upload'.step]
        /\ Past(upload'.who, upload'.letter.purpose, upload'.letter.receipt)
  BY Unmoved DEF Honest
<1> QED BY <1>0, <1>1, <1>3, <1>4 DEF Honest, Past


\* The rows of an upload that begins, goes on or ends, and what it does next.
LEMMA Enlists ==
  ASSUME QualityInv, UNCHANGED <<consent, cloud, strayed>>,
         NEW rows \in SUBSET RowType, \A r \in rows : Entered(r),
         \A r \in rows : r \in outbox
                         \/ (upload.pc = "consent" => r.id \notin upload.due),
         \/ Becomes(UploadPending(rows, letters))
         \/ upload' \in {upload, Idle} /\ letters' = letters /\ outbox' = rows
  PROVE  /\ From(outbox', rows) /\ Delivery'
         /\ upload' \in {Idle} \union Waiting \union Sending
         /\ letters' \subseteq LetterType
         /\ upload'.pc = "consent" =>
              \/ upload'.due \subseteq Ids(rows)
              \/ upload.pc = "consent" /\ upload'.due = upload.due
<1>1. TypeOK /\ Delivery /\ strayed \in BOOLEAN
  BY DEF QualityInv, Delivery, TypeOK
<1>2. letters \in SUBSET LetterType
  BY <1>1 DEF TypeOK
<1>3. /\ From(outbox', rows)
      /\ \/ upload' = upload /\ letters' = letters
         \/ upload' = Idle /\ letters' = letters
         \/ \E due \in SUBSET Ids(rows) :
              /\ auth \in Accounts
              /\ \/ /\ Sends(upload', Listed(due, auth, rows))
                    /\ letters' = letters
                    /\ Skipped(auth, 1, 3)
                 \/ \E k \in {1, 2} :
                      /\ Asks(upload', auth, due, k)
                      /\ Skipped(auth, 1, k)
                      /\ letters' = letters \union {upload'.letter}
  <2>1. CASE Becomes(UploadPending(rows, letters))
    <3>1. PICK s \in UploadPending(rows, letters) :
            upload' = s.upload /\ letters' = s.letters /\ outbox' = s.outbox
      BY <2>1 DEF Becomes
    <3> QED BY <1>1, <1>2, <3>1, Uploads
  <2>2. CASE upload' \in {upload, Idle} /\ letters' = letters /\ outbox' = rows
    BY <2>2, FromSubset
  <2> QED BY <2>1, <2>2
<1>4. From(outbox', rows)
  BY <1>3
<1>5. CASE upload' = upload /\ letters' = letters
  <2>1. Honest'
    BY <1>1, <1>5, StaysHonest DEF Delivery
  <2>2. Reconciled' /\ RefusedOnlyIfWithdrawn'
    BY <1>1, <1>5, Unmoved
    DEF Delivery, Reconciled, RefusedOnlyIfWithdrawn, Granted
  <2>3. Reconciling'
    <3> SUFFICES ASSUME ~strayed', upload'.pc = "consent", NEW r \in outbox',
                        r.account = upload'.who, r.id \in upload'.due
                 PROVE  /\ upload'.step = 2 /\ r.purpose = "metrics" => Known(r)'
                        /\ r.purpose = upload'.letter.purpose =>
                             /\ Superseded(r)'
                                \/ upload'.letter.receipt = Choice(r)'
                             /\ upload'.answer = "recorded" => Known(r)'
      BY DEF Reconciling
    <3>1. PICK x \in rows : Same(r, x)
      BY <1>4 DEF From
    <3>2. x \in outbox /\ x.account = r.account /\ x.id = r.id
          /\ x.purpose = r.purpose
      BY <1>5, <3>1 DEF Same
    <3>3. /\ Known(r)' = Known(x) /\ Choice(r)' = Choice(x)
          /\ Superseded(r)' = Superseded(x)
      BY <3>1, SameRows, Unmoved
    <3> QED BY <1>1, <1>5, <3>2, <3>3 DEF Delivery, Reconciling
  <2> QED BY <1>1, <1>2, <1>4, <1>5, <2>1, <2>2, <2>3 DEF TypeOK, Delivery
<1>6. CASE upload' = Idle /\ letters' = letters
  <2>1. Honest'
    BY <1>1, <1>6, StaysHonest, Ends DEF Delivery
  <2> QED BY <1>2, <1>4, <1>6, <2>1, Ends DEF Delivery
<1>7. ASSUME NEW due \in SUBSET Ids(rows), auth \in Accounts,
             Sends(upload', Listed(due, auth, rows)), letters' = letters,
             Skipped(auth, 1, 3)
      PROVE  Delivery' /\ upload' \in Sending /\ upload'.pc # "consent"
  <2>1. ASSUME NEW e \in Listed(due, auth, rows) PROVE FALSE
    <3>1. e \in RowType /\ e.account = auth /\ Entered(e)
      BY DEF Listed
    <3>2. e.purpose # PurposeOrder[1] /\ e.purpose # PurposeOrder[2]
      BY <1>1, <1>7, <3>1, NoRows DEF Entered
    <3> QED BY <3>1, <3>2, Orders DEF RowType
  <2> QED BY <1>7, <2>1 DEF Sends
<1>8. ASSUME NEW due \in SUBSET Ids(rows), auth \in Accounts, NEW k \in {1, 2},
             Asks(upload', auth, due, k), Skipped(auth, 1, k),
             letters' = letters \union {upload'.letter}
      PROVE  /\ Delivery' /\ upload' \in Waiting /\ upload'.due \subseteq Ids(rows)
             /\ letters' \subseteq LetterType
  <2>1. upload' \in Waiting /\ upload'.letter \in LetterType
    BY <1>8 DEF Asks, Waiting
  <2>2. ASSUME k = 2, NEW r \in outbox', r.account = auth, r.purpose = "metrics"
        PROVE  FALSE
    <3>1. PICK x \in rows : Same(r, x)
      BY <1>4, <2>2 DEF From
    <3>2. x \in RowType /\ x.account = auth /\ x.purpose = "metrics" /\ Entered(x)
      BY <2>2, <3>1 DEF Same
    <3> QED BY <1>1, <1>8, <2>2, <3>2, NoRows, Orders DEF Entered
  <2>3. /\ Reconciling' /\ Reconciled' /\ RefusedOnlyIfWithdrawn'
        /\ ~strayed' => /\ upload'.letter.account = upload'.who
                        /\ upload'.letter.purpose = PurposeOrder[upload'.step]
                        /\ Past(upload'.who, upload'.letter.purpose,
                                upload'.letter.receipt)
        /\ upload'.due = due
    BY <1>1, <1>8, <2>2, TurnsToConsent
  <2>4. Honest'
    BY <1>1, <1>8, <2>3, StaysHonest DEF Delivery
  <2> QED BY <1>2, <1>8, <2>1, <2>3, <2>4 DEF Delivery
<1> QED BY <1>2, <1>3, <1>4, <1>5, <1>6, <1>7, <1>8

\* The answer to a consent: the events due have it reconciled.
LEMMA NextPurpose ==
  ASSUME QualityInv, ConsentReconciled
  PROVE  /\ From(outbox', outbox) /\ Delivery'
         /\ upload' \in {Idle} \union Waiting \union Sending
         /\ letters' \subseteq LetterType /\ strayed' \in BOOLEAN
         /\ upload'.pc = "consent" => upload'.due = upload.due
<1>1. /\ TypeOK /\ Delivery /\ strayed \in BOOLEAN /\ outbox \in SUBSET RowType
      /\ letters \in SUBSET LetterType /\ \A r \in outbox : Entered(r)
  BY DEF QualityInv, Delivery, TypeOK, Held, Entered
<1>2. /\ upload \in Waiting /\ upload.pc = "consent"
      /\ upload.answer = "recorded"
  BY <1>1, UploadCases DEF ConsentReconciled
<1>3. /\ upload.step \in {1, 2} /\ upload.who \in Accounts
      /\ upload.due \in SUBSET Nat /\ upload.step + 1 \in {1, 2, 3}
  BY <1>2 DEF Waiting
<1>4. /\ UNCHANGED <<consent, cloud>> /\ strayed' \in BOOLEAN
      /\ strayed => strayed'
      /\ ~strayed' /\ upload'.pc = "consent" => auth = upload.who
  BY <1>1 DEF ConsentReconciled
<1>5. PICK s \in Reconcile(upload.step + 1, upload.who, upload.due, outbox,
                           letters) :
        upload' = s.upload /\ letters' = s.letters /\ outbox' = s.outbox
  BY DEF ConsentReconciled, Becomes
<1>6. From(outbox', outbox)
  BY <1>1, <1>3, <1>5, Reconciles
<1>7. ASSUME ~strayed, NEW r \in outbox, r.account = upload.who,
             r.id \in upload.due,
             r.purpose = "metrics" \/ upload.step = 2
      PROVE  Known(r)
  <2>1. upload.letter.purpose = PurposeOrder[upload.step]
    BY <1>1, <1>2, <1>7 DEF Delivery, Honest
  <2>2. r.purpose \in Purposes
    BY <1>1 DEF RowType
  <2>3. CASE upload.step = 1
    BY <1>1, <1>2, <1>7, <2>1, <2>3, Orders DEF Delivery, Reconciling
  <2>4. CASE upload.step = 2
    BY <1>1, <1>2, <1>7, <2>1, <2>2, <2>4, Orders DEF Delivery, Reconciling
  <2> QED BY <1>3, <2>3, <2>4
<1>8. CASE upload' = Idle /\ letters' = letters
  <2>1. Honest'
    BY <1>1, <1>4, <1>8, StaysHonest, Ends DEF Delivery
  <2> QED BY <1>1, <1>4, <1>6, <1>8, <2>1, Ends DEF Delivery
<1>9. ASSUME Sends(upload', Listed(upload.due, upload.who, outbox)),
             letters' = letters, Skipped(upload.who, upload.step + 1, 3)
      PROVE  Delivery' /\ upload' \in Sending /\ upload'.pc # "consent"
  <2>1. ASSUME NEW e \in Listed(upload.due, upload.who, outbox)
        PROVE  Entered(e) /\ (~strayed => Known(e))
    <3>1. e \in outbox /\ e.account = upload.who /\ e.id \in upload.due
          /\ Entered(e) /\ e \in RowType
      BY <1>1 DEF Listed
    <3>2. CASE e.purpose = "metrics" \/ upload.step = 2
      BY <1>7, <3>1, <3>2
    <3>3. CASE e.purpose # "metrics" /\ upload.step = 1
      <4>1. e.purpose = PurposeOrder[2]
        BY <3>1, <3>3, Orders DEF RowType
      <4> QED BY <1>1, <1>3, <1>9, <3>1, <3>3, <4>1, NoRows DEF Entered
    <3> QED BY <1>3, <3>2, <3>3
  <2>2. /\ Reconciling' /\ Reconciled' /\ RefusedOnlyIfWithdrawn'
        /\ upload'.pc # "consent"
    BY <1>1, <1>4, <1>9, <2>1, TurnsToEvents
  <2>3. Honest'
    BY <1>1, <1>4, <1>9, <2>2, StaysHonest DEF Delivery
  <2> QED BY <1>9, <2>2, <2>3 DEF Delivery, Sends
<1>10. ASSUME NEW k \in {1, 2}, k >= upload.step + 1,
              Asks(upload', upload.who, upload.due, k),
              letters' = letters \union {upload'.letter}
       PROVE  /\ Delivery' /\ upload' \in Waiting /\ upload'.due = upload.due
              /\ letters' \subseteq LetterType
  <2>1. upload' \in Waiting /\ upload'.letter \in LetterType
        /\ upload'.pc = "consent"
    BY <1>10 DEF Asks, Waiting
  <2>2. ASSUME ~strayed, NEW r \in outbox', r.account = upload.who,
               r.id \in upload.due, r.purpose = "metrics"
        PROVE  Known(r)
    <3>1. PICK x \in outbox : Same(r, x)
      BY <1>6, <2>2 DEF From
    <3>2. Known(x)
      BY <1>7, <2>2, <3>1 DEF Same
    <3> QED BY <3>1, <3>2, SameRows
  <2>3. /\ Reconciling' /\ Reconciled' /\ RefusedOnlyIfWithdrawn'
        /\ ~strayed' => /\ upload'.letter.account = upload'.who
                        /\ upload'.letter.purpose = PurposeOrder[upload'.step]
                        /\ Past(upload'.who, upload'.letter.purpose,
                                upload'.letter.receipt)
        /\ upload'.due = upload.due
    BY <1>1, <1>3, <1>4, <1>10, <2>1, <2>2, TurnsToConsent
  <2>4. Honest'
    BY <1>1, <1>4, <1>10, <2>3, StaysHonest DEF Delivery
  <2> QED BY <1>1, <1>10, <2>1, <2>3, <2>4 DEF Delivery
<1> QED BY <1>1, <1>3, <1>4, <1>5, <1>6, <1>8, <1>9, <1>10, Reconciles

\* An event is over, whatever became of it: the next one.
LEMMA NextEvent ==
  ASSUME QualityInv, upload.pc = "event", UNCHANGED <<consent, cloud, strayed>>,
         NEW rows, From(rows, outbox), SendRest(rows)
  PROVE  /\ From(outbox', outbox) /\ Delivery'
         /\ upload' \in {Idle} \union Waiting \union Sending
         /\ letters' = letters /\ upload'.pc # "consent"
<1>1. TypeOK /\ Delivery /\ strayed \in BOOLEAN
  BY DEF QualityInv, Delivery, TypeOK
<1>2. upload.rest \in SUBSET RowType
  BY <1>1, UploadCases DEF Idle, Waiting, Sending
<1>3. PICK s \in SendEvents(upload.rest, rows, letters) :
        upload' = s.upload /\ letters' = s.letters /\ outbox' = s.outbox
  BY DEF SendRest, Becomes
<1>8. rows \in SUBSET RowType
  BY DEF From
<1>4. /\ From(outbox', rows) /\ letters' = letters
      /\ upload' = Idle \/ Sends(upload', upload.rest)
  BY <1>1, <1>2, <1>3, <1>8, Sent
<1>5. From(outbox', outbox)
  BY <1>4 DEF From, Same
<1>6. CASE upload' = Idle
  <2>1. Honest'
    BY <1>1, <1>4, <1>6, StaysHonest, Ends DEF Delivery
  <2> QED BY <1>4, <1>5, <1>6, <2>1, Ends DEF Delivery
<1>7. CASE Sends(upload', upload.rest)
  <2>1. \A e \in upload.rest : Entered(e) /\ (~strayed => Known(e))
    BY <1>1 DEF Delivery, Reconciled, Entered
  <2>2. /\ Reconciling' /\ Reconciled' /\ RefusedOnlyIfWithdrawn'
        /\ upload'.pc # "consent"
    BY <1>1, <1>7, <2>1, TurnsToEvents
  <2>3. Honest'
    BY <1>1, <1>4, <2>2, StaysHonest DEF Delivery
  <2> QED BY <1>4, <1>5, <1>7, <2>2, <2>3 DEF Delivery, Sends
<1> QED BY <1>4, <1>6, <1>7

\* The cloud looks at an event: it knows the consent the event stands on.
LEMMA EventStep ==
  ASSUME QualityInv, EventArrives
  PROVE  Delivery' /\ upload' \in Sending /\ upload'.pc = "event"
<1>1. /\ TypeOK /\ Delivery /\ upload \in Sending /\ upload.pc = "event"
      /\ UNCHANGED <<consent, cloud, strayed, outbox, letters>>
  <2>1. TypeOK /\ Delivery
    BY DEF QualityInv, Delivery
  <2> QED BY <2>1, UploadCases DEF EventArrives
<1> DEFINE e == upload.entry
           held == cloud[e.account][e.purpose]
           verdict == IF upload.token # e.account THEN "forbidden"
                      ELSE IF held = [on |-> TRUE, version |-> e.version]
                      THEN "accepted" ELSE "no consent"
<1>2. upload' = [upload EXCEPT !.verdict = verdict]
  BY DEF EventArrives
<1>3. /\ upload' \in Sending /\ upload'.pc = "event"
      /\ upload'.entry = e /\ upload'.rest = upload.rest
      /\ upload'.verdict = verdict
  <2> HIDE DEF e
  <2>1. verdict \in {"none", "accepted", "forbidden", "no consent"}
    OBVIOUS
  <2> HIDE DEF verdict
  <2> QED BY <1>1, <1>2, <2>1 DEF Sending, e
<1>4. Entered(e) /\ (~strayed => Known(e))
  BY <1>1 DEF Delivery, Reconciled, Entered
<1>5. RefusedOnlyIfWithdrawn'
  <2>1. SUFFICES ASSUME upload'.verdict = "no consent", ~strayed,
                        Choice(e) = Granted(e)
                 PROVE  FALSE
    BY <1>1, <1>3 DEF RefusedOnlyIfWithdrawn, Choice, Granted
  <2>2. PICK x \in RowType : x = e
    BY <1>1 DEF Sending
  <2>3. x.version \in Nat /\ Granted(x).version = x.version
    BY DEF RowType, Granted
  <2> HIDE DEF e
  <2>6. Choice(x) = Granted(x)
    BY <2>1, <2>2
  <2>4. ~Superseded(x)
    <3>1. Choice(x).version = x.version
      BY <2>3, <2>6
    <3> QED BY <2>3, <3>1 DEF Superseded
  <2>5. held = Granted(x)
    BY <1>4, <2>1, <2>2, <2>4, <2>6 DEF Known
  <2> QED BY <1>3, <2>1, <2>2, <2>5 DEF Granted
<1>6. Reconciling' /\ Reconciled' /\ Honest'
  <2> HIDE DEF e, held, verdict
  <2>1. Honest'
    BY <1>1, <1>3, StaysHonest DEF Delivery
  <2>2. Reconciling'
    BY <1>3 DEF Reconciling
  <2>3. Reconciled'
    BY <1>1, <1>3, Unmoved DEF Delivery, Reconciled, e
  <2> QED BY <2>1, <2>2, <2>3
<1> QED BY <1>3, <1>5, <1>6 DEF Delivery

-----------------------------------------------------------------------------
(* Choices of consent, and their way to the cloud.                         *)

\* Choices only move to higher versions.
Grows ==
  \A a \in Accounts, p \in Purposes :
    \/ consent'[a][p] = consent[a][p]
    \/ consent[a][p].version < consent'[a][p].version

\* A later choice leaves nothing standing on the earlier one.
LEMMA Outgrown ==
  ASSUME TypeOK, Grows, consent' \in [Accounts -> [Purposes -> ReceiptType]],
         UNCHANGED cloud
  PROVE  /\ \A r : r \in RowType /\ Under(r) =>
              /\ Under(r)'
              /\ Choice(r)' = Choice(r) \/ Superseded(r)'
              /\ Superseded(r) => Superseded(r)'
              /\ Known(r) => Known(r)'
         /\ \A a \in Accounts, p \in Purposes, receipt \in ReceiptType :
              Past(a, p, receipt) => Past(a, p, receipt)'
<1>1. ASSUME NEW r \in RowType, Under(r)
      PROVE  /\ Choice(r)' = Choice(r) \/ Superseded(r)'
             /\ Superseded(r) => Superseded(r)'
             /\ Granted(r)' = Granted(r)
  <2>1. r.account \in Accounts /\ r.purpose \in Purposes /\ r.version \in Nat
    BY Orders DEF RowType
  <2>2. Choice(r) \in ReceiptType /\ Choice(r)' \in ReceiptType
    BY <2>1 DEF TypeOK, Choice
  <2>3. Choice(r)' = Choice(r) \/ Choice(r).version < Choice(r)'.version
    BY <2>1 DEF Grows, Choice
  <2>4. Granted(r).version = r.version
    BY DEF Granted
  <2>5. r.version <= Choice(r).version
    BY <1>1, <2>1, <2>2, <2>4 DEF Under, Superseded, ReceiptType
  <2>6. Choice(r)' = Choice(r) \/ Superseded(r)'
    BY <2>1, <2>2, <2>3, <2>5 DEF Superseded, ReceiptType
  <2>7. Superseded(r) => Superseded(r)'
    BY <2>1, <2>2, <2>3 DEF Superseded, ReceiptType
  <2> QED BY <2>6, <2>7 DEF Granted
<1>2. ASSUME NEW r \in RowType, Under(r)
      PROVE  Under(r)' /\ (Known(r) => Known(r)')
  <2>1. Under(r)'
    BY <1>1, <1>2 DEF Under
  <2>2. cloud'[r.account][r.purpose] = cloud[r.account][r.purpose]
    OBVIOUS
  <2>3. Known(r) => Known(r)'
    BY <1>1, <1>2, <2>2 DEF Known
  <2> QED BY <2>1, <2>3
<1>3. ASSUME NEW a \in Accounts, NEW p \in Purposes, NEW receipt \in ReceiptType,
             Past(a, p, receipt)
      PROVE  Past(a, p, receipt)'
  <2>1. /\ consent[a][p] \in ReceiptType /\ consent'[a][p] \in ReceiptType
        /\ \/ consent'[a][p] = consent[a][p]
           \/ consent[a][p].version < consent'[a][p].version
    BY DEF TypeOK, Grows
  <2> QED BY <1>3, <2>1 DEF Past, ReceiptType
<1> QED BY <1>1, <1>2, <1>3

\* A choice: rows under it are superseded, requests are of choices made.
LEMMA Chosen ==
  ASSUME QualityInv, Grows, UNCHANGED <<cloud, strayed>>,
         consent' \in [Accounts -> [Purposes -> ReceiptType]],
         outbox' \subseteq outbox, upload' \in {upload, Idle},
         letters' \subseteq LetterType,
         \A l \in letters' : \/ l \in letters
                             \/ Past(l.account, l.purpose, l.receipt)'
  PROVE  /\ Delivery' /\ \A r \in outbox' : r.version >= 1 /\ Under(r)'
<1>1. /\ TypeOK /\ Delivery /\ outbox \subseteq RowType /\ letters \subseteq LetterType
      /\ \A r \in outbox : Entered(r)
  BY DEF QualityInv, Delivery, TypeOK, Held, Entered
<1>2. \A r \in outbox' : r \in RowType /\ Entered(r)
  BY <1>1
<1>3. \A r \in outbox' : r.version >= 1 /\ Under(r)'
  BY <1>1, <1>2, Outgrown DEF Entered
<1>4. CASE upload' = Idle
  <2>1. Honest'
    <3> SUFFICES ASSUME ~strayed
                 PROVE  /\ \A a \in Accounts, p \in Purposes :
                             Past(a, p, cloud[a][p])'
                        /\ \A l \in letters' :
                             Past(l.account, l.purpose, l.receipt)'
      BY <1>4 DEF Honest, Idle
    <3>1. \A a \in Accounts, p \in Purposes : Past(a, p, cloud[a][p])'
      BY <1>1, Outgrown DEF Delivery, Honest, TypeOK
    <3>2. \A l \in letters' : Past(l.account, l.purpose, l.receipt)'
      BY <1>1, Outgrown, Orders DEF Delivery, Honest, LetterType
    <3> QED BY <3>1, <3>2
  <2> QED BY <1>3, <1>4, <2>1, Ends DEF Delivery
<1>5. CASE upload' = upload
  <2>1. Honest'
    <3> SUFFICES ASSUME ~strayed
                 PROVE  /\ \A a \in Accounts, p \in Purposes :
                             Past(a, p, cloud[a][p])'
                        /\ \A l \in letters' :
                             Past(l.account, l.purpose, l.receipt)'
                        /\ upload.pc = "consent" =>
                             Past(upload.who, upload.letter.purpose,
                                  upload.letter.receipt)'
      BY <1>1, <1>5 DEF Delivery, Honest
    <3>1. \A a \in Accounts, p \in Purposes : Past(a, p, cloud[a][p])'
      BY <1>1, Outgrown DEF Delivery, Honest, TypeOK
    <3>2. \A l \in letters' : Past(l.account, l.purpose, l.receipt)'
      BY <1>1, Outgrown, Orders DEF Delivery, Honest, LetterType
    <3>3. ASSUME upload.pc = "consent"
          PROVE  Past(upload.who, upload.letter.purpose, upload.letter.receipt)'
      <4>1. upload \in Waiting
        BY <1>1, <3>3, UploadCases
      <4>2. /\ upload.who \in Accounts /\ upload.letter.purpose \in Purposes
            /\ upload.letter.receipt \in ReceiptType
        BY <4>1, Orders DEF Waiting, LetterType
      <4>3. Past(upload.who, upload.letter.purpose, upload.letter.receipt)
        BY <1>1, <3>3 DEF Delivery, Honest
      <4> DEFINE who == upload.who  purpose == upload.letter.purpose
                 receipt == upload.letter.receipt
      <4>4. Past(who, purpose, receipt)' <=>
              \/ receipt.version < consent'[who][purpose].version
              \/ receipt = consent'[who][purpose]
        BY <1>5 DEF Past
      <4>5. /\ consent[who][purpose] \in ReceiptType
            /\ consent'[who][purpose] \in ReceiptType
            /\ \/ consent'[who][purpose] = consent[who][purpose]
               \/ consent[who][purpose].version < consent'[who][purpose].version
        BY <1>1, <4>2 DEF TypeOK, Grows
      <4> QED BY <4>2, <4>3, <4>4, <4>5 DEF Past, ReceiptType
    <3> QED BY <3>1, <3>2, <3>3
  <2>2. Reconciling'
    <3> SUFFICES ASSUME ~strayed, upload.pc = "consent", NEW r \in outbox',
                        r.account = upload.who, r.id \in upload.due
                 PROVE  /\ upload.step = 2 /\ r.purpose = "metrics" => Known(r)'
                        /\ r.purpose = upload.letter.purpose =>
                             /\ Superseded(r)'
                                \/ upload.letter.receipt = Choice(r)'
                             /\ upload.answer = "recorded" => Known(r)'
      BY <1>5 DEF Reconciling
    <3>1. /\ upload.step = 2 /\ r.purpose = "metrics" => Known(r)
          /\ r.purpose = upload.letter.purpose =>
               /\ Superseded(r) \/ upload.letter.receipt = Choice(r)
               /\ upload.answer = "recorded" => Known(r)
      BY <1>1 DEF Delivery, Reconciling
    <3>2. /\ Choice(r)' = Choice(r) \/ Superseded(r)'
          /\ Superseded(r) => Superseded(r)'
          /\ Known(r) => Known(r)'
      BY <1>1, <1>2, Outgrown DEF Entered
    <3> QED BY <3>1, <3>2
  <2>3. ASSUME upload.pc = "event"
        PROVE  \A e \in upload.rest \union {upload.entry} :
                 /\ e \in RowType /\ e.version >= 1 /\ Under(e)
                 /\ Under(e)' /\ (~strayed => Known(e)')
                 /\ Choice(e)' = Choice(e) \/ Superseded(e)'
    <3>1. upload \in Sending
      BY <1>1, <2>3, UploadCases
    <3>2. \A e \in upload.rest \union {upload.entry} :
            e \in RowType /\ e.version >= 1 /\ Under(e) /\ (~strayed => Known(e))
      BY <1>1, <2>3, <3>1 DEF Sending, Delivery, Reconciled
    <3> QED BY <1>1, <3>2, Outgrown
  <2>4. Reconciled'
    BY <1>5, <2>3 DEF Reconciled
  <2>5. RefusedOnlyIfWithdrawn'
    <3>1. SUFFICES ASSUME upload.pc = "event", upload.verdict = "no consent",
                          ~strayed
                   PROVE  \A e : e = upload.entry => Choice(e)' # Granted(e)
      BY <1>5 DEF RefusedOnlyIfWithdrawn, Choice, Granted
    <3>2. TAKE e
    <3>3. HAVE e = upload.entry
    <3>4. Choice(e) # Granted(e)
      BY <1>1, <3>1, <3>3 DEF Delivery, RefusedOnlyIfWithdrawn, Choice, Granted
    <3>5. e \in RowType /\ (Choice(e)' = Choice(e) \/ Superseded(e)')
      BY <2>3, <3>1, <3>3
    <3>6. Superseded(e)' => e.version < Choice(e)'.version
      BY DEF Superseded
    <3>7. Granted(e).version = e.version /\ e.version \in Nat
      BY <3>5 DEF Granted, RowType
    <3> QED BY <3>4, <3>5, <3>6, <3>7
  <2> QED BY <1>3, <2>1, <2>2, <2>4, <2>5 DEF Delivery
<1> QED BY <1>4, <1>5

\* A consent request arrives: the cloud only learns of choices made, and is
\* asked for none it knows already.
LEMMA CloudStep ==
  ASSUME QualityInv, NEW l \in letters, ConsentArrives(l)
  PROVE  /\ Delivery' /\ letters' \subseteq LetterType
         /\ cloud' \in [Accounts -> [Purposes -> ReceiptType]]
         /\ upload' \in {Idle} \union Waiting \union Sending
         /\ upload'.pc = "consent" => upload.pc = "consent"
                                      /\ upload'.due = upload.due
<1> DEFINE current == cloud[l.account][l.purpose]
           newer == l.receipt.version > current.version
<1>1. /\ TypeOK /\ Delivery /\ outbox \subseteq RowType /\ letters \subseteq LetterType
      /\ \A r \in outbox : Entered(r)
      /\ UNCHANGED <<consent, strayed, outbox>> /\ letters' = letters \ {l}
      /\ cloud' = IF newer THEN [cloud EXCEPT ![l.account][l.purpose] = l.receipt]
                           ELSE cloud
  BY DEF QualityInv, Delivery, TypeOK, Held, Entered, ConsentArrives
<1>2. /\ l.account \in Accounts /\ l.purpose \in Purposes
      /\ l.receipt \in ReceiptType /\ current \in ReceiptType
  BY <1>1, Orders DEF LetterType, TypeOK
<1>3. cloud' \in [Accounts -> [Purposes -> ReceiptType]]
  BY <1>1, <1>2 DEF TypeOK
<1>4. \A a \in Accounts, p \in Purposes :
        cloud'[a][p] = IF newer /\ a = l.account /\ p = l.purpose
                       THEN l.receipt ELSE cloud[a][p]
  BY <1>1, <1>2 DEF TypeOK
<1>5. ~strayed => Past(l.account, l.purpose, l.receipt)
  BY <1>1 DEF Delivery, Honest
<1>6. \A a, p, receipt : Past(a, p, receipt)' = Past(a, p, receipt)
  BY <1>1 DEF Past
<1>7. \A r : /\ Choice(r)' = Choice(r) /\ Granted(r)' = Granted(r)
             /\ Superseded(r)' = Superseded(r) /\ Under(r)' = Under(r)
  BY <1>1 DEF Choice, Granted, Superseded, Under
<1>8. ASSUME ~strayed, NEW r \in RowType, Known(r)
      PROVE  Known(r)'
  <2>1. r.account \in Accounts /\ r.purpose \in Purposes
    BY Orders DEF RowType
  <2>2. SUFFICES ASSUME cloud[r.account][r.purpose] = Choice(r)
                 PROVE  cloud'[r.account][r.purpose] = Choice(r)
    BY <1>7, <1>8 DEF Known
  <2>3. CASE newer /\ r.account = l.account /\ r.purpose = l.purpose
    <3>1. Choice(r) = current /\ Past(r.account, r.purpose, l.receipt)
      BY <1>5, <1>8, <2>2, <2>3
    <3>2. l.receipt.version < current.version \/ l.receipt = current
      BY <3>1 DEF Past, Choice
    <3> QED BY <1>2, <2>3, <3>2 DEF ReceiptType
  <2>4. CASE ~(newer /\ r.account = l.account /\ r.purpose = l.purpose)
    BY <1>4, <2>1, <2>2, <2>4
  <2> QED BY <2>3, <2>4
<1>9. \/ upload' = upload
      \/ /\ upload.pc = "consent" /\ upload.letter = l
         /\ upload' = [upload EXCEPT !.answer =
                         IF newer \/ current = l.receipt THEN "recorded"
                                                         ELSE "conflict"]
  BY DEF ConsentArrives
<1>10. \/ upload' = upload
       \/ /\ upload' \in Waiting /\ upload.pc = "consent" /\ upload'.pc = "consent"
          /\ upload.letter = l /\ upload'.letter = upload.letter
          /\ upload'.who = upload.who /\ upload'.due = upload.due
          /\ upload'.step = upload.step
          /\ upload'.answer = "recorded" => newer \/ current = l.receipt
  <2> HIDE DEF newer, current
  <2>1. upload.pc = "consent" => upload \in Waiting
    BY <1>1, UploadCases
  <2>2. ASSUME NEW answer \in {"recorded", "conflict"}, upload \in Waiting,
               upload' = [upload EXCEPT !.answer = answer]
        PROVE  /\ upload' \in Waiting /\ upload'.pc = "consent"
               /\ upload'.letter = upload.letter
               /\ upload'.who = upload.who /\ upload'.due = upload.due
               /\ upload'.step = upload.step /\ upload'.answer = answer
    BY <2>2 DEF Waiting
  <2> QED BY <1>9, <2>1, <2>2
<1> HIDE DEF newer
<1>11. Honest'
  <2> SUFFICES ASSUME ~strayed PROVE Honest'
    BY <1>1 DEF Honest
  <2>1. \A a \in Accounts, p \in Purposes : Past(a, p, cloud'[a][p])
    BY <1>1, <1>4, <1>5 DEF Delivery, Honest
  <2>2. \A m \in letters' : Past(m.account, m.purpose, m.receipt)
    BY <1>1 DEF Delivery, Honest
  <2>3. upload'.pc = "consent" =>
          /\ upload'.letter.account = upload'.who
          /\ upload'.letter.purpose = PurposeOrder[upload'.step]
          /\ Past(upload'.who, upload'.letter.purpose, upload'.letter.receipt)
    BY <1>1, <1>10 DEF Delivery, Honest
  <2> QED BY <1>1, <2>1, <2>2, <2>3 DEF Honest, Past
<1>12. Reconciling'
  <2> SUFFICES ASSUME ~strayed, upload'.pc = "consent", NEW r \in outbox,
                      r.account = upload'.who, r.id \in upload'.due
               PROVE  /\ upload'.step = 2 /\ r.purpose = "metrics" => Known(r)'
                      /\ r.purpose = upload'.letter.purpose =>
                           /\ Superseded(r)'
                              \/ upload'.letter.receipt = Choice(r)'
                           /\ upload'.answer = "recorded" => Known(r)'
    BY <1>1 DEF Reconciling
  <2>1. /\ upload.pc = "consent" /\ upload'.step = upload.step
        /\ upload'.letter = upload.letter /\ upload'.who = upload.who
        /\ upload'.due = upload.due
    BY <1>10
  <2>2. /\ upload.step = 2 /\ r.purpose = "metrics" => Known(r)
        /\ r.purpose = upload.letter.purpose =>
             /\ Superseded(r) \/ upload.letter.receipt = Choice(r)
             /\ upload.answer = "recorded" => Known(r)
    BY <1>1, <2>1 DEF Delivery, Reconciling
  <2>3. r \in RowType
    BY <1>1
  <2>4. ASSUME r.purpose = upload'.letter.purpose, upload'.answer = "recorded"
        PROVE  Known(r)'
    <3>1. CASE upload' = upload
      BY <1>8, <2>1, <2>2, <2>3, <2>4, <3>1
    <3>2. CASE /\ upload.letter = l
               /\ newer \/ current = l.receipt
      <4>1. l.account = r.account /\ l.purpose = r.purpose
        BY <1>1, <2>1, <2>4, <3>2 DEF Delivery, Honest
      <4>2. cloud'[r.account][r.purpose] = l.receipt
        BY <1>2, <1>4, <3>2, <4>1
      <4> QED BY <1>7, <2>1, <2>2, <2>4, <3>2, <4>2 DEF Known
    <3> QED BY <1>10, <2>4, <3>1, <3>2
  <2> QED BY <1>7, <1>8, <2>1, <2>2, <2>3, <2>4
<1>13. Reconciled' /\ RefusedOnlyIfWithdrawn'
  <2>1. SUFFICES ASSUME upload' = upload, upload.pc = "event"
                 PROVE  Reconciled' /\ RefusedOnlyIfWithdrawn'
    BY <1>10 DEF Reconciled, RefusedOnlyIfWithdrawn
  <2>2. upload \in Sending
    BY <1>1, <2>1, UploadCases
  <2>3. \A e \in upload.rest \union {upload.entry} :
          /\ e \in RowType /\ e.version >= 1 /\ Under(e)'
          /\ ~strayed => Known(e)'
    BY <1>1, <1>7, <1>8, <2>1, <2>2 DEF Sending, Delivery, Reconciled
  <2>4. Reconciled'
    BY <1>1, <2>1, <2>3 DEF Reconciled
  <2>5. RefusedOnlyIfWithdrawn'
    BY <1>1, <2>1 DEF Delivery, RefusedOnlyIfWithdrawn
  <2> QED BY <2>4, <2>5
<1> QED BY <1>1, <1>3, <1>10, <1>11, <1>12, <1>13 DEF Delivery, TypeOK

-----------------------------------------------------------------------------
(* The tables, the candidates and the ids.                                 *)

\* Rows that are what the outbox may hold when t is told and ids up to n are
\* still to be drawn.
Current(rows, t, n) ==
  \A r \in rows :
    /\ Entered(r) /\ r.id > n
    /\ r.id \notin left => r.account = t /\ Choice(r) = Granted(r)

\* The invariant's view of the outbox in one piece.
LEMMA OutboxCurrent ==
  ASSUME QualityInv
  PROVE  Current(outbox, told, budget.events)
  BY DEF QualityInv, Held, Fresh, OutboxIsCurrent, Current, Entered, Choice,
         Granted

\* Rows that come from such rows are such rows.
LEMMA RowsKeep ==
  ASSUME QualityInv, UNCHANGED <<consent, left>>, NEW rows,
         From(outbox', rows), Current(rows, told', budget'.events)
  PROVE  /\ Held' /\ OutboxIsCurrent' /\ outbox' \subseteq RowType
         /\ \A r \in outbox' : r.id > budget'.events
         /\ Ids(outbox') \subseteq Ids(rows)
<1>1. ASSUME NEW r \in outbox'
      PROVE  /\ r \in RowType /\ Entered(r) /\ r.id > budget'.events
             /\ r.id \in Ids(rows)
             /\ r.id \notin left => r.account = told' /\ Choice(r) = Granted(r)
  <2>1. PICK x \in rows : Same(r, x)
    BY DEF From
  <2> QED BY <2>1, SameRows DEF From, Current, Entered, Same, Ids
<1>2. Held'
  <2>1. \A r : Under(r)' = Under(r)
    BY DEF Under, Superseded, Choice, Granted
  <2> QED BY <1>1, <2>1 DEF Held, QualityInv, Entered
<1>3. OutboxIsCurrent'
  BY <1>1 DEF OutboxIsCurrent, Choice, Granted
<1>4. Ids(outbox') \subseteq Ids(rows)
  BY <1>1 DEF Ids
<1> QED BY <1>1, <1>2, <1>3, <1>4

\* Steps that may begin an upload, or end it.
LEMMA UploadStep ==
  ASSUME QualityInv, UNCHANGED <<consent, cloud, strayed, left>>,
         NEW rows \in SUBSET RowType, Current(rows, told', budget'.events),
         \A r \in rows : r \in outbox
                         \/ (upload.pc = "consent" => r.id \notin upload.due),
         \/ Becomes(UploadPending(rows, letters))
         \/ upload' \in {upload, Idle} /\ letters' = letters /\ outbox' = rows,
         budget'.events \in Nat, budget'.events <= budget.events,
         \A c \in candidates' :
            /\ c.id > budget'.events /\ c.id \notin Ids(rows)
            /\ c \in candidates \/ ~(c.id > budget.events),
         \A c, d \in candidates' : c.id = d.id => c = d
  PROVE  /\ Delivery' /\ Held' /\ OutboxIsCurrent' /\ Fresh'
         /\ outbox' \subseteq RowType /\ letters' \subseteq LetterType
         /\ upload' \in {Idle} \union Waiting \union Sending
<1>1. \A r \in rows : Entered(r)
  BY DEF Current
<1>2. /\ From(outbox', rows) /\ Delivery'
      /\ upload' \in {Idle} \union Waiting \union Sending
      /\ letters' \subseteq LetterType
      /\ upload'.pc = "consent" =>
           \/ upload'.due \subseteq Ids(rows)
           \/ upload.pc = "consent" /\ upload'.due = upload.due
  BY <1>1, Enlists
<1>3. /\ Held' /\ OutboxIsCurrent' /\ outbox' \subseteq RowType
      /\ \A r \in outbox' : r.id > budget'.events
      /\ Ids(outbox') \subseteq Ids(rows)
  BY <1>2, RowsKeep
<1>4. ASSUME upload'.pc = "consent"
      PROVE  /\ \A i \in upload'.due : i > budget'.events
             /\ \A c \in candidates' : c.id \notin upload'.due
  <2>1. CASE upload'.due \subseteq Ids(rows)
    BY <2>1 DEF Current, Ids
  <2>2. CASE upload.pc = "consent" /\ upload'.due = upload.due
    <3>1. upload \in Waiting
      BY <2>2, UploadCases DEF QualityInv
    <3>2. upload.due \subseteq Nat /\ budget.events \in Nat
      BY <3>1 DEF Waiting, QualityInv, TypeOK
    <3>3. /\ \A i \in upload.due : i > budget.events
          /\ \A c \in candidates : c.id \notin upload.due
      BY <2>2 DEF QualityInv, Fresh
    <3> QED BY <2>2, <3>2, <3>3
  <2> QED BY <1>2, <1>4, <2>1, <2>2
<1>5. Fresh'
  BY <1>3, <1>4 DEF Fresh
<1> QED BY <1>2, <1>3, <1>5

\* Steps of the upload that goes on, and of the cloud.
LEMMA QuietStep ==
  ASSUME QualityInv,
         UNCHANGED <<auth, told, mounted, queue, consent, candidates, granting,
                     left, budget>>,
         From(outbox', outbox), Delivery', strayed' \in BOOLEAN,
         upload' \in {Idle} \union Waiting \union Sending,
         letters' \subseteq LetterType,
         cloud' \in [Accounts -> [Purposes -> ReceiptType]],
         upload'.pc = "consent" =>
           upload.pc = "consent" /\ upload'.due = upload.due
  PROVE  QualityInv'
<1>1. /\ Held' /\ OutboxIsCurrent' /\ outbox' \subseteq RowType
      /\ \A r \in outbox' : r.id > budget'.events
      /\ Ids(outbox') \subseteq Ids(outbox)
  BY OutboxCurrent, RowsKeep
<1>2. Fresh'
  BY <1>1 DEF QualityInv, Fresh
<1>3. TypeOK'
  BY <1>1 DEF QualityInv, TypeOK
<1>4. OneOwner' /\ CandidatesAreCurrent'
  BY DEF QualityInv, OneOwner, CandidatesAreCurrent, Granted
<1> QED BY <1>1, <1>2, <1>3, <1>4 DEF QualityInv, Delivery

\* The steps of the cloud and of the upload under way.
LEMMA CloudSteps ==
  ASSUME QualityInv
  PROVE  /\ \A l \in letters : ConsentArrives(l) => QualityInv'
         /\ ConsentReconciled => QualityInv'
         /\ EventArrives => QualityInv'
         /\ EventAnswered => QualityInv'
         /\ EventFails => QualityInv'
<1>1. /\ outbox \in SUBSET RowType /\ strayed \in BOOLEAN
      /\ cloud \in [Accounts -> [Purposes -> ReceiptType]]
      /\ letters \subseteq LetterType /\ TypeOK
  BY DEF QualityInv, TypeOK
<1>2. ASSUME NEW l \in letters, ConsentArrives(l) PROVE QualityInv'
  BY <1>1, <1>2, CloudStep, QuietStep, FromSubset DEF ConsentArrives
<1>3. ASSUME ConsentReconciled PROVE QualityInv'
  BY <1>1, <1>3, NextPurpose, QuietStep DEF ConsentReconciled
<1>4. ASSUME EventArrives PROVE QualityInv'
  BY <1>1, <1>4, EventStep, QuietStep, FromSubset DEF EventArrives
<1>5. ASSUME EventAnswered PROVE QualityInv'
  <2>1. From(Acknowledge(outbox, upload.entry), outbox)
    BY <1>1, FromSubset DEF Acknowledge
  <2> QED BY <1>1, <1>5, <2>1, NextEvent, QuietStep DEF EventAnswered
<1>6. ASSUME EventFails PROVE QualityInv'
  <2>1. {upload.entry} \in SUBSET RowType
    BY <1>1, <1>6, UploadCases DEF EventFails, Sending, Waiting, Idle
  <2>2. From(RecordRetry(outbox, {upload.entry}), outbox)
    BY <1>1, <2>1, RetryKeeps
  <2> QED BY <1>1, <1>6, <2>2, NextEvent, QuietStep DEF EventFails
<1> QED BY <1>2, <1>3, <1>4, <1>5, <1>6

-----------------------------------------------------------------------------
(* The session, and what begins an upload.                                 *)

\* What the steps below need of the invariant.
LEMMA Facts ==
  ASSUME QualityInv
  PROVE  /\ TypeOK /\ outbox \in SUBSET RowType
         /\ \A r \in outbox : r.id \in Nat
         /\ Current(outbox, told, budget.events)
         /\ budget.events \in Nat
         /\ \A c \in candidates : /\ c.id > budget.events
                                  /\ c.id \notin Ids(outbox)
                                  /\ c.account = told
         /\ \A c, d \in candidates : c.id = d.id => c = d
         /\ budget \in [events : Nat, choices : Nat, published : Nat, exits : Nat]
  BY OutboxCurrent
  DEF QualityInv, TypeOK, Fresh, CandidatesAreCurrent, RowType

\* Steps that leave the tables alone, but may end the upload.
LEMMA PlainStep ==
  ASSUME QualityInv, UNCHANGED <<told, consent, outbox, candidates, letters,
                                 cloud, left, strayed, granting>>,
         upload' \in {upload, Idle}, budget'.events = budget.events,
         budget' \in [events : Nat, choices : Nat, published : Nat, exits : Nat],
         auth' \in Accounts \union {None}, mounted' \in {None, mounted},
         queue' \in Seq(Accounts \union {None}), OneOwner'
  PROVE  QualityInv'
<1>1. /\ Delivery' /\ Held' /\ OutboxIsCurrent' /\ Fresh'
      /\ outbox' \subseteq RowType /\ letters' \subseteq LetterType
      /\ upload' \in {Idle} \union Waiting \union Sending
  BY Facts, UploadStep
<1>2. CandidatesAreCurrent'
  BY DEF QualityInv, CandidatesAreCurrent, Granted
<1>3. TypeOK'
  BY <1>1, Facts DEF TypeOK
<1> QED BY <1>1, <1>2, <1>3 DEF QualityInv, Delivery

\* A published session, a failed transition, a failed reconciliation.
LEMMA SessionSteps ==
  ASSUME QualityInv
  PROVE  /\ \A a \in Accounts \union {None} : Publish(a) => QualityInv'
         /\ MountFails => QualityInv'
         /\ ReconciliationFails => QualityInv'
<1>1. TypeOK /\ OneOwner /\ queue \in Seq(Accounts \union {None})
  BY DEF QualityInv, TypeOK
<1>2. ASSUME NEW a \in Accounts \union {None}, Publish(a) PROVE QualityInv'
  <2>1. queue' \in Seq(Accounts \union {None}) /\ queue' # <<>>
        /\ queue'[Len(queue')] = a
    BY <1>1, <1>2 DEF Publish
  <2>2. OneOwner'
    BY <1>1, <1>2, <2>1 DEF Publish, OneOwner
  <2>3. budget' \in [events : Nat, choices : Nat, published : Nat, exits : Nat]
        /\ budget'.events = budget.events
    BY <1>2, Facts DEF Publish
  <2> QED BY <1>1, <1>2, <2>1, <2>2, <2>3, PlainStep DEF Publish, TypeOK
<1>3. ASSUME MountFails PROVE QualityInv'
  <2>1. /\ queue' \in Seq(Accounts \union {None})
        /\ queue' # <<>> => queue'[Len(queue')] = queue[Len(queue)]
    BY <1>1, <1>3 DEF MountFails
  <2>2. OneOwner'
    BY <1>1, <1>3, <2>1 DEF MountFails, OneOwner
  <2> QED BY <1>1, <1>3, <2>1, <2>2, PlainStep, Facts DEF MountFails, TypeOK
<1>4. ASSUME ReconciliationFails PROVE QualityInv'
  <2>1. OneOwner'
    BY <1>1, <1>4 DEF ReconciliationFails, OneOwner
  <2> QED BY <1>1, <1>4, <2>1, PlainStep, Facts DEF ReconciliationFails, TypeOK
<1> QED BY <1>2, <1>3, <1>4

\* The answer to a grant may begin an upload.
LEMMA AnsweredStep ==
  ASSUME QualityInv, ConsentAnswered
  PROVE  QualityInv'
<1>1. /\ Delivery' /\ Held' /\ OutboxIsCurrent' /\ Fresh'
      /\ outbox' \subseteq RowType /\ letters' \subseteq LetterType
      /\ upload' \in {Idle} \union Waiting \union Sending
  BY Facts, UploadStep DEF ConsentAnswered
<1>2. CandidatesAreCurrent' /\ OneOwner'
  BY DEF QualityInv, CandidatesAreCurrent, Granted, OneOwner, ConsentAnswered
<1>3. granting' \in Nat
  BY Facts DEF ConsentAnswered, TypeOK
<1>4. TypeOK'
  BY <1>1, <1>3, Facts DEF TypeOK, ConsentAnswered
<1> QED BY <1>1, <1>2, <1>4 DEF QualityInv, Delivery

\* The manager is told who is signed in: the rows of the account before go.
LEMMA MountStep ==
  ASSUME QualityInv, Mount
  PROVE  QualityInv'
<1>1. /\ TypeOK /\ OneOwner /\ queue \in Seq(Accounts \union {None})
      /\ queue # <<>> /\ told' = auth
      /\ UNCHANGED <<auth, consent, granting, cloud, left, strayed, budget>>
  BY DEF QualityInv, TypeOK, Mount
<1>2. Kept(outbox) \in SUBSET outbox
  BY DEF Kept
<1>3. Current(Kept(outbox), told', budget'.events)
  BY <1>1, Facts DEF Kept, Current
<1>4. candidates' \subseteq candidates /\ \A c \in candidates' : told = auth
  BY Facts DEF Mount
<1>5. /\ Delivery' /\ Held' /\ OutboxIsCurrent' /\ Fresh'
      /\ outbox' \subseteq RowType /\ letters' \subseteq LetterType
      /\ upload' \in {Idle} \union Waiting \union Sending
  <2>1. \/ Becomes(UploadPending(Kept(outbox), letters))
        \/ /\ upload' \in {upload, Idle} /\ letters' = letters
           /\ outbox' = Kept(outbox)
    BY DEF Mount
  <2>2. /\ Kept(outbox) \in SUBSET RowType
        /\ budget'.events \in Nat /\ budget'.events <= budget.events
    BY <1>1, <1>2, Facts
  <2>3. \A c \in candidates' :
          /\ c.id > budget'.events /\ c.id \notin Ids(Kept(outbox))
          /\ c \in candidates \/ ~(c.id > budget.events)
    BY <1>1, <1>2, <1>4, Facts DEF Ids
  <2>4. \A c, d \in candidates' : c.id = d.id => c = d
    BY <1>4, Facts
  <2> QED BY <1>1, <1>2, <1>3, <2>1, <2>2, <2>3, <2>4, UploadStep
<1>6. CandidatesAreCurrent'
  BY <1>1, <1>4 DEF QualityInv, CandidatesAreCurrent, Granted
<1>7. OneOwner' /\ queue' \in Seq(Accounts \union {None})
      /\ mounted' \in Accounts \union {None}
  <2>1. queue' = Tail(queue) /\ queue' \in Seq(Accounts \union {None})
        /\ Head(queue) \in Accounts \union {None}
    BY <1>1 DEF Mount
  <2>2. queue' # <<>> => queue'[Len(queue')] = auth'
    BY <1>1, <2>1 DEF OneOwner
  <2>3. queue' = <<>> => Head(queue) = auth
    <3>1. Len(queue) \in Nat /\ Len(queue) >= 1 /\ Len(Tail(queue)) = Len(queue) - 1
      BY <1>1
    <3>2. queue' = <<>> => Len(queue) = 1
      BY <2>1, <3>1
    <3>3. Head(queue) = queue[1]
      BY <1>1
    <3> QED BY <1>1, <3>2, <3>3 DEF OneOwner
  <2>4. mounted' = IF queue' = <<>> THEN Head(queue) ELSE None
    BY <2>1 DEF Mount
  <2> QED BY <1>1, <2>1, <2>2, <2>3, <2>4 DEF OneOwner
<1>8. TypeOK'
  BY <1>1, <1>4, <1>5, <1>7 DEF TypeOK
<1> QED BY <1>5, <1>6, <1>7, <1>8 DEF QualityInv, Delivery

\* Making room only deletes.
LEMMA RoomSubset ==
  ASSUME NEW rows, NEW a, NEW p, NEW room \in Room(rows, a, p)
  PROVE  room \in SUBSET rows
  BY DEF Room

\* A new event has an id nobody has and the consent of the moment.
LEMMA NewRow ==
  ASSUME QualityInv, auth \in Accounts, auth = told, UNCHANGED told,
         NEW p \in Purposes, consent[auth][p].on, NEW id \in Nat,
         NEW room \in SUBSET outbox, NEW n \in Nat, n <= budget.events, id > n
  PROVE  /\ room \union {Row(auth, p, id)} \in SUBSET RowType
         /\ Current(room \union {Row(auth, p, id)}, told', n)
         /\ Row(auth, p, id).id = id
<1>1. consent[auth][p] \in ReceiptType /\ consent[auth][p].version >= 1
  BY DEF QualityInv, TypeOK, Held
<1>2. consent[auth][p] = [on |-> TRUE, version |-> consent[auth][p].version]
  BY <1>1 DEF ReceiptType
<1> DEFINE new == Row(auth, p, id)
<1>3. /\ new \in RowType /\ new.id = id /\ new.account = auth
      /\ new.purpose = p /\ new.version = consent[auth][p].version
  BY <1>1, Orders DEF Row, RowType, ReceiptType
<1> HIDE DEF new
<1>4. Choice(new) = Granted(new) /\ Entered(new)
  BY <1>1, <1>2, <1>3 DEF Choice, Granted, Entered, Under
<1>5. \A r \in outbox : r.id > n
  <2>1. \A r \in outbox : r.id \in Nat /\ r.id > budget.events
    BY Facts DEF Current
  <2> QED BY <2>1, Facts
<1> QED BY <1>3, <1>4, <1>5, Facts DEF Current, new

\* The end of a conversation: a row for its metric, a candidate for its rating.
LEMMA RecordStep ==
  ASSUME QualityInv, NEW success \in BOOLEAN, RecordMetric(success)
  PROVE  QualityInv'
<1> DEFINE metric == consent[auth]["metrics"].on
           rated == success /\ consent[auth]["feedback"].on
           n == budget.events
           m == n - (IF metric THEN 1 ELSE 0)
           rest == m - (IF rated THEN 1 ELSE 0)
           candidate == [id |-> m, account |-> auth,
                         version |-> consent[auth]["feedback"].version]
<1>1. /\ TypeOK /\ OneOwner /\ auth # None /\ auth = mounted
      /\ metric \/ rated
      /\ rest >= 0 /\ budget' = [budget EXCEPT !.events = rest]
      /\ candidates' = IF rated THEN candidates \union {candidate} ELSE candidates
      /\ UNCHANGED <<auth, told, mounted, queue, consent, granting, cloud,
                     left, strayed>>
  BY DEF RecordMetric, QualityInv
<1>2. \/ \E room \in Room(outbox, auth, "metrics") :
           metric /\ Becomes(UploadPending(
                         room \union {Row(auth, "metrics", n)}, letters))
      \/ UNCHANGED <<outbox, upload, letters>>
  BY DEF RecordMetric
<1>3. /\ auth \in Accounts /\ auth = told
      /\ consent[auth]["feedback"] \in ReceiptType
  BY <1>1, Orders DEF TypeOK, OneOwner
<1> HIDE DEF metric, rated
<1>4. /\ n \in Nat /\ m \in Nat /\ rest \in Nat /\ rest <= m /\ m <= n
      /\ rest < n /\ (metric => m < n) /\ (rated => rest < m)
  BY <1>1, Facts
<1>5. /\ budget'.events = rest
      /\ budget' \in [events : Nat, choices : Nat, published : Nat, exits : Nat]
  BY <1>1, <1>4, Facts
<1> HIDE DEF n, m, rest
<1>6. candidate \in [id : Nat, account : Accounts, version : Nat]
      /\ candidate.id = m /\ candidate.account = auth
      /\ candidate.version = consent[auth]["feedback"].version
  BY <1>3, <1>4 DEF ReceiptType
<1>7. rated => consent[auth]["feedback"] = Granted(candidate)
  BY <1>3, <1>6 DEF rated, Granted, ReceiptType
<1> HIDE DEF candidate
<1>8. /\ \A c \in candidates : c.id \in Nat /\ c.id > n /\ c.id \notin Ids(outbox)
      /\ \A r \in outbox : r.id > n
  BY <1>1, Facts DEF n, TypeOK, Current
<1>9. /\ \A c \in candidates' :
           /\ c.id > rest /\ c.id \notin Ids(outbox)
           /\ c \in candidates \/ ~(c.id > n)
           /\ metric => c.id # n
      /\ \A c, d \in candidates' : c.id = d.id => c = d
  <2>1. /\ \A c \in candidates : c.id > rest /\ c.id > m /\ c.id # n
        /\ \A c, d \in candidates : c.id = d.id => c = d
    BY <1>4, <1>8, Facts
  <2>2. candidate.id \notin Ids(outbox) /\ ~(candidate.id > n)
        /\ (metric => candidate.id # n)
    BY <1>4, <1>6, <1>8, Facts DEF Ids
  <2>3. \A c \in candidates : c.id # candidate.id
    BY <1>4, <1>6, <2>1
  <2>4. CASE rated
    BY <1>1, <1>4, <1>6, <1>8, <2>1, <2>2, <2>3, <2>4
  <2>5. CASE ~rated
    BY <1>1, <1>8, <2>1, <2>5
  <2> QED BY <2>4, <2>5
<1>10. /\ Delivery' /\ Held' /\ OutboxIsCurrent' /\ Fresh'
       /\ outbox' \subseteq RowType /\ letters' \subseteq LetterType
       /\ upload' \in {Idle} \union Waiting \union Sending
  <2>1. CASE UNCHANGED <<outbox, upload, letters>>
    <3>1. Current(outbox, told', budget'.events)
      BY <1>1, <1>4, <1>5, <1>8, Facts DEF Current
    <3>2. budget'.events <= budget.events
      BY <1>4, <1>5 DEF n
    <3> QED BY <1>1, <1>4, <1>5, <1>9, <2>1, <3>1, <3>2, Facts, UploadStep DEF n
  <2>2. ASSUME NEW room \in Room(outbox, auth, "metrics"), metric,
               Becomes(UploadPending(room \union {Row(auth, "metrics", n)},
                                     letters))
        PROVE  /\ Delivery' /\ Held' /\ OutboxIsCurrent' /\ Fresh'
               /\ outbox' \subseteq RowType /\ letters' \subseteq LetterType
               /\ upload' \in {Idle} \union Waiting \union Sending
    <3> DEFINE new == Row(auth, "metrics", n)
               rows == room \union {new}
    <3>1. room \in SUBSET outbox
      BY <2>2, RoomSubset
    <3>2. /\ rows \in SUBSET RowType /\ new.id = n
          /\ Current(rows, told', budget'.events)
      BY <1>1, <1>3, <1>4, <1>5, <2>2, <3>1, NewRow, Orders DEF n, metric
    <3> HIDE DEF new
    <3>3. \A r \in rows : r \in outbox
                          \/ (upload.pc = "consent" => r.id \notin upload.due)
      <4>1. upload.pc = "consent" => \A i \in upload.due : i > n
        BY DEF QualityInv, Fresh, n
      <4>2. ~(n > n)
        BY <1>4
      <4> QED BY <3>1, <3>2, <4>1, <4>2
    <3>4. \A c \in candidates' :
            /\ c.id > budget'.events /\ c.id \notin Ids(rows)
            /\ c \in candidates \/ ~(c.id > budget.events)
      BY <1>5, <1>9, <2>2, <3>1, <3>2 DEF Ids, n
    <3>5. budget'.events \in Nat /\ budget'.events <= budget.events
      BY <1>4, <1>5 DEF n
    <3>6. Becomes(UploadPending(rows, letters))
      BY <2>2 DEF new
    <3> HIDE DEF rows
    <3> QED BY <1>1, <1>9, <3>2, <3>3, <3>4, <3>5, <3>6, UploadStep
  <2> QED BY <1>2, <2>1, <2>2
<1>11. CandidatesAreCurrent'
  <2>1. \A c \in candidates' : /\ c.account = told
                               /\ consent[c.account]["feedback"] = Granted(c)
    BY <1>1, <1>3, <1>6, <1>7 DEF QualityInv, CandidatesAreCurrent
  <2> QED BY <1>1, <2>1 DEF CandidatesAreCurrent, Granted
<1>12. OneOwner' /\ TypeOK'
  BY <1>1, <1>5, <1>6, <1>10 DEF OneOwner, TypeOK
<1> QED BY <1>10, <1>11, <1>12 DEF QualityInv, Delivery

\* A rating turns a candidate into a row with the candidate's id.
LEMMA SubmitStep ==
  ASSUME QualityInv, NEW c \in candidates, SubmitFeedback(c)
  PROVE  QualityInv'
<1>1. /\ TypeOK /\ OneOwner /\ CandidatesAreCurrent /\ c.account = auth
      /\ candidates' = candidates \ {c}
      /\ UNCHANGED <<auth, told, mounted, queue, consent, granting, cloud, left,
                     strayed, budget>>
  BY DEF SubmitFeedback, QualityInv
<1>2. /\ auth = told /\ auth \in Accounts /\ c.id \in Nat
      /\ c.id > budget.events /\ c.id \notin Ids(outbox)
  BY <1>1, Facts DEF TypeOK
<1>3. /\ \A d \in candidates' : /\ d \in candidates /\ d.id # c.id
                                /\ d.id > budget'.events
                                /\ d.id \notin Ids(outbox)
      /\ \A d, e \in candidates' : d.id = e.id => d = e
  BY <1>1, Facts
<1>4. /\ Delivery' /\ Held' /\ OutboxIsCurrent' /\ Fresh'
      /\ outbox' \subseteq RowType /\ letters' \subseteq LetterType
      /\ upload' \in {Idle} \union Waiting \union Sending
  <2>1. CASE UNCHANGED <<outbox, upload, letters>>
    BY <1>1, <1>3, <2>1, Facts, UploadStep
  <2>2. ASSUME consent[auth]["feedback"] = [on |-> TRUE, version |-> c.version],
               NEW room \in Room(outbox, auth, "feedback"),
               Becomes(UploadPending(room \union {Row(auth, "feedback", c.id)},
                                     letters))
        PROVE  /\ Delivery' /\ Held' /\ OutboxIsCurrent' /\ Fresh'
               /\ outbox' \subseteq RowType /\ letters' \subseteq LetterType
               /\ upload' \in {Idle} \union Waiting \union Sending
    <3> DEFINE new == Row(auth, "feedback", c.id)
               rows == room \union {new}
    <3>1. room \in SUBSET outbox
      BY <2>2, RoomSubset
    <3>2. /\ rows \in SUBSET RowType /\ new.id = c.id
          /\ Current(rows, told', budget'.events)
      <4>1. budget.events <= budget.events /\ budget'.events = budget.events
        BY <1>1, Facts
      <4>2. consent[auth]["feedback"].on
        BY <2>2
      <4> QED BY <1>1, <1>2, <3>1, <4>1, <4>2, NewRow, Orders, Facts
    <3> HIDE DEF new
    <3>3. \A r \in rows : r \in outbox
                          \/ (upload.pc = "consent" => r.id \notin upload.due)
      <4>1. upload.pc = "consent" => c.id \notin upload.due
        BY DEF QualityInv, Fresh
      <4> QED BY <3>1, <3>2, <4>1
    <3>4. \A d \in candidates' : d.id > budget'.events /\ d.id \notin Ids(rows)
      BY <1>3, <3>1, <3>2 DEF Ids
    <3>5. Becomes(UploadPending(rows, letters))
      BY <2>2 DEF new
    <3> HIDE DEF rows
    <3> QED BY <1>1, <1>3, <3>2, <3>3, <3>4, <3>5, Facts, UploadStep
  <2> QED BY <2>1, <2>2 DEF SubmitFeedback
<1>5. CandidatesAreCurrent' /\ OneOwner'
  BY <1>1 DEF CandidatesAreCurrent, OneOwner, Granted
<1>6. TypeOK'
  BY <1>1, <1>4 DEF TypeOK
<1> QED BY <1>4, <1>5, <1>6 DEF QualityInv, Delivery

-----------------------------------------------------------------------------
(* Choices and exits.                                                      *)

\* A choice of the user signed in: the same receipt or a later one.
LEMMA ReceiptGrows ==
  ASSUME QualityInv, auth \in Accounts, NEW p \in Purposes, NEW on \in BOOLEAN,
         consent' = [consent EXCEPT ![auth][p] = Receipt(p, on)]
  PROVE  /\ Grows /\ consent' \in [Accounts -> [Purposes -> ReceiptType]]
         /\ Receipt(p, on) \in ReceiptType /\ Receipt(p, on).version >= 1
         /\ Receipt(p, on).on = on
         /\ \A a \in Accounts, q \in Purposes :
              consent'[a][q] = IF a = auth /\ q = p THEN Receipt(p, on)
                                                    ELSE consent[a][q]
         /\ \/ Receipt(p, on) = consent[auth][p]
            \/ on # consent[auth][p].on
            \/ ~on
<1> DEFINE current == consent[auth][p]
           receipt == Receipt(p, on)
<1>1. /\ current \in ReceiptType
      /\ consent \in [Accounts -> [Purposes -> ReceiptType]]
      /\ current.on => current.version >= 1
  BY DEF QualityInv, TypeOK, Held
<1>2. receipt = IF current.version > 0 /\ current.on = on THEN current
                ELSE [on |-> on, version |-> current.version + 1]
  BY DEF Receipt
<1>3. /\ current.version \in Nat /\ current.on \in BOOLEAN
      /\ current = [on |-> current.on, version |-> current.version]
  BY <1>1 DEF ReceiptType
<1> HIDE DEF current, receipt
<1>4. /\ receipt \in ReceiptType /\ receipt.version >= 1 /\ receipt.on = on
      /\ receipt = current \/ current.version < receipt.version
      /\ receipt = current \/ on # current.on \/ ~on
  <2>1. CASE current.version > 0 /\ current.on = on
    BY <1>1, <1>2, <1>3, <2>1
  <2>2. CASE ~(current.version > 0 /\ current.on = on)
    <3>1. receipt = [on |-> on, version |-> current.version + 1]
      BY <1>2, <2>2
    <3>2. current.version + 1 \in Nat /\ current.version < current.version + 1
          /\ current.version + 1 >= 1
      BY <1>3
    <3>3. on # current.on \/ ~on
      BY <1>1, <1>3, <2>2
    <3> QED BY <3>1, <3>2, <3>3 DEF ReceiptType
  <2> QED BY <2>1, <2>2
<1>5. /\ consent' \in [Accounts -> [Purposes -> ReceiptType]]
      /\ \A a \in Accounts, q \in Purposes :
           consent'[a][q] = IF a = auth /\ q = p THEN receipt ELSE consent[a][q]
  BY <1>1, <1>4 DEF receipt
<1>6. Grows
  BY <1>4, <1>5 DEF Grows, current
<1> QED BY <1>4, <1>5, <1>6 DEF current, receipt

\* The table after a choice.
LEMMA HeldAfter ==
  ASSUME QualityInv, auth \in Accounts, NEW p \in Purposes, NEW on \in BOOLEAN,
         consent' = [consent EXCEPT ![auth][p] = Receipt(p, on)],
         \A r \in outbox' : r.version >= 1 /\ Under(r)'
  PROVE  Held'
<1>1. \A a \in Accounts, q \in Purposes :
        consent'[a][q].on => consent'[a][q].version >= 1
  BY ReceiptGrows DEF QualityInv, Held
<1> QED BY <1>1 DEF Held

\* A choice of the user: what it withdraws leaves the outbox.
LEMMA ChoiceStep ==
  ASSUME QualityInv, NEW p \in Purposes, NEW on \in BOOLEAN, SetConsent(p, on)
  PROVE  QualityInv'
<1> DEFINE letter == [account |-> auth, purpose |-> p,
                      receipt |-> Receipt(p, on)]
           withdrawn == {r \in outbox : ~on /\ r.account = auth /\ r.purpose = p}
<1>1. /\ TypeOK /\ auth # None
      /\ budget' = [budget EXCEPT !.choices = @ - 1] /\ budget.choices > 0
      /\ consent' = [consent EXCEPT ![auth][p] = Receipt(p, on)]
      /\ outbox' = outbox \ withdrawn
      /\ candidates' = IF on \/ p = "metrics" THEN candidates
                       ELSE {c \in candidates : c.account # auth}
      /\ letters' = letters \union {letter}
      /\ granting' = IF on THEN granting + 1 ELSE granting
      /\ UNCHANGED <<auth, told, mounted, queue, upload, cloud, left, strayed>>
  BY DEF SetConsent, QualityInv
<1>2. auth \in Accounts
  BY <1>1 DEF TypeOK
<1>3. /\ Grows /\ consent' \in [Accounts -> [Purposes -> ReceiptType]]
      /\ Receipt(p, on) \in ReceiptType
      /\ \A a \in Accounts, q \in Purposes :
           consent'[a][q] = IF a = auth /\ q = p THEN Receipt(p, on)
                                                 ELSE consent[a][q]
      /\ \/ Receipt(p, on) = consent[auth][p]
         \/ on # consent[auth][p].on
         \/ ~on
  BY <1>1, <1>2, ReceiptGrows
<1>4. /\ letter \in LetterType
      /\ \A l : l = letter => Past(l.account, l.purpose, l.receipt)'
  <2>1. letter \in LetterType /\ letter.account = auth /\ letter.purpose = p
        /\ letter.receipt = Receipt(p, on)
    BY <1>2, <1>3, Orders DEF LetterType
  <2>2. consent'[auth][p] = Receipt(p, on)
    BY <1>2, <1>3
  <2>3. ASSUME NEW l, l = letter
        PROVE  Past(l.account, l.purpose, l.receipt)'
    <3>1. l.account = auth /\ l.purpose = p /\ l.receipt = Receipt(p, on)
      BY <2>1, <2>3
    <3> QED BY <2>2, <3>1 DEF Past
  <2> QED BY <2>1, <2>3
<1> HIDE DEF letter
<1>5. Delivery' /\ \A r \in outbox' : r.version >= 1 /\ Under(r)'
  <2>1. letters' \subseteq LetterType
    BY <1>1, <1>4 DEF TypeOK
  <2>2. \A l \in letters' : l \in letters \/ Past(l.account, l.purpose, l.receipt)'
    BY <1>1, <1>4
  <2> QED BY <1>1, <1>3, <2>1, <2>2, Chosen
<1>6. Held'
  BY <1>1, <1>2, <1>5, HeldAfter
<1>7. OutboxIsCurrent'
  <2> SUFFICES ASSUME NEW r \in outbox', r.id \notin left
               PROVE  /\ r.account = told
                      /\ consent'[r.account][r.purpose] = Granted(r)
    BY <1>1 DEF OutboxIsCurrent, Granted
  <2>1. /\ r \in RowType /\ r \in outbox /\ r.account = told
        /\ consent[r.account][r.purpose] = Granted(r)
        /\ on \/ r.account # auth \/ r.purpose # p
    BY <1>1 DEF QualityInv, OutboxIsCurrent, TypeOK, Granted
  <2>2. r.account \in Accounts /\ r.purpose \in Purposes /\ Granted(r).on = TRUE
    BY <2>1, Orders DEF RowType, Granted
  <2>3. CASE r.account = auth /\ r.purpose = p
    BY <1>3, <2>1, <2>2, <2>3
  <2>4. CASE ~(r.account = auth /\ r.purpose = p)
    BY <1>3, <2>1, <2>2, <2>4
  <2> QED BY <2>1, <2>3, <2>4
<1>8. CandidatesAreCurrent'
  <2> SUFFICES ASSUME NEW c \in candidates'
               PROVE  /\ c.account = told
                      /\ consent'[c.account]["feedback"] = Granted(c)
    BY <1>1 DEF CandidatesAreCurrent, Granted
  <2>1. /\ c \in candidates /\ c.account \in Accounts /\ c.account = told
        /\ consent[c.account]["feedback"] = Granted(c)
        /\ on \/ p = "metrics" \/ c.account # auth
    BY <1>1 DEF QualityInv, TypeOK, CandidatesAreCurrent
  <2>2. Granted(c).on = TRUE
    BY DEF Granted
  <2>3. CASE c.account = auth /\ p = "feedback"
    BY <1>3, <2>1, <2>2, <2>3, Orders
  <2>4. CASE ~(c.account = auth /\ p = "feedback")
    BY <1>3, <2>1, <2>2, <2>4, Orders
  <2> QED BY <2>1, <2>3, <2>4
<1>9. budget' \in [events : Nat, choices : Nat, published : Nat, exits : Nat]
      /\ budget'.events = budget.events
  BY <1>1, Facts
<1>10. Fresh'
  <2>1. Ids(outbox') \subseteq Ids(outbox) /\ candidates' \subseteq candidates
    BY <1>1 DEF Ids
  <2> QED BY <1>1, <1>9, <2>1 DEF QualityInv, Fresh
<1>11. TypeOK'
  <2>1. letters' \subseteq LetterType /\ granting' \in Nat
    BY <1>1, <1>4 DEF TypeOK
  <2> QED BY <1>1, <1>3, <1>9, <2>1 DEF TypeOK
<1>12. OneOwner'
  BY <1>1 DEF QualityInv, OneOwner
<1> QED BY <1>5, <1>6, <1>7, <1>8, <1>10, <1>11, <1>12 DEF QualityInv, Delivery

\* After an exit nobody is signed in and every row is one that was left.
LEMMA ExitStep ==
  ASSUME QualityInv, Restart,
         consent' \in [Accounts -> [Purposes -> ReceiptType]],
         Held', Delivery'
  PROVE  QualityInv'
<1>1. /\ TypeOK /\ budget.exits > 0
      /\ budget' = [budget EXCEPT !.exits = @ - 1]
      /\ left' = left \union Ids(outbox)
      /\ auth' = None /\ told' = None /\ mounted' = None /\ queue' = <<>>
      /\ candidates' = {} /\ upload' = Idle /\ granting' = 0
      /\ UNCHANGED <<outbox, letters, cloud, strayed>>
  BY DEF Restart, QualityInv
<1>2. OutboxIsCurrent'
  BY <1>1 DEF OutboxIsCurrent, Ids
<1>3. budget' \in [events : Nat, choices : Nat, published : Nat, exits : Nat]
      /\ budget'.events = budget.events
  BY <1>1, Facts
<1>4. Fresh'
  BY <1>1, <1>3 DEF QualityInv, Fresh, Idle
<1>5. queue' \in Seq(Accounts \union {None})
  BY <1>1
<1>6. TypeOK'
  BY <1>1, <1>3, <1>5 DEF TypeOK
<1>7. OneOwner' /\ CandidatesAreCurrent'
  BY <1>1 DEF OneOwner, CandidatesAreCurrent
<1> QED BY <1>2, <1>4, <1>6, <1>7 DEF QualityInv, Delivery

\* An exit, also one within a withdrawal.
LEMMA ExitSteps ==
  ASSUME QualityInv
  PROVE  /\ Die => QualityInv'
         /\ \A p \in Purposes : DieWithdrawing(p) => QualityInv'
<1>1. ASSUME Die PROVE QualityInv'
  <2>1. /\ UNCHANGED <<consent, outbox, letters, cloud, strayed>>
        /\ upload' = Idle /\ Restart
    BY <1>1 DEF Die, Restart
  <2>2. Delivery'
    BY <2>1, Facts, Enlists DEF Current
  <2>3. Held'
    <3>1. \A r : Under(r)' = Under(r)
      BY <2>1 DEF Under, Superseded, Choice, Granted
    <3> QED BY <2>1, <3>1 DEF QualityInv, Held
  <2> QED BY <2>1, <2>2, <2>3, ExitStep DEF QualityInv, TypeOK
<1>2. ASSUME NEW p \in Purposes, DieWithdrawing(p) PROVE QualityInv'
  <2>1. /\ UNCHANGED <<outbox, letters, cloud, strayed>>
        /\ upload' = Idle /\ Restart /\ auth \in Accounts
        /\ consent' = [consent EXCEPT ![auth][p] = Receipt(p, FALSE)]
        /\ letters \subseteq LetterType
    BY <1>2, Facts DEF DieWithdrawing, Restart, TypeOK
  <2>2. Grows /\ consent' \in [Accounts -> [Purposes -> ReceiptType]]
    BY <2>1, ReceiptGrows
  <2>3. Delivery' /\ \A r \in outbox' : r.version >= 1 /\ Under(r)'
    BY <2>1, <2>2, Chosen
  <2>4. Held'
    BY <2>1, <2>3, HeldAfter
  <2> QED BY <2>1, <2>2, <2>3, <2>4, ExitStep
<1> QED BY <1>1, <1>2

-----------------------------------------------------------------------------
(* The theorems.                                                           *)

\* Nothing is recorded, asked or known at first.
LEMMA Initially == Init => QualityInv
<1> SUFFICES ASSUME Init PROVE QualityInv
  OBVIOUS
<1>1. /\ auth = None /\ told = None /\ mounted = None /\ queue = <<>>
      /\ outbox = {} /\ candidates = {} /\ upload = Idle /\ upload.pc = "idle"
      /\ granting = 0 /\ letters = {} /\ strayed = FALSE /\ cloud = consent
      /\ consent = [a \in Accounts |-> [p \in Purposes |-> Unset]]
  BY DEF Init, Idle
<1>2. budget \in [events : Nat, choices : Nat, published : Nat, exits : Nat]
  BY QualityAssumption DEF Init
<1>3. Unset \in ReceiptType /\ Unset.on = FALSE /\ Unset.version = 0
  BY DEF Unset, ReceiptType
<1>4. \A a \in Accounts, p \in Purposes : consent[a][p] = Unset
  BY <1>1
<1>5. consent \in [Accounts -> [Purposes -> ReceiptType]]
  BY <1>1, <1>3
<1>6. TypeOK /\ OneOwner
  <2>1. queue \in Seq(Accounts \union {None}) /\ granting \in Nat
    BY <1>1
  <2>2. outbox \subseteq RowType /\ letters \subseteq LetterType
        /\ candidates \subseteq [id : Nat, account : Accounts, version : Nat]
    BY <1>1
  <2> QED BY <1>1, <1>2, <1>5, <2>1, <2>2 DEF TypeOK, OneOwner
<1>7. Held /\ CandidatesAreCurrent /\ OutboxIsCurrent /\ Fresh
  BY <1>1, <1>3, <1>4
  DEF Held, CandidatesAreCurrent, OutboxIsCurrent, Fresh
<1>8. Delivery
  BY <1>1 DEF Delivery, Honest, Past, Reconciling, Reconciled,
              RefusedOnlyIfWithdrawn
<1> QED BY <1>6, <1>7, <1>8 DEF QualityInv, Delivery

\* Every step keeps the invariant.
LEMMA Step == QualityInv /\ [Next]_vars => QualityInv'
<1> SUFFICES ASSUME QualityInv, [Next]_vars PROVE QualityInv'
  OBVIOUS
<1>1. CASE UNCHANGED vars
  <2>1. OneOwner' /\ budget' \in [events : Nat, choices : Nat, published : Nat,
                                  exits : Nat]
    BY <1>1, Facts DEF vars, QualityInv, OneOwner
  <2> QED BY <1>1, <2>1, PlainStep, Facts DEF vars, TypeOK
<1>2. CASE Next
  <2>1. CASE \/ \E a \in Accounts \union {None} : Publish(a)
             \/ MountFails \/ ReconciliationFails
    BY <2>1, SessionSteps
  <2>2. CASE Mount
    BY <2>2, MountStep
  <2>3. CASE \E p \in Purposes, on \in BOOLEAN : SetConsent(p, on)
    BY <2>3, ChoiceStep
  <2>4. CASE ConsentAnswered
    BY <2>4, AnsweredStep
  <2>5. CASE \E success \in BOOLEAN : RecordMetric(success)
    BY <2>5, RecordStep
  <2>6. CASE \E c \in candidates : SubmitFeedback(c)
    BY <2>6, SubmitStep
  <2>7. CASE \/ \E l \in letters : ConsentArrives(l)
             \/ ConsentReconciled \/ EventArrives \/ EventAnswered \/ EventFails
    BY <2>7, CloudSteps
  <2>8. CASE Die \/ \E p \in Purposes : DieWithdrawing(p)
    BY <2>8, ExitSteps
  <2> QED BY <1>2, <2>1, <2>2, <2>3, <2>4, <2>5, <2>6, <2>7, <2>8 DEF Next
<1> QED BY <1>1, <1>2

\* Every variable keeps its type: the tables, the upload with what it carries
\* over its awaits, and the requests under way.
THEOREM TypeCorrect == Spec => []TypeOK
<1>1. QualityInv => TypeOK
  BY DEF QualityInv
<1> QED BY <1>1, Initially, Step, PTL DEF Spec

\* What waits in the outbox never outlives the sign-in and the consent it was
\* recorded under, but for what an exit of the app left.
THEOREM NothingOutlivesConsent == Spec => []OutboxIsCurrent
<1>1. QualityInv => OutboxIsCurrent
  BY DEF QualityInv
<1> QED BY <1>1, Initially, Step, PTL DEF Spec

\* The cloud refuses no event for want of consent whose consent holds on this
\* device: an upload never outruns the consents its events stand on.
THEOREM ConsentGoesFirst == Spec => []RefusedOnlyIfWithdrawn
<1>1. QualityInv => RefusedOnlyIfWithdrawn
  BY DEF QualityInv
<1> QED BY <1>1, Initially, Step, PTL DEF Spec

=============================================================================
