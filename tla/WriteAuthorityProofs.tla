------------------------- MODULE WriteAuthorityProofs -------------------------
(***************************************************************************)
(* Callbacks of the write authority never overlap, for any calls, scopes   *)
(* and profiles.  Everybody's first lock is the catalog's, so its chain    *)
(* decides: a call that got past it finds every earlier call over.  Since  *)
(* no place is skipped, the calls that are not over are then the last      *)
(* ones, and the chains implement the queue of PermitQueue.                *)
(***************************************************************************)
EXTENDS WriteAuthorityRefinement, SequenceTheorems, TLAPS

Place(c)  == asked.place[c]
Link(c)   == <<c, Catalog>>
Asked(c)  == pc[c] # "new"
\* c holds the catalog's lock, or did.
Passed(c) == \/ pc[c] \in {"inside", "over"}
             \/ pc[c] = "waiting" /\ awaits[c] # Catalog

-----------------------------------------------------------------------------
(* The inductive invariant, in named parts. *)

\* Calls are numbered as they are made.
Numbered ==
  /\ \A c \in Calls : Asked(c) <=> Place(c) > 0
  /\ \A c \in Calls : Place(c) <= asked.total
  /\ \A c, d \in Calls : Asked(c) /\ Place(c) = Place(d) => c = d

\* The catalog's key is asked for first.
CatalogFirst ==
  \A c \in Calls : IF Asked(c) THEN Catalog \notin want[c]
                               ELSE want[c] = KeysOf(c)

\* A catalog gate is open when its call is over, and whoever got past the
\* catalog's lock was let in by the link before.
GatesOpen ==
  \A c \in Calls : /\ Link(c) \in released <=> pc[c] = "over"
                   /\ Passed(c) => Resolved(previous[Link(c)])

\* Whoever may pass finds all earlier calls over.
EarlierOver ==
  \A c, d \in Calls :
    Asked(c) /\ Resolved(previous[Link(c)]) /\ Asked(d) /\ Place(d) < Place(c)
      => pc[d] = "over"

\* The map's entry is the link of the latest call, and is missing only when
\* nobody waits or runs.
TailIsLatest ==
  \/ tails[Catalog] = NoLink /\ \A d \in Calls : pc[d] \in {"new", "over"}
  \/ \E t \in Calls : /\ tails[Catalog] = Link(t) /\ Asked(t)
                      /\ \A d \in Calls : Place(d) <= Place(t)

\* A link is chained to that of the call just before.
ChainedInOrder ==
  \A c \in Calls : Asked(c) /\ previous[Link(c)] # NoLink =>
    \E b \in Calls : /\ previous[Link(c)] = Link(b)
                     /\ \A d \in Calls : Place(d) < Place(c) => Place(d) <= Place(b)

IndInv == /\ TypeOK /\ Numbered /\ CatalogFirst /\ GatesOpen /\ EarlierOver
          /\ TailIsLatest /\ ChainedInOrder

-----------------------------------------------------------------------------
(* Every action preserves it. *)

LEMMA Types ==
  ASSUME TypeOK
  PROVE  /\ \A c \in Calls : Place(c) \in Nat
         /\ asked.total \in Nat
         /\ Catalog \in Keys
         /\ \A c \in Calls : Link(c) \in Links /\ Link(c) # NoLink
         /\ \A c, d \in Calls : Link(c) = Link(d) => c = d
  BY AuthorityAssumption DEF TypeOK, Place, Keys, Link, Links, NoLink

LEMMA TypeStep == ASSUME TypeOK, Next PROVE TypeOK'
<1>. USE DEF TypeOK
<1>1. ASSUME NEW c \in Calls, NEW k \in Keys, Acquire(c, k)
      PROVE  /\ want' \in [Calls -> SUBSET Keys] /\ awaits' \in [Calls -> Keys]
             /\ tails' \in [Keys -> Links \cup {NoLink}]
             /\ previous' \in [Links -> Links \cup {NoLink}]
  BY <1>1 DEF Acquire, Links
<1>2. ASSUME NEW c \in Calls, Ask(c) PROVE TypeOK'
  <2>1. asked' \in [total : Nat, place : [Calls -> Nat]]  BY <1>2 DEF Ask
  <2> QED  BY <1>1, <1>2, <2>1 DEF Ask
<1>3. ASSUME NEW c \in Calls, NextKey(c) PROVE TypeOK'
  BY <1>1, <1>3 DEF NextKey
<1>4. ASSUME NEW c \in Calls, Enter(c) PROVE TypeOK'
  BY <1>4 DEF Enter
<1>5. ASSUME NEW c \in Calls, Leave(c) PROVE TypeOK'
  <2>1. \A k \in KeysOf(c) : <<c, k>> \in Links
    BY AuthorityAssumption DEF KeysOf, Links, Keys
  <2> QED  BY <1>5, <2>1 DEF Leave
<1>6. ASSUME NEW c \in Calls, NEW k \in Keys, Write(c, k) PROVE TypeOK'
  BY <1>6 DEF Write
<1> QED  BY <1>2, <1>3, <1>4, <1>5, <1>6 DEF Next

LEMMA AskStep == ASSUME IndInv, NEW c \in Calls, Ask(c) PROVE IndInv'
<1>. USE DEF IndInv
<1>1. TypeOK'  BY TypeStep DEF Next
<1>2. PICK k \in Keys : FirstKey(k, want[c]) /\ Acquire(c, k)  BY DEF Ask
<1>3. k = Catalog
  <2>1. want[c] = KeysOf(c)  BY DEF Ask, Asked, CatalogFirst
  <2> QED
    BY <1>2, <2>1, AuthorityAssumption DEF FirstKey, KeysOf, Keys, Catalog
<1>4. /\ previous'[Link(c)] = tails[Catalog] /\ tails'[Catalog] = Link(c)
      /\ \A d \in Calls \ {c} : /\ previous'[Link(d)] = previous[Link(d)]
                                /\ pc'[d] = pc[d] /\ Place(d)' = Place(d)
                                /\ want'[d] = want[d] /\ awaits'[d] = awaits[d]
      /\ pc[c] = "new" /\ pc'[c] = "waiting" /\ awaits'[c] = Catalog
      /\ want'[c] = want[c] \ {Catalog}
      /\ Place(c)' = asked.total + 1 /\ asked.total' = asked.total + 1
      /\ released' = released
  BY <1>2, <1>3, Types DEF Ask, Acquire, TypeOK, Link, Place
<1>5. Numbered'  BY <1>1, <1>4, Types DEF Numbered, Asked
<1>6. CatalogFirst'  BY <1>4 DEF CatalogFirst, Asked
<1>7. GatesOpen'  BY <1>4 DEF GatesOpen, Passed, Resolved
<1>8. \A d \in Calls : d # c /\ Asked(d) => Place(d) < Place(c)'
  BY <1>4, Types DEF Numbered
<1>9. EarlierOver'
  <2>1. ASSUME NEW d \in Calls \ {c}, Asked(d), Resolved(tails[Catalog])
        PROVE  pc[d] = "over"
    <3>1. CASE tails[Catalog] = NoLink
      BY <2>1, <3>1, Types DEF TailIsLatest, Asked
    <3>2. CASE tails[Catalog] # NoLink
      <4>1. PICK t \in Calls : /\ tails[Catalog] = Link(t) /\ Asked(t)
                               /\ \A x \in Calls : Place(x) <= Place(t)
        BY <3>2 DEF TailIsLatest
      <4>2. pc[t] = "over"
        BY <2>1, <3>2, <4>1 DEF Resolved, GatesOpen
      <4> QED
        BY <2>1, <4>1, <4>2, Types DEF GatesOpen, Passed, EarlierOver, Numbered
    <3> QED  BY <3>1, <3>2
  <2>2. ASSUME NEW a \in Calls, NEW d \in Calls, Asked(a)', Asked(d)',
               Resolved(previous[Link(a)])', Place(d)' < Place(a)'
        PROVE  pc'[d] = "over"
    <3>1. d # c  BY <1>4, <1>8, <2>2, Types DEF Asked
    <3>2. CASE a = c
      BY <1>4, <2>1, <2>2, <3>1, <3>2 DEF Resolved, Asked
    <3>3. CASE a # c
      BY <1>4, <2>2, <3>1, <3>3 DEF EarlierOver, Resolved, Asked
    <3> QED  BY <3>2, <3>3
  <2> QED  BY <2>2 DEF EarlierOver
<1>10. TailIsLatest'
  BY <1>4, Types DEF TailIsLatest, Asked, Numbered
<1>11. ChainedInOrder'
  BY <1>4, <1>8, Types DEF ChainedInOrder, TailIsLatest, Asked, Numbered
<1> QED  BY <1>1, <1>5, <1>6, <1>7, <1>9, <1>10, <1>11

\* Steps that do not touch the catalog's chain.
LEMMA AwayStep ==
  ASSUME IndInv, TypeOK', NEW c \in Calls,
         NextKey(c) \/ Enter(c) \/ \E k \in Keys : Write(c, k)
  PROVE  IndInv'
<1>. USE DEF IndInv
<1>1. /\ asked' = asked /\ released' = released
      /\ \A d \in Calls : /\ pc'[d] = "over" <=> pc[d] = "over"
                          /\ Asked(d)' <=> Asked(d)
                          /\ previous'[Link(d)] = previous[Link(d)]
                          /\ Asked(d) => Catalog \notin want'[d]
                          /\ ~Asked(d) => want'[d] = want[d]
      /\ tails'[Catalog] = tails[Catalog]
  <2>1. CASE NextKey(c)
    <3>1. PICK k \in Keys : FirstKey(k, want[c]) /\ Acquire(c, k)
      BY <2>1 DEF NextKey
    <3>2. k # Catalog
      BY <2>1, <3>1 DEF NextKey, Granted, Asked, CatalogFirst, FirstKey
    <3>3. pc' = pc /\ asked' = asked /\ released' = released /\ Asked(c)
      BY <2>1 DEF NextKey, Granted, Asked
    <3> QED
      BY <3>1, <3>2, <3>3, Types DEF Acquire, Asked, CatalogFirst, TypeOK, Link
  <2>2. CASE Enter(c) \/ \E k \in Keys : Write(c, k)
    BY <2>2 DEF Enter, Granted, Write, Asked, CatalogFirst, TypeOK
  <2> QED  BY <2>1, <2>2
<1>2. \A d \in Calls : Passed(d)' => Resolved(previous[Link(d)])
  <2>1. Passed(c)' => Resolved(previous[Link(c)])
    <3>1. CASE \E k \in Keys : Write(c, k)
      BY <3>1 DEF Write, GatesOpen, Passed
    <3>2. CASE NextKey(c) \/ Enter(c)
      <4>1. Granted(c)  BY <3>2 DEF NextKey, Enter
      <4> QED  BY <4>1 DEF Granted, GatesOpen, Passed, Link
    <3> QED  BY <3>1, <3>2
  <2>2. ASSUME NEW d \in Calls \ {c}, Passed(d)' PROVE Passed(d)
    BY <2>2 DEF NextKey, Enter, Write, Acquire, Passed, TypeOK
  <2> QED  BY <2>1, <2>2 DEF GatesOpen
<1>3. GatesOpen'  BY <1>1, <1>2 DEF GatesOpen, Resolved
<1>4. Numbered' /\ CatalogFirst'
  BY <1>1 DEF Numbered, CatalogFirst, Place
<1>5. EarlierOver'  BY <1>1 DEF EarlierOver, Resolved, Place
<1>6. TailIsLatest'
  BY <1>1, Types DEF TailIsLatest, Place, Asked, TypeOK
<1>7. ChainedInOrder'  BY <1>1 DEF ChainedInOrder, Place
<1> QED  BY <1>3, <1>4, <1>5, <1>6, <1>7

LEMMA LeaveStep == ASSUME IndInv, NEW c \in Calls, Leave(c) PROVE IndInv'
<1>. USE DEF IndInv
<1>1. TypeOK'  BY TypeStep DEF Next
<1>2. /\ asked' = asked /\ previous' = previous /\ want' = want
      /\ awaits' = awaits /\ pc[c] = "inside" /\ pc'[c] = "over"
      /\ \A d \in Calls \ {c} : pc'[d] = pc[d]
      /\ \A d \in Calls : Asked(d)' <=> Asked(d)
  BY DEF Leave, TypeOK, Asked
<1>3. \A d \in Calls : Link(d) \in released' <=> d = c \/ Link(d) \in released
  BY DEF Leave, Link, KeysOf
<1>4. Resolved(previous[Link(c)]) /\ Asked(c)
  BY <1>2 DEF GatesOpen, Passed, Asked
<1>5. Numbered' /\ CatalogFirst'
  BY <1>2 DEF Numbered, CatalogFirst, Place
<1>6. \A l : Resolved(l) => Resolved(l)'  BY DEF Leave, Resolved
<1>7. GatesOpen'
  BY <1>2, <1>3, <1>6 DEF GatesOpen, Passed, Resolved
<1>8. EarlierOver'
  <2>1. ASSUME NEW a \in Calls, NEW d \in Calls, Asked(a), Asked(d),
               Resolved(previous[Link(a)])', Place(d) < Place(a), d # c
        PROVE  pc[d] = "over"
    <3>1. CASE Resolved(previous[Link(a)])
      BY <2>1, <3>1 DEF EarlierOver
    <3>2. CASE ~Resolved(previous[Link(a)])
      <4>1. PICK b \in Calls : /\ previous[Link(a)] = Link(b)
                               /\ \A x \in Calls : Place(x) < Place(a)
                                                     => Place(x) <= Place(b)
        BY <2>1, <3>2 DEF ChainedInOrder, Resolved
      <4>2. b = c
        BY <1>2, <1>3, <2>1, <3>2, <4>1, Types DEF Resolved
      <4>3. Place(d) < Place(c)
        BY <1>4, <2>1, <4>1, <4>2, Types DEF Numbered
      <4> QED  BY <1>4, <2>1, <4>3 DEF EarlierOver
    <3> QED  BY <3>1, <3>2
  <2> QED  BY <1>2, <2>1 DEF EarlierOver, Place
<1>9. TailIsLatest'
  <2>1. PICK t \in Calls : /\ tails[Catalog] = Link(t) /\ Asked(t)
                           /\ \A d \in Calls : Place(d) <= Place(t)
    BY <1>2 DEF TailIsLatest
  <2>2. CASE t = c
    <3>1. tails'[Catalog] = NoLink
      BY <2>1, <2>2, Types DEF Leave, Link
    <3>2. ASSUME NEW d \in Calls, d # c PROVE pc[d] \in {"new", "over"}
      BY <1>4, <2>1, <2>2, <3>2, Types DEF EarlierOver, Numbered, Asked
    <3> QED  BY <1>2, <3>1, <3>2 DEF TailIsLatest
  <2>3. CASE t # c
    <3>1. tails'[Catalog] = Link(t)
      BY <2>1, <2>3, Types DEF Leave, Link
    <3> QED  BY <1>2, <2>1, <3>1 DEF TailIsLatest, Place
  <2> QED  BY <2>2, <2>3
<1>10. ChainedInOrder'  BY <1>2 DEF ChainedInOrder, Place
<1> QED  BY <1>1, <1>5, <1>7, <1>8, <1>9, <1>10

-----------------------------------------------------------------------------
(* The theorems. *)

\* The invariant about the catalog's chain holds in every reachable state.
THEOREM Invariance == Spec => []IndInv
<1>1. Init => IndInv
  <2>. SUFFICES ASSUME Init PROVE IndInv  OBVIOUS
  <2>1. TypeOK
    BY AuthorityAssumption DEF Init, TypeOK, KeysOf, Keys, NoLink, Links
  <2> QED
    BY <2>1, Types DEF IndInv, Init, Numbered, CatalogFirst, GatesOpen,
       EarlierOver, TailIsLatest, ChainedInOrder, Asked, Passed, Place
<1>2. IndInv /\ [Next]_vars => IndInv'
  <2>1. ASSUME IndInv, Next PROVE IndInv'
    <3>1. TypeOK'  BY <2>1, TypeStep DEF IndInv
    <3> QED  BY <2>1, <3>1, AskStep, AwayStep, LeaveStep DEF Next
  <2>2. ASSUME IndInv, UNCHANGED vars PROVE IndInv'
    BY <2>2 DEF IndInv, vars, TypeOK, Numbered, CatalogFirst, GatesOpen,
       EarlierOver, TailIsLatest, ChainedInOrder, Asked, Passed, Place, Resolved
  <2> QED  BY <2>1, <2>2
<1> QED  BY <1>1, <1>2, PTL DEF Spec

\* Every variable keeps its type (model-configuration-write-authority.ts, run).
THEOREM TypeCorrect == Spec => []TypeOK
<1>1. IndInv => TypeOK
  BY DEF IndInv
<1> QED  BY <1>1, Invariance, PTL

LEMMA Exclusion == IndInv => MutualExclusion
<1>. SUFFICES ASSUME IndInv, NEW c \in Calls, NEW d \in Calls,
                     pc[c] = "inside", pc[d] = "inside", c # d
              PROVE  FALSE
  BY DEF MutualExclusion
<1>1. /\ Asked(c) /\ Resolved(previous[Link(c)])
      /\ Asked(d) /\ Resolved(previous[Link(d)])
  BY DEF IndInv, GatesOpen, Passed, Asked
<1>2. Place(c) < Place(d) \/ Place(d) < Place(c)
  BY <1>1, Types DEF IndInv, Numbered
<1> QED  BY <1>1, <1>2 DEF IndInv, EarlierOver

LEMMA ExclusionNext == IndInv' => MutualExclusion'
BY Exclusion, PTL

\* Callbacks never overlap, whatever the scopes of the calls are.
THEOREM Exclusive == Spec => []MutualExclusion
BY Exclusion, Invariance, PTL

\* While a callback runs, managed files change only by its own writes.
THEOREM OwnWritesOnly == Spec => NoForeignWrites
<1>1. IndInv /\ [Next]_vars =>
        \A c \in Calls, k \in Keys :
          pc[c] = "inside" /\ writer'[k] # writer[k] => writer'[k] = c
  <2>. SUFFICES ASSUME IndInv, [Next]_vars, NEW c \in Calls, NEW k \in Keys,
                       pc[c] = "inside", writer'[k] # writer[k]
                PROVE  writer'[k] = c
    OBVIOUS
  <2>1. PICK d \in Calls, x \in Keys : Write(d, x)
    BY DEF Next, vars, Ask, NextKey, Enter, Leave
  <2>2. d \in active /\ writer'[k] = d
    BY <2>1 DEF Write, Permitted, IndInv, TypeOK
  <2> QED  BY <2>2, Exclusion DEF IndInv, TypeOK, MutualExclusion
<1> QED  BY <1>1, Invariance, PTL DEF Spec, NoForeignWrites

-----------------------------------------------------------------------------
(* The queue of PermitQueue. *)

\* Calls n + 1, n + 2, ... are the ones that are not over.
Prefix(n) == /\ n \in 0..asked.total
             /\ \A c \in Calls : Asked(c) => (pc[c] = "over" <=> Place(c) <= n)

\* No place is skipped, and calls end in the order they were made.
InOrder == /\ \A i \in 1..asked.total : \E c \in Calls : Place(c) = i
           /\ \E n \in Nat : Prefix(n)

LEMMA PlaceOfNone ==
  ASSUME IndInv, NEW c \in Calls PROVE ~Asked(c) <=> Place(c) = 0
BY Types DEF IndInv, Numbered

\* The callback that ends is that of the call after those that are over.
LEMMA EndsNext ==
  ASSUME IndInv, NEW c \in Calls, pc[c] \in {"waiting", "inside"},
         Resolved(previous[Link(c)]), NEW n \in Nat, Prefix(n), InOrder
  PROVE  Place(c) = n + 1
<1>1. Asked(c) /\ Place(c) > n /\ Place(c) \in 1..asked.total
  BY Types DEF Prefix, Asked, IndInv, Numbered
<1>2. ASSUME n + 1 < Place(c) PROVE FALSE
  <2>1. PICK d \in Calls : Place(d) = n + 1
    BY <1>1, <1>2, Types DEF InOrder, IndInv
  <2>2. Asked(d)  BY <2>1, PlaceOfNone
  <2>3. pc[d] = "over"  BY <1>1, <1>2, <2>1, <2>2 DEF IndInv, EarlierOver
  <2> QED  BY <2>1, <2>2, <2>3 DEF Prefix
<1> QED  BY <1>1, <1>2, Types DEF IndInv

LEMMA InOrderStep ==
  ASSUME IndInv, IndInv', InOrder, [Next]_vars PROVE InOrder'
<1>1. PICK n \in Nat : Prefix(n)  BY DEF InOrder
<1>2. ASSUME NEW c \in Calls, Ask(c) PROVE InOrder'
  <2>1. /\ asked'.total = asked.total + 1 /\ Place(c)' = asked.total + 1
        /\ pc[c] = "new" /\ pc'[c] = "waiting"
        /\ \A d \in Calls \ {c} : Place(d)' = Place(d) /\ pc'[d] = pc[d]
        /\ asked.total \in Nat
    BY <1>2, Types DEF Ask, IndInv, TypeOK, Place
  <2>2. ASSUME NEW i \in 1..asked'.total PROVE \E d \in Calls : Place(d)' = i
    <3>1. CASE i = asked.total + 1  BY <2>1, <3>1
    <3>2. CASE i # asked.total + 1
      <4>1. PICK d \in Calls : Place(d) = i  BY <2>1, <3>2 DEF InOrder
      <4>2. d # c
        BY <2>1, <4>1, PlaceOfNone DEF Asked
      <4> QED  BY <2>1, <4>1, <4>2
    <3> QED  BY <3>1, <3>2
  <2>3. Prefix(n)'
    BY <1>1, <2>1 DEF Prefix, Asked
  <2> QED  BY <2>2, <2>3 DEF InOrder
<1>3. ASSUME NEW c \in Calls, Leave(c) PROVE InOrder'
  <2>1. /\ asked' = asked /\ pc[c] = "inside" /\ pc'[c] = "over"
        /\ \A d \in Calls \ {c} : pc'[d] = pc[d]
    BY <1>3 DEF Leave, IndInv, TypeOK
  <2>2. Resolved(previous[Link(c)])
    BY <2>1 DEF IndInv, GatesOpen, Passed
  <2>3. Place(c) = n + 1  BY <1>1, <2>1, <2>2, EndsNext
  <2>4. \A d \in Calls : Asked(d) /\ Place(d) = n + 1 => d = c
    BY <2>3 DEF IndInv, Numbered
  <2>5. Prefix(n + 1)'
    <3>1. n + 1 \in 0..asked.total
      BY <2>3, Types DEF IndInv, Numbered
    <3>2. ASSUME NEW d \in Calls, Asked(d)'
          PROVE  pc'[d] = "over" <=> Place(d) <= n + 1
      <4>1. CASE d = c  BY <2>1, <2>3, <4>1
      <4>2. CASE d # c
        <5>1. Asked(d) /\ Place(d) # n + 1 /\ Place(d) \in Nat
          BY <2>1, <2>4, <3>2, <4>2, Types DEF Asked, IndInv
        <5> QED  BY <1>1, <2>1, <4>2, <5>1 DEF Prefix
      <4> QED  BY <4>1, <4>2
    <3> QED  BY <2>1, <3>1, <3>2 DEF Prefix, Place
  <2> QED  BY <2>1, <2>5 DEF InOrder, Place
<1>4. CASE /\ asked' = asked
           /\ \A d \in Calls : (pc'[d] = "over" <=> pc[d] = "over") /\ (Asked(d)' <=> Asked(d))
  BY <1>1, <1>4 DEF InOrder, Prefix, Place
<1>5. ASSUME NEW c \in Calls, NextKey(c) \/ Enter(c) \/ \E k \in Keys : Write(c, k)
      PROVE  InOrder'
  BY <1>4, <1>5 DEF NextKey, Enter, Write, Granted, Asked, IndInv, TypeOK
<1>6. CASE UNCHANGED vars  BY <1>4, <1>6 DEF vars, Asked
<1> QED  BY <1>2, <1>3, <1>5, <1>6 DEF Next

\* Those in line are the calls after the ones that are over.
LEMMA FinishedIs ==
  ASSUME IndInv, InOrder, NEW n \in Nat, Prefix(n) PROVE Finished = n
<1>. DEFINE P(m) == /\ m = 0 \/ \E c \in Calls : pc[c] = "over" /\ Place(c) = m
                    /\ \A c \in Calls : pc[c] = "over" => Place(c) <= m
<1>1. P(n)
  <2>1. ASSUME n # 0 PROVE \E c \in Calls : pc[c] = "over" /\ Place(c) = n
    <3>1. PICK c \in Calls : Place(c) = n  BY <2>1 DEF InOrder, Prefix
    <3> QED  BY <2>1, <3>1, PlaceOfNone DEF Prefix
  <2> QED  BY <2>1 DEF Prefix, Asked
<1>2. ASSUME NEW m \in 0..asked.total, P(m) PROVE m = n
  <2>1. ~(m < n)
    <3>. SUFFICES ASSUME m < n PROVE FALSE  OBVIOUS
    <3>1. PICK c \in Calls : Place(c) = n  BY DEF InOrder, Prefix
    <3>2. pc[c] = "over"  BY <3>1, PlaceOfNone DEF Prefix
    <3> QED  BY <1>2, <3>1, <3>2
  <2>2. ~(n < m)
    BY <1>2 DEF Prefix, Asked
  <2> QED  BY <2>1, <2>2, Types DEF IndInv
<1>3. Finished = CHOOSE m \in 0..asked.total : P(m)
  BY DEF Finished, Place
<1>4. n \in 0..asked.total  BY DEF Prefix
<1>. HIDE DEF P
<1> QED  BY <1>1, <1>2, <1>3, <1>4

LEMMA CallerIs ==
  ASSUME IndInv, NEW c \in Calls, Asked(c) PROVE Caller(Place(c)) = c
BY DEF Caller, Place, IndInv, Numbered

LEMMA LineIs ==
  IndInv /\ InOrder =>
    /\ asked.total \in Nat
    /\ \A n \in Nat : Prefix(n) =>
         /\ Line = [i \in 1..(asked.total - n) |-> Caller(n + i)]
         /\ asked.total - n \in Nat
         /\ \A i \in 1..(asked.total - n) :
              Caller(n + i) \in Calls /\ Place(Caller(n + i)) = n + i
<1>. SUFFICES ASSUME IndInv, InOrder, NEW n \in Nat, Prefix(n)
              PROVE  /\ Line = [i \in 1..(asked.total - n) |-> Caller(n + i)]
                     /\ asked.total - n \in Nat
                     /\ \A i \in 1..(asked.total - n) :
                          Caller(n + i) \in Calls /\ Place(Caller(n + i)) = n + i
  BY Types DEF IndInv
<1>1. Line = [i \in 1..(asked.total - n) |-> Caller(n + i)]
  BY FinishedIs DEF Line
<1>2. asked.total \in Nat /\ asked.total - n \in Nat
  BY Types DEF Prefix, IndInv
<1>3. ASSUME NEW i \in 1..(asked.total - n)
      PROVE  Caller(n + i) \in Calls /\ Place(Caller(n + i)) = n + i
  <2>1. PICK c \in Calls : Place(c) = n + i
    BY <1>2 DEF InOrder
  <2>2. Asked(c)  BY <1>2, <2>1, PlaceOfNone
  <2> QED  BY <2>1, <2>2, CallerIs
<1> QED  BY <1>1, <1>2, <1>3

\* The same in the state after a step.
LEMMA LineIsNext ==
  IndInv' /\ InOrder' =>
    /\ asked'.total \in Nat
    /\ \A n \in Nat : Prefix(n)' =>
         /\ Line' = [i \in 1..(asked'.total - n) |-> Caller(n + i)']
         /\ asked'.total - n \in Nat
         /\ \A i \in 1..(asked'.total - n) :
              Caller(n + i)' \in Calls /\ asked'.place[Caller(n + i)'] = n + i
<1>. DEFINE Facts ==
       /\ asked.total \in Nat
       /\ \A n \in Nat : Prefix(n) =>
            /\ Line = [i \in 1..(asked.total - n) |-> Caller(n + i)]
            /\ asked.total - n \in Nat
            /\ \A i \in 1..(asked.total - n) :
                 Caller(n + i) \in Calls /\ Place(Caller(n + i)) = n + i
<1>1. IndInv /\ InOrder => Facts  BY LineIs
<1>. HIDE DEF Facts
<1>2. IndInv' /\ InOrder' => Facts'  BY <1>1, PTL
<1> QED  BY <1>2 DEF Facts, Place

\* Nobody but c is inside.
LEMMA AloneInside ==
  ASSUME IndInv, NEW c \in Calls, pc[c] = "inside" PROVE Running = {c}
BY Exclusion DEF Running, MutualExclusion

\* A call keeps its place, so the caller of a place stays the same.
LEMMA CallerKept ==
  ASSUME IndInv, IndInv', InOrder, NEW i \in 1..asked.total,
         \A c \in Calls : Asked(c) => asked'.place[c] = asked.place[c]
                                      /\ pc'[c] # "new"
  PROVE  Caller(i)' = Caller(i)
<1>1. PICK c \in Calls : Place(c) = i  BY DEF InOrder
<1>2. Asked(c)  BY <1>1, PlaceOfNone, Types DEF IndInv
<1>3. Caller(i) = c  BY <1>1, <1>2, CallerIs
<1>4. \A d \in Calls : asked'.place[d] = i => d = c
  BY <1>1, <1>2 DEF IndInv, Numbered, Asked, Place
<1>5. Caller(i)' = CHOOSE d \in Calls : asked'.place[d] = i  BY DEF Caller
<1> QED  BY <1>1, <1>2, <1>3, <1>4, <1>5 DEF Place

LEMMA AskImplements ==
  ASSUME IndInv, IndInv', InOrder, InOrder', NEW c \in Calls, Ask(c)
  PROVE  Queue!Ask(c)
<1>1. PICK n \in Nat : Prefix(n)  BY DEF InOrder
<1>2. /\ asked'.total = asked.total + 1 /\ asked'.place[c] = asked.total + 1
      /\ pc[c] = "new" /\ pc'[c] = "waiting"
      /\ \A d \in Calls \ {c} : asked'.place[d] = asked.place[d] /\ pc'[d] = pc[d]
      /\ asked.total \in Nat
  BY Types DEF Ask, IndInv, TypeOK, Place
<1>3. Prefix(n)'  BY <1>1, <1>2 DEF Prefix, Asked, Place
<1>4. \A i \in 1..asked.total : Caller(i)' = Caller(i)
  BY <1>2, CallerKept DEF Asked
<1>. DEFINE t == asked.total + 1
<1>5. ASSUME NEW u, u = t PROVE Caller(u)' = c
  <2>1. \A d \in Calls : asked'.place[d] = u => d = c
    BY <1>2, <1>5, Types DEF IndInv, Numbered, Place
  <2>2. Caller(u)' = CHOOSE d \in Calls : asked'.place[d] = u
    BY DEF Caller
  <2> QED  BY <1>2, <1>5, <2>1, <2>2
<1>6. Running' = Running
  BY <1>2 DEF Running
<1> DEFINE m == asked.total - n
           seq == [i \in 1..m |-> Caller(n + i)]
<1>7. Line = seq /\ m \in Nat /\ \A i \in 1..m : Caller(n + i) \in Calls
  BY <1>1, LineIs
<1>8. Line' = [i \in 1..(m + 1) |-> Caller(n + i)']
  BY <1>2, <1>3, <1>7, LineIsNext
<1>9. ASSUME NEW i \in 1..m PROVE Caller(n + i)' = Caller(n + i)
  <2>1. n + i \in 1..asked.total  BY <1>2, <1>7
  <2> QED  BY <1>4, <2>1
<1>10. ASSUME NEW i \in 1..(m + 1), i \notin 1..m PROVE Caller(n + i)' = c
  <2>1. n + i = t  BY <1>2, <1>7, <1>10
  <2>2. \A u : u = t => Caller(u)' = c  BY <1>5
  <2> QED  BY <2>1, <2>2
<1>11. Line' = Append(Line, c)
  <2>. HIDE DEF m
  <2>1. Line' = [i \in 1..(m + 1) |-> IF i \in 1..m THEN Caller(n + i) ELSE c]
    BY <1>7, <1>8, <1>9, <1>10
  <2>2. seq \in Seq(Calls) /\ Len(seq) = m  BY <1>7
  <2> QED  BY <1>7, <2>1, <2>2
<1> QED  BY <1>6, <1>11 DEF Queue!Ask

LEMMA EnterImplements ==
  ASSUME IndInv, IndInv', InOrder, InOrder', NEW c \in Calls, Enter(c)
  PROVE  Queue!Enter
<1>1. PICK n \in Nat : Prefix(n)  BY DEF InOrder
<1>2. /\ asked' = asked /\ pc[c] = "waiting" /\ pc'[c] = "inside" /\ c \in Calls
      /\ \A d \in Calls \ {c} : pc'[d] = pc[d]
      /\ Resolved(previous[Link(c)])
  <2>1. Granted(c) /\ want[c] = {}  BY DEF Enter
  <2>2. awaits[c] = Catalog => Resolved(previous[Link(c)])
    BY <2>1 DEF Granted, Link
  <2>3. awaits[c] # Catalog => Resolved(previous[Link(c)])
    BY <2>1 DEF Granted, IndInv, GatesOpen, Passed
  <2> QED  BY <2>2, <2>3 DEF Enter, Granted, IndInv, TypeOK
<1>3. Asked(c) /\ Place(c) = n + 1  BY <1>1, <1>2, EndsNext DEF Asked
<1>4. asked.total - n \in Nat /\ 1 \in 1..(asked.total - n)
  BY <1>1, <1>3, LineIs, Types DEF IndInv, Numbered
<1>5. Line = [i \in 1..(asked.total - n) |-> Caller(n + i)]
      /\ \A i \in 1..(asked.total - n) : Caller(n + i) \in Calls
  BY <1>1, LineIs
<1>6. Line \in Seq(Calls) /\ Len(Line) = asked.total - n  BY <1>4, <1>5
<1>7. Line # <<>> /\ Head(Line) = c
  <2>1. Line[1] = c  BY <1>3, <1>4, <1>5, CallerIs
  <2> QED  BY <1>4, <1>6, <2>1
<1>8. Running = {} /\ Running' = {c}
  <2>1. Running = {}
    <3>. SUFFICES ASSUME NEW d \in Calls, pc[d] = "inside" PROVE FALSE  BY DEF Running
    <3>1. pc'[d] = "inside" /\ d # c  BY <1>2
    <3> QED  BY <1>2, <3>1, ExclusionNext DEF MutualExclusion
  <2>2. Running' = {c}  BY <1>2, <2>1 DEF Running
  <2> QED  BY <2>1, <2>2
<1>9. Line' = Line
  <2>1. Prefix(n)'  BY <1>1, <1>2, <1>3, Types DEF Prefix, Asked, Place, IndInv
  <2>2. Line' = [i \in 1..(asked.total - n) |-> Caller(n + i)']
    BY <1>2, <2>1, LineIsNext
  <2>3. \A u \in 1..asked.total : Caller(u)' = Caller(u)
    BY <1>2, CallerKept DEF Asked
  <2>4. \A i \in 1..(asked.total - n) : n + i \in 1..asked.total
    BY <1>1, <1>4, LineIs
  <2> QED  BY <1>5, <2>2, <2>3, <2>4
<1> QED  BY <1>7, <1>8, <1>9 DEF Queue!Enter

LEMMA LeaveImplements ==
  ASSUME IndInv, IndInv', InOrder, InOrder', NEW c \in Calls, Leave(c)
  PROVE  Queue!Leave
<1>1. PICK n \in Nat : Prefix(n)  BY DEF InOrder
<1>2. /\ asked' = asked /\ pc[c] = "inside" /\ pc'[c] = "over"
      /\ \A d \in Calls \ {c} : pc'[d] = pc[d]
      /\ Resolved(previous[Link(c)])
  BY DEF Leave, IndInv, TypeOK, GatesOpen, Passed
<1>3. Asked(c) /\ Place(c) = n + 1  BY <1>1, <1>2, EndsNext DEF Asked
<1>4. Running = {c} /\ Running' = {}
  BY <1>2, AloneInside DEF Running
<1>. DEFINE m == asked.total - n
<1>5. m \in Nat /\ m - 1 \in Nat /\ asked.total \in Nat
  BY <1>1, <1>3, LineIs, Types DEF IndInv, Numbered
<1>6. Line = [i \in 1..m |-> Caller(n + i)] /\ \A i \in 1..m : Caller(n + i) \in Calls
  BY <1>1, LineIs
<1>7. Prefix(n + 1)'
  <2>1. n + 1 \in 0..asked.total  BY <1>5
  <2>2. ASSUME NEW d \in Calls, pc'[d] # "new"
        PROVE  pc'[d] = "over" <=> Place(d) <= n + 1
    <3>1. CASE d = c  BY <1>2, <1>3, <3>1
    <3>2. CASE d # c
      <4>1. Asked(d) /\ Place(d) # n + 1 /\ Place(d) \in Nat
        BY <1>2, <1>3, <2>2, <3>2, Types DEF Asked, IndInv, Numbered
      <4> QED  BY <1>1, <1>2, <3>2, <4>1 DEF Prefix
    <3> QED  BY <3>1, <3>2
  <2> QED  BY <1>2, <2>1, <2>2 DEF Prefix, Place, Asked
<1>8. Line' = Tail(Line)
  <2>1. Line' = [i \in 1..(asked.total - (n + 1)) |-> Caller((n + 1) + i)']
    BY <1>2, <1>7, LineIsNext
  <2>2. \A u \in 1..asked.total : Caller(u)' = Caller(u)
    BY <1>2, CallerKept DEF Asked
  <2>3. \A i \in 1..(m - 1) : /\ (n + 1) + i = n + (i + 1)
                              /\ n + (i + 1) \in 1..asked.total
    BY <1>5
  <2>4. Line' = [i \in 1..(m - 1) |-> Caller(n + (i + 1))]
    <3>1. asked.total - (n + 1) = m - 1  BY <1>5
    <3>. HIDE DEF m
    <3> QED  BY <2>1, <2>2, <2>3, <3>1
  <2>. HIDE DEF m
  <2>5. Line \in Seq(Calls) /\ Len(Line) = m  BY <1>5, <1>6
  <2>6. Tail(Line) = [i \in 1..(m - 1) |-> Line[i + 1]]
    <3>1. Line # <<>>  BY <1>5, <2>5
    <3>2. /\ Tail(Line) \in Seq(Calls) /\ Len(Tail(Line)) = m - 1
          /\ \A i \in 1..(m - 1) : Tail(Line)[i] = Line[i + 1]
      BY <2>5, <3>1, HeadTailProperties
    <3>3. \A t \in Seq(Calls) : Len(t) = m - 1 => t = [i \in 1..(m - 1) |-> t[i]]
      OBVIOUS
    <3>4. Tail(Line) = [i \in 1..(m - 1) |-> Tail(Line)[i]]  BY <3>2, <3>3, Zenon
    <3> QED  BY <3>2, <3>4, Zenon
  <2>7. \A i \in 1..(m - 1) : Line[i + 1] = Caller(n + (i + 1))  BY <1>5, <1>6
  <2> QED  BY <2>4, <2>6, <2>7
<1> QED  BY <1>4, <1>8 DEF Queue!Leave

\* Links that are not made or opened, and writes, leave the queue alone.
LEMMA OthersStutter ==
  ASSUME IndInv, IndInv', InOrder, InOrder', asked' = asked, pc' = pc
  PROVE  UNCHANGED <<Line, Running>>
BY DEF Line, Running, Finished, Caller

\* Managed writes run one at a time and in the order they were asked for: each
\* step of the promise chains is a step of PermitQueue or none (acquire and run,
\* model-configuration-write-authority.ts).
THEOREM Implementation == Spec => Queue!InTurn
<1>1. Init => InOrder /\ Queue!Init
  <2>. SUFFICES ASSUME Init PROVE InOrder /\ Queue!Init  OBVIOUS
  <2>1. asked.total = 0 /\ \A c \in Calls : pc[c] = "new"  BY DEF Init
  <2>2. InOrder  BY <2>1 DEF InOrder, Prefix, Asked
  <2>3. Finished = 0
    <3>1. Finished \in 0..0
      BY <2>1 DEF Finished
    <3> QED  BY <3>1
  <2>4. Line = <<>>  BY <2>1, <2>3 DEF Line
  <2> QED  BY <2>1, <2>2, <2>4 DEF Queue!Init, Running
<1>2. IndInv /\ IndInv' /\ InOrder /\ [Next]_vars => InOrder'
  BY InOrderStep
<1>3. IndInv /\ IndInv' /\ InOrder /\ InOrder' /\ [Next]_vars
        => [Queue!Next]_<<Line, Running>>
  <2>. SUFFICES ASSUME IndInv, IndInv', InOrder, InOrder', [Next]_vars
                PROVE  [Queue!Next]_<<Line, Running>>
    OBVIOUS
  <2>1. ASSUME NEW c \in Calls, Ask(c) PROVE Queue!Next
    BY <2>1, AskImplements DEF Queue!Next
  <2>2. ASSUME NEW c \in Calls, Enter(c) PROVE Queue!Next
    BY <2>2, EnterImplements DEF Queue!Next
  <2>3. ASSUME NEW c \in Calls, Leave(c) PROVE Queue!Next
    BY <2>3, LeaveImplements DEF Queue!Next
  <2>4. ASSUME NEW c \in Calls, NextKey(c) \/ \E k \in Keys : Write(c, k)
        PROVE  UNCHANGED <<Line, Running>>
    BY <2>4, OthersStutter DEF NextKey, Write
  <2>5. CASE UNCHANGED vars  BY <2>5, OthersStutter DEF vars
  <2> QED  BY <2>1, <2>2, <2>3, <2>4, <2>5 DEF Next
<1> QED  BY <1>1, <1>2, <1>3, Invariance, PTL DEF Spec, Queue!InTurn
=============================================================================
