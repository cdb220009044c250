---------------------------- MODULE WriteAuthority ----------------------------
(***************************************************************************)
(* The managed-file write authority of                                     *)
(* src/main/model-configuration-write-authority.ts: callers of run take    *)
(* one lock per key, the catalog's first and then their profiles' in       *)
(* order, each lock being a chain of promises whose last link is kept in a *)
(* map and taken out of it when its holder lets go.  A write is let        *)
(* through only under a live permit whose scope covers the file; work a    *)
(* callback left running behind it still carries the permit of the past.   *)
(*                                                                         *)
(* Key 0 is "global:model-catalog", the others are profiles in the order   *)
(* of their ids.  A link of a chain is named by the call and key it was    *)
(* made for.                                                               *)
(***************************************************************************)
EXTENDS Naturals

CONSTANTS Calls,         \* calls of run, each made at most once
          Profiles,      \* profile numbers
          ScopeProfiles, \* the profiles of each call's scope
          ScopeGlobal,   \* whether its scope includes the shared catalog
          Nobody         \* no call

Catalog == 0
Keys    == Profiles \cup {Catalog}
Links   == Calls \X Keys
NoLink  == <<Nobody, Catalog>>

ASSUME AuthorityAssumption ==
  /\ Profiles \subseteq Nat \ {0}
  /\ ScopeProfiles \in [Calls -> SUBSET Profiles]
  /\ ScopeGlobal \in [Calls -> BOOLEAN]
  /\ Nobody \notin Calls

VARIABLES
  pc,       \* per call: "new", "waiting", "inside", "over"
  want,     \* per call: keys it has not asked for yet
  awaits,   \* per call: the key it waits for
  tails,    \* per key: the last link of its chain, if the map has one
  previous, \* per link: the link it was chained to
  released, \* links whose gate is open
  active,   \* calls whose permit is live
  writer,   \* history: who wrote the files of a key last
  asked     \* history: how many calls asked before, and each call's place

vars == <<pc, want, awaits, tails, previous, released, active, writer, asked>>

KeysOf(c)     == ScopeProfiles[c] \cup {Catalog}
FirstKey(k, S) == k \in S /\ \A x \in S : k <= x
Resolved(l)   == l = NoLink \/ l \in released

Init ==
  /\ pc = [c \in Calls |-> "new"]
  /\ want = [c \in Calls |-> KeysOf(c)]
  /\ awaits = [c \in Calls |-> Catalog]
  /\ tails = [k \in Keys |-> NoLink]
  /\ previous = [l \in Links |-> NoLink]
  /\ released = {}
  /\ active = {}
  /\ writer = [k \in Keys |-> Nobody]
  /\ asked = [total |-> 0, place |-> [c \in Calls |-> 0]]

\* acquire: chain a new link to the last one of key k.
Acquire(c, k) ==
  /\ previous' = [previous EXCEPT ![<<c, k>>] = tails[k]]
  /\ tails' = [tails EXCEPT ![k] = <<c, k>>]
  /\ awaits' = [awaits EXCEPT ![c] = k]
  /\ want' = [want EXCEPT ![c] = @ \ {k}]

\* run is called: its first key is the catalog's.
Ask(c) ==
  /\ pc[c] = "new"
  /\ pc' = [pc EXCEPT ![c] = "waiting"]
  /\ \E k \in Keys : FirstKey(k, want[c]) /\ Acquire(c, k)
  /\ asked' = [total |-> asked.total + 1,
               place |-> [asked.place EXCEPT ![c] = asked.total + 1]]
  /\ UNCHANGED <<released, active, writer>>

Granted(c) == /\ pc[c] = "waiting"
              /\ Resolved(previous[<<c, awaits[c]>>])

\* Variant: the next key is asked for without waiting for this one.
NextKey_Unawaited(c) ==
  /\ pc[c] = "waiting"
  /\ \E k \in Keys : FirstKey(k, want[c]) /\ Acquire(c, k)
  /\ UNCHANGED <<pc, released, active, writer, asked>>

\* The lock waited for is granted and the next one is asked for.
NextKey(c) ==
  /\ Granted(c)
  /\ \E k \in Keys : FirstKey(k, want[c]) /\ Acquire(c, k)
  /\ UNCHANGED <<pc, released, active, writer, asked>>

\* All locks are granted: the callback starts under a live permit.
Enter(c) ==
  /\ Granted(c) /\ want[c] = {}
  /\ pc' = [pc EXCEPT ![c] = "inside"]
  /\ active' = active \cup {c}
  /\ UNCHANGED <<want, awaits, tails, previous, released, writer, asked>>

\* Variant: the permit is not asked whether it is still live.
Permitted_Stale(c, k) == k \in KeysOf(c) /\ (k = Catalog => ScopeGlobal[c])
\* assertManagedWritePath for a file of key k.
Permitted(c, k) == /\ c \in active
                   /\ k \in KeysOf(c)
                   /\ k = Catalog => ScopeGlobal[c]

\* The callback, or work it left running, writes a file of key k.
Write(c, k) ==
  /\ pc[c] \in {"inside", "over"}
  /\ Permitted(c, k)
  /\ writer' = [writer EXCEPT ![k] = c]
  /\ UNCHANGED <<pc, want, awaits, tails, previous, released, active, asked>>

\* Variant: the map's entry is dropped whoever it belongs to.
Leave_DropsTail(c) ==
  /\ pc[c] = "inside"
  /\ pc' = [pc EXCEPT ![c] = "over"]
  /\ active' = active \ {c}
  /\ released' = released \cup {<<c, k>> : k \in KeysOf(c)}
  /\ tails' = [k \in Keys |-> IF k \in KeysOf(c) THEN NoLink ELSE tails[k]]
  /\ UNCHANGED <<want, awaits, previous, writer, asked>>

\* The callback returned or threw: the permit ends, the gates open and links
\* nobody was chained to leave the map.
Leave(c) ==
  /\ pc[c] = "inside"
  /\ pc' = [pc EXCEPT ![c] = "over"]
  /\ active' = active \ {c}
  /\ released' = released \cup {<<c, k>> : k \in KeysOf(c)}
  /\ tails' = [k \in Keys |-> IF tails[k] = <<c, k>> THEN NoLink ELSE tails[k]]
  /\ UNCHANGED <<want, awaits, previous, writer, asked>>

Next == \E c \in Calls : \/ Ask(c) \/ NextKey(c) \/ Enter(c) \/ Leave(c)
                         \/ \E k \in Keys : Write(c, k)

Spec == Init /\ [][Next]_vars

\* Promise reactions run, and callbacks end (they await local file work only).
Fairness == \A c \in Calls : WF_vars(NextKey(c) \/ Enter(c)) /\ WF_vars(Leave(c))
FairSpec == Spec /\ Fairness
-----------------------------------------------------------------------------
(* Properties. *)

\* Every variable stays in its type; the live permits are those of the
\* callbacks that run.
TypeOK ==
  /\ pc \in [Calls -> {"new", "waiting", "inside", "over"}]
  /\ want \in [Calls -> SUBSET Keys]
  /\ awaits \in [Calls -> Keys]
  /\ tails \in [Keys -> Links \cup {NoLink}]
  /\ previous \in [Links -> Links \cup {NoLink}]
  /\ released \subseteq Links
  /\ active = {c \in Calls : pc[c] = "inside"}
  /\ writer \in [Keys -> Calls \cup {Nobody}]
  /\ asked \in [total : Nat, place : [Calls -> Nat]]

\* Callbacks never overlap, whatever their scopes: the catalog's lock is taken
\* by profile-scoped writes too, and taking the map's entry out while others
\* are chained to it does not let a newcomer past them.
MutualExclusion ==
  \A c, d \in Calls : pc[c] = "inside" /\ pc[d] = "inside" => c = d

\* While a callback runs, managed files change only by its own writes: work
\* left behind by an earlier callback is refused (assertPermitObject).
NoForeignWrites ==
  [][\A c \in Calls, k \in Keys :
       pc[c] = "inside" /\ writer'[k] # writer[k] => writer'[k] = c]_vars
=============================================================================
