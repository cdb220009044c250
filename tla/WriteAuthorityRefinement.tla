----------------------- MODULE WriteAuthorityRefinement -----------------------
(***************************************************************************)
(* WriteAuthority implements PermitQueue: the calls in line are those that *)
(* were asked for after the last one that is over.                         *)
(***************************************************************************)
EXTENDS WriteAuthority

\* The call that was asked for as the i-th.
Caller(i) == CHOOSE c \in Calls : asked.place[c] = i

\* The place of the latest call that is over, or 0.
Finished == CHOOSE n \in 0..asked.total :
  /\ n = 0 \/ \E c \in Calls : pc[c] = "over" /\ asked.place[c] = n
  /\ \A c \in Calls : pc[c] = "over" => asked.place[c] <= n

Line    == [i \in 1..(asked.total - Finished) |-> Caller(Finished + i)]
Running == {c \in Calls : pc[c] = "inside"}

Queue == INSTANCE PermitQueue WITH line <- Line, running <- Running

\* Permits are granted in the order of the calls, one at a time, and every
\* call gets its turn: two levels of locks taken in one order cannot deadlock
\* and do not let a later call overtake an earlier one.
ImplementsPermitQueue == Queue!Spec
=============================================================================
