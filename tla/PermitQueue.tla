----------------------------- MODULE PermitQueue -----------------------------
(***************************************************************************)
(* What the write authority promises: managed writes run one at a time, in *)
(* the order they were asked for.  ModelConfig builds on this queue, and   *)
(* WriteAuthority shows that the promise chains of                         *)
(* src/main/model-configuration-write-authority.ts implement it.           *)
(***************************************************************************)
EXTENDS Sequences

CONSTANT Calls

VARIABLES line,    \* calls asked for and not yet over, oldest first
          running  \* the call whose callback runs, as a set

Init == line = <<>> /\ running = {}

Ask(c)  == line' = Append(line, c) /\ running' = running
Enter   == /\ line # <<>> /\ running = {}
           /\ running' = {Head(line)} /\ line' = line
Leave   == running # {} /\ running' = {} /\ line' = Tail(line)

Next == Enter \/ Leave \/ \E c \in Calls : Ask(c)

\* In turn and one at a time; and whoever waits gets its turn.
InTurn == Init /\ [][Next]_<<line, running>>

Spec == /\ InTurn
        /\ WF_<<line, running>>(Enter) /\ WF_<<line, running>>(Leave)
=============================================================================
