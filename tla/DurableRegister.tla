--------------------------- MODULE DurableRegister ---------------------------
(***************************************************************************)
(* What the gateway ownership ledger promises: a register whose value      *)
(* outlives the process.  A write that was acknowledged is what the next   *)
(* process finds; one that failed, or that the process did not live to see *)
(* the end of, may be found instead, but only until a write is             *)
(* acknowledged.  GatewayLedger implements it                              *)
(* (src/main/gateway-process-ownership.ts).                                *)
(***************************************************************************)
CONSTANT Value

VARIABLES
    value,  \* what the last acknowledged write wrote
    open,   \* values of later writes whose outcome nobody knows
    live    \* whether a process is there to write

vars == <<value, open, live>>

Init == value \in Value /\ open = {} /\ live = TRUE

Acknowledge ==
  /\ live /\ UNCHANGED live
  /\ value' \in Value /\ open' = {}

Doubt ==
  /\ live /\ UNCHANGED <<live, value>>
  /\ \E v \in open' : v \in Value /\ open' = open \union {v}

Die ==
  /\ live /\ live' = FALSE
  /\ UNCHANGED <<value, open>>

\* The next process finds one of the values that may be there.
Find ==
  /\ ~live /\ live' = TRUE
  /\ value' \in open \union {value} /\ open' = {}

Next == Acknowledge \/ Doubt \/ Die \/ Find

Spec == Init /\ [][Next]_vars
=============================================================================
