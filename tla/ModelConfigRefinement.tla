------------------------ MODULE ModelConfigRefinement ------------------------
(***************************************************************************)
(* ModelConfig implements AtomicConfig: behind the journal, the files look *)
(* as if whole operations took effect one at a time.                       *)
(***************************************************************************)
EXTENDS ModelConfig

First(S) == CHOOSE o \in S : \A n \in S : o <= n

\* A file as callers may rely on it: while an operation that covers it is
\* unfinished, the bytes the operation found; otherwise the bytes on disk.
CommittedView ==
  [f \in Files |->
     LET open == {o \in Incomplete : \E r \in FileRoles :
                                       f = Path(journal[o].profile, r)}
     IN  IF open = {} THEN file[f] ELSE journal[First(open)].before[f[2]]]

ChangeOf(p, writes) == {<<Path(p, sf[2]), sf[1]>> : sf \in writes}

Atomic == INSTANCE AtomicConfig WITH
  store      <- CommittedView,
  Initially  <- [f \in Files |-> IF f \in Missing THEN Absent ELSE Base],
  Operations <- Ops,
  Changes    <- {ChangeOf(p, q.writes) : p \in Profiles, q \in Requests}

\* Saves that change the active route are atomic and durable: through stage
\* failures, failed rollbacks and process deaths at any point callers see all
\* of an operation's files change or none.
ImplementsAtomicConfig == Atomic!Spec
=============================================================================
