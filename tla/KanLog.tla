------------------------------- MODULE KanLog -------------------------------
(***************************************************************************)
(* What a stream of bytes promises: the commands that were written come    *)
(* back in the order they were written in, from the first on, up to one    *)
(* whose parts do not fit the fields they are written to.  From there on   *)
(* nothing is promised.                                                    *)
(***************************************************************************)
EXTENDS Integers, Sequences

CONSTANT Fits(_) \* the parts of a command fit their fields

VARIABLES
  log,   \* the commands that were written
  seen,  \* the commands that were read
  closed \* nothing is written any more

vars == <<log, seen, closed>>

Init == log = <<>> /\ seen = <<>> /\ closed = FALSE

\* Whoever writes may also take back what it has written.
Write == ~closed /\ UNCHANGED <<seen, closed>>

Close == ~closed /\ closed' = TRUE /\ UNCHANGED <<log, seen>>

\* The commands up to the next one fit.
Promised == \A i \in 1..(Len(seen) + 1) : i \in DOMAIN log => Fits(log[i])

Read ==
  /\ closed
  /\ Promised =>
       /\ Len(seen) < Len(log)
       /\ seen' = Append(seen, log[Len(seen) + 1])
  /\ UNCHANGED <<log, closed>>

Next == Write \/ Close \/ Read

Spec == Init /\ [][Next]_vars

=============================================================================
