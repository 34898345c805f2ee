----------------------------- MODULE KanSession -----------------------------
(***************************************************************************)
(* What the prompt promises: a line that makes sense prints what it means, *)
(* in that order, gives the prompt back and leaves nothing behind.  Of     *)
(* other lines nothing is promised.                                        *)
(***************************************************************************)
EXTENDS Integers, Sequences

CONSTANTS
  Sound(_), \* the line makes sense
  Answer(_) \* what it prints

VARIABLES
  state,   \* "waiting", "busy", "lost" or "gone"
  line,    \* the last line that was read
  printed, \* what it has printed
  left     \* how many objects earlier lines have left behind

vars == <<state, line, printed, left>>

Init == state = "waiting" /\ line = <<>> /\ printed = <<>> /\ left = 0

\* Any line may be typed.
ReadLine ==
  /\ state = "waiting"
  /\ state' = "busy"
  /\ printed' = <<>>
  /\ left' = left

\* p is how the answer to the line begins.
Begins(p) == Len(p) <= Len(Answer(line)) /\ p = SubSeq(Answer(line), 1, Len(p))

Show ==
  /\ state = "busy"
  /\ Len(printed') = Len(printed) + 1
  /\ printed = SubSeq(printed', 1, Len(printed))
  /\ Sound(line) => Begins(printed')
  /\ UNCHANGED <<state, line, left>>

Return ==
  /\ state = "busy"
  /\ state' = "waiting"
  /\ Sound(line) => printed = Answer(line) /\ left' = left
  /\ UNCHANGED <<line, printed>>

Lose ==
  /\ state = "busy"
  /\ ~Sound(line)
  /\ state' = "lost"
  /\ UNCHANGED <<line, printed, left>>

Quit ==
  /\ state = "waiting"
  /\ state' = "gone"
  /\ UNCHANGED <<line, printed, left>>

Next == ReadLine \/ Show \/ Return \/ Lose \/ Quit

Spec == Init /\ [][Next]_vars

=============================================================================
