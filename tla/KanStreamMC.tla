---------------------------- MODULE KanStreamMC ----------------------------
(***************************************************************************)
(* Commands for KanStream, with numbers and texts at the limits of the     *)
(* fields they are written to.                                             *)
(***************************************************************************)
EXTENDS KanStream

CONSTANTS
  MCPlain,    \* commands without operands
  MCNumbers,  \* the operands of PUSH_INTEGRAL
  MCSized,    \* commands with a text
  MCSizes,    \* how long the texts are
  MCCounts    \* the operands of CALLB

\* A text of n letters.
Letters(n) == [i \in 1..n |-> 97]

MCCommands ==
  {Plain(op) : op \in MCPlain}
    \cup {Item("PUSH_INTEGRAL", n, <<flag>>, <<>>, <<>>) : n \in MCNumbers, flag \in {0, 1}}
    \cup {Item(op, 0, Letters(n), <<>>, <<>>) : op \in MCSized, n \in MCSizes}
    \cup {Item("CALLB", n, <<>>, <<>>, <<>>) : n \in MCCounts}

\* Lengths of the name of a function and of its arguments.
MCLengths == {<<2>>, <<2, 1, 1>>, <<255, 255>>, <<256, 1, 1, 1>>, <<2, 256>>}

MCFunctions ==
  {Item("DEFINE_FUNCTION", 0, Letters(l[1]), [i \in 1..(Len(l) - 1) |-> Letters(l[i + 1])],
        <<>>) : l \in MCLengths}

=============================================================================
