----------------------------- MODULE KanStream -----------------------------
(***************************************************************************)
(* The stream between the compiler and the machine, byte for byte:         *)
(* CompileStream and VectorCompileStream (statements_class.hpp), the       *)
(* conversion of integers (bytebuffer.hpp), the order in which compile     *)
(* writes and copies streams (compiler.cpp) and runcode reads them         *)
(* (vm.cpp).                                                               *)
(*                                                                         *)
(* compile writes the code of a block to a stream of its own, and copies   *)
(* it, some bytes at a time, behind the command that holds its size.  What *)
(* was written is recorded as the commands a reader that is in step would  *)
(* find: the log.  runcode has no case for jumps, attributes and classes;  *)
(* it takes their operands for commands.                                   *)
(***************************************************************************)
EXTENDS Integers, Sequences

CONSTANTS
  CopySize,  \* the buffer of copy_stream_buffer: 4096 bytes
  Commands,  \* the commands that may be written, see Item
  Functions, \* the functions that may be defined, see Item
  Blocks,    \* the kinds of blocks that may be opened
  MaxSteps,  \* bound on the commands and blocks
  MaxDepth   \* bound on the blocks in blocks

VARIABLES
  streams, \* the streams of the running calls of compile, that of run first
  copies,  \* the streams that are being copied to the innermost one
  ending,  \* the command that follows them, or <<>>
  steps,   \* how many commands were written and blocks opened
  phase,   \* "writing", "reading", "read" or "overread"
  seen     \* the commands runcode has read

vars == <<streams, copies, ending, steps, phase, seen>>

-----------------------------------------------------------------------------
(* Commands.  An Item is a command with its operands; a function has its    *)
(* name, its signature and the bytes of its body.                           *)

Item(op, n, text, names, body) ==
  [op |-> op, n |-> n, text |-> text, names |-> names, body |-> body]

Plain(op) == Item(op, 0, <<>>, <<>>, <<>>)

\* bytecode_def.h: the number of a command is its place.
Opcodes ==
  << "PLUSB", "MINUSB", "MULB", "DIVB", "GET_ATTRIBUTEB", "POWB", "CALLB",
     "PUSH_INTEGRAL", "LOAD_ID", "PUSH_STRING", "UPLUS", "UMINUS", "SET_NAME",
     "START_SCOPE", "END_SCOPE", "GET_ATTRIBUTESB", "JMP_IF_FALSE", "JMP_IF_TRUE",
     "JMP_NEXT", "JMP_BACK", "POP_OBJECT", "EQUALB", "LESSERB", "GREATERB",
     "LESSER_OR_EQUALB", "GREATER_OR_EQUALB", "DEFINE_FUNCTION", "JMP_TO_ADDRESS",
     "RET", "RET_NULL", "PUSH_TRUE", "PUSH_FALSE", "CREATE_TYPE", "CREATE_METHOD",
     "GET_FROM_STACK_AND_ASSIGN", "PUSH_NONE", "LEFT_SHIFTB", "RIGHT_SHIFTB",
     "BIN_ORB", "BIN_ANDB", "BIN_XORB", "BIN_NOTB" >>

OpName(b) == IF b \in DOMAIN Opcodes THEN Opcodes[b] ELSE "NOP"

Opcode(op) == CHOOSE b \in DOMAIN Opcodes : Opcodes[b] = op

SizedOps == {"PUSH_STRING", "LOAD_ID", "SET_NAME", "GET_ATTRIBUTESB"}

\* The commands runcode reads operands of.
Reading ==
  {"PUSH_INTEGRAL", "PUSH_STRING", "LOAD_ID", "SET_NAME", "CALLB", "DEFINE_FUNCTION"}

Byte256 == 0..255

Huge == 2 * (2^30 - 1) + 1

\* What is written of the commands without a block and of functions.
ASSUME StreamAssumption ==
  /\ CopySize \in Nat \ {0} /\ MaxSteps \in Nat
  /\ \A c \in Commands \cup Functions :
       /\ c = Item(c.op, c.n, c.text, c.names, <<>>)
       /\ c.n \in 0..Huge /\ c.text \in Seq(Byte256) /\ c.names \in Seq(Seq(Byte256))
  /\ \A c \in Commands :
       /\ c.op \in {Opcodes[b] : b \in DOMAIN Opcodes} \ {"DEFINE_FUNCTION"}
       /\ c.op \in SizedOps => c = Item(c.op, 0, c.text, <<>>, <<>>)
       /\ c.op = "PUSH_INTEGRAL" => Len(c.text) = 1 /\ c.names = <<>>
       /\ c.op = "CALLB" => c = Item("CALLB", c.n, <<>>, <<>>, <<>>)
       /\ c.op \in SizedOps \cup {"PUSH_INTEGRAL", "CALLB"} \/ c = Plain(c.op)
  /\ \A f \in Functions : f.op = "DEFINE_FUNCTION" /\ f.n = 0

-----------------------------------------------------------------------------
(* Integers and bytes.                                                      *)

\* The conversion to an unsigned type of some bytes; sizes are below 2^31.
Cast(n, bytes) == IF bytes = 4 THEN n ELSE n % 256^bytes

\* int_to_bytes writes the first byte and then as many as there are.
IntToBytes(n, buffer) ==
  [i \in DOMAIN buffer |->
     IF i = 1 \/ n \div 256^(i - 1) # 0 THEN (n \div 256^(i - 1)) % 256 ELSE buffer[i]]

\* Variant: the buffer is not cleared.
Integral_Uncleared(n, bytes) == IntToBytes(Cast(n, bytes), [i \in 1..bytes |-> 255])

\* write_integral clears the buffer.
Integral(n, bytes) == IntToBytes(Cast(n, bytes), [i \in 1..bytes |-> 0])

\* bytes_to_int; Huge stands for the numbers from 2^31 on.
BytesToInt(b) ==
  LET from[i \in 1..Len(b)] == IF i = Len(b) THEN b[i] ELSE b[i] + 256 * from[i + 1]
  IN IF Len(b) = 4 /\ b[4] > 127 THEN Huge ELSE from[1]

-----------------------------------------------------------------------------
(* Streams.                                                                 *)

Stream(role) == [data |-> <<>>, offset |-> 0, role |-> role, log |-> <<>>]

\* write_to_stream inserts at the offset.
Write(s, bytes) ==
  [s EXCEPT !.data = SubSeq(@, 1, s.offset) \o bytes \o SubSeq(@, s.offset + 1, Len(@)),
            !.offset = @ + Len(bytes)]

\* Variant: the offset stays where it is.
Replace_Stays(s, bytes) ==
  [s EXCEPT !.data = SubSeq(@, 1, s.offset) \o bytes
                       \o SubSeq(@, s.offset + Len(bytes) + 1, Len(@))]

\* replace_data overwrites, and the offset moves behind it too.
Replace(s, bytes) ==
  [s EXCEPT !.data = SubSeq(@, 1, s.offset) \o bytes
                       \o SubSeq(@, s.offset + Len(bytes) + 1, Len(@)),
            !.offset = @ + Len(bytes)]

Seek(s, o) == [s EXCEPT !.offset = o]

Logged(s, items) == [s EXCEPT !.log = @ \o items]

\* What a reader finds that takes bytes for commands.  A command with operands
\* swallows the bytes behind it.
AsCommands(bytes) ==
  [i \in DOMAIN bytes |->
     Plain(IF OpName(bytes[i]) \in Reading THEN "STRAY" ELSE OpName(bytes[i]))]

\* push_sized_command: the size is cut first and then used twice.
Sized(c) ==
  LET size == Cast(Len(c.text), 2)
  IN Integral(Opcode(c.op), 1) \o Integral(size, 2) \o SubSeq(c.text, 1, size)

\* Variant: the sign of a float is in the first byte of its operand.
Encode_NoFlag(c) ==
  CASE c.op \in SizedOps -> Sized(c)
    [] c.op = "PUSH_INTEGRAL" -> Integral(Opcode(c.op), 1) \o Integral(c.n, 4)
    [] c.op = "CALLB" -> Integral(Opcode(c.op), 1) \o Integral(c.n, 1)
    [] OTHER -> Integral(Opcode(c.op), 1)

\* A command without a block.
Encode(c) ==
  CASE c.op \in SizedOps -> Sized(c)
    [] c.op = "PUSH_INTEGRAL" -> Integral(Opcode(c.op), 1) \o c.text \o Integral(c.n, 4)
    [] c.op = "CALLB" -> Integral(Opcode(c.op), 1) \o Integral(c.n, 1)
    [] OTHER -> Integral(Opcode(c.op), 1)

\* What is read of it.
ItemsOf(c) ==
  IF c.op = "GET_ATTRIBUTESB" THEN AsCommands(Encode(c)) ELSE <<c>>

Push(s, c) == Logged(Write(s, Encode(c)), ItemsOf(c))

\* push_command_with_arg<uint32_t>.
PushJump(s, op, size) ==
  LET bytes == Integral(Opcode(op), 1) \o Integral(size, 4)
  IN Logged(Write(s, bytes), AsCommands(bytes))

\* else_block: replace_last_empty_command, and the size.
ElseBlock(s, size) ==
  LET log == SubSeq(s.log, 1, Len(s.log) - 1)
      jump == Replace(Seek(s, s.offset - 1), Integral(Opcode("JMP_IF_TRUE"), 1))
      bytes == Integral(size, 4)
  IN Write([jump EXCEPT !.log = log \o <<Plain("JMP_IF_TRUE")>> \o AsCommands(bytes)], bytes)

\* add_argument_signature for each name, in a stream of its own.
SignatureStream(names) ==
  LET bytes[i \in 0..Len(names)] ==
        IF i = 0 THEN <<>>
        ELSE bytes[i - 1] \o Integral(Len(names[i]), 1) \o names[i]
  IN Write(Stream("signature"), bytes[Len(names)])

\* define_function: the sizes are cut, the name is written whole.
DefineFunction(s, f, size) ==
  Write(s, Integral(Opcode("DEFINE_FUNCTION"), 1) \o Integral(size, 4)
             \o Integral(Len(f.text), 1) \o Integral(Len(f.names), 1) \o f.text)

-----------------------------------------------------------------------------
(* The writer.                                                              *)

Init ==
  /\ streams = <<Stream("main")>>
  /\ copies = <<>>
  /\ ending = <<>>
  /\ steps = 0
  /\ phase = "writing"
  /\ seen = <<>>

Top == streams[Len(streams)]

SetTop(s) == [streams EXCEPT ![Len(streams)] = s]

\* compile goes on when nothing is left to copy.
Writing == phase = "writing" /\ copies = <<>> /\ ending = <<>>

PushCommand(c) ==
  /\ Writing
  /\ steps < MaxSteps
  /\ steps' = steps + 1
  /\ streams' = SetTop(Push(Top, c))
  /\ UNCHANGED <<copies, ending, phase, seen>>

\* A VectorCompileStream for the code of a block.
OpenBlock(role) ==
  /\ Writing
  /\ steps < MaxSteps
  /\ Len(streams) <= MaxDepth
  /\ Top.role # "return"
  /\ role = "else" =>
       Top.log # <<>> /\ Top.log[Len(Top.log)] = Plain("POP_OBJECT")
  /\ steps' = steps + 1
  /\ streams' = Append(streams, Stream(role))
  /\ UNCHANGED <<copies, ending, phase, seen>>

Outer == streams[Len(streams) - 1]

Closing(role) == Writing /\ Len(streams) > 1 /\ Top.role = role

\* The block is written: its caller gets the stream s, copies and then ends.
CloseBlock(s, sources, end) ==
  /\ streams' = Append(SubSeq(streams, 1, Len(streams) - 2), s)
  /\ copies' = [i \in DOMAIN sources |-> Seek(sources[i], 0)]
  /\ ending' = end
  /\ UNCHANGED <<steps, phase, seen>>

CloseIf ==
  /\ Closing("if")
  /\ CloseBlock(Logged(PushJump(Outer, "JMP_IF_FALSE", Len(Top.data)), Top.log),
                <<Top>>, <<Plain("POP_OBJECT")>>)

CloseElse ==
  /\ Closing("else")
  /\ CloseBlock(Logged(ElseBlock(Outer, Len(Top.data)), Top.log),
                <<Top>>, <<Plain("POP_OBJECT")>>)

CloseReturn ==
  /\ Closing("return")
  /\ CloseBlock(Logged(Outer, Top.log), <<Top>>, <<Plain("RET")>>)

CloseFunction(f) ==
  /\ Closing("function")
  /\ LET item == [f EXCEPT !.body = Top.data]
     IN CloseBlock(Logged(DefineFunction(Outer, f, Len(Top.data)), <<item>>),
                   <<SignatureStream(f.names), Top>>, <<>>)

\* Variant: the last, shorter block is left out.
CopyBlock_WholeOnly ==
  /\ phase = "writing"
  /\ copies # <<>>
  /\ LET s == Head(copies)
         n == IF Len(s.data) - s.offset < CopySize THEN 0 ELSE CopySize
     IN IF n = 0 THEN copies' = Tail(copies) /\ UNCHANGED streams
        ELSE /\ streams' = SetTop(Write(Top, SubSeq(s.data, s.offset + 1, s.offset + n)))
             /\ copies' = [copies EXCEPT ![1] = Seek(s, s.offset + n)]
  /\ UNCHANGED <<ending, steps, phase, seen>>

\* One turn of the loop of copy_stream_buffer.
CopyBlock ==
  /\ phase = "writing"
  /\ copies # <<>>
  /\ LET s == Head(copies)
         left == Len(s.data) - s.offset
         n == IF left < CopySize THEN left ELSE CopySize
     IN IF left = 0 THEN copies' = Tail(copies) /\ UNCHANGED streams
        ELSE /\ streams' = SetTop(Write(Top, SubSeq(s.data, s.offset + 1, s.offset + n)))
             /\ copies' = [copies EXCEPT ![1] = Seek(s, s.offset + n)]
  /\ UNCHANGED <<ending, steps, phase, seen>>

EndBlock ==
  /\ phase = "writing"
  /\ copies = <<>>
  /\ ending # <<>>
  /\ streams' = SetTop(Push(Top, ending[1]))
  /\ ending' = <<>>
  /\ UNCHANGED <<copies, steps, phase, seen>>

\* run: stream.seek(0).
Rewind ==
  /\ Writing
  /\ Len(streams) = 1
  /\ phase' = "reading"
  /\ streams' = <<Seek(Top, 0)>>
  /\ UNCHANGED <<copies, ending, steps, seen>>

-----------------------------------------------------------------------------
(* The reader.                                                              *)

\* Behind the end is whatever memory holds: the reader stops there.
Byte(o) == IF o < Len(Top.data) THEN Top.data[o + 1] ELSE 0

Bytes(o, n) ==
  IF n <= Len(Top.data) - o THEN SubSeq(Top.data, o + 1, o + n) ELSE <<>>

Number(o, n) == BytesToInt([i \in 1..n |-> Byte(o + i - 1)])

\* read_argument_signature, n times: where each name begins, and the end.
NamesFrom(o, n) ==
  LET at[i \in 1..(n + 1)] == IF i = 1 THEN o ELSE at[i - 1] + 1 + Byte(at[i - 1])
  IN at

\* One turn of runcode at the offset o: the command, how far it reads, and
\* where it goes on.
Read(item, end) == [item |-> item, end |-> end, next |-> end]

Decoded(o) ==
  LET op == OpName(Byte(o))
      size == Number(o + 1, 2)
      start == o + 7 + Byte(o + 5)
      names == NamesFrom(start, Byte(o + 6))
      end == names[Byte(o + 6) + 1]
      length == Number(o + 1, 4)
  IN CASE op = "PUSH_INTEGRAL" ->
            Read(Item(op, Number(o + 2, 4), <<Byte(o + 1)>>, <<>>, <<>>), o + 6)
       [] op \in {"PUSH_STRING", "LOAD_ID", "SET_NAME"} ->
            Read(Item(op, 0, Bytes(o + 3, size), <<>>, <<>>), o + 3 + size)
       [] op = "CALLB" -> Read(Item(op, Byte(o + 1), <<>>, <<>>, <<>>), o + 2)
       [] op = "DEFINE_FUNCTION" ->
            [item |-> Item(op, 0, Bytes(o + 7, Byte(o + 5)),
                           [i \in 1..Byte(o + 6) |-> Bytes(names[i] + 1, Byte(names[i]))],
                           Bytes(end, length)),
             end |-> end,
             next |-> IF length <= Len(Top.data) - end THEN end + length ELSE Len(Top.data)]
       [] OTHER -> Read(Plain(op), o + 1)

InCode == phase = "reading" /\ Top.offset < Len(Top.data)

ReadCommand ==
  /\ InCode
  /\ Decoded(Top.offset).end <= Len(Top.data)
  /\ seen' = Append(seen, Decoded(Top.offset).item)
  /\ streams' = SetTop(Seek(Top, Decoded(Top.offset).next))
  /\ UNCHANGED <<copies, ending, steps, phase>>

\* read_from_stream does not look where the stream ends.
Overread ==
  /\ InCode
  /\ Decoded(Top.offset).end > Len(Top.data)
  /\ phase' = "overread"
  /\ UNCHANGED <<streams, copies, ending, steps, seen>>

EndReading ==
  /\ phase = "reading"
  /\ Top.offset >= Len(Top.data)
  /\ phase' = "read"
  /\ UNCHANGED <<streams, copies, ending, steps, seen>>

Next ==
  \/ \E c \in Commands : PushCommand(c)
  \/ \E role \in Blocks : OpenBlock(role)
  \/ CloseIf \/ CloseElse \/ CloseReturn
  \/ \E f \in Functions : CloseFunction(f)
  \/ CopyBlock \/ EndBlock \/ Rewind
  \/ ReadCommand \/ Overread \/ EndReading

Spec == Init /\ [][Next]_vars

-----------------------------------------------------------------------------
(* Properties.                                                              *)

\* The types of the variables.  While compile writes, every stream is at its
\* end, also after a byte was replaced: insert and append are the same.
TypeOK ==
  /\ phase \in {"writing", "reading", "read", "overread"}
  /\ \A i \in DOMAIN streams :
       /\ streams[i].data \in Seq(Byte256)
       /\ phase = "writing" => streams[i].offset = Len(streams[i].data)
  /\ \A i \in DOMAIN copies : copies[i].offset \in 0..Len(copies[i].data)
  /\ steps \in 0..MaxSteps

\* The parts of a command fit the fields they are written to (a body has less
\* than 2^31 bytes, see Cast), and a reader does not take a byte of a jump or
\* of an attribute for a command with operands of its own.
Fits(c) ==
  CASE c.op = "DEFINE_FUNCTION" ->
         /\ Len(c.text) < 256 /\ Len(c.names) < 256 /\ Len(c.body) <= Huge
         /\ \A i \in DOMAIN c.names : Len(c.names[i]) < 256
    [] c.op = "CALLB" -> c.n < 256
    [] c.op \in SizedOps -> Len(c.text) < 65536
    [] OTHER -> c.op # "STRAY"

Log == INSTANCE KanLog WITH log <- streams[1].log, closed <- phase # "writing"

\* The stream implements the log: integers come back as they were, blocks are
\* copied whole and in place, and the size of a block is that of its code;
\* only a part that does not fit its field brings the reader out of step.
ImplementsLog == Log!Spec

\* The reader passes the end of the stream only behind a command that does not
\* fit (statements_class.hpp:280 checks nothing).
OverreadsOnlyMisfits ==
  phase = "overread" => \E i \in DOMAIN streams[1].log : ~Fits(streams[1].log[i])

\* When a whole log fits, the reader comes to its end.
AllRead ==
  phase = "read" /\ (\A i \in DOMAIN streams[1].log : Fits(streams[1].log[i])) =>
    seen = streams[1].log

=============================================================================
