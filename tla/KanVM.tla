------------------------------- MODULE KanVM -------------------------------
(***************************************************************************)
(* The KanLang virtual machine: runcode (vm.cpp), the scopes it keeps      *)
(* (scope.cpp), the reference counts of its objects (type.cpp, list.hpp),  *)
(* calls of functions (function.hpp, execfunc) and the lifetime of a run   *)
(* (easy.hpp).                                                             *)
(*                                                                         *)
(* The machine has no working jump: every instruction is executed whatever *)
(* the values are.  A value is therefore reduced to the kind of its object *)
(* and what is left is what can go wrong: who holds a reference to which   *)
(* object, when an object is freed, which scope a name is found in, and    *)
(* which buffer the bytes of a called function are taken from.             *)
(*                                                                         *)
(* A pointer is the index of an object in heap; an index is never reused,  *)
(* so a reference to a freed object stays recognisable.                    *)
(***************************************************************************)
EXTENDS Integers, Sequences, FiniteSets

CONSTANTS
  Names,     \* identifiers
  PrintName, \* the identifier std_initialize binds, "print"
  Programs,  \* compiled programs: a program is a sequence of code blocks,
             \* block 1 the top level, the others bodies of functions
  MaxRuns    \* bound on the number of lines the prompt reads

VARIABLES
  heap,     \* every object ever created
  frames,   \* activations of runcode, the top level first
  program,  \* the program of the current run, <<>> between runs
  meta,     \* vm_meta_t: the true, false and none objects
  typeGen,  \* the generation of the types in vm.cpp's type_allocator
  runs,     \* lines read so far
  status,   \* "prompt", "running", "faulted" or "exited"
  fault     \* the undefined behaviour that was met, or "none"

vars == <<heap, frames, program, meta, typeGen, runs, status, fault>>

Nil == 0   \* nullptr

-----------------------------------------------------------------------------
(* Instructions, bytecode_def.h.  The operands of an instruction are fields *)
(* of its record.                                                           *)

BinaryOps == {"PLUSB", "MINUSB", "MULB", "DIVB", "LEFT_SHIFTB", "RIGHT_SHIFTB",
              "BIN_ORB", "BIN_ANDB", "BIN_XORB"}

NegatingOps == {"UMINUS", "BIN_NOTB"}

LiteralOps == {"PUSH_INTEGRAL", "PUSH_STRING"}

SingletonOps == {"PUSH_TRUE", "PUSH_FALSE", "PUSH_NONE"}

JumpOps == {"JMP_IF_FALSE", "JMP_IF_TRUE"}

\* What runcode does to scopes.back().
ScopeOps == {"SET_NAME", "DEFINE_FUNCTION", "END_SCOPE"}

\* The other opcodes the compiler writes and runcode's switch has no case for.
IgnoredOps == {"EQUALB", "LESSERB", "GREATERB", "LESSER_OR_EQUALB",
               "GREATER_OR_EQUALB", "GET_ATTRIBUTESB", "NOP"}

PlainOps == BinaryOps \cup NegatingOps \cup LiteralOps \cup SingletonOps
              \cup IgnoredOps
              \cup {"UPLUS", "POP_OBJECT", "START_SCOPE", "END_SCOPE", "RET",
                    "RET_NULL", "STRAY"}

\* An operand byte of an instruction without a case is executed as an opcode.
\* One that takes operands itself swallows the bytes that follow: from there
\* on runcode no longer reads the instructions the compiler wrote.
OperandByte(b) ==
  [op |-> CASE b \in {7, 8, 9, 10, 13, 27} -> "STRAY"
            [] b = 1  -> "PLUSB"        [] b = 2  -> "MINUSB"
            [] b = 3  -> "MULB"         [] b = 4  -> "DIVB"
            [] b = 11 -> "UPLUS"        [] b = 12 -> "UMINUS"
            [] b = 14 -> "START_SCOPE"  [] b = 15 -> "END_SCOPE"
            [] b = 21 -> "POP_OBJECT"   [] b = 29 -> "RET"
            [] b = 30 -> "RET_NULL"     [] b = 31 -> "PUSH_TRUE"
            [] b = 32 -> "PUSH_FALSE"   [] b = 36 -> "PUSH_NONE"
            [] b = 37 -> "LEFT_SHIFTB"  [] b = 38 -> "RIGHT_SHIFTB"
            [] b = 39 -> "BIN_ORB"      [] b = 40 -> "BIN_ANDB"
            [] b = 41 -> "BIN_XORB"     [] b = 42 -> "BIN_NOTB"
            [] OTHER  -> "NOP"]

\* The values of literals are operands that nothing here looks at, and a
\* program may leave them out.  The count of a jump is the number of
\* instructions it is to pass over, its own operand bytes, which follow as
\* instructions of their own, included.
Instruction(blocks) ==
  [op : PlainOps]
    \cup [op : {"PUSH_INTEGRAL"}, number : Int]
    \cup [op : {"PUSH_STRING"}, text : STRING]
    \cup [op : JumpOps, count : Nat]
    \cup [op : {"LOAD_ID", "SET_NAME"}, name : Names]
    \cup [op : {"CALLB"}, argscount : Nat]
    \cup [op : {"DEFINE_FUNCTION"}, name : Names, signature : Seq(Names),
          body : blocks]

\* compile ends the top level with END_SCOPE and writes the body of a function
\* behind the block that defines it.  It also begins every block with
\* START_SCOPE, but an else that is the first statement of the block writes its
\* jump over that byte.
WellFormed(p) ==
  /\ p \in Seq(Seq(Instruction(DOMAIN p)))
  /\ p # <<>>
  /\ p[1][Len(p[1])].op = "END_SCOPE"
  /\ \A b \in DOMAIN p :
       /\ p[b] # <<>>
       /\ \A i \in DOMAIN p[b] :
            p[b][i].op = "DEFINE_FUNCTION" => p[b][i].body > b

ASSUME ProgramsAssumption ==
  /\ IsFiniteSet(Names)
  /\ PrintName \in Names
  /\ MaxRuns \in Nat
  /\ \A p \in Programs : WellFormed(p)

-----------------------------------------------------------------------------
(* Objects and reference counts.  gen is the generation of the object's     *)
(* type: 0 for the allocator of main.cpp, which is never emptied.  lost is  *)
(* no field of the program: it counts the references nobody will give back. *)

Kinds == {"int", "string", "bool", "none", "function", "print"}

ObjectRecord ==
  [kind : Kinds, refs : Nat, live : BOOLEAN, gen : Nat, home : Nat,
   body : Nat, signature : Seq(Names), lost : Nat]

Object(kind, refs, gen) ==
  [kind |-> kind, refs |-> refs, live |-> TRUE, gen |-> gen, home |-> Nil,
   body |-> Nil, signature |-> <<>>, lost |-> 0]

FunctionObject(addr, instr) ==
  [Object("function", 0, typeGen) EXCEPT
     !.home = addr, !.body = instr.body, !.signature = instr.signature]

\* How often the function f (a stack, a list, a scope) holds the pointer o.
Count(f, o) == Cardinality({i \in DOMAIN f : f[i] = o})

Incref(h, o) == [h EXCEPT ![o].refs = @ + 1]

\* KanObject_Incref on everything f holds.
Acquire(h, f) ==
  [o \in DOMAIN h |-> [h[o] EXCEPT !.refs = @ + Count(f, o)]]

\* KanObject_Decref on everything f holds.
Release(h, f) ==
  [o \in DOMAIN h |->
     IF Count(f, o) = 0 THEN h[o]
     ELSE IF h[o].refs <= Count(f, o)
          THEN [h[o] EXCEPT !.refs = 0, !.live = FALSE]
          ELSE [h[o] EXCEPT !.refs = @ - Count(f, o)]]

\* The stack or queue f goes away and nobody decrements what it held.
Lose(h, f) == [o \in DOMAIN h |-> [h[o] EXCEPT !.lost = @ + Count(f, o)]]

\* KanObject_XDecref: the caller never frees the object.
XDecref(h, o) == [h EXCEPT ![o].refs = IF @ <= 1 THEN 0 ELSE @ - 1]

\* The destructor, called whatever the count is.
Free(h, objects) ==
  [o \in DOMAIN h |->
     IF o \in objects THEN [h[o] EXCEPT !.refs = 0, !.live = FALSE] ELSE h[o]]

-----------------------------------------------------------------------------
(* Scopes: a scope maps a name to the object it is bound to or to Nil.      *)

EmptyScope == [n \in Names |-> Nil]

\* The count of every object after Scope::set_name on the scope s.
SetNameHeap(h, s, name, o) ==
  IF s[name] = o THEN h
  ELSE Incref(IF s[name] = Nil THEN h ELSE Release(h, <<s[name]>>), o)

\* The names of several scopes as one function.
AllNames(scopes) ==
  [x \in (DOMAIN scopes) \X Names |-> scopes[x[1]][x[2]]]

Top == frames[Len(frames)]

\* The scopes runcode searches, innermost last: the parent of a function's
\* first scope is the global scope, not the scope of its caller.
Chain ==
  IF Len(frames) = 1 THEN Top.scopes
  ELSE <<frames[1].scopes[1]>> \o Top.scopes

\* lookup_name finds o.
Found(name, o) ==
  /\ o # Nil
  /\ \E s \in DOMAIN Chain :
       /\ Chain[s][name] = o
       /\ \A t \in DOMAIN Chain : t > s => Chain[t][name] = Nil

-----------------------------------------------------------------------------
(* The current instruction.                                                 *)

Code == program[Top.block]

AtEnd == Top.pc > Len(Code)

Instr == Code[Top.pc]

At(ops) == ~AtEnd /\ Instr.op \in ops

\* The i-th value from the top of the stack.
Operand(i) == Top.stack[Len(Top.stack) + 1 - i]

KindOf(o) == heap[o].kind

Drop(stack, n) == SubSeq(stack, 1, Len(stack) - n)

\* Variant: an argument is put behind those that were taken before it.
Arguments_Reversed(n) == [i \in 1..n |-> Operand(i)]

\* The arguments of a call, in the order they were written, and the callable.
Arguments(n) == SubSeq(Top.stack, Len(Top.stack) - n + 1, Len(Top.stack))

Callable == Operand(Instr.argscount + 1)

\* How many values the instruction i takes from the stack.
Takes(i) ==
  CASE i.op \in BinaryOps -> 2
    [] i.op \in NegatingOps \cup {"UPLUS", "POP_OBJECT", "SET_NAME", "RET"} -> 1
    [] i.op = "CALLB" -> i.argscount + 1
    [] OTHER -> 0

\* What is needed now: runcode returns the top of the stack of a body.
Needed ==
  IF AtEnd THEN IF Len(frames) = 1 THEN 0 ELSE 1 ELSE Takes(Instr)

-----------------------------------------------------------------------------
(* Undefined behaviour: what the code does not check before it acts.        *)

StackUnderflow == Len(Top.stack) < Needed

NullDereference ==
  At({"LOAD_ID"}) /\ ~ \E o \in DOMAIN heap : Found(Instr.name, o)

NullCall ==
  /\ ~StackUnderflow
  /\ \/ At(BinaryOps) /\ KindOf(Operand(2)) # "int"
     \/ At(NegatingOps) /\ KindOf(Operand(1)) # "int"
     \/ At({"CALLB"}) /\ KindOf(Callable) \notin {"function", "print"}

TypeConfusion ==
  /\ ~StackUnderflow
  /\ At(BinaryOps)
  /\ KindOf(Operand(2)) = "int"
  /\ KindOf(Operand(1)) # "int"

\* KanType_DefaultPos returns its operand; runcode drops the operand first.
UseAfterFree ==
  /\ ~StackUnderflow
  /\ At({"UPLUS"})
  /\ KindOf(Operand(1)) # "int"
  /\ heap[Operand(1)].refs <= 1

EmptyStringPop ==
  /\ ~StackUnderflow
  /\ At({"CALLB"})
  /\ KindOf(Callable) = "print"
  /\ Instr.argscount = 0

SignatureOverrun ==
  /\ ~StackUnderflow
  /\ At({"CALLB"})
  /\ KindOf(Callable) = "function"
  /\ Instr.argscount > Len(heap[Callable].signature)

\* An activation works on scopes.back() and has opened none.  Below the scopes
\* of the top level there is nothing.  Below those of a function is the global
\* scope, which it now takes for its own: a name it binds there and the scope
\* itself are gone with its END_SCOPE, while the top level still lists the
\* scope and ends by deleting it once more.
NoScope == At(ScopeOps) /\ Top.scopes = <<>>

\* An END_SCOPE that is not the last one of the line deletes the global scope.
ClosesEarly ==
  /\ At({"END_SCOPE"})
  /\ Len(frames) = 1
  /\ Len(Top.scopes) = 1
  /\ \E i \in DOMAIN Code : i > Top.pc /\ Code[i].op = "END_SCOPE"

\* Variant: the address of a function applied to the right buffer.
StrayCode_AnyBuffer == At({"STRAY"}) \/ ClosesEarly

\* The bytes executed from here on are not the ones the compiler wrote for
\* this place: an operand byte swallowed instructions or closed the scope of
\* the line, or the address of a function is applied to another buffer.
StrayCode ==
  \/ At({"STRAY"})
  \/ ClosesEarly
  \/ /\ At({"CALLB"})
     /\ ~StackUnderflow
     /\ ~SignatureOverrun
     /\ KindOf(Callable) = "function"
     /\ heap[Callable].home # Top.block

Defined ==
  /\ ~StackUnderflow
  /\ ~NullDereference
  /\ ~NullCall
  /\ ~TypeConfusion
  /\ ~UseAfterFree
  /\ ~EmptyStringPop
  /\ ~SignatureOverrun
  /\ ~NoScope
  /\ ~StrayCode

Abort(condition, kind) ==
  /\ status = "running"
  /\ condition
  /\ status' = "faulted"
  /\ fault' = kind
  /\ UNCHANGED <<heap, frames, program, meta, typeGen, runs>>

Fault ==
  \/ Abort(StackUnderflow, "stack_underflow")
  \/ Abort(NullDereference, "null_dereference")
  \/ Abort(NullCall, "null_call")
  \/ Abort(TypeConfusion, "type_confusion")
  \/ Abort(UseAfterFree, "use_after_free")
  \/ Abort(EmptyStringPop, "empty_string_pop")
  \/ Abort(SignatureOverrun, "signature_overrun")
  \/ Abort(NoScope, "no_scope")
  \/ Abort(StrayCode, "stray_code")

-----------------------------------------------------------------------------
(* runcode, one action per case of its switch.                              *)

Executing(ops) == status = "running" /\ At(ops) /\ Defined

\* The instruction is done: the frame becomes f and the objects h.
Step(f, h) ==
  /\ frames' = [frames EXCEPT ![Len(frames)] = [f EXCEPT !.pc = @ + 1]]
  /\ heap' = h
  /\ UNCHANGED <<program, meta, typeGen, runs, status, fault>>

\* Variant: the types of the first line are used again after deallocate_all.
PushNew_StaleType(h, n, kind) ==
  Step([Top EXCEPT !.stack = Append(Drop(@, n), Len(heap) + 1)],
       Append(h, Object(kind, 1, 1)))

\* Replace the n topmost values by the new object of the given kind.
PushNew(h, n, kind) ==
  Step([Top EXCEPT !.stack = Append(Drop(@, n), Len(heap) + 1)],
       Append(h, Object(kind, 1, typeGen)))

PushLiteral ==
  /\ Executing(LiteralOps)
  /\ PushNew(heap, 0, IF Instr.op = "PUSH_STRING" THEN "string" ELSE "int")

Singleton(op) ==
  CASE op = "PUSH_TRUE"  -> meta.true_obj
    [] op = "PUSH_FALSE" -> meta.false_obj
    [] op \in {"PUSH_NONE", "RET_NULL"} -> meta.none_obj

PushSingleton ==
  /\ Executing(SingletonOps \cup {"RET_NULL"})
  /\ Step([Top EXCEPT !.stack = Append(@, Singleton(Instr.op))],
          Incref(heap, Singleton(Instr.op)))

LoadId ==
  /\ Executing({"LOAD_ID"})
  /\ \E o \in DOMAIN heap :
       /\ Found(Instr.name, o)
       /\ Step([Top EXCEPT !.stack = Append(@, o)], Incref(heap, o))

SetName ==
  /\ Executing({"SET_NAME"})
  /\ Top.scopes # <<>>
  /\ LET o == Operand(1)
         s == Len(Top.scopes)
     IN Step([Top EXCEPT !.scopes[s][Instr.name] = o, !.stack = Drop(@, 1)],
             SetNameHeap(XDecref(heap, o), Top.scopes[s], Instr.name, o))

Binary ==
  /\ Executing(BinaryOps)
  /\ PushNew(Release(heap, <<Operand(1), Operand(2)>>), 2, "int")

Negate ==
  /\ Executing(NegatingOps)
  /\ PushNew(Release(heap, <<Operand(1)>>), 1, "int")

UnaryPlus ==
  /\ Executing({"UPLUS"})
  /\ IF KindOf(Operand(1)) = "int"
     THEN PushNew(Release(heap, <<Operand(1)>>), 1, "int")
     ELSE Step(Top, Incref(Release(heap, <<Operand(1)>>), Operand(1)))

PopObject ==
  /\ Executing({"POP_OBJECT"})
  /\ Step([Top EXCEPT !.stack = Drop(@, 1)], Release(heap, <<Operand(1)>>))

\* The first scope of a run becomes the global one; std_initialize binds
\* print in it.
StartGlobalScope ==
  /\ Executing({"START_SCOPE"})
  /\ Len(frames) = 1
  /\ Top.scopes = <<>>
  /\ Step([Top EXCEPT !.scopes =
             <<[EmptyScope EXCEPT ![PrintName] = Len(heap) + 1]>>],
          Append(heap, Object("print", 1, 0)))

\* Variant: the arguments are not bound.
StartScope_NoArguments ==
  /\ Executing({"START_SCOPE"})
  /\ Len(frames) > 1 \/ Top.scopes # <<>>
  /\ Step([Top EXCEPT !.scopes = Append(@, EmptyScope)], heap)

\* Every other scope starts with the arguments of the activation.
StartScope ==
  /\ Executing({"START_SCOPE"})
  /\ Len(frames) > 1 \/ Top.scopes # <<>>
  /\ Step([Top EXCEPT !.scopes = Append(@, Top.args)],
          Acquire(heap, Top.args))

\* Variant: the scope is deleted without decref_names.
EndScope_NoDecref ==
  /\ Executing({"END_SCOPE"})
  /\ Top.scopes # <<>>
  /\ Step([Top EXCEPT !.scopes = Drop(@, 1)], heap)

EndScope ==
  /\ Executing({"END_SCOPE"})
  /\ Top.scopes # <<>>
  /\ Step([Top EXCEPT !.scopes = Drop(@, 1)],
          Release(heap, Top.scopes[Len(Top.scopes)]))

\* Variant: RET drops the value it looks at.
Ret_Drops ==
  /\ Executing({"RET"})
  /\ Step([Top EXCEPT !.stack = Drop(@, 1)], Release(heap, <<Operand(1)>>))

\* RET looks at the top of the stack and goes on.
Ret ==
  /\ Executing({"RET"})
  /\ Step(Top, heap)

DefineFunction ==
  /\ Executing({"DEFINE_FUNCTION"})
  /\ Top.scopes # <<>>
  /\ LET o == Len(heap) + 1
         s == Len(Top.scopes)
     IN Step([Top EXCEPT !.scopes[s][Instr.name] = o],
             SetNameHeap(Append(heap, FunctionObject(Top.block, Instr)),
                         Top.scopes[s], Instr.name, o))

\* Variant: a jump goes back to the instruction before it.
Ignored_JumpsBack ==
  /\ Executing(IgnoredOps \cup JumpOps)
  /\ Step([Top EXCEPT !.pc = IF Instr.op \in JumpOps THEN @ - 2 ELSE @], heap)

\* Variant: a jump goes back to its own address.
Ignored_JumpsToItself ==
  /\ Executing(IgnoredOps \cup JumpOps)
  /\ Step([Top EXCEPT !.pc = IF Instr.op \in JumpOps THEN @ - 1 ELSE @], heap)

Ignored ==
  /\ Executing(IgnoredOps \cup JumpOps)
  /\ Step(Top, heap)

\* Variant: print returns nothing.
CallPrint_NoResult ==
  /\ Executing({"CALLB"})
  /\ KindOf(Callable) = "print"
  /\ LET n == Instr.argscount
     IN Step([Top EXCEPT !.stack = Drop(@, n + 1)],
             Release(heap, Append(Arguments(n), Callable)))

\* Variant: the none that print returns is not counted.
CallPrint_NoIncref ==
  /\ Executing({"CALLB"})
  /\ KindOf(Callable) = "print"
  /\ LET n == Instr.argscount
     IN Step([Top EXCEPT !.stack = Append(Drop(@, n + 1), meta.none_obj)],
             Release(heap, Append(Arguments(n), Callable)))

CallPrint ==
  /\ Executing({"CALLB"})
  /\ KindOf(Callable) = "print"
  /\ LET n == Instr.argscount
     IN Step([Top EXCEPT !.stack = Append(Drop(@, n + 1), meta.none_obj)],
             Release(Incref(heap, meta.none_obj),
                     Append(Arguments(n), Callable)))

\* The names of a signature bound to the arguments; a later one of the same
\* name wins.
Bindings(signature, arguments) ==
  [n \in Names |->
     LET Last(i) == /\ signature[i] = n
                    /\ \A j \in DOMAIN arguments : j > i => signature[j] # n
     IN IF \E i \in DOMAIN arguments : Last(i)
        THEN arguments[CHOOSE i \in DOMAIN arguments : Last(i)]
        ELSE Nil]

Activation(block, args) ==
  [block |-> block, pc |-> 1, scopes |-> <<>>, stack |-> <<>>,
   args |-> args, held |-> <<>>]

\* Variant: the argument list is dropped before the body runs.
CallFunction_EarlyDecref ==
  /\ Executing({"CALLB"})
  /\ KindOf(Callable) = "function"
  /\ LET n == Instr.argscount
         function == heap[Callable]
         caller == [Top EXCEPT !.stack = Drop(@, n + 1), !.held = <<Callable>>]
         args == Bindings(function.signature, Arguments(n))
     IN /\ frames' = Append([frames EXCEPT ![Len(frames)] = caller],
                            Activation(function.body, args))
        /\ heap' = Release(heap, Arguments(n))
  /\ UNCHANGED <<program, meta, typeGen, runs, status, fault>>

\* The callee runs while its caller holds the arguments and the callable.
CallFunction ==
  /\ Executing({"CALLB"})
  /\ KindOf(Callable) = "function"
  /\ LET n == Instr.argscount
         function == heap[Callable]
         caller == [Top EXCEPT !.stack = Drop(@, n + 1),
                               !.held = Append(Arguments(n), Callable)]
         args == Bindings(function.signature, Arguments(n))
     IN frames' = Append([frames EXCEPT ![Len(frames)] = caller],
                         Activation(function.body, args))
  /\ UNCHANGED <<heap, program, meta, typeGen, runs, status, fault>>

\* The end of a body.  Scopes that are still open are closed; values left on
\* the stack are not given back, and none is counted once more.
Return ==
  /\ status = "running"
  /\ Len(frames) > 1
  /\ AtEnd
  /\ Defined
  /\ LET k == Len(frames) - 1
         ret == Operand(1)
         surplus == IF ret = meta.none_obj THEN <<ret>> ELSE <<>>
         closed == Release(Lose(heap, Drop(Top.stack, 1)), AllNames(Top.scopes))
     IN /\ frames' = [SubSeq(frames, 1, k) EXCEPT
                        ![k].pc = @ + 1,
                        ![k].stack = Append(@, ret),
                        ![k].held = <<>>]
        /\ heap' = Release(Lose(Acquire(closed, surplus), surplus),
                           frames[k].held)
  /\ UNCHANGED <<program, meta, typeGen, runs, status, fault>>

-----------------------------------------------------------------------------
(* run and main: one line, one program.                                     *)

NoMeta == [true_obj |-> Nil, false_obj |-> Nil, none_obj |-> Nil]

Init ==
  /\ heap = <<>>
  /\ frames = <<>>
  /\ program = <<>>
  /\ meta = NoMeta
  /\ typeGen = 1
  /\ runs = 0
  /\ status = "prompt"
  /\ fault = "none"

\* Variant: meta.none_obj stays null.
Run_NoNone(p) ==
  /\ status = "prompt"
  /\ runs < MaxRuns
  /\ runs' = runs + 1
  /\ status' = "running"
  /\ program' = p
  /\ meta' = [false_obj |-> Len(heap) + 1, true_obj |-> Len(heap) + 2,
              none_obj |-> Nil]
  /\ heap' = heap \o <<Object("bool", 1, 0), Object("bool", 1, 0)>>
  /\ frames' = <<Activation(1, EmptyScope)>>
  /\ UNCHANGED <<typeGen, fault>>

\* Variant: the none of the first line is used by all of them.
Run_SharedNone(p) ==
  /\ status = "prompt"
  /\ runs < MaxRuns
  /\ runs' = runs + 1
  /\ status' = "running"
  /\ program' = p
  /\ meta' = [false_obj |-> Len(heap) + 1, true_obj |-> Len(heap) + 2,
              none_obj |-> IF runs = 0 THEN Len(heap) + 3 ELSE 3]
  /\ heap' = heap \o <<Object("bool", 1, 0), Object("bool", 1, 0),
                       Object("none", 1, 0)>>
  /\ frames' = <<Activation(1, EmptyScope)>>
  /\ UNCHANGED <<typeGen, fault>>

Run(p) ==
  /\ status = "prompt"
  /\ runs < MaxRuns
  /\ runs' = runs + 1
  /\ status' = "running"
  /\ program' = p
  /\ meta' = [false_obj |-> Len(heap) + 1, true_obj |-> Len(heap) + 2,
              none_obj |-> Len(heap) + 3]
  /\ heap' = heap \o <<Object("bool", 1, 0), Object("bool", 1, 0),
                       Object("none", 1, 0)>>
  /\ frames' = <<Activation(1, EmptyScope)>>
  /\ UNCHANGED <<typeGen, fault>>

\* The end of the top level: type_allocator.deallocate_all, and the objects of
\* meta are freed whatever their counts are.
Finish ==
  /\ status = "running"
  /\ Len(frames) = 1
  /\ AtEnd
  /\ status' = "prompt"
  /\ heap' = Free(Release(Lose(heap, Top.stack), AllNames(Top.scopes)),
                  {meta.true_obj, meta.false_obj, meta.none_obj})
  /\ typeGen' = typeGen + 1
  /\ frames' = <<>>
  /\ program' = <<>>
  /\ meta' = NoMeta
  /\ UNCHANGED <<runs, fault>>

\* The line ".q".
Exit ==
  /\ status = "prompt"
  /\ status' = "exited"
  /\ UNCHANGED <<heap, frames, program, meta, typeGen, runs, fault>>

Execute ==
  \/ PushLiteral \/ PushSingleton \/ LoadId \/ SetName
  \/ Binary \/ Negate \/ UnaryPlus \/ PopObject
  \/ StartGlobalScope \/ StartScope \/ EndScope
  \/ Ret \/ DefineFunction \/ Ignored
  \/ CallPrint \/ CallFunction \/ Return
  \/ Finish
  \/ Fault

Next == (\E p \in Programs : Run(p)) \/ Execute \/ Exit

Spec == Init /\ [][Next]_vars

\* main waits for a line as long as it likes; runcode never waits.
FairSpec == Spec /\ WF_vars(Execute)

-----------------------------------------------------------------------------
(* Properties.                                                              *)

FrameRecord(objects, blocks) ==
  [block : blocks, pc : Nat \ {0}, scopes : Seq([Names -> objects \cup {Nil}]),
   stack : Seq(objects), args : [Names -> objects \cup {Nil}],
   held : Seq(objects)]

\* The types of the variables; every pointer is null or points to an object
\* that was created.
TypeOK ==
  /\ heap \in Seq(ObjectRecord)
  /\ program = <<>> \/ WellFormed(program)
  /\ frames \in Seq(FrameRecord(1..Len(heap), DOMAIN program))
  /\ meta \in [{"true_obj", "false_obj", "none_obj"} -> 0..Len(heap)]
  /\ typeGen \in Nat \ {0}
  /\ runs \in 0..MaxRuns
  /\ status \in {"prompt", "running", "faulted", "exited"}
  /\ fault \in {"none", "stack_underflow", "null_dereference", "null_call",
                "type_confusion", "use_after_free", "empty_string_pop",
                "signature_overrun", "no_scope", "stray_code"}

\* The objects created since the line began; the object of false is the first.
ThisLine == meta.false_obj..Len(heap)

\* Nothing of an earlier line can be reached: the objects of meta and every
\* pointer in a stack, a scope or an argument list were created for the line
\* that runs, and the addresses of its functions are addresses of its program
\* (run makes a new meta and a new stream for each line, easy.hpp:42).
LinesIsolated ==
  status = "running" =>
    /\ \A k \in DOMAIN meta : meta[k] \in ThisLine
    /\ frames \in Seq(FrameRecord(ThisLine, DOMAIN program))
    /\ \A o \in ThisLine :
         heap[o].kind = "function" => heap[o].body \in DOMAIN program

\* The places of the lists that hold o: the list k at its index i.
Slots(lists, o) ==
  {x \in UNION {{k} \X DOMAIN lists[k] : k \in DOMAIN lists} :
     lists[x[1]][x[2]] = o}

Stacks(fs) == [k \in DOMAIN fs |-> fs[k].stack]
HeldLists(fs) == [k \in DOMAIN fs |-> fs[k].held]
ScopeNames(fs) == [k \in DOMAIN fs |-> AllNames(fs[k].scopes)]

\* The number of places a reference to o is held in: the fields of meta, and
\* the stacks, the argument lists of running calls and the scopes of the
\* frames fs.
HoldersIn(fs, o) ==
  Count(meta, o) + Cardinality(Slots(Stacks(fs), o))
    + Cardinality(Slots(HeldLists(fs), o))
    + Cardinality(Slots(ScopeNames(fs), o))

Holders(o) == HoldersIn(frames, o)

\* The count of a live object is exact, up to the references that were leaked,
\* and nothing points to a freed object any more: the increments and
\* decrements scattered over runcode, Scope and KanList_Free agree.
RefsExact ==
  \A o \in DOMAIN heap :
    IF heap[o].live
    THEN /\ heap[o].refs = Holders(o) + heap[o].lost
         /\ heap[o].refs > 0
    ELSE Holders(o) = 0

\* The arguments an activation binds anew in each of its scopes (vm.cpp:68) are
\* pointers it does not own: the list its caller holds keeps them alive, also
\* when the body has rebound the name and dropped its own reference.
ArgumentsLive ==
  \A k \in DOMAIN frames : \A n \in Names :
    frames[k].args[n] # Nil =>
      /\ heap[frames[k].args[n]].live
      /\ k > 1
      /\ \E i \in DOMAIN frames[k - 1].held :
           frames[k - 1].held[i] = frames[k].args[n]

\* A function runs only below the code that contains its definition, since an
\* address is applied to the buffer of the caller (vm.cpp:291): no function
\* ever calls itself, directly or through others.
FramesNest ==
  \A k \in DOMAIN frames :
    k > 1 =>
      \E i \in DOMAIN program[frames[k - 1].block] :
        /\ program[frames[k - 1].block][i].op = "DEFINE_FUNCTION"
        /\ program[frames[k - 1].block][i].body = frames[k].block

\* deallocate_all frees the types of vm.cpp only when no object that uses one
\* can be reached any more (vm.cpp:352).
TypesValid ==
  \A o \in DOMAIN heap :
    heap[o].live /\ Holders(o) > 0 => heap[o].gen \in {0, typeGen}

-----------------------------------------------------------------------------
(* What the code of a block says of every run of it: no jump works, so each *)
(* instruction of a block is executed once, in its order.                   *)

\* How many values the instruction i leaves on the stack, a callee's included.
Gives(i) ==
  IF i.op \in BinaryOps \cup NegatingOps \cup LiteralOps \cup SingletonOps
               \cup {"UPLUS", "RET", "RET_NULL", "LOAD_ID", "CALLB"}
  THEN 1 ELSE 0

\* How many scopes it opens.
Opens(i) ==
  IF i.op = "START_SCOPE" THEN 1 ELSE IF i.op = "END_SCOPE" THEN -1 ELSE 0

\* What the first i changes of a list add up to, for every i.
Totals(changes) ==
  LET total[i \in 0..Len(changes)] ==
        IF i = 0 THEN 0 ELSE total[i - 1] + changes[i]
  IN total

\* The values on the stack and the open scopes behind each instruction.
Heights(code) == Totals([i \in DOMAIN code |-> Gives(code[i]) - Takes(code[i])])
Depths(code) == Totals([i \in DOMAIN code |-> Opens(code[i])])

\* The code of a program adds up: every instruction finds the values and the
\* scope it works on, and a block leaves nothing behind but what a body returns.
Balanced(p) ==
  \A b \in DOMAIN p :
    /\ Heights(p[b])[Len(p[b])] = IF b = 1 THEN 0 ELSE 1
    /\ \A i \in DOMAIN p[b] :
         /\ Heights(p[b])[i - 1] >= Takes(p[b][i])
         /\ p[b][i].op \in ScopeOps => Depths(p[b])[i - 1] > 0

\* How many values and scopes an activation has is settled by the place it has
\* come to, whatever was called on the way and whatever the calls did: a call
\* leaves one value where the callable and its arguments were, also when the
\* body had more on its stack (vm.cpp:287-311, 335-350).
StacksFollowCode ==
  \A k \in DOMAIN frames :
    LET f == frames[k]
        code == program[f.block]
    IN /\ f.pc \in 1..Len(code) + 1
       /\ k < Len(frames) => f.pc <= Len(code) /\ code[f.pc].op = "CALLB"
       /\ Len(f.stack) =
            Heights(code)[f.pc - 1]
              - (IF k < Len(frames) THEN Takes(code[f.pc]) ELSE 0)
       /\ Len(f.scopes) = Depths(code)[f.pc - 1]

\* The checks that runcode does not make are not missed by a program whose code
\* adds up: no value is taken from an empty stack, no name is set and no scope
\* deleted where none is open.
NeverShort ==
  /\ /\ status = "running"
     /\ StackUnderflow \/ NoScope
     => ~Balanced(program)
  /\ fault \in {"stack_underflow", "no_scope"} => ~Balanced(program)

\* When a line whose code adds up ends, every object created for it is freed,
\* by END_SCOPE, POP_OBJECT, CALLB or the end of run: what is never freed comes
\* from values left on a stack, since the only object counted too often is none.
AllFreed ==
  [][program # <<>> /\ program' = <<>> /\ Balanced(program)
       => \A o \in ThisLine : heap'[o].live = FALSE]_vars

\* Every step goes forward: an activation moves on behind those that are
\* unchanged below it, or one more is added to them.  Lines end because the
\* depth of calls is bounded and the code of each block is.
RunsForward ==
  [][status = "running" /\ status' = "running" =>
       \E k \in DOMAIN frames' :
         /\ k <= Len(frames) + 1
         /\ \A j \in 1..k - 1 :
              /\ frames'[j].block = frames[j].block
              /\ frames'[j].pc = frames[j].pc
         /\ k <= Len(frames) =>
              /\ frames'[k].block = frames[k].block
              /\ frames'[k].pc > frames[k].pc]_vars

\* Every line that starts to run comes to an end or meets undefined behaviour:
\* runcode has no working jump and functions cannot recurse.
LinesEnd == (status = "running") ~> (status # "running")

-----------------------------------------------------------------------------
(* What kanvm_doc/ru.md says of the machine.                                *)

Falsy(o) == o \in {meta.false_obj, meta.none_obj}

\* JMP_IF_FALSE "jumps count addresses forward" when the value on the stack is
\* not true (ru.md:90-102).
FalseJumpTaken ==
  [][status = "running" /\ At({"JMP_IF_FALSE"}) /\ ~StackUnderflow
       /\ Falsy(Operand(1))
     => frames'[Len(frames)].pc = Top.pc + 1 + Instr.count]_vars

\* CALLB "calls the object on the stack" (ru.md:25-32): a call of a function
\* with the arguments it asks for runs the body of that function.
CallRunsBody ==
  [][status = "running" /\ At({"CALLB"}) /\ ~StackUnderflow
       /\ KindOf(Callable) = "function"
       /\ Len(heap[Callable].signature) = Instr.argscount
     => /\ Len(frames') = Len(frames) + 1
        /\ frames'[Len(frames')].block = heap[Callable].body]_vars

\* START_SCOPE "adds a scope to the queue" (ru.md:69-73): opening a nested
\* scope changes what no name stands for.
ScopeEntryKeepsBindings ==
  [][status = "running" /\ At({"START_SCOPE"}) /\ Top.scopes # <<>>
     => \A n \in Names, o \in DOMAIN heap : Found(n, o) => Found(n, o)']_vars

\* UPLUS "takes a value from the stack and applies unary plus to it"
\* (ru.md:12-15): the operand is still there when its result is used.
NoUseAfterFree == fault # "use_after_free"

=============================================================================
