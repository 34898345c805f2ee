----------------------------- MODULE KanVMRefs -----------------------------
(***************************************************************************)
(* Proofs about who holds a reference in KanVM: the counts are exact, no    *)
(* reference outlives its object, the arguments of a call stay alive and a  *)
(* function runs only below its definition - for every set of names, every  *)
(* set of compiled programs and every number of lines.                      *)
(***************************************************************************)
EXTENDS KanVMProofs, KanVMCounts

-----------------------------------------------------------------------------
(* The invariant.                                                           *)

\* Between two lines nothing is left of the line before.
PromptEmpty ==
  status \in {"prompt", "exited"} => frames = <<>> /\ meta = NoMeta

\* The activation that runs waits for no call.
TopHoldsNothing == frames # <<>> => Top.held = <<>>

\* The arguments of an activation are in the list its caller holds.
ArgumentsHeld ==
  \A k \in DOMAIN frames : \A n \in Names :
    frames[k].args[n] # Nil =>
      /\ k > 1
      /\ \E i \in DOMAIN frames[k - 1].held :
           frames[k - 1].held[i] = frames[k].args[n]

\* A call leads to a block further behind in the program.
Descending ==
  \A k \in DOMAIN frames :
    /\ frames[k].block >= k
    /\ \A j \in DOMAIN frames : j < k => frames[j].block < frames[k].block

Activations ==
  PromptEmpty /\ TopHoldsNothing /\ ArgumentsHeld /\ FramesNest /\ Descending

\* A machine that stopped at undefined behaviour was running a line.
StoppedTypes == status = "faulted" => TypesValid

JInv == IInv /\ RefsExact /\ Activations /\ StoppedTypes

-----------------------------------------------------------------------------
(* The number of holders of every object as a function.                     *)

HoldersNow == [o \in DOMAIN heap |-> Holders(o)]

\* The new count of holders as far as the objects of h go.
HoldersNext(h) == [o \in DOMAIN h |-> Holders(o)']

LEMMA ExactNow == RefsExact <=> Exact(heap, HoldersNow)
BY DEF RefsExact, Exact, HoldersNow

LEMMA ExactNext ==
  ASSUME NEW h, heap' = h, Exact(h, HoldersNext(h))
  PROVE  RefsExact'
BY DEF RefsExact, Exact, HoldersNext

\* The fields of meta, as a function with a finite domain.
LEMMA MetaFields ==
  ASSUME TypeOK
  PROVE  /\ DOMAIN meta = {"true_obj", "false_obj", "none_obj"}
         /\ IsFiniteSet(DOMAIN meta)
         /\ \A k \in DOMAIN meta : meta[k] \in 0..Len(heap)
         /\ \A o : o \notin 0..Len(heap) => Count(meta, o) = 0
<1> DEFINE M == {"true_obj", "false_obj", "none_obj"}
<1>1. IsFiniteSet(M)
  <2>1. IsFiniteSet({"true_obj"})
    BY FS_Singleton
  <2>2. IsFiniteSet({"true_obj"} \cup {"false_obj"})
    BY <2>1, FS_AddElement
  <2>3. IsFiniteSet(({"true_obj"} \cup {"false_obj"}) \cup {"none_obj"})
    BY <2>2, FS_AddElement
  <2>4. M = ({"true_obj"} \cup {"false_obj"}) \cup {"none_obj"}
    OBVIOUS
  <2>5. QED
    BY <2>3, <2>4
<1>2. DOMAIN meta = M /\ \A k \in DOMAIN meta : meta[k] \in 0..Len(heap)
  BY DEF TypeOK
<1>3. ASSUME NEW o, o \notin 0..Len(heap)
      PROVE  Count(meta, o) = 0
  <2>1. \A k \in DOMAIN meta : meta[k] # o
    BY <1>2, <1>3
  <2>2. QED
    BY <1>1, <1>2, <2>1, CountZero
<1>4. QED
  BY <1>1, <1>2, <1>3

\* Holders of a state whose frames are fs and whose meta is the one of now.
LEMMA HoldersThen ==
  ASSUME NEW fs, frames' = fs, UNCHANGED meta, NEW o
  PROVE  Holders(o)' = HoldersIn(fs, o)
BY DEF Holders, HoldersIn

\* A pointer outside of S is nowhere in a frame over S.
LEMMA FrameNowhere ==
  ASSUME NEW S, NEW B, NEW f \in FrameRecord(S, B), NEW o, o \notin S, o # Nil
  PROVE  /\ Count(f.stack, o) = 0 /\ Count(f.held, o) = 0
         /\ Count(AllNames(f.scopes), o) = 0
         /\ FrameCount(f, o) = 0
<1>1. f.stack \in Seq(S) /\ f.held \in Seq(S)
      /\ f.scopes \in Seq([Names -> S \cup {Nil}])
  BY DEF FrameRecord
<1>2. (\A i \in DOMAIN f.stack : f.stack[i] # o)
      /\ (\A i \in DOMAIN f.held : f.held[i] # o)
  BY <1>1, ElementOfSeq, LenProperties
<1> DEFINE a == AllNames(f.scopes)
<1>3. \A x \in DOMAIN a : a[x] # o
  <2> SUFFICES ASSUME NEW k \in DOMAIN f.scopes, NEW n \in Names
               PROVE  f.scopes[k][n] # o
    BY DEF AllNames
  <2>1. f.scopes[k] \in [Names -> S \cup {Nil}]
    BY <1>1, ElementOfSeq, LenProperties
  <2>2. QED
    BY <2>1
<1>4. /\ IsFiniteSet(DOMAIN f.stack) /\ IsFiniteSet(DOMAIN f.held)
      /\ IsFiniteSet(DOMAIN a)
  BY FrameFinite
<1> HIDE DEF a
<1>5. Count(f.stack, o) = 0 /\ Count(f.held, o) = 0 /\ Count(a, o) = 0
  BY <1>2, <1>3, <1>4, CountZero
<1>6. QED
  BY <1>5 DEF FrameCount, a

-----------------------------------------------------------------------------
(* The instruction that runs changes the last frame only.                   *)

\* The holders of o outside of the activation that runs.
Rest(o) == HoldersIn(Drop(frames, 1), o)

LEMMA TopHolders ==
  ASSUME IInv, status = "running", NEW o
  PROVE  /\ Holders(o) = Rest(o) + FrameCount(Top, o)
         /\ Rest(o) \in Nat /\ Count(meta, o) \in Nat
         /\ Rest(o) >= Count(meta, o)
         /\ FrameCount(Top, o) \in Nat
<1> DEFINE S == 1..Len(heap)
           B == DOMAIN program
<1>1. frames \in Seq(FrameRecord(S, B)) /\ TypeOK
  BY DEF IInv, TypeOK
<1>2. Len(frames) >= 1
  BY <1>1, TopFacts
<1>3. IsFiniteSet(DOMAIN meta)
  BY <1>1, MetaFields
<1> HIDE DEF S, B
<1>4. Drop(frames, 1) \in Seq(FrameRecord(S, B))
      /\ frames[Len(frames)] \in FrameRecord(S, B)
  BY <1>1, <1>2, CountDrop
<1>5. HoldersIn(frames, o) = HoldersIn(Drop(frames, 1), o)
                               + FrameCount(frames[Len(frames)], o)
  BY <1>1, <1>2, <1>3, HoldersPrefix
<1>6. /\ HoldersIn(Drop(frames, 1), o) \in Nat /\ Count(meta, o) \in Nat
      /\ HoldersIn(Drop(frames, 1), o) >= Count(meta, o)
  BY <1>3, <1>4, HoldersNat
<1>7. FrameCount(frames[Len(frames)], o) \in Nat
  BY <1>4, FrameFinite
<1>8. QED
  BY <1>5, <1>6, <1>7 DEF Holders, Rest, Top

\* The program counter holds nothing.
LEMMA FrameAdvances ==
  ASSUME NEW S, NEW B, NEW f \in FrameRecord(S, B), NEW o
  PROVE  /\ [f EXCEPT !.pc = @ + 1] \in FrameRecord(S, B)
         /\ FrameCount([f EXCEPT !.pc = @ + 1], o) = FrameCount(f, o)
<1>1. f.pc + 1 \in Nat \ {0}
  BY DEF FrameRecord
<1>2. [f EXCEPT !.pc = @ + 1] \in FrameRecord(S, B)
  BY <1>1 DEF FrameRecord
<1>3. /\ [f EXCEPT !.pc = @ + 1].stack = f.stack
      /\ [f EXCEPT !.pc = @ + 1].held = f.held
      /\ [f EXCEPT !.pc = @ + 1].scopes = f.scopes
  BY DEF FrameRecord
<1>4. QED
  BY <1>2, <1>3 DEF FrameCount

LEMMA StepHolders ==
  ASSUME IInv, status = "running", NEW S, 1..Len(heap) \subseteq S,
         NEW f \in FrameRecord(S, DOMAIN program), NEW h, Step(f, h), NEW o
  PROVE  /\ Holders(o)' = Rest(o) + FrameCount(f, o)
         /\ FrameCount(f, o) \in Nat
<1> DEFINE B == DOMAIN program
           n == Len(frames)
           g == [f EXCEPT !.pc = @ + 1]
           fs == [frames EXCEPT ![n] = g]
<1>1. frames \in Seq(FrameRecord(1..Len(heap), B)) /\ TypeOK
  BY DEF IInv, TypeOK
<1>2. frames \in Seq(FrameRecord(S, B))
  BY <1>1, FramesWider
<1>3. n \in 1..Len(frames)
  BY <1>1, TopFacts
<1>4. IsFiniteSet(DOMAIN meta)
  BY <1>1, MetaFields
<1>5. g \in FrameRecord(S, B) /\ FrameCount(g, o) = FrameCount(f, o)
      /\ FrameCount(f, o) \in Nat
  BY FrameAdvances, FrameFinite
<1>6. frames' = fs /\ UNCHANGED meta
  BY DEF Step
<1> HIDE DEF g, B
<1>7. HoldersIn(fs, o) + FrameCount(frames[n], o)
        = HoldersIn(frames, o) + FrameCount(g, o)
  BY <1>2, <1>3, <1>4, <1>5, HoldersReplace
<1>8. HoldersIn(fs, o) \in Nat
  <2>1. fs \in Seq(FrameRecord(S, B))
    BY <1>2, <1>3, <1>5, ExceptSeq
  <2>2. QED
    BY <2>1, <1>4, HoldersNat
<1>9. HoldersIn(fs, o) = Holders(o)'
  <2> HIDE DEF fs
  <2>1. QED
    BY <1>6, HoldersThen
<1>10. /\ HoldersIn(frames, o) = Rest(o) + FrameCount(frames[n], o)
       /\ Rest(o) \in Nat /\ FrameCount(frames[n], o) \in Nat
  BY TopHolders DEF Holders, Top
<1> HIDE DEF fs, n
<1>11. QED
  BY <1>5, <1>7, <1>8, <1>9, <1>10

LEMMA StepActivations ==
  ASSUME JInv, status = "running", NEW S,
         NEW f \in FrameRecord(S, DOMAIN program),
         f.block = Top.block, f.args = Top.args, f.held = Top.held,
         NEW h, Step(f, h)
  PROVE  Activations'
<1> DEFINE n == Len(frames)
           g == [f EXCEPT !.pc = @ + 1]
           fs == [frames EXCEPT ![n] = g]
<1>1. /\ n \in DOMAIN frames /\ Top = frames[n]
      /\ DOMAIN frames = 1..n /\ n \in Nat \ {0} /\ frames # <<>>
  <2>1. frames \in Seq(FrameRecord(1..Len(heap), DOMAIN program))
    BY DEF JInv, IInv, TypeOK
  <2>2. n \in Nat \ {0}
    BY TopFacts DEF JInv
  <2>3. DOMAIN frames = 1..n
    BY <2>1, LenProperties
  <2>4. QED
    BY <2>2, <2>3 DEF Top
<1>2. g.block = Top.block /\ g.args = Top.args /\ g.held = Top.held
  BY DEF FrameRecord
<1> HIDE DEF g
<1>3. /\ DOMAIN fs = DOMAIN frames
      /\ \A k \in DOMAIN frames : /\ fs[k].block = frames[k].block
                                  /\ fs[k].args = frames[k].args
                                  /\ fs[k].held = frames[k].held
      /\ fs[n].held = Top.held
  BY <1>1, <1>2
<1>4. /\ frames' = fs /\ status' = "running" /\ program' = program
  BY DEF Step, g
<1> HIDE DEF fs
<1>5. Len(fs) = n
  <2>1. fs = [frames EXCEPT ![n] = g]
    BY DEF fs
  <2>2. frames \in Seq(FrameRecord(1..Len(heap), DOMAIN program))
    BY DEF JInv, IInv, TypeOK
  <2>3. fs \in Seq({frames[k] : k \in DOMAIN frames} \cup {g})
    <3> DEFINE R == {frames[k] : k \in DOMAIN frames} \cup {g}
    <3>1. frames \in Seq(R)
      <4>1. frames = [k \in 1..n |-> frames[k]] /\ \A k \in 1..n : frames[k] \in R
        BY <1>1, <2>2
      <4> HIDE DEF R
      <4>2. frames \in [1..n -> R]
        BY <4>1
      <4>3. QED
        BY <1>1, <4>2, IsASeq
    <3>2. g \in R
      OBVIOUS
    <3> HIDE DEF R
    <3>3. n \in 1..Len(frames)
      BY <1>1
    <3>4. fs \in Seq(R)
      BY <2>1, <3>1, <3>2, <3>3, ExceptSeq
    <3>5. QED
      BY <3>4 DEF R
  <2>4. DOMAIN fs = 1..Len(fs) /\ Len(fs) \in Nat
    BY <2>3, LenProperties
  <2>5. QED
    BY <1>1, <1>3, <2>4
<1> HIDE DEF n
<1>6. PromptEmpty'
  BY <1>4 DEF PromptEmpty
<1>7. TopHoldsNothing'
  <2>1. Top.held = <<>>
    BY <1>1 DEF JInv, Activations, TopHoldsNothing
  <2>2. fs[Len(fs)].held = <<>>
    BY <1>3, <1>5, <2>1
  <2>3. QED
    BY <1>4, <2>2 DEF TopHoldsNothing, Top
<1>8. \A k \in DOMAIN frames : k > 1 => k - 1 \in DOMAIN frames
  BY <1>1
<1>9. ArgumentsHeld'
  BY <1>3, <1>4, <1>8 DEF JInv, Activations, ArgumentsHeld
<1>10. FramesNest'
  BY <1>3, <1>4, <1>8 DEF JInv, Activations, FramesNest
<1>11. Descending'
  BY <1>3, <1>4 DEF JInv, Activations, Descending
<1>12. QED
  BY <1>6, <1>7, <1>9, <1>10, <1>11 DEF Activations

-----------------------------------------------------------------------------
(* The types of vm.cpp.                                                     *)

\* While a line runs, nothing holds an object of another line.
LEMMA OnlyThisLine ==
  ASSUME IInv, status = "running", NEW o \in DOMAIN heap, o \notin ThisLine
  PROVE  Holders(o) = 0
<1>1. frames \in Seq(FrameRecord(ThisLine, DOMAIN program))
      /\ \A k \in DOMAIN meta : meta[k] \in ThisLine
  BY DEF IInv, LinesIsolated
<1>2. IsFiniteSet(DOMAIN meta)
  BY MetaFields DEF IInv
<1>3. o # Nil
  <2>1. heap \in Seq(ObjectRecord)
    BY DEF IInv, TypeOK
  <2>2. o \in 1..Len(heap)
    BY <2>1, LenProperties
  <2>3. QED
    BY <2>2 DEF Nil
<1>4. HoldersIn(frames, o) = Count(meta, o)
  BY <1>1, <1>2, <1>3, HoldersNowhere
<1>5. Count(meta, o) = 0
  BY <1>1, <1>2, CountZero
<1>6. QED
  BY <1>4, <1>5 DEF Holders

LEMMA TypesOfLine == IInv /\ status = "running" => TypesValid
<1> SUFFICES ASSUME IInv, status = "running",
                    NEW o \in DOMAIN heap, heap[o].live, Holders(o) > 0
             PROVE  heap[o].gen \in {0, typeGen}
  BY DEF TypesValid
<1>1. o \in ThisLine
  BY OnlyThisLine
<1>2. LineObject(heap[o])
  BY <1>1 DEF IInv, LineObjects
<1>3. QED
  BY <1>2 DEF LineObject

\* Between two lines nothing is held.
LEMMA PromptHolders ==
  ASSUME TypeOK, frames = <<>>, meta = NoMeta, NEW o \in DOMAIN heap
  PROVE  Holders(o) = 0
<1>1. heap \in Seq(ObjectRecord)
  BY DEF TypeOK
<1>2. o # Nil
  BY <1>1, LenProperties DEF Nil
<1>3. IsFiniteSet(DOMAIN meta)
  BY MetaFields
<1>4. HoldersIn(<<>>, o) = Count(meta, o)
  BY <1>3, HoldersNone
<1>5. \A k \in DOMAIN meta : meta[k] = Nil
  BY DEF NoMeta
<1>6. Count(meta, o) = 0
  BY <1>2, <1>3, <1>5, CountZero
<1>7. QED
  BY <1>4, <1>6 DEF Holders

LEMMA JInvTypes == JInv => TypesValid
<1> SUFFICES ASSUME JInv PROVE TypesValid
  OBVIOUS
<1>1. status \in {"prompt", "running", "faulted", "exited"}
  BY DEF JInv, IInv, TypeOK
<1>2. CASE status = "running"
  BY <1>2, TypesOfLine DEF JInv
<1>3. CASE status = "faulted"
  BY <1>3 DEF JInv, StoppedTypes
<1>4. CASE status \in {"prompt", "exited"}
  <2>1. frames = <<>> /\ meta = NoMeta
    BY <1>4 DEF JInv, Activations, PromptEmpty
  <2>2. \A o \in DOMAIN heap : Holders(o) = 0
    BY <2>1, PromptHolders DEF JInv, IInv
  <2>3. QED
    BY <2>2 DEF TypesValid
<1>5. QED
  BY <1>1, <1>2, <1>3, <1>4

-----------------------------------------------------------------------------
(* Instructions that change the operand stack.                              *)

\* The holders of o outside of the operand stack of the running activation.
Others(o) ==
  Rest(o) + Count(Top.held, o) + Count(AllNames(Top.scopes), o)

\* The holders of the objects of h when the running activation has this stack.
WithStack(stack, h) == [o \in DOMAIN h |-> Others(o) + Count(stack, o)]

LEMMA StackHolders ==
  ASSUME IInv, status = "running", NEW o
  PROVE  /\ Holders(o) = Others(o) + Count(Top.stack, o)
         /\ Others(o) \in Nat /\ Count(Top.stack, o) \in Nat
         /\ Count(meta, o) \in Nat /\ Others(o) >= Count(meta, o)
         /\ Count(Top.held, o) \in Nat /\ Count(AllNames(Top.scopes), o) \in Nat
         /\ Rest(o) \in Nat
<1>1. Top \in FrameRecord(ThisLine, DOMAIN program)
  BY TopFacts
<1>2. /\ Count(Top.stack, o) \in Nat /\ Count(Top.held, o) \in Nat
      /\ Count(AllNames(Top.scopes), o) \in Nat
  BY <1>1, FrameFinite
<1> HIDE DEF Top
<1>3. /\ Holders(o) = Rest(o) + FrameCount(Top, o)
      /\ Rest(o) \in Nat /\ Count(meta, o) \in Nat
      /\ Rest(o) >= Count(meta, o)
  BY TopHolders
<1> DEFINE a == Count(AllNames(Top.scopes), o)
           b == Count(Top.stack, o)
           c == Count(Top.held, o)
<1>4. FrameCount(Top, o) = b + c + a /\ Others(o) = Rest(o) + c + a
  BY DEF FrameCount, Others
<1>5. a \in Nat /\ b \in Nat /\ c \in Nat
  BY <1>2
<1> HIDE DEF a, b, c
<1>6. Holders(o) = Others(o) + b
  BY <1>3, <1>4, <1>5
<1>7. Others(o) \in Nat /\ Others(o) >= Count(meta, o)
  BY <1>3, <1>4, <1>5
<1>8. QED
  BY <1>2, <1>3, <1>6, <1>7 DEF b

\* An object that does not exist yet has no holder.
LEMMA FreshHolders ==
  ASSUME IInv, status = "running", NEW o, o \notin 0..Len(heap)
  PROVE  /\ Others(o) = 0 /\ Count(Top.stack, o) = 0 /\ Rest(o) = 0
         /\ Count(AllNames(Top.scopes), o) = 0 /\ Holders(o) = 0
<1> DEFINE S == 1..Len(heap)
           B == DOMAIN program
<1>1. frames \in Seq(FrameRecord(S, B)) /\ TypeOK /\ Len(heap) \in Nat
  BY LenProperties DEF IInv, TypeOK
<1>2. o \notin S /\ o # Nil
  BY <1>1 DEF Nil
<1>3. IsFiniteSet(DOMAIN meta) /\ Count(meta, o) = 0
  BY <1>1, MetaFields
<1> HIDE DEF S, B
<1>4. HoldersIn(frames, o) = 0
  BY <1>1, <1>2, <1>3, HoldersNowhere
<1>5. /\ Holders(o) = Others(o) + Count(Top.stack, o)
      /\ Others(o) \in Nat /\ Count(Top.stack, o) \in Nat
      /\ Count(Top.held, o) \in Nat /\ Count(AllNames(Top.scopes), o) \in Nat
      /\ Rest(o) \in Nat
  BY StackHolders
<1> HIDE DEF Top
<1>6. Others(o) = 0 /\ Count(Top.stack, o) = 0 /\ Holders(o) = 0
  BY <1>4, <1>5 DEF Holders
<1>7. Rest(o) = 0 /\ Count(AllNames(Top.scopes), o) = 0
  BY <1>5, <1>6 DEF Others
<1>8. QED
  BY <1>6, <1>7

LEMMA StackNow ==
  ASSUME JInv, status = "running"
  PROVE  Exact(heap, WithStack(Top.stack, heap))
<1>1. Exact(heap, HoldersNow)
  BY ExactNow DEF JInv
<1>2. \A o \in DOMAIN heap : Holders(o) = Others(o) + Count(Top.stack, o)
  BY StackHolders DEF JInv
<1>3. HoldersNow = WithStack(Top.stack, heap)
  BY <1>2 DEF HoldersNow, WithStack
<1>4. QED
  BY <1>1, <1>3

LEMMA StackStep ==
  ASSUME JInv, status = "running", NEW h, LineHeap(h),
         NEW stack \in Seq(meta.false_obj..Len(h)),
         Step([Top EXCEPT !.stack = stack], h),
         Exact(h, WithStack(stack, h))
  PROVE  RefsExact' /\ Activations'
<1> DEFINE S == meta.false_obj..Len(h)
           L == 1..Len(h)
           B == DOMAIN program
           f == [Top EXCEPT !.stack = stack]
<1>1. Top \in FrameRecord(ThisLine, B) /\ meta.false_obj \in Nat \ {0}
  BY TopFacts DEF JInv, IInv, Running
<1>2. Len(heap) \in Nat /\ Len(h) \in Nat /\ Len(h) >= Len(heap)
  BY LenProperties DEF LineHeap, JInv, IInv, TypeOK
<1>3. ThisLine \subseteq L /\ S \subseteq L /\ 1..Len(heap) \subseteq L
  BY <1>1, <1>2 DEF ThisLine
<1>4. stack \in Seq(L)
  BY <1>3, SeqMonotonic
<1>5. Top \in FrameRecord(L, B)
  BY <1>1, <1>3, FrameWider
<1> HIDE DEF L, B
<1>6. f \in FrameRecord(L, B)
  BY <1>4, <1>5 DEF FrameRecord
<1>7. /\ f.stack = stack /\ f.scopes = Top.scopes /\ f.held = Top.held
      /\ f.block = Top.block /\ f.args = Top.args
  BY <1>5 DEF FrameRecord
<1>8. Step(f, h)
  OBVIOUS
<1> HIDE DEF f
<1>9. Activations'
  BY <1>6, <1>7, <1>8, StepActivations DEF B
<1>10. ASSUME NEW o \in DOMAIN h
       PROVE  Holders(o)' = Others(o) + Count(stack, o)
  <2>1. Holders(o)' = Rest(o) + FrameCount(f, o)
    BY <1>3, <1>6, <1>8, StepHolders DEF JInv, B
  <2>2. Count(stack, o) \in Nat
    BY CountNat
  <2>3. /\ Count(Top.held, o) \in Nat /\ Count(AllNames(Top.scopes), o) \in Nat
        /\ Rest(o) \in Nat
    BY StackHolders DEF JInv
  <2> DEFINE a == Count(AllNames(Top.scopes), o)
             b == Count(stack, o)
             c == Count(Top.held, o)
  <2>4. FrameCount(f, o) = b + c + a /\ Others(o) = Rest(o) + c + a
    BY <1>7 DEF FrameCount, Others
  <2>5. a \in Nat /\ b \in Nat /\ c \in Nat
    BY <2>2, <2>3
  <2> HIDE DEF a, b, c
  <2>6. Holders(o)' = Others(o) + b
    BY <2>1, <2>3, <2>4, <2>5
  <2>7. QED
    BY <2>6 DEF b
<1>11. HoldersNext(h) = WithStack(stack, h)
  BY <1>10 DEF HoldersNext, WithStack
<1>12. heap' = h
  BY <1>8 DEF Step
<1>13. QED
  BY <1>9, <1>11, <1>12, ExactNext

\* What an instruction takes from the stack and drops leaves the counts exact.
LEMMA StackReleased ==
  ASSUME JInv, status = "running",
         NEW f, IsFiniteSet(DOMAIN f), NEW T, NEW stack \in Seq(T),
         \A o \in DOMAIN heap :
           Count(Top.stack, o) = Count(stack, o) + Count(f, o)
  PROVE  Exact(Release(heap, f), WithStack(stack, Release(heap, f)))
<1> DEFINE H == WithStack(Top.stack, heap)
           G == WithStack(stack, heap)
<1>1. Exact(heap, H)
  BY StackNow
<1>2. ASSUME NEW o \in DOMAIN heap
      PROVE  G[o] \in Nat /\ H[o] = G[o] + Count(f, o)
  <2>1. Others(o) \in Nat /\ Count(stack, o) \in Nat /\ Count(f, o) \in Nat
    BY StackHolders, CountNat, CountZero DEF JInv
  <2>2. H[o] = Others(o) + Count(Top.stack, o) /\ G[o] = Others(o) + Count(stack, o)
    BY DEF WithStack
  <2>3. Count(Top.stack, o) = Count(stack, o) + Count(f, o)
    OBVIOUS
  <2> HIDE DEF H, G
  <2>4. QED
    BY <2>1, <2>2, <2>3
<1>3. heap \in Seq(ObjectRecord)
  BY DEF JInv, IInv, TypeOK
<1> HIDE DEF H, G
<1>4. Exact(Release(heap, f), G)
  BY <1>1, <1>2, <1>3, ExactRelease
<1>5. WithStack(stack, Release(heap, f)) = G
  BY DEF WithStack, Release, G
<1>6. QED
  BY <1>4, <1>5

\* The object of true, false or none that an instruction pushes, or the object
\* a name stands for, is held when it is counted once more.
LEMMA StackAcquired ==
  ASSUME JInv, status = "running", NEW o \in DOMAIN heap, Holders(o) > 0,
         Top.stack \in Seq(ThisLine), o \in ThisLine
  PROVE  Exact(Incref(heap, o), WithStack(Append(Top.stack, o), Incref(heap, o)))
<1> DEFINE s == Top.stack
           H == WithStack(s, heap)
           G == WithStack(Append(s, o), heap)
<1>1. Exact(heap, H)
  BY StackNow
<1>2. ASSUME NEW p \in DOMAIN heap
      PROVE  H[p] \in Nat /\ G[p] = H[p] + One(o, p)
  <2>1. Others(p) \in Nat /\ Count(s, p) \in Nat
    BY StackHolders DEF JInv
  <2>2. H[p] = Others(p) + Count(s, p) /\ G[p] = Others(p) + Count(Append(s, o), p)
    BY DEF WithStack
  <2> HIDE DEF H, G, s
  <2>3. Count(Append(s, o), p) = Count(s, p) + One(o, p)
    BY CountAppend DEF s
  <2>4. One(o, p) \in Nat
    BY DEF One
  <2>5. QED
    BY <2>1, <2>2, <2>3, <2>4
<1>3. heap \in Seq(ObjectRecord)
  BY DEF JInv, IInv, TypeOK
<1>4. H[o] > 0
  BY StackHolders DEF WithStack, JInv
<1> HIDE DEF H, G
<1>5. Exact(Incref(heap, o), G)
  BY <1>1, <1>2, <1>3, <1>4, ExactIncref
<1>6. WithStack(Append(s, o), Incref(heap, o)) = G
  BY DEF WithStack, Incref, G
<1>7. QED
  BY <1>5, <1>6

LEMMA PushNewStep ==
  ASSUME JInv, status = "running", NEW n \in Nat, n <= Len(Top.stack),
         NEW kind \in Kinds, kind # "function",
         NEW h, LineHeap(h), Len(h) = Len(heap),
         Exact(h, WithStack(Drop(Top.stack, n), h)),
         PushNew(h, n, kind)
  PROVE  RefsExact' /\ Activations'
<1> DEFINE s == Drop(Top.stack, n)
           new == Len(heap) + 1
           r == Object(kind, 1, typeGen)
           g == Append(h, r)
           L == meta.false_obj..Len(g)
           H == WithStack(s, h)
           G == WithStack(Append(s, new), g)
<1>1. /\ Top.stack \in Seq(ThisLine) /\ meta.false_obj \in Nat \ {0}
      /\ Len(heap) \in Nat /\ heap \in Seq(ObjectRecord)
      /\ meta.false_obj <= Len(heap)
      /\ typeGen \in Nat
  <2>1. meta.false_obj \in ThisLine
    BY DEF JInv, IInv, LinesIsolated, TypeOK
  <2>2. QED
    BY <2>1, TopFacts, LenProperties
       DEF JInv, IInv, TypeOK, Running, FrameRecord, ThisLine
<1>2. s \in Seq(ThisLine)
  BY <1>1, DropType
<1>3. /\ r \in ObjectRecord /\ LineObject(r) /\ r.kind # "function"
      /\ r.live /\ r.lost = 0 /\ r.refs = 1
  BY <1>1, ObjectType DEF Object, LineObject
<1> HIDE DEF r
<1>4. LineHeap(g) /\ Len(g) = new
  BY <1>3, LineHeapAppend DEF JInv
<1>5. h \in Seq(ObjectRecord)
  BY DEF LineHeap
<1>6. DOMAIN h = DOMAIN heap /\ DOMAIN heap = 1..Len(heap)
  BY <1>1, <1>5, LenProperties
<1>7. DOMAIN g = 1..new /\ new \in Nat
  <2>1. g \in Seq(ObjectRecord)
    BY <1>4 DEF LineHeap
  <2>2. QED
    BY <1>1, <1>4, <2>1, LenProperties
<1>8. ThisLine \subseteq L /\ new \in L
  BY <1>1, <1>4 DEF ThisLine
<1> HIDE DEF s, L, g
<1>9. s \in Seq(L) /\ Append(s, new) \in Seq(L)
  <2>1. s \in Seq(L)
    BY <1>2, <1>8, SeqMonotonic
  <2>2. QED
    BY <1>8, <2>1, AppendProperties
<1>10. \A o : Count(Append(s, new), o) = Count(s, o) + One(new, o)
  BY <1>8, <1>9, CountAppend
<1>11. ASSUME NEW o \in DOMAIN h PROVE G[o] = H[o]
  <2>1. o \in DOMAIN g /\ new # o
    BY <1>1, <1>6, <1>7
  <2>2. Count(s, o) \in Nat
    BY <1>9, CountNat
  <2>3. Count(Append(s, new), o) = Count(s, o)
    BY <1>10, <2>1, <2>2 DEF One
  <2>4. QED
    BY <2>1, <2>3 DEF WithStack
<1>12. G[new] = 1
  <2>1. Others(new) = 0 /\ Count(Top.stack, new) = 0
    BY <1>1, FreshHolders DEF JInv
  <2>2. Count(s, new) = 0
    <3>1. new \notin ThisLine
      BY <1>1 DEF ThisLine
    <3> HIDE DEF new
    <3>2. \A i \in DOMAIN s : s[i] \in ThisLine
      BY <1>2, ElementOfSeq, LenProperties
    <3>3. IsFiniteSet(DOMAIN s)
      BY <1>2, SequenceFinite
    <3>4. QED
      BY <3>1, <3>2, <3>3, CountZero
  <2>3. new \in DOMAIN g
    BY <1>1, <1>7
  <2> HIDE DEF new
  <2>4. QED
    BY <1>10, <2>1, <2>2, <2>3 DEF WithStack, One
<1>13. Exact(h, H)
  BY DEF s
<1> HIDE DEF H, G
<1>14. Exact(g, G)
  <2>1. G[Len(h) + 1] = r.refs
    BY <1>3, <1>12
  <2>2. r.refs > 0
    BY <1>3
  <2>3. QED
    BY <1>3, <1>5, <1>11, <1>13, <2>1, <2>2, ExactAppend DEF g
<1>15. Step([Top EXCEPT !.stack = Append(s, new)], g)
  BY DEF PushNew, s, g, r
<1> HIDE DEF new
<1>16. QED
  BY <1>4, <1>9, <1>14, <1>15, StackStep DEF G, L

-----------------------------------------------------------------------------
(* The instructions.                                                        *)

LEMMA PushLiteralRefs ==
  ASSUME JInv, PushLiteral
  PROVE  RefsExact' /\ Activations'
<1> DEFINE kind == IF Instr.op = "PUSH_STRING" THEN "string" ELSE "int"
<1>1. IInv /\ PushNew(heap, 0, kind)
  BY DEF PushLiteral, JInv
<1>2. /\ status = "running" /\ Top.stack \in Seq(ThisLine)
      /\ Len(Top.stack) \in Nat
  BY <1>1, ExecutingFacts DEF PushLiteral
<1>3. kind \in Kinds /\ kind # "function"
  BY DEF Kinds
<1>4. Drop(Top.stack, 0) = Top.stack
  BY <1>2, SubSeqProperties DEF Drop
<1>5. Exact(heap, WithStack(Drop(Top.stack, 0), heap))
  BY <1>2, <1>4, StackNow
<1> HIDE DEF kind
<1>6. QED
  BY <1>1, <1>2, <1>3, <1>5, LineHeapNow, PushNewStep

LEMMA SingletonHeld ==
  ASSUME JInv, status = "running", NEW o, NEW k \in DOMAIN meta, meta[k] = o
  PROVE  o \in ThisLine /\ o \in DOMAIN heap /\ Holders(o) > 0 /\ Others(o) > 0
<1>1. o \in ThisLine /\ TypeOK /\ meta.false_obj \in Nat \ {0}
  BY DEF JInv, IInv, LinesIsolated, Running
<1>2. o \in DOMAIN heap
  <2>1. DOMAIN heap = 1..Len(heap) /\ Len(heap) \in Nat
    BY <1>1, LenProperties DEF TypeOK
  <2>2. QED
    BY <1>1, <2>1 DEF ThisLine
<1>3. IsFiniteSet(DOMAIN meta)
  BY <1>1, MetaFields
<1>4. Count(meta, o) \in Nat /\ Count(meta, o) # 0
  BY <1>3, CountZero
<1>5. /\ Holders(o) = Others(o) + Count(Top.stack, o)
      /\ Others(o) \in Nat /\ Count(Top.stack, o) \in Nat
      /\ Others(o) >= Count(meta, o)
  BY StackHolders DEF JInv
<1>6. QED
  BY <1>1, <1>2, <1>4, <1>5

\* An instruction that pushes an object somebody holds already.
LEMMA PushHeld ==
  ASSUME JInv, status = "running", Top.stack \in Seq(ThisLine),
         NEW o \in ThisLine, o \in DOMAIN heap, Holders(o) > 0,
         Step([Top EXCEPT !.stack = Append(@, o)], Incref(heap, o))
  PROVE  RefsExact' /\ Activations'
<1> DEFINE h == Incref(heap, o)
           s == Append(Top.stack, o)
<1>1. LineHeap(h) /\ Len(h) = Len(heap)
  BY LineHeapNow, LineHeapCount DEF JInv
<1>2. s \in Seq(meta.false_obj..Len(h))
  BY <1>1, AppendProperties DEF ThisLine
<1>3. Exact(h, WithStack(s, h))
  BY StackAcquired
<1>4. Step([Top EXCEPT !.stack = s], h)
  OBVIOUS
<1> HIDE DEF h, s
<1>5. QED
  BY <1>1, <1>2, <1>3, <1>4, StackStep

LEMMA PushSingletonRefs ==
  ASSUME JInv, PushSingleton
  PROVE  RefsExact' /\ Activations'
<1> DEFINE o == Singleton(Instr.op)
<1>1. /\ status = "running" /\ Top.stack \in Seq(ThisLine)
      /\ Instr.op \in SingletonOps \cup {"RET_NULL"}
  BY ExecutingFacts DEF JInv, PushSingleton
<1>2. DOMAIN meta = {"true_obj", "false_obj", "none_obj"}
  BY MetaFields DEF JInv, IInv
<1>3. \E k \in DOMAIN meta : meta[k] = o
  BY <1>1, <1>2 DEF Singleton, SingletonOps
<1>4. Step([Top EXCEPT !.stack = Append(@, o)], Incref(heap, o))
  BY DEF PushSingleton
<1> HIDE DEF o
<1>5. o \in ThisLine /\ o \in DOMAIN heap /\ Holders(o) > 0
  BY <1>1, <1>3, SingletonHeld
<1>6. QED
  BY <1>1, <1>4, <1>5, PushHeld

\* An object in a frame is held at least as often as the frame holds it.
LEMMA FrameHolds ==
  ASSUME IInv, NEW k \in DOMAIN frames, NEW o
  PROVE  /\ Holders(o) >= FrameCount(frames[k], o) /\ Holders(o) \in Nat
         /\ FrameCount(frames[k], o) \in Nat
         /\ Count(frames[k].held, o) \in Nat
         /\ Count(AllNames(frames[k].scopes), o) \in Nat
         /\ Count(frames[k].held, o) <= FrameCount(frames[k], o)
         /\ Count(AllNames(frames[k].scopes), o) <= FrameCount(frames[k], o)
<1> DEFINE R == FrameRecord(1..Len(heap), DOMAIN program)
           f == frames[k]
           g == [f EXCEPT !.stack = <<>>, !.held = <<>>, !.scopes = <<>>]
           fs == [frames EXCEPT ![k] = g]
<1>1. frames \in Seq(R) /\ IsFiniteSet(DOMAIN meta)
  BY MetaFields DEF IInv, TypeOK
<1>2. k \in 1..Len(frames) /\ f \in R
  BY <1>1, LenProperties, ElementOfSeq
<1> HIDE DEF f
<1>3. g \in R /\ g.stack = <<>> /\ g.held = <<>> /\ g.scopes = <<>>
  BY <1>2, EmptySeq DEF FrameRecord
<1> HIDE DEF g
<1>4. FrameCount(g, o) = 0
  BY <1>3, CountEmpty, AllNamesEmpty DEF FrameCount
<1>5. /\ FrameCount(f, o) \in Nat /\ Count(f.stack, o) \in Nat
      /\ Count(f.held, o) \in Nat /\ Count(AllNames(f.scopes), o) \in Nat
  BY <1>2, FrameFinite
<1>6. fs \in Seq(R)
  BY <1>1, <1>2, <1>3, ExceptSeq
<1>7. HoldersIn(fs, o) + FrameCount(frames[k], o)
        = HoldersIn(frames, o) + FrameCount(g, o)
  BY <1>1, <1>2, <1>3, HoldersReplace
<1>8. HoldersIn(fs, o) \in Nat /\ HoldersIn(frames, o) \in Nat
  BY <1>1, <1>6, HoldersNat
<1> HIDE DEF fs
<1>9. Holders(o) >= FrameCount(f, o)
  BY <1>4, <1>5, <1>7, <1>8 DEF Holders, f
<1>10. Count(f.held, o) <= FrameCount(f, o)
       /\ Count(AllNames(f.scopes), o) <= FrameCount(f, o)
  <2> DEFINE a == Count(AllNames(f.scopes), o)
             b == Count(f.stack, o)
             c == Count(f.held, o)
  <2>1. FrameCount(f, o) = b + c + a /\ a \in Nat /\ b \in Nat /\ c \in Nat
    BY <1>5 DEF FrameCount
  <2> HIDE DEF a, b, c
  <2>2. c <= FrameCount(f, o) /\ a <= FrameCount(f, o)
    BY <2>1
  <2>3. QED
    BY <2>2 DEF a, c
<1>11. QED
  BY <1>5, <1>8, <1>9, <1>10 DEF f, Holders

\* What a name stands for is an object of the line that a scope holds.
LEMMA FoundHeld ==
  ASSUME JInv, status = "running", ~AtEnd, NEW name \in Names, NEW o,
         Found(name, o)
  PROVE  o \in ThisLine /\ Holders(o) > 0
<1>1. PICK s \in DOMAIN Chain : Chain[s][name] = o /\ o # Nil
  BY DEF Found
<1>2. Chain[s] \in [Names -> ThisLine \cup {Nil}]
  BY <1>1, ChainType, ElementOfSeq, LenProperties DEF JInv
<1>3. o \in ThisLine
  BY <1>1, <1>2
<1>4. /\ frames \in Seq(FrameRecord(ThisLine, DOMAIN program))
      /\ Len(frames) \in Nat \ {0} /\ DOMAIN frames = 1..Len(frames)
  BY TopFacts, LenProperties DEF JInv, IInv, LinesIsolated
<1>5. \E k \in DOMAIN frames : \E t \in DOMAIN frames[k].scopes :
        frames[k].scopes[t] = Chain[s]
  <2>1. CASE Len(frames) = 1
    BY <1>1, <1>4, <2>1 DEF Chain, Top
  <2>2. CASE Len(frames) # 1
    <3> DEFINE a == frames[1].scopes[1]
               q == Top.scopes
    <3>1. frames[1] \in FrameRecord(ThisLine, DOMAIN program)
          /\ Top \in FrameRecord(ThisLine, DOMAIN program)
      BY <1>4, ElementOfSeq DEF Top
    <3>2. frames[1].scopes # <<>> /\ Len(frames) > 1
      BY <1>4, <2>2 DEF JInv, IInv, GlobalScopeOpen
    <3>3. 1 \in DOMAIN frames[1].scopes
      BY <3>1, <3>2, EmptySeq, LenProperties DEF FrameRecord
    <3>4. Top.scopes \in Seq([Names -> ThisLine \cup {Nil}])
      BY <3>1 DEF FrameRecord
    <3>5. Chain = <<a>> \o q
      BY <2>2 DEF Chain
    <3> HIDE DEF a, q
    <3>6. Chain[s] = a \/ \E t \in DOMAIN q : Chain[s] = q[t]
      <4>1. q \in Seq([Names -> ThisLine \cup {Nil}])
        BY <3>4 DEF q
      <4>2. Len(<<a>>) = 1 /\ <<a>>[1] = a /\ <<a>> \in Seq({a})
        OBVIOUS
      <4> DEFINE z == <<a>>
                 T == [Names -> ThisLine \cup {Nil}] \cup {a}
      <4>3. z \in Seq(T) /\ q \in Seq(T) /\ Len(z) = 1 /\ z[1] = a
        <5>1. [Names -> ThisLine \cup {Nil}] \subseteq T /\ {a} \subseteq T
          OBVIOUS
        <5> HIDE DEF T, z
        <5>2. z \in Seq({a}) /\ Len(z) = 1 /\ z[1] = a
          BY <4>2 DEF z
        <5>3. QED
          BY <4>1, <5>1, <5>2, SeqMonotonic
      <4> HIDE DEF T, z
      <4>4. /\ Len(z \o q) = Len(z) + Len(q)
            /\ \A i \in 1..(Len(z) + Len(q)) :
                 (z \o q)[i] = IF i <= Len(z) THEN z[i] ELSE q[i - Len(z)]
            /\ z \o q \in Seq(T)
        BY <4>3, ConcatProperties
      <4>5. Len(q) \in Nat /\ DOMAIN q = 1..Len(q)
            /\ DOMAIN (z \o q) = 1..(1 + Len(q))
        BY <4>3, <4>4, LenProperties
      <4>6. s \in 1..(1 + Len(q)) /\ Chain[s] = (z \o q)[s]
        BY <3>5, <4>5 DEF z
      <4>7. CASE s = 1
        BY <4>3, <4>4, <4>5, <4>6, <4>7
      <4>8. CASE s # 1
        <5>1. s - 1 \in DOMAIN q /\ Chain[s] = q[s - 1]
          BY <4>3, <4>4, <4>5, <4>6, <4>8
        <5>2. QED
          BY <5>1
      <4>9. QED
        BY <4>7, <4>8
    <3>7. QED
      BY <1>4, <3>3, <3>6 DEF a, q, Top
  <2>3. QED
    BY <2>1, <2>2
<1>6. PICK k \in DOMAIN frames : \E t \in DOMAIN frames[k].scopes :
        frames[k].scopes[t][name] = o
  BY <1>1, <1>5
<1> DEFINE a == AllNames(frames[k].scopes)
<1>7. \E x \in DOMAIN a : a[x] = o
  <2>1. PICK t \in DOMAIN frames[k].scopes : frames[k].scopes[t][name] = o
    BY <1>6
  <2>2. <<t, name>> \in DOMAIN a /\ a[<<t, name>>] = o
    BY <2>1 DEF AllNames
  <2>3. QED
    BY <2>2
<1>8. IsFiniteSet(DOMAIN a)
  <2>1. frames[k] \in FrameRecord(ThisLine, DOMAIN program)
    BY <1>4, ElementOfSeq
  <2>2. QED
    BY <2>1, FrameFinite
<1> HIDE DEF a
<1>9. Count(a, o) # 0
  BY <1>7, <1>8, CountZero
<1>10. Holders(o) > 0
  <2>1. /\ Holders(o) >= FrameCount(frames[k], o) /\ Holders(o) \in Nat
        /\ FrameCount(frames[k], o) \in Nat
        /\ Count(a, o) \in Nat
        /\ Count(a, o) <= FrameCount(frames[k], o)
    BY FrameHolds DEF JInv, a
  <2>2. QED
    BY <1>9, <2>1
<1>11. QED
  BY <1>3, <1>10

LEMMA LoadIdRefs ==
  ASSUME JInv, LoadId
  PROVE  RefsExact' /\ Activations'
<1>1. /\ status = "running" /\ ~AtEnd
      /\ Instr.op = "LOAD_ID"
      /\ Instr \in Instruction(DOMAIN program)
      /\ Top.stack \in Seq(ThisLine)
  BY ExecutingFacts DEF LoadId, JInv
<1>2. Instr.name \in Names
  BY <1>1, InstructionTypes
<1>3. PICK o \in DOMAIN heap :
        /\ Found(Instr.name, o)
        /\ Step([Top EXCEPT !.stack = Append(@, o)], Incref(heap, o))
  BY DEF LoadId
<1>4. o \in ThisLine /\ Holders(o) > 0
  BY <1>1, <1>2, <1>3, FoundHeld
<1>5. QED
  BY <1>1, <1>3, <1>4, PushHeld

\* One or two operands leave the stack.
LEMMA OneTaken ==
  ASSUME IInv, status = "running", ~AtEnd, ~StackUnderflow, Needed = 1
  PROVE  \A o : Count(Top.stack, o)
                  = Count(Drop(Top.stack, 1), o) + Count(<<Operand(1)>>, o)
<1>1. Top.stack \in Seq(ThisLine) /\ Len(Top.stack) >= 1 /\ Len(Top.stack) \in Nat
  BY TopFacts, OneOperand, LenProperties DEF FrameRecord
<1>2. Operand(1) = Top.stack[Len(Top.stack)]
  BY <1>1 DEF Operand
<1> DEFINE s == Top.stack
<1> HIDE DEF s
<1>3. TAKE o
<1>4. Count(s, o) = Count(Drop(s, 1), o) + One(s[Len(s)], o)
  BY <1>1, CountDrop DEF s
<1>5. QED
  BY <1>2, <1>4, CountOne DEF s

LEMMA TwoTaken ==
  ASSUME IInv, status = "running", ~AtEnd, ~StackUnderflow, Needed = 2
  PROVE  \A o : Count(Top.stack, o)
                  = Count(Drop(Top.stack, 2), o)
                      + Count(<<Operand(1), Operand(2)>>, o)
<1> DEFINE s == Top.stack
           t == Drop(s, 1)
           a == s[Len(s)]
           b == s[Len(s) - 1]
<1>1. s \in Seq(ThisLine) /\ Len(s) >= 2 /\ Len(s) \in Nat
  BY TopFacts, TwoOperands, LenProperties DEF FrameRecord
<1>2. Operand(1) = a /\ Operand(2) = b
  BY <1>1 DEF Operand
<1> HIDE DEF s
<1>3. t \in Seq(ThisLine) /\ Len(t) = Len(s) - 1 /\ t[Len(t)] = b
  <2>1. t \in Seq(ThisLine) /\ Len(t) = Len(s) - 1
    BY <1>1, CountDrop
  <2>2. \A i \in 1..(Len(s) - 1) : t[i] = s[i]
    BY <1>1, SplitLast
  <2> HIDE DEF t
  <2>3. Len(t) \in 1..(Len(s) - 1)
    BY <1>1, <2>1
  <2>4. QED
    BY <2>1, <2>2, <2>3
<1>4. Drop(t, 1) = Drop(s, 2)
  BY <1>1, <1>3 DEF Drop
<1> HIDE DEF t, a, b
<1>5. TAKE o
<1>6. Count(s, o) = Count(t, o) + One(a, o)
  BY <1>1, CountDrop DEF t, a
<1>7. Count(t, o) = Count(Drop(s, 2), o) + One(b, o)
  <2>1. Len(t) >= 1
    BY <1>1, <1>3
  <2>2. Count(t, o) = Count(Drop(t, 1), o) + One(t[Len(t)], o)
    BY <1>3, <2>1, CountDrop
  <2>3. QED
    BY <1>3, <1>4, <2>2
<1>8. Count(<<a, b>>, o) = One(a, o) + One(b, o)
  BY CountTwo
<1>9. Count(Drop(s, 2), o) \in Nat /\ One(a, o) \in Nat /\ One(b, o) \in Nat
  <2>1. Drop(s, 2) \in Seq(ThisLine)
    BY <1>1, DropType
  <2>2. QED
    BY <2>1, CountNat DEF One
<1>10. Count(s, o) = Count(Drop(s, 2), o) + Count(<<a, b>>, o)
  BY <1>6, <1>7, <1>8, <1>9
<1>11. QED
  BY <1>2, <1>10 DEF s

LEMMA BinaryRefs ==
  ASSUME JInv, Binary
  PROVE  RefsExact' /\ Activations'
<1> DEFINE f == <<Operand(1), Operand(2)>>
           h == Release(heap, f)
           s == Drop(Top.stack, 2)
<1>1. /\ IInv /\ status = "running" /\ ~AtEnd /\ ~StackUnderflow
      /\ Top.stack \in Seq(ThisLine)
      /\ Instr.op \in BinaryOps
  BY ExecutingFacts DEF JInv, Binary
<1>2. Needed = 2
  BY <1>1, NeededValues
<1>3. 2 <= Len(Top.stack) /\ IsFiniteSet(DOMAIN f)
  BY <1>1, <1>2, TwoOperands
<1>4. \A o : Count(Top.stack, o) = Count(s, o) + Count(f, o)
  BY <1>1, <1>2, TwoTaken
<1>5. s \in Seq(ThisLine)
  BY <1>1, <1>3, DropType
<1>6. PushNew(h, 2, "int")
  BY DEF Binary
<1> HIDE DEF f, s
<1>7. Exact(h, WithStack(s, h))
  BY <1>1, <1>3, <1>4, <1>5, StackReleased
<1>8. LineHeap(h) /\ Len(h) = Len(heap)
  BY <1>1, <1>3, LineHeapNow, LineHeapCounts
<1> HIDE DEF h
<1>9. "int" \in Kinds /\ "int" # "function"
  BY DEF Kinds
<1>10. QED
  BY <1>1, <1>3, <1>6, <1>7, <1>8, <1>9, PushNewStep DEF s

\* An instruction that replaces the operand by a new number.
LEMMA ReplaceOperand ==
  ASSUME JInv, status = "running", ~AtEnd, ~StackUnderflow, Needed = 1,
         PushNew(Release(heap, <<Operand(1)>>), 1, "int")
  PROVE  RefsExact' /\ Activations'
<1> DEFINE f == <<Operand(1)>>
           h == Release(heap, f)
           s == Drop(Top.stack, 1)
<1>1. IInv
  BY DEF JInv
<1>2. 1 <= Len(Top.stack) /\ IsFiniteSet(DOMAIN f) /\ s \in Seq(ThisLine)
  BY <1>1, OneOperand
<1>3. \A o : Count(Top.stack, o) = Count(s, o) + Count(f, o)
  BY <1>1, OneTaken
<1>4. PushNew(h, 1, "int")
  OBVIOUS
<1> HIDE DEF f, s
<1>5. Exact(h, WithStack(s, h))
  BY <1>2, <1>3, StackReleased
<1>6. LineHeap(h) /\ Len(h) = Len(heap)
  BY <1>1, <1>2, LineHeapNow, LineHeapCounts
<1> HIDE DEF h
<1>7. "int" \in Kinds /\ "int" # "function"
  BY DEF Kinds
<1>8. QED
  BY <1>2, <1>4, <1>5, <1>6, <1>7, PushNewStep DEF s

LEMMA NegateRefs ==
  ASSUME JInv, Negate
  PROVE  RefsExact' /\ Activations'
<1>1. /\ status = "running" /\ ~AtEnd /\ ~StackUnderflow
      /\ Instr.op \in NegatingOps
  BY ExecutingFacts DEF JInv, Negate
<1>2. Needed = 1
  BY <1>1, NeededValues
<1>3. PushNew(Release(heap, <<Operand(1)>>), 1, "int")
  BY DEF Negate
<1>4. QED
  BY <1>1, <1>2, <1>3, ReplaceOperand

\* An instruction that changes no reference.
LEMMA IdleStep ==
  ASSUME JInv, status = "running", Step(Top, heap)
  PROVE  RefsExact' /\ Activations'
<1>1. Top \in FrameRecord(ThisLine, DOMAIN program)
  BY TopFacts DEF JInv
<1>2. [Top EXCEPT !.stack = Top.stack] = Top /\ Top.stack \in Seq(ThisLine)
  BY <1>1 DEF FrameRecord
<1> DEFINE s == Top.stack
<1>3. s \in Seq(meta.false_obj..Len(heap)) /\ Step([Top EXCEPT !.stack = s], heap)
  BY <1>2 DEF ThisLine
<1>4. Exact(heap, WithStack(s, heap))
  BY StackNow
<1>5. LineHeap(heap)
  BY LineHeapNow DEF JInv
<1> HIDE DEF s
<1>6. QED
  BY <1>3, <1>4, <1>5, StackStep

LEMMA IdleRefs ==
  ASSUME JInv, Ret \/ Ignored
  PROVE  RefsExact' /\ Activations'
<1>1. status = "running" /\ Step(Top, heap)
  BY DEF Ret, Ignored, Executing
<1>2. QED
  BY <1>1, IdleStep

\* A reference given back and taken again, when it was not the last one.
LEMMA ReleaseIncref ==
  ASSUME NEW h \in Seq(ObjectRecord), NEW o \in DOMAIN h, h[o].refs > 1
  PROVE  Incref(Release(h, <<o>>), o) = h
<1> DEFINE g == Release(h, <<o>>)
           a == Incref(g, o)
           n == h[o].refs - 1
<1>1. h[o] \in ObjectRecord /\ h[o].refs \in Nat
  BY HeapFields
<1>2. n \in Nat /\ n + 1 = h[o].refs /\ ~(h[o].refs <= 1)
  BY <1>1
<1>3. \A p \in DOMAIN h : g[p] = IF p # o THEN h[p] ELSE Released(h[p])
  BY ReleaseOne
<1>4. DOMAIN g = DOMAIN h
  BY DEF Release
<1> HIDE DEF g
<1>5. g[o] = [h[o] EXCEPT !.refs = n]
  BY <1>2, <1>3 DEF Released
<1> HIDE DEF n
<1>6. g[o].refs = n
  BY <1>1, <1>2, <1>5, FieldsChanged
<1>7. ASSUME NEW p \in DOMAIN h PROVE a[p] = h[p]
  <2>1. CASE p = o
    <3> DEFINE q == g[o]
    <3>1. a[p] = [q EXCEPT !.refs = q.refs + 1]
      BY <1>4, <2>1 DEF Incref
    <3>2. q = [h[o] EXCEPT !.refs = n] /\ q.refs = n
      BY <1>5, <1>6
    <3> HIDE DEF q
    <3>3. a[p] = [[h[o] EXCEPT !.refs = n] EXCEPT !.refs = h[o].refs]
      BY <1>2, <3>1, <3>2
    <3>4. QED
      BY <1>1, <1>2, <2>1, <3>3, RefsTwice
  <2>2. CASE p # o
    <3>1. a[p] = g[p]
      BY <1>4, <2>2 DEF Incref
    <3>2. QED
      BY <1>3, <2>2, <3>1
  <2>3. QED
    BY <2>1, <2>2
<1>8. a = [p \in DOMAIN h |-> a[p]]
  BY <1>4 DEF Incref
<1>9. h = [p \in DOMAIN h |-> h[p]]
  OBVIOUS
<1> HIDE DEF a
<1>10. QED
  BY <1>7, <1>8, <1>9 DEF a, g

LEMMA UnaryPlusRefs ==
  ASSUME JInv, UnaryPlus
  PROVE  RefsExact' /\ Activations'
<1>1. /\ status = "running" /\ ~AtEnd /\ ~StackUnderflow
      /\ Instr.op = "UPLUS" /\ IInv
  BY ExecutingFacts DEF JInv, UnaryPlus
<1>2. Needed = 1
  BY <1>1, NeededValues
<1>3. CASE KindOf(Operand(1)) = "int"
  <2>1. PushNew(Release(heap, <<Operand(1)>>), 1, "int")
    BY <1>3 DEF UnaryPlus
  <2>2. QED
    BY <1>1, <1>2, <2>1, ReplaceOperand
<1>4. CASE KindOf(Operand(1)) # "int"
  <2> DEFINE o == Operand(1)
  <2>1. Step(Top, Incref(Release(heap, <<o>>), o))
    BY <1>4 DEF UnaryPlus
  <2>2. ~(heap[o].refs <= 1)
    BY <1>1, <1>4 DEF UnaryPlus, Executing, Defined, UseAfterFree, At
  <2>3. o \in ThisLine
    BY <1>1, <1>2, OneOperand
  <2> HIDE DEF o
  <2>4. heap \in Seq(ObjectRecord) /\ meta.false_obj \in Nat \ {0}
    BY <1>1 DEF IInv, TypeOK, Running
  <2>5. o \in DOMAIN heap
    <3>1. DOMAIN heap = 1..Len(heap) /\ Len(heap) \in Nat
      BY <2>4, LenProperties
    <3>2. QED
      BY <2>3, <2>4, <3>1 DEF ThisLine
  <2>6. heap[o].refs > 1
    BY <2>2, <2>4, <2>5, HeapFields
  <2>7. Step(Top, heap)
    BY <2>1, <2>4, <2>5, <2>6, ReleaseIncref
  <2>8. QED
    BY <1>1, <2>7, IdleStep
<1>5. QED
  BY <1>3, <1>4

LEMMA PopObjectRefs ==
  ASSUME JInv, PopObject
  PROVE  RefsExact' /\ Activations'
<1> DEFINE f == <<Operand(1)>>
           h == Release(heap, f)
           s == Drop(Top.stack, 1)
<1>1. /\ IInv /\ status = "running" /\ ~AtEnd /\ ~StackUnderflow
      /\ Instr.op = "POP_OBJECT"
  BY ExecutingFacts DEF JInv, PopObject
<1>2. Needed = 1
  BY <1>1, NeededValues
<1>3. IsFiniteSet(DOMAIN f) /\ s \in Seq(ThisLine)
  BY <1>1, <1>2, OneOperand
<1>4. \A o : Count(Top.stack, o) = Count(s, o) + Count(f, o)
  BY <1>1, <1>2, OneTaken
<1>5. Step([Top EXCEPT !.stack = s], h)
  BY DEF PopObject
<1> HIDE DEF f, s
<1>6. Exact(h, WithStack(s, h))
  BY <1>1, <1>3, <1>4, StackReleased
<1>7. LineHeap(h) /\ Len(h) = Len(heap)
  BY <1>1, <1>3, LineHeapNow, LineHeapCounts
<1> HIDE DEF h
<1>8. s \in Seq(meta.false_obj..Len(h))
  BY <1>3, <1>7 DEF ThisLine
<1>9. QED
  BY <1>1, <1>5, <1>6, <1>7, <1>8, StackStep

-----------------------------------------------------------------------------
(* Instructions that open, close or change a scope.                         *)

\* The holders of the objects of h when the running activation has this stack
\* and these scopes.
WithScopes(stack, scopes, h) ==
  [o \in DOMAIN h |->
     Rest(o) + Count(Top.held, o) + Count(AllNames(scopes), o) + Count(stack, o)]

LEMMA ScopesNow ==
  ASSUME JInv, status = "running"
  PROVE  /\ Exact(heap, WithScopes(Top.stack, Top.scopes, heap))
         /\ heap \in Seq(ObjectRecord) /\ DOMAIN heap = 1..Len(heap)
         /\ Len(heap) \in Nat
<1>1. WithScopes(Top.stack, Top.scopes, heap) = WithStack(Top.stack, heap)
  BY DEF WithScopes, WithStack, Others
<1>2. heap \in Seq(ObjectRecord)
  BY DEF JInv, IInv, TypeOK
<1>3. QED
  BY <1>1, <1>2, StackNow, LenProperties

LEMMA ScopesStep ==
  ASSUME JInv, status = "running", NEW h, LineHeap(h),
         NEW scopes \in Seq([Names -> (meta.false_obj..Len(h)) \cup {Nil}]),
         NEW stack \in Seq(ThisLine),
         Step([Top EXCEPT !.scopes = scopes, !.stack = stack], h),
         Exact(h, WithScopes(stack, scopes, h))
  PROVE  RefsExact' /\ Activations'
<1> DEFINE S == meta.false_obj..Len(h)
           L == 1..Len(h)
           B == DOMAIN program
           f == [Top EXCEPT !.scopes = scopes, !.stack = stack]
<1>1. Top \in FrameRecord(ThisLine, B) /\ meta.false_obj \in Nat \ {0}
  BY TopFacts DEF JInv, IInv, Running
<1>2. Len(heap) \in Nat /\ Len(h) \in Nat /\ Len(h) >= Len(heap)
  BY LenProperties DEF LineHeap, JInv, IInv, TypeOK
<1>3. ThisLine \subseteq L /\ S \subseteq L /\ 1..Len(heap) \subseteq L
  BY <1>1, <1>2 DEF ThisLine
<1>4. stack \in Seq(L) /\ scopes \in Seq([Names -> L \cup {Nil}])
  <2>1. [Names -> S \cup {Nil}] \subseteq [Names -> L \cup {Nil}]
    BY <1>3
  <2>2. scopes \in Seq([Names -> S \cup {Nil}])
    OBVIOUS
  <2> HIDE DEF S, L
  <2>3. QED
    BY <1>3, <2>1, <2>2, SeqMonotonic
<1>5. Top \in FrameRecord(L, B)
  BY <1>1, <1>3, FrameWider
<1> HIDE DEF L, B
<1>6. f \in FrameRecord(L, B)
  BY <1>4, <1>5 DEF FrameRecord
<1>7. /\ f.stack = stack /\ f.scopes = scopes /\ f.held = Top.held
      /\ f.block = Top.block /\ f.args = Top.args
  BY <1>5 DEF FrameRecord
<1>8. Step(f, h)
  OBVIOUS
<1> HIDE DEF f
<1>9. Activations'
  BY <1>6, <1>7, <1>8, StepActivations DEF B
<1>10. ASSUME NEW o \in DOMAIN h
       PROVE  Holders(o)' = Rest(o) + Count(Top.held, o)
                              + Count(AllNames(scopes), o) + Count(stack, o)
  <2>1. Holders(o)' = Rest(o) + FrameCount(f, o)
    BY <1>3, <1>6, <1>8, StepHolders DEF JInv, B
  <2>2. Count(stack, o) \in Nat /\ Count(AllNames(scopes), o) \in Nat
    BY <1>4, CountNat, AllNamesFinite
  <2>3. Count(Top.held, o) \in Nat /\ Rest(o) \in Nat
    BY StackHolders DEF JInv
  <2> DEFINE a == Count(AllNames(scopes), o)
             b == Count(stack, o)
             c == Count(Top.held, o)
  <2>4. FrameCount(f, o) = b + c + a
    BY <1>7 DEF FrameCount
  <2>5. a \in Nat /\ b \in Nat /\ c \in Nat
    BY <2>2, <2>3
  <2> HIDE DEF a, b, c
  <2>6. Holders(o)' = Rest(o) + c + a + b
    BY <2>1, <2>3, <2>4, <2>5
  <2>7. QED
    BY <2>6 DEF a, b, c
<1>11. HoldersNext(h) = WithScopes(stack, scopes, h)
  BY <1>10 DEF HoldersNext, WithScopes
<1>12. heap' = h
  BY <1>8 DEF Step
<1>13. QED
  BY <1>9, <1>11, <1>12, ExactNext

\* An object that is held is live and counted at least as often.
LEMMA HeldIsLive ==
  ASSUME JInv, NEW o \in DOMAIN heap, Holders(o) \in Nat, Holders(o) > 0
  PROVE  /\ heap[o].live /\ heap[o].refs \in Nat
         /\ heap[o].refs >= Holders(o)
<1>1. heap \in Seq(ObjectRecord)
  BY DEF JInv, IInv, TypeOK
<1>2. heap[o].refs \in Nat /\ heap[o].lost \in Nat
  BY <1>1, HeapFields
<1>3. heap[o].live /\ heap[o].refs = Holders(o) + heap[o].lost
  BY DEF JInv, RefsExact
<1>4. QED
  BY <1>2, <1>3

LEMMA SingleFinite ==
  ASSUME NEW e
  PROVE  IsFiniteSet(DOMAIN <<e>>)
<1>1. <<e>> \in Seq({e})
  OBVIOUS
<1>2. QED
  BY <1>1, FiniteDomain

\* The scopes after a name of the innermost one is bound anew.
LEMMA BindPoints ==
  ASSUME NEW S, NEW scopes \in Seq([Names -> S]), scopes # <<>>,
         NEW name \in Names, NEW e
  PROVE  Rebound(scopes, name, e, [scopes EXCEPT ![Len(scopes)][name] = e])
<1> DEFINE k == Len(scopes)
<1>1. k \in DOMAIN scopes /\ DOMAIN scopes[k] = Names
  BY EmptySeq, LenProperties, ElementOfSeq
<1> HIDE DEF k
<1>2. QED
  BY <1>1 DEF k, Rebound

\* The two places SET_NAME takes a pointer from and puts it to.
LEMMA BindHeld ==
  ASSUME JInv, status = "running", ~AtEnd, ~StackUnderflow, Needed = 1,
         Top.scopes # <<>>, NEW name \in Names
  PROVE  LET o == Operand(1)
         IN /\ o \in DOMAIN heap /\ heap[o].refs > 0
            /\ Top.scopes[Len(Top.scopes)][name] = o => heap[o].refs > 1
<1> DEFINE o == Operand(1)
           n == Len(Top.scopes)
           a == Count(AllNames(Top.scopes), o)
           b == Count(Top.stack, o)
<1>1. /\ Top \in FrameRecord(ThisLine, DOMAIN program)
      /\ o \in ThisLine /\ meta.false_obj \in Nat \ {0}
  BY TopFacts, OneOperand DEF JInv, IInv, Running
<1>2. DOMAIN heap = 1..Len(heap) /\ Len(heap) \in Nat
  BY ScopesNow
<1>3. o \in DOMAIN heap
  BY <1>1, <1>2 DEF ThisLine
<1>4. /\ Holders(o) = Rest(o) + Count(Top.held, o) + a + b
      /\ Rest(o) \in Nat /\ Count(Top.held, o) \in Nat /\ a \in Nat /\ b \in Nat
  BY StackHolders DEF JInv, Others
<1>5. b >= 1
  <2>1. b = Count(Drop(Top.stack, 1), o) + Count(<<o>>, o)
    BY OneTaken DEF JInv
  <2>2. Count(<<o>>, o) = 1
    BY CountOne DEF One
  <2>3. Count(Drop(Top.stack, 1), o) \in Nat
    BY OneOperand, CountNat DEF JInv
  <2> HIDE DEF b
  <2>4. QED
    BY <2>1, <2>2, <2>3
<1>6. Top.scopes[n][name] = o => a >= 1
  <2>1. Top.scopes \in Seq([Names -> ThisLine \cup {Nil}])
    BY <1>1 DEF FrameRecord
  <2>2. n \in DOMAIN Top.scopes
    BY <2>1, LenProperties, EmptySeq
  <2> DEFINE all == AllNames(Top.scopes)
  <2>3. <<n, name>> \in DOMAIN all /\ all[<<n, name>>] = Top.scopes[n][name]
    BY <2>2 DEF AllNames
  <2>4. IsFiniteSet(DOMAIN all)
    BY <2>1, AllNamesFinite
  <2>5. ASSUME Top.scopes[n][name] = o
        PROVE  Count(all, o) # 0
    <3>1. \E x \in DOMAIN all : all[x] = o
      BY <2>3, <2>5
    <3> HIDE DEF all, o
    <3>2. QED
      BY <2>4, <3>1, CountZero
  <2> HIDE DEF n
  <2>6. QED
    BY <1>4, <2>5
<1> HIDE DEF o, a, b, n
<1>7. Holders(o) \in Nat /\ Holders(o) > 0
      /\ (Top.scopes[n][name] = o => Holders(o) > 1)
  BY <1>4, <1>5, <1>6
<1>8. heap[o].refs \in Nat /\ heap[o].refs >= Holders(o)
  BY <1>3, <1>7, HeldIsLive
<1>9. heap[o].refs > 0 /\ (Top.scopes[n][name] = o => heap[o].refs > 1)
  BY <1>7, <1>8
<1>10. QED
  BY <1>3, <1>9 DEF o, n

LEMMA SetNameRefs ==
  ASSUME JInv, SetName
  PROVE  RefsExact' /\ Activations'
<1> DEFINE o == Operand(1)
           s == Len(Top.scopes)
           old == Top.scopes[s][Instr.name]
           h == Release(heap, <<old>>)
           stack == Drop(Top.stack, 1)
           scopes == [Top.scopes EXCEPT ![s][Instr.name] = o]
           H == WithScopes(Top.stack, Top.scopes, heap)
           G == WithScopes(stack, scopes, heap)
<1>1. /\ status = "running" /\ ~AtEnd /\ ~StackUnderflow /\ IInv
      /\ Instr.op = "SET_NAME" /\ Instr \in Instruction(DOMAIN program)
  BY ExecutingFacts DEF SetName, JInv
<1>2. Needed = 1 /\ Instr.name \in Names
  BY <1>1, NeededValues, InstructionTypes
<1>3. o \in ThisLine /\ stack \in Seq(ThisLine)
  BY <1>1, <1>2, OneOperand
<1>4. Top \in FrameRecord(ThisLine, DOMAIN program)
  BY <1>1, TopFacts
<1>5. Top.scopes \in Seq([Names -> ThisLine \cup {Nil}]) /\ Top.scopes # <<>>
  BY <1>4 DEF FrameRecord, SetName
<1>6. /\ o \in DOMAIN heap /\ heap[o].refs > 0
      /\ old = o => heap[o].refs > 1
  BY <1>1, <1>2, <1>5, BindHeld
<1>7. /\ Exact(heap, H) /\ heap \in Seq(ObjectRecord)
  BY <1>1, ScopesNow
<1>8. SetNameHeap(XDecref(heap, o), Top.scopes[s], Instr.name, o) = h
  <2> HIDE DEF o, s
  <2>1. QED
    BY <1>6, <1>7, SetNameReleases
<1>9. Step([Top EXCEPT !.scopes = scopes, !.stack = stack], h)
  <2>1. [Top EXCEPT !.scopes[s][Instr.name] = o, !.stack = stack]
          = [Top EXCEPT !.scopes = scopes, !.stack = stack]
    BY <1>4 DEF FrameRecord
  <2>2. QED
    BY <1>8, <2>1 DEF SetName
<1>10. IsFiniteSet(DOMAIN <<old>>)
  BY SingleFinite
<1>11. LineHeap(h) /\ Len(h) = Len(heap)
  BY <1>1, <1>10, LineHeapNow, LineHeapCounts
<1>12. scopes \in Seq([Names -> ThisLine \cup {Nil}])
  BY <1>2, <1>3, <1>5, BindType
<1>13. ASSUME NEW p \in DOMAIN heap
       PROVE  G[p] \in Nat /\ H[p] = G[p] + Count(<<old>>, p)
  <2> DEFINE r == Rest(p)
             c == Count(Top.held, p)
             a == Count(AllNames(Top.scopes), p)
             b == Count(Top.stack, p)
             a2 == Count(AllNames(scopes), p)
             b2 == Count(stack, p)
             u == One(old, p)
             v == One(o, p)
  <2>1. r \in Nat /\ c \in Nat /\ a \in Nat /\ b \in Nat
    BY <1>1, StackHolders
  <2>2. a2 \in Nat /\ b2 \in Nat
    BY <1>3, <1>12, AllNamesFinite, CountNat
  <2>3. b = b2 + v
    BY <1>1, <1>2, OneTaken, CountOne
  <2>4. a2 + u = a + v
    <3> DEFINE w == Top.scopes
               S == ThisLine \cup {Nil}
    <3>1. w \in Seq(ScopeOver(S)) /\ Len(w) >= 1
      BY <1>5, EmptySeq, LenProperties DEF ScopeOver
    <3> DEFINE name == Instr.name
    <3>2. name \in Names /\ old = w[Len(w)][name]
      BY <1>2
    <3>3. Rebound(w, name, o, scopes)
      BY <1>2, <1>5, BindPoints
    <3> HIDE DEF o, old, scopes, w, S, name
    <3>4. Count(AllNames(scopes), p) + One(w[Len(w)][name], p)
            = Count(AllNames(w), p) + One(o, p)
      BY <3>1, <3>2, <3>3, AllNamesBind
    <3>5. QED
      BY <3>2, <3>4 DEF w
  <2>5. H[p] = r + c + a + b /\ G[p] = r + c + a2 + b2
    BY DEF WithScopes
  <2>6. Count(<<old>>, p) = u
    BY CountOne
  <2>7. u \in Nat /\ v \in Nat
    BY DEF One
  <2> HIDE DEF r, c, a, b, a2, b2, u, v, H, G
  <2>8. G[p] \in Nat /\ H[p] = G[p] + u
    BY <2>1, <2>2, <2>3, <2>4, <2>5, <2>7
  <2>9. QED
    BY <2>6, <2>8
<1> HIDE DEF H, G, old
<1>14. Exact(h, G)
  BY <1>7, <1>10, <1>13, ExactRelease
<1>15. G = WithScopes(stack, scopes, h)
  BY DEF G, WithScopes, Release
<1> HIDE DEF h, stack, scopes
<1>16. scopes \in Seq([Names -> (meta.false_obj..Len(h)) \cup {Nil}])
  BY <1>11, <1>12 DEF ThisLine
<1>17. QED
  BY <1>1, <1>3, <1>9, <1>11, <1>14, <1>15, <1>16, ScopesStep

LEMMA StartScopeRefs ==
  ASSUME JInv, StartScope
  PROVE  RefsExact' /\ Activations'
<1> DEFINE args == Top.args
           h == Acquire(heap, args)
           T == ThisLine \cup {Nil}
           scopes == Append(Top.scopes, args)
           H == WithScopes(Top.stack, Top.scopes, heap)
           G == WithScopes(Top.stack, scopes, heap)
<1>1. status = "running" /\ Top.stack \in Seq(ThisLine) /\ IInv
  BY ExecutingFacts DEF StartScope, JInv
<1>2. args \in [Names -> T] /\ Top.scopes \in Seq([Names -> T])
  BY <1>1, TopFacts DEF FrameRecord
<1>3. IsFiniteSet(DOMAIN args) /\ DOMAIN args = Names
  BY <1>2, ProgramsAssumption
<1>4. LineHeap(h) /\ Len(h) = Len(heap)
  BY <1>1, <1>3, LineHeapNow, LineHeapCounts
<1>5. Step([Top EXCEPT !.scopes = scopes, !.stack = Top.stack], h)
  <2>1. [Top EXCEPT !.scopes = scopes, !.stack = Top.stack]
          = [Top EXCEPT !.scopes = scopes]
    BY <1>1, TopFacts DEF FrameRecord
  <2>2. QED
    BY <2>1 DEF StartScope
<1>6. /\ Exact(heap, H) /\ heap \in Seq(ObjectRecord) /\ DOMAIN heap = 1..Len(heap)
      /\ Len(heap) \in Nat
  BY <1>1, ScopesNow
<1> HIDE DEF T
<1>7. scopes \in Seq([Names -> T])
  BY <1>2, AppendProperties
\* The caller holds the arguments.
<1>8. ASSUME NEW p \in DOMAIN heap, Count(args, p) > 0
      PROVE  Holders(p) > 0
  <2>1. PICK n \in Names : args[n] = p
    <3> HIDE DEF args
    <3>1. QED
      BY <1>3, <1>8, CountZero
  <2>2. p # Nil
    BY <1>6 DEF Nil
  <2> DEFINE k == Len(frames)
  <2>3. /\ frames \in Seq(FrameRecord(ThisLine, DOMAIN program))
        /\ k \in DOMAIN frames /\ DOMAIN frames = 1..k /\ k \in Nat
    BY <1>1, TopFacts, LenProperties DEF IInv, LinesIsolated
  <2>4. frames[k].args[n] = p
    BY <2>1 DEF Top
  <2>5. /\ k > 1
        /\ \E i \in DOMAIN frames[k - 1].held : frames[k - 1].held[i] = p
    BY <2>2, <2>3, <2>4 DEF JInv, Activations, ArgumentsHeld
  <2>6. k - 1 \in DOMAIN frames
    BY <2>3, <2>5
  <2> DEFINE f == frames[k - 1]
  <2>7. IsFiniteSet(DOMAIN f.held)
    BY <2>3, <2>6, ElementOfSeq, FrameFinite
  <2>8. Count(f.held, p) # 0
    BY <2>5, <2>7, CountZero
  <2>9. /\ Holders(p) >= FrameCount(f, p) /\ Holders(p) \in Nat
        /\ FrameCount(f, p) \in Nat /\ Count(f.held, p) \in Nat
        /\ Count(f.held, p) <= FrameCount(f, p)
    BY <1>1, <2>6, FrameHolds
  <2> HIDE DEF f
  <2>10. QED
    BY <2>8, <2>9
<1>9. ASSUME NEW p \in DOMAIN heap
      PROVE  /\ H[p] \in Nat /\ G[p] = H[p] + Count(args, p)
             /\ Count(args, p) > 0 => H[p] > 0
  <2> DEFINE r == Rest(p)
             c == Count(Top.held, p)
             a == Count(AllNames(Top.scopes), p)
             b == Count(Top.stack, p)
             a2 == Count(AllNames(scopes), p)
             u == Count(args, p)
  <2>1. r \in Nat /\ c \in Nat /\ a \in Nat /\ b \in Nat /\ Holders(p) = r + c + a + b
    BY <1>1, StackHolders DEF Others
  <2>2. a2 = a + u
    <3> DEFINE w == Top.scopes
    <3>1. w \in Seq([Names -> T]) /\ args \in [Names -> T]
      BY <1>2
    <3> HIDE DEF args, w
    <3>2. Count(AllNames(Append(w, args)), p) = Count(AllNames(w), p) + Count(args, p)
      BY <3>1, AllNamesAppend
    <3>3. QED
      BY <3>2 DEF w
  <2>3. H[p] = r + c + a + b /\ G[p] = r + c + a2 + b
    BY DEF WithScopes
  <2>4. u \in Nat
    BY <1>3, CountZero
  <2>5. u > 0 => Holders(p) > 0
    BY <1>8
  <2> HIDE DEF r, c, a, b, a2, u, H, G
  <2>6. H[p] \in Nat /\ G[p] = H[p] + u /\ (u > 0 => H[p] > 0)
    BY <2>1, <2>2, <2>3, <2>4, <2>5
  <2>7. QED
    BY <2>6 DEF u
<1> HIDE DEF H, G, args
<1>10. Exact(h, G)
  BY <1>3, <1>6, <1>9, ExactAcquire
<1>11. G = WithScopes(Top.stack, scopes, h)
  BY DEF G, WithScopes, Acquire
<1> HIDE DEF h, scopes
<1>12. scopes \in Seq([Names -> (meta.false_obj..Len(h)) \cup {Nil}])
  BY <1>4, <1>7 DEF ThisLine, T
<1>13. QED
  BY <1>1, <1>4, <1>5, <1>10, <1>11, <1>12, ScopesStep

LEMMA EndScopeRefs ==
  ASSUME JInv, EndScope
  PROVE  RefsExact' /\ Activations'
<1> DEFINE T == ThisLine \cup {Nil}
           w == Top.scopes
           last == w[Len(w)]
           h == Release(heap, last)
           scopes == Drop(w, 1)
           H == WithScopes(Top.stack, w, heap)
           G == WithScopes(Top.stack, scopes, heap)
<1>1. status = "running" /\ Top.stack \in Seq(ThisLine) /\ IInv
  BY ExecutingFacts DEF EndScope, JInv
<1>2. w \in Seq([Names -> T]) /\ w # <<>>
  BY <1>1, TopFacts DEF FrameRecord, EndScope
<1>3. Step([Top EXCEPT !.scopes = scopes, !.stack = Top.stack], h)
  <2>1. [Top EXCEPT !.scopes = scopes, !.stack = Top.stack]
          = [Top EXCEPT !.scopes = scopes]
    BY <1>1, TopFacts DEF FrameRecord
  <2>2. QED
    BY <2>1 DEF EndScope
<1>4. Exact(heap, H) /\ heap \in Seq(ObjectRecord)
  BY <1>1, ScopesNow
<1> HIDE DEF T
<1>5. /\ Len(w) \in Nat /\ Len(w) >= 1
      /\ last \in [Names -> T] /\ scopes \in Seq([Names -> T])
  <2> HIDE DEF w
  <2>1. Len(w) \in Nat /\ Len(w) >= 1
    BY <1>2, EmptySeq, LenProperties
  <2> DEFINE S == [Names -> T]
  <2>2. w \in Seq(S)
    BY <1>2
  <2> HIDE DEF S
  <2>3. w[Len(w)] \in S /\ Drop(w, 1) \in Seq(S)
    BY <2>1, <2>2, CountDrop
  <2>4. QED
    BY <2>1, <2>3 DEF S
<1>6. IsFiniteSet(DOMAIN last)
  BY <1>5, ProgramsAssumption
<1>7. LineHeap(h) /\ Len(h) = Len(heap)
  BY <1>1, <1>6, LineHeapNow, LineHeapCounts
<1>8. ASSUME NEW p \in DOMAIN heap
      PROVE  G[p] \in Nat /\ H[p] = G[p] + Count(last, p)
  <2> DEFINE r == Rest(p)
             c == Count(Top.held, p)
             a == Count(AllNames(w), p)
             b == Count(Top.stack, p)
             a2 == Count(AllNames(scopes), p)
             u == Count(last, p)
  <2>1. r \in Nat /\ c \in Nat /\ a \in Nat /\ b \in Nat
    BY <1>1, StackHolders
  <2>2. a2 \in Nat
    BY <1>5, AllNamesFinite
  <2>3. a = a2 + u
    <3> HIDE DEF w
    <3>1. QED
      BY <1>2, <1>5, AllNamesDrop
  <2>4. u \in Nat
    BY <1>6, CountZero
  <2>5. H[p] = r + c + a + b /\ G[p] = r + c + a2 + b
    BY DEF WithScopes
  <2> HIDE DEF r, c, a, b, a2, u, H, G
  <2>6. G[p] \in Nat /\ H[p] = G[p] + u
    BY <2>1, <2>2, <2>3, <2>4, <2>5
  <2>7. QED
    BY <2>6 DEF u
<1> HIDE DEF H, G, last
<1>9. Exact(h, G)
  BY <1>4, <1>6, <1>8, ExactRelease
<1>10. G = WithScopes(Top.stack, scopes, h)
  BY DEF G, WithScopes, Release
<1> HIDE DEF h, scopes
<1>11. scopes \in Seq([Names -> (meta.false_obj..Len(h)) \cup {Nil}])
  BY <1>5, <1>7 DEF ThisLine, T
<1>12. QED
  BY <1>1, <1>3, <1>7, <1>9, <1>10, <1>11, ScopesStep

\* The global scope: print and nothing else.
LEMMA GlobalScopeCount ==
  ASSUME NEW S, NEW o \in S, Nil \in S, NEW p, p # Nil
  PROVE  LET scope == [EmptyScope EXCEPT ![PrintName] = o]
         IN /\ scope \in [Names -> S]
            /\ Count(AllNames(<<scope>>), p) = One(o, p)
<1> DEFINE scope == [EmptyScope EXCEPT ![PrintName] = o]
           e == EmptyScope
<1>1. /\ e \in [Names -> S] /\ scope \in [Names -> S] /\ PrintName \in Names
      /\ e[PrintName] = Nil /\ scope[PrintName] = o
      /\ \A n \in Names : n # PrintName => scope[n] = e[n]
  BY ProgramsAssumption DEF EmptyScope
<1>2. \A n \in Names : e[n] = Nil
  BY DEF EmptyScope
<1> HIDE DEF scope, e
<1>3. IsFiniteSet(DOMAIN e) /\ DOMAIN e = Names /\ DOMAIN scope = Names
  BY <1>1, ProgramsAssumption
<1>4. Count(e, p) = 0
  BY <1>2, <1>3, CountZero
<1>5. Count(scope, p) + One(Nil, p) = Count(e, p) + One(o, p)
  BY <1>1, <1>3, CountExcept
<1>6. Count(scope, p) \in Nat
  BY <1>3, ProgramsAssumption, CountZero
<1>7. Count(scope, p) = One(o, p)
  BY <1>4, <1>5, <1>6 DEF One
<1>8. Count(AllNames(<<scope>>), p) = Count(AllNames(<<>>), p) + Count(scope, p)
  <2> DEFINE w == <<>>
             all == Append(w, scope)
  <2>1. w \in Seq([Names -> S]) /\ all = <<scope>>
    BY EmptySeq
  <2> HIDE DEF w
  <2>2. Count(AllNames(all), p) = Count(AllNames(w), p) + Count(scope, p)
    BY <1>1, <2>1, AllNamesAppend
  <2> HIDE DEF all
  <2>3. Count(AllNames(<<scope>>), p) = Count(AllNames(w), p) + Count(scope, p)
    BY <2>1, <2>2
  <2>4. QED
    BY <2>3 DEF w
<1>9. Count(AllNames(<<scope>>), p) = One(o, p)
  BY <1>6, <1>7, <1>8, AllNamesEmpty
<1>10. QED
  BY <1>1, <1>9 DEF scope

LEMMA StartGlobalScopeRefs ==
  ASSUME JInv, StartGlobalScope
  PROVE  RefsExact' /\ Activations'
<1> DEFINE r == Object("print", 1, 0)
           n == Len(heap) + 1
           h == Append(heap, r)
           scope == [EmptyScope EXCEPT ![PrintName] = n]
           scopes == <<scope>>
           now == meta.false_obj..Len(h)
           H == WithScopes(Top.stack, Top.scopes, heap)
           G == WithScopes(Top.stack, scopes, h)
<1>1. /\ status = "running" /\ Top.stack \in Seq(ThisLine) /\ IInv
      /\ Top.scopes = <<>>
  BY ExecutingFacts DEF StartGlobalScope, JInv
<1>2. /\ r \in ObjectRecord /\ LineObject(r)
      /\ r.live /\ r.lost = 0 /\ r.refs = 1
  BY ObjectType DEF Kinds, LineObject, Object
<1>15. r.kind # "function"
  BY DEF Object
<1> HIDE DEF r
<1>3. LineHeap(h) /\ Len(h) = n
  BY <1>1, <1>2, <1>15, LineHeapNow, LineHeapAppend
<1>4. /\ Exact(heap, H) /\ heap \in Seq(ObjectRecord) /\ DOMAIN heap = 1..Len(heap)
      /\ Len(heap) \in Nat
  BY <1>1, ScopesNow
<1>5. n \in now /\ n \in Nat /\ n # 0
  <2>1. meta.false_obj \in ThisLine /\ meta.false_obj \in Nat
    BY <1>1 DEF IInv, TypeOK, LinesIsolated, Running
  <2>2. QED
    BY <1>3, <1>4, <2>1 DEF ThisLine
<1>6. DOMAIN h = 1..n
  <2>1. h \in Seq(ObjectRecord)
    BY <1>3 DEF LineHeap
  <2>2. QED
    BY <1>3, <2>1, LenProperties
<1> HIDE DEF now
<1>7. \A p : p # Nil => Count(AllNames(scopes), p) = One(n, p)
  <2> DEFINE S == now \cup {Nil}
  <2>1. n \in S /\ Nil \in S
    BY <1>5
  <2> HIDE DEF n, S
  <2>2. QED
    BY <2>1, GlobalScopeCount
<1>8. scope \in [Names -> now \cup {Nil}]
  BY <1>5, ProgramsAssumption DEF EmptyScope
<1>9. Step([Top EXCEPT !.scopes = scopes, !.stack = Top.stack], h)
  <2>1. [Top EXCEPT !.scopes = scopes, !.stack = Top.stack]
          = [Top EXCEPT !.scopes = scopes]
    BY <1>1, TopFacts DEF FrameRecord
  <2>2. QED
    BY <2>1 DEF StartGlobalScope, r
<1> HIDE DEF scope
<1>10. scopes \in Seq([Names -> now \cup {Nil}])
  BY <1>8
<1> HIDE DEF scopes
<1>11. ASSUME NEW p \in DOMAIN heap PROVE G[p] = H[p]
  <2>1. p \in DOMAIN h /\ p # Nil /\ n # p
    BY <1>4, <1>6 DEF Nil
  <2>2. Count(AllNames(scopes), p) = 0
    BY <1>7, <2>1 DEF One
  <2>3. Count(AllNames(Top.scopes), p) = 0
    BY <1>1, AllNamesEmpty
  <2> HIDE DEF h
  <2>4. QED
    BY <2>1, <2>2, <2>3 DEF WithScopes
<1>12. G[n] = 1
  <2>1. n \notin 0..Len(heap) /\ n \in DOMAIN h /\ n # Nil
    BY <1>4, <1>6 DEF Nil
  <2> HIDE DEF n, h
  <2>2. /\ Rest(n) = 0 /\ Count(Top.stack, n) = 0 /\ Others(n) = 0
        /\ Count(AllNames(Top.scopes), n) = 0
    BY <1>1, <2>1, FreshHolders
  <2>3. Count(Top.held, n) = 0
    <3>1. Count(Top.held, n) \in Nat
      BY <1>1, StackHolders
    <3>2. QED
      BY <2>2, <3>1 DEF Others
  <2>4. Count(AllNames(scopes), n) = 1
    BY <1>7, <2>1 DEF One
  <2>5. QED
    BY <2>1, <2>2, <2>3, <2>4 DEF WithScopes
<1> HIDE DEF H, G
<1>13. Exact(h, G)
  <2>1. G[Len(heap) + 1] = r.refs /\ r.refs > 0
    BY <1>2, <1>12
  <2> HIDE DEF n, h
  <2>2. Exact(Append(heap, r), G)
    BY <1>2, <1>4, <1>11, <2>1, ExactAppend
  <2>3. QED
    BY <2>2 DEF h
<1> HIDE DEF h, n
<1>14. QED
  BY <1>1, <1>3, <1>9, <1>10, <1>13, ScopesStep DEF G, now

\* The object r with its first reference.
HeldOnce(r) == [r EXCEPT !.refs = 1]

\* What define_function makes of the objects: the name gives back what it was
\* bound to, and the new function is held once.
LEMMA DefineReleases ==
  ASSUME NEW h \in Seq(ObjectRecord), NEW r \in ObjectRecord, r.refs = 0,
         NEW s, NEW name, s[name] # Len(h) + 1, s[name] \in Nat
  PROVE  SetNameHeap(Append(h, r), s, name, Len(h) + 1)
           = Append(Release(h, <<s[name]>>), HeldOnce(r))
<1> DEFINE n == Len(h) + 1
           old == s[name]
           one == HeldOnce(r)
           a == Append(h, r)
           b == Release(a, <<old>>)
           g == IF old = Nil THEN a ELSE b
           x == Incref(g, n)
           rel == Release(h, <<old>>)
           y == Append(rel, one)
<1>1. Len(h) \in Nat /\ DOMAIN h = 1..Len(h)
  BY LenProperties
<1>2. /\ a \in Seq(ObjectRecord) /\ Len(a) = n /\ a[n] = r
      /\ \A p \in 1..Len(h) : a[p] = h[p]
  BY AppendProperties
<1>3. DOMAIN a = 1..n /\ n \in Nat /\ n \in DOMAIN a
      /\ \A p \in DOMAIN a : p = n \/ p \in DOMAIN h
  BY <1>1, <1>2, LenProperties
<1>4. IsFiniteSet(DOMAIN <<old>>)
  BY SingleFinite
<1>5. rel \in Seq(ObjectRecord) /\ Len(rel) = Len(h)
  BY <1>4, CountsRewritten DEF Recounted
<1>6. one \in ObjectRecord
  BY DEF ObjectRecord, HeldOnce
<1> HIDE DEF one
<1>7. /\ y \in Seq(ObjectRecord) /\ Len(y) = n /\ y[n] = one
      /\ \A p \in 1..Len(h) : y[p] = rel[p]
  <2> HIDE DEF rel
  <2>1. QED
    BY <1>5, <1>6, AppendProperties
<1>8. SetNameHeap(a, s, name, n) = x
  BY DEF SetNameHeap
<1>9. DOMAIN b = DOMAIN a
  BY DEF Release
<1> HIDE DEF a
<1>10. \A p \in DOMAIN a : b[p] = IF p # old THEN a[p] ELSE Released(a[p])
  BY <1>2, ReleaseOne
<1>11. \A p \in DOMAIN h : rel[p] = IF p # old THEN h[p] ELSE Released(h[p])
  BY ReleaseOne
<1>12. old # n /\ (old = Nil => old \notin DOMAIN h) /\ n \notin DOMAIN h
  BY <1>1 DEF Nil
<1> HIDE DEF b, rel, n, old
<1>13. /\ DOMAIN g = DOMAIN a /\ g[n] = r
       /\ \A p \in DOMAIN h : p \in DOMAIN a => g[p] = rel[p]
  <2>1. DOMAIN g = DOMAIN a
    BY <1>9
  <2>2. g[n] = r
    BY <1>2, <1>3, <1>10, <1>12
  <2>3. ASSUME NEW p \in DOMAIN h, p \in DOMAIN a PROVE g[p] = rel[p]
    <3>1. a[p] = h[p]
      BY <1>1, <1>2
    <3>2. CASE old = Nil
      BY <1>11, <1>12, <3>1, <3>2
    <3>3. CASE old # Nil
      BY <1>10, <1>11, <2>3, <3>1, <3>3
    <3>4. QED
      BY <3>2, <3>3
  <2>4. QED
    BY <2>1, <2>2, <2>3
<1> HIDE DEF g
<1>14. ASSUME NEW p \in DOMAIN a PROVE x[p] = y[p]
  <2>1. CASE p = n
    <3>1. x[p] = [r EXCEPT !.refs = r.refs + 1]
      BY <1>13, <2>1 DEF Incref
    <3>2. QED
      BY <1>7, <2>1, <3>1 DEF one, HeldOnce
  <2>2. CASE p # n
    <3>1. p \in DOMAIN h
      BY <1>3, <2>2
    <3>2. x[p] = g[p]
      BY <1>13, <2>2 DEF Incref
    <3>3. y[p] = rel[p]
      BY <1>1, <1>7, <3>1
    <3>4. QED
      BY <1>13, <3>1, <3>2, <3>3
  <2>3. QED
    BY <2>1, <2>2
<1>15. x = [p \in DOMAIN a |-> x[p]]
  BY <1>13 DEF Incref
<1>16. y = [p \in DOMAIN a |-> y[p]]
  <2>1. DOMAIN y = DOMAIN a
    <3> HIDE DEF y
    <3>1. QED
      BY <1>3, <1>7, LenProperties
  <2> HIDE DEF y
  <2>2. y = [p \in DOMAIN y |-> y[p]]
    BY <1>7
  <2>3. QED
    BY <2>1, <2>2
<1> HIDE DEF x, y
<1>17. x = y
  BY <1>14, <1>15, <1>16
<1>18. QED
  BY <1>8, <1>17 DEF a, n, y, rel, old, one

LEMMA DefineFunctionRefs ==
  ASSUME JInv, DefineFunction
  PROVE  RefsExact' /\ Activations'
<1> DEFINE n == Len(heap) + 1
           w == Top.scopes
           name == Instr.name
           old == w[Len(w)][name]
           r == FunctionObject(Top.block, Instr)
           one == HeldOnce(r)
           rel == Release(heap, <<old>>)
           h == Append(rel, one)
           scopes == [w EXCEPT ![Len(w)][name] = n]
           now == meta.false_obj..n
           T == now \cup {Nil}
           H == WithScopes(Top.stack, w, heap)
           G == WithScopes(Top.stack, scopes, h)
           M == WithScopes(Top.stack, scopes, heap)
<1>1. /\ status = "running" /\ ~AtEnd /\ IInv
      /\ Instr.op = "DEFINE_FUNCTION"
      /\ Instr \in Instruction(DOMAIN program)
      /\ Top.stack \in Seq(ThisLine)
  BY ExecutingFacts DEF DefineFunction, JInv
<1>2. /\ Instr.name \in Names /\ Instr.signature \in Seq(Names)
      /\ Instr.body \in DOMAIN program
  BY <1>1, InstructionTypes
<1>3. Top \in FrameRecord(ThisLine, DOMAIN program)
  BY <1>1, TopFacts
<1>4. DOMAIN program \subseteq Nat
  <2>1. program \in Seq(Seq(Instruction(DOMAIN program)))
    BY <1>1 DEF IInv, Running, WellFormed
  <2>2. DOMAIN program = 1..Len(program) /\ Len(program) \in Nat
    BY <2>1, LenProperties
  <2>3. QED
    BY <2>2
<1>5. /\ r \in ObjectRecord /\ r.gen = typeGen /\ r.refs = 0 /\ r.lost = 0 /\ r.live
      /\ r.home = Top.block /\ r.body = Instr.body
  <2> DEFINE z == Object("function", 0, typeGen)
  <2>1. z \in ObjectRecord /\ z.gen = typeGen /\ z.refs = 0 /\ z.lost = 0 /\ z.live
    <3>1. "function" \in Kinds /\ typeGen \in Nat
      BY <1>1 DEF Kinds, IInv, TypeOK
    <3>2. QED
      BY <3>1, ObjectType DEF Object
  <2>2. Top.block \in Nat /\ Instr.body \in Nat
    BY <1>2, <1>3, <1>4 DEF FrameRecord
  <2>3. r = [z EXCEPT !.home = Top.block, !.body = Instr.body,
                      !.signature = Instr.signature]
    BY DEF FunctionObject
  <2> HIDE DEF z, r
  <2>4. QED
    BY <1>2, <2>1, <2>2, <2>3 DEF ObjectRecord
<1>6. Defines(Top.block, Instr.body)
  <2>1. Top.pc \in DOMAIN program[Top.block]
    BY <1>1, <1>3, TopFacts, LenProperties DEF Code, AtEnd, FrameRecord
  <2>2. QED
    BY <1>1, <1>2, <1>3, <2>1 DEF Defines, Instr, Code, FrameRecord
<1> HIDE DEF r
<1>7. /\ one \in ObjectRecord /\ one.live /\ one.lost = 0 /\ one.refs = 1
      /\ LineObject(one)
  BY <1>5, <1>6 DEF ObjectRecord, LineObject, HeldOnce
<1>8. /\ Exact(heap, H) /\ heap \in Seq(ObjectRecord) /\ DOMAIN heap = 1..Len(heap)
      /\ Len(heap) \in Nat
  BY <1>1, ScopesNow
<1>9. /\ meta.false_obj \in ThisLine /\ meta.false_obj \in Nat \ {0}
      /\ ThisLine \subseteq now /\ n \in now /\ n \in Nat
      /\ n \notin ThisLine /\ n # Nil
  <2>1. meta.false_obj \in ThisLine /\ meta.false_obj \in Nat \ {0}
    BY <1>1 DEF IInv, TypeOK, LinesIsolated, Running
  <2>2. QED
    BY <1>8, <2>1 DEF ThisLine, Nil
<1>10. w \in Seq([Names -> ThisLine \cup {Nil}]) /\ w # <<>>
  BY <1>3 DEF FrameRecord, DefineFunction
<1>11. old \in ThisLine \cup {Nil} /\ old \in Nat /\ old # n
  <2>1. w[Len(w)] \in [Names -> ThisLine \cup {Nil}]
    <3>1. Len(w) \in 1..Len(w)
      BY <1>10, EmptySeq, LenProperties
    <3> HIDE DEF w
    <3>2. QED
      BY <1>10, <3>1, ElementOfSeq
  <2>2. old \in ThisLine \cup {Nil}
    BY <1>2, <2>1
  <2> HIDE DEF old, n
  <2>3. QED
    BY <1>9, <2>2 DEF ThisLine, Nil
<1>12. SetNameHeap(Append(heap, r), w[Len(w)], name, n) = h
  <2> DEFINE s == w[Len(w)]
             e == name
  <2>1. s[e] # Len(heap) + 1 /\ s[e] \in Nat
    BY <1>11
  <2> HIDE DEF s, e, one
  <2>2. SetNameHeap(Append(heap, r), s, e, Len(heap) + 1)
          = Append(Release(heap, <<s[e]>>), HeldOnce(r))
    BY <1>5, <1>8, <2>1, DefineReleases
  <2>3. QED
    BY <2>2 DEF s, e, one
<1>13. IsFiniteSet(DOMAIN <<old>>)
  BY SingleFinite
<1>14. LineHeap(rel) /\ Len(rel) = Len(heap)
  BY <1>1, <1>13, LineHeapNow, LineHeapCounts
<1>15. rel \in Seq(ObjectRecord) /\ DOMAIN rel = DOMAIN heap
  BY <1>14 DEF LineHeap, Release
<1>16. Step([Top EXCEPT !.scopes = scopes, !.stack = Top.stack], h)
  <2>1. [Top EXCEPT !.scopes = scopes, !.stack = Top.stack]
          = [Top EXCEPT !.scopes[Len(Top.scopes)][Instr.name] = n]
    BY <1>3 DEF FrameRecord
  <2>2. Step([Top EXCEPT !.scopes[Len(Top.scopes)][Instr.name] = n],
             SetNameHeap(Append(heap, r), w[Len(w)], name, n))
    BY DEF DefineFunction, r
  <2> HIDE DEF h, scopes
  <2>3. QED
    BY <1>12, <2>1, <2>2
<1> HIDE DEF rel, one
<1>17. LineHeap(h) /\ Len(h) = n
  <2>1. Top.scopes # <<>>
    BY DEF DefineFunction
  <2> QED
    BY <1>1, <1>7, <1>14, <2>1, LineHeapAppend
<1>18. DOMAIN h = 1..n
  <2>1. h \in Seq(ObjectRecord)
    BY <1>17 DEF LineHeap
  <2>2. QED
    BY <1>17, <2>1, LenProperties
<1> HIDE DEF now
<1>19. w \in Seq([Names -> T])
  <2>1. [Names -> ThisLine \cup {Nil}] \subseteq [Names -> T]
    BY <1>9
  <2> HIDE DEF w, T
  <2>2. QED
    BY <1>10, <2>1, SeqMonotonic
<1>20. n \in T
  BY <1>9
<1> HIDE DEF T
<1>21. scopes \in Seq([Names -> T])
  <2> HIDE DEF w, n
  <2>1. QED
    BY <1>2, <1>10, <1>19, <1>20, BindType
<1>22. Rebound(w, name, n, scopes)
  <2> HIDE DEF n
  <2>1. QED
    BY <1>2, <1>10, BindPoints
<1>23. w \in Seq(ScopeOver(T)) /\ Len(w) >= 1
  BY <1>10, <1>19, EmptySeq, LenProperties DEF ScopeOver
<1> HIDE DEF h, scopes, n, w, old, name
<1>24. \A p : Count(AllNames(scopes), p) + One(old, p)
                = Count(AllNames(w), p) + One(n, p)
  <2>1. TAKE p
  <2>2. Count(AllNames(scopes), p) + One(w[Len(w)][name], p)
          = Count(AllNames(w), p) + One(n, p)
    BY <1>2, <1>22, <1>23, AllNamesBind DEF name
  <2>3. QED
    BY <2>2 DEF old
<1>25. \A p : /\ Rest(p) \in Nat /\ Count(Top.held, p) \in Nat
              /\ Count(AllNames(w), p) \in Nat /\ Count(Top.stack, p) \in Nat
              /\ Count(AllNames(scopes), p) \in Nat
  BY <1>1, <1>21, StackHolders, AllNamesFinite DEF w
<1>26. ASSUME NEW p \in DOMAIN heap
       PROVE  /\ M[p] \in Nat /\ H[p] = M[p] + Count(<<old>>, p)
              /\ G[p] = M[p]
  <2> DEFINE q == Rest(p)
             c == Count(Top.held, p)
             a == Count(AllNames(w), p)
             b == Count(Top.stack, p)
             a2 == Count(AllNames(scopes), p)
             u == One(old, p)
  <2>1. q \in Nat /\ c \in Nat /\ a \in Nat /\ b \in Nat /\ a2 \in Nat
    BY <1>25
  <2>2. n # p /\ p \in DOMAIN h
    BY <1>8, <1>18 DEF n
  <2>3. a2 + u = a
    BY <1>24, <2>1, <2>2 DEF One
  <2>4. /\ H[p] = q + c + a + b /\ M[p] = q + c + a2 + b
        /\ G[p] = q + c + a2 + b
    BY <2>2 DEF WithScopes
  <2>5. Count(<<old>>, p) = u /\ u \in Nat
    BY CountOne DEF One
  <2> HIDE DEF q, c, a, b, a2, u, H, G, M
  <2>6. M[p] \in Nat /\ H[p] = M[p] + u /\ G[p] = M[p]
    BY <2>1, <2>3, <2>4, <2>5
  <2>7. QED
    BY <2>5, <2>6
<1>27. G[n] = 1
  <2>1. n \notin 0..Len(heap) /\ n \in DOMAIN h
    BY <1>8, <1>9, <1>18 DEF n
  <2>2. /\ Rest(n) = 0 /\ Count(Top.stack, n) = 0 /\ Others(n) = 0
        /\ Count(AllNames(w), n) = 0
    BY <1>1, <2>1, FreshHolders DEF w
  <2>3. Count(Top.held, n) = 0
    BY <1>25, <2>2 DEF Others, w
  <2>4. Count(AllNames(scopes), n) = 1
    <3>1. Count(AllNames(scopes), n) + One(old, n)
            = Count(AllNames(w), n) + One(n, n)
      BY <1>24
    <3>2. One(old, n) = 0 /\ One(n, n) = 1
      BY <1>11 DEF One
    <3>3. Count(AllNames(scopes), n) \in Nat
      BY <1>25
    <3>4. QED
      BY <2>2, <3>1, <3>2, <3>3
  <2>5. QED
    BY <2>1, <2>2, <2>3, <2>4 DEF WithScopes
<1> HIDE DEF H, G, M
<1>28. Exact(rel, M)
  BY <1>8, <1>13, <1>26, ExactRelease DEF rel
<1>29. Exact(h, G)
  <2>1. G[Len(rel) + 1] = one.refs /\ one.refs > 0
    BY <1>7, <1>14, <1>27 DEF n
  <2>2. \A p \in DOMAIN rel : G[p] = M[p]
    BY <1>15, <1>26
  <2>3. QED
    BY <1>7, <1>15, <1>28, <2>1, <2>2, ExactAppend DEF h
<1>30. scopes \in Seq([Names -> (meta.false_obj..Len(h)) \cup {Nil}])
  BY <1>17, <1>21 DEF T, now
<1>31. QED
  BY <1>1, <1>16, <1>17, <1>29, <1>30, ScopesStep DEF G

-----------------------------------------------------------------------------
(* Calls and returns.                                                       *)

\* What a call takes from the stack: the arguments and the callable.
Taken == Append(Arguments(Instr.argscount), Callable)

Left == Drop(Top.stack, Instr.argscount + 1)

LEMMA CallTaken ==
  ASSUME IInv, Executing({"CALLB"})
  PROVE  /\ Taken \in Seq(ThisLine) /\ Left \in Seq(ThisLine)
         /\ \A o : Count(Top.stack, o) = Count(Left, o) + Count(Taken, o)
         /\ \A o : Count(Left, o) \in Nat /\ Count(Taken, o) \in Nat
<1> DEFINE n == Instr.argscount
           s == Top.stack
           m == Len(s) - (n + 1)
           t == SubSeq(s, 1, m + 1)
           a == Arguments(n)
<1>1. /\ status = "running" /\ ~AtEnd /\ ~StackUnderflow
      /\ Instr.op = "CALLB" /\ Instr \in Instruction(DOMAIN program)
      /\ s \in Seq(ThisLine) /\ Len(s) \in Nat
  BY ExecutingFacts
<1>2. n \in Nat /\ Needed = n + 1
  BY <1>1, InstructionTypes, NeededValues
<1>3. /\ n + 1 <= Len(s) /\ m \in Nat /\ m + 1 \in 0..Len(s) /\ m + 1 \in Nat
      /\ Len(s) - n + 1 = (m + 1) + 1 /\ Len(s) + 1 - (n + 1) = m + 1
  BY <1>1, <1>2 DEF StackUnderflow
<1>4. /\ Taken \in Seq(ThisLine) /\ Left \in Seq(ThisLine)
      /\ a \in Seq(ThisLine) /\ Callable \in ThisLine
  BY CallFacts DEF Taken, Left
<1>5. Left = SubSeq(s, 1, m) /\ a = SubSeq(s, (m + 1) + 1, Len(s))
      /\ Callable = s[m + 1]
  BY <1>3 DEF Left, Drop, Arguments, Callable, Operand
<1> HIDE DEF s, m, n, a
<1>6. /\ t \in Seq(ThisLine) /\ Len(t) = m + 1
      /\ \A i \in 1..(m + 1) : t[i] = s[i]
      /\ \A o : Count(s, o) = Count(t, o) + Count(a, o)
  BY <1>1, <1>3, <1>5, CountSplit
<1>7. Drop(t, 1) = Left
  BY <1>3, <1>5, <1>6 DEF Drop
<1> HIDE DEF t
<1>8. \A o : Count(t, o) = Count(Left, o) + One(Callable, o)
  <2>1. TAKE o
  <2>2. Len(t) >= 1 /\ t[Len(t)] = Callable
    BY <1>3, <1>5, <1>6
  <2>3. Count(t, o) = Count(Drop(t, 1), o) + One(t[Len(t)], o)
    BY <1>6, <2>2, CountDrop
  <2>4. QED
    BY <1>7, <2>2, <2>3
<1>9. \A o : Count(Taken, o) = Count(a, o) + One(Callable, o)
  BY <1>4, CountAppend DEF Taken, a, n
<1>10. \A o : /\ Count(Left, o) \in Nat /\ Count(Taken, o) \in Nat
              /\ Count(a, o) \in Nat /\ One(Callable, o) \in Nat
  BY <1>4, CountNat DEF One
<1>11. \A o : Count(s, o) = Count(Left, o) + Count(Taken, o)
  <2>1. TAKE o
  <2> DEFINE x == One(Callable, o)
             y == Count(a, o)
             z == Count(Left, o)
  <2>2. Count(s, o) = Count(t, o) + y /\ Count(t, o) = z + x
        /\ Count(Taken, o) = y + x /\ x \in Nat /\ y \in Nat /\ z \in Nat
    BY <1>6, <1>8, <1>9, <1>10
  <2> HIDE DEF x, y, z
  <2>3. Count(s, o) = z + Count(Taken, o)
    BY <2>2
  <2>4. QED
    BY <2>3 DEF z
<1>12. QED
  BY <1>4, <1>10, <1>11 DEF s

LEMMA CallPrintRefs ==
  ASSUME JInv, CallPrint
  PROVE  RefsExact' /\ Activations'
<1> DEFINE none == meta.none_obj
           i == Incref(heap, none)
           h == Release(i, Taken)
           stack == Append(Left, none)
           H == WithStack(Top.stack, heap)
           M == [o \in DOMAIN heap |-> H[o] + One(none, o)]
           G == WithStack(stack, heap)
<1>1. Executing({"CALLB"}) /\ IInv
  BY DEF CallPrint, JInv
<1>2. status = "running"
  BY <1>1, ExecutingFacts
<1>3. /\ Taken \in Seq(ThisLine) /\ Left \in Seq(ThisLine)
      /\ \A o : Count(Top.stack, o) = Count(Left, o) + Count(Taken, o)
      /\ \A o : Count(Left, o) \in Nat /\ Count(Taken, o) \in Nat
  BY <1>1, CallTaken
<1>4. Step([Top EXCEPT !.stack = stack], h)
  BY DEF CallPrint, Taken, Left
<1>5. none \in ThisLine /\ none \in DOMAIN heap /\ Holders(none) > 0
  <2>1. "none_obj" \in DOMAIN meta
    BY <1>1, MetaFields DEF IInv
  <2>2. QED
    BY <1>2, <2>1, SingletonHeld
<1> HIDE DEF none
<1>6. LineHeap(i) /\ Len(i) = Len(heap)
  BY <1>1, <1>2, <1>5, LineHeapNow, LineHeapCount
<1>7. IsFiniteSet(DOMAIN Taken)
  BY <1>3, FiniteDomain
<1>8. i \in Seq(ObjectRecord) /\ DOMAIN i = DOMAIN heap /\ heap \in Seq(ObjectRecord)
  BY <1>1, <1>6 DEF LineHeap, Incref, IInv, TypeOK
<1> HIDE DEF i
<1>9. LineHeap(h) /\ Len(h) = Len(heap)
  BY <1>1, <1>2, <1>6, <1>7, LineHeapCounts
<1>10. stack \in Seq(ThisLine)
  BY <1>3, <1>5, AppendProperties
<1>11. Exact(heap, H)
  BY <1>2, StackNow
<1>12. \A p \in DOMAIN heap :
         /\ H[p] \in Nat /\ H[p] = Holders(p)
         /\ M[p] = H[p] + One(none, p)
         /\ G[p] \in Nat /\ M[p] = G[p] + Count(Taken, p)
  <2>1. TAKE p \in DOMAIN heap
  <2> DEFINE q == Others(p)
             a == Count(Top.stack, p)
             b == Count(Left, p)
             c == Count(Taken, p)
             d == Count(stack, p)
             u == One(none, p)
  <2>2. q \in Nat /\ a \in Nat /\ Holders(p) = q + a
    BY <1>1, <1>2, StackHolders
  <2>3. a = b + c /\ b \in Nat /\ c \in Nat
    BY <1>3
  <2>4. d = b + u
    BY <1>3, <1>5, CountAppend
  <2>5. u \in Nat
    BY DEF One
  <2>6. H[p] = q + a /\ G[p] = q + d /\ M[p] = H[p] + u
    BY DEF WithStack
  <2> HIDE DEF q, a, b, c, d, u, H, G, M
  <2>7. H[p] \in Nat /\ H[p] = Holders(p) /\ M[p] = H[p] + u
        /\ G[p] \in Nat /\ M[p] = G[p] + c
    BY <2>2, <2>3, <2>4, <2>5, <2>6
  <2>8. QED
    BY <2>7 DEF u, c
<1> HIDE DEF H, G, M, stack
<1>13. Exact(i, M)
  BY <1>5, <1>8, <1>11, <1>12, ExactIncref DEF i
<1>14. Exact(h, G)
  BY <1>7, <1>8, <1>12, <1>13, ExactRelease
<1>15. G = WithStack(stack, h)
  BY <1>8 DEF G, WithStack, Release
<1> HIDE DEF h
<1>16. stack \in Seq(meta.false_obj..Len(h))
  BY <1>9, <1>10 DEF ThisLine
<1>17. QED
  BY <1>2, <1>4, <1>9, <1>14, <1>15, <1>16, StackStep


\* The frames of a call: the caller with what it holds for the callee, and the
\* callee.
Caller == [Top EXCEPT !.stack = Left, !.held = Taken]

Callee ==
  Activation(heap[Callable].body,
             Bindings(heap[Callable].signature, Arguments(Instr.argscount)))

Below == [frames EXCEPT ![Len(frames)] = Caller]

LineFrame == FrameRecord(ThisLine, DOMAIN program)

LEMMA CallFrames ==
  ASSUME IInv, CallFunction
  PROVE  /\ Executing({"CALLB"}) /\ status = "running"
         /\ frames' = Append(Below, Callee)
         /\ UNCHANGED <<heap, program, meta, status>>
         /\ frames \in Seq(LineFrame) /\ Len(frames) \in Nat \ {0}
         /\ Caller \in LineFrame /\ Caller.stack = Left /\ Caller.held = Taken
         /\ Caller.block = Top.block /\ Caller.args = Top.args
         /\ Caller.scopes = Top.scopes
         /\ Callee \in LineFrame /\ Callee.stack = <<>> /\ Callee.held = <<>>
         /\ Callee.block = heap[Callable].body /\ Callee.scopes = <<>>
         /\ Below \in Seq(LineFrame) /\ Len(Below) = Len(frames)
         /\ Below[Len(frames)] = Caller
         /\ \A j \in 1..Len(frames) : j # Len(frames) => Below[j] = frames[j]
<1> DEFINE n == Instr.argscount
           body == heap[Callable].body
           args == Bindings(heap[Callable].signature, Arguments(n))
<1>1. Executing({"CALLB"})
  BY DEF CallFunction
<1>2. status = "running"
  BY <1>1, ExecutingFacts
<1>3. /\ frames \in Seq(LineFrame) /\ Len(frames) \in Nat \ {0}
      /\ Top \in LineFrame
  BY <1>2, TopFacts DEF IInv, LinesIsolated, LineFrame
<1>4. /\ Left \in Seq(ThisLine) /\ Taken \in Seq(ThisLine)
      /\ Arguments(n) \in Seq(ThisLine) /\ Callable \in ThisLine
  BY <1>1, CallFacts DEF Left, Taken
<1>5. frames' = Append(Below, Callee)
        /\ UNCHANGED <<heap, program, meta, status>>
  <2>1. Caller = [Top EXCEPT !.stack = Drop(@, n + 1),
                             !.held = Append(Arguments(n), Callable)]
    BY <1>3 DEF LineFrame, FrameRecord, Caller, Left, Taken
  <2>2. QED
    BY <2>1 DEF CallFunction, Below, Callee
<1>6. /\ Caller \in LineFrame /\ Caller.stack = Left /\ Caller.held = Taken
      /\ Caller.block = Top.block /\ Caller.args = Top.args
      /\ Caller.scopes = Top.scopes
  BY <1>3, <1>4 DEF Caller, LineFrame, FrameRecord
<1>7. /\ Callee \in LineFrame /\ Callee.stack = <<>> /\ Callee.held = <<>>
      /\ Callee.block = body /\ Callee.scopes = <<>>
  <2>1. args \in [Names -> ThisLine \cup {Nil}]
    BY <1>4, BindingsType
  <2>2. body \in DOMAIN program
    BY <1>2, <1>4 DEF CallFunction, KindOf, IInv, LinesIsolated
  <2>3. Callee = Activation(body, args)
    BY DEF Callee
  <2> HIDE DEF args, body
  <2>4. QED
    BY <2>1, <2>2, <2>3, EmptySeq DEF Activation, FrameRecord, LineFrame
<1> HIDE DEF n, body, args
<1>8. /\ Below \in Seq(LineFrame) /\ Len(Below) = Len(frames)
      /\ Below[Len(frames)] = Caller
      /\ \A j \in 1..Len(frames) : j # Len(frames) => Below[j] = frames[j]
  BY <1>3, <1>6, ExceptSeq DEF Below
<1>9. QED
  BY <1>1, <1>2, <1>3, <1>5, <1>6, <1>7, <1>8 DEF body

\* A call moves references from the stack to the list of the caller.
LEMMA CallHolders ==
  ASSUME JInv, CallFunction, NEW o
  PROVE  Holders(o)' = Holders(o)
<1> DEFINE k == Len(frames)
<1>1. IInv /\ status = "running" /\ IsFiniteSet(DOMAIN meta)
  BY CallFrames, MetaFields DEF JInv, IInv
<1>2. /\ frames \in Seq(LineFrame) /\ k \in 1..Len(frames)
      /\ Caller \in LineFrame /\ Callee \in LineFrame /\ Below \in Seq(LineFrame)
      /\ frames' = Append(Below, Callee) /\ UNCHANGED meta
      /\ Top = frames[k] /\ frames # <<>>
  BY <1>1, CallFrames DEF Top, IInv, Running
<1>3. FrameCount(Callee, o) = 0
  BY <1>1, CallFrames, CountEmpty, AllNamesEmpty DEF FrameCount
<1>4. FrameCount(Caller, o) = FrameCount(Top, o) /\ FrameCount(Top, o) \in Nat
  <2> DEFINE a == Count(Left, o)
             b == Count(Taken, o)
             c == Count(AllNames(Top.scopes), o)
             s == Count(Top.stack, o)
  <2>1. s = a + b /\ a \in Nat /\ b \in Nat
    BY <1>1, CallFrames, CallTaken
  <2>2. Count(Top.held, o) = 0
    <3>1. Top.held = <<>>
      BY <1>2 DEF JInv, Activations, TopHoldsNothing
    <3>2. QED
      BY <3>1, CountEmpty
  <2>3. Top \in LineFrame
    BY <1>1, TopFacts DEF LineFrame
  <2>4. c \in Nat
    BY <2>3, FrameFinite DEF LineFrame
  <2>5. FrameCount(Caller, o) = a + b + c
    BY <1>1, CallFrames DEF FrameCount
  <2>6. FrameCount(Top, o) = s + 0 + c
    BY <2>2 DEF FrameCount
  <2> HIDE DEF a, b, c, s
  <2>7. QED
    BY <2>1, <2>4, <2>5, <2>6
<1> DEFINE x == HoldersIn(Below, o)
           y == HoldersIn(frames, o)
           z == HoldersIn(Append(Below, Callee), o)
<1>5. x \in Nat /\ y \in Nat
  BY <1>1, <1>2, HoldersNat DEF LineFrame
<1>6. x + FrameCount(Top, o) = y + FrameCount(Caller, o)
  <2> HIDE DEF k
  <2>1. HoldersIn([frames EXCEPT ![k] = Caller], o) + FrameCount(frames[k], o)
          = HoldersIn(frames, o) + FrameCount(Caller, o)
    BY <1>1, <1>2, HoldersReplace DEF LineFrame
  <2>2. QED
    BY <1>2, <2>1 DEF Below, k
<1>7. z = x + FrameCount(Callee, o)
  BY <1>1, <1>2, HoldersAppend DEF LineFrame
<1>8. Holders(o)' = z
  <2> DEFINE fs == Append(Below, Callee)
  <2>1. frames' = fs
    BY <1>2
  <2> HIDE DEF fs
  <2>2. Holders(o)' = HoldersIn(fs, o)
    BY <1>2, <2>1, HoldersThen
  <2>3. QED
    BY <2>2 DEF fs
<1> HIDE DEF x, y, z
<1>9. z = y
  BY <1>3, <1>4, <1>5, <1>6, <1>7
<1>10. QED
  BY <1>8, <1>9 DEF y, Holders

\* A name is bound to an argument or to nothing.
LEMMA BindingsOrigin ==
  ASSUME NEW signature, NEW arguments, NEW n \in Names,
         Bindings(signature, arguments)[n] # Nil
  PROVE  \E i \in DOMAIN arguments :
           arguments[i] = Bindings(signature, arguments)[n]
<1> DEFINE Latest(i) ==
             /\ signature[i] = n
             /\ \A j \in DOMAIN arguments : j > i => signature[j] # n
           c == CHOOSE i \in DOMAIN arguments : Latest(i)
<1>1. Bindings(signature, arguments)[n]
        = IF \E i \in DOMAIN arguments : Latest(i) THEN arguments[c] ELSE Nil
  BY DEF Bindings
<1> HIDE DEF Latest
<1>2. \E i \in DOMAIN arguments : Latest(i)
  BY <1>1
<1>3. c \in DOMAIN arguments
  BY <1>2
<1> HIDE DEF c
<1>4. QED
  BY <1>1, <1>2, <1>3

\* A function is called by the code that defines it and its arguments are in
\* the list of its caller.
LEMMA CallActivations ==
  ASSUME JInv, CallFunction
  PROVE  Activations'
<1> DEFINE k == Len(frames)
           fs == Append(Below, Callee)
<1>1. IInv /\ Executing({"CALLB"}) /\ status = "running" /\ k \in Nat \ {0}
      /\ Below \in Seq(LineFrame) /\ Len(Below) = k /\ Callee \in LineFrame
      /\ Top = frames[k]
  BY CallFrames DEF JInv, Top
<1>2. /\ fs \in Seq(LineFrame) /\ Len(fs) = k + 1
      /\ \A j \in 1..k : fs[j] = Below[j]
      /\ fs[k + 1] = Callee
  BY <1>1, AppendProperties
<1>3. /\ frames' = fs /\ status' = "running" /\ program' = program
  BY <1>1, CallFrames DEF JInv
<1>4. DOMAIN frames = 1..k /\ DOMAIN fs = 1..(k + 1)
  BY <1>1, <1>2, CallFrames, LenProperties
<1> HIDE DEF fs
<1>5. /\ \A j \in 1..k : /\ fs[j].block = frames[j].block
                         /\ fs[j].args = frames[j].args
      /\ \A j \in 1..k : j # k => fs[j].held = frames[j].held
      /\ fs[k].held = Taken
  <2>1. \A j \in 1..k : j # k => fs[j] = frames[j]
    BY <1>1, <1>2, CallFrames
  <2>2. fs[k] = Caller
    BY <1>1, <1>2, CallFrames
  <2>3. /\ Caller.block = Top.block /\ Caller.args = Top.args
        /\ Caller.held = Taken
    BY <1>1, CallFrames
  <2>4. QED
    BY <1>1, <2>1, <2>2, <2>3
<1>6. \A j \in 1..(k + 1) : j \in 1..k \/ j = k + 1
  BY <1>1
<1>7. \A j \in 1..k : j > 1 => j - 1 \in 1..k /\ j - 1 # k
  BY <1>1
<1>8. Callee.held = <<>> /\ Callee.block = heap[Callable].body
  BY <1>1, CallFrames
<1>9. PromptEmpty' /\ TopHoldsNothing'
  BY <1>2, <1>3, <1>8 DEF PromptEmpty, TopHoldsNothing, Top
<1>10. ASSUME NEW j \in 1..(k + 1), NEW n \in Names, fs[j].args[n] # Nil
       PROVE  /\ j > 1
              /\ \E i \in DOMAIN fs[j - 1].held :
                   fs[j - 1].held[i] = fs[j].args[n]
  <2>1. CASE j \in 1..k
    <3>1. /\ j > 1
          /\ \E i \in DOMAIN frames[j - 1].held :
               frames[j - 1].held[i] = frames[j].args[n]
      BY <1>4, <1>5, <1>10, <2>1 DEF JInv, Activations, ArgumentsHeld
    <3>2. fs[j - 1].held = frames[j - 1].held
      BY <1>5, <1>7, <2>1, <3>1
    <3>3. QED
      BY <1>5, <2>1, <3>1, <3>2
  <2>2. CASE j = k + 1
    <3> DEFINE arguments == Arguments(Instr.argscount)
               bound == Bindings(heap[Callable].signature, arguments)
    <3>1. fs[j].args = bound
      BY <1>2, <2>2 DEF Callee, Activation
    <3>2. PICK i \in DOMAIN arguments : arguments[i] = bound[n]
      BY <1>10, <3>1, BindingsOrigin
    <3>3. arguments \in Seq(ThisLine) /\ Callable \in ThisLine
      BY <1>1, CallFacts
    <3>4. Taken = Append(arguments, Callable)
      BY DEF Taken
    <3> HIDE DEF arguments, bound
    <3>5. i \in DOMAIN Taken /\ Taken[i] = arguments[i]
      <4>1. /\ Taken \in Seq(ThisLine) /\ Len(Taken) = Len(arguments) + 1
            /\ \A x \in 1..Len(arguments) : Taken[x] = arguments[x]
        BY <3>3, <3>4, AppendProperties
      <4>2. DOMAIN Taken = 1..Len(Taken) /\ DOMAIN arguments = 1..Len(arguments)
            /\ Len(arguments) \in Nat
        BY <3>3, <4>1, LenProperties
      <4>3. QED
        BY <4>1, <4>2
    <3>6. j - 1 = k /\ j > 1
      BY <1>1, <2>2
    <3>7. fs[j - 1].held = Taken
      BY <1>5, <3>6
    <3>8. QED
      BY <3>1, <3>2, <3>5, <3>6, <3>7
  <2>3. QED
    BY <1>6, <2>1, <2>2
<1>11. ArgumentsHeld'
  BY <1>3, <1>4, <1>10 DEF ArgumentsHeld
<1>12. Defines(Top.block, Callee.block) /\ Callee.block > Top.block
  <2>1. /\ Instr.op = "CALLB" /\ ~StackUnderflow /\ ~SignatureOverrun
        /\ ~StrayCode /\ At({"CALLB"})
    BY <1>1, ExecutingFacts DEF Executing, Defined
  <2>2. KindOf(Callable) = "function"
    BY DEF CallFunction
  <2>3. heap[Callable].home = Top.block
    BY <2>1, <2>2 DEF StrayCode
  <2>4. Callable \in ThisLine
    BY <1>1, CallFacts
  <2>5. Defines(heap[Callable].home, heap[Callable].body)
    BY <1>1, <2>2, <2>4 DEF IInv, LineObjects, LineObject, KindOf
  <2>6. WellFormed(program)
    BY <1>1 DEF IInv, Running
  <2>7. QED
    BY <1>8, <2>3, <2>5, <2>6 DEF Defines, WellFormed
<1>13. FramesNest'
  <2>1. ASSUME NEW j \in 1..(k + 1), j > 1
        PROVE  \E i \in DOMAIN program[fs[j - 1].block] :
                 /\ program[fs[j - 1].block][i].op = "DEFINE_FUNCTION"
                 /\ program[fs[j - 1].block][i].body = fs[j].block
    <3>1. CASE j \in 1..k
      <4>1. fs[j - 1].block = frames[j - 1].block /\ fs[j].block = frames[j].block
        BY <1>5, <1>7, <2>1, <3>1
      <4>2. QED
        BY <1>4, <2>1, <3>1, <4>1 DEF JInv, Activations, FramesNest
    <3>2. CASE j = k + 1
      <4>1. j - 1 = k /\ k \in 1..k
        BY <1>1, <3>2
      <4>2. fs[j - 1].block = Top.block /\ fs[j].block = Callee.block
        BY <1>1, <1>2, <1>5, <3>2, <4>1
      <4>3. QED
        BY <1>12, <4>2 DEF Defines
    <3>3. QED
      BY <1>6, <3>1, <3>2
  <2>2. QED
    BY <1>3, <1>4, <2>1 DEF FramesNest
<1>14. Descending'
  <2>1. /\ \A i \in 1..k : frames[i].block >= i
        /\ \A i \in 1..k, j \in 1..k :
             j < i => frames[j].block < frames[i].block
    BY <1>4 DEF JInv, Activations, Descending
  <2>2. \A i \in 1..k : frames[i].block \in Nat
    <3>1. WellFormed(program)
      BY <1>1 DEF IInv, Running
    <3>2. DOMAIN program = 1..Len(program)
      BY <3>1, LenProperties DEF WellFormed
    <3>3. \A i \in 1..k : frames[i] \in LineFrame
      BY <1>1, CallFrames, ElementOfSeq
    <3>4. QED
      BY <3>2, <3>3 DEF LineFrame, FrameRecord
  <2>3. Callee.block > frames[k].block /\ Callee.block \in Nat
    <3>1. WellFormed(program)
      BY <1>1 DEF IInv, Running
    <3>2. DOMAIN program = 1..Len(program)
      BY <3>1, LenProperties DEF WellFormed
    <3>3. QED
      BY <1>1, <1>12, <3>2 DEF LineFrame, FrameRecord
  <2>4. ASSUME NEW i \in 1..(k + 1)
        PROVE  /\ fs[i].block >= i
               /\ \A j \in 1..(k + 1) : j < i => fs[j].block < fs[i].block
    <3>1. CASE i \in 1..k
      <4>1. \A j \in 1..(k + 1) : j < i => j \in 1..k
        BY <1>1, <3>1
      <4>2. QED
        BY <1>5, <2>1, <3>1, <4>1
    <3>2. CASE i = k + 1
      <4>1. fs[i].block = Callee.block /\ k \in 1..k
        BY <1>1, <1>2, <3>2
      <4>2. Callee.block >= k + 1
        <5>1. frames[k].block >= k /\ frames[k].block \in Nat
          BY <2>1, <2>2, <4>1
        <5>2. QED
          BY <1>1, <2>3, <5>1
      <4>3. ASSUME NEW j \in 1..(k + 1), j < i
            PROVE  fs[j].block < fs[i].block
        <5>1. j \in 1..k
          BY <1>1, <3>2, <4>3
        <5>2. frames[j].block <= frames[k].block
          <6>1. j = k \/ j < k
            BY <1>1, <5>1
          <6>2. QED
            BY <2>1, <2>2, <4>1, <5>1, <6>1
        <5>3. QED
          BY <1>5, <2>2, <2>3, <4>1, <5>1, <5>2
      <4>4. QED
        BY <3>2, <4>1, <4>2, <4>3
    <3>3. QED
      BY <1>6, <3>1, <3>2
  <2>5. QED
    BY <1>3, <1>4, <2>4 DEF Descending
<1>15. QED
  BY <1>9, <1>11, <1>13, <1>14 DEF Activations

LEMMA CallFunctionRefs ==
  ASSUME JInv, CallFunction
  PROVE  RefsExact' /\ Activations'
<1>1. heap' = heap
  BY DEF CallFunction
<1>2. \A o : Holders(o)' = Holders(o)
  BY CallHolders
<1>3. RefsExact'
  BY <1>1, <1>2 DEF JInv, RefsExact
<1>4. QED
  BY <1>3, CallActivations

\* What a return leaves: the frames below the callee, the caller resumed.
Result == Operand(1)

Waiting == frames[Len(frames) - 1]

Resumed ==
  [Waiting EXCEPT !.pc = @ + 1, !.stack = Append(@, Result), !.held = <<>>]

Resuming == [Drop(frames, 1) EXCEPT ![Len(frames) - 1] = Resumed]

Surplus == IF Result = meta.none_obj THEN <<Result>> ELSE <<>>

Closed ==
  Release(Lose(heap, Drop(Top.stack, 1)), AllNames(Top.scopes))

LEMMA ReturnFrames ==
  ASSUME IInv, Return
  PROVE  /\ status = "running" /\ status' = status
         /\ UNCHANGED <<program, meta>>
         /\ frames' = Resuming
         /\ heap' = Release(Lose(Acquire(Closed, Surplus), Surplus), Waiting.held)
         /\ frames \in Seq(LineFrame) /\ Len(frames) \in Nat
         /\ Len(frames) - 1 \in Nat \ {0}
         /\ Top \in LineFrame /\ Waiting \in LineFrame
         /\ Top.stack \in Seq(ThisLine) /\ Len(Top.stack) >= 1
         /\ Result = Top.stack[Len(Top.stack)] /\ Result \in ThisLine
         /\ Drop(Top.stack, 1) \in Seq(ThisLine)
         /\ Drop(frames, 1) \in Seq(LineFrame)
         /\ Len(Drop(frames, 1)) = Len(frames) - 1
         /\ \A j \in 1..(Len(frames) - 1) : Drop(frames, 1)[j] = frames[j]
         /\ Resumed \in LineFrame /\ Resumed.held = <<>>
         /\ Resumed.stack = Append(Waiting.stack, Result)
         /\ Resumed.scopes = Waiting.scopes /\ Resumed.block = Waiting.block
         /\ Resumed.args = Waiting.args
<1> DEFINE k == Len(frames) - 1
           below == Drop(frames, 1)
<1>1. status = "running" /\ AtEnd /\ ~StackUnderflow /\ Len(frames) > 1
  BY DEF Return, Defined
<1>2. /\ frames \in Seq(LineFrame) /\ Top \in LineFrame /\ Len(frames) \in Nat
  BY <1>1, TopFacts DEF IInv, LinesIsolated, LineFrame
<1>3. k \in Nat \ {0} /\ k \in 1..Len(frames)
  BY <1>1, <1>2
<1>4. Waiting \in LineFrame
  BY <1>2, <1>3, ElementOfSeq DEF Waiting
<1>5. below \in Seq(LineFrame) /\ Len(below) = k
      /\ \A j \in 1..k : below[j] = frames[j]
  <2>1. below = SubSeq(frames, 1, k)
    BY DEF Drop
  <2>2. \A i \in 1..k : frames[i] \in LineFrame
    BY <1>2, <1>3, ElementOfSeq
  <2>3. k \in Nat
    BY <1>3
  <2> HIDE DEF k, below
  <2>4. QED
    BY <1>2, <2>1, <2>2, <2>3, SubSeqProperties
<1>6. /\ Top.stack \in Seq(ThisLine) /\ Len(Top.stack) >= 1
      /\ Result = Top.stack[Len(Top.stack)] /\ Result \in ThisLine
      /\ Drop(Top.stack, 1) \in Seq(ThisLine)
  <2>1. Len(frames) # 1
    <3>1. \A n \in Nat : n > 1 => n # 1
      OBVIOUS
    <3>2. QED
      BY <1>1, <1>2, <3>1
  <2>2. Needed = 1
    BY <1>1, <2>1 DEF Needed
  <2>3. Top.stack \in Seq(ThisLine) /\ Len(Top.stack) \in Nat
    BY <1>2, LenProperties DEF FrameRecord, LineFrame
  <2>4. 1 <= Len(Top.stack)
    BY <1>1, <2>2, <2>3 DEF StackUnderflow
  <2>5. Result = Top.stack[Len(Top.stack)]
    BY <2>3 DEF Result, Operand
  <2>6. QED
    BY <1>1, <2>2, <2>3, <2>4, <2>5, OperandTypes, DropType DEF Result
<1>7. /\ Resumed \in LineFrame /\ Resumed.held = <<>>
      /\ Resumed.stack = Append(Waiting.stack, Result)
      /\ Resumed.scopes = Waiting.scopes /\ Resumed.block = Waiting.block
      /\ Resumed.args = Waiting.args
  <2> DEFINE w == Waiting
             n == w.pc + 1
             stack == Append(w.stack, Result)
  <2>1. n \in Nat \ {0} /\ w.stack \in Seq(ThisLine)
    BY <1>4 DEF LineFrame, FrameRecord
  <2>2. stack \in Seq(ThisLine)
    BY <1>6, <2>1, AppendProperties
  <2>3. Resumed = [w EXCEPT !.pc = n, !.stack = stack, !.held = <<>>]
    BY <1>4 DEF Resumed, LineFrame, FrameRecord
  <2>4. w \in LineFrame
    BY <1>4
  <2> HIDE DEF w, n
  <2>5. /\ Resumed \in LineFrame /\ Resumed.held = <<>>
        /\ Resumed.stack = stack
        /\ Resumed.scopes = w.scopes /\ Resumed.block = w.block
        /\ Resumed.args = w.args
    <3> HIDE DEF stack
    <3>1. QED
      BY <2>1, <2>2, <2>3, <2>4, EmptySeq DEF LineFrame, FrameRecord
  <2>6. QED
    BY <2>5 DEF w
<1>8. /\ frames' = Resuming /\ UNCHANGED <<program, meta, status>>
      /\ heap' = Release(Lose(Acquire(Closed, Surplus), Surplus), Waiting.held)
  <2>1. k \in DOMAIN below /\ below[k] = Waiting
    BY <1>3, <1>5, LenProperties DEF Waiting
  <2>2. [below EXCEPT ![k].pc = @ + 1, ![k].stack = Append(@, Result),
                      ![k].held = <<>>] = Resuming
    BY <1>4, <2>1 DEF Resuming, Resumed, LineFrame, FrameRecord
  <2>3. below = SubSeq(frames, 1, k)
    BY DEF Drop
  <2>4. QED
    BY <2>2, <2>3 DEF Return, Closed, Surplus, Result, Waiting
<1>9. QED
  BY <1>1, <1>2, <1>3, <1>4, <1>5, <1>6, <1>7, <1>8

\* The reference to the result goes to the caller and the list of the caller
\* gives its references back.
LEMMA ReturnHolders ==
  ASSUME JInv, Return, NEW o
  PROVE  /\ Holders(o)' \in Nat
         /\ Rest(o) \in Nat /\ Count(Waiting.held, o) \in Nat
         /\ Rest(o) + One(Result, o) = Holders(o)' + Count(Waiting.held, o)
<1> DEFINE k == Len(frames) - 1
           below == Drop(frames, 1)
           a == Count(Waiting.stack, o)
           b == Count(Waiting.held, o)
           c == Count(AllNames(Waiting.scopes), o)
           u == One(Result, o)
           x == HoldersIn(Resuming, o)
           y == Rest(o)
<1>1. IInv /\ status = "running" /\ IsFiniteSet(DOMAIN meta)
  BY ReturnFrames, MetaFields DEF JInv, IInv
<1>2. /\ below \in Seq(LineFrame) /\ Len(below) = k /\ k \in Nat \ {0}
      /\ below[k] = Waiting /\ Waiting \in LineFrame /\ Resumed \in LineFrame
      /\ frames' = Resuming /\ UNCHANGED meta
      /\ Waiting.stack \in Seq(ThisLine) /\ Result \in ThisLine
  <2>1. /\ below \in Seq(LineFrame) /\ Len(below) = k /\ k \in Nat \ {0}
        /\ Waiting \in LineFrame /\ Resumed \in LineFrame
        /\ frames' = Resuming /\ UNCHANGED meta /\ Result \in ThisLine
        /\ \A j \in 1..k : below[j] = frames[j]
    BY <1>1, ReturnFrames
  <2>2. Waiting.stack \in Seq(ThisLine)
    BY <2>1 DEF LineFrame, FrameRecord
  <2>3. k \in 1..k /\ Waiting = frames[k]
    BY <2>1 DEF Waiting
  <2> HIDE DEF k, below
  <2>4. below[k] = Waiting
    BY <2>1, <2>3
  <2>5. QED
    BY <2>1, <2>2, <2>4
<1>3. a \in Nat /\ b \in Nat /\ c \in Nat /\ FrameCount(Waiting, o) = a + b + c
  BY <1>2, FrameFinite DEF FrameCount, LineFrame
<1>4. FrameCount(Resumed, o) = a + u + 0 + c
  <2>1. Count(Resumed.stack, o) = a + u
    <3> DEFINE w == Waiting.stack
    <3>1. Resumed.stack = Append(w, Result)
      BY <1>1, ReturnFrames
    <3>2. w \in Seq(ThisLine) /\ Result \in ThisLine
      BY <1>2
    <3> HIDE DEF w
    <3>3. Count(Append(w, Result), o) = Count(w, o) + One(Result, o)
      BY <3>2, CountAppend
    <3>4. QED
      BY <3>1, <3>3 DEF w
  <2>2. Count(Resumed.held, o) = 0
    BY <1>1, ReturnFrames, CountEmpty
  <2>3. Count(AllNames(Resumed.scopes), o) = c
    BY <1>1, ReturnFrames
  <2> HIDE DEF a, c, u
  <2>4. QED
    BY <2>1, <2>2, <2>3 DEF FrameCount
<1>5. u \in Nat
  BY DEF One
<1>6. k \in 1..Len(below)
  BY <1>2
<1> HIDE DEF k, below
<1>7. HoldersIn([below EXCEPT ![k] = Resumed], o) + FrameCount(below[k], o)
        = HoldersIn(below, o) + FrameCount(Resumed, o)
  <2>1. /\ below \in Seq(LineFrame) /\ Resumed \in LineFrame
        /\ IsFiniteSet(DOMAIN meta)
    BY <1>1, <1>2
  <2>2. QED
    BY <1>6, <2>1, HoldersReplace DEF LineFrame
<1>8. x + FrameCount(Waiting, o) = y + FrameCount(Resumed, o)
  BY <1>2, <1>7 DEF Resuming, Rest, k, below
<1>9. x \in Nat /\ y \in Nat
  <2>1. [below EXCEPT ![k] = Resumed] \in Seq(LineFrame)
    BY <1>2, <1>6, ExceptSeq
  <2>2. Resuming \in Seq(LineFrame)
    BY <2>1 DEF Resuming, k, below
  <2>3. x \in Nat
    BY <1>1, <2>2, HoldersNat DEF LineFrame
  <2>4. QED
    BY <1>1, <2>3, TopHolders
<1>10. Holders(o)' = x
  BY <1>2, HoldersThen
<1> HIDE DEF a, b, c, u, x, y
<1>11. y + u = x + b
  BY <1>3, <1>4, <1>5, <1>8, <1>9
<1>12. QED
  BY <1>3, <1>9, <1>10, <1>11 DEF b, u, y

\* Closing the callee: what is left are the holders below and the result.
LEMMA ReturnCloses ==
  ASSUME JInv, Return
  PROVE  /\ LineHeap(Closed) /\ Len(Closed) = Len(heap)
         /\ Closed \in Seq(ObjectRecord) /\ DOMAIN Closed = DOMAIN heap
         /\ Exact(Closed, [o \in DOMAIN heap |-> Rest(o) + One(Result, o)])
<1> DEFINE rest == Drop(Top.stack, 1)
           lost == Lose(heap, rest)
           names == AllNames(Top.scopes)
           F == [o \in DOMAIN heap |-> Rest(o) + One(Result, o)
                                          + Count(names, o)]
           G == [o \in DOMAIN heap |-> Rest(o) + One(Result, o)]
<1>1. IInv /\ status = "running" /\ heap \in Seq(ObjectRecord)
      /\ Exact(heap, HoldersNow)
  BY ReturnFrames, ExactNow DEF JInv, IInv, TypeOK
<1>2. Top \in LineFrame /\ rest \in Seq(ThisLine)
  BY <1>1, ReturnFrames
<1>3. /\ IsFiniteSet(DOMAIN rest) /\ IsFiniteSet(DOMAIN names)
      /\ \A o : Count(names, o) \in Nat
  BY <1>2, FiniteDomain, FrameFinite DEF LineFrame
<1>4. ASSUME NEW o \in DOMAIN heap
      PROVE  /\ F[o] \in Nat /\ HoldersNow[o] = F[o] + Count(rest, o)
             /\ G[o] \in Nat /\ F[o] = G[o] + Count(names, o)
  <2> DEFINE d == Count(rest, o)
             u == One(Result, o)
             c == Count(names, o)
             s == Count(Top.stack, o)
             r == Rest(o)
  <2>1. s = d + u
    BY <1>1, ReturnFrames, CountDrop
  <2>2. d \in Nat /\ u \in Nat /\ c \in Nat /\ r \in Nat
    BY <1>1, <1>3, CountZero, TopHolders DEF One
  <2>3. Holders(o) = r + FrameCount(Top, o)
    BY <1>1, TopHolders
  <2>4. FrameCount(Top, o) = s + 0 + c
    <3>1. Top.held = <<>>
      BY <1>1 DEF JInv, Activations, TopHoldsNothing, IInv, Running
    <3>2. Count(Top.held, o) = 0
      BY <3>1, CountEmpty
    <3>3. QED
      BY <3>2 DEF FrameCount
  <2>5. F[o] = r + u + c /\ G[o] = r + u /\ HoldersNow[o] = Holders(o)
    BY DEF HoldersNow
  <2> HIDE DEF d, u, c, s, r, F, G, rest, names
  <2>6. /\ F[o] \in Nat /\ HoldersNow[o] = F[o] + d
        /\ G[o] \in Nat /\ F[o] = G[o] + c
    BY <2>1, <2>2, <2>3, <2>4, <2>5
  <2>7. QED
    BY <2>6 DEF d, c
<1>5. LineHeap(lost) /\ Len(lost) = Len(heap)
  BY <1>1, <1>3, LineHeapNow, LineHeapCounts
<1>6. lost \in Seq(ObjectRecord) /\ DOMAIN lost = DOMAIN heap
  BY <1>5 DEF LineHeap, Lose
<1> HIDE DEF F, G, rest, names
<1>7. Exact(lost, F)
  BY <1>1, <1>3, <1>4, ExactLose
<1>8. Closed = Release(lost, names)
  BY DEF Closed, rest, names
<1> HIDE DEF lost
<1>9. LineHeap(Closed) /\ Len(Closed) = Len(heap)
  BY <1>1, <1>3, <1>5, <1>8, LineHeapCounts
<1>10. Exact(Release(lost, names), G)
  BY <1>3, <1>4, <1>6, <1>7, ExactRelease
<1>11. Closed \in Seq(ObjectRecord) /\ DOMAIN Closed = DOMAIN heap
  BY <1>6, <1>8, <1>9 DEF LineHeap, Release
<1>12. QED
  BY <1>8, <1>9, <1>10, <1>11 DEF G

LEMMA ReturnActivations ==
  ASSUME JInv, Return
  PROVE  Activations'
<1> DEFINE k == Len(frames) - 1
           below == Drop(frames, 1)
           fs == Resuming
<1>1. /\ IInv /\ status = "running" /\ status' = status /\ program' = program
      /\ frames' = fs /\ k \in Nat \ {0} /\ Len(frames) = k + 1
      /\ frames \in Seq(LineFrame)
      /\ below \in Seq(LineFrame) /\ Len(below) = k /\ Resumed \in LineFrame
      /\ \A j \in 1..k : below[j] = frames[j]
      /\ Resumed.held = <<>> /\ Resumed.block = Waiting.block
      /\ Resumed.args = Waiting.args
  BY ReturnFrames DEF JInv
<1>2. DOMAIN frames = 1..(k + 1) /\ k \in 1..Len(below) /\ k \in 1..k
      /\ Waiting = frames[k]
  BY <1>1, LenProperties DEF Waiting
<1>3. fs = [below EXCEPT ![k] = Resumed]
  BY DEF Resuming
<1> HIDE DEF fs, below, k
<1>4. /\ Len(fs) = k /\ DOMAIN fs = 1..k /\ fs[k] = Resumed
      /\ \A j \in 1..k : j # k => fs[j] = frames[j]
  <2>1. /\ fs \in Seq(LineFrame) /\ Len(fs) = k /\ fs[k] = Resumed
        /\ \A j \in 1..k : j # k => fs[j] = below[j]
    BY <1>1, <1>2, <1>3, ExceptSeq
  <2>2. DOMAIN fs = 1..k
    BY <2>1, LenProperties
  <2>3. QED
    BY <1>1, <2>1, <2>2
<1>5. \A j \in 1..k : /\ fs[j].block = frames[j].block
                      /\ fs[j].args = frames[j].args
                      /\ j \in DOMAIN frames
                      /\ j > 1 => /\ j - 1 \in 1..k
                                  /\ fs[j - 1].held = frames[j - 1].held
                                  /\ fs[j - 1].block = frames[j - 1].block
  <2>1. \A j \in 1..k : /\ fs[j].block = frames[j].block
                        /\ fs[j].args = frames[j].args
    BY <1>1, <1>2, <1>4
  <2>2. \A j \in 1..k : /\ j \in 1..(k + 1)
                        /\ j > 1 => j - 1 \in 1..k /\ j - 1 # k
    BY <1>1
  <2>3. QED
    BY <1>2, <1>4, <2>1, <2>2
<1>6. PromptEmpty' /\ TopHoldsNothing'
  BY <1>1, <1>4 DEF PromptEmpty, TopHoldsNothing, Top
<1>7. ArgumentsHeld'
  <2>1. ASSUME NEW j \in 1..k, NEW n \in Names, fs[j].args[n] # Nil
        PROVE  /\ j > 1
               /\ \E i \in DOMAIN fs[j - 1].held :
                    fs[j - 1].held[i] = fs[j].args[n]
    <3>1. /\ j > 1
          /\ \E i \in DOMAIN frames[j - 1].held :
               frames[j - 1].held[i] = frames[j].args[n]
      BY <1>5, <2>1 DEF JInv, Activations, ArgumentsHeld
    <3>2. QED
      BY <1>5, <2>1, <3>1
  <2>2. QED
    BY <1>1, <1>4, <2>1 DEF ArgumentsHeld
<1>8. FramesNest'
  <2>1. ASSUME NEW j \in 1..k, j > 1
        PROVE  \E i \in DOMAIN program[fs[j - 1].block] :
                 /\ program[fs[j - 1].block][i].op = "DEFINE_FUNCTION"
                 /\ program[fs[j - 1].block][i].body = fs[j].block
    BY <1>5, <2>1 DEF JInv, Activations, FramesNest
  <2>2. QED
    BY <1>1, <1>4, <2>1 DEF FramesNest
<1>9. Descending'
  BY <1>1, <1>4, <1>5 DEF JInv, Activations, Descending
<1>10. QED
  BY <1>6, <1>7, <1>8, <1>9 DEF Activations

LEMMA ReturnRefs ==
  ASSUME JInv, Return
  PROVE  RefsExact' /\ Activations'
<1> DEFINE G == [o \in DOMAIN heap |-> Rest(o) + One(Result, o)]
           U == [o \in DOMAIN heap |-> G[o] + Count(Surplus, o)]
           acquired == Acquire(Closed, Surplus)
           lost == Lose(acquired, Surplus)
           h == Release(lost, Waiting.held)
<1>1. IInv /\ status = "running" /\ heap' = h
      /\ Waiting \in LineFrame /\ Result \in ThisLine
  BY ReturnFrames DEF JInv
<1>2. /\ LineHeap(Closed) /\ Closed \in Seq(ObjectRecord)
      /\ DOMAIN Closed = DOMAIN heap /\ Exact(Closed, G)
  BY ReturnCloses
<1>3. IsFiniteSet(DOMAIN Surplus) /\ IsFiniteSet(DOMAIN Waiting.held)
  <2>1. Surplus \in Seq(ThisLine)
    BY <1>1, EmptySeq DEF Surplus
  <2>2. Waiting.held \in Seq(ThisLine)
    BY <1>1 DEF LineFrame, FrameRecord
  <2>3. QED
    BY <2>1, <2>2, FiniteDomain
<1>4. \A o : Count(Surplus, o) > 0 => One(Result, o) = 1
  <2>1. CASE Surplus = <<Result>>
    <3>1. \A o : Count(<<Result>>, o) = One(Result, o)
      BY CountOne
    <3>2. \A o : One(Result, o) > 0 => One(Result, o) = 1
      BY DEF One
    <3>3. QED
      BY <2>1, <3>1, <3>2
  <2>2. CASE Surplus = <<>>
    <3>1. \A o : Count(<<>>, o) = 0
      BY CountEmpty
    <3>2. QED
      BY <2>2, <3>1
  <2>3. QED
    BY <2>1, <2>2 DEF Surplus
<1>5. ASSUME NEW o \in DOMAIN heap
      PROVE  /\ G[o] \in Nat
             /\ U[o] = G[o] + Count(Surplus, o)
             /\ Count(Surplus, o) > 0 => G[o] > 0
             /\ HoldersNext(h)[o] = Holders(o)'
             /\ Holders(o)' \in Nat
             /\ G[o] = Holders(o)' + Count(Waiting.held, o)
  <2> DEFINE r == Rest(o)
             u == One(Result, o)
             b == Count(Waiting.held, o)
             x == Holders(o)'
  <2>1. x \in Nat /\ r \in Nat /\ b \in Nat /\ r + u = x + b
    BY ReturnHolders
  <2>2. u \in Nat /\ (Count(Surplus, o) > 0 => u = 1)
    BY <1>4 DEF One
  <2>3. G[o] = r + u /\ U[o] = G[o] + Count(Surplus, o)
    OBVIOUS
  <2>4. HoldersNext(h)[o] = x
    <3>1. DOMAIN h = DOMAIN heap
      BY <1>2 DEF Release, Lose, Acquire
    <3> HIDE DEF h
    <3>2. QED
      BY <3>1 DEF HoldersNext
  <2> HIDE DEF r, u, b, x, G, U, h
  <2>5. /\ G[o] \in Nat /\ (Count(Surplus, o) > 0 => G[o] > 0)
        /\ G[o] = x + b
    BY <2>1, <2>2, <2>3
  <2>6. QED
    BY <2>1, <2>3, <2>4, <2>5 DEF x, b
<1>6. LineHeap(acquired) /\ LineHeap(lost)
  BY <1>1, <1>2, <1>3, LineHeapCounts
<1>7. /\ acquired \in Seq(ObjectRecord) /\ DOMAIN acquired = DOMAIN heap
      /\ lost \in Seq(ObjectRecord) /\ DOMAIN lost = DOMAIN heap
  BY <1>2, <1>6 DEF LineHeap, Acquire, Lose
<1> HIDE DEF G, U
<1>8. Exact(acquired, U)
  BY <1>2, <1>3, <1>5, ExactAcquire
<1> HIDE DEF acquired
<1>9. Exact(lost, G)
  BY <1>3, <1>5, <1>7, <1>8, ExactLose
<1> HIDE DEF lost
<1>10. Exact(h, HoldersNext(h))
  <2> DEFINE N == HoldersNext(h)
  <2>1. \A o \in DOMAIN lost :
          N[o] \in Nat /\ G[o] = N[o] + Count(Waiting.held, o)
    BY <1>5, <1>7
  <2> HIDE DEF N
  <2>2. Exact(h, N)
    BY <1>3, <1>7, <1>9, <2>1, ExactRelease
  <2>3. QED
    BY <2>2 DEF N
<1> HIDE DEF h
<1>11. RefsExact'
  BY <1>1, <1>10, ExactNext
<1>12. QED
  BY <1>11, ReturnActivations

-----------------------------------------------------------------------------
(* The lines.                                                               *)

\* A state without frames, or with the first frame of a line only: meta is the
\* only holder.
LEMMA OnlyMeta ==
  ASSUME NEW fs, fs = <<>> \/ fs = <<Activation(1, EmptyScope)>>, NEW o
  PROVE  /\ Cardinality(Slots(Stacks(fs), o)) = 0
         /\ Cardinality(Slots(HeldLists(fs), o)) = 0
         /\ Cardinality(Slots(ScopeNames(fs), o)) = 0
<1>1. \A k \in DOMAIN fs :
        fs[k].stack = <<>> /\ fs[k].held = <<>> /\ fs[k].scopes = <<>>
  BY DEF Activation
<1>2. DOMAIN AllNames(<<>>) = {}
  BY DEF AllNames
<1>3. /\ \A k \in DOMAIN Stacks(fs) : DOMAIN Stacks(fs)[k] = {}
      /\ \A k \in DOMAIN HeldLists(fs) : DOMAIN HeldLists(fs)[k] = {}
      /\ \A k \in DOMAIN ScopeNames(fs) : DOMAIN ScopeNames(fs)[k] = {}
  BY <1>1, <1>2 DEF Stacks, HeldLists, ScopeNames
<1> DEFINE a == Stacks(fs)
           b == HeldLists(fs)
           c == ScopeNames(fs)
<1> HIDE DEF a, b, c
<1>4. /\ Cardinality(Slots(a, o)) = 0 /\ Cardinality(Slots(b, o)) = 0
      /\ Cardinality(Slots(c, o)) = 0
  BY <1>3, SlotsNowhere DEF a, b, c
<1>5. QED
  BY <1>4 DEF a, b, c

\* The first objects of a line, one for each field of meta.
NewMeta(n) ==
  [false_obj |-> n + 1, true_obj |-> n + 2, none_obj |-> n + 3]

LEMMA NewMetaCounts ==
  ASSUME NEW n \in Nat
  PROVE  /\ \A o \in {n + 1, n + 2, n + 3} : Count(NewMeta(n), o) = 1
         /\ \A o : o \notin {n + 1, n + 2, n + 3} => Count(NewMeta(n), o) = 0
<1> DEFINE m == NewMeta(n)
           K(o) == {k \in DOMAIN m : m[k] = o}
<1>1. /\ K(n + 1) = {"false_obj"} /\ K(n + 2) = {"true_obj"}
      /\ K(n + 3) = {"none_obj"}
  BY DEF NewMeta
<1>2. \A o : o \notin {n + 1, n + 2, n + 3} => K(o) = {}
  BY DEF NewMeta
<1>3. \A o : Count(m, o) = Cardinality(K(o))
  BY DEF Count
<1> HIDE DEF m, K
<1>4. \A o \in {n + 1, n + 2, n + 3} : Count(m, o) = 1
  <2>1. /\ Cardinality(K(n + 1)) = 1 /\ Cardinality(K(n + 2)) = 1
        /\ Cardinality(K(n + 3)) = 1
    BY <1>1, FS_Singleton
  <2>2. Count(m, n + 1) = 1 /\ Count(m, n + 2) = 1 /\ Count(m, n + 3) = 1
    BY <1>3, <2>1
  <2>3. QED
    BY <2>2
<1>5. \A o : o \notin {n + 1, n + 2, n + 3} => Count(m, o) = 0
  BY <1>2, <1>3, FS_EmptySet
<1>6. QED
  BY <1>4, <1>5 DEF m

\* The heap of a new line: the objects of meta are behind those of earlier
\* lines.
LEMMA RunHeap ==
  ASSUME TypeOK, NEW p, Run(p)
  PROVE  /\ Len(heap) \in Nat /\ DOMAIN heap' = 1..(Len(heap) + 3)
         /\ \A o \in 1..Len(heap) : heap'[o] = heap[o]
         /\ heap'[Len(heap) + 1] = Object("bool", 1, 0)
         /\ heap'[Len(heap) + 2] = Object("bool", 1, 0)
         /\ heap'[Len(heap) + 3] = Object("none", 1, 0)
<1> DEFINE n == Len(heap)
           b == Object("bool", 1, 0)
           none == Object("none", 1, 0)
<1>1. n \in Nat /\ heap \in Seq(ObjectRecord)
  BY LenProperties DEF TypeOK
<1>2. heap' = heap \o <<b, b, none>>
  BY DEF Run
<1>3. b \in ObjectRecord /\ none \in ObjectRecord
  BY ObjectType DEF Kinds
<1> HIDE DEF b, none
<1>4. /\ DOMAIN heap' = 1..(n + 3)
      /\ \A o \in 1..n : heap'[o] = heap[o]
      /\ heap'[n + 1] = b /\ heap'[n + 2] = b /\ heap'[n + 3] = none
  <2> DEFINE t == <<b, b, none>>
  <2>1. t \in Seq(ObjectRecord) /\ Len(t) = 3
        /\ t[1] = b /\ t[2] = b /\ t[3] = none
    BY <1>3
  <2> HIDE DEF t
  <2>2. heap' = heap \o t
    BY <1>2 DEF t
  <2>3. /\ heap \o t \in Seq(ObjectRecord) /\ Len(heap \o t) = n + 3
        /\ \A i \in 1..(n + 3) :
             (heap \o t)[i] = IF i <= n THEN heap[i] ELSE t[i - n]
    <3>1. /\ heap \o t \in Seq(ObjectRecord)
          /\ Len(heap \o t) = Len(heap) + Len(t)
          /\ \A i \in 1..(Len(heap) + Len(t)) :
               (heap \o t)[i] = IF i <= Len(heap) THEN heap[i]
                               ELSE t[i - Len(heap)]
      BY <1>1, <2>1, ConcatProperties
    <3>2. Len(heap) + Len(t) = n + 3
      BY <2>1
    <3>3. QED
      BY <3>1, <3>2
  <2>4. DOMAIN (heap \o t) = 1..(n + 3)
    BY <2>3, LenProperties
  <2>5. /\ (n + 1) - n = 1 /\ (n + 2) - n = 2 /\ (n + 3) - n = 3
        /\ n + 1 \in 1..(n + 3) /\ n + 2 \in 1..(n + 3) /\ n + 3 \in 1..(n + 3)
        /\ ~(n + 1 <= n) /\ ~(n + 2 <= n) /\ ~(n + 3 <= n)
        /\ \A i \in 1..n : i \in 1..(n + 3) /\ i <= n
    BY <1>1
  <2> HIDE DEF n
  <2>6. QED
    BY <2>1, <2>2, <2>3, <2>4, <2>5
<1>5. QED
  BY <1>1, <1>4 DEF b, none

LEMMA RunRefs ==
  ASSUME JInv, NEW p \in Programs, Run(p)
  PROVE  RefsExact' /\ Activations'
<1> DEFINE n == Len(heap)
           start == Activation(1, EmptyScope)
           b == Object("bool", 1, 0)
           none == Object("none", 1, 0)
<1>1. n \in Nat /\ heap \in Seq(ObjectRecord) /\ TypeOK
  BY LenProperties DEF JInv, IInv, TypeOK
<1>2. /\ status = "prompt" /\ status' = "running" /\ program' = p
      /\ heap' = heap \o <<b, b, none>> /\ frames' = <<start>>
      /\ meta' = NewMeta(n)
  BY DEF Run, NewMeta
<1>3. /\ b \in ObjectRecord /\ none \in ObjectRecord
      /\ b.live /\ b.refs = 1 /\ b.lost = 0
      /\ none.live /\ none.refs = 1 /\ none.lost = 0
  BY ObjectType DEF Kinds, Object
<1> HIDE DEF b, none
<1>4. /\ DOMAIN heap' = 1..(n + 3)
      /\ \A o \in 1..n : heap'[o] = heap[o]
      /\ heap'[n + 1] = b /\ heap'[n + 2] = b /\ heap'[n + 3] = none
  BY <1>1, RunHeap DEF b, none
<1>5. \A o : Holders(o)' = Count(NewMeta(n), o)
  <2>1. TAKE o
  <2> DEFINE fs == <<start>>
             A == Cardinality(Slots(Stacks(fs), o))
             B == Cardinality(Slots(HeldLists(fs), o))
             C == Cardinality(Slots(ScopeNames(fs), o))
  <2>2. A = 0 /\ B = 0 /\ C = 0
    BY OnlyMeta
  <2>3. Holders(o)' = Count(NewMeta(n), o) + A + B + C
    BY <1>2 DEF Holders, HoldersIn
  <2> HIDE DEF A, B, C
  <2>4. Count(NewMeta(n), o) \in Nat
    <3>1. Count(NewMeta(n), o) = 1 \/ Count(NewMeta(n), o) = 0
      <4> HIDE DEF n
      <4>1. QED
        BY <1>1, NewMetaCounts
    <3>2. QED
      BY <3>1
  <2>5. QED
    BY <2>2, <2>3, <2>4
<1>6. frames = <<>> /\ meta = NoMeta
  BY <1>2 DEF JInv, Activations, PromptEmpty
<1>7. RefsExact'
  <2>1. \A o \in 1..(n + 3) : o \in 1..n \/ o \in {n + 1, n + 2, n + 3}
    BY <1>1
  <2>2. ASSUME NEW o \in 1..n
        PROVE  IF heap'[o].live
               THEN /\ heap'[o].refs = Holders(o)' + heap'[o].lost
                    /\ heap'[o].refs > 0
               ELSE Holders(o)' = 0
    <3>1. o \in DOMAIN heap
      BY <1>1, LenProperties
    <3>2. Holders(o) = 0
      BY <1>1, <1>6, <3>1, PromptHolders
    <3>3. o \notin {n + 1, n + 2, n + 3}
      BY <1>1
    <3>4. Holders(o)' = 0
      BY <1>1, <1>5, <3>3, NewMetaCounts
    <3>5. heap'[o] = heap[o]
      BY <1>4
    <3>6. IF heap[o].live
          THEN heap[o].refs = Holders(o) + heap[o].lost /\ heap[o].refs > 0
          ELSE Holders(o) = 0
      BY <3>1 DEF JInv, RefsExact
    <3>7. QED
      BY <3>2, <3>4, <3>5, <3>6
  <2>3. ASSUME NEW o \in {n + 1, n + 2, n + 3}
        PROVE  /\ heap'[o].live /\ heap'[o].refs = 1 /\ heap'[o].lost = 0
               /\ Holders(o)' = 1
    BY <1>1, <1>3, <1>4, <1>5, NewMetaCounts
  <2>4. QED
    BY <1>4, <2>1, <2>2, <2>3 DEF RefsExact
<1>8. /\ start.held = <<>> /\ start.block = 1
      /\ \A m \in Names : start.args[m] = Nil
  BY DEF Activation, EmptyScope
<1>9. /\ Len(frames') = 1 /\ frames'[1] = start /\ DOMAIN frames' = {1}
  BY <1>2
<1> HIDE DEF start
<1>10. Activations'
  <2>1. PromptEmpty' /\ TopHoldsNothing'
    BY <1>2, <1>8, <1>9 DEF PromptEmpty, TopHoldsNothing, Top
  <2>2. ArgumentsHeld' /\ FramesNest' /\ Descending'
    BY <1>8, <1>9 DEF ArgumentsHeld, FramesNest, Descending
  <2>3. QED
    BY <2>1, <2>2 DEF Activations
<1>11. QED
  BY <1>7, <1>10

\* When a line is over nothing is held.
LEMMA NothingHeld ==
  ASSUME frames' = <<>>, meta' = NoMeta, NEW o, o # Nil
  PROVE  Holders(o)' = 0
<1> DEFINE A == Cardinality(Slots(Stacks(<<>>), o))
           B == Cardinality(Slots(HeldLists(<<>>), o))
           C == Cardinality(Slots(ScopeNames(<<>>), o))
<1>1. A = 0 /\ B = 0 /\ C = 0
  BY OnlyMeta
<1>2. Holders(o)' = Count(NoMeta, o) + A + B + C
  BY DEF Holders, HoldersIn
<1>3. Count(NoMeta, o) = 0
  <2>1. {k \in DOMAIN NoMeta : NoMeta[k] = o} = {}
    BY DEF NoMeta
  <2>2. QED
    BY <2>1, FS_EmptySet DEF Count
<1> HIDE DEF A, B, C
<1>4. QED
  BY <1>1, <1>2, <1>3

\* The end of a line: the stack is lost, the scopes give their references back
\* and the objects of meta are freed when only meta still holds them.
LEMMA FinishRefs ==
  ASSUME JInv, Finish
  PROVE  RefsExact' /\ Activations'
<1> DEFINE names == AllNames(Top.scopes)
           S == {meta.true_obj, meta.false_obj, meta.none_obj}
           lost == Lose(heap, Top.stack)
           dropped == Release(lost, names)
           h == Free(dropped, S)
           F == [o \in DOMAIN heap |-> Count(meta, o) + Count(names, o)]
           M == [o \in DOMAIN heap |-> Count(meta, o)]
           Z == [o \in DOMAIN heap |-> 0]
<1>1. /\ IInv /\ status = "running" /\ Len(frames) = 1 /\ status' = "prompt"
      /\ heap' = h /\ frames' = <<>> /\ meta' = NoMeta
      /\ heap \in Seq(ObjectRecord) /\ Exact(heap, HoldersNow)
  BY ExactNow DEF Finish, JInv, IInv, TypeOK
<1>2. Top \in LineFrame /\ IsFiniteSet(DOMAIN meta)
      /\ DOMAIN meta = {"true_obj", "false_obj", "none_obj"}
  BY <1>1, TopFacts, MetaFields DEF LineFrame, IInv
<1>3. /\ IsFiniteSet(DOMAIN Top.stack) /\ IsFiniteSet(DOMAIN names)
      /\ \A o : Count(Top.stack, o) \in Nat /\ Count(names, o) \in Nat
  BY <1>2, FrameFinite DEF LineFrame
<1>4. ASSUME NEW o \in DOMAIN heap
      PROVE  /\ F[o] \in Nat /\ HoldersNow[o] = F[o] + Count(Top.stack, o)
             /\ M[o] \in Nat /\ F[o] = M[o] + Count(names, o)
             /\ o \notin S => M[o] = 0
  <2> DEFINE s == Count(Top.stack, o)
             c == Count(names, o)
             m == Count(meta, o)
  <2>1. s \in Nat /\ c \in Nat /\ m \in Nat
    BY <1>2, <1>3, CountZero
  <2>2. Rest(o) = m
    <3>1. Drop(frames, 1) = <<>>
      BY <1>1, EmptySeq DEF Drop, IInv, TypeOK
    <3>2. QED
      BY <1>2, <3>1, HoldersNone DEF Rest
  <2>3. FrameCount(Top, o) = s + 0 + c
    <3>1. Top.held = <<>>
      BY <1>1 DEF JInv, Activations, TopHoldsNothing, IInv, Running
    <3>2. Count(Top.held, o) = 0
      BY <3>1, CountEmpty
    <3>3. QED
      BY <3>2 DEF FrameCount
  <2>4. Holders(o) = Rest(o) + FrameCount(Top, o)
    BY <1>1, TopHolders
  <2>5. o \notin S => m = 0
    BY <1>2, CountZero
  <2>6. F[o] = m + c /\ M[o] = m /\ HoldersNow[o] = Holders(o)
    BY DEF HoldersNow
  <2> HIDE DEF s, c, m, F, M, S, names
  <2>7. /\ F[o] \in Nat /\ HoldersNow[o] = F[o] + s
        /\ M[o] \in Nat /\ F[o] = M[o] + c /\ (o \notin S => M[o] = 0)
    BY <2>1, <2>2, <2>3, <2>4, <2>5, <2>6
  <2>8. QED
    BY <2>7 DEF s, c
<1>5. LineHeap(lost) /\ LineHeap(dropped)
  BY <1>1, <1>3, LineHeapNow, LineHeapCounts
<1>6. /\ lost \in Seq(ObjectRecord) /\ DOMAIN lost = DOMAIN heap
      /\ dropped \in Seq(ObjectRecord) /\ DOMAIN dropped = DOMAIN heap
      /\ DOMAIN h = DOMAIN heap
  BY <1>5 DEF LineHeap, Lose, Release, Free
<1> HIDE DEF F, M, S, names
<1>7. Exact(lost, F)
  BY <1>1, <1>3, <1>4, ExactLose
<1> HIDE DEF lost
<1>8. Exact(dropped, M)
  BY <1>3, <1>4, <1>6, <1>7, ExactRelease
<1> HIDE DEF dropped
<1>9. \A o \in DOMAIN dropped : IF o \in S THEN Z[o] = 0 ELSE Z[o] = M[o]
  BY <1>4, <1>6
<1> HIDE DEF Z
<1>10. Exact(h, Z)
  BY <1>6, <1>8, <1>9, ExactFree
<1>11. ASSUME NEW o \in DOMAIN heap PROVE Holders(o)' = 0
  <2>1. o # Nil
    BY <1>1, LenProperties DEF Nil
  <2>2. QED
    BY <1>1, <2>1, NothingHeld
<1>12. HoldersNext(h) = Z
  <2> HIDE DEF h
  <2>1. QED
    BY <1>6, <1>11 DEF HoldersNext, Z
<1> HIDE DEF h
<1>13. RefsExact'
  BY <1>1, <1>10, <1>12, ExactNext
<1>14. Activations'
  BY <1>1 DEF Activations, PromptEmpty, TopHoldsNothing, ArgumentsHeld,
              FramesNest, Descending
<1>15. QED
  BY <1>13, <1>14

\* Undefined behaviour stops the machine where it is.
LEMMA FaultRefs ==
  ASSUME JInv, Fault
  PROVE  RefsExact' /\ Activations' /\ StoppedTypes'
<1>1. /\ status = "running" /\ status' = "faulted"
      /\ UNCHANGED <<heap, frames, program, meta, typeGen, runs>>
  BY DEF Fault, Abort
<1>2. RefsExact'
  BY <1>1 DEF JInv, RefsExact, Holders, HoldersIn
<1>3. TypesValid'
  <2>1. TypesValid
    BY <1>1, TypesOfLine DEF JInv
  <2>2. QED
    BY <1>1, <2>1 DEF TypesValid, Holders, HoldersIn
<1>4. Activations'
  BY <1>1 DEF JInv, Activations, PromptEmpty, TopHoldsNothing, ArgumentsHeld,
              FramesNest, Descending, Top
<1>5. QED
  BY <1>2, <1>3, <1>4 DEF StoppedTypes

\* ".q", and steps in which nothing happens.
LEMMA IdleMachine ==
  ASSUME JInv, Exit \/ UNCHANGED vars
  PROVE  RefsExact' /\ Activations' /\ StoppedTypes'
<1>1. /\ UNCHANGED <<heap, frames, program, meta, typeGen>>
      /\ status' = status \/ (status = "prompt" /\ status' = "exited")
  BY DEF Exit, vars
<1>2. RefsExact'
  BY <1>1 DEF JInv, RefsExact, Holders, HoldersIn
<1>3. StoppedTypes'
  BY <1>1 DEF JInv, StoppedTypes, TypesValid, Holders, HoldersIn
<1>4. Activations'
  BY <1>1 DEF JInv, Activations, PromptEmpty, TopHoldsNothing, ArgumentsHeld,
              FramesNest, Descending, Top
<1>5. QED
  BY <1>2, <1>3, <1>4

-----------------------------------------------------------------------------
(* The theorems.                                                            *)

LEMMA InitJInv == Init => JInv
<1> SUFFICES ASSUME Init PROVE JInv
  OBVIOUS
<1>1. IInv
  BY InitIInv
<1>2. DOMAIN heap = {} /\ DOMAIN frames = {} /\ frames = <<>>
      /\ meta = NoMeta /\ status = "prompt"
  BY DEF Init
<1>3. RefsExact /\ StoppedTypes
  BY <1>2 DEF RefsExact, StoppedTypes
<1>4. Activations
  BY <1>2 DEF Activations, PromptEmpty, TopHoldsNothing, ArgumentsHeld,
              FramesNest, Descending
<1>5. QED
  BY <1>1, <1>3, <1>4 DEF JInv

\* No instruction that has a meaning stops the machine.
LEMMA GoesOn ==
  ASSUME Execute, ~Fault
  PROVE  StoppedTypes'
<1>1. status' # "faulted"
  <2>1. CASE PushLiteral \/ PushSingleton \/ LoadId
    BY <2>1 DEF PushLiteral, PushSingleton, LoadId, PushNew, Executing, Step
  <2>2. CASE SetName \/ DefineFunction
    BY <2>2 DEF SetName, DefineFunction, Executing, Step
  <2>3. CASE Binary \/ Negate \/ UnaryPlus \/ PopObject
    BY <2>3 DEF Binary, Negate, UnaryPlus, PopObject, PushNew, Executing, Step
  <2>4. CASE StartGlobalScope \/ StartScope \/ EndScope
    BY <2>4 DEF StartGlobalScope, StartScope, EndScope, Executing, Step
  <2>5. CASE Ret \/ Ignored \/ CallPrint
    BY <2>5 DEF Ret, Ignored, CallPrint, Executing, Step
  <2>6. CASE CallFunction \/ Return
    BY <2>6 DEF CallFunction, Return, Executing
  <2>7. CASE Finish
    BY <2>7 DEF Finish
  <2>8. QED
    BY <2>1, <2>2, <2>3, <2>4, <2>5, <2>6, <2>7 DEF Execute
<1>2. QED
  BY <1>1 DEF StoppedTypes

LEMMA NextJInv == JInv /\ [Next]_vars => JInv'
<1> SUFFICES ASSUME JInv, [Next]_vars PROVE JInv'
  OBVIOUS
<1>1. IInv'
  BY NextIInv DEF JInv
<1>2. RefsExact' /\ Activations' /\ StoppedTypes'
  <2>1. CASE \E p \in Programs : Run(p)
    <3>1. PICK p \in Programs : Run(p)
      BY <2>1
    <3>2. status' = "running"
      BY <3>1 DEF Run
    <3>3. QED
      BY <3>1, <3>2, RunRefs DEF StoppedTypes
  <2>2. CASE Fault
    BY <2>2, FaultRefs
  <2>3. CASE Exit \/ UNCHANGED vars
    BY <2>3, IdleMachine
  <2>4. CASE Execute /\ ~Fault
    <3>1. StoppedTypes'
      BY <2>4, GoesOn
    <3>2. CASE PushLiteral
      BY <3>1, <3>2, PushLiteralRefs
    <3>3. CASE PushSingleton
      BY <3>1, <3>3, PushSingletonRefs
    <3>4. CASE LoadId
      BY <3>1, <3>4, LoadIdRefs
    <3>5. CASE SetName
      BY <3>1, <3>5, SetNameRefs
    <3>6. CASE Binary
      BY <3>1, <3>6, BinaryRefs
    <3>7. CASE Negate
      BY <3>1, <3>7, NegateRefs
    <3>8. CASE UnaryPlus
      BY <3>1, <3>8, UnaryPlusRefs
    <3>9. CASE PopObject
      BY <3>1, <3>9, PopObjectRefs
    <3>10. CASE StartGlobalScope
      BY <3>1, <3>10, StartGlobalScopeRefs
    <3>11. CASE StartScope
      BY <3>1, <3>11, StartScopeRefs
    <3>12. CASE EndScope
      BY <3>1, <3>12, EndScopeRefs
    <3>13. CASE Ret \/ Ignored
      BY <3>1, <3>13, IdleRefs
    <3>14. CASE DefineFunction
      BY <3>1, <3>14, DefineFunctionRefs
    <3>15. CASE CallPrint
      BY <3>1, <3>15, CallPrintRefs
    <3>16. CASE CallFunction
      BY <3>1, <3>16, CallFunctionRefs
    <3>17. CASE Return
      BY <3>1, <3>17, ReturnRefs
    <3>18. CASE Finish
      BY <3>1, <3>18, FinishRefs
    <3>19. QED
      BY <2>4, <3>2, <3>3, <3>4, <3>5, <3>6, <3>7, <3>8, <3>9, <3>10, <3>11,
         <3>12, <3>13, <3>14, <3>15, <3>16, <3>17, <3>18 DEF Execute
  <2>5. QED
    BY <2>1, <2>2, <2>3, <2>4 DEF Next
<1>3. QED
  BY <1>1, <1>2 DEF JInv

LEMMA InvarianceJ == Spec => []JInv
BY InitJInv, NextJInv, PTL DEF Spec

\* The list that holds the arguments of an activation keeps them alive.
LEMMA HeldArgumentsLive == JInv => ArgumentsLive
<1> SUFFICES ASSUME JInv, NEW k \in DOMAIN frames, NEW n \in Names,
                    frames[k].args[n] # Nil
             PROVE  /\ heap[frames[k].args[n]].live
                    /\ k > 1
                    /\ \E i \in DOMAIN frames[k - 1].held :
                         frames[k - 1].held[i] = frames[k].args[n]
  BY DEF ArgumentsLive
<1> DEFINE o == frames[k].args[n]
           f == frames[k - 1]
<1>1. k > 1 /\ \E i \in DOMAIN f.held : f.held[i] = o
  BY DEF JInv, Activations, ArgumentsHeld
<1>2. /\ IInv /\ heap \in Seq(ObjectRecord) /\ Len(heap) \in Nat
      /\ frames \in Seq(FrameRecord(1..Len(heap), DOMAIN program))
  BY LenProperties DEF JInv, IInv, TypeOK
<1>3. k - 1 \in DOMAIN frames
  <2>1. DOMAIN frames = 1..Len(frames) /\ Len(frames) \in Nat
    BY <1>2, LenProperties
  <2>2. QED
    BY <1>1, <2>1
<1>4. f \in FrameRecord(1..Len(heap), DOMAIN program)
  BY <1>2, <1>3, LenProperties, ElementOfSeq
<1>5. f.held \in Seq(1..Len(heap))
  BY <1>4 DEF FrameRecord
<1> HIDE DEF f, o
<1>6. o \in DOMAIN heap
  <2>1. o \in 1..Len(heap)
    BY <1>1, <1>5, LenProperties, ElementOfSeq
  <2>2. QED
    BY <1>2, <2>1, LenProperties
<1>7. Count(f.held, o) \in Nat /\ Count(f.held, o) > 0
  <2>1. IsFiniteSet(DOMAIN f.held)
    BY <1>5, FiniteDomain
  <2>2. QED
    BY <1>1, <2>1, CountZero
<1>8. /\ Holders(o) >= FrameCount(f, o) /\ Holders(o) \in Nat
      /\ FrameCount(f, o) \in Nat
      /\ Count(f.held, o) <= FrameCount(f, o)
  BY <1>2, <1>3, FrameHolds DEF f
<1>9. Holders(o) > 0
  BY <1>7, <1>8
<1>10. heap[o].live
  BY <1>6, <1>8, <1>9, HeldIsLive
<1>11. QED
  BY <1>1, <1>10 DEF f, o

\* Whatever the programs are and however many lines are read: the reference
\* count of every object that was not freed is the number of places that hold
\* it, and references that leaked; nothing holds an object that was freed.
THEOREM ReferencesExact == Spec => []RefsExact
BY InvarianceJ, PTL DEF JInv

\* The arguments an activation binds in its scopes without owning them are
\* alive as long as it runs, also when its body has bound their names anew.
THEOREM ArgumentsStayLive == Spec => []ArgumentsLive
BY InvarianceJ, HeldArgumentsLive, PTL

\* A function runs only directly below the code that defines it.
THEOREM FunctionsNest == Spec => []FramesNest
BY InvarianceJ, PTL DEF JInv, Activations

\* No object that can be reached has a type deallocate_all has freed.
THEOREM TypesStayValid == Spec => []TypesValid
BY InvarianceJ, JInvTypes, PTL

-----------------------------------------------------------------------------
(* Calls end.                                                               *)

\* No block is active twice and there are never more activations than blocks:
\* runcode calls itself for a function, and its depth is bounded by the text
\* of the line.
CallDepthBounded ==
  /\ Len(frames) <= Len(program)
  /\ \A j \in DOMAIN frames, k \in DOMAIN frames :
       frames[j].block = frames[k].block => j = k

LEMMA DescendingBounds == JInv => CallDepthBounded
<1> SUFFICES ASSUME JInv PROVE CallDepthBounded
  OBVIOUS
<1>1. /\ frames \in Seq(FrameRecord(1..Len(heap), DOMAIN program))
      /\ program = <<>> \/ WellFormed(program)
      /\ Descending
  BY DEF JInv, IInv, TypeOK, Activations
<1>2. DOMAIN program = 1..Len(program) /\ Len(program) \in Nat
  BY <1>1, LenProperties DEF WellFormed
<1>3. DOMAIN frames = 1..Len(frames) /\ Len(frames) \in Nat
  BY <1>1, LenProperties
<1>4. \A k \in DOMAIN frames : frames[k].block \in 1..Len(program)
  <2>1. \A k \in DOMAIN frames :
          frames[k] \in FrameRecord(1..Len(heap), DOMAIN program)
    BY <1>1, <1>3, ElementOfSeq
  <2>2. QED
    BY <1>2, <2>1 DEF FrameRecord
<1>5. Len(frames) <= Len(program)
  <2>1. CASE Len(frames) = 0
    BY <1>2, <2>1
  <2>2. CASE Len(frames) # 0
    <3>1. Len(frames) \in DOMAIN frames
      BY <1>3, <2>2
    <3>2. frames[Len(frames)].block >= Len(frames)
      BY <1>1, <3>1 DEF Descending
    <3>3. QED
      BY <1>2, <1>3, <1>4, <3>1, <3>2
  <2>3. QED
    BY <2>1, <2>2
<1>6. ASSUME NEW j \in DOMAIN frames, NEW k \in DOMAIN frames,
             frames[j].block = frames[k].block
      PROVE  j = k
  <2>1. j < k \/ k < j \/ j = k
    BY <1>3
  <2>2. /\ j < k => frames[j].block < frames[k].block
        /\ k < j => frames[k].block < frames[j].block
    BY <1>1 DEF Descending
  <2>3. frames[j].block \in Nat /\ frames[k].block \in Nat
    BY <1>2, <1>4
  <2>4. QED
    BY <1>6, <2>1, <2>2, <2>3
<1>7. QED
  BY <1>5, <1>6 DEF CallDepthBounded

\* No function ever calls itself, directly or through others.
THEOREM CallsAreBounded == Spec => []CallDepthBounded
BY InvarianceJ, DescendingBounds, PTL

-----------------------------------------------------------------------------
(* Calls and returns: the places the activations have come to.              *)

\* How much of the stack a call leaves.
LEMMA CallLeaves ==
  ASSUME IInv, Executing({"CALLB"})
  PROVE  /\ Left \in Seq(ThisLine) /\ Taken \in Seq(ThisLine)
         /\ Len(Left) = Len(Top.stack) - Takes(Instr)
         /\ Len(Top.stack) \in Nat /\ Takes(Instr) \in Nat
         /\ Gives(Instr) = 1 /\ Opens(Instr) = 0
<1>1. /\ status = "running" /\ ~AtEnd /\ ~StackUnderflow
      /\ Instr.op = "CALLB" /\ Instr \in Instruction(DOMAIN program)
      /\ Top.stack \in Seq(ThisLine) /\ Len(Top.stack) \in Nat
  BY ExecutingFacts
<1>2. PICK n \in Nat : n = Instr.argscount
  BY <1>1, InstructionTypes
<1>3. Takes(Instr) = n + 1 /\ Gives(Instr) = 1 /\ Opens(Instr) = 0
  BY <1>1, <1>2, InstructionTable
<1>4. n + 1 \in Nat /\ n + 1 <= Len(Top.stack)
  BY <1>1, <1>2, <1>3 DEF StackUnderflow, Needed
<1>5. Len(Left) = Len(Top.stack) - (n + 1)
  BY <1>1, <1>2, <1>4, DropType DEF Left
<1>6. Left \in Seq(ThisLine) /\ Taken \in Seq(ThisLine)
  BY CallTaken
<1> QED
  BY <1>1, <1>3, <1>4, <1>5, <1>6

LEMMA CallPrintEffect ==
  ASSUME IInv, CallPrint
  PROVE  Effect
<1> DEFINE none == meta.none_obj
           i == Incref(heap, none)
           h == Release(i, Taken)
           stack == Append(Left, none)
<1>1. Executing({"CALLB"}) /\ status = "running" /\ ~AtEnd
  BY ExecutingFacts DEF CallPrint
<1>2. /\ Left \in Seq(ThisLine) /\ Taken \in Seq(ThisLine)
      /\ Len(Left) = Len(Top.stack) - Takes(Instr)
      /\ Len(Top.stack) \in Nat /\ Takes(Instr) \in Nat
      /\ Gives(Instr) = 1 /\ Opens(Instr) = 0
  BY <1>1, CallLeaves
<1>3. none \in ThisLine
  BY <1>1 DEF IInv, LinesIsolated, TypeOK
<1>4. LineHeap(i)
  BY <1>1, <1>3, LineHeapNow, LineHeapCount
<1>5. NoneLost(heap, i)
  BY HeapNow
<1>6. Step([Top EXCEPT !.stack = stack], h)
  BY DEF CallPrint, Taken, Left
<1> HIDE DEF none, i
<1>7. NoneLost(heap, h)
  <2>1. NoneLost(i, h)
    BY <1>4, CountsKeepLost DEF LineHeap
  <2> QED
    BY <1>5, <2>1, NoneLostTwice
<1>8. stack \in Seq(ThisLine) /\ Len(stack) = Len(Left) + 1
  BY <1>2, <1>3, AppendProperties
<1> HIDE DEF h, stack
<1>9. stack \in Seq(Nat)
  BY <1>1, <1>8, Numbers
<1>10. Len(stack) = Len(Top.stack) + (Gives(Instr) - Takes(Instr))
  BY <1>2, <1>8
<1> QED
  BY <1>1, <1>2, <1>6, <1>7, <1>9, <1>10, StackEffect

LEMMA CallFunctionSettles ==
  ASSUME IInv, StacksFollowCode, CallFunction
  PROVE  StacksFollowCode' /\ Forward(frames')
<1> DEFINE n == Len(frames)
           fs == Append(Below, Callee)
<1>1. /\ Executing({"CALLB"}) /\ status = "running"
      /\ frames' = fs /\ program' = program
      /\ frames \in Seq(LineFrame) /\ n \in Nat \ {0}
      /\ Caller \in LineFrame /\ Caller.stack = Left
      /\ Caller.block = Top.block /\ Caller.scopes = Top.scopes
      /\ Callee \in LineFrame /\ Callee.stack = <<>> /\ Callee.scopes = <<>>
      /\ Below \in Seq(LineFrame) /\ Len(Below) = n
      /\ Below[n] = Caller
      /\ \A j \in 1..n : j # n => Below[j] = frames[j]
  BY CallFrames
<1>2. Top \in LineFrame /\ Caller.pc = Top.pc /\ Callee.pc = 1
  BY <1>1, TopFacts DEF LineFrame, FrameRecord, Caller, Callee, Activation
<1>3. /\ Len(fs) = n + 1 /\ fs[n + 1] = Callee
      /\ \A j \in 1..n : fs[j] = Below[j]
      /\ fs \in Seq(LineFrame)
  BY <1>1, AppendProperties
<1>4. DOMAIN fs = 1..n + 1 /\ DOMAIN frames = 1..n
  BY <1>3, <1>1, LenProperties
<1>5. /\ Instr.op = "CALLB" /\ ~AtEnd
      /\ Len(Left) = Len(Top.stack) - Takes(Instr)
      /\ Len(Top.stack) \in Nat /\ Takes(Instr) \in Nat
  BY <1>1, CallLeaves, ExecutingFacts
<1>6. Code \in Seq(Instruction(DOMAIN program))
  BY <1>1, TopFacts
<1>7. Settled(Top, FALSE)
  <2>1. (n < n) = FALSE /\ n \in 1..n
    BY <1>1
  <2>2. Settled(frames[n], n < n)
    BY <1>4, <2>1, AllSettled
  <2> QED
    BY <2>1, <2>2 DEF Top
<1>8. Settled(Caller, TRUE)
  <2>1. Top.pc <= Len(Code) /\ Top.pc \in 1..Len(Code)
    BY <1>2, <1>5, <1>6, LenProperties DEF AtEnd, LineFrame, FrameRecord
  <2>2. Len(Top.stack) = Heights(Code)[Top.pc - 1] - 0
        /\ Len(Top.scopes) = Depths(Code)[Top.pc - 1]
        /\ Top.pc \in 1..Len(Code) + 1
    BY <1>7 DEF Settled, Code
  <2>3. Heights(Code)[Top.pc - 1] \in Int
    <3>1. Top.pc - 1 \in 0..Len(Code) /\ Heights(Code) \in [0..Len(Code) -> Int]
      BY <1>6, <2>1, CodeAddsUp
    <3> QED
      BY <3>1
  <2>4. Len(Left) = Heights(Code)[Top.pc - 1] - Takes(Code[Top.pc])
        /\ Code[Top.pc].op = "CALLB"
    BY <1>5, <2>2, <2>3 DEF Instr
  <2>5. program[Caller.block] = Code
    BY <1>1 DEF Code
  <2> QED
    BY <1>1, <1>2, <2>1, <2>2, <2>4, <2>5 DEF Settled
<1>9. Settled(Callee, FALSE)
  <2> DEFINE code == program[Callee.block]
  <2>1. code \in Seq(Instruction(DOMAIN program))
    <3>1. Callee.block \in DOMAIN program
      BY <1>1 DEF LineFrame, FrameRecord
    <3>2. program \in Seq(Seq(Instruction(DOMAIN program)))
      BY <1>1 DEF IInv, Running, WellFormed
    <3> QED
      BY <3>1, <3>2, ElementOfSeq, LenProperties
  <2>2. Len(code) \in Nat /\ Heights(code)[0] = 0 /\ Depths(code)[0] = 0
    BY <2>1, CodeAddsUp
  <2>3. Len(Callee.stack) = 0 /\ Len(Callee.scopes) = 0
    BY <1>1, EmptySeq
  <2> HIDE DEF code
  <2>4. /\ 1 \in 1..Len(code) + 1 /\ 1 - 1 = 0
        /\ Len(Callee.stack) = Heights(code)[1 - 1] - 0
        /\ Len(Callee.scopes) = Depths(code)[1 - 1]
    BY <2>2, <2>3
  <2> QED
    BY <1>2, <2>4 DEF Settled, code
<1>10. ASSUME NEW k \in 1..n PROVE Settled(fs[k], TRUE)
  <2>1. CASE k = n
    BY <1>1, <1>3, <1>8, <2>1
  <2>2. CASE k # n
    <3>1. (k < n) = TRUE
      BY <1>1, <2>2
    <3>2. Settled(frames[k], k < n)
      BY <1>4, AllSettled
    <3>3. fs[k] = frames[k]
      BY <1>1, <1>3, <2>2
    <3> QED
      BY <3>1, <3>2, <3>3
  <2> QED
    BY <2>1, <2>2
<1> HIDE DEF fs, n
<1>11. StacksFollowCode'
  <2>1. ASSUME NEW k \in 1..n + 1 PROVE Settled(fs[k], k < n + 1)
    <3>1. CASE k = n + 1
      <4>1. (k < n + 1) = FALSE
        BY <1>1, <3>1
      <4> QED
        BY <1>3, <1>9, <3>1, <4>1
    <3>2. CASE k # n + 1
      <4>1. (k < n + 1) = TRUE /\ k \in 1..n
        BY <1>1, <3>2
      <4> QED
        BY <1>10, <4>1
    <3> QED
      BY <3>1, <3>2
  <2> QED
    BY <1>1, <1>3, <1>4, <2>1 DEF StacksFollowCode, Settled
<1>12. Forward(fs)
  <2>1. n + 1 \in DOMAIN fs /\ n + 1 <= Len(frames) + 1 /\ ~(n + 1 <= Len(frames))
        /\ (n + 1) - 1 = n
    BY <1>1, <1>4 DEF n
  <2>2. \A j \in 1..n : /\ fs[j].block = frames[j].block
                        /\ fs[j].pc = frames[j].pc
    BY <1>1, <1>2, <1>3 DEF n, Top
  <2> QED
    BY <2>1, <2>2 DEF Forward
<1> QED
  BY <1>1, <1>11, <1>12

LEMMA ReturnSettles ==
  ASSUME IInv, StacksFollowCode, Return
  PROVE  StacksFollowCode' /\ Forward(frames')
<1> DEFINE n == Len(frames) - 1
           below == Drop(frames, 1)
           fs == Resuming
<1>1. /\ status = "running" /\ program' = program /\ frames' = fs
      /\ frames \in Seq(LineFrame) /\ Len(frames) \in Nat
      /\ n \in Nat \ {0} /\ Waiting \in LineFrame /\ Result \in ThisLine
      /\ below \in Seq(LineFrame) /\ Len(below) = n
      /\ \A j \in 1..n : below[j] = frames[j]
      /\ Resumed \in LineFrame
      /\ Resumed.stack = Append(Waiting.stack, Result)
      /\ Resumed.scopes = Waiting.scopes /\ Resumed.block = Waiting.block
  BY ReturnFrames
<1>2. Resumed.pc = Waiting.pc + 1 /\ Waiting.pc \in Nat \ {0}
  BY <1>1 DEF LineFrame, FrameRecord, Resumed
<1>3. fs = [below EXCEPT ![n] = Resumed] /\ Waiting = frames[n]
  BY DEF Resuming, Waiting
<1>4. Len(frames) = n + 1 /\ n \in 1..n /\ DOMAIN frames = 1..n + 1
  BY <1>1, LenProperties
<1> HIDE DEF fs, below, n
<1>5. /\ fs \in Seq(LineFrame) /\ Len(fs) = n /\ DOMAIN fs = 1..n
      /\ fs[n] = Resumed
      /\ \A j \in 1..n : j # n => fs[j] = frames[j]
  <2>1. /\ fs \in Seq(LineFrame) /\ Len(fs) = n /\ fs[n] = Resumed
        /\ \A j \in 1..n : j # n => fs[j] = below[j]
    BY <1>1, <1>3, <1>4, ExceptSeq
  <2> QED
    BY <1>1, <2>1, LenProperties
<1>6. \A j \in 1..n : Settled(frames[j], TRUE)
  <2>1. ASSUME NEW j \in 1..n PROVE Settled(frames[j], TRUE)
    <3>1. (j < Len(frames)) = TRUE /\ j \in DOMAIN frames
      BY <1>1, <1>4
    <3>2. Settled(frames[j], j < Len(frames))
      BY <3>1, AllSettled
    <3> QED
      BY <3>1, <3>2
  <2> QED
    BY <2>1
<1>7. Settled(Resumed, FALSE)
  <2> DEFINE code == program[Waiting.block]
             i == Waiting.pc
  <2>1. code \in Seq(Instruction(DOMAIN program))
    <3>1. Waiting.block \in DOMAIN program
      BY <1>1 DEF LineFrame, FrameRecord
    <3>2. program \in Seq(Seq(Instruction(DOMAIN program)))
      BY <1>1 DEF IInv, Running, WellFormed
    <3> QED
      BY <3>1, <3>2, ElementOfSeq, LenProperties
  <2>2. /\ i \in 1..Len(code) + 1 /\ i <= Len(code) /\ code[i].op = "CALLB"
        /\ Len(Waiting.stack) = Heights(code)[i - 1] - Takes(code[i])
        /\ Len(Waiting.scopes) = Depths(code)[i - 1]
    <3>1. Settled(Waiting, TRUE)
      BY <1>3, <1>4, <1>6
    <3> QED
      BY <3>1 DEF Settled
  <2> HIDE DEF code
  <2>3. Len(code) \in Nat /\ i \in 1..Len(code)
    <3>1. Len(code) \in Nat
      BY <2>1, CodeAddsUp
    <3> QED
      BY <3>1, <2>2
  <2>4. /\ code[i] \in Instruction(DOMAIN program)
        /\ Heights(code)[i] = Heights(code)[i - 1] + (Gives(code[i]) - Takes(code[i]))
        /\ Depths(code)[i] = Depths(code)[i - 1] + Opens(code[i])
    BY <2>1, <2>3, CodeAddsUp
  <2>5. /\ Heights(code)[i - 1] \in Int /\ Depths(code)[i - 1] \in Int
        /\ Takes(code[i]) \in Nat
        /\ Gives(code[i]) = 1 /\ Opens(code[i]) = 0
    <3>1. /\ i - 1 \in 0..Len(code) /\ Heights(code) \in [0..Len(code) -> Int]
          /\ Depths(code) \in [0..Len(code) -> Int]
      BY <2>1, <2>3, CodeAddsUp
    <3> QED
      BY <2>2, <2>4, <3>1, InstructionChanges, InstructionTable
  <2>6. Len(Resumed.stack) = Len(Waiting.stack) + 1
    <3> DEFINE w == Waiting.stack
    <3>1. w \in Seq(ThisLine) /\ Resumed.stack = Append(w, Result)
      BY <1>1 DEF LineFrame, FrameRecord
    <3> HIDE DEF w
    <3> QED
      BY <1>1, <3>1, AppendProperties DEF w
  <2> HIDE DEF i
  <2>7. Resumed.pc = i + 1 /\ (i + 1) - 1 = i /\ i + 1 \in 1..Len(code) + 1
    BY <1>2, <2>3 DEF i
  <2>8. Len(Resumed.stack) = Heights(code)[i] - 0
        /\ Len(Resumed.scopes) = Depths(code)[i]
    BY <1>1, <2>2, <2>4, <2>5, <2>6
  <2>9. program[Resumed.block] = code
    BY <1>1 DEF code
  <2> QED
    BY <2>7, <2>8, <2>9 DEF Settled
<1>8. StacksFollowCode'
  <2>1. ASSUME NEW k \in 1..n PROVE Settled(fs[k], k < n)
    <3>1. CASE k = n
      <4>1. (k < n) = FALSE
        BY <1>1, <3>1
      <4> QED
        BY <1>5, <1>7, <3>1, <4>1
    <3>2. CASE k # n
      <4>1. (k < n) = TRUE
        BY <1>1, <3>2
      <4> QED
        BY <1>5, <1>6, <3>2, <4>1
    <3> QED
      BY <3>1, <3>2
  <2> QED
    BY <1>1, <1>5, <2>1 DEF StacksFollowCode, Settled
<1>9. Forward(fs)
  <2>1. /\ n \in DOMAIN fs /\ n <= Len(frames) + 1
        /\ \A j \in 1..n - 1 : j \in 1..n /\ j # n
    BY <1>1, <1>4, <1>5
  <2>2. /\ fs[n].block = frames[n].block /\ fs[n].pc > frames[n].pc
    BY <1>1, <1>2, <1>3, <1>5
  <2> QED
    BY <1>5, <2>1, <2>2 DEF Forward
<1> QED
  BY <1>1, <1>8, <1>9

LEMMA RunSettles ==
  ASSUME NEW p \in Programs, Run(p)
  PROVE  StacksFollowCode'
<1> DEFINE f == Activation(1, EmptyScope)
<1>1. frames' = <<f>> /\ program' = p
  BY DEF Run
<1>2. f.pc = 1 /\ f.block = 1 /\ f.stack = <<>> /\ f.scopes = <<>>
  BY DEF Activation
<1>3. p[1] \in Seq(Instruction(DOMAIN p))
  <2>1. p \in Seq(Seq(Instruction(DOMAIN p))) /\ p # <<>>
    BY ProgramsAssumption DEF WellFormed
  <2>2. 1 \in 1..Len(p)
    BY <2>1, EmptySeq, LenProperties
  <2> QED
    BY <2>1, <2>2, ElementOfSeq
<1> DEFINE code == p[1]
<1>4. Len(code) \in Nat /\ Heights(code)[0] = 0 /\ Depths(code)[0] = 0
  BY <1>3, CodeAddsUp
<1> HIDE DEF f
<1>5. /\ DOMAIN frames' = {1} /\ Len(frames') = 1 /\ frames'[1] = f
      /\ Len(f.stack) = 0 /\ Len(f.scopes) = 0
  BY <1>1, <1>2
<1> HIDE DEF code
<1>6. /\ f.pc \in 1..Len(code) + 1 /\ f.pc - 1 = 0 /\ ~(1 < 1)
      /\ Len(f.stack) = Heights(code)[f.pc - 1] - 0
      /\ Len(f.scopes) = Depths(code)[f.pc - 1]
  BY <1>2, <1>4, <1>5
<1> QED
  BY <1>1, <1>2, <1>5, <1>6 DEF StacksFollowCode, code

LEMMA ExecuteSettles ==
  ASSUME IInv, StacksFollowCode, Execute, status' = "running"
  PROVE  StacksFollowCode' /\ Forward(frames')
<1>1. CASE \/ PushLiteral \/ PushSingleton \/ LoadId \/ SetName
           \/ Binary \/ Negate \/ UnaryPlus \/ PopObject
           \/ StartGlobalScope \/ StartScope \/ EndScope
           \/ Ret \/ DefineFunction \/ Ignored \/ CallPrint
  <2>1. Effect
    BY <1>1, PushLiteralEffect, PushSingletonEffect, LoadIdEffect, SetNameEffect,
       BinaryEffect, NegateEffect, UnaryPlusEffect, PopObjectEffect,
       StartGlobalScopeEffect, StartScopeEffect, EndScopeEffect,
       DefineFunctionEffect, IdleEffect, CallPrintEffect
  <2>2. PICK f, h : Step(f, h) /\ Advances(f)
    BY <2>1 DEF Effect
  <2> QED
    BY <2>1, <2>2, StepSettles DEF Effect
<1>2. CASE CallFunction
  BY <1>2, CallFunctionSettles
<1>3. CASE Return
  BY <1>3, ReturnSettles
<1>4. ~Finish /\ ~Fault
  BY DEF Finish, Fault, Abort
<1> QED
  BY <1>1, <1>2, <1>3, <1>4 DEF Execute

LEMMA NextSettled ==
  ASSUME IInv, StacksFollowCode, [Next]_vars
  PROVE  StacksFollowCode'
<1>1. CASE \E p \in Programs : Run(p)
  BY <1>1, RunSettles
<1>2. CASE Execute
  <2>1. CASE Finish
    <3>1. frames' = <<>>
      BY <2>1 DEF Finish
    <3>2. DOMAIN frames' = {}
      BY <3>1
    <3> QED
      BY <3>2 DEF StacksFollowCode
  <2>2. CASE Fault
    <3>1. UNCHANGED <<frames, program>>
      BY <2>2 DEF Fault, Abort
    <3> QED
      BY <3>1 DEF StacksFollowCode
  <2>3. CASE ~Finish /\ ~Fault
    <3>1. status' = "running"
      BY <1>2, <2>3 DEF Execute, PushLiteral, PushSingleton, LoadId, SetName,
         Binary, Negate, UnaryPlus, PopObject, StartGlobalScope, StartScope,
         EndScope, Ret, DefineFunction, Ignored, CallPrint, CallFunction, Return,
         Executing, PushNew, Step
    <3> QED
      BY <1>2, <3>1, ExecuteSettles
  <2> QED
    BY <2>1, <2>2, <2>3
<1>3. CASE Exit \/ UNCHANGED vars
  <2>1. UNCHANGED <<frames, program>>
    BY <1>3 DEF Exit, vars
  <2> QED
    BY <2>1 DEF StacksFollowCode
<1> QED
  BY <1>1, <1>2, <1>3 DEF Next

LEMMA NextForward ==
  ASSUME IInv, StacksFollowCode, [Next]_vars
  PROVE  [status = "running" /\ status' = "running" => Forward(frames')]_vars
<1>1. ASSUME status = "running", status' = "running", Next
      PROVE  Forward(frames')
  <2>1. Execute
    BY <1>1 DEF Next, Run, Exit
  <2> QED
    BY <1>1, <2>1, ExecuteSettles
<1> QED
  BY <1>1

LEMMA InvarianceSettled == Spec => [](IInv /\ StacksFollowCode)
<1>1. Init => IInv /\ StacksFollowCode
  <2>1. Init => DOMAIN frames = {}
    BY DEF Init
  <2> QED
    BY <2>1, InitIInv DEF StacksFollowCode
<1>2. IInv /\ StacksFollowCode /\ [Next]_vars => IInv' /\ StacksFollowCode'
  BY NextIInv, NextSettled
<1> QED
  BY <1>1, <1>2, PTL DEF Spec

\* How many values and scopes an activation has follows from the place it has
\* come to.
THEOREM StacksAreSettled == Spec => []StacksFollowCode
BY InvarianceSettled, PTL

\* No step goes back: an activation moves on or one more is added.
THEOREM RunsGoForward == Spec => RunsForward
<1> DEFINE A == status = "running" /\ status' = "running" => Forward(frames')
<1>1. IInv /\ StacksFollowCode /\ [Next]_vars => [A]_vars
  BY NextForward
<1>2. Spec => [][A]_vars
  BY <1>1, InvarianceSettled, PTL DEF Spec
<1> QED
  BY <1>2 DEF RunsForward, Forward

-----------------------------------------------------------------------------
(* Programs whose code adds up.                                             *)

\* Where a body ends there is one value on the stack, where the top level ends
\* there is none.
LEMMA EndHeight ==
  ASSUME JInv, StacksFollowCode, status = "running", Balanced(program)
  PROVE  /\ AtEnd /\ Len(frames) = 1 => Len(Top.stack) = 0
         /\ AtEnd /\ Len(frames) # 1 => Len(Top.stack) = 1
         /\ ~AtEnd => Len(Top.stack) >= Takes(Instr)
         /\ ~AtEnd /\ Instr.op \in ScopeOps => Len(Top.scopes) > 0
<1> DEFINE n == Len(frames)
           code == program[Top.block]
           i == Top.pc
<1>1. IInv /\ Descending /\ n \in Nat \ {0} /\ Top = frames[n]
      /\ DOMAIN frames = 1..n /\ Code = code /\ Code \in Seq(Instruction(DOMAIN program))
      /\ Top.block \in DOMAIN program
  <2>1. IInv /\ Descending
    BY DEF JInv, Activations
  <2>2. n \in Nat \ {0} /\ Top \in FrameRecord(ThisLine, DOMAIN program)
        /\ Code \in Seq(Instruction(DOMAIN program))
    BY <2>1, TopFacts
  <2>3. DOMAIN frames = 1..n
    BY <2>1, LenProperties DEF IInv, TypeOK
  <2> QED
    BY <2>1, <2>2, <2>3 DEF Top, Code, FrameRecord
<1>2. Settled(Top, FALSE)
  <2>1. (n < n) = FALSE /\ n \in 1..n
    BY <1>1
  <2>2. Settled(frames[n], n < n)
    BY <1>1, <2>1, AllSettled
  <2> QED
    BY <1>1, <2>1, <2>2
<1>3. /\ Len(code) \in Nat /\ DOMAIN code = 1..Len(code)
      /\ Heights(code) \in [0..Len(code) -> Int]
      /\ Depths(code) \in [0..Len(code) -> Int]
  BY <1>1, CodeAddsUp, LenProperties
<1>4. /\ i \in 1..Len(code) + 1
      /\ Len(Top.stack) = Heights(code)[i - 1] - 0
      /\ Len(Top.scopes) = Depths(code)[i - 1]
  BY <1>2 DEF Settled
<1>5. i - 1 \in 0..Len(code) /\ Heights(code)[i - 1] \in Int
  BY <1>3, <1>4
<1>6. Len(Top.stack) = Heights(code)[i - 1]
  BY <1>4, <1>5
<1>7. /\ Heights(code)[Len(code)] = IF Top.block = 1 THEN 0 ELSE 1
      /\ \A j \in 1..Len(code) :
           /\ Heights(code)[j - 1] >= Takes(code[j])
           /\ code[j].op \in ScopeOps => Depths(code)[j - 1] > 0
  BY <1>1, <1>3 DEF Balanced
<1>8. Instr = code[i] /\ (AtEnd <=> i > Len(code))
  BY DEF Instr, AtEnd, Code
<1>9. (n = 1) <=> (Top.block = 1)
  <2>1. frames[1].block = 1
    BY DEF JInv, IInv, GlobalScopeOpen
  <2>2. n # 1 => frames[1].block < Top.block
    <3>1. n # 1 => 1 \in 1..n /\ n \in 1..n /\ 1 < n
      BY <1>1
    <3> QED
      BY <1>1, <3>1 DEF Descending
  <2> QED
    BY <1>1, <2>1, <2>2
<1> HIDE DEF n, code, i
<1>10. CASE ~AtEnd
  <2>1. i \in 1..Len(code)
    BY <1>3, <1>4, <1>8, <1>10
  <2> QED
    BY <1>4, <1>6, <1>7, <1>8, <1>10, <2>1
<1>11. CASE AtEnd
  <2>1. i - 1 = Len(code)
    BY <1>3, <1>4, <1>8, <1>11
  <2> QED
    BY <1>6, <1>7, <1>9, <1>11, <2>1 DEF n
<1> QED
  BY <1>10, <1>11

\* What the machine would need is there.
LEMMA NotShort ==
  ASSUME JInv, StacksFollowCode, status = "running", Balanced(program)
  PROVE  ~StackUnderflow /\ ~NoScope
<1>1. IInv /\ Len(Top.stack) \in Nat
  BY Numbers DEF JInv
<1>2. ~StackUnderflow
  <2>1. CASE AtEnd
    <3>1. Needed = IF Len(frames) = 1 THEN 0 ELSE 1
      BY <2>1 DEF Needed
    <3>2. Len(Top.stack) = Needed
      BY <2>1, <3>1, EndHeight
    <3> QED
      BY <1>1, <3>2 DEF StackUnderflow
  <2>2. CASE ~AtEnd
    <3>1. Needed = Takes(Instr) /\ Takes(Instr) \in Nat
      BY <1>1, <2>2, TopFacts, InstructionChanges DEF Needed
    <3> QED
      BY <1>1, <2>2, <3>1, EndHeight DEF StackUnderflow
  <2> QED
    BY <2>1, <2>2
<1>3. ~NoScope
  <2> SUFFICES ASSUME At(ScopeOps), Top.scopes = <<>> PROVE FALSE
    BY DEF NoScope
  <2>1. Len(Top.scopes) > 0
    BY EndHeight DEF At
  <2>2. Len(Top.scopes) = 0
    BY EmptySeq
  <2> QED
    BY <2>1, <2>2
<1> QED
  BY <1>2, <1>3

\* No reference of a line whose code adds up is lost, but references to none.
LeaksNone ==
  status = "running" /\ Balanced(program) =>
    \A o \in ThisLine : o # meta.none_obj => heap[o].lost = 0

\* A machine that goes on met nothing undefined; a stack ran out and a scope
\* was missing only under code that does not add up.
FaultCause ==
  /\ status # "faulted" => fault = "none"
  /\ fault \in {"stack_underflow", "no_scope"} => ~Balanced(program)

BInv == JInv /\ StacksFollowCode /\ LeaksNone /\ FaultCause

LEMMA EffectLeaksNone ==
  ASSUME IInv, IInv', LeaksNone, Effect
  PROVE  LeaksNone'
<1>1. PICK f, h : Step(f, h) /\ NoneLost(heap, h)
  BY DEF Effect
<1>2. UNCHANGED <<program, meta, status>> /\ heap' = h /\ status = "running"
  BY <1>1 DEF Step, Effect
<1>3. DOMAIN heap = 1..Len(heap) /\ Len(heap) \in Nat /\ meta.false_obj \in Nat \ {0}
  BY <1>2, LenProperties DEF IInv, TypeOK, Running
<1>4. \A o \in ThisLine' : o \in DOMAIN h /\ (o \in DOMAIN heap => o \in ThisLine)
  <2>1. ThisLine' = meta.false_obj..Len(h) /\ ThisLine = meta.false_obj..Len(heap)
    BY <1>2 DEF ThisLine
  <2>2. DOMAIN h = 1..Len(h) /\ Len(h) \in Nat
    BY <1>2, LenProperties DEF IInv, TypeOK
  <2> DEFINE first == meta.false_obj
             m == Len(heap)
             n == Len(h)
  <2>3. first \in Nat \ {0} /\ m \in Nat /\ n \in Nat
    BY <1>3, <2>2
  <2> HIDE DEF first, m, n
  <2>4. \A o \in first..n : o \in 1..n /\ (o \in 1..m => o \in first..m)
    BY <2>3
  <2> QED
    BY <1>3, <2>1, <2>2, <2>4 DEF first, m, n
<1> QED
  BY <1>1, <1>2, <1>4 DEF LeaksNone, NoneLost

LEMMA LostKept ==
  ASSUME NEW h \in Seq(ObjectRecord), NEW f, NEW o \in DOMAIN h
  PROVE  Release(h, f)[o].lost = h[o].lost /\ Acquire(h, f)[o].lost = h[o].lost
BY CountsKeepLost DEF NoneLost

LEMMA LoseNothing ==
  ASSUME NEW h \in Seq(ObjectRecord), NEW f, IsFiniteSet(DOMAIN f),
         NEW o \in DOMAIN h, Count(f, o) = 0
  PROVE  Lose(h, f)[o].lost = h[o].lost
<1>1. h[o] \in ObjectRecord /\ h[o].lost \in Nat
  BY HeapFields
<1>2. Lose(h, f)[o] = [h[o] EXCEPT !.lost = h[o].lost + 0]
  BY DEF Lose
<1>3. [h[o] EXCEPT !.lost = h[o].lost + 0].lost = h[o].lost
  <2> DEFINE n == h[o].lost + 0
  <2>1. n \in Nat /\ n = h[o].lost
    BY <1>1
  <2> HIDE DEF n
  <2> QED
    BY <1>1, <2>1, FieldsChanged DEF n
<1> QED
  BY <1>2, <1>3

LEMMA ReturnLeaksNone ==
  ASSUME JInv, StacksFollowCode, LeaksNone, Return
  PROVE  LeaksNone'
<1> DEFINE rest == Drop(Top.stack, 1)
           names == AllNames(Top.scopes)
           h1 == Lose(heap, rest)
           h3 == Acquire(Closed, Surplus)
           h4 == Lose(h3, Surplus)
           h5 == Release(h4, Waiting.held)
<1>1. /\ IInv /\ status = "running" /\ UNCHANGED <<program, meta, status>>
      /\ heap' = h5 /\ Top \in LineFrame /\ Waiting \in LineFrame
      /\ rest \in Seq(ThisLine) /\ heap \in Seq(ObjectRecord)
      /\ Result \in ThisLine /\ Top.stack \in Seq(ThisLine)
  BY ReturnFrames DEF JInv, IInv, TypeOK
<1> SUFFICES ASSUME Balanced(program) PROVE LeaksNone'
  BY <1>1 DEF LeaksNone
<1>2. rest = <<>>
  <2>1. AtEnd /\ Len(frames) # 1
    <3>1. AtEnd /\ Len(frames) > 1 /\ Len(frames) \in Nat
      BY <1>1, ReturnFrames DEF Return
    <3>2. \A n \in Nat : n > 1 => n # 1
      OBVIOUS
    <3> QED
      BY ONLY <3>1, <3>2
  <2>2. Len(Top.stack) = 1
    BY <1>1, <2>1, EndHeight
  <2>3. Len(rest) = 0
    <3>1. 1 <= Len(Top.stack) /\ Top.stack \in Seq(ThisLine)
      BY <1>1, <2>2
    <3>2. Len(Drop(Top.stack, 1)) = Len(Top.stack) - 1
      BY <3>1, DropType
    <3> QED
      BY <2>2, <3>2
  <2> HIDE DEF rest
  <2> QED
    BY <1>1, <2>3, EmptySeq
<1>3. /\ IsFiniteSet(DOMAIN rest) /\ IsFiniteSet(DOMAIN names)
      /\ IsFiniteSet(DOMAIN Waiting.held)
      /\ \A o : Count(rest, o) = 0
  BY <1>1, <1>2, FiniteDomain, FrameFinite, CountEmpty DEF LineFrame, FrameRecord
<1>4. IsFiniteSet(DOMAIN Surplus) /\ \A o : o # meta.none_obj => Count(Surplus, o) = 0
  <2>1. Surplus \in Seq(ThisLine)
    BY <1>1, EmptySeq DEF Surplus
  <2>2. IsFiniteSet(DOMAIN Surplus)
    BY <2>1, FiniteDomain
  <2>3. ASSUME NEW o, o # meta.none_obj PROVE Count(Surplus, o) = 0
    <3>1. CASE Result = meta.none_obj
      <4>1. Surplus = <<Result>>
        BY <3>1 DEF Surplus
      <4>2. Count(<<Result>>, o) = One(Result, o)
        BY CountOne
      <4> QED
        BY <2>3, <3>1, <4>1, <4>2 DEF One
    <3>2. CASE Result # meta.none_obj
      <4>1. Surplus = <<>>
        BY <3>2 DEF Surplus
      <4> QED
        BY <4>1, CountEmpty
    <3> QED
      BY <3>1, <3>2
  <2> QED
    BY <2>2, <2>3
<1>5. Closed = Release(h1, names)
  BY DEF Closed
<1>6. /\ LineHeap(h1) /\ LineHeap(Closed) /\ LineHeap(h3) /\ LineHeap(h4)
      /\ LineHeap(h5) /\ Len(h5) = Len(heap)
  <2>1. LineHeap(h1) /\ Len(h1) = Len(heap)
    BY <1>1, <1>3, LineHeapNow, LineHeapCounts
  <2> HIDE DEF h1
  <2>2. LineHeap(Closed) /\ Len(Closed) = Len(heap)
    BY <1>1, <1>3, <1>5, <2>1, LineHeapCounts
  <2>3. LineHeap(h3) /\ Len(h3) = Len(heap)
    BY <1>1, <1>4, <2>2, LineHeapCounts
  <2> HIDE DEF h3
  <2>4. LineHeap(h4) /\ Len(h4) = Len(heap)
    BY <1>1, <1>4, <2>3, LineHeapCounts
  <2> HIDE DEF h4
  <2>5. LineHeap(h5) /\ Len(h5) = Len(heap)
    BY <1>1, <1>3, <2>4, LineHeapCounts
  <2> QED
    BY <2>1, <2>2, <2>3, <2>4, <2>5
<1>7. DOMAIN h1 = DOMAIN heap /\ DOMAIN Closed = DOMAIN heap
      /\ DOMAIN h3 = DOMAIN heap /\ DOMAIN h4 = DOMAIN heap
  <2>1. DOMAIN h1 = DOMAIN heap
    BY DEF Lose
  <2>2. DOMAIN Closed = DOMAIN h1
    BY <1>5 DEF Release
  <2>3. DOMAIN h3 = DOMAIN Closed
    BY DEF Acquire
  <2>4. DOMAIN h4 = DOMAIN h3
    BY DEF Lose
  <2> QED
    BY <2>1, <2>2, <2>3, <2>4
<1> HIDE DEF rest, names, h1, h3, h4, h5
<1>8. ASSUME NEW o \in DOMAIN heap, o # meta.none_obj
      PROVE  h5[o].lost = heap[o].lost
  <2>1. h1[o].lost = heap[o].lost
    BY <1>1, <1>3, LoseNothing DEF h1
  <2>2. Closed[o].lost = h1[o].lost
    BY <1>5, <1>6, <1>7, LostKept DEF LineHeap
  <2>3. h3[o].lost = Closed[o].lost
    BY <1>6, <1>7, LostKept DEF LineHeap, h3
  <2>4. h4[o].lost = h3[o].lost
    <3>1. Count(Surplus, o) = 0 /\ h3 \in Seq(ObjectRecord) /\ o \in DOMAIN h3
      BY <1>4, <1>6, <1>7, <1>8 DEF LineHeap
    <3> QED
      BY <1>4, <3>1, LoseNothing DEF h4
  <2>5. h5[o].lost = h4[o].lost
    BY <1>6, <1>7, LostKept DEF LineHeap, h5
  <2> QED
    BY <2>1, <2>2, <2>3, <2>4, <2>5
<1>9. ThisLine' = ThisLine /\ ThisLine \subseteq DOMAIN heap
  BY <1>1, <1>6, LenProperties DEF ThisLine, IInv, Running
<1> QED
  BY <1>1, <1>8, <1>9 DEF LeaksNone

LEMMA RunLeaksNone ==
  ASSUME TypeOK, TypeOK', NEW p \in Programs, Run(p)
  PROVE  LeaksNone'
<1> DEFINE n == Len(heap)
<1>1. /\ n \in Nat /\ DOMAIN heap' = 1..(n + 3)
      /\ heap'[n + 1].lost = 0 /\ heap'[n + 2].lost = 0 /\ heap'[n + 3].lost = 0
  BY RunHeap DEF Object
<1>2. meta'.false_obj = n + 1 /\ Len(heap') = n + 3
  <2>1. heap' \in Seq(ObjectRecord)
    BY DEF TypeOK
  <2>2. DOMAIN heap' = 1..Len(heap') /\ Len(heap') \in Nat
    BY <2>1, LenProperties
  <2>3. Len(heap') = n + 3
    BY <1>1, <2>2
  <2> QED
    BY <2>3 DEF Run
<1> HIDE DEF n
<1>3. \A o \in n + 1..n + 3 : o \in {n + 1, n + 2, n + 3}
  BY <1>1
<1> QED
  BY <1>1, <1>2, <1>3 DEF LeaksNone, ThisLine

LEMMA NextLeaksNone ==
  ASSUME JInv, JInv', StacksFollowCode, LeaksNone, [Next]_vars
  PROVE  LeaksNone'
<1>1. CASE \E p \in Programs : Run(p)
  BY <1>1, RunLeaksNone DEF JInv, IInv
<1>2. CASE \/ PushLiteral \/ PushSingleton \/ LoadId \/ SetName
           \/ Binary \/ Negate \/ UnaryPlus \/ PopObject
           \/ StartGlobalScope \/ StartScope \/ EndScope
           \/ Ret \/ DefineFunction \/ Ignored \/ CallPrint
  <2>1. Effect
    BY <1>2, PushLiteralEffect, PushSingletonEffect, LoadIdEffect, SetNameEffect,
       BinaryEffect, NegateEffect, UnaryPlusEffect, PopObjectEffect,
       StartGlobalScopeEffect, StartScopeEffect, EndScopeEffect,
       DefineFunctionEffect, IdleEffect, CallPrintEffect DEF JInv
  <2> QED
    BY <2>1, EffectLeaksNone DEF JInv
<1>3. CASE CallFunction
  <2>1. UNCHANGED <<heap, program, meta, status>>
    BY <1>3 DEF CallFunction
  <2> QED
    BY <2>1 DEF LeaksNone, ThisLine
<1>4. CASE Return
  BY <1>4, ReturnLeaksNone
<1>5. CASE Finish \/ Fault \/ Exit
  <2>1. status' # "running"
    BY <1>5 DEF Finish, Fault, Abort, Exit
  <2> QED
    BY <2>1 DEF LeaksNone
<1>6. CASE UNCHANGED vars
  BY <1>6 DEF vars, LeaksNone, ThisLine
<1> QED
  BY <1>1, <1>2, <1>3, <1>4, <1>5, <1>6 DEF Next, Execute

LEMMA NextFaultCause ==
  ASSUME JInv, StacksFollowCode, FaultCause, [Next]_vars
  PROVE  FaultCause'
<1>1. CASE Fault
  <2>1. /\ status = "running" /\ status' = "faulted" /\ program' = program
        /\ fault' = "stack_underflow" => StackUnderflow
        /\ fault' = "no_scope" => NoScope
    BY <1>1 DEF Fault, Abort
  <2>2. StackUnderflow \/ NoScope => ~Balanced(program)
    BY <2>1, NotShort
  <2> QED
    BY <2>1, <2>2 DEF FaultCause
<1>2. CASE UNCHANGED vars
  BY <1>2 DEF vars, FaultCause
<1>3. CASE Next /\ ~Fault
  <2>1. fault' = fault /\ status # "faulted"
    BY <1>3 DEF Next, Run, Exit, Execute, PushLiteral, PushSingleton, LoadId,
       SetName, Binary, Negate, UnaryPlus, PopObject, StartGlobalScope,
       StartScope, EndScope, Ret, DefineFunction, Ignored, CallPrint,
       CallFunction, Return, Finish, Executing, PushNew, Step
  <2> QED
    BY <2>1 DEF FaultCause
<1> QED
  BY <1>1, <1>2, <1>3

LEMMA InvarianceB == Spec => []BInv
<1>1. Init => BInv
  <2>1. Init => DOMAIN frames = {} /\ status = "prompt" /\ fault = "none"
    BY DEF Init
  <2> QED
    BY <2>1, InitJInv DEF BInv, StacksFollowCode, LeaksNone, FaultCause
<1>2. BInv /\ [Next]_vars => BInv'
  <2> SUFFICES ASSUME BInv, [Next]_vars PROVE BInv'
    OBVIOUS
  <2>1. JInv' /\ StacksFollowCode'
    BY NextJInv, NextSettled DEF BInv, JInv
  <2>2. LeaksNone' /\ FaultCause'
    BY <2>1, NextLeaksNone, NextFaultCause DEF BInv
  <2> QED
    BY <2>1, <2>2 DEF BInv
<1> QED
  BY <1>1, <1>2, PTL DEF Spec

\* No value is taken from an empty stack and no scope is missing, whatever the
\* functions of the program call, when its code adds up.
THEOREM BalancedNeverShort == Spec => []NeverShort
<1>1. BInv => NeverShort
  BY NotShort DEF BInv, NeverShort, FaultCause
<1> QED
  BY <1>1, InvarianceB, PTL

LEMMA FinishFrees ==
  ASSUME BInv, JInv', Finish, Balanced(program), NEW o \in ThisLine
  PROVE  heap'[o].live = FALSE
<1> DEFINE names == AllNames(Top.scopes)
           S == {meta.true_obj, meta.false_obj, meta.none_obj}
           lost == Lose(heap, Top.stack)
           dropped == Release(lost, names)
<1>1. /\ IInv /\ status = "running" /\ heap' = Free(dropped, S)
      /\ frames' = <<>> /\ meta' = NoMeta
      /\ heap \in Seq(ObjectRecord) /\ TypeOK' /\ RefsExact'
  BY DEF Finish, BInv, JInv, IInv, TypeOK
<1>2. o \in DOMAIN heap
  BY <1>1, LenProperties DEF ThisLine, IInv, Running
<1>3. Top.stack = <<>> /\ Top \in LineFrame
  <2>1. Len(Top.stack) = 0
    BY <1>1, EndHeight DEF BInv, Finish
  <2>2. Top \in LineFrame
    BY <1>1, TopFacts DEF LineFrame
  <2> QED
    BY <2>1, <2>2, EmptySeq DEF LineFrame, FrameRecord
<1>4. /\ IsFiniteSet(DOMAIN Top.stack) /\ IsFiniteSet(DOMAIN names)
      /\ Count(Top.stack, o) = 0
  BY <1>3, FrameFinite, CountEmpty DEF LineFrame
<1>5. /\ lost \in Seq(ObjectRecord) /\ dropped \in Seq(ObjectRecord)
      /\ DOMAIN lost = DOMAIN heap /\ DOMAIN dropped = DOMAIN heap
  <2>1. LineHeap(lost)
    BY <1>1, <1>4, LineHeapNow, LineHeapCounts
  <2>2. LineHeap(dropped)
    BY <1>1, <1>4, <2>1, LineHeapCounts
  <2> QED
    BY <2>1, <2>2 DEF LineHeap, Lose, Release
<1>6. dropped[o].lost = heap[o].lost
  <2>1. lost[o].lost = heap[o].lost
    BY <1>1, <1>2, <1>4, LoseNothing
  <2> HIDE DEF lost, names, dropped
  <2>2. dropped[o].lost = lost[o].lost
    <3>1. dropped = Release(lost, names)
      BY DEF dropped
    <3> QED
      BY <1>2, <1>5, <3>1, LostKept
  <2> QED
    BY <2>1, <2>2
<1>7. dropped[o] \in ObjectRecord /\ DOMAIN heap' = DOMAIN heap
  BY <1>1, <1>2, <1>5, HeapFields DEF Free
<1> HIDE DEF names, lost, dropped
<1>8. CASE o \in S
  <2>1. heap'[o] = [dropped[o] EXCEPT !.refs = 0, !.live = FALSE]
    BY <1>1, <1>2, <1>5, <1>8 DEF Free
  <2> QED
    BY <1>7, <2>1, FieldsChanged
<1>9. CASE o \notin S
  <2>1. heap'[o] = dropped[o]
    BY <1>1, <1>2, <1>5, <1>9 DEF Free
  <2>2. heap[o].lost = 0
    BY <1>1, <1>9 DEF BInv, LeaksNone
  <2>3. Holders(o)' = 0
    <3>1. o # Nil
      BY <1>1, <1>2, LenProperties DEF Nil
    <3> QED
      BY <1>1, <3>1, NothingHeld
  <2>4. heap'[o].live => heap'[o].refs = Holders(o)' + heap'[o].lost /\ heap'[o].refs > 0
    BY <1>1, <1>2, <1>7 DEF RefsExact
  <2>5. ~heap'[o].live
    BY <1>6, <2>1, <2>2, <2>3, <2>4
  <2>6. heap'[o].live \in BOOLEAN
    BY <1>7, <2>1 DEF ObjectRecord
  <2> QED
    BY <2>5, <2>6
<1> QED
  BY <1>8, <1>9

\* Every object of a line whose code adds up is freed when the line ends.
THEOREM LinesLeaveNothing == Spec => AllFreed
<1> DEFINE A == program # <<>> /\ program' = <<>> /\ Balanced(program)
                  => \A o \in ThisLine : heap'[o].live = FALSE
<1>1. BInv /\ JInv' /\ [Next]_vars => [A]_vars
  <2> SUFFICES ASSUME BInv, JInv', Next, program # <<>>, program' = <<>>,
                      Balanced(program)
               PROVE  \A o \in ThisLine : heap'[o].live = FALSE
    OBVIOUS
  <2>1. Finish
    <3>1. CASE \E p \in Programs : Run(p)
      BY <3>1, ProgramsAssumption DEF Run, WellFormed
    <3>2. CASE Exit \/ Fault
      BY <3>2 DEF Exit, Fault, Abort
    <3>3. CASE Execute /\ ~Fault /\ ~Finish
      BY <3>3 DEF Execute, PushLiteral, PushSingleton, LoadId,
         SetName, Binary, Negate, UnaryPlus, PopObject, StartGlobalScope,
         StartScope, EndScope, Ret, DefineFunction, Ignored, CallPrint,
         CallFunction, Return, Executing, PushNew, Step
    <3> QED
      BY <3>1, <3>2, <3>3 DEF Next
  <2> QED
    BY <2>1, FinishFrees
<1>2. Spec => [][A]_vars
  <2>1. BInv => JInv
    BY DEF BInv
  <2> QED
    BY <1>1, <2>1, InvarianceB, PTL DEF Spec
<1> QED
  BY <1>2 DEF AllFreed

=============================================================================
