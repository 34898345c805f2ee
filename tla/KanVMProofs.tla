---------------------------- MODULE KanVMProofs ----------------------------
(***************************************************************************)
(* Proofs about KanVM for every set of names, every set of compiled        *)
(* programs and every number of lines.                                     *)
(***************************************************************************)
EXTENDS KanVM, KanInduction, SequenceTheorems, FiniteSetTheorems, TLAPS

-----------------------------------------------------------------------------
(* What the operators on the heap preserve.                                 *)

\* g is the heap h with other counts: the same objects, the same functions.
Recounted(h, g) ==
  /\ g \in Seq(ObjectRecord)
  /\ Len(g) = Len(h)
  /\ \A o \in 1..Len(h) :
       /\ g[o].kind = h[o].kind /\ g[o].gen = h[o].gen
       /\ g[o].home = h[o].home /\ g[o].body = h[o].body

\* r is the object q with other counts.
SameObject(q, r) ==
  /\ r \in ObjectRecord
  /\ r.kind = q.kind /\ r.gen = q.gen /\ r.home = q.home /\ r.body = q.body

\* A heap rewritten object by object is a heap of the same objects.
LEMMA HeapRewritten ==
  ASSUME NEW h \in Seq(ObjectRecord), NEW g,
         g = [o \in DOMAIN h |-> g[o]],
         \A o \in DOMAIN h : SameObject(h[o], g[o])
  PROVE  Recounted(h, g)
<1>1. DOMAIN h = 1..Len(h) /\ Len(h) \in Nat
  BY LenProperties
<1>2. g \in [1..Len(h) -> ObjectRecord]
  BY <1>1 DEF SameObject
<1>3. g \in Seq(ObjectRecord)
  BY <1>1, <1>2, IsASeq
<1>4. Len(g) = Len(h)
  BY <1>1, <1>2, <1>3, LenProperties
<1>5. QED
  BY <1>1, <1>3, <1>4 DEF Recounted, SameObject

\* A finite stack, list or scope holds a pointer finitely often.
LEMMA CountType ==
  ASSUME NEW f, IsFiniteSet(DOMAIN f), NEW o
  PROVE  Count(f, o) \in Nat
<1>1. IsFiniteSet({i \in DOMAIN f : f[i] = o})
  BY FS_Subset
<1>2. QED
  BY <1>1, FS_CardinalityType DEF Count

\* A change of the counts of an object leaves what it is.
LEMMA CountsOfRecord ==
  ASSUME NEW r \in ObjectRecord, NEW n \in Nat
  PROVE  /\ SameObject(r, [r EXCEPT !.refs = n])
         /\ SameObject(r, [r EXCEPT !.lost = n])
         /\ SameObject(r, [r EXCEPT !.refs = 0, !.live = FALSE])
         /\ SameObject(r, r)
BY DEF ObjectRecord, SameObject

\* Acquire, Release and Lose change counts and liveness only.
LEMMA CountsRewritten ==
  ASSUME NEW h \in Seq(ObjectRecord), NEW f, IsFiniteSet(DOMAIN f)
  PROVE  /\ Recounted(h, Acquire(h, f))
         /\ Recounted(h, Release(h, f))
         /\ Recounted(h, Lose(h, f))
<1>1. \A o \in DOMAIN h :
        /\ h[o] \in ObjectRecord
        /\ h[o].refs \in Nat /\ h[o].lost \in Nat
        /\ Count(f, o) \in Nat
  <2>1. TAKE o \in DOMAIN h
  <2>2. h[o] \in ObjectRecord
    BY ElementOfSeq, LenProperties
  <2>3. Count(f, o) \in Nat
    BY CountType
  <2>4. QED
    BY <2>2, <2>3 DEF ObjectRecord
<1>2. Recounted(h, Acquire(h, f))
  <2>1. ASSUME NEW o \in DOMAIN h
        PROVE  SameObject(h[o], Acquire(h, f)[o])
    <3>1. PICK n \in Nat : n = h[o].refs + Count(f, o)
      BY <1>1
    <3>2. Acquire(h, f)[o] = [h[o] EXCEPT !.refs = n]
      BY <3>1 DEF Acquire
    <3>3. QED
      BY <1>1, <3>2, CountsOfRecord
  <2>2. Acquire(h, f) = [o \in DOMAIN h |-> Acquire(h, f)[o]]
    BY DEF Acquire
  <2>3. QED
    BY <2>1, <2>2, HeapRewritten
<1>3. Recounted(h, Release(h, f))
  <2>1. ASSUME NEW o \in DOMAIN h
        PROVE  SameObject(h[o], Release(h, f)[o])
    <3>1. CASE Count(f, o) = 0
      <4>1. Release(h, f)[o] = h[o]
        BY <3>1 DEF Release
      <4>2. QED
        BY <1>1, <4>1, CountsOfRecord
    <3>2. CASE Count(f, o) # 0 /\ h[o].refs <= Count(f, o)
      <4>1. Release(h, f)[o] = [h[o] EXCEPT !.refs = 0, !.live = FALSE]
        BY <3>2 DEF Release
      <4>2. QED
        BY <1>1, <4>1, CountsOfRecord
    <3>3. CASE Count(f, o) # 0 /\ ~(h[o].refs <= Count(f, o))
      <4>1. PICK n \in Nat : n = h[o].refs - Count(f, o)
        BY <1>1, <3>3
      <4>2. Release(h, f)[o] = [h[o] EXCEPT !.refs = n]
        BY <3>3, <4>1 DEF Release
      <4>3. QED
        BY <1>1, <4>2, CountsOfRecord
    <3>4. QED
      BY <3>1, <3>2, <3>3
  <2>2. Release(h, f) = [o \in DOMAIN h |-> Release(h, f)[o]]
    BY DEF Release
  <2>3. QED
    BY <2>1, <2>2, HeapRewritten
<1>4. Recounted(h, Lose(h, f))
  <2>1. ASSUME NEW o \in DOMAIN h
        PROVE  SameObject(h[o], Lose(h, f)[o])
    <3>1. PICK n \in Nat : n = h[o].lost + Count(f, o)
      BY <1>1
    <3>2. Lose(h, f)[o] = [h[o] EXCEPT !.lost = n]
      BY <3>1 DEF Lose
    <3>3. QED
      BY <1>1, <3>2, CountsOfRecord
  <2>2. Lose(h, f) = [o \in DOMAIN h |-> Lose(h, f)[o]]
    BY DEF Lose
  <2>3. QED
    BY <2>1, <2>2, HeapRewritten
<1>5. QED
  BY <1>2, <1>3, <1>4

\* So do Incref and XDecref, on one object, and Free.
LEMMA CountRewritten ==
  ASSUME NEW h \in Seq(ObjectRecord), NEW o \in 1..Len(h), NEW S
  PROVE  /\ Recounted(h, Incref(h, o))
         /\ Recounted(h, XDecref(h, o))
         /\ Recounted(h, Free(h, S))
<1>1. DOMAIN h = 1..Len(h) /\ \A p \in DOMAIN h : h[p] \in ObjectRecord
  BY ElementOfSeq, LenProperties
<1>2. h[o].refs \in Nat
  BY <1>1 DEF ObjectRecord
<1>3. ASSUME NEW n \in Nat
      PROVE  Recounted(h, [h EXCEPT ![o].refs = n])
  <2> DEFINE g == [h EXCEPT ![o].refs = n]
  <2>1. ASSUME NEW p \in DOMAIN h PROVE SameObject(h[p], g[p])
    <3>1. CASE p = o
      <4>1. g[p] = [h[p] EXCEPT !.refs = n]
        BY <3>1
      <4>2. QED
        BY <1>1, <4>1, CountsOfRecord
    <3>2. CASE p # o
      <4>1. g[p] = h[p]
        BY <3>2
      <4>2. QED
        BY <1>1, <4>1, CountsOfRecord
    <3>3. QED
      BY <3>1, <3>2
  <2>2. g = [p \in DOMAIN h |-> g[p]]
    OBVIOUS
  <2> HIDE DEF g
  <2>3. Recounted(h, g)
    BY <2>1, <2>2, HeapRewritten
  <2>4. QED
    BY <2>3 DEF g
<1>4. Recounted(h, Incref(h, o))
  <2>1. PICK n \in Nat : n = h[o].refs + 1
    BY <1>2
  <2>2. Incref(h, o) = [h EXCEPT ![o].refs = n]
    BY <2>1 DEF Incref
  <2>3. QED
    BY <1>3, <2>2
<1>5. Recounted(h, XDecref(h, o))
  <2>1. PICK n \in Nat : n = IF h[o].refs <= 1 THEN 0 ELSE h[o].refs - 1
    BY <1>2
  <2>2. XDecref(h, o) = [h EXCEPT ![o].refs = n]
    BY <2>1 DEF XDecref
  <2>3. QED
    BY <1>3, <2>2
<1>6. Recounted(h, Free(h, S))
  <2>1. ASSUME NEW p \in DOMAIN h PROVE SameObject(h[p], Free(h, S)[p])
    <3>1. CASE p \in S
      <4>1. Free(h, S)[p] = [h[p] EXCEPT !.refs = 0, !.live = FALSE]
        BY <3>1 DEF Free
      <4>2. QED
        BY <1>1, <4>1, CountsOfRecord
    <3>2. CASE p \notin S
      <4>1. Free(h, S)[p] = h[p]
        BY <3>2 DEF Free
      <4>2. QED
        BY <1>1, <4>1, CountsOfRecord
    <3>3. QED
      BY <3>1, <3>2
  <2>2. Free(h, S) = [p \in DOMAIN h |-> Free(h, S)[p]]
    BY DEF Free
  <2>3. QED
    BY <2>1, <2>2, HeapRewritten
<1>7. QED
  BY <1>4, <1>5, <1>6

-----------------------------------------------------------------------------
(* The inductive invariant: the types, the isolation of the lines, what is  *)
(* there while a line runs, the global scope, which functions search        *)
(* through meta->global_scope and without which no function is defined, and *)
(* what the objects of the line are.                                        *)

Running ==
  status = "running" =>
    /\ frames # <<>>
    /\ WellFormed(program)
    /\ meta.false_obj \in Nat \ {0}

\* No object of the line in the heap h is a function.
NoFunctionIn(h) == \A o \in meta.false_obj..Len(h) : h[o].kind # "function"

GlobalScopeOpen ==
  status = "running" =>
    /\ frames[1].block = 1
    /\ frames[1].scopes = <<>> /\ frames[1].pc <= Len(program[1])
         => NoFunctionIn(heap)
    /\ Len(frames) > 1 => frames[1].scopes # <<>>

\* The block b of the program defines a function with the body c.
Defines(b, c) ==
  /\ b \in DOMAIN program
  /\ c \in DOMAIN program
  /\ \E i \in DOMAIN program[b] :
       /\ program[b][i].op = "DEFINE_FUNCTION"
       /\ program[b][i].body = c

\* An object of the line has a type of the line, or one that is never freed; a
\* function has the address its definition gave it.
LineObject(r) ==
  /\ r.gen \in {0, typeGen}
  /\ r.kind = "function" => Defines(r.home, r.body)

LineObjects ==
  status = "running" => \A o \in ThisLine : LineObject(heap[o])

IInv == TypeOK /\ LinesIsolated /\ Running /\ GlobalScopeOpen /\ LineObjects

\* h is a heap the running line may go on with.
LineHeap(h) ==
  /\ h \in Seq(ObjectRecord)
  /\ Len(h) >= Len(heap)
  /\ Len(frames) = 1 /\ ~AtEnd /\ Top.scopes = <<>> => NoFunctionIn(h)
  /\ \A o \in meta.false_obj..Len(h) : LineObject(h[o])

LEMMA LineHeapNow ==
  ASSUME IInv, status = "running"
  PROVE  LineHeap(heap)
<1>1. Len(heap) \in Nat
  BY LenProperties DEF IInv, TypeOK
<1>2. ASSUME Len(frames) = 1, ~AtEnd, Top.scopes = <<>>
      PROVE  NoFunctionIn(heap)
  <2>1. Top = frames[1] /\ Code = program[1]
    BY <1>2 DEF Top, Code, IInv, GlobalScopeOpen
  <2>2. frames \in Seq(FrameRecord(ThisLine, DOMAIN program))
    BY DEF IInv, LinesIsolated
  <2>3. frames[1] \in FrameRecord(ThisLine, DOMAIN program)
    BY <1>2, <2>2, ElementOfSeq
  <2>4. program[1] \in Seq(Instruction(DOMAIN program))
    BY <2>1, <2>3, ElementOfSeq, LenProperties
       DEF FrameRecord, IInv, Running, WellFormed, GlobalScopeOpen
  <2>5. frames[1].pc <= Len(program[1])
    BY <1>2, <2>1, <2>3, <2>4, LenProperties DEF AtEnd, FrameRecord
  <2>6. QED
    BY <1>2, <2>1, <2>5 DEF IInv, GlobalScopeOpen
<1>3. QED
  BY <1>1, <1>2 DEF IInv, TypeOK, LineObjects, ThisLine, LineHeap

LEMMA LineHeapRecounted ==
  ASSUME IInv, status = "running", NEW h, LineHeap(h), NEW g, Recounted(h, g)
  PROVE  LineHeap(g) /\ Len(g) = Len(h)
<1>1. meta.false_obj \in Nat \ {0}
  BY DEF IInv, Running
<1>2. Len(h) \in Nat
  BY LenProperties DEF LineHeap
<1>3. \A o \in meta.false_obj..Len(h) : o \in 1..Len(h)
  BY <1>1, <1>2
<1>4. NoFunctionIn(h) => NoFunctionIn(g)
  BY <1>3 DEF NoFunctionIn, Recounted
<1>5. QED
  BY <1>3, <1>4 DEF LineHeap, LineObject, Recounted

LEMMA LineHeapAppend ==
  ASSUME IInv, status = "running", NEW h, LineHeap(h), NEW r \in ObjectRecord,
         LineObject(r), r.kind = "function" => Top.scopes # <<>>
  PROVE  LineHeap(Append(h, r)) /\ Len(Append(h, r)) = Len(h) + 1
<1>1. meta.false_obj \in Nat \ {0}
  BY DEF IInv, Running
<1>2. Len(h) \in Nat /\ Len(heap) \in Nat /\ Len(h) >= Len(heap)
  BY LenProperties DEF LineHeap, IInv, TypeOK
<1>3. /\ Append(h, r) \in Seq(ObjectRecord)
      /\ Len(Append(h, r)) = Len(h) + 1
      /\ \A i \in 1..Len(h) : Append(h, r)[i] = h[i]
      /\ Append(h, r)[Len(h) + 1] = r
  BY AppendProperties DEF LineHeap
<1>4. ASSUME NEW o \in meta.false_obj..Len(Append(h, r))
      PROVE  LineObject(Append(h, r)[o])
  <2>1. CASE o = Len(h) + 1
    BY <1>3, <2>1
  <2>2. CASE o # Len(h) + 1
    <3>1. o \in meta.false_obj..Len(h) /\ o \in 1..Len(h)
      BY <1>1, <1>2, <1>3, <2>2
    <3>2. Append(h, r)[o] = h[o]
      BY <1>3, <3>1
    <3>3. QED
      BY <3>1, <3>2 DEF LineHeap
  <2>3. QED
    BY <2>1, <2>2
<1>5. Len(Append(h, r)) >= Len(heap)
  BY <1>2, <1>3
<1> DEFINE g == Append(h, r)
<1>6. g \in Seq(ObjectRecord) /\ Len(g) >= Len(heap) /\ Len(g) = Len(h) + 1
  BY <1>3, <1>5
<1>7. \A o \in meta.false_obj..Len(g) : LineObject(g[o])
  BY <1>4
<1> HIDE DEF g
<1>8. ASSUME Len(frames) = 1, ~AtEnd, Top.scopes = <<>>
      PROVE  NoFunctionIn(g)
  <2>1. NoFunctionIn(h) /\ r.kind # "function"
    BY <1>8 DEF LineHeap
  <2>2. ASSUME NEW o \in meta.false_obj..Len(g) PROVE g[o].kind # "function"
    <3>1. CASE o = Len(h) + 1
      BY <1>3, <2>1, <3>1 DEF g
    <3>2. CASE o # Len(h) + 1
      <4>1. o \in meta.false_obj..Len(h) /\ o \in 1..Len(h)
        BY <1>1, <1>2, <1>6, <3>2
      <4>2. g[o] = h[o]
        BY <1>3, <4>1 DEF g
      <4>3. QED
        BY <2>1, <4>1, <4>2 DEF NoFunctionIn
    <3>3. QED
      BY <3>1, <3>2
  <2>3. QED
    BY <2>2 DEF NoFunctionIn
<1>9. LineHeap(g)
  BY <1>6, <1>7, <1>8 DEF LineHeap
<1>10. QED
  BY <1>6, <1>9 DEF g

LEMMA ObjectType ==
  ASSUME NEW kind \in Kinds, NEW refs \in Nat, NEW gen \in Nat
  PROVE  /\ Object(kind, refs, gen) \in ObjectRecord
         /\ Object(kind, refs, gen).kind = kind
         /\ Object(kind, refs, gen).gen = gen
BY EmptySeq DEF Object, ObjectRecord, Nil

-----------------------------------------------------------------------------
(* Frames.                                                                  *)

\* More objects leave a frame what it is.
LEMMA FrameWider ==
  ASSUME NEW A, NEW B, A \subseteq B, NEW blocks
  PROVE  FrameRecord(A, blocks) \subseteq FrameRecord(B, blocks)
<1>1. Seq(A) \subseteq Seq(B)
  BY SeqMonotonic
<1>2. [Names -> A \cup {Nil}] \subseteq [Names -> B \cup {Nil}]
  OBVIOUS
<1>3. Seq([Names -> A \cup {Nil}]) \subseteq Seq([Names -> B \cup {Nil}])
  BY <1>2, SeqMonotonic
<1>4. QED
  BY <1>1, <1>2, <1>3 DEF FrameRecord

LEMMA FramesWider ==
  ASSUME NEW A, NEW B, A \subseteq B, NEW blocks
  PROVE  Seq(FrameRecord(A, blocks)) \subseteq Seq(FrameRecord(B, blocks))
BY FrameWider, SeqMonotonic

\* The running frame and its instruction.
LEMMA TopFacts ==
  ASSUME IInv, status = "running"
  PROVE  /\ Len(frames) \in Nat \ {0}
         /\ Top \in FrameRecord(ThisLine, DOMAIN program)
         /\ Code \in Seq(Instruction(DOMAIN program))
         /\ ~AtEnd => Instr \in Instruction(DOMAIN program)
<1>1. frames \in Seq(FrameRecord(ThisLine, DOMAIN program)) /\ frames # <<>>
  BY DEF IInv, LinesIsolated, Running
<1>2. Len(frames) \in Nat \ {0}
  BY <1>1, EmptySeq
<1>3. Top \in FrameRecord(ThisLine, DOMAIN program)
  BY <1>1, <1>2, ElementOfSeq DEF Top
<1>4. program \in Seq(Seq(Instruction(DOMAIN program)))
  BY DEF IInv, Running, WellFormed
<1>5. Code \in Seq(Instruction(DOMAIN program))
  <2>1. Top.block \in DOMAIN program
    BY <1>3 DEF FrameRecord
  <2>2. QED
    BY <1>4, <2>1, ElementOfSeq, LenProperties DEF Code
<1>6. ASSUME ~AtEnd PROVE Instr \in Instruction(DOMAIN program)
  <2>1. Top.pc \in 1..Len(Code)
    BY <1>3, <1>5, <1>6, LenProperties DEF FrameRecord, AtEnd
  <2>2. QED
    BY <1>5, <2>1, ElementOfSeq DEF Instr
<1>7. QED
  BY <1>2, <1>3, <1>5, <1>6

LEMMA InstructionTypes ==
  ASSUME NEW blocks, NEW i \in Instruction(blocks)
  PROVE  /\ i.op \in {"LOAD_ID", "SET_NAME", "DEFINE_FUNCTION"}
              => i.name \in Names
         /\ i.op = "CALLB" => i.argscount \in Nat
         /\ i.op = "DEFINE_FUNCTION"
              => i.signature \in Seq(Names) /\ i.body \in blocks
BY DEF Instruction, PlainOps, BinaryOps, NegatingOps, LiteralOps,
       SingletonOps, JumpOps, IgnoredOps

-----------------------------------------------------------------------------
(* Steps.                                                                   *)

\* A step that replaces the running frame and the heap by good ones.
LEMMA StepPreserves ==
  ASSUME IInv, status = "running",
         NEW h, LineHeap(h),
         NEW f \in FrameRecord(meta.false_obj..Len(h), DOMAIN program),
         f.block = Top.block, f.pc = Top.pc,
         Len(frames) = 1 /\ Top.pc < Len(Code) /\ f.scopes = <<>>
           => NoFunctionIn(h),
         Step(f, h)
  PROVE  IInv'
<1> DEFINE now == meta.false_obj..Len(h)
           record == FrameRecord(now, DOMAIN program)
           g == [f EXCEPT !.pc = @ + 1]
<1>1. meta.false_obj \in Nat \ {0} /\ Len(h) \in Nat /\ Len(heap) \in Nat
        /\ Len(heap) <= Len(h)
  BY LenProperties DEF LineHeap, IInv, Running, TypeOK
<1>2. ThisLine \subseteq now /\ now \subseteq 1..Len(h)
  BY <1>1 DEF ThisLine
<1>3. frames \in Seq(record) /\ Len(frames) \in Nat \ {0}
  <2>1. frames \in Seq(FrameRecord(ThisLine, DOMAIN program))
    BY DEF IInv, LinesIsolated
  <2>2. Len(frames) \in Nat \ {0}
    BY TopFacts
  <2>3. Seq(FrameRecord(ThisLine, DOMAIN program)) \subseteq Seq(record)
    BY <1>2, FramesWider
  <2>4. QED
    BY <2>1, <2>2, <2>3
<1>4. g \in record
  <2>1. PICK n \in Nat \ {0} : n = f.pc + 1
    BY DEF FrameRecord
  <2>2. g = [f EXCEPT !.pc = n]
    BY <2>1
  <2>3. QED
    BY <2>2 DEF FrameRecord
<1>5. frames' = [frames EXCEPT ![Len(frames)] = g] /\ heap' = h
        /\ UNCHANGED <<program, meta, typeGen, runs, status, fault>>
  BY DEF Step
<1> HIDE DEF g, record, now
<1>6. frames' \in Seq(record) /\ Len(frames') = Len(frames)
  BY <1>3, <1>4, <1>5, ExceptSeq
<1>7. TypeOK'
  <2>1. frames' \in Seq(FrameRecord(1..Len(h), DOMAIN program))
    BY <1>2, <1>6, FramesWider DEF record
  <2>2. meta \in [{"true_obj", "false_obj", "none_obj"} -> 0..Len(h)]
    BY <1>1 DEF IInv, TypeOK
  <2>3. QED
    BY <1>5, <2>1, <2>2 DEF TypeOK, IInv, LineHeap
<1>8. LinesIsolated'
  <2>1. \A k \in DOMAIN meta : meta[k] \in now
    BY <1>2 DEF IInv, LinesIsolated
  <2>2. ThisLine' = now
    BY <1>5 DEF ThisLine, now
  <2>3. QED
    BY <1>5, <1>6, <2>1, <2>2
       DEF LinesIsolated, LineHeap, LineObject, Defines, record, now
<1>9. Running'
  BY <1>3, <1>5, <1>6, EmptySeq DEF Running, IInv
<1>10. GlobalScopeOpen'
  <2>1. CASE Len(frames) = 1
    <3>1. Top = frames[1] /\ frames'[1] = g
      BY <1>3, <1>5, <2>1 DEF Top
    <3>2. Top.pc \in Nat /\ Top.block = 1 /\ Code = program[1]
      BY <3>1, TopFacts DEF FrameRecord, IInv, GlobalScopeOpen, Code
    <3>3. g.block = 1 /\ g.pc = Top.pc + 1 /\ g.scopes = f.scopes
      BY <3>2 DEF g, FrameRecord
    <3>4. Len(program[1]) \in Nat
      BY <3>2, TopFacts, LenProperties
    <3>5. g.scopes = <<>> /\ g.pc <= Len(program[1]) => NoFunctionIn(h)
      BY <2>1, <3>2, <3>3, <3>4
    <3>6. Len(frames') = 1 /\ program' = program /\ (NoFunctionIn(h) => NoFunctionIn(heap)')
      BY <1>5, <1>6, <2>1 DEF NoFunctionIn
    <3>7. QED
      BY <3>1, <3>3, <3>5, <3>6 DEF GlobalScopeOpen
  <2>2. CASE Len(frames) # 1
    <3>1. frames'[1] = frames[1]
      BY <1>3, <1>5, <2>2, LenProperties
    <3>2. Len(frames) > 1
      <4>1. PICK n \in Nat \ {0} : n = Len(frames)
        BY <1>3
      <4>2. QED
        BY ONLY <2>2, <4>1
    <3>3. QED
      BY <1>5, <1>6, <3>1, <3>2 DEF IInv, GlobalScopeOpen
  <2>3. QED
    BY <2>1, <2>2
<1>11. LineObjects'
  BY <1>5 DEF LineObjects, LineHeap, LineObject, Defines, ThisLine
<1>12. QED
  BY <1>7, <1>8, <1>9, <1>10, <1>11 DEF IInv

\* The values an instruction takes from the stack.
LEMMA OperandTypes ==
  ASSUME IInv, status = "running", ~StackUnderflow,
         NEW i \in Nat \ {0}, i <= Needed, Needed \in Nat
  PROVE  Operand(i) \in ThisLine
<1>1. Top.stack \in Seq(ThisLine)
  BY TopFacts DEF FrameRecord
<1>2. Len(Top.stack) + 1 - i \in 1..Len(Top.stack)
  BY <1>1, LenProperties DEF StackUnderflow
<1>3. QED
  BY <1>1, <1>2, ElementOfSeq DEF Operand

\* A stack without its topmost values.
LEMMA DropType ==
  ASSUME NEW S, NEW s \in Seq(S), NEW n \in Nat, n <= Len(s)
  PROVE  Drop(s, n) \in Seq(S) /\ Len(Drop(s, n)) = Len(s) - n
<1>1. Len(s) \in Nat
  BY LenProperties
<1>2. \A i \in 1..(Len(s) - n) : s[i] \in S
  BY <1>1, ElementOfSeq
<1>3. QED
  BY <1>1, <1>2, SubSeqProperties DEF Drop

\* One new object of the line replaces the n topmost values.
LEMMA PushNewPreserves ==
  ASSUME IInv, status = "running", NEW n \in Nat, n <= Len(Top.stack),
         NEW kind \in Kinds, kind # "function",
         NEW h, LineHeap(h), Len(h) = Len(heap),
         ~AtEnd, PushNew(h, n, kind)
  PROVE  IInv'
<1> DEFINE r == Object(kind, 1, typeGen)
           g == Append(h, r)
           f == [Top EXCEPT !.stack = Append(Drop(@, n), Len(heap) + 1)]
<1>1. r \in ObjectRecord /\ LineObject(r)
  BY ObjectType DEF IInv, TypeOK, LineObject
<1>12. r.kind # "function"
  BY ObjectType DEF IInv, TypeOK
<1>2. LineHeap(g) /\ Len(g) = Len(heap) + 1
  BY <1>1, <1>12, LineHeapAppend
<1>3. meta.false_obj \in Nat \ {0} /\ Len(heap) \in Nat
        /\ meta.false_obj \in ThisLine
  BY LenProperties DEF IInv, Running, TypeOK, LinesIsolated
<1>4. ThisLine \subseteq meta.false_obj..Len(g)
        /\ Len(heap) + 1 \in meta.false_obj..Len(g)
  BY <1>2, <1>3 DEF ThisLine
<1>5. Top \in FrameRecord(meta.false_obj..Len(g), DOMAIN program)
  <2>1. FrameRecord(ThisLine, DOMAIN program)
          \subseteq FrameRecord(meta.false_obj..Len(g), DOMAIN program)
    BY <1>4, FrameWider
  <2>2. QED
    BY <2>1, TopFacts
<1>6. Append(Drop(Top.stack, n), Len(heap) + 1)
        \in Seq(meta.false_obj..Len(g))
  BY <1>4, <1>5, DropType, AppendProperties DEF FrameRecord
<1>7. f \in FrameRecord(meta.false_obj..Len(g), DOMAIN program)
  BY <1>5, <1>6 DEF FrameRecord
<1>8. f.block = Top.block /\ f.pc = Top.pc /\ f.scopes = Top.scopes
  BY <1>5 DEF FrameRecord
<1>9. Step(f, g)
  BY DEF PushNew
<1> HIDE DEF f, g
<1>10. Len(frames) = 1 /\ f.scopes = <<>> => NoFunctionIn(g)
  BY <1>2, <1>8 DEF LineHeap
<1>11. QED
  BY <1>2, <1>7, <1>8, <1>9, <1>10, StepPreserves

\* A step that creates no object and opens or closes no scope.
LEMMA UpdatePreserves ==
  ASSUME IInv, status = "running", ~AtEnd,
         NEW h, LineHeap(h), Len(h) = Len(heap),
         NEW stack \in Seq(ThisLine),
         Step([Top EXCEPT !.stack = stack], h)
  PROVE  IInv'
<1> DEFINE f == [Top EXCEPT !.stack = stack]
<1>1. f \in FrameRecord(ThisLine, DOMAIN program)
        /\ f.block = Top.block /\ f.pc = Top.pc /\ f.scopes = Top.scopes
  BY TopFacts DEF FrameRecord
<1>2. f \in FrameRecord(meta.false_obj..Len(h), DOMAIN program)
  BY <1>1 DEF ThisLine
<1> HIDE DEF f
<1>3. Len(frames) = 1 /\ f.scopes = <<>> => NoFunctionIn(h)
  BY <1>1 DEF LineHeap
<1>4. Step(f, h)
  BY DEF f
<1>5. QED
  BY <1>1, <1>2, <1>3, <1>4, StepPreserves

\* The heap of the line after counts of some of its objects changed.
LEMMA LineHeapCounts ==
  ASSUME IInv, status = "running", NEW h, LineHeap(h), NEW f,
         IsFiniteSet(DOMAIN f)
  PROVE  /\ LineHeap(Acquire(h, f)) /\ Len(Acquire(h, f)) = Len(h)
         /\ LineHeap(Release(h, f)) /\ Len(Release(h, f)) = Len(h)
         /\ LineHeap(Lose(h, f)) /\ Len(Lose(h, f)) = Len(h)
<1>1. h \in Seq(ObjectRecord)
  BY DEF LineHeap
<1>2. QED
  BY <1>1, CountsRewritten, LineHeapRecounted

LEMMA LineHeapCount ==
  ASSUME IInv, status = "running", NEW h, LineHeap(h), NEW o \in ThisLine
  PROVE  /\ LineHeap(Incref(h, o)) /\ Len(Incref(h, o)) = Len(h)
         /\ LineHeap(XDecref(h, o)) /\ Len(XDecref(h, o)) = Len(h)
<1>1. h \in Seq(ObjectRecord) /\ o \in 1..Len(h)
  <2>1. Len(h) \in Nat /\ Len(heap) \in Nat /\ Len(heap) <= Len(h)
    BY LenProperties DEF LineHeap, IInv, TypeOK
  <2>2. QED
    BY <2>1 DEF LineHeap, ThisLine, IInv, Running
<1>2. Recounted(h, Incref(h, o)) /\ Recounted(h, XDecref(h, o))
  BY <1>1, CountRewritten
<1>3. QED
  BY <1>2, LineHeapRecounted

\* Sequences have finite domains.
LEMMA FiniteDomain ==
  ASSUME NEW S, NEW s \in Seq(S)
  PROVE  IsFiniteSet(DOMAIN s)
<1>1. DOMAIN s = 1..Len(s) /\ Len(s) \in Nat
  BY LenProperties
<1>2. QED
  BY <1>1, FS_Interval

\* What Executing says.
LEMMA ExecutingFacts ==
  ASSUME IInv, NEW ops, Executing(ops)
  PROVE  /\ status = "running"
         /\ ~AtEnd
         /\ Instr.op \in ops
         /\ Instr \in Instruction(DOMAIN program)
         /\ ~StackUnderflow
         /\ Len(Top.stack) \in Nat
         /\ Top.stack \in Seq(ThisLine)
<1>1. status = "running"
  BY DEF Executing
<1>2. Top.stack \in Seq(ThisLine)
  BY <1>1, TopFacts DEF FrameRecord
<1>3. QED
  BY <1>1, <1>2, TopFacts, LenProperties DEF Executing, At, Defined

-----------------------------------------------------------------------------
(* One lemma per instruction.                                               *)

LEMMA PushLiteralPreserves ==
  ASSUME IInv, PushLiteral
  PROVE  IInv'
<1> DEFINE kind == IF Instr.op = "PUSH_STRING" THEN "string" ELSE "int"
<1>1. /\ status = "running" /\ ~AtEnd /\ Instr.op # "START_SCOPE"
      /\ Len(Top.stack) \in Nat
  BY ExecutingFacts DEF PushLiteral, LiteralOps
<1>2. kind \in Kinds /\ kind # "function"
  BY DEF Kinds
<1>3. PushNew(heap, 0, kind)
  BY DEF PushLiteral
<1> HIDE DEF kind
<1>4. QED
  BY <1>1, <1>2, <1>3, LineHeapNow, PushNewPreserves

LEMMA PushSingletonPreserves ==
  ASSUME IInv, PushSingleton
  PROVE  IInv'
<1> DEFINE o == Singleton(Instr.op)
<1>1. /\ status = "running" /\ ~AtEnd
      /\ Instr.op \in SingletonOps \cup {"RET_NULL"}
      /\ Instr.op # "START_SCOPE"
      /\ Top.stack \in Seq(ThisLine)
  BY ExecutingFacts DEF PushSingleton, SingletonOps
<1>2. o \in ThisLine
  BY <1>1 DEF IInv, LinesIsolated, TypeOK, Singleton, SingletonOps
<1>3. Step([Top EXCEPT !.stack = Append(Top.stack, o)], Incref(heap, o))
  BY DEF PushSingleton
<1> HIDE DEF o
<1>4. Append(Top.stack, o) \in Seq(ThisLine)
  BY <1>1, <1>2, AppendProperties
<1>5. LineHeap(Incref(heap, o)) /\ Len(Incref(heap, o)) = Len(heap)
  BY <1>1, <1>2, LineHeapNow, LineHeapCount
<1>6. QED
  BY <1>1, <1>3, <1>4, <1>5, UpdatePreserves

\* The scopes runcode searches hold objects of the line.
LEMMA ChainType ==
  ASSUME IInv, status = "running", ~AtEnd
  PROVE  Chain \in Seq([Names -> ThisLine \cup {Nil}])
<1> DEFINE scope == [Names -> ThisLine \cup {Nil}]
<1>1. Top.scopes \in Seq(scope)
  BY TopFacts DEF FrameRecord
<1>2. CASE Len(frames) = 1
  BY <1>1, <1>2 DEF Chain
<1>3. CASE Len(frames) # 1
  <2>1. Len(frames) > 1 /\ 1 \in 1..Len(frames)
    <3>1. Len(frames) \in Nat /\ Len(frames) # 0
      BY TopFacts
    <3>2. QED
      BY <1>3, <3>1
  <2>2. frames[1] \in FrameRecord(ThisLine, DOMAIN program)
    BY <2>1, ElementOfSeq DEF IInv, LinesIsolated
  <2>3. frames[1].scopes # <<>> /\ frames[1].scopes \in Seq(scope)
    BY <2>1, <2>2 DEF IInv, GlobalScopeOpen, FrameRecord
  <2> HIDE DEF scope
  <2>4. frames[1].scopes[1] \in scope
    BY <2>3, EmptySeq, ElementOfSeq
  <2>5. <<frames[1].scopes[1]>> \in Seq(scope)
    BY <2>4
  <2>6. <<frames[1].scopes[1]>> \o Top.scopes \in Seq(scope)
    BY <1>1, <2>5, ConcatProperties
  <2>7. QED
    BY <1>3, <2>6 DEF Chain, scope
<1>4. QED
  BY <1>2, <1>3

LEMMA LoadIdPreserves ==
  ASSUME IInv, LoadId
  PROVE  IInv'
<1>1. /\ status = "running" /\ ~AtEnd
      /\ Instr.op = "LOAD_ID"
      /\ Instr \in Instruction(DOMAIN program)
      /\ Top.stack \in Seq(ThisLine)
  BY ExecutingFacts DEF LoadId
<1>2. Instr.name \in Names
  BY <1>1, InstructionTypes
<1>3. PICK o \in DOMAIN heap :
        /\ Found(Instr.name, o)
        /\ Step([Top EXCEPT !.stack = Append(Top.stack, o)], Incref(heap, o))
  BY DEF LoadId
<1>4. o \in ThisLine
  <2>1. PICK s \in DOMAIN Chain : Chain[s][Instr.name] = o /\ o # Nil
    BY <1>3 DEF Found
  <2>2. Chain[s] \in [Names -> ThisLine \cup {Nil}]
    BY <1>1, <2>1, ChainType, ElementOfSeq, LenProperties
  <2>3. QED
    BY <1>2, <2>1, <2>2
<1>5. Append(Top.stack, o) \in Seq(ThisLine)
  BY <1>1, <1>4, AppendProperties
<1>6. LineHeap(Incref(heap, o)) /\ Len(Incref(heap, o)) = Len(heap)
  BY <1>1, <1>4, LineHeapNow, LineHeapCount
<1>7. QED
  BY <1>1, <1>3, <1>5, <1>6, UpdatePreserves

\* The number of values each instruction takes.
LEMMA NeededValues ==
  ASSUME ~AtEnd
  PROVE  /\ Instr.op \in BinaryOps => Needed = 2
         /\ Instr.op \in NegatingOps
                           \cup {"UPLUS", "POP_OBJECT", "SET_NAME", "RET"}
              => Needed = 1
         /\ Instr.op = "CALLB" => Needed = Instr.argscount + 1
BY DEF Needed, Takes, BinaryOps, NegatingOps

\* One or two operands: they are objects of the line and can be dropped.
LEMMA OneOperand ==
  ASSUME IInv, status = "running", ~AtEnd, ~StackUnderflow, Needed = 1
  PROVE  /\ Operand(1) \in ThisLine
         /\ 1 <= Len(Top.stack)
         /\ Drop(Top.stack, 1) \in Seq(ThisLine)
         /\ IsFiniteSet(DOMAIN <<Operand(1)>>)
<1>1. Top.stack \in Seq(ThisLine) /\ Len(Top.stack) \in Nat
  BY TopFacts, LenProperties DEF FrameRecord
<1>2. Operand(1) \in ThisLine
  BY OperandTypes
<1>3. 1 <= Len(Top.stack)
  BY <1>1 DEF StackUnderflow
<1>4. IsFiniteSet(DOMAIN <<Operand(1)>>)
  <2>1. <<Operand(1)>> \in Seq(ThisLine)
    BY <1>2
  <2>2. QED
    BY <2>1, FiniteDomain
<1>5. QED
  BY <1>1, <1>2, <1>3, <1>4, DropType

LEMMA TwoOperands ==
  ASSUME IInv, status = "running", ~AtEnd, ~StackUnderflow, Needed = 2
  PROVE  /\ 2 <= Len(Top.stack)
         /\ IsFiniteSet(DOMAIN <<Operand(1), Operand(2)>>)
<1>1. Operand(1) \in ThisLine /\ Operand(2) \in ThisLine
  BY OperandTypes
<1>2. <<Operand(1), Operand(2)>> \in Seq(ThisLine)
  BY <1>1
<1>3. Len(Top.stack) \in Nat
  BY TopFacts, LenProperties DEF FrameRecord
<1>4. 2 <= Len(Top.stack)
  BY <1>3 DEF StackUnderflow
<1>5. QED
  BY <1>2, <1>4, FiniteDomain

LEMMA BinaryPreserves ==
  ASSUME IInv, Binary
  PROVE  IInv'
<1> DEFINE h == Release(heap, <<Operand(1), Operand(2)>>)
<1>1. /\ status = "running" /\ ~AtEnd /\ ~StackUnderflow
      /\ Instr.op \in BinaryOps /\ Instr.op # "START_SCOPE"
  BY ExecutingFacts DEF Binary, BinaryOps
<1>2. Needed = 2
  BY <1>1, NeededValues
<1>3. 2 <= Len(Top.stack) /\ LineHeap(h) /\ Len(h) = Len(heap)
  BY <1>1, <1>2, TwoOperands, LineHeapNow, LineHeapCounts
<1>4. PushNew(h, 2, "int")
  BY DEF Binary
<1> HIDE DEF h
<1>5. QED
  BY <1>1, <1>3, <1>4, PushNewPreserves DEF Kinds

LEMMA NegatePreserves ==
  ASSUME IInv, Negate
  PROVE  IInv'
<1> DEFINE h == Release(heap, <<Operand(1)>>)
<1>1. /\ status = "running" /\ ~AtEnd /\ ~StackUnderflow
      /\ Instr.op \in NegatingOps /\ Instr.op # "START_SCOPE"
  BY ExecutingFacts DEF Negate, NegatingOps
<1>2. Needed = 1
  BY <1>1, NeededValues
<1>3. 1 <= Len(Top.stack) /\ LineHeap(h) /\ Len(h) = Len(heap)
  BY <1>1, <1>2, OneOperand, LineHeapNow, LineHeapCounts
<1>4. PushNew(h, 1, "int")
  BY DEF Negate
<1> HIDE DEF h
<1>5. QED
  BY <1>1, <1>3, <1>4, PushNewPreserves DEF Kinds

LEMMA UnaryPlusPreserves ==
  ASSUME IInv, UnaryPlus
  PROVE  IInv'
<1> DEFINE h == Release(heap, <<Operand(1)>>)
<1>1. /\ status = "running" /\ ~AtEnd /\ ~StackUnderflow
      /\ Instr.op = "UPLUS" /\ Top.stack \in Seq(ThisLine)
  BY ExecutingFacts DEF UnaryPlus
<1>2. Needed = 1
  BY <1>1, NeededValues
<1>3. /\ 1 <= Len(Top.stack) /\ LineHeap(h) /\ Len(h) = Len(heap)
      /\ Operand(1) \in ThisLine
  BY <1>1, <1>2, OneOperand, LineHeapNow, LineHeapCounts
<1>4. CASE KindOf(Operand(1)) = "int"
  <2>1. PushNew(h, 1, "int")
    BY <1>4 DEF UnaryPlus
  <2> HIDE DEF h
  <2>2. QED
    BY <1>1, <1>3, <2>1, PushNewPreserves DEF Kinds
<1>5. CASE KindOf(Operand(1)) # "int"
  <2>1. Step(Top, Incref(h, Operand(1)))
    BY <1>5 DEF UnaryPlus
  <2> HIDE DEF h
  <2>2. LineHeap(Incref(h, Operand(1))) /\ Len(Incref(h, Operand(1))) = Len(heap)
    BY <1>1, <1>3, LineHeapCount
  <2>3. Top = [Top EXCEPT !.stack = Top.stack]
    BY <1>1, TopFacts DEF FrameRecord
  <2>4. QED
    BY <1>1, <2>1, <2>2, <2>3, UpdatePreserves
<1>6. QED
  BY <1>4, <1>5

LEMMA PopObjectPreserves ==
  ASSUME IInv, PopObject
  PROVE  IInv'
<1> DEFINE h == Release(heap, <<Operand(1)>>)
<1>1. /\ status = "running" /\ ~AtEnd /\ ~StackUnderflow
      /\ Instr.op = "POP_OBJECT"
  BY ExecutingFacts DEF PopObject
<1>2. Needed = 1
  BY <1>1, NeededValues
<1>3. /\ LineHeap(h) /\ Len(h) = Len(heap)
      /\ Drop(Top.stack, 1) \in Seq(ThisLine)
  BY <1>1, <1>2, OneOperand, LineHeapNow, LineHeapCounts
<1>4. Step([Top EXCEPT !.stack = Drop(Top.stack, 1)], h)
  BY DEF PopObject
<1> HIDE DEF h
<1>5. QED
  BY <1>1, <1>3, <1>4, UpdatePreserves

\* RET, and the instructions the switch has no case for, only move on.
LEMMA IdlePreserves ==
  ASSUME IInv, Ret \/ Ignored
  PROVE  IInv'
<1>1. /\ status = "running" /\ ~AtEnd /\ Instr.op # "START_SCOPE"
      /\ Top.stack \in Seq(ThisLine)
  BY ExecutingFacts DEF Ret, Ignored, IgnoredOps, JumpOps
<1>2. Step(Top, heap)
  BY DEF Ret, Ignored
<1>3. Top = [Top EXCEPT !.stack = Top.stack]
  BY <1>1, TopFacts DEF FrameRecord
<1>4. QED
  BY <1>1, <1>2, <1>3, LineHeapNow, UpdatePreserves

-----------------------------------------------------------------------------
(* Instructions that open, close or change a scope.                         *)

LEMMA ScopesPreserve ==
  ASSUME IInv, status = "running",
         NEW h, LineHeap(h),
         NEW scopes \in Seq([Names -> (meta.false_obj..Len(h)) \cup {Nil}]),
         NEW stack \in Seq(ThisLine),
         Len(frames) = 1 /\ Top.pc < Len(Code) => scopes # <<>>,
         Step([Top EXCEPT !.scopes = scopes, !.stack = stack], h)
  PROVE  IInv'
<1> DEFINE now == meta.false_obj..Len(h)
           f == [Top EXCEPT !.scopes = scopes, !.stack = stack]
<1>1. ThisLine \subseteq now
  <2>1. Len(h) \in Nat /\ Len(heap) \in Nat /\ Len(heap) <= Len(h)
    BY LenProperties DEF LineHeap, IInv, TypeOK
  <2>2. QED
    BY <2>1 DEF ThisLine, IInv, Running
<1>2. stack \in Seq(now)
  BY <1>1, SeqMonotonic
<1>3. Top \in FrameRecord(now, DOMAIN program)
  <2>1. FrameRecord(ThisLine, DOMAIN program)
          \subseteq FrameRecord(now, DOMAIN program)
    BY <1>1, FrameWider
  <2>2. QED
    BY <2>1, TopFacts
<1>4. f \in FrameRecord(now, DOMAIN program)
        /\ f.block = Top.block /\ f.pc = Top.pc /\ f.scopes = scopes
  BY <1>2, <1>3 DEF FrameRecord
<1>5. Step(f, h)
  OBVIOUS
<1> HIDE DEF f
<1>6. QED
  BY <1>4, <1>5, StepPreserves

\* set_name keeps the objects.
LEMMA SetNameHeapType ==
  ASSUME IInv, status = "running", NEW h, LineHeap(h), NEW scope, NEW name,
         NEW o \in 1..Len(h)
  PROVE  LineHeap(SetNameHeap(h, scope, name, o))
           /\ Len(SetNameHeap(h, scope, name, o)) = Len(h)
<1> DEFINE dropped == Release(h, <<scope[name]>>)
           g == IF scope[name] = Nil THEN h ELSE dropped
<1>1. IsFiniteSet(DOMAIN <<scope[name]>>)
  <2>1. <<scope[name]>> \in Seq({scope[name]})
    OBVIOUS
  <2>2. QED
    BY <2>1, FiniteDomain
<1>2. LineHeap(dropped) /\ Len(dropped) = Len(h)
  BY <1>1, LineHeapCounts
<1> HIDE DEF dropped
<1>3. LineHeap(g) /\ Len(g) = Len(h)
  BY <1>2
<1>4. SetNameHeap(h, scope, name, o)
        = IF scope[name] = o THEN h ELSE Incref(g, o)
  BY DEF SetNameHeap, g, dropped
<1> HIDE DEF g
<1>5. LineHeap(Incref(g, o)) /\ Len(Incref(g, o)) = Len(h)
  <2>1. Recounted(g, Incref(g, o))
    BY <1>3, CountRewritten DEF LineHeap
  <2>2. QED
    BY <1>3, <2>1, LineHeapRecounted
<1>6. QED
  BY <1>3, <1>4, <1>5

\* The innermost scope with one name bound anew.
LEMMA BindType ==
  ASSUME NEW S, NEW scopes \in Seq([Names -> S]), scopes # <<>>,
         NEW name \in Names, NEW o \in S
  PROVE  [scopes EXCEPT ![Len(scopes)][name] = o] \in Seq([Names -> S])
           /\ [scopes EXCEPT ![Len(scopes)][name] = o] # <<>>
<1> DEFINE s == Len(scopes)
           inner == [scopes[s] EXCEPT ![name] = o]
           bound == [scopes EXCEPT ![s] = inner]
<1>1. s \in 1..Len(scopes)
  <2>1. s \in Nat /\ s # 0
    BY EmptySeq
  <2>2. QED
    BY <2>1
<1>2. scopes[s] \in [Names -> S]
  BY <1>1, ElementOfSeq
<1>3. inner \in [Names -> S]
  BY <1>2
<1>4. [scopes EXCEPT ![Len(scopes)][name] = o] = bound
  OBVIOUS
<1> HIDE DEF inner
<1>5. bound \in Seq([Names -> S]) /\ Len(bound) = Len(scopes)
  BY <1>1, <1>3, ExceptSeq
<1> HIDE DEF bound
<1>6. bound # <<>>
  BY <1>1, <1>5, EmptySeq
<1>7. QED
  BY <1>4, <1>5, <1>6

LEMMA SetNamePreserves ==
  ASSUME IInv, SetName
  PROVE  IInv'
<1> DEFINE o == Operand(1)
           s == Len(Top.scopes)
           h == XDecref(heap, o)
           g == SetNameHeap(h, Top.scopes[s], Instr.name, o)
           scopes == [Top.scopes EXCEPT ![s][Instr.name] = o]
<1>1. /\ status = "running" /\ ~AtEnd /\ ~StackUnderflow
      /\ Instr.op = "SET_NAME" /\ Instr \in Instruction(DOMAIN program)
  BY ExecutingFacts DEF SetName
<1>2. Needed = 1 /\ Instr.name \in Names
  BY <1>1, NeededValues, InstructionTypes
<1>3. o \in ThisLine /\ Drop(Top.stack, 1) \in Seq(ThisLine)
  BY <1>1, <1>2, OneOperand
<1>4. LineHeap(h) /\ Len(h) = Len(heap)
  BY <1>1, <1>3, LineHeapNow, LineHeapCount
<1>5. Top.scopes \in Seq([Names -> ThisLine \cup {Nil}]) /\ Top.scopes # <<>>
  BY <1>1, TopFacts DEF FrameRecord, SetName
<1>6. Step([Top EXCEPT !.scopes = scopes, !.stack = Drop(Top.stack, 1)], g)
  <2>1. Top \in FrameRecord(ThisLine, DOMAIN program)
    BY <1>1, TopFacts
  <2>2. [Top EXCEPT !.scopes[s][Instr.name] = o, !.stack = Drop(Top.stack, 1)]
          = [Top EXCEPT !.scopes = scopes, !.stack = Drop(Top.stack, 1)]
    BY <2>1 DEF FrameRecord
  <2>3. QED
    BY <2>2 DEF SetName
<1> HIDE DEF o, h
<1>7. o \in 1..Len(h)
  BY <1>1, <1>3, <1>4 DEF ThisLine, IInv, Running
<1>8. LineHeap(g) /\ Len(g) = Len(heap)
  BY <1>1, <1>4, <1>7, SetNameHeapType
<1>9. scopes \in Seq([Names -> ThisLine \cup {Nil}]) /\ scopes # <<>>
  BY <1>2, <1>3, <1>5, BindType
<1> HIDE DEF g, scopes
<1>10. QED
  BY <1>1, <1>3, <1>6, <1>8, <1>9, ScopesPreserve DEF ThisLine

LEMMA StartGlobalScopePreserves ==
  ASSUME IInv, StartGlobalScope
  PROVE  IInv'
<1> DEFINE r == Object("print", 1, 0)
           h == Append(heap, r)
           scope == [EmptyScope EXCEPT ![PrintName] = Len(heap) + 1]
           now == meta.false_obj..Len(h)
<1>1. status = "running" /\ Top.stack \in Seq(ThisLine)
  BY ExecutingFacts DEF StartGlobalScope
<1>2. r \in ObjectRecord /\ LineObject(r) /\ r.kind # "function"
  BY ObjectType DEF Kinds, LineObject
<1>3. LineHeap(h) /\ Len(h) = Len(heap) + 1
  BY <1>1, <1>2, LineHeapNow, LineHeapAppend
<1>4. Len(heap) + 1 \in now
  <2>1. Len(heap) \in Nat /\ meta.false_obj \in ThisLine
    BY <1>1, LenProperties DEF IInv, TypeOK, LinesIsolated
  <2>2. QED
    BY <1>1, <1>3, <2>1 DEF ThisLine, IInv, Running
<1> HIDE DEF now
<1>5. scope \in [Names -> now \cup {Nil}]
  BY <1>4, ProgramsAssumption DEF EmptyScope
<1>6. Step([Top EXCEPT !.scopes = <<scope>>, !.stack = Top.stack], h)
  <2>1. [Top EXCEPT !.scopes = <<scope>>, !.stack = Top.stack]
          = [Top EXCEPT !.scopes = <<scope>>]
    BY <1>1, TopFacts DEF FrameRecord
  <2>2. QED
    BY <2>1 DEF StartGlobalScope
<1> HIDE DEF scope
<1>7. <<scope>> \in Seq([Names -> now \cup {Nil}]) /\ <<scope>> # <<>>
  BY <1>5
<1> HIDE DEF h
<1>8. QED
  BY <1>1, <1>3, <1>6, <1>7, ScopesPreserve DEF now

LEMMA StartScopePreserves ==
  ASSUME IInv, StartScope
  PROVE  IInv'
<1> DEFINE h == Acquire(heap, Top.args)
           scope == [Names -> ThisLine \cup {Nil}]
           scopes == Append(Top.scopes, Top.args)
<1>1. status = "running" /\ Top.stack \in Seq(ThisLine)
  BY ExecutingFacts DEF StartScope
<1>2. Top.args \in scope /\ Top.scopes \in Seq(scope)
  BY <1>1, TopFacts DEF FrameRecord
<1>3. IsFiniteSet(DOMAIN Top.args)
  BY <1>2, ProgramsAssumption
<1>4. LineHeap(h) /\ Len(h) = Len(heap)
  BY <1>1, <1>3, LineHeapNow, LineHeapCounts
<1>5. Step([Top EXCEPT !.scopes = scopes, !.stack = Top.stack], h)
  <2>1. [Top EXCEPT !.scopes = scopes, !.stack = Top.stack]
          = [Top EXCEPT !.scopes = scopes]
    BY <1>1, TopFacts DEF FrameRecord
  <2>2. QED
    BY <2>1 DEF StartScope
<1> HIDE DEF h, scope
<1>6. scopes \in Seq(scope) /\ scopes # <<>>
  BY <1>2, AppendProperties
<1> HIDE DEF scopes
<1>7. QED
  BY <1>1, <1>4, <1>5, <1>6, ScopesPreserve DEF ThisLine, scope

LEMMA EndScopePreserves ==
  ASSUME IInv, EndScope
  PROVE  IInv'
<1> DEFINE scope == [Names -> ThisLine \cup {Nil}]
           s == Len(Top.scopes)
           h == Release(heap, Top.scopes[s])
           scopes == Drop(Top.scopes, 1)
<1>1. /\ status = "running" /\ ~AtEnd /\ Instr.op = "END_SCOPE"
      /\ Top.stack \in Seq(ThisLine)
  BY ExecutingFacts DEF EndScope
<1>2. Top.scopes \in Seq(scope) /\ Top.scopes # <<>>
  BY <1>1, TopFacts DEF FrameRecord, EndScope
<1>3. s \in Nat /\ s >= 1 /\ s \in 1..Len(Top.scopes)
  BY <1>2, EmptySeq
<1>4. Top.scopes[s] \in scope
  BY <1>2, <1>3, ElementOfSeq
<1>5. IsFiniteSet(DOMAIN Top.scopes[s])
  BY <1>4, ProgramsAssumption
<1>6. LineHeap(h) /\ Len(h) = Len(heap)
  BY <1>1, <1>5, LineHeapNow, LineHeapCounts
<1>7. Step([Top EXCEPT !.scopes = scopes, !.stack = Top.stack], h)
  <2>1. [Top EXCEPT !.scopes = scopes, !.stack = Top.stack]
          = [Top EXCEPT !.scopes = scopes]
    BY <1>1, TopFacts DEF FrameRecord
  <2>2. QED
    BY <2>1 DEF EndScope
<1> HIDE DEF scope, h
<1>8. scopes \in Seq(scope) /\ Len(scopes) = s - 1
  BY <1>2, <1>3, DropType
<1>9. ASSUME Len(frames) = 1, Top.pc < Len(Code)
      PROVE  scopes # <<>>
  <2>1. Top = frames[1] /\ Code = program[1] /\ WellFormed(program)
    BY <1>1, <1>9 DEF Top, Code, IInv, GlobalScopeOpen, Running
  <2>2. Code[Len(Code)].op = "END_SCOPE"
    BY <2>1 DEF WellFormed
  <2>3. Len(Code) \in Nat /\ DOMAIN Code = 1..Len(Code) /\ Top.pc \in Nat \ {0}
    BY <1>1, TopFacts, LenProperties DEF FrameRecord
  <2>4. Len(Code) \in DOMAIN Code /\ Len(Code) > Top.pc
    BY <1>9, <2>3
  <2>5. s # 1
    BY <1>1, <1>9, <2>2, <2>4
       DEF EndScope, Executing, Defined, StrayCode, ClosesEarly, At
  <2>6. Len(scopes) # 0
    <3> HIDE DEF s, scopes
    <3>1. QED
      BY <1>3, <1>8, <2>5
  <2>7. QED
    BY <1>8, <2>6, EmptySeq
<1> HIDE DEF scopes
<1>10. QED
  BY <1>1, <1>6, <1>7, <1>8, <1>9, ScopesPreserve DEF ThisLine, scope

\* A function is an object of the line and has the address of its definition.
LEMMA DefinedObject ==
  ASSUME IInv, DefineFunction
  PROVE  LET r == FunctionObject(Top.block, Instr)
         IN r \in ObjectRecord /\ LineObject(r) /\ r.lost = 0
<1> DEFINE r == FunctionObject(Top.block, Instr)
           new == Object("function", 0, typeGen)
<1>1. /\ status = "running" /\ ~AtEnd /\ Instr.op = "DEFINE_FUNCTION"
      /\ Instr \in Instruction(DOMAIN program)
  BY ExecutingFacts DEF DefineFunction
<1>2. Instr.signature \in Seq(Names) /\ Instr.body \in DOMAIN program
  BY <1>1, InstructionTypes
<1>3. Top \in FrameRecord(ThisLine, DOMAIN program)
  BY <1>1, TopFacts
<1>4. DOMAIN program \subseteq Nat
  <2>1. program \in Seq(Seq(Instruction(DOMAIN program)))
    BY <1>1 DEF IInv, Running, WellFormed
  <2>2. DOMAIN program = 1..Len(program) /\ Len(program) \in Nat
    BY <2>1, LenProperties
  <2>3. QED
    BY <2>2
<1>5. new \in ObjectRecord /\ new.gen = typeGen /\ new.lost = 0
  <2>1. typeGen \in Nat
    BY <1>1 DEF IInv, TypeOK
  <2>2. "function" \in Kinds
    BY DEF Kinds
  <2>3. new.lost = 0
    BY DEF Object
  <2>4. QED
    BY <2>1, <2>2, <2>3, ObjectType
<1>6. Top.block \in Nat /\ Instr.body \in Nat
  BY <1>2, <1>3, <1>4 DEF FrameRecord
<1>7. r = [new EXCEPT !.home = Top.block, !.body = Instr.body,
                      !.signature = Instr.signature]
  BY DEF FunctionObject
<1> HIDE DEF r, new
<1>8. /\ r \in ObjectRecord /\ r.gen = typeGen /\ r.lost = 0
      /\ r.home = Top.block /\ r.body = Instr.body
  BY <1>2, <1>5, <1>6, <1>7 DEF ObjectRecord
<1>9. Defines(Top.block, Instr.body)
  <2>1. Top.pc \in DOMAIN program[Top.block]
    BY <1>1, <1>3, TopFacts, LenProperties DEF Code, AtEnd, FrameRecord
  <2>2. QED
    BY <1>1, <1>2, <1>3, <2>1 DEF Defines, Instr, Code, FrameRecord
<1>10. QED
  BY <1>8, <1>9 DEF LineObject, r

LEMMA DefineFunctionPreserves ==
  ASSUME IInv, DefineFunction
  PROVE  IInv'
<1> DEFINE o == Len(heap) + 1
           s == Len(Top.scopes)
           r == FunctionObject(Top.block, Instr)
           h == Append(heap, r)
           g == SetNameHeap(h, Top.scopes[s], Instr.name, o)
           now == meta.false_obj..Len(g)
           scopes == [Top.scopes EXCEPT ![s][Instr.name] = o]
<1>1. /\ status = "running" /\ ~AtEnd /\ Instr.op = "DEFINE_FUNCTION"
      /\ Instr \in Instruction(DOMAIN program)
      /\ Top.stack \in Seq(ThisLine)
  BY ExecutingFacts DEF DefineFunction
<1>2. /\ Instr.name \in Names /\ Instr.signature \in Seq(Names)
      /\ Instr.body \in DOMAIN program
  BY <1>1, InstructionTypes
<1>3. Top \in FrameRecord(ThisLine, DOMAIN program)
  BY <1>1, TopFacts
<1>4. r \in ObjectRecord /\ LineObject(r) /\ Top.scopes # <<>>
  BY DefinedObject DEF DefineFunction
<1>5. LineHeap(h) /\ Len(h) = Len(heap) + 1
  BY <1>1, <1>2, <1>4, LineHeapNow, LineHeapAppend
<1>6. Len(heap) \in Nat /\ meta.false_obj \in ThisLine
        /\ meta.false_obj \in Nat \ {0}
  BY <1>1, LenProperties DEF IInv, TypeOK, LinesIsolated, Running
<1>7. Top.scopes \in Seq([Names -> ThisLine \cup {Nil}]) /\ Top.scopes # <<>>
  BY <1>3 DEF FrameRecord, DefineFunction
<1>8. Step([Top EXCEPT !.scopes = scopes, !.stack = Top.stack], g)
  <2>1. [Top EXCEPT !.scopes = scopes, !.stack = Top.stack]
          = [Top EXCEPT !.scopes[s][Instr.name] = o]
    BY <1>3 DEF FrameRecord
  <2>2. QED
    BY <2>1 DEF DefineFunction
<1> HIDE DEF h
<1>9. o \in 1..Len(h)
  BY <1>5, <1>6
<1>10. LineHeap(g) /\ Len(g) = Len(heap) + 1
  BY <1>1, <1>5, <1>9, SetNameHeapType
<1> HIDE DEF g
<1>11. o \in now /\ ThisLine \subseteq now
  BY <1>6, <1>10 DEF ThisLine
<1> HIDE DEF o, now
<1>12. Top.scopes \in Seq([Names -> now \cup {Nil}])
  <2>1. [Names -> ThisLine \cup {Nil}] \subseteq [Names -> now \cup {Nil}]
    BY <1>11
  <2>2. QED
    BY <1>7, <2>1, SeqMonotonic
<1>13. scopes \in Seq([Names -> now \cup {Nil}]) /\ scopes # <<>>
  BY <1>2, <1>7, <1>11, <1>12, BindType
<1> HIDE DEF scopes
<1>14. QED
  BY <1>1, <1>8, <1>10, <1>13, ScopesPreserve DEF now

-----------------------------------------------------------------------------
(* Calls and returns.                                                       *)

\* The values a call takes from the stack.
LEMMA CallFacts ==
  ASSUME IInv, Executing({"CALLB"})
  PROVE  /\ Instr.argscount \in Nat
         /\ Arguments(Instr.argscount) \in Seq(ThisLine)
         /\ Callable \in ThisLine
         /\ Drop(Top.stack, Instr.argscount + 1) \in Seq(ThisLine)
         /\ Append(Arguments(Instr.argscount), Callable) \in Seq(ThisLine)
<1>1. /\ status = "running" /\ ~AtEnd /\ ~StackUnderflow
      /\ Instr.op = "CALLB" /\ Instr \in Instruction(DOMAIN program)
      /\ Top.stack \in Seq(ThisLine) /\ Len(Top.stack) \in Nat
  BY ExecutingFacts
<1>2. Instr.argscount \in Nat /\ Needed = Instr.argscount + 1
  BY <1>1, InstructionTypes, NeededValues
<1>3. PICK n \in Nat : n = Instr.argscount
  BY <1>2
<1>4. n + 1 <= Len(Top.stack)
  BY <1>1, <1>2, <1>3 DEF StackUnderflow
<1>5. Arguments(n) \in Seq(ThisLine)
  <2>1. \A i \in (Len(Top.stack) - n + 1)..Len(Top.stack) :
          Top.stack[i] \in ThisLine
    BY <1>1, <1>4, ElementOfSeq
  <2>2. QED
    BY <1>1, <2>1, SubSeqProperties DEF Arguments
<1>6. Callable \in ThisLine
  <2>1. Operand(n + 1) \in ThisLine
    BY <1>1, <1>2, <1>3, OperandTypes
  <2>2. QED
    BY <1>3, <2>1 DEF Callable
<1>7. Drop(Top.stack, n + 1) \in Seq(ThisLine)
  BY <1>1, <1>4, DropType
<1>8. Append(Arguments(n), Callable) \in Seq(ThisLine)
  BY <1>5, <1>6, AppendProperties
<1>9. QED
  BY <1>3, <1>5, <1>6, <1>7, <1>8

LEMMA CallPrintPreserves ==
  ASSUME IInv, CallPrint
  PROVE  IInv'
<1> DEFINE n == Instr.argscount
           none == meta.none_obj
           taken == Append(Arguments(n), Callable)
           h == Release(Incref(heap, none), taken)
           stack == Append(Drop(Top.stack, n + 1), none)
<1>1. Executing({"CALLB"})
  BY DEF CallPrint
<1>2. status = "running" /\ ~AtEnd /\ Instr.op # "START_SCOPE"
  BY <1>1, ExecutingFacts
<1>3. taken \in Seq(ThisLine) /\ Drop(Top.stack, n + 1) \in Seq(ThisLine)
  BY <1>1, CallFacts
<1>4. Step([Top EXCEPT !.stack = stack], h)
  BY DEF CallPrint
<1> HIDE DEF n, taken
<1>5. none \in ThisLine
  BY <1>2 DEF IInv, LinesIsolated, TypeOK
<1>6. stack \in Seq(ThisLine)
  BY <1>3, <1>5, AppendProperties
<1>7. LineHeap(Incref(heap, none)) /\ Len(Incref(heap, none)) = Len(heap)
  BY <1>2, <1>5, LineHeapNow, LineHeapCount
<1>8. LineHeap(h) /\ Len(h) = Len(heap)
  BY <1>2, <1>3, <1>7, FiniteDomain, LineHeapCounts
<1> HIDE DEF h, stack
<1>9. QED
  BY <1>2, <1>4, <1>6, <1>8, UpdatePreserves

\* A step that starts or ends an activation and creates no object.
LEMMA FramesPreserve ==
  ASSUME IInv, status = "running",
         NEW h, LineHeap(h), Len(h) = Len(heap),
         NEW fs \in Seq(FrameRecord(ThisLine, DOMAIN program)), fs # <<>>,
         fs[1].block = 1,
         fs[1].scopes # <<>>,
         frames' = fs, heap' = h,
         UNCHANGED <<program, meta, typeGen, runs, status, fault>>
  PROVE  IInv'
<1>1. ThisLine' = ThisLine
  BY DEF ThisLine
<1>2. TypeOK'
  <2>1. ThisLine \subseteq 1..Len(heap)
    <3>1. Len(heap) \in Nat
      BY LenProperties DEF IInv, TypeOK
    <3>2. QED
      BY <3>1 DEF ThisLine, IInv, Running
  <2>2. fs \in Seq(FrameRecord(1..Len(h), DOMAIN program))
    BY <2>1, FramesWider
  <2>3. QED
    BY <2>2 DEF TypeOK, IInv, LineHeap
<1>3. LinesIsolated' /\ LineObjects'
  BY <1>1 DEF LinesIsolated, LineObjects, IInv, LineHeap, LineObject, Defines,
              ThisLine
<1>4. Running' /\ GlobalScopeOpen'
  BY DEF Running, GlobalScopeOpen, IInv
<1>5. QED
  BY <1>2, <1>3, <1>4 DEF IInv

\* A name of a signature is bound to an argument or to nothing.
LEMMA BindingsType ==
  ASSUME NEW S, NEW arguments \in Seq(S), NEW signature
  PROVE  Bindings(signature, arguments) \in [Names -> S \cup {Nil}]
<1> DEFINE Latest(n, i) ==
             /\ signature[i] = n
             /\ \A j \in DOMAIN arguments : j > i => signature[j] # n
           value(n) == IF \E i \in DOMAIN arguments : Latest(n, i)
                       THEN arguments[CHOOSE i \in DOMAIN arguments :
                                        Latest(n, i)]
                       ELSE Nil
<1>1. ASSUME NEW n \in Names PROVE value(n) \in S \cup {Nil}
  <2>1. CASE \E i \in DOMAIN arguments : Latest(n, i)
    <3> DEFINE c == CHOOSE i \in DOMAIN arguments : Latest(n, i)
    <3> HIDE DEF Latest
    <3>1. c \in DOMAIN arguments
      BY <2>1
    <3>2. arguments[c] \in S
      BY <3>1, ElementOfSeq, LenProperties
    <3>3. QED
      BY <2>1, <3>2
  <2>2. CASE ~ \E i \in DOMAIN arguments : Latest(n, i)
    <3> HIDE DEF Latest
    <3>1. QED
      BY <2>2
  <2>3. QED
    BY <2>1, <2>2
<1>2. Bindings(signature, arguments) = [n \in Names |-> value(n)]
  BY DEF Bindings
<1> HIDE DEF value
<1>3. QED
  BY <1>1, <1>2

\* The top level calls a function only while its scope is open.
LEMMA CallFunctionPreserves ==
  ASSUME IInv, CallFunction
  PROVE  IInv'
<1> DEFINE n == Instr.argscount
           k == Len(frames)
           record == FrameRecord(ThisLine, DOMAIN program)
           body == heap[Callable].body
           args == Bindings(heap[Callable].signature, Arguments(n))
           caller == [Top EXCEPT !.stack = Drop(@, n + 1),
                                 !.held = Append(Arguments(n), Callable)]
           callee == Activation(body, args)
           below == [frames EXCEPT ![k] = caller]
           fs == Append(below, callee)
<1>1. Executing({"CALLB"})
  BY DEF CallFunction
<1>2. /\ status = "running" /\ ~AtEnd /\ Instr.op = "CALLB"
  BY <1>1, ExecutingFacts
<1>3. /\ Arguments(n) \in Seq(ThisLine) /\ Callable \in ThisLine
      /\ Drop(Top.stack, n + 1) \in Seq(ThisLine)
      /\ Append(Arguments(n), Callable) \in Seq(ThisLine)
  BY <1>1, CallFacts
<1>4. frames' = fs
        /\ UNCHANGED <<heap, program, meta, typeGen, runs, status, fault>>
  BY DEF CallFunction
<1>5. Top \in record /\ k \in Nat \ {0} /\ frames \in Seq(record)
  BY <1>2, TopFacts DEF IInv, LinesIsolated
<1>6. caller \in record /\ caller.block = Top.block /\ caller.pc = Top.pc
        /\ caller.scopes = Top.scopes
  <2> DEFINE stack == Drop(Top.stack, n + 1)
             held == Append(Arguments(n), Callable)
  <2>1. caller = [Top EXCEPT !.stack = stack, !.held = held]
    BY <1>5 DEF FrameRecord
  <2>2. stack \in Seq(ThisLine) /\ held \in Seq(ThisLine)
    BY <1>3
  <2> HIDE DEF stack, held
  <2>3. QED
    BY <1>5, <2>1, <2>2 DEF FrameRecord
<1>7. callee \in record
  <2>1. args \in [Names -> ThisLine \cup {Nil}]
    BY <1>3, BindingsType
  <2>2. body \in DOMAIN program
    BY <1>2, <1>3 DEF CallFunction, KindOf, IInv, LinesIsolated
  <2> HIDE DEF args, body
  <2>3. QED
    BY <2>1, <2>2, EmptySeq DEF Activation, FrameRecord
<1> HIDE DEF caller, callee, record
<1>8. below \in Seq(record) /\ Len(below) = k
        /\ below[1] = IF k = 1 THEN caller ELSE frames[1]
  BY <1>5, <1>6, ExceptSeq
<1> HIDE DEF below
<1>9. fs \in Seq(record) /\ fs # <<>> /\ Len(fs) = k + 1 /\ fs[1] = below[1]
  BY <1>5, <1>7, <1>8, AppendProperties
<1> HIDE DEF fs
<1>10. fs[1].block = 1 /\ fs[1].scopes # <<>>
  <2>1. CASE k = 1
    <3>1. Top = frames[1] /\ fs[1] = caller
      BY <1>8, <1>9, <2>1 DEF Top
    <3>2. Top.scopes # <<>>
      <4>1. Callable \in meta.false_obj..Len(heap)
        BY <1>3 DEF ThisLine
      <4>2. heap[Callable].kind = "function"
        BY DEF CallFunction, KindOf
      <4>3. ~NoFunctionIn(heap)
        BY <4>1, <4>2 DEF NoFunctionIn
      <4>4. QED
        BY <1>2, <2>1, <4>3, LineHeapNow DEF LineHeap
    <3>3. Top.block = 1
      BY <1>2, <3>1 DEF IInv, GlobalScopeOpen
    <3>4. QED
      BY <1>6, <3>1, <3>2, <3>3
  <2>2. CASE k # 1
    <3>1. k \in Nat /\ k # 0
      BY <1>5
    <3>2. k > 1
      BY <2>2, <3>1
    <3>3. QED
      BY <1>2, <1>8, <1>9, <2>2, <3>2 DEF IInv, GlobalScopeOpen
  <2>3. QED
    BY <2>1, <2>2
<1>11. QED
  BY <1>2, <1>4, <1>9, <1>10, LineHeapNow, FramesPreserve DEF record

\* A return gives the caller back its frame.
LEMMA ReturnPreserves ==
  ASSUME IInv, Return
  PROVE  IInv'
<1> DEFINE k == Len(frames) - 1
           record == FrameRecord(ThisLine, DOMAIN program)
           ret == Operand(1)
           surplus == IF ret = meta.none_obj THEN <<ret>> ELSE <<>>
           lost == Lose(heap, Drop(Top.stack, 1))
           closed == Release(lost, AllNames(Top.scopes))
           h == Release(Lose(Acquire(closed, surplus), surplus),
                        frames[k].held)
           below == SubSeq(frames, 1, k)
           caller == [below[k] EXCEPT !.pc = @ + 1, !.stack = Append(@, ret),
                                      !.held = <<>>]
           fs == [below EXCEPT ![k] = caller]
<1>1. status = "running" /\ AtEnd /\ ~StackUnderflow
  BY DEF Return, Defined
<1>2. /\ frames \in Seq(record) /\ Top \in record
      /\ Len(frames) \in Nat /\ Len(frames) > 1
  BY <1>1, TopFacts DEF IInv, LinesIsolated, Return
<1>3. PICK m \in Nat \ {0} : m = k /\ m + 1 = Len(frames)
  BY <1>2
<1>4. /\ below \in Seq(record) /\ Len(below) = m
      /\ \A i \in 1..m : below[i] = frames[i] /\ frames[i] \in record
  <2>1. \A i \in 1..m : frames[i] \in record
    BY <1>2, <1>3, ElementOfSeq
  <2> HIDE DEF record
  <2>2. /\ SubSeq(frames, 1, m) \in Seq(record)
        /\ Len(SubSeq(frames, 1, m)) = m
        /\ \A i \in 1..m : SubSeq(frames, 1, m)[i] = frames[i]
    BY <2>1, SubSeqProperties
  <2>3. QED
    BY <1>3, <2>1, <2>2
<1>5. ret \in ThisLine /\ Drop(Top.stack, 1) \in Seq(ThisLine)
  <2>1. Needed = 1
    <3>1. Len(frames) # 1
      BY <1>3
    <3>2. QED
      BY <1>1, <3>1 DEF Needed
  <2>2. Top.stack \in Seq(ThisLine) /\ Len(Top.stack) \in Nat
    BY <1>2, LenProperties DEF FrameRecord
  <2>3. 1 <= Len(Top.stack)
    BY <1>1, <2>1, <2>2 DEF StackUnderflow
  <2>4. QED
    BY <1>1, <2>1, <2>2, <2>3, OperandTypes, DropType
<1>6. frames' = fs /\ heap' = h
        /\ UNCHANGED <<program, meta, typeGen, runs, status, fault>>
  <2>1. [below EXCEPT ![k].pc = @ + 1, ![k].stack = Append(@, ret),
                      ![k].held = <<>>] = fs
    BY <1>3, <1>4, LenProperties
  <2>2. QED
    BY <2>1 DEF Return
<1>7. LineHeap(h) /\ Len(h) = Len(heap)
  <2>1. IsFiniteSet(DOMAIN Drop(Top.stack, 1))
    BY <1>5, FiniteDomain
  <2>2. LineHeap(lost) /\ Len(lost) = Len(heap)
    BY <1>1, <2>1, LineHeapNow, LineHeapCounts
  <2>3. IsFiniteSet(DOMAIN AllNames(Top.scopes))
    <3>1. IsFiniteSet(DOMAIN Top.scopes)
      BY <1>2, FiniteDomain DEF FrameRecord
    <3>2. IsFiniteSet((DOMAIN Top.scopes) \X Names)
      BY <3>1, FS_Product, ProgramsAssumption
    <3>3. QED
      BY <3>2 DEF AllNames
  <2> HIDE DEF lost
  <2>4. LineHeap(closed) /\ Len(closed) = Len(heap)
    BY <1>1, <2>2, <2>3, LineHeapCounts
  <2>5. surplus \in Seq(ThisLine)
    BY <1>5, EmptySeq
  <2>6. IsFiniteSet(DOMAIN surplus)
    BY <2>5, FiniteDomain
  <2> HIDE DEF closed, surplus
  <2>7. LineHeap(Acquire(closed, surplus))
          /\ Len(Acquire(closed, surplus)) = Len(heap)
    BY <1>1, <2>4, <2>6, LineHeapCounts
  <2>8. LineHeap(Lose(Acquire(closed, surplus), surplus))
          /\ Len(Lose(Acquire(closed, surplus), surplus)) = Len(heap)
    BY <1>1, <2>6, <2>7, LineHeapCounts
  <2>9. IsFiniteSet(DOMAIN frames[k].held)
    <3>1. frames[k] \in record
      BY <1>3, <1>4
    <3>2. QED
      BY <3>1, FiniteDomain DEF FrameRecord
  <2>10. QED
    BY <1>1, <2>8, <2>9, LineHeapCounts
<1> HIDE DEF h, ret
<1>8. caller \in record /\ caller.block = frames[k].block
        /\ caller.pc = frames[k].pc + 1 /\ caller.scopes = frames[k].scopes
  <2>1. below[k] = frames[k] /\ below[k] \in record
    BY <1>3, <1>4
  <2>2. PICK n \in Nat \ {0} : n = below[k].pc + 1
    <3>1. below[k].pc \in Nat \ {0}
      BY <2>1 DEF FrameRecord
    <3> HIDE DEF below
    <3>2. QED
      BY <3>1
  <2> DEFINE stack == Append(below[k].stack, ret)
  <2>3. stack \in Seq(ThisLine)
    BY <1>5, <2>1, AppendProperties DEF FrameRecord
  <2>4. caller = [below[k] EXCEPT !.pc = n, !.stack = stack, !.held = <<>>]
    BY <2>1, <2>2 DEF FrameRecord
  <2> HIDE DEF stack, below, caller
  <2>5. QED
    BY <2>1, <2>2, <2>3, <2>4, EmptySeq DEF FrameRecord
<1> HIDE DEF below, caller, record
<1>9. /\ fs \in Seq(record) /\ Len(fs) = m /\ fs # <<>>
      /\ fs[1] = IF m = 1 THEN caller ELSE frames[1]
  <2>1. m \in 1..Len(below) /\ 1 \in 1..m
    BY <1>3, <1>4
  <2>2. /\ fs \in Seq(record) /\ Len(fs) = m
        /\ fs[1] = IF m = 1 THEN caller ELSE below[1]
    <3>1. /\ below \in Seq(record) /\ Len(below) = m
          /\ caller \in record
      BY <1>4, <1>8
    <3> DEFINE gs == [below EXCEPT ![m] = caller]
    <3>2. /\ gs \in Seq(record) /\ Len(gs) = Len(below)
          /\ \A j \in 1..Len(below) : gs[j] = IF j = m THEN caller ELSE below[j]
      BY <2>1, <3>1, ExceptSeq
    <3>3. fs = gs
      BY <1>3
    <3> HIDE DEF fs, gs, k
    <3>4. QED
      BY <2>1, <3>1, <3>2, <3>3
  <2>3. QED
    BY <1>3, <1>4, <2>1, <2>2, EmptySeq
<1> HIDE DEF fs
<1>10. frames[1].block = 1 /\ frames[1].scopes # <<>>
  BY <1>1, <1>2 DEF IInv, GlobalScopeOpen
<1>11. fs[1].block = 1 /\ fs[1].scopes # <<>>
  BY <1>3, <1>8, <1>9, <1>10
<1>12. QED
  BY <1>1, <1>6, <1>7, <1>9, <1>11, FramesPreserve DEF record

-----------------------------------------------------------------------------
(* The lines.                                                               *)

LEMMA FaultPreserves ==
  ASSUME IInv, Fault
  PROVE  IInv'
<1>1. /\ UNCHANGED <<heap, frames, program, meta, typeGen, runs>>
      /\ status' = "faulted"
      /\ fault' \in {"stack_underflow", "null_dereference", "null_call",
                     "type_confusion", "use_after_free", "empty_string_pop",
                     "signature_overrun", "no_scope", "stray_code"}
  BY DEF Fault, Abort
<1>2. TypeOK'
  BY <1>1 DEF IInv, TypeOK
<1>3. QED
  BY <1>1, <1>2 DEF IInv, LinesIsolated, Running, GlobalScopeOpen, LineObjects

\* A new line begins: its three objects are the first of its own.
LEMMA RunPreserves ==
  ASSUME IInv, NEW p \in Programs, Run(p)
  PROVE  IInv'
<1> DEFINE n == Len(heap)
           b == Object("bool", 1, 0)
           none == Object("none", 1, 0)
           h == heap \o <<b, b, none>>
           start == Activation(1, EmptyScope)
<1>1. n \in Nat /\ heap \in Seq(ObjectRecord)
  BY LenProperties DEF IInv, TypeOK
<1>2. b \in ObjectRecord /\ none \in ObjectRecord
        /\ b.kind = "bool" /\ none.kind = "none" /\ b.gen = 0 /\ none.gen = 0
  BY ObjectType DEF Kinds
<1> HIDE DEF b, none
<1>3. h \in Seq(ObjectRecord) /\ Len(h) = n + 3
        /\ h[n + 1] = b /\ h[n + 2] = b /\ h[n + 3] = none
  <2>1. <<b, b, none>> \in Seq(ObjectRecord) /\ Len(<<b, b, none>>) = 3
    BY <1>2
  <2>2. QED
    BY <1>1, <2>1, ConcatProperties
<1>4. /\ status' = "running" /\ program' = p /\ runs' \in 0..MaxRuns
      /\ heap' = h /\ frames' = <<start>>
      /\ meta' = [false_obj |-> n + 1, true_obj |-> n + 2, none_obj |-> n + 3]
      /\ UNCHANGED <<typeGen, fault>>
  <2>1. runs \in Nat /\ runs + 1 \in 0..MaxRuns
    BY ProgramsAssumption DEF IInv, TypeOK, Run
  <2>2. QED
    BY <2>1 DEF Run, b, none
<1> HIDE DEF h
<1>5. DOMAIN p \subseteq Nat /\ 1 \in DOMAIN p
        /\ p[1] # <<>> /\ p[1] \in Seq(Instruction(DOMAIN p))
  <2>1. p \in Seq(Seq(Instruction(DOMAIN p))) /\ p # <<>>
    BY ProgramsAssumption DEF WellFormed
  <2>2. DOMAIN p = 1..Len(p) /\ Len(p) \in Nat /\ Len(p) # 0
    BY <2>1, LenProperties, EmptySeq
  <2>3. 1 \in DOMAIN p
    BY <2>2
  <2>4. QED
    BY <2>1, <2>2, <2>3, ProgramsAssumption, ElementOfSeq DEF WellFormed
<1>6. \A S : start \in FrameRecord(S, DOMAIN p)
  BY <1>5, EmptySeq DEF Activation, EmptyScope, FrameRecord
<1>7. start.block = 1 /\ start.pc = 1
  BY DEF Activation
<1> HIDE DEF start
<1>8. \A S : <<start>> \in Seq(FrameRecord(S, DOMAIN p))
  BY <1>6
<1>9. TypeOK'
  <2>1. meta' \in [{"true_obj", "false_obj", "none_obj"} -> 0..Len(h)]
    BY <1>1, <1>3, <1>4
  <2>2. QED
    BY <1>3, <1>4, <1>8, <2>1, ProgramsAssumption DEF IInv, TypeOK
<1>10. LinesIsolated'
  <2>1. ThisLine' = (n + 1)..(n + 3)
    BY <1>3, <1>4 DEF ThisLine
  <2>2. \A k \in DOMAIN meta' : meta'[k] \in ThisLine'
    BY <1>1, <1>4, <2>1
  <2>3. \A o \in ThisLine' : heap'[o].kind # "function"
    <3>1. \A o \in ThisLine' : o = n + 1 \/ o = n + 2 \/ o = n + 3
      BY <1>1, <2>1
    <3>2. QED
      BY <1>2, <1>3, <1>4, <3>1
  <2>4. frames' \in Seq(FrameRecord(ThisLine', DOMAIN program'))
    BY <1>4, <1>8
  <2>5. QED
    BY <2>2, <2>3, <2>4 DEF LinesIsolated
<1>11. LineObjects' /\ Running'
  <2>1. \A o \in ThisLine' : o = n + 1 \/ o = n + 2 \/ o = n + 3
    BY <1>1, <1>3, <1>4 DEF ThisLine
  <2>2. QED
    BY <1>1, <1>2, <1>3, <1>4, <2>1, ProgramsAssumption
       DEF LineObjects, LineObject, Running
<1>12. GlobalScopeOpen'
  <2>1. frames'[1] = start /\ Len(frames') = 1
    BY <1>4
  <2>2. NoFunctionIn(heap)'
    <3>1. \A o \in (n + 1)..(n + 3) : o = n + 1 \/ o = n + 2 \/ o = n + 3
      BY <1>1
    <3>2. QED
      BY <1>2, <1>3, <1>4, <3>1 DEF NoFunctionIn
  <2>3. QED
    BY <1>4, <1>7, <2>1, <2>2 DEF GlobalScopeOpen
<1>13. QED
  BY <1>9, <1>10, <1>11, <1>12 DEF IInv

\* The end of a line: only its freed objects remain.
LEMMA FinishPreserves ==
  ASSUME IInv, Finish
  PROVE  IInv'
<1> DEFINE lost == Lose(heap, Top.stack)
           dropped == Release(lost, AllNames(Top.scopes))
           S == {meta.true_obj, meta.false_obj, meta.none_obj}
           h == Free(dropped, S)
<1>1. status = "running"
  BY DEF Finish
<1>2. Top \in FrameRecord(ThisLine, DOMAIN program)
  BY <1>1, TopFacts
<1>3. LineHeap(lost) /\ Len(lost) = Len(heap)
  <2>1. IsFiniteSet(DOMAIN Top.stack)
    BY <1>2, FiniteDomain DEF FrameRecord
  <2>2. QED
    BY <1>1, <2>1, LineHeapNow, LineHeapCounts
<1>4. IsFiniteSet(DOMAIN AllNames(Top.scopes))
  <2>1. IsFiniteSet(DOMAIN Top.scopes)
    BY <1>2, FiniteDomain DEF FrameRecord
  <2>2. IsFiniteSet((DOMAIN Top.scopes) \X Names)
    BY <2>1, FS_Product, ProgramsAssumption
  <2>3. QED
    BY <2>2 DEF AllNames
<1> HIDE DEF lost
<1>5. LineHeap(dropped) /\ Len(dropped) = Len(heap)
  BY <1>1, <1>3, <1>4, LineHeapCounts
<1> HIDE DEF dropped, S
<1>6. h \in Seq(ObjectRecord) /\ Len(h) = Len(heap)
  <2>1. meta.false_obj \in 1..Len(heap)
    BY <1>1 DEF IInv, LinesIsolated, TypeOK, Running
  <2>2. Recounted(dropped, h)
    BY <1>5, <2>1, CountRewritten DEF LineHeap
  <2>3. QED
    BY <1>5, <2>2 DEF Recounted
<1>7. /\ status' = "prompt" /\ heap' = h /\ typeGen' = typeGen + 1
      /\ frames' = <<>> /\ program' = <<>> /\ meta' = NoMeta
      /\ UNCHANGED <<runs, fault>>
  BY DEF Finish, dropped, lost, S
<1> HIDE DEF h
<1>8. TypeOK'
  <2>1. NoMeta \in [{"true_obj", "false_obj", "none_obj"} -> 0..Len(h)]
    <3>1. Len(h) \in Nat
      BY <1>6, LenProperties
    <3>2. QED
      BY <3>1 DEF NoMeta, Nil
  <2>2. typeGen + 1 \in Nat \ {0}
    BY DEF IInv, TypeOK
  <2>3. <<>> \in Seq(FrameRecord(1..Len(h), DOMAIN <<>>))
    BY EmptySeq
  <2>4. QED
    BY <1>6, <1>7, <2>1, <2>2, <2>3 DEF IInv, TypeOK
<1>9. QED
  BY <1>7, <1>8 DEF IInv, LinesIsolated, Running, GlobalScopeOpen, LineObjects

-----------------------------------------------------------------------------
(* The theorems.                                                            *)

LEMMA InitIInv == Init => IInv
<1> SUFFICES ASSUME Init PROVE IInv
  OBVIOUS
<1>1. TypeOK
  <2>1. NoMeta \in [{"true_obj", "false_obj", "none_obj"} -> 0..0]
    BY DEF NoMeta, Nil
  <2>2. Len(heap) = 0 /\ heap \in Seq(ObjectRecord)
    BY EmptySeq DEF Init
  <2>3. frames \in Seq(FrameRecord(1..Len(heap), DOMAIN program))
    BY EmptySeq DEF Init
  <2>4. runs \in 0..MaxRuns
    BY ProgramsAssumption DEF Init
  <2>5. QED
    BY <2>1, <2>2, <2>3, <2>4 DEF Init, TypeOK
<1>2. QED
  BY <1>1 DEF Init, IInv, LinesIsolated, Running, GlobalScopeOpen, LineObjects

LEMMA NextIInv == IInv /\ [Next]_vars => IInv'
<1> SUFFICES ASSUME IInv, [Next]_vars PROVE IInv'
  OBVIOUS
<1>1. CASE \E p \in Programs : Run(p)
  BY <1>1, RunPreserves
<1>2. CASE PushLiteral
  BY <1>2, PushLiteralPreserves
<1>3. CASE PushSingleton
  BY <1>3, PushSingletonPreserves
<1>4. CASE LoadId
  BY <1>4, LoadIdPreserves
<1>5. CASE SetName
  BY <1>5, SetNamePreserves
<1>6. CASE Binary
  BY <1>6, BinaryPreserves
<1>7. CASE Negate
  BY <1>7, NegatePreserves
<1>8. CASE UnaryPlus
  BY <1>8, UnaryPlusPreserves
<1>9. CASE PopObject
  BY <1>9, PopObjectPreserves
<1>10. CASE StartGlobalScope
  BY <1>10, StartGlobalScopePreserves
<1>11. CASE StartScope
  BY <1>11, StartScopePreserves
<1>12. CASE EndScope
  BY <1>12, EndScopePreserves
<1>13. CASE Ret \/ Ignored
  BY <1>13, IdlePreserves
<1>14. CASE DefineFunction
  BY <1>14, DefineFunctionPreserves
<1>15. CASE CallPrint
  BY <1>15, CallPrintPreserves
<1>16. CASE CallFunction
  BY <1>16, CallFunctionPreserves
<1>17. CASE Return
  BY <1>17, ReturnPreserves
<1>18. CASE Finish
  BY <1>18, FinishPreserves
<1>19. CASE Fault
  BY <1>19, FaultPreserves
<1>20. CASE Exit
  BY <1>20 DEF Exit, IInv, TypeOK, LinesIsolated, Running, GlobalScopeOpen,
               LineObjects
<1>21. CASE UNCHANGED vars
  BY <1>21 DEF vars, IInv, TypeOK, LinesIsolated, Running, GlobalScopeOpen,
               LineObjects, LineObject, Defines, NoFunctionIn, ThisLine
<1>22. QED
  BY <1>1, <1>2, <1>3, <1>4, <1>5, <1>6, <1>7, <1>8, <1>9, <1>10, <1>11,
     <1>12, <1>13, <1>14, <1>15, <1>16, <1>17, <1>18, <1>19, <1>20, <1>21
     DEF Next, Execute

LEMMA Invariance == Spec => []IInv
BY InitIInv, NextIInv, PTL DEF Spec

\* Whatever the programs are, the variables keep their types: no instruction,
\* call, return or end of a line leaves a pointer to an object that was never
\* created, or a position in code that does not exist.
THEOREM TypeCorrect == Spec => []TypeOK
BY Invariance, PTL DEF IInv

\* Whatever the programs and the lines before were, nothing of an earlier line
\* can be reached while a line runs, and the body of each function it can call
\* is a block of its own program.
THEOREM LinesAreIsolated == Spec => []LinesIsolated
BY Invariance, PTL DEF IInv

-----------------------------------------------------------------------------
(* The heights that follow from the code of a block.                        *)

LEMMA TotalsExist ==
  ASSUME NEW n \in Nat, NEW d \in [1..n -> Int]
  PROVE  \E f \in [0..n -> Int] :
           \A i \in 0..n : f[i] = IF i = 0 THEN 0 ELSE f[i - 1] + d[i]
<1> DEFINE step == [p \in (1..n) \X Int |-> p[2] + d[p[1]]]
<1>1. step \in [(1..n) \X Int -> Int] /\ 0 \in Int
  OBVIOUS
<1>2. \A i \in 1..n, x \in Int : step[<<i, x>>] = x + d[i]
  OBVIOUS
<1> HIDE DEF step
<1>3. PICK f \in [0..n -> Int] : Iterates(f, n, 0, step)
  BY ONLY n \in Nat, <1>1, Recursion
<1>4. \A i \in 1..n : step[<<i, f[i - 1]>>] = f[i - 1] + d[i]
  <2>1. \A i \in 1..n : f[i - 1] \in Int
    <3>1. \A i \in 1..n : i - 1 \in 0..n
      OBVIOUS
    <3> QED
      BY ONLY <3>1, f \in [0..n -> Int]
  <2> QED
    BY <1>2, <2>1
<1>5. \A i \in 0..n : f[i] = IF i = 0 THEN 0 ELSE f[i - 1] + d[i]
  <2>1. \A i \in 0..n : i # 0 => i \in 1..n
    OBVIOUS
  <2> QED
    BY ONLY <1>3, <1>4, <2>1 DEF Iterates
<1> QED
  BY ONLY <1>5, f \in [0..n -> Int]

\* Totals adds up: it begins at 0 and each entry adds its change.
LEMMA TotalsAddUp ==
  ASSUME NEW n \in Nat, NEW d \in [1..n -> Int], Len(d) = n
  PROVE  /\ Totals(d) \in [0..n -> Int]
         /\ Totals(d)[0] = 0
         /\ \A i \in 1..n : Totals(d)[i] = Totals(d)[i - 1] + d[i]
<1>0. PICK sums \in [0..n -> Int] :
        \A i \in 0..n : sums[i] = IF i = 0 THEN 0 ELSE sums[i - 1] + d[i]
  BY TotalsExist
<1> DEFINE F(f) == [i \in 0..Len(d) |-> IF i = 0 THEN 0 ELSE f[i - 1] + d[i]]
           total == CHOOSE f : f = F(f)
<1>1. Totals(d) = total
  BY DEF Totals
<1>2. \E f : f = F(f)
  <2>1. sums = F(sums)
    BY ONLY <1>0, Len(d) = n, sums \in [0..n -> Int]
  <2> QED
    BY <2>1
<1>3. total = F(total)
  BY <1>2
<1> HIDE DEF total
<1>4. \A i \in 0..n : total[i] = IF i = 0 THEN 0 ELSE total[i - 1] + d[i]
  BY <1>3
<1>5. DOMAIN total = 0..n /\ total = [i \in 0..n |-> total[i]]
  BY <1>3
<1> DEFINE T == {i \in 0..n : total[i] \in Int}
<1>6. T = 0..n
  <2>1. T \subseteq 0..n /\ 0 \in T
    BY <1>4
  <2>2. \A i \in 1..n : i - 1 \in T => i \in T
    <3>1. \A i \in 1..n : i \in 0..n /\ i # 0
      OBVIOUS
    <3> QED
      BY <1>4, <3>1
  <2> HIDE DEF T
  <2> QED
    BY <2>1, <2>2, UpwardInduction
<1>7. total \in [0..n -> Int]
  BY <1>5, <1>6
<1>8. \A i \in 1..n : i \in 0..n /\ i # 0
  OBVIOUS
<1>9. total[0] = 0 /\ \A i \in 1..n : total[i] = total[i - 1] + d[i]
  <2>1. 0 \in 0..n
    OBVIOUS
  <2> QED
    BY ONLY <1>4, <1>8, <2>1
<1> QED
  BY <1>1, <1>7, <1>9, Zenon

\* What an instruction takes and leaves, in numbers.
LEMMA InstructionChanges ==
  ASSUME NEW D, NEW i \in Instruction(D)
  PROVE  Takes(i) \in Nat /\ Gives(i) \in {0, 1} /\ Opens(i) \in {-1, 0, 1}
<1>1. i.op = "CALLB" => i.argscount + 1 \in Nat
  BY InstructionTypes
<1> QED
  BY <1>1 DEF Takes, Gives, Opens

LEMMA CodeAddsUp ==
  ASSUME NEW D, NEW code \in Seq(Instruction(D))
  PROVE  /\ Len(code) \in Nat
         /\ Heights(code) \in [0..Len(code) -> Int]
         /\ Depths(code) \in [0..Len(code) -> Int]
         /\ Heights(code)[0] = 0 /\ Depths(code)[0] = 0
         /\ \A i \in 1..Len(code) :
              /\ code[i] \in Instruction(D)
              /\ Heights(code)[i] =
                   Heights(code)[i - 1] + (Gives(code[i]) - Takes(code[i]))
              /\ Depths(code)[i] = Depths(code)[i - 1] + Opens(code[i])
<1> DEFINE n == Len(code)
           values == [i \in DOMAIN code |-> Gives(code[i]) - Takes(code[i])]
           scopes == [i \in DOMAIN code |-> Opens(code[i])]
<1>1. n \in Nat /\ DOMAIN code = 1..n
  BY LenProperties
<1>2. \A i \in 1..n : code[i] \in Instruction(D)
  BY <1>1, ElementOfSeq
<1>3. \A i \in 1..n : /\ Gives(code[i]) - Takes(code[i]) \in Int
                      /\ Opens(code[i]) \in Int
  <2>1. ASSUME NEW i \in 1..n
        PROVE  /\ Takes(code[i]) \in Nat /\ Gives(code[i]) \in {0, 1}
               /\ Opens(code[i]) \in {-1, 0, 1}
    BY <1>2, InstructionChanges
  <2> QED
    BY <2>1
<1>4. values \in [1..n -> Int] /\ scopes \in [1..n -> Int]
  BY <1>1, <1>3
<1>5. Len(values) = n /\ Len(scopes) = n
  <2>1. values \in Seq(Int) /\ scopes \in Seq(Int)
    BY <1>1, <1>4, IsASeq
  <2>2. DOMAIN values = 1..n /\ DOMAIN scopes = 1..n
    BY <1>1
  <2> QED
    BY <1>1, <2>1, <2>2, LenProperties
<1>6. Heights(code) = Totals(values) /\ Depths(code) = Totals(scopes)
  BY DEF Heights, Depths
<1>7. \A i \in 1..n : /\ values[i] = Gives(code[i]) - Takes(code[i])
                      /\ scopes[i] = Opens(code[i])
  BY <1>1
<1> HIDE DEF values, scopes, n
<1>8. /\ Totals(values) \in [0..n -> Int] /\ Totals(values)[0] = 0
      /\ \A i \in 1..n : Totals(values)[i] = Totals(values)[i - 1] + values[i]
  BY <1>1, <1>4, <1>5, TotalsAddUp
<1>9. /\ Totals(scopes) \in [0..n -> Int] /\ Totals(scopes)[0] = 0
      /\ \A i \in 1..n : Totals(scopes)[i] = Totals(scopes)[i - 1] + scopes[i]
  BY <1>1, <1>4, <1>5, TotalsAddUp
<1> QED
  BY <1>1, <1>2, <1>6, <1>7, <1>8, <1>9 DEF n

-----------------------------------------------------------------------------
(* Steps of an activation.                                                  *)

\* StacksFollowCode for the frame f, which waits for a call or not.
Settled(f, waiting) ==
  LET code == program[f.block]
  IN /\ f.pc \in 1..Len(code) + 1
     /\ waiting => f.pc <= Len(code) /\ code[f.pc].op = "CALLB"
     /\ Len(f.stack) =
          Heights(code)[f.pc - 1] - (IF waiting THEN Takes(code[f.pc]) ELSE 0)
     /\ Len(f.scopes) = Depths(code)[f.pc - 1]

LEMMA AllSettled ==
  StacksFollowCode <=> \A k \in DOMAIN frames : Settled(frames[k], k < Len(frames))
BY DEF StacksFollowCode, Settled

\* A frame whose pointers are numbers, of this line or not.
AnyFrame == FrameRecord(Nat, DOMAIN program)

\* f is the running frame with what its instruction took, left, opened and
\* closed.
Advances(f) ==
  /\ f \in AnyFrame
  /\ f.block = Top.block /\ f.pc = Top.pc
  /\ Len(f.stack) = Len(Top.stack) + (Gives(Instr) - Takes(Instr))
  /\ Len(f.scopes) = Len(Top.scopes) + Opens(Instr)

\* RunsForward for the frames fs.
Forward(fs) ==
  \E k \in DOMAIN fs :
    /\ k <= Len(frames) + 1
    /\ \A j \in 1..k - 1 :
         /\ fs[j].block = frames[j].block
         /\ fs[j].pc = frames[j].pc
    /\ k <= Len(frames) =>
         /\ fs[k].block = frames[k].block
         /\ fs[k].pc > frames[k].pc

LEMMA FrameFields ==
  ASSUME NEW f \in AnyFrame
  PROVE  LET g == [f EXCEPT !.pc = @ + 1]
         IN /\ g.block = f.block /\ g.pc = f.pc + 1
            /\ g.stack = f.stack /\ g.scopes = f.scopes
            /\ f.pc \in Nat \ {0} /\ g \in AnyFrame
<1>1. PICK n \in Nat \ {0} : n = f.pc + 1
  BY DEF AnyFrame, FrameRecord
<1>2. [f EXCEPT !.pc = @ + 1] = [f EXCEPT !.pc = n]
  BY <1>1
<1> QED
  BY <1>1, <1>2 DEF AnyFrame, FrameRecord

LEMMA StepSettles ==
  ASSUME IInv, StacksFollowCode, status = "running", ~AtEnd,
         NEW f, Advances(f), NEW h, Step(f, h)
  PROVE  StacksFollowCode' /\ Forward(frames')
<1> DEFINE n == Len(frames)
           g == [f EXCEPT !.pc = @ + 1]
<1>1. /\ n \in Nat \ {0} /\ DOMAIN frames = 1..n /\ frames \in Seq(AnyFrame)
      /\ frames' = [frames EXCEPT ![n] = g] /\ program' = program
      /\ Top = frames[n] /\ n \in 1..n
  <2>1. frames \in Seq(FrameRecord(ThisLine, DOMAIN program))
    BY DEF IInv, LinesIsolated
  <2>2. ThisLine \subseteq Nat
    BY LenProperties DEF ThisLine, IInv, TypeOK, Running
  <2>3. frames \in Seq(AnyFrame)
    BY <2>1, <2>2, FramesWider DEF AnyFrame
  <2> QED
    BY <2>1, <2>3, TopFacts, LenProperties DEF Step, Top
<1>2. /\ g.block = Top.block /\ g.pc = Top.pc + 1 /\ Top.pc \in Nat \ {0}
      /\ Len(g.stack) = Len(Top.stack) + (Gives(Instr) - Takes(Instr))
      /\ Len(g.scopes) = Len(Top.scopes) + Opens(Instr)
      /\ g \in AnyFrame
  BY FrameFields DEF Advances
<1> HIDE DEF g
<1>3. /\ DOMAIN frames' = 1..n /\ Len(frames') = n /\ frames'[n] = g
      /\ \A k \in 1..n : k # n => frames'[k] = frames[k]
  <2>1. DOMAIN frames' = 1..n /\ frames'[n] = g
        /\ \A k \in 1..n : k # n => frames'[k] = frames[k]
    BY <1>1
  <2>2. Len(frames') = n
    BY <1>1, <1>2, ExceptSeq
  <2> QED
    BY <2>1, <2>2
<1> HIDE DEF n
<1>4. Settled(g, FALSE)
  <2> DEFINE code == program[Top.block]
             i == Top.pc
  <2>1. Code \in Seq(Instruction(DOMAIN program)) /\ Code = code /\ Instr = code[i]
    BY TopFacts DEF Code, Instr
  <2>2. Settled(Top, FALSE)
    <3>1. (n < n) = FALSE
      BY <1>1
    <3>2. Settled(frames[n], n < n)
      BY <1>1, AllSettled DEF n
    <3> QED
      BY <1>1, <3>1, <3>2
  <2>3. i \in 1..Len(code)
    BY <1>2, <2>1, CodeAddsUp DEF AtEnd
  <2>4. /\ Len(code) \in Nat
        /\ Heights(code)[i] = Heights(code)[i - 1] + (Gives(code[i]) - Takes(code[i]))
        /\ Depths(code)[i] = Depths(code)[i - 1] + Opens(code[i])
    BY <2>1, <2>3, CodeAddsUp
  <2>5. /\ Len(Top.stack) = Heights(code)[i - 1] - 0
        /\ Len(Top.scopes) = Depths(code)[i - 1]
    BY <2>2 DEF Settled
  <2>6. Heights(code)[i - 1] \in Int /\ Gives(code[i]) - Takes(code[i]) \in Int
    <3>1. i - 1 \in 0..Len(code) /\ Heights(code) \in [0..Len(code) -> Int]
      BY <2>1, <2>3, <2>4, CodeAddsUp
    <3>2. Gives(code[i]) \in {0, 1} /\ Takes(code[i]) \in Nat
      BY <2>1, <2>3, CodeAddsUp, InstructionChanges
    <3> QED
      BY <3>1, <3>2
  <2> HIDE DEF code
  <2>7. g.pc - 1 = i /\ g.pc \in 1..Len(code) + 1
    BY <1>2, <2>3, <2>4
  <2>8. /\ Len(g.stack) = Heights(code)[i] - 0
        /\ Len(g.scopes) = Depths(code)[i]
    BY <1>2, <2>1, <2>4, <2>5, <2>6
  <2> HIDE DEF i
  <2>9. program[g.block] = code
    BY <1>2 DEF code
  <2> QED
    BY <2>7, <2>8, <2>9 DEF Settled
<1>5. ASSUME NEW k \in 1..n, k # n PROVE Settled(frames[k], TRUE)
  <2>1. k < n
    BY <1>1, <1>5
  <2> QED
    BY <1>1, <2>1, AllSettled DEF n
<1>6. StacksFollowCode'
  <2>1. ASSUME NEW k \in 1..n PROVE Settled(frames'[k], k < n)
    <3>1. CASE k = n
      <4>1. (k < n) = FALSE
        BY <1>1, <3>1
      <4> QED
        BY <1>3, <1>4, <3>1, <4>1
    <3>2. CASE k # n
      <4>1. (k < n) = TRUE
        BY <1>1, <3>2
      <4> QED
        BY <1>3, <1>5, <3>2, <4>1
    <3> QED
      BY <3>1, <3>2
  <2> QED
    BY <1>1, <1>3, <2>1 DEF StacksFollowCode, Settled
<1>7. Forward(frames')
  <2>1. \A j \in 1..n - 1 : j \in 1..n /\ j # n
    BY <1>1
  <2>2. n <= n + 1 /\ Top.pc + 1 > Top.pc
    BY <1>1, <1>2
  <2> QED
    BY <1>1, <1>2, <1>3, <2>1, <2>2 DEF Forward, n
<1> QED
  BY <1>6, <1>7

-----------------------------------------------------------------------------
(* References that nobody gives back.                                       *)

\* g has all objects of h, and no more references are lost in it.
NoneLost(h, g) ==
  /\ DOMAIN h \subseteq DOMAIN g
  /\ \A o \in DOMAIN h : g[o].lost = h[o].lost
  /\ \A o \in DOMAIN g \ DOMAIN h : g[o].lost = 0

LEMMA NoneLostTwice ==
  ASSUME NEW h, NEW g, NEW f, NoneLost(h, g), NoneLost(g, f)
  PROVE  NoneLost(h, f)
BY DEF NoneLost

\* Only Lose loses references.
LEMMA CountsKeepLost ==
  ASSUME NEW h \in Seq(ObjectRecord), NEW f, NEW p
  PROVE  /\ NoneLost(h, Acquire(h, f)) /\ NoneLost(h, Release(h, f))
         /\ NoneLost(h, Incref(h, p)) /\ NoneLost(h, XDecref(h, p))
         /\ NoneLost(h, h)
<1>1. \A o \in DOMAIN h : h[o] \in ObjectRecord
  BY ElementOfSeq, LenProperties
<1>2. \A r \in ObjectRecord :
        /\ \A x : [r EXCEPT !.refs = x].lost = r.lost
        /\ [r EXCEPT !.refs = 0, !.live = FALSE].lost = r.lost
  BY DEF ObjectRecord
<1>3. /\ DOMAIN Acquire(h, f) = DOMAIN h /\ DOMAIN Release(h, f) = DOMAIN h
      /\ DOMAIN Incref(h, p) = DOMAIN h /\ DOMAIN XDecref(h, p) = DOMAIN h
  BY DEF Acquire, Release, Incref, XDecref
<1>4. ASSUME NEW o \in DOMAIN h
      PROVE  /\ Acquire(h, f)[o].lost = h[o].lost
             /\ Release(h, f)[o].lost = h[o].lost
             /\ Incref(h, p)[o].lost = h[o].lost
             /\ XDecref(h, p)[o].lost = h[o].lost
  <2>1. Acquire(h, f)[o].lost = h[o].lost
    <3>1. Acquire(h, f)[o] = [h[o] EXCEPT !.refs = h[o].refs + Count(f, o)]
      BY <1>1 DEF Acquire, ObjectRecord
    <3> QED
      BY <1>1, <1>2, <3>1
  <2>2. Release(h, f)[o].lost = h[o].lost
    <3>1. \/ Release(h, f)[o] = h[o]
          \/ Release(h, f)[o] = [h[o] EXCEPT !.refs = 0, !.live = FALSE]
          \/ Release(h, f)[o] = [h[o] EXCEPT !.refs = h[o].refs - Count(f, o)]
      BY <1>1 DEF Release, ObjectRecord
    <3> QED
      BY <1>1, <3>1 DEF ObjectRecord
  <2>3. Incref(h, p)[o].lost = h[o].lost
    <3>1. \/ Incref(h, p)[o] = h[o]
          \/ Incref(h, p)[o] = [h[o] EXCEPT !.refs = h[o].refs + 1]
      BY <1>1 DEF Incref, ObjectRecord
    <3> QED
      BY <1>1, <1>2, <3>1
  <2>4. XDecref(h, p)[o].lost = h[o].lost
    <3>1. \/ XDecref(h, p)[o] = h[o]
          \/ XDecref(h, p)[o]
               = [h[o] EXCEPT !.refs = IF h[o].refs <= 1 THEN 0 ELSE h[o].refs - 1]
      BY <1>1 DEF XDecref, ObjectRecord
    <3> DEFINE x == IF h[o].refs <= 1 THEN 0 ELSE h[o].refs - 1
    <3> HIDE DEF x
    <3>2. XDecref(h, p)[o] \in {h[o], [h[o] EXCEPT !.refs = x]}
      BY <3>1 DEF x
    <3> QED
      BY <1>1, <3>2 DEF ObjectRecord
  <2> QED
    BY <2>1, <2>2, <2>3, <2>4
<1> QED
  BY <1>3, <1>4 DEF NoneLost

LEMMA AppendKeepsLost ==
  ASSUME NEW h \in Seq(ObjectRecord), NEW r, r.lost = 0
  PROVE  NoneLost(h, Append(h, r))
<1> DEFINE g == Append(h, r)
<1>1. h \in Seq(ObjectRecord \cup {r})
  BY SeqMonotonic
<1>2. /\ g \in Seq(ObjectRecord \cup {r}) /\ Len(g) = Len(h) + 1
      /\ \A i \in 1..Len(h) : g[i] = h[i]
      /\ g[Len(h) + 1] = r
  BY <1>1, AppendProperties
<1> HIDE DEF g
<1>3. Len(h) \in Nat /\ DOMAIN h = 1..Len(h) /\ DOMAIN g = 1..Len(h) + 1
  BY <1>1, <1>2, LenProperties
<1>4. \A o \in DOMAIN g \ DOMAIN h : o = Len(h) + 1
  BY <1>3
<1>5. DOMAIN h \subseteq DOMAIN g
  BY <1>3
<1> QED
  BY <1>2, <1>3, <1>4, <1>5 DEF NoneLost, g

LEMMA SetNameKeepsLost ==
  ASSUME NEW h \in Seq(ObjectRecord), NEW scope, NEW name, NEW o,
         Release(h, <<scope[name]>>) \in Seq(ObjectRecord)
  PROVE  NoneLost(h, SetNameHeap(h, scope, name, o))
<1> DEFINE g == Release(h, <<scope[name]>>)
<1>1. NoneLost(h, g) /\ NoneLost(h, h) /\ NoneLost(h, Incref(h, o))
  BY CountsKeepLost
<1>2. NoneLost(g, Incref(g, o))
  <2> HIDE DEF g
  <2> QED
    BY CountsKeepLost DEF g
<1>3. NoneLost(h, Incref(g, o))
  BY <1>1, <1>2, NoneLostTwice
<1>4. SetNameHeap(h, scope, name, o) \in {h, Incref(h, o), Incref(g, o)}
  BY DEF SetNameHeap
<1> QED
  BY <1>1, <1>3, <1>4

-----------------------------------------------------------------------------
(* What each instruction does to the running frame.                         *)

LEMMA InstructionTable ==
  ASSUME NEW i
  PROVE  /\ i.op \in LiteralOps \cup SingletonOps \cup {"RET_NULL", "LOAD_ID"}
              => Takes(i) = 0 /\ Gives(i) = 1 /\ Opens(i) = 0
         /\ i.op \in BinaryOps => Takes(i) = 2 /\ Gives(i) = 1 /\ Opens(i) = 0
         /\ i.op \in NegatingOps \cup {"UPLUS", "RET"}
              => Takes(i) = 1 /\ Gives(i) = 1 /\ Opens(i) = 0
         /\ i.op \in {"SET_NAME", "POP_OBJECT"}
              => Takes(i) = 1 /\ Gives(i) = 0 /\ Opens(i) = 0
         /\ i.op = "CALLB"
              => Takes(i) = i.argscount + 1 /\ Gives(i) = 1 /\ Opens(i) = 0
         /\ i.op \in IgnoredOps \cup JumpOps \cup {"DEFINE_FUNCTION"}
              => Takes(i) = 0 /\ Gives(i) = 0 /\ Opens(i) = 0
         /\ i.op = "START_SCOPE" => Takes(i) = 0 /\ Gives(i) = 0 /\ Opens(i) = 1
         /\ i.op = "END_SCOPE" => Takes(i) = 0 /\ Gives(i) = 0 /\ Opens(i) = -1
BY DEF Takes, Gives, Opens, LiteralOps, SingletonOps, BinaryOps, NegatingOps,
       IgnoredOps, JumpOps

\* The step of an instruction.
Effect ==
  /\ status = "running" /\ ~AtEnd
  /\ \E f, h : Step(f, h) /\ Advances(f) /\ NoneLost(heap, h)

LEMMA Numbers ==
  ASSUME IInv, status = "running"
  PROVE  /\ ThisLine \subseteq Nat
         /\ Seq(ThisLine) \subseteq Seq(Nat)
         /\ Top \in AnyFrame
         /\ Len(Top.stack) \in Nat /\ Len(Top.scopes) \in Nat
<1>1. ThisLine \subseteq Nat
  BY LenProperties DEF ThisLine, IInv, TypeOK, Running
<1>2. Top \in FrameRecord(ThisLine, DOMAIN program)
  BY TopFacts
<1>3. Top \in AnyFrame
  BY <1>1, <1>2, FrameWider DEF AnyFrame
<1> QED
  BY <1>1, <1>2, <1>3, SeqMonotonic, LenProperties DEF FrameRecord

\* An instruction that changes the stack only, or the scopes too.
LEMMA ScopesEffect ==
  ASSUME IInv, status = "running", ~AtEnd,
         NEW stack \in Seq(Nat), NEW scopes \in Seq([Names -> Nat \cup {Nil}]),
         Len(stack) = Len(Top.stack) + (Gives(Instr) - Takes(Instr)),
         Len(scopes) = Len(Top.scopes) + Opens(Instr),
         NEW h, NoneLost(heap, h),
         Step([Top EXCEPT !.scopes = scopes, !.stack = stack], h)
  PROVE  Effect
<1> DEFINE f == [Top EXCEPT !.scopes = scopes, !.stack = stack]
<1>1. Top \in AnyFrame
  BY Numbers
<1>2. /\ f \in AnyFrame /\ f.block = Top.block /\ f.pc = Top.pc
      /\ f.stack = stack /\ f.scopes = scopes
  BY <1>1 DEF AnyFrame, FrameRecord
<1> HIDE DEF f
<1>3. Advances(f)
  BY <1>2 DEF Advances
<1> QED
  BY <1>3 DEF Effect, f

LEMMA StackEffect ==
  ASSUME IInv, status = "running", ~AtEnd, NEW stack \in Seq(Nat),
         Len(stack) = Len(Top.stack) + (Gives(Instr) - Takes(Instr)),
         Opens(Instr) = 0,
         NEW h, NoneLost(heap, h), Step([Top EXCEPT !.stack = stack], h)
  PROVE  Effect
<1>1. Top \in AnyFrame /\ Len(Top.scopes) \in Nat
  BY Numbers
<1>2. [Top EXCEPT !.stack = stack]
        = [Top EXCEPT !.scopes = Top.scopes, !.stack = stack]
      /\ Top.scopes \in Seq([Names -> Nat \cup {Nil}])
  BY <1>1 DEF AnyFrame, FrameRecord
<1>3. Len(Top.scopes) = Len(Top.scopes) + Opens(Instr)
  BY <1>1
<1> QED
  BY <1>2, <1>3, ScopesEffect

LEMMA HeapNow ==
  ASSUME IInv
  PROVE  /\ heap \in Seq(ObjectRecord) /\ Len(heap) \in Nat
         /\ \A s : NoneLost(heap, Release(heap, s)) /\ NoneLost(heap, Acquire(heap, s))
         /\ \A o : NoneLost(heap, Incref(heap, o)) /\ NoneLost(heap, XDecref(heap, o))
         /\ NoneLost(heap, heap)
BY CountsKeepLost, LenProperties DEF IInv, TypeOK

LEMMA PushNewEffect ==
  ASSUME IInv, status = "running", ~AtEnd, NEW n \in Nat, n <= Len(Top.stack),
         NEW kind, NEW h \in Seq(ObjectRecord), NoneLost(heap, h),
         PushNew(h, n, kind),
         Gives(Instr) = 1, Takes(Instr) = n, Opens(Instr) = 0
  PROVE  Effect
<1> DEFINE r == Object(kind, 1, typeGen)
           stack == Append(Drop(Top.stack, n), Len(heap) + 1)
           g == Append(h, r)
<1>1. Len(heap) \in Nat /\ Top.stack \in Seq(Nat) /\ Len(Top.stack) \in Nat
  BY Numbers, HeapNow DEF AnyFrame, FrameRecord
<1>2. Drop(Top.stack, n) \in Seq(Nat) /\ Len(Drop(Top.stack, n)) = Len(Top.stack) - n
  BY <1>1, DropType
<1>3. stack \in Seq(Nat) /\ Len(stack) = Len(Top.stack) - n + 1
  <2> DEFINE base == Drop(Top.stack, n)
             new == Len(heap) + 1
  <2>1. base \in Seq(Nat) /\ new \in Nat
    BY <1>1, <1>2
  <2> HIDE DEF base, new
  <2>2. Append(base, new) \in Seq(Nat) /\ Len(Append(base, new)) = Len(base) + 1
    BY <2>1, AppendProperties
  <2> QED
    BY <1>2, <2>2 DEF base, new
<1>4. NoneLost(heap, g)
  <2>1. r.lost = 0
    BY DEF Object
  <2> HIDE DEF r
  <2> QED
    BY <2>1, AppendKeepsLost, NoneLostTwice
<1>5. Step([Top EXCEPT !.stack = stack], g)
  BY DEF PushNew
<1> HIDE DEF stack, g
<1>6. Len(stack) = Len(Top.stack) + (Gives(Instr) - Takes(Instr))
  BY <1>1, <1>3
<1> QED
  BY <1>3, <1>4, <1>5, <1>6, StackEffect

LEMMA PushLiteralEffect ==
  ASSUME IInv, PushLiteral
  PROVE  Effect
<1> DEFINE kind == IF Instr.op = "PUSH_STRING" THEN "string" ELSE "int"
<1>1. /\ status = "running" /\ ~AtEnd /\ Instr.op \in LiteralOps
      /\ Len(Top.stack) \in Nat
  BY ExecutingFacts DEF PushLiteral
<1>2. PushNew(heap, 0, kind)
  BY DEF PushLiteral
<1> HIDE DEF kind
<1>3. Takes(Instr) = 0 /\ Gives(Instr) = 1 /\ Opens(Instr) = 0
  BY <1>1, InstructionTable
<1> QED
  BY <1>1, <1>2, <1>3, HeapNow, PushNewEffect

\* One more pointer on the stack.
LEMMA PushEffect ==
  ASSUME IInv, status = "running", ~AtEnd, NEW o \in Nat,
         Takes(Instr) = 0, Gives(Instr) = 1, Opens(Instr) = 0,
         Step([Top EXCEPT !.stack = Append(Top.stack, o)], Incref(heap, o))
  PROVE  Effect
<1>1. Top.stack \in Seq(Nat) /\ Len(Top.stack) \in Nat
  BY Numbers DEF AnyFrame, FrameRecord
<1> DEFINE stack == Append(Top.stack, o)
<1>2. stack \in Seq(Nat) /\ Len(stack) = Len(Top.stack) + 1
  BY <1>1, AppendProperties
<1>3. Step([Top EXCEPT !.stack = stack], Incref(heap, o))
  OBVIOUS
<1> HIDE DEF stack
<1>4. Len(stack) = Len(Top.stack) + (Gives(Instr) - Takes(Instr))
  BY <1>1, <1>2
<1> QED
  BY <1>2, <1>3, <1>4, HeapNow, StackEffect

LEMMA PushSingletonEffect ==
  ASSUME IInv, PushSingleton
  PROVE  Effect
<1> DEFINE o == Singleton(Instr.op)
<1>1. /\ status = "running" /\ ~AtEnd
      /\ Instr.op \in SingletonOps \cup {"RET_NULL"}
  BY ExecutingFacts DEF PushSingleton
<1>2. o \in Nat
  <2>1. o \in ThisLine
    BY <1>1 DEF IInv, LinesIsolated, TypeOK, Singleton, SingletonOps
  <2> QED
    BY <1>1, <2>1, Numbers
<1>3. Step([Top EXCEPT !.stack = Append(Top.stack, o)], Incref(heap, o))
  BY DEF PushSingleton
<1> HIDE DEF o
<1>4. Takes(Instr) = 0 /\ Gives(Instr) = 1 /\ Opens(Instr) = 0
  BY <1>1, InstructionTable
<1> QED
  BY <1>1, <1>2, <1>3, <1>4, PushEffect

LEMMA LoadIdEffect ==
  ASSUME IInv, LoadId
  PROVE  Effect
<1>1. status = "running" /\ ~AtEnd /\ Instr.op = "LOAD_ID"
  BY ExecutingFacts DEF LoadId
<1>2. PICK o \in DOMAIN heap :
        Step([Top EXCEPT !.stack = Append(Top.stack, o)], Incref(heap, o))
  BY DEF LoadId
<1>3. o \in Nat
  BY HeapNow, LenProperties
<1>4. Takes(Instr) = 0 /\ Gives(Instr) = 1 /\ Opens(Instr) = 0
  BY <1>1, InstructionTable
<1> QED
  BY <1>1, <1>2, <1>3, <1>4, PushEffect

LEMMA BinaryEffect ==
  ASSUME IInv, Binary
  PROVE  Effect
<1> DEFINE h == Release(heap, <<Operand(1), Operand(2)>>)
<1>1. /\ status = "running" /\ ~AtEnd /\ ~StackUnderflow
      /\ Instr.op \in BinaryOps
  BY ExecutingFacts DEF Binary
<1>2. Needed = 2
  BY <1>1, NeededValues
<1>3. 2 <= Len(Top.stack) /\ LineHeap(h)
  BY <1>1, <1>2, TwoOperands, LineHeapNow, LineHeapCounts
<1>4. PushNew(h, 2, "int") /\ NoneLost(heap, h)
  BY HeapNow DEF Binary
<1> HIDE DEF h
<1>5. Takes(Instr) = 2 /\ Gives(Instr) = 1 /\ Opens(Instr) = 0
  BY <1>1, InstructionTable
<1> QED
  BY <1>1, <1>3, <1>4, <1>5, PushNewEffect DEF LineHeap

LEMMA NegateEffect ==
  ASSUME IInv, Negate
  PROVE  Effect
<1> DEFINE h == Release(heap, <<Operand(1)>>)
<1>1. /\ status = "running" /\ ~AtEnd /\ ~StackUnderflow
      /\ Instr.op \in NegatingOps
  BY ExecutingFacts DEF Negate
<1>2. Needed = 1
  BY <1>1, NeededValues
<1>3. 1 <= Len(Top.stack) /\ LineHeap(h)
  BY <1>1, <1>2, OneOperand, LineHeapNow, LineHeapCounts
<1>4. PushNew(h, 1, "int") /\ NoneLost(heap, h)
  BY HeapNow DEF Negate
<1> HIDE DEF h
<1>5. Takes(Instr) = 1 /\ Gives(Instr) = 1 /\ Opens(Instr) = 0
  BY <1>1, InstructionTable
<1> QED
  BY <1>1, <1>3, <1>4, <1>5, PushNewEffect DEF LineHeap

LEMMA UnaryPlusEffect ==
  ASSUME IInv, UnaryPlus
  PROVE  Effect
<1> DEFINE h == Release(heap, <<Operand(1)>>)
<1>1. /\ status = "running" /\ ~AtEnd /\ ~StackUnderflow
      /\ Instr.op = "UPLUS"
  BY ExecutingFacts DEF UnaryPlus
<1>2. Needed = 1
  BY <1>1, NeededValues
<1>3. 1 <= Len(Top.stack) /\ LineHeap(h)
  BY <1>1, <1>2, OneOperand, LineHeapNow, LineHeapCounts
<1>4. NoneLost(heap, h)
  BY HeapNow
<1>5. Takes(Instr) = 1 /\ Gives(Instr) = 1 /\ Opens(Instr) = 0
  BY <1>1, InstructionTable
<1>6. CASE KindOf(Operand(1)) = "int"
  <2>1. PushNew(h, 1, "int")
    BY <1>6 DEF UnaryPlus
  <2> HIDE DEF h
  <2> QED
    BY <1>1, <1>3, <1>4, <1>5, <2>1, PushNewEffect DEF LineHeap
<1>7. CASE KindOf(Operand(1)) # "int"
  <2> DEFINE g == Incref(h, Operand(1))
  <2>1. Step(Top, g)
    BY <1>7 DEF UnaryPlus
  <2> HIDE DEF h
  <2>2. NoneLost(heap, g)
    <3>1. NoneLost(h, g)
      BY <1>3, CountsKeepLost DEF LineHeap
    <3> QED
      BY <1>4, <3>1, NoneLostTwice
  <2> HIDE DEF g
  <2>3. /\ Top \in AnyFrame /\ Top.stack \in Seq(Nat) /\ Len(Top.stack) \in Nat
        /\ Top = [Top EXCEPT !.stack = Top.stack]
    BY <1>1, Numbers DEF AnyFrame, FrameRecord
  <2>4. Len(Top.stack) = Len(Top.stack) + (Gives(Instr) - Takes(Instr))
    BY <1>5, <2>3
  <2> QED
    BY <1>1, <1>5, <2>1, <2>2, <2>3, <2>4, StackEffect
<1> QED
  BY <1>6, <1>7

LEMMA PopObjectEffect ==
  ASSUME IInv, PopObject
  PROVE  Effect
<1> DEFINE h == Release(heap, <<Operand(1)>>)
           stack == Drop(Top.stack, 1)
<1>1. /\ status = "running" /\ ~AtEnd /\ ~StackUnderflow
      /\ Instr.op = "POP_OBJECT"
  BY ExecutingFacts DEF PopObject
<1>2. Needed = 1
  BY <1>1, NeededValues
<1>3. 1 <= Len(Top.stack)
  BY <1>1, <1>2, OneOperand
<1>4. Top.stack \in Seq(Nat) /\ Len(Top.stack) \in Nat
  BY <1>1, Numbers DEF AnyFrame, FrameRecord
<1>5. stack \in Seq(Nat) /\ Len(stack) = Len(Top.stack) - 1
  BY <1>3, <1>4, DropType
<1>6. Takes(Instr) = 1 /\ Gives(Instr) = 0 /\ Opens(Instr) = 0
  BY <1>1, InstructionTable
<1>7. Step([Top EXCEPT !.stack = stack], h) /\ NoneLost(heap, h)
  BY HeapNow DEF PopObject
<1> HIDE DEF h, stack
<1>8. Len(stack) = Len(Top.stack) + (Gives(Instr) - Takes(Instr))
  BY <1>4, <1>5, <1>6
<1> QED
  BY <1>1, <1>5, <1>6, <1>7, <1>8, StackEffect

LEMMA IdleEffect ==
  ASSUME IInv, Ret \/ Ignored
  PROVE  Effect
<1>1. /\ status = "running" /\ ~AtEnd
      /\ Instr.op \in IgnoredOps \cup JumpOps \cup {"RET"}
  BY ExecutingFacts DEF Ret, Ignored
<1>2. Step(Top, heap)
  BY DEF Ret, Ignored
<1>3. Gives(Instr) = Takes(Instr) /\ Takes(Instr) \in {0, 1} /\ Opens(Instr) = 0
  BY <1>1, InstructionTable
<1>4. /\ Top \in AnyFrame /\ Top.stack \in Seq(Nat) /\ Len(Top.stack) \in Nat
      /\ Top = [Top EXCEPT !.stack = Top.stack]
  BY <1>1, Numbers DEF AnyFrame, FrameRecord
<1>5. Len(Top.stack) = Len(Top.stack) + (Gives(Instr) - Takes(Instr))
  BY <1>3, <1>4
<1> QED
  BY <1>1, <1>2, <1>3, <1>4, <1>5, HeapNow, StackEffect

\* The instructions that open, close and change scopes.
LEMMA LineScopes ==
  ASSUME IInv, status = "running"
  PROVE  /\ Top.scopes \in Seq([Names -> Nat \cup {Nil}])
         /\ Top.args \in [Names -> Nat \cup {Nil}]
         /\ Top.stack \in Seq(Nat)
         /\ Len(Top.stack) \in Nat /\ Len(Top.scopes) \in Nat
<1>1. Top \in AnyFrame
  BY Numbers
<1> QED
  BY <1>1, Numbers DEF AnyFrame, FrameRecord

LEMMA BindKeeps ==
  ASSUME NEW S, NEW scopes \in Seq([Names -> S]), scopes # <<>>,
         NEW name \in Names, NEW o \in S
  PROVE  /\ [scopes EXCEPT ![Len(scopes)][name] = o] \in Seq([Names -> S])
         /\ Len([scopes EXCEPT ![Len(scopes)][name] = o]) = Len(scopes)
<1> DEFINE bound == [scopes EXCEPT ![Len(scopes)][name] = o]
<1>1. bound \in Seq([Names -> S])
  BY BindType
<1>2. DOMAIN bound = DOMAIN scopes
  OBVIOUS
<1> HIDE DEF bound
<1>3. Len(bound) = Len(scopes)
  BY <1>1, <1>2, LenProperties
<1> QED
  BY <1>1, <1>3 DEF bound

LEMMA SetNameEffect ==
  ASSUME IInv, SetName
  PROVE  Effect
<1> DEFINE o == Operand(1)
           s == Len(Top.scopes)
           h == XDecref(heap, o)
           g == SetNameHeap(h, Top.scopes[s], Instr.name, o)
           scopes == [Top.scopes EXCEPT ![s][Instr.name] = o]
           stack == Drop(Top.stack, 1)
<1>1. /\ status = "running" /\ ~AtEnd /\ ~StackUnderflow
      /\ Instr.op = "SET_NAME" /\ Instr \in Instruction(DOMAIN program)
      /\ Top.scopes # <<>>
  BY ExecutingFacts DEF SetName
<1>2. Needed = 1 /\ Instr.name \in Names
  BY <1>1, NeededValues, InstructionTypes
<1>3. o \in ThisLine /\ o \in Nat /\ 1 <= Len(Top.stack)
  BY <1>1, <1>2, OneOperand, Numbers
<1>4. LineHeap(h) /\ NoneLost(heap, h)
  BY <1>1, <1>3, LineHeapNow, LineHeapCount, HeapNow
<1>5. Step([Top EXCEPT !.scopes = scopes, !.stack = stack], g)
  <2>1. Top \in FrameRecord(ThisLine, DOMAIN program)
    BY <1>1, TopFacts
  <2>2. [Top EXCEPT !.scopes[s][Instr.name] = o, !.stack = stack]
          = [Top EXCEPT !.scopes = scopes, !.stack = stack]
    BY <2>1 DEF FrameRecord
  <2> QED
    BY <2>2 DEF SetName
<1>6. scopes \in Seq([Names -> Nat \cup {Nil}]) /\ Len(scopes) = s
  BY <1>1, <1>2, <1>3, LineScopes, BindKeeps
<1>7. stack \in Seq(Nat) /\ Len(stack) = Len(Top.stack) - 1
  BY <1>1, <1>3, LineScopes, DropType
<1> HIDE DEF h, stack, scopes
<1>8. NoneLost(heap, g)
  <2>1. Release(h, <<Top.scopes[s][Instr.name]>>) \in Seq(ObjectRecord)
    <3> DEFINE f == <<Top.scopes[s][Instr.name]>>
    <3>1. f \in Seq({Top.scopes[s][Instr.name]})
      OBVIOUS
    <3>2. IsFiniteSet(DOMAIN f)
      BY <3>1, FiniteDomain
    <3> HIDE DEF f
    <3>3. LineHeap(Release(h, f))
      BY <1>1, <1>4, <3>2, LineHeapCounts
    <3> QED
      BY <3>3 DEF LineHeap, f
  <2>2. NoneLost(h, g)
    BY <1>4, <2>1, SetNameKeepsLost DEF LineHeap
  <2> QED
    BY <1>4, <2>2, NoneLostTwice
<1> HIDE DEF g
<1>9. /\ Len(stack) = Len(Top.stack) + (Gives(Instr) - Takes(Instr))
      /\ Len(scopes) = Len(Top.scopes) + Opens(Instr)
  <2>1. Takes(Instr) = 1 /\ Gives(Instr) = 0 /\ Opens(Instr) = 0
    BY <1>1, InstructionTable
  <2> QED
    BY <1>1, <1>6, <1>7, <2>1, LineScopes
<1> QED
  BY <1>1, <1>5, <1>6, <1>7, <1>8, <1>9, ScopesEffect

LEMMA DefineFunctionEffect ==
  ASSUME IInv, DefineFunction
  PROVE  Effect
<1> DEFINE o == Len(heap) + 1
           s == Len(Top.scopes)
           r == FunctionObject(Top.block, Instr)
           h == Append(heap, r)
           g == SetNameHeap(h, Top.scopes[s], Instr.name, o)
           scopes == [Top.scopes EXCEPT ![s][Instr.name] = o]
<1>1. /\ status = "running" /\ ~AtEnd /\ Instr.op = "DEFINE_FUNCTION"
      /\ Instr \in Instruction(DOMAIN program) /\ Top.scopes # <<>>
  BY ExecutingFacts DEF DefineFunction
<1>2. Instr.name \in Names /\ o \in Nat
  BY <1>1, InstructionTypes, HeapNow
<1>3. LineHeap(h) /\ NoneLost(heap, h)
  <2>1. r \in ObjectRecord /\ LineObject(r) /\ r.lost = 0
    BY <1>1, DefinedObject
  <2> HIDE DEF r
  <2> QED
    BY <1>1, <2>1, LineHeapNow, LineHeapAppend, HeapNow, AppendKeepsLost
<1>4. Step([Top EXCEPT !.scopes = scopes, !.stack = Top.stack], g)
  <2>1. Top \in FrameRecord(ThisLine, DOMAIN program)
    BY <1>1, TopFacts
  <2>2. [Top EXCEPT !.scopes = scopes, !.stack = Top.stack]
          = [Top EXCEPT !.scopes[s][Instr.name] = o]
    BY <2>1 DEF FrameRecord
  <2> QED
    BY <2>2 DEF DefineFunction
<1>5. scopes \in Seq([Names -> Nat \cup {Nil}]) /\ Len(scopes) = s
  BY <1>1, <1>2, LineScopes, BindKeeps
<1> HIDE DEF h, scopes
<1>6. NoneLost(heap, g)
  <2>1. Release(h, <<Top.scopes[s][Instr.name]>>) \in Seq(ObjectRecord)
    <3> DEFINE f == <<Top.scopes[s][Instr.name]>>
    <3>1. f \in Seq({Top.scopes[s][Instr.name]})
      OBVIOUS
    <3>2. IsFiniteSet(DOMAIN f)
      BY <3>1, FiniteDomain
    <3> HIDE DEF f
    <3>3. LineHeap(Release(h, f))
      BY <1>1, <1>3, <3>2, LineHeapCounts
    <3> QED
      BY <3>3 DEF LineHeap, f
  <2>2. NoneLost(h, g)
    BY <1>3, <2>1, SetNameKeepsLost DEF LineHeap
  <2> QED
    BY <1>3, <2>2, NoneLostTwice
<1> HIDE DEF g
<1>7. /\ Len(Top.stack) = Len(Top.stack) + (Gives(Instr) - Takes(Instr))
      /\ Len(scopes) = Len(Top.scopes) + Opens(Instr)
  <2>1. Takes(Instr) = 0 /\ Gives(Instr) = 0 /\ Opens(Instr) = 0
    BY <1>1, InstructionTable
  <2> QED
    BY <1>1, <1>5, <2>1, LineScopes
<1> QED
  BY <1>1, <1>4, <1>5, <1>6, <1>7, LineScopes, ScopesEffect

\* A scope more or less and the stack as it is.
LEMMA OpenEffect ==
  ASSUME IInv, status = "running", ~AtEnd,
         NEW scopes \in Seq([Names -> Nat \cup {Nil}]),
         Len(scopes) = Len(Top.scopes) + Opens(Instr),
         Instr.op \in {"START_SCOPE", "END_SCOPE"},
         NEW h, NoneLost(heap, h), Step([Top EXCEPT !.scopes = scopes], h)
  PROVE  Effect
<1>1. Step([Top EXCEPT !.scopes = scopes, !.stack = Top.stack], h)
  <2>1. [Top EXCEPT !.scopes = scopes]
          = [Top EXCEPT !.scopes = scopes, !.stack = Top.stack]
    <3>1. Top \in AnyFrame
      BY Numbers
    <3> QED
      BY <3>1 DEF AnyFrame, FrameRecord
  <2> QED
    BY <2>1
<1>2. Takes(Instr) = 0 /\ Gives(Instr) = 0
  BY InstructionTable
<1>3. Len(Top.stack) = Len(Top.stack) + (Gives(Instr) - Takes(Instr))
  BY <1>2, LineScopes
<1> QED
  BY <1>1, <1>3, LineScopes, ScopesEffect

LEMMA StartGlobalScopeEffect ==
  ASSUME IInv, StartGlobalScope
  PROVE  Effect
<1> DEFINE r == Object("print", 1, 0)
           h == Append(heap, r)
           scope == [EmptyScope EXCEPT ![PrintName] = Len(heap) + 1]
           scopes == <<scope>>
<1>1. /\ status = "running" /\ ~AtEnd /\ Instr.op = "START_SCOPE"
      /\ Top.scopes = <<>>
  BY ExecutingFacts DEF StartGlobalScope
<1>2. NoneLost(heap, h)
  <2>1. r.lost = 0
    BY DEF Object
  <2> HIDE DEF r
  <2> QED
    BY <2>1, HeapNow, AppendKeepsLost
<1>3. scope \in [Names -> Nat \cup {Nil}]
  BY HeapNow, ProgramsAssumption DEF EmptyScope
<1>4. Step([Top EXCEPT !.scopes = scopes], h)
  BY DEF StartGlobalScope
<1> HIDE DEF scope, h
<1>5. scopes \in Seq([Names -> Nat \cup {Nil}]) /\ Len(scopes) = 1
  BY <1>3
<1> HIDE DEF scopes
<1>6. Len(scopes) = Len(Top.scopes) + Opens(Instr)
  <2>1. Opens(Instr) = 1 /\ Len(Top.scopes) = 0
    BY <1>1, InstructionTable
  <2> QED
    BY <1>5, <2>1
<1> QED
  BY <1>1, <1>2, <1>4, <1>5, <1>6, OpenEffect

LEMMA StartScopeEffect ==
  ASSUME IInv, StartScope
  PROVE  Effect
<1> DEFINE h == Acquire(heap, Top.args)
           scopes == Append(Top.scopes, Top.args)
<1>1. status = "running" /\ ~AtEnd /\ Instr.op = "START_SCOPE"
  BY ExecutingFacts DEF StartScope
<1>2. scopes \in Seq([Names -> Nat \cup {Nil}]) /\ Len(scopes) = Len(Top.scopes) + 1
  BY <1>1, LineScopes, AppendProperties
<1>3. NoneLost(heap, h) /\ Step([Top EXCEPT !.scopes = scopes], h)
  BY HeapNow DEF StartScope
<1> HIDE DEF h, scopes
<1>4. Opens(Instr) = 1
  BY <1>1, InstructionTable
<1> QED
  BY <1>1, <1>2, <1>3, <1>4, OpenEffect

LEMMA EndScopeEffect ==
  ASSUME IInv, EndScope
  PROVE  Effect
<1> DEFINE h == Release(heap, Top.scopes[Len(Top.scopes)])
           scopes == Drop(Top.scopes, 1)
<1>1. /\ status = "running" /\ ~AtEnd /\ Instr.op = "END_SCOPE"
      /\ Top.scopes # <<>>
  BY ExecutingFacts DEF EndScope
<1>2. /\ Top.scopes \in Seq([Names -> Nat \cup {Nil}])
      /\ Len(Top.scopes) \in Nat /\ 1 <= Len(Top.scopes)
  <2>1. Len(Top.scopes) # 0 /\ Len(Top.scopes) \in Nat
    BY <1>1, LineScopes, EmptySeq
  <2> QED
    BY <1>1, <2>1, LineScopes
<1>3. scopes \in Seq([Names -> Nat \cup {Nil}]) /\ Len(scopes) = Len(Top.scopes) - 1
  BY <1>2, DropType
<1>4. NoneLost(heap, h) /\ Step([Top EXCEPT !.scopes = scopes], h)
  BY HeapNow DEF EndScope
<1> HIDE DEF h, scopes
<1>5. Opens(Instr) = -1
  BY <1>1, InstructionTable
<1>6. Len(scopes) = Len(Top.scopes) + Opens(Instr)
  BY <1>2, <1>3, <1>5
<1> QED
  BY <1>1, <1>3, <1>4, <1>6, OpenEffect

=============================================================================
