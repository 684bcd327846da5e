------------------------------ MODULE Assembler ------------------------------
(***************************************************************************)
(* The last part of Compiler::make: every emittable is emitted to AsmJit's *)
(* Assembler (AssemblerX86X64.cpp), which writes machine code to a Buffer  *)
(* (Util.cpp) that grows as it fills.                                      *)
(*                                                                         *)
(* Of an encoding only its length matters here: it decides where the label *)
(* of the loop is, how far the jump goes back, which of the two forms of   *)
(* the jump can hold that distance, and whether the bytes fit the buffer.  *)
(***************************************************************************)
EXTENDS Compiler

CONSTANTS
  FirstCapacity,  \* 1024 in the code: what an empty buffer grows to
  MostDoubled,    \* 65536: a larger buffer is not doubled
  GrowThreshold   \* 32: the room that ensureSpace leaves

\* No instruction is longer than 15 bytes.
ASSUME BufferAssumption ==
  /\ {FirstCapacity, MostDoubled} \subseteq Nat
  /\ GrowThreshold \in 15 .. FirstCapacity - 1
  /\ GrowThreshold <= MostDoubled

VARIABLES
  buffer,        \* _buffer: its capacity, and the offset that is written next
  starts,        \* the offset of each emittable
  label,         \* LabelData::offset of the loop's label, -1 until it is bound
  displacement   \* what the jump has for its operand

assemblerVars == <<buffer, starts, label, displacement>>

Unbound == -1

InitAssembler ==
  /\ buffer = [capacity |-> 0, offset |-> 0]
  /\ starts = <<>>
  /\ label = Unbound
  /\ displacement = 0

(***************************************************************************)
(* Lengths of instructions.                                                *)
(***************************************************************************)
\* A slip: the range is one too wide.
IsInt8AndOne(x) == x \in -129 .. 127

IsInt8(x) == x \in -128 .. 127

\* What the CPU reads from a byte.
SignedByte(x) == ((x + 128) % 256) - 128

\* _emitRexRM without REX.W: a prefix only for the upper eight registers.
Rex(r) == IF r >= 8 THEN 1 ELSE 0

\* _emitModM: the byte itself, SIB for a base like the stack pointer, and the
\* displacement, which a base like EBP always has.
ModM(base, disp) ==
  1 + (IF base % 8 = ESP THEN 1 ELSE 0)
    + (IF disp = 0 /\ base % 8 # EBP THEN 0 ELSE IF IsInt8(disp) THEN 1 ELSE 4)

\* REX.W, the opcode, and the operands.
Move(base, disp) == 2 + ModM(base, disp)
MoveRegister == 3

Adjust == IF IsEspAdjusted THEN <<3 + (IF IsInt8(FrameSize) THEN 1 ELSE 4)>> ELSE <<>>

PushOrder == SetToSortSeq(Pushed, <)

Pushes == [k \in 1 .. Cardinality(Pushed) |-> 1 + Rex(PushOrder[k])]

SlotOf(v) ==
  SlotAddress(CHOOSE k \in DOMAIN cc.frame : cc.frame[k] = v) - StackPointer

\* How far back the label is from the end of a short jump at offset.
ShortDistance(offset) == label - offset - 2

IsShort(offset) == IsInt8(ShortDistance(offset))

\* The lengths of the instructions that an emittable comes to.
Lengths(item) ==
  CASE item.op = "prolog" -> Pushes \o Adjust
    [] item.op = "epilog" -> Adjust \o Reverse(Pushes) \o <<1>>
    [] item.op = "head" -> <<Move(item.regs[2], 0)>>
    [] item.op = "chase" -> <<Move(item.regs[1], 0)>>
    [] item.op \in {"position", "cmp"} -> <<MoveRegister>>
    [] item.op = "prefetch" -> <<Rex(item.regs[1]) + 2 + ModM(item.regs[1], 0)>>
    [] item.op = "nop" -> <<1>>
    [] item.op \in {"save", "load"} -> <<Move(ESP, SlotOf(item.v))>>
    [] item.op = "jne" -> <<IF IsShort(buffer.offset) THEN 2 ELSE 6>>
    [] OTHER -> <<>>

(***************************************************************************)
(* Buffer.                                                                 *)
(***************************************************************************)
Grown(capacity) ==
  CASE capacity < FirstCapacity \div 2 -> FirstCapacity
    [] capacity > MostDoubled -> capacity + MostDoubled
    [] OTHER -> 2 * capacity

\* ensureSpace: before an instruction, as if it had GrowThreshold bytes.
EnsureSpace(b) ==
  IF b.offset >= b.capacity - GrowThreshold
  THEN [b EXCEPT !.capacity = Grown(@)] ELSE b

EmitInstruction(b, length) == [EnsureSpace(b) EXCEPT !.offset = @ + length]

(***************************************************************************)
(* Emitting: the assembler refuses an operand that is in no register and   *)
(* takes nothing after that; the caller gets NULL for a function.          *)
(***************************************************************************)
StartEncode ==
  /\ phase = "translate"
  /\ place \notin DOMAIN Program
  /\ phase' = "encode"
  /\ UNCHANGED <<input, place, cc, target, assemblerVars>>

Unplaced(item) ==
  item.op \notin {"save", "load"} /\ \E m \in DOMAIN item.regs : item.regs[m] = NoRegister

LongDistance(offset) == label - offset - 6

\* bind for the label, which no jump forward is waiting for; and the jump to it.
Encode ==
  /\ phase = "encode"
  /\ Len(starts) < Len(cc.code)
  /\ LET item == cc.code[Len(starts) + 1]
         here == buffer.offset
     IN  /\ starts' = Append(starts, here)
         /\ label' = IF item.op = "L_Loop" THEN here ELSE label
         /\ displacement' = CASE item.op # "jne" -> displacement
                             [] item.op = "jne" /\ IsShort(here) -> SignedByte(ShortDistance(here))
                             [] item.op = "jne" /\ ~IsShort(here) -> LongDistance(here)
         /\ IF Unplaced(item) THEN phase' = "failed" /\ UNCHANGED buffer
            ELSE buffer' = FoldLeft(EmitInstruction, buffer, Lengths(item)) /\ UNCHANGED phase
  /\ UNCHANGED <<input, place, cc, target>>

Make ==
  /\ phase = "encode"
  /\ Len(starts) = Len(cc.code)
  /\ phase' = IF cc.error THEN "failed" ELSE "made"
  /\ UNCHANGED <<input, place, cc, target, assemblerVars>>
=============================================================================
