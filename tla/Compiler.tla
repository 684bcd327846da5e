------------------------------ MODULE Compiler ------------------------------
(***************************************************************************)
(* How chase_pointers (src/src/run.cpp) gets its function: the program it  *)
(* hands to AsmJit's Compiler, and Compiler::make, which gives the         *)
(* variables of that program registers and stack slots.  Assembler has the *)
(* rest of make, and GeneratedCode runs what comes out.                    *)
(***************************************************************************)
EXTENDS RegisterAllocator, FiniteSets

CONSTANTS
  ChainCounts,   \* what -r may be: chains of a thread
  LoopLengths    \* what -g may be: instructions that do nothing

ASSUME CompilerAssumption ==
  /\ ChainCounts \subseteq Nat \ {0}
  /\ LoopLengths \subseteq Nat

VARIABLES
  input,     \* arguments of chase_pointers
  phase,     \* "prepare", "translate", "encode", "made" or "failed"
  place,     \* the emittable that is prepared or translated
  cc,        \* CompilerContext
  target     \* state of the compiler at the label of the loop

compilerVars == <<input, phase, place, cc, target>>

(***************************************************************************)
(* The program.                                                            *)
(***************************************************************************)
Inputs ==
  [chains_per_thread : ChainCounts, loop_length : LoopLengths,
   prefetch : BOOLEAN]

Chain == <<"chain", 0>>
HeadAt(i) == <<"heads", i>>
Position(i) == <<"positions", i>>

Variables ==
  {Chain} \cup {HeadAt(i) : i \in 1 .. input.chains_per_thread}
          \cup {Position(i) : i \in 1 .. input.chains_per_thread}

Item(op, uses) == [op |-> op, uses |-> uses]
Reads(v) == [v |-> v, how |-> {"read"}]
Writes(v) == [v |-> v, how |-> {"write"}]

Opening == <<Item("function", <<>>), Item("entry", <<>>), Item("prolog", <<>>)>>

ReadHeads ==
  [i \in 1 .. input.chains_per_thread |->
     Item("head", <<Writes(HeadAt(i)), Reads(Chain)>>)]

SetPositions ==
  [i \in 1 .. input.chains_per_thread |->
     Item("position", <<Writes(Position(i)), Reads(HeadAt(1))>>)]

Follow(i) ==
  <<Item("chase", <<[v |-> Position(i), how |-> {"read", "write"}]>>)>>
    \o IF input.prefetch THEN <<Item("prefetch", <<Reads(Position(i))>>)>> ELSE <<>>

FollowAll == FlattenSeq([i \in 1 .. input.chains_per_thread |-> Follow(i)])

Nops == [i \in 1 .. input.loop_length |-> Item("nop", <<>>)]

Closing ==
  <<Item("cmp", <<Reads(HeadAt(1)), Reads(Position(1))>>),
    Item("jne", <<>>), Item("exit", <<>>), Item("epilog", <<>>)>>

Program ==
  Opening \o ReadHeads \o SetPositions \o <<Item("L_Loop", <<>>)>>
    \o FollowAll \o Nops \o Closing

LoopPlace == CHOOSE i \in DOMAIN Program : Program[i].op = "L_Loop"

(***************************************************************************)
(* Step 1 of serialize: every emittable is prepared, in order.  The        *)
(* argument's scope begins at the prolog, and the scope of a variable in   *)
(* use at the label goes on to the jump back to it.                        *)
(***************************************************************************)
PrepareProlog(c, i) ==
  [c EXCEPT !.cur = @ + 1,
            !.var[Chain] = [@ EXCEPT !.first = c.cur, !.last = c.cur,
                                     !.ends = i]]

\* A slip: the scopes are not prolonged.
PrepareJumpFlat(c, i) == [c EXCEPT !.cur = @ + 1]

PrepareJump(c, i) ==
  LET across == {v \in Active(c) : /\ c.var[v].first <= LoopPlace - 1
                                   /\ c.var[v].last >= LoopPlace - 1}
  IN  [c EXCEPT !.cur = @ + 1,
                !.var = [v \in DOMAIN @ |->
                           IF v \in across
                           THEN [@[v] EXCEPT !.last = c.cur, !.ends = i]
                           ELSE @[v]]]

PrepareEmittable(c, i) ==
  LET item == Program[i]
  IN  CASE item.op = "prolog" -> PrepareProlog(c, i)
        [] item.op = "jne" -> PrepareJump(c, i)
        [] item.uses # <<>> -> PrepareInstruction(c, item.uses, i)
        [] OTHER -> [c EXCEPT !.cur = @ + 1]

InitCompiler ==
  /\ input \in Inputs
  /\ phase = "prepare"
  /\ place = 1
  /\ cc = NewContext(Variables)
  /\ target = SaveState(cc)

Prepare ==
  /\ phase = "prepare"
  /\ cc' = PrepareEmittable(cc, place)
  /\ IF place = Len(Program) THEN place' = 1 /\ phase' = "translate"
     ELSE place' = place + 1 /\ UNCHANGED phase
  /\ UNCHANGED <<input, target>>

(***************************************************************************)
(* Step 2: every emittable is translated.  The context goes back to its    *)
(* offset, and new code is put behind the emittable before it.             *)
(***************************************************************************)
AppendCode(c, op, uses) ==
  [c EXCEPT !.code =
     Append(@, [op |-> op, uses |-> uses,
                regs |-> [k \in DOMAIN uses |-> c.var[uses[k].v].register]])]

At(i) == [cc EXCEPT !.cur = i - 1, !.at = i - 2]

EndScopes(c, S, i) ==
  UnuseVars(c, {v \in S : c.var[v].ends = i})

\* _allocVariables: the argument is in its register, and has no slot.
AllocVariables(c) ==
  LET taken == Occupy(c, Chain, ArgRegister, {})
  IN  [taken EXCEPT !.var[Chain].changed = TRUE,
                    !.var[Chain].home = NoRegister]

\* Only the first variable is marked, as often as there are variables.
MarkAtWork(c, uses) == [c EXCEPT !.var[uses[1].v].work = c.cur]

TranslateInstruction(i) ==
  LET uses == Program[i].uses
      ready == FoldLeft(AllocVar, MarkAtWork(At(i), uses), uses)
  IN  EndScopes(AppendCode(ready, Program[i].op, uses),
                {uses[k].v : k \in DOMAIN uses}, i)

TranslateJump(i) ==
  LET back == RestoreState(At(i), target)
  IN  EndScopes(AppendCode(back, "jne", <<>>), Active(cc), i)

TranslateEmittable(i) ==
  CASE Program[i].op = "prolog" -> AppendCode(AllocVariables(At(i)), "prolog", <<>>)
    [] Program[i].op = "jne" -> TranslateJump(i)
    [] Program[i].uses # <<>> -> TranslateInstruction(i)
    [] OTHER -> AppendCode(At(i), Program[i].op, <<>>)

Translate ==
  /\ phase = "translate"
  /\ place \in DOMAIN Program
  /\ cc' = TranslateEmittable(place)
  /\ target' = IF place = LoopPlace THEN SaveState(cc) ELSE target
  /\ place' = place + 1
  /\ UNCHANGED <<input, phase>>

(***************************************************************************)
(* _preparePrologEpilog: the registers that are pushed, and where the      *)
(* slots are, counted from the stack pointer as it is behind the pushes.   *)
(* Up to RedZone bytes are used without moving the stack pointer.          *)
(***************************************************************************)
RedZone == 128

Pushed == (cc.modified \cap Preserved) \ {ESP}

\* A slip: the stack pointer stays where it is for one slot more.
IsEspAdjustedLate == 8 * Len(cc.frame) > RedZone + 8

IsEspAdjusted == 8 * Len(cc.frame) > RedZone

\* The slots, and what keeps the stack aligned to 16 bytes.
FrameSize ==
  LET slots == 8 * Len(cc.frame)
      pushes == 8 * Cardinality(Pushed)
  IN  ((slots + 15) \div 16) * 16 + (IF pushes % 16 = 0 THEN 8 ELSE 0)

\* The last variable to get a slot has the lowest.
SlotAddress(k) == 8 * (Len(cc.frame) - k) - FrameSize

StackPointer == IF IsEspAdjusted THEN -FrameSize ELSE 0

Compile == Prepare \/ Translate
=============================================================================
