------------------------- MODULE RegisterAllocator -------------------------
(***************************************************************************)
(* The register allocator of AsmJit (CompilerContext of                    *)
(* src/lib/AsmJit/CompilerX86X64.cpp) for the variables that               *)
(* chase_pointers makes: all are of general purpose type, none is bound to *)
(* a register and the function calls nothing.                              *)
(*                                                                         *)
(* Every operator takes and returns the compiler's context, a record:      *)
(*   cur      offset of the next instruction, _currentOffset               *)
(*   at       offset of the emittable new code is put behind, _current     *)
(*   gp       the variable in each register                                *)
(*   used     registers taken, the mask usedGP                             *)
(*   modified registers the function ever took, _modifiedGPRegisters       *)
(*   var      what is known of each variable, its VarData                  *)
(*   frame    the variables that have a slot on the stack                  *)
(*   code     the instructions so far, in the order they will run          *)
(*   error    the compiler's setError was called                           *)
(***************************************************************************)
EXTENDS Integers, SequencesExt

NoVariable == <<"none", 0>>
NoRegister == -1

Registers == 0 .. 15
EAX == 0
ESP == 4
EBP == 5
ArgRegister == 7
Preserved == {3, 4, 5, 12, 13, 14, 15}

(***************************************************************************)
(* A variable.  first and last are the offsets its scope ends at; ends is  *)
(* the place in the program of the emittable `lastEmittable' points to, 0  *)
(* when that is code the allocator put in.  bias is the part of the spill  *)
(* score that counts accesses.                                             *)
(***************************************************************************)
NewVarData ==
  [state |-> "unused", register |-> NoRegister, home |-> NoRegister, changed |-> FALSE,
   work |-> -1, first |-> -1, last |-> -1, ends |-> 0, bias |-> 0]

NewContext(variables) ==
  [cur |-> 0, at |-> 0, gp |-> [r \in Registers |-> NoVariable],
   used |-> {}, modified |-> {}, var |-> [v \in variables |-> NewVarData],
   frame |-> <<>>, code |-> <<>>, error |-> FALSE]

\* The list of active variables: those an instruction was prepared for.
Active(c) == {v \in DOMAIN c.var : c.var[v].work # -1}

\* Reads, and accesses to the slot, make a variable a better candidate.
Bias(how) ==
  (IF "read" \in how THEN 1 ELSE 0) - (IF "write" \in how THEN 1 ELSE 0)
    + (IF "slot" \in how THEN 1 ELSE 0)

(***************************************************************************)
(* EInstruction::prepare, called for the instructions of the program       *)
(* before any is translated and for each one the allocator puts in, as     *)
(* soon as it is put in.  Nothing is counted when all the variables of the *)
(* instruction were already at work at this very offset.                   *)
(***************************************************************************)
Touch(c, use, place) ==
  LET data == c.var[use.v]
  IN  [c EXCEPT !.var[use.v] =
         [data EXCEPT !.work = c.cur, !.bias = @ + Bias(use.how),
                      !.first = IF @ = -1 THEN c.cur ELSE @,
                      !.last = c.cur, !.ends = place]]

PrepareInstruction(c, uses, place) ==
  LET fresh == \E k \in DOMAIN uses : c.var[uses[k].v].work # c.cur
      all == FoldLeft(LAMBDA d, use : Touch(d, use, place), c, uses)
  IN  [(IF fresh THEN all ELSE c) EXCEPT !.cur = @ + 1]

(***************************************************************************)
(* Code the allocator puts in front of the instruction it translates:      *)
(* emitLoadVar and emitSaveVar.  _getVarMem gives the variable a slot.     *)
(***************************************************************************)
Emit(c, op, v, r) ==
  LET placed ==
        [c EXCEPT !.frame = IF Contains(@, v) THEN @ ELSE Append(@, v),
                  !.code = Append(@, [op |-> op, v |-> v, r |-> r])]
      done == PrepareInstruction(placed, <<[v |-> v, how |-> {"slot"}]>>, 0)
  IN  [done EXCEPT !.at = c.cur]

(***************************************************************************)
(* Spilling.                                                               *)
(***************************************************************************)

Forget(c, gone, state) ==
  LET freed == {c.var[v].register : v \in gone}
  IN  [c EXCEPT
         !.gp = [r \in Registers |-> IF r \in freed THEN NoVariable ELSE @[r]],
         !.used = @ \ freed,
         !.var = [v \in DOMAIN @ |->
                    IF v \in gone
                    THEN [@[v] EXCEPT !.state = state, !.register = NoRegister,
                                      !.changed = FALSE]
                    ELSE @[v]]]

SpillGPVar(c, v) ==
  LET saved == IF c.var[v].changed THEN Emit(c, "save", v, c.var[v].register)
                                   ELSE c
  IN  Forget(saved, {v}, "memory")

UnuseVars(c, gone) == Forget(c, gone, "unused")

SpillScore(c, v) ==
  (IF c.var[v].last >= c.at THEN c.var[v].last - c.at ELSE 0) + c.var[v].bias

\* The registers whose variable is not at work for the next instruction.
SpillCandidates(c) ==
  {r \in Registers : c.gp[r] # NoVariable /\ c.var[c.gp[r]].work # c.cur}

\* The first register of those with the highest score.
SpillCandidate(c) ==
  CHOOSE r \in SpillCandidates(c) :
    \A s \in SpillCandidates(c) :
      LET gain == SpillScore(c, c.gp[r]) - SpillScore(c, c.gp[s])
      IN  gain > 0 \/ (gain = 0 /\ r <= s)

(***************************************************************************)
(* allocGPVar.  EAX is taken last, and a register the caller wants back    *)
(* only after those it does not.                                           *)
(***************************************************************************)

Least(S) == CHOOSE r \in S : \A s \in S : r <= s

\* A slip: the home register is taken although another variable is in it.
HomeFirst(c, v) ==
  LET free == Registers \ (c.used \cup {ESP, EBP})
  IN  IF c.var[v].home # NoRegister THEN c.var[v].home
      ELSE IF free = {} THEN NoRegister ELSE Least(free)

\* A slip: EAX is left for special instructions even when all else is taken.
FreeButEAX(c, v) ==
  LET free == Registers \ (c.used \cup {EAX, ESP, EBP})
  IN  IF c.var[v].home \in Registers \ c.used THEN c.var[v].home
      ELSE IF free = {} THEN NoRegister ELSE Least(free)

FreeRegister(c, v) ==
  LET free == Registers \ (c.used \cup {EAX, ESP, EBP})
  IN  CASE c.var[v].home \in Registers \ c.used -> c.var[v].home
        [] c.var[v].home \notin Registers \ c.used /\ free # {} ->
             Least(IF free \subseteq Preserved THEN free ELSE free \ Preserved)
        [] OTHER -> IF EAX \in c.used THEN NoRegister ELSE EAX

\* A slip: the function does not remember that it took the register.
OccupyUnmarked(c, v, r, how) ==
  LET loaded == IF c.var[v].state = "memory" /\ "read" \in how
                THEN Emit(c, "load", v, r) ELSE c
  IN  [loaded EXCEPT !.var[v] = [@ EXCEPT !.state = "register",
                                          !.register = r, !.home = r],
                     !.gp[r] = v, !.used = @ \cup {r}]

Occupy(c, v, r, how) ==
  LET loaded == IF c.var[v].state = "memory" /\ "read" \in how
                THEN Emit(c, "load", v, r) ELSE c
  IN  [loaded EXCEPT !.var[v] = [@ EXCEPT !.state = "register",
                                          !.register = r, !.home = r],
                     !.gp[r] = v,
                     !.used = @ \cup {r},
                     !.modified = @ \cup {r}]

AllocGPVar(c, use) ==
  LET free == FreeRegister(c, use.v)
      r == SpillCandidate(c)
  IN  CASE c.var[use.v].state = "register" -> c
        [] c.var[use.v].state # "register" /\ free # NoRegister ->
             Occupy(c, use.v, free, use.how)
        [] c.var[use.v].state # "register" /\ free = NoRegister ->
             IF SpillCandidates(c) = {} THEN [c EXCEPT !.error = TRUE]
             ELSE Occupy(SpillGPVar(c, c.gp[r]), use.v, r, use.how)

\* allocVar: a variable the instruction writes differs from its slot.
AllocVar(c, use) ==
  LET done == AllocGPVar(c, use)
  IN  IF "write" \in use.how THEN [done EXCEPT !.var[use.v].changed = TRUE]
                             ELSE done

(***************************************************************************)
(* The state at a label, and the code in front of a jump back to it that   *)
(* puts every variable back where the label found it.  The mask of changed *)
(* registers of the running state is never set, so that a variable which   *)
(* is still in its register is left there unsaved.                         *)
(***************************************************************************)

SaveState(c) ==
  [gp |-> c.gp, used |-> c.used,
   memory |-> {v \in Active(c) : c.var[v].state = "memory"}]

StateAtTarget(target, v) ==
  CASE \E r \in Registers : target.gp[r] = v -> "register"
    [] v \in target.memory -> "memory"
    [] OTHER -> "unused"

\* A register is freed of what the label did not find in it, ...
LeaveRegister(c, target, r) ==
  IF c.gp[r] \in {NoVariable, target.gp[r]} THEN c
  ELSE IF StateAtTarget(target, c.gp[r]) = "unused"
       THEN UnuseVars(c, {c.gp[r]}) ELSE SpillGPVar(c, c.gp[r])

\* ... and given what the label found.
EnterRegister(c, target, r) ==
  IF target.gp[r] \in {NoVariable, c.gp[r]} THEN c
  ELSE Occupy(c, target.gp[r], r, {"read"})

RegisterOrder == [k \in 1 .. 16 |-> k - 1]

RestoreState(c, target) ==
  LET left == FoldLeft(LAMBDA d, r : LeaveRegister(d, target, r), c, RegisterOrder)
      moved == FoldLeft(LAMBDA d, r : EnterRegister(d, target, r), left, RegisterOrder)
      Settle(v) ==
        IF v \in Active(c) /\ StateAtTarget(target, v) # "register"
        THEN [moved.var[v] EXCEPT !.state = StateAtTarget(target, v),
                                  !.changed = FALSE]
        ELSE moved.var[v]
  IN  [moved EXCEPT !.used = target.used,
                    !.var = [v \in DOMAIN c.var |-> Settle(v)]]
=============================================================================
