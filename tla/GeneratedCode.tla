---------------------------- MODULE GeneratedCode ----------------------------
(***************************************************************************)
(* The function that Compiler::make returns to chase_pointers, called      *)
(* again and again as Run::run does (src/src/run.cpp).                     *)
(*                                                                         *)
(* What a register or a slot holds is abstracted to the variable whose     *)
(* present value it is: a write of the variable makes every other copy     *)
(* stale.  Whether the jump at the end of the loop is taken is not said:   *)
(* that is what Chase is about.                                            *)
(***************************************************************************)
EXTENDS Assembler

VARIABLES
  pc,        \* place in the code, 0 when the function does not run
  holds,     \* the variable whose present value each register holds
  fresh      \* the variables whose slot holds their present value

codeVars == <<compilerVars, assemblerVars>>
machineVars == <<pc, holds, fresh>>
vars == <<codeVars, machineVars>>

\* What the caller left in a register.
Caller == <<"caller", 0>>

Code == cc.code

Init ==
  /\ InitCompiler
  /\ InitAssembler
  /\ pc = 0
  /\ holds = [r \in Registers |-> Caller]
  /\ fresh = {}

Call ==
  /\ phase = "made"
  /\ pc = 0
  /\ pc' = 1
  /\ holds' = [r \in Registers |-> IF r = ArgRegister THEN Chain ELSE Caller]
  /\ fresh' = {}
  /\ UNCHANGED codeVars

AtOp(op) == phase = "made" /\ pc > 0 /\ Code[pc].op = op

Save ==
  /\ AtOp("save")
  /\ fresh' = IF holds[Code[pc].r] = Code[pc].v THEN fresh \cup {Code[pc].v}
                                               ELSE fresh \ {Code[pc].v}
  /\ pc' = pc + 1
  /\ UNCHANGED <<codeVars, holds>>

Load ==
  /\ AtOp("load")
  /\ holds' = [holds EXCEPT ![Code[pc].r] =
                 IF Code[pc].v \in fresh THEN Code[pc].v ELSE NoVariable]
  /\ pc' = pc + 1
  /\ UNCHANGED <<codeVars, fresh>>

\* The operands an instruction of the program writes.
Written(item) == {k \in DOMAIN item.regs : "write" \in item.uses[k].how}

Execute ==
  /\ phase = "made"
  /\ pc > 0
  /\ Code[pc].op \notin {"save", "load", "jne", "epilog"}
  /\ LET item == Code[pc]
         written == {item.uses[k].v : k \in Written(item)}
     IN  /\ holds' = [r \in Registers |->
                        IF \E k \in Written(item) : item.regs[k] = r
                        THEN item.uses[CHOOSE k \in Written(item) :
                                         item.regs[k] = r].v
                        ELSE IF holds[r] \in written THEN NoVariable
                        ELSE holds[r]]
         /\ fresh' = fresh \ written
  /\ pc' = pc + 1
  /\ UNCHANGED codeVars

\* The first emittable at the offset the jump at place k leads to.
Landing(k) ==
  LET there == starts[k + 1] + displacement
  IN  CHOOSE j \in DOMAIN starts : starts[j] = there /\ \A i \in 1 .. j - 1 : starts[i] # there

Jump ==
  /\ AtOp("jne")
  /\ pc' \in {Landing(pc), pc + 1}
  /\ UNCHANGED <<codeVars, holds, fresh>>

\* What was pushed is popped.
Return ==
  /\ AtOp("epilog")
  /\ holds' = [r \in Registers |-> IF r \in Pushed THEN Caller ELSE holds[r]]
  /\ pc' = 0
  /\ UNCHANGED <<codeVars, fresh>>

Next ==
  \/ Compile /\ UNCHANGED <<assemblerVars, machineVars>>
  \/ (StartEncode \/ Encode \/ Make) /\ UNCHANGED machineVars
  \/ Call \/ Save \/ Load \/ Execute \/ Jump \/ Return

Spec == Init /\ [][Next]_vars
-----------------------------------------------------------------------------
(***************************************************************************)
(* Properties.                                                             *)
(***************************************************************************)

\* The registers and the variables agree on who is where, before and after
\* every emittable: also behind the jump, where the mask of used registers is
\* simply set to what it was at the label.
RegistersAgree ==
  /\ \A r \in Registers : r \in cc.used <=> cc.gp[r] # NoVariable
  /\ \A v \in Variables :
       cc.var[v].state = "register" <=>
         cc.var[v].register # NoRegister /\ cc.gp[cc.var[v].register] = v

\* Whenever the function runs an instruction of the program, each register it
\* reads holds what the program last put in that variable, on every turn of
\* the loop and whatever was spilled in between.
ReadsPresent ==
  (phase = "made" /\ pc > 0 /\ Code[pc].op \notin {"save", "load"}) =>
    \A k \in DOMAIN Code[pc].regs :
      "read" \in Code[pc].uses[k].how =>
        holds[Code[pc].regs[k]] = Code[pc].uses[k].v

\* When the function has returned, every register that the calling convention
\* lets its caller keep is as it was.
CallerKeeps ==
  pc = 0 => \A r \in Preserved : holds[r] = Caller

\* No slot lies where a signal handler, or what was pushed, would overwrite
\* it, and a variable that is spilled again gets the slot it has: none has two.
SlotsSafe ==
  phase = "made" =>
    \A k \in DOMAIN cc.frame :
      /\ SlotAddress(k) >= StackPointer - RedZone
      /\ SlotAddress(k) + 8 <= 0
      /\ \A m \in DOMAIN cc.frame :
           m # k => cc.frame[m] # cc.frame[k]

\* No byte is written behind the buffer, and the jump leads to the label in
\* either form, on both sides of the distance that a byte can hold.
CodeInPlace ==
  /\ buffer.offset <= buffer.capacity
  /\ phase = "made" =>
       \A k \in DOMAIN Code : Code[k].op = "jne" => starts[k + 1] + displacement = label

\* As long as the heads' first and the positions fit the registers, no access
\* to memory is measured but those of the chase.
NothingSpilled ==
  input.chains_per_thread + 1 <= Cardinality(Registers \ {ESP, EBP}) =>
    /\ phase # "failed"
    /\ \A k \in DOMAIN Code : Code[k].op \notin {"save", "load"}

\* "getSpillCandidate never return the variable used this instruction"
\* (CompilerX86X64.cpp): what an instruction uses is in registers when it is
\* put in the code.
UsedStays ==
  \A k \in DOMAIN Code :
    Code[k].op \notin {"save", "load"} =>
      \A m \in DOMAIN Code[k].regs : Code[k].regs[m] # NoRegister
=============================================================================
