---------------------------- MODULE CodeInvariant ----------------------------
(***************************************************************************)
(* The inductive invariant behind the properties of GeneratedCode: what is *)
(* true of the compiler's context before and after every operation of the  *)
(* register allocator, and of the state it remembers for the label; the    *)
(* one behind what it spills: the scopes of the variables; and the one     *)
(* behind what the code reads: what is claimed of each place in it.        *)
(***************************************************************************)
EXTENDS GeneratedCode

Uses == [v : Variables, how : SUBSET {"read", "write", "slot"}]

Ops ==
  {"function", "entry", "prolog", "head", "position", "L_Loop", "chase",
   "prefetch", "nop", "cmp", "jne", "exit", "epilog"}

\* What the allocator puts in the code, and what comes from the program.
Items ==
  [op : {"save", "load"}, v : Variables, r : Registers]
    \cup {item \in [op : Ops, uses : Seq(Uses), regs : Seq(Registers \cup {NoRegister})] :
            DOMAIN item.regs = DOMAIN item.uses}

VarDatas ==
  [state : {"unused", "register", "memory"},
   register : Registers \cup {NoRegister}, home : Registers \cup {NoRegister},
   changed : BOOLEAN, work : Int, first : Int, last : Int, ends : Int, bias : Int]

Contexts ==
  [cur : Int, at : Int, gp : [Registers -> Variables \cup {NoVariable}],
   used : SUBSET Registers, modified : SUBSET Registers,
   var : [Variables -> VarDatas], frame : Seq(Variables), code : Seq(Items),
   error : BOOLEAN]

\* The registers that may be given to a variable.
Allocatable == Registers \ {ESP, EBP}

\* The mask, the table of registers and the data of the variables say the same.
Matched(c) ==
  /\ c.used = {r \in Registers : c.gp[r] # NoVariable}
  /\ \A r \in Registers : c.gp[r] # NoVariable => c.var[c.gp[r]].register = r
  /\ \A v \in Variables :
       /\ c.var[v].state = "register" <=> c.var[v].register # NoRegister
       /\ c.var[v].register # NoRegister => c.gp[c.var[v].register] = v

\* The registers of an instruction.
RegistersOf(item) ==
  IF item.op \in {"save", "load"} THEN {item.r}
  ELSE {item.regs[k] : k \in DOMAIN item.regs}

\* Every register the code has to do with is known to be modified.
Marked(c) ==
  /\ c.used \subseteq c.modified
  /\ c.modified \subseteq Allocatable
  /\ \A v \in Variables : c.var[v].home \in c.modified \cup {NoRegister}
  /\ \A k \in DOMAIN c.code : RegistersOf(c.code[k]) \subseteq c.modified \cup {NoRegister}

\* No variable has two slots.
SlotsDiffer(c) ==
  \A k, m \in DOMAIN c.frame : c.frame[k] = c.frame[m] => k = m

Sound(c) == c \in Contexts /\ Matched(c) /\ Marked(c) /\ SlotsDiffer(c)

\* The state remembered for the label: no variable was in two places.
TargetSound(t) ==
  /\ t.gp \in [Registers -> Variables \cup {NoVariable}]
  /\ t.used = {r \in Registers : t.gp[r] # NoVariable}
  /\ t.used \subseteq Allocatable
  /\ \A r, s \in Registers : t.gp[r] = t.gp[s] => r = s \/ t.gp[r] = NoVariable
  /\ t.memory \subseteq Variables
  /\ \A r \in Registers : t.gp[r] \notin t.memory

\* Before the prolog is translated nothing is in a register.
Early == phase = "prepare" \/ (phase = "translate" /\ place <= 3)

CompilerInv ==
  /\ input \in Inputs
  /\ phase \in {"prepare", "translate", "encode", "made", "failed"}
  /\ place \in Nat \ {0}
  /\ phase = "prepare" => place \in DOMAIN Program
  /\ Sound(cc)
  /\ TargetSound(target)
  /\ Early => cc.used = {}

-----------------------------------------------------------------------------
(***************************************************************************)
(* The code: the program, emittable by emittable, with what the allocator  *)
(* put in between.  Place f[k] is that of the k-th emittable.              *)
(***************************************************************************)
Translations == IF phase = "prepare" THEN 0 ELSE place - 1

Laid(code, f, n) ==
  /\ f[0] = 0 /\ f[n] = Len(code)
  /\ \A k \in 1 .. n :
       /\ f[k - 1] < f[k]
       /\ code[f[k]].op = Program[k].op /\ code[f[k]].uses = Program[k].uses
       /\ \A j \in f[k - 1] + 1 .. f[k] - 1 : code[j].op \in {"save", "load"}

CodeInv ==
  /\ phase \in {"encode", "made", "failed"} => Translations = Len(Program)
  /\ phase = "translate" => Translations <= Len(Program)
  /\ \E f \in [0 .. Translations -> 0 .. Len(Code)] : Laid(Code, f, Translations)

(***************************************************************************)
(* The assembler: the label is where the label's emittable began, and the  *)
(* jump leads there from where the emittable behind it begins.             *)
(***************************************************************************)
Buffers ==
  {b \in [capacity : Nat, offset : Nat] :
     /\ b.offset <= b.capacity
     /\ b.capacity = 0 \/ b.capacity >= FirstCapacity}

\* Where the emittable behind the k-th begins.
Behind(k) == IF k = Len(starts) THEN buffer.offset ELSE starts[k + 1]

AssemblerInv ==
  /\ buffer \in Buffers
  /\ starts \in Seq(Nat) /\ Len(starts) <= Len(Code)
  /\ label \in Int /\ displacement \in Int
  /\ phase \in {"prepare", "translate"} => starts = <<>>
  /\ phase = "made" => Len(starts) = Len(Code)
  /\ \A k \in DOMAIN starts :
       /\ Code[k].op = "L_Loop" => label = starts[k]
       /\ (Code[k].op = "jne" /\ phase # "failed") => Behind(k) + displacement = label

(***************************************************************************)
(* The machine: it is somewhere in the code, and no register that the      *)
(* caller wants back has been written but those that are popped.           *)
(***************************************************************************)
MachineInv ==
  /\ holds \in [Registers -> Variables \cup {NoVariable, Caller}]
  /\ pc # 0 => phase = "made" /\ pc \in DOMAIN Code
  /\ \A r \in Preserved : pc = 0 \/ r \notin Pushed => holds[r] = Caller

-----------------------------------------------------------------------------
(***************************************************************************)
(* Scopes.  Until the jump is prepared, a variable's scope ends where it   *)
(* was last used; the jump prolongs those that are used in the loop.       *)
(***************************************************************************)
UsedAt(k) == {Program[k].uses[m].v : m \in DOMAIN Program[k].uses}

\* The variables that are used in the loop.
Across == {HeadAt(1)} \cup {Position(i) : i \in 1 .. input.chains_per_thread}

JumpPlace == LoopPlace + Len(FollowAll) + input.loop_length + 2

Scope(c, v, p) ==
  LET data == c.var[v]
  IN  /\ data.work < p - 1 /\ data.first < p - 1
      /\ data.work # -1 => /\ data.first # -1
                           /\ data.ends \in 1 .. p - 1
                           /\ v \in UsedAt(data.ends)
                           /\ data.last = data.ends - 1
      /\ \A q \in 1 .. p - 1 :
           v \in UsedAt(q) => data.work # -1 /\ data.first < q /\ q <= data.ends

ScopesOpen(c, p) == c.cur = p - 1 /\ \A v \in Variables : Scope(c, v, p)

ScopesSet(c) ==
  /\ c.var[Chain].ends = input.chains_per_thread + 3
  /\ \A i \in 2 .. input.chains_per_thread : c.var[HeadAt(i)].ends = i + 3
  /\ \A v \in Across : c.var[v].ends \notin LoopPlace .. JumpPlace - 1

(***************************************************************************)
(* As long as the registers do: nothing was ever put on the stack, and     *)
(* only what the program still uses is in a register.                      *)
(***************************************************************************)
Unspilled(c) ==
  /\ c.frame = <<>> /\ ~c.error
  /\ \A v \in Variables : c.var[v].state # "memory"
  /\ \A k \in DOMAIN c.code : c.code[k].op \notin {"save", "load"} /\ ~Unplaced(c.code[k])

Within(c, live) == \A r \in Registers : c.gp[r] \in live \cup {NoVariable}

Live(p) == IF p <= input.chains_per_thread + 3 THEN {Chain, HeadAt(1)} ELSE Across

\* What was in a register at the label is in it still.
Unmoved(c, t) ==
  t.memory = {} /\ \A r \in Registers : t.gp[r] # NoVariable => c.gp[r] = t.gp[r]

\* Every register is taken, and was not enough.
Crowd(c) == input.chains_per_thread >= 14 /\ Allocatable \subseteq c.modified

Roomy ==
  /\ phase # "failed"
  /\ Unspilled(cc)
  /\ phase = "prepare" => IF place <= JumpPlace THEN ScopesOpen(cc, place) ELSE ScopesSet(cc)
  /\ phase = "translate" => Within(cc, Live(place))
  /\ (phase = "translate" /\ place <= JumpPlace) => ScopesSet(cc)
  /\ (phase = "translate" /\ place \in LoopPlace + 1 .. JumpPlace) => Unmoved(cc, target)

ScopeInv == Roomy \/ Crowd(cc)
-----------------------------------------------------------------------------
(***************************************************************************)
(* What the code reads.  A claim says of a place in the code what is so    *)
(* whenever the machine comes there: which registers hold the present      *)
(* value of which variables (pairs), and which slots do.                   *)
(***************************************************************************)
Claim(regs, slots) == [regs |-> regs, slots |-> slots]

Entry == Claim({<<ArgRegister, Chain>>}, {})

Weaker(b, a) == b.regs \subseteq a.regs /\ b.slots \subseteq a.slots

AfterSave(item, a) ==
  Claim(a.regs, IF <<item.r, item.v>> \in a.regs THEN a.slots \cup {item.v}
                                                 ELSE a.slots \ {item.v})

AfterLoad(item, a) ==
  Claim({f \in a.regs : f[1] # item.r}
          \cup (IF item.v \in a.slots THEN {<<item.r, item.v>>} ELSE {}),
        a.slots)

\* A register that two written variables shared would hold one of them only.
Sole(item, k) ==
  \A m \in Written(item) : item.regs[m] = item.regs[k] => item.uses[m].v = item.uses[k].v

AfterExecute(item, a) ==
  LET written == {item.uses[k].v : k \in Written(item)}
      taken == {item.regs[k] : k \in Written(item)}
  IN  Claim({f \in a.regs : f[1] \notin taken /\ f[2] \notin written}
              \cup {<<item.regs[k], item.uses[k].v>> : k \in {m \in Written(item) : Sole(item, m)}},
            a.slots \ written)

Passed(item, a) ==
  CASE item.op = "save" -> AfterSave(item, a)
    [] item.op = "load" -> AfterLoad(item, a)
    [] OTHER -> AfterExecute(item, a)

\* What an instruction of the program reads is claimed.
Reading(item, a) ==
  item.op \notin {"save", "load"} =>
    \A k \in DOMAIN item.regs :
      "read" \in item.uses[k].how => <<item.regs[k], item.uses[k].v>> \in a.regs

\* Claims A of the places in the code, of which l is the label's.
Typed(code, A, l) ==
  /\ Weaker(A[1], Entry)
  /\ \A k \in 1 .. Len(code) :
       /\ Weaker(A[k + 1], Passed(code[k], A[k]))
       /\ Reading(code[k], A[k])
       /\ code[k].op = "L_Loop" => A[k] = l
       /\ code[k].op = "jne" => Weaker(l, A[k])

Reaches(code, l, a) == \E A : Typed(code, A, l) /\ A[Len(code) + 1] = a

\* The allocator's view of the variables is what is claimed, for all but those
\* of X, which the instruction is about to write.
Covers(c, a, X) ==
  \A v \in Variables \ X :
    /\ c.var[v].register # NoRegister => <<c.var[v].register, v>> \in a.regs
    /\ (c.var[v].state = "memory" \/ (c.var[v].state = "register" /\ ~c.var[v].changed))
         => v \in a.slots

Told(c, l, K, X) ==
  \E a : Reaches(c.code, l, a) /\ K \subseteq a.slots /\ Covers(c, a, X)

\* The assembler will refuse the code.
Refused(code) == \E k \in DOMAIN code : Unplaced(code[k])

Positions == {Position(i) : i \in 1 .. input.chains_per_thread}

\* Variables that were written, and are used again.
Needed(p) ==
  {v \in Variables : /\ v = Chain \/ \E q \in 1 .. p - 1 : v \in UsedAt(q)
                     /\ \E q \in p .. JumpPlace - 1 : v \in UsedAt(q)}

Alive(c, S) == \A v \in S : c.var[v].state # "unused"

Blank(c) == \A v \in Variables : c.var[v].state = "unused"

\* No scope ends before the variable is used for the last time, and none
\* in the loop.
ScopesKept(c) ==
  \A v \in Variables :
    /\ c.var[v].work # -1
    /\ c.var[v].ends # 0 =>
         /\ c.var[v].ends \notin LoopPlace .. JumpPlace - 1
         /\ \A q \in 1 .. JumpPlace - 1 : v \in UsedAt(q) => q <= c.var[v].ends

\* Before the loop a position is not loaded.
Unloaded(c) == \A v \in Positions : c.var[v].state = "register" => c.var[v].changed

\* Where the label found the variables.
Found(t) == {v \in Variables : StateAtTarget(t, v) # "unused"}

Labelled(l, t) ==
  /\ l.regs = {<<r, t.gp[r]>> : r \in t.used}
  /\ l.slots \cap Positions \subseteq t.memory /\ t.memory \subseteq l.slots

\* Before a place of the program is prepared ...
Preparing(c, p) ==
  /\ c.code = <<>> /\ Blank(c)
  /\ IF p <= JumpPlace THEN ScopesOpen(c, p) ELSE ScopesKept(c)

\* ... and translated: before the loop, in it, and behind it.
Filling(c, p) ==
  ScopesKept(c) /\ Alive(c, Needed(p)) /\ Unloaded(c) /\ Told(c, Entry, {}, {})

Looping(c, t, p) ==
  /\ ScopesKept(c)
  /\ Alive(c, Needed(p) \cup Found(t))
  /\ \E l : Labelled(l, t) /\ Told(c, l, l.slots \ Positions, {})

Closed(code) == \E l, a : Reaches(code, l, a)

Translating(c, t, p) ==
  /\ p <= 3 => ScopesKept(c) /\ Blank(c) /\ Reaches(c.code, Entry, Entry)
  /\ p \in 4 .. LoopPlace => Refused(c.code) \/ Filling(c, p)
  /\ p \in LoopPlace + 1 .. JumpPlace => Refused(c.code) \/ Looping(c, t, p)
  /\ p > JumpPlace => Refused(c.code) \/ Closed(c.code)

ReadInv == IF phase = "prepare" THEN Preparing(cc, place) ELSE Translating(cc, target, place)

-----------------------------------------------------------------------------
(***************************************************************************)
(* The finished function.  What the assembler took was in registers; and   *)
(* what may be in front of the label is not empty, so that no other        *)
(* emittable begins where the label is.                                    *)
(***************************************************************************)
Wide(item) == item.op \in {"position", "save", "load"}

EncodeInv ==
  phase # "failed" =>
    \A k \in DOMAIN starts :
      /\ ~Unplaced(Code[k])
      /\ starts[k] <= buffer.offset /\ (Wide(Code[k]) => starts[k] < buffer.offset)
      /\ \A j \in 1 .. k - 1 :
           starts[j] <= starts[k] /\ (Wide(Code[j]) => starts[j] < starts[k])

\* What is claimed of a place is so when the machine is there.
Keeps(a) ==
  /\ \A f \in a.regs : f[1] \in Registers => holds[f[1]] = f[2]
  /\ a.slots \subseteq fresh

RunInv ==
  phase = "made" => \E A, l : Typed(Code, A, l) /\ (pc # 0 => Keeps(A[pc]))
=============================================================================
