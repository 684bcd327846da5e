------------------------------ MODULE ReadProofs ------------------------------
(***************************************************************************)
(* Proofs that the code which the compiler wrote                           *)
(* (src/lib/AsmJit/CompilerX86X64.cpp) reads what the program last wrote,  *)
(* for every number of chains and every length of the loop, and whatever   *)
(* is spilled, exchanged and loaded again on the way.                      *)
(*                                                                         *)
(* The argument goes through claims: for each place in the code, which     *)
(* registers and slots hold the present value of which variables.  While   *)
(* the compiler writes, there are claims that cover its own view of the    *)
(* variables and that every emittable passes on to the next; those of the  *)
(* label are what was in its state, and the jump restores that state.      *)
(* While the function runs, the claims of the place it is at are so.       *)
(***************************************************************************)
EXTENDS ScopeProofs

-----------------------------------------------------------------------------
(* Claims.                                                                 *)

\* A claim weaker than a weaker one is weaker.
LEMMA WeakerStill ==
  ASSUME NEW a, NEW b, NEW c, Weaker(a, b), Weaker(b, c)
  PROVE  Weaker(a, c)
BY DEF Weaker

\* Code that has grown by an emittable.
LEMMA ReachesMore ==
  ASSUME NEW s \in Seq(Items), NEW item \in Items, NEW l, NEW a, NEW b, Reaches(s, l, a),
         Weaker(b, Passed(item, a)), Reading(item, a),
         item.op = "L_Loop" => a = l,
         item.op = "jne" => Weaker(l, a)
  PROVE  Reaches(Append(s, item), l, b)
<1> DEFINE n == Len(s)
           t == Append(s, item)
<1>1. PICK A : Typed(s, A, l) /\ A[n + 1] = a
  BY DEF Reaches
<1>2. n \in Nat /\ Len(t) = n + 1 /\ t[n + 1] = item /\ \A k \in 1 .. n : t[k] = s[k]
  OBVIOUS
<1> HIDE DEF n, t
<1> DEFINE B == [k \in 1 .. n + 2 |-> IF k <= n + 1 THEN A[k] ELSE b]
<1>3. B[n + 2] = b /\ \A k \in 1 .. n + 1 : B[k] = A[k]
  BY <1>2
<1> HIDE DEF B
<1>4. ASSUME NEW k \in 1 .. n + 1
      PROVE  /\ Weaker(B[k + 1], Passed(t[k], B[k]))
             /\ Reading(t[k], B[k])
             /\ t[k].op = "L_Loop" => B[k] = l
             /\ t[k].op = "jne" => Weaker(l, B[k])
  <2>1. CASE k \in 1 .. n
    <3>1. B[k] = A[k] /\ B[k + 1] = A[k + 1] /\ t[k] = s[k]
      BY <1>2, <1>3, <2>1
    <3> QED
      BY <1>1, <2>1, <3>1 DEF Typed, n
  <2>2. CASE k = n + 1
    <3>1. B[k] = a /\ B[k + 1] = b /\ t[k] = item
      BY <1>1, <1>2, <1>3, <2>2
    <3> QED
      BY <3>1
  <2> QED
    BY <1>2, <2>1, <2>2
<1>5. Weaker(B[1], Entry)
  BY <1>1, <1>2, <1>3 DEF Typed
<1>6. Typed(t, B, l)
  BY <1>2, <1>4, <1>5 DEF Typed
<1>7. B[Len(t) + 1] = b
  BY <1>2, <1>3
<1> QED
  BY <1>6, <1>7 DEF Reaches, t

\* Less may be claimed behind code that has neither the label nor the jump in
\* it, whatever will be claimed at the label.
LEMMA ReachesWeaker ==
  ASSUME NEW s \in Seq(Items), NEW l, NEW m, NEW a, NEW b, Reaches(s, l, a), Weaker(b, a),
         \A k \in 1 .. Len(s) : s[k].op \notin {"L_Loop", "jne"}
  PROVE  Reaches(s, m, b)
<1> DEFINE n == Len(s)
<1>1. PICK A : Typed(s, A, l) /\ A[n + 1] = a
  BY DEF Reaches
<1>2. n \in Nat
  OBVIOUS
<1> HIDE DEF n
<1> DEFINE B == [k \in 1 .. n + 1 |-> IF k <= n THEN A[k] ELSE b]
<1>3. B[n + 1] = b /\ \A k \in 1 .. n : B[k] = A[k]
  BY <1>2
<1> HIDE DEF B
<1>4. \A k \in 1 .. n + 1 : Weaker(B[k], A[k])
  <2> TAKE k \in 1 .. n + 1
  <2>1. k = n + 1 \/ k \in 1 .. n
    BY <1>2
  <2> QED
    BY <1>1, <1>3, <2>1 DEF Weaker
<1>5. ASSUME NEW k \in 1 .. n
      PROVE  /\ Weaker(B[k + 1], Passed(s[k], B[k]))
             /\ Reading(s[k], B[k])
  <2>1. Weaker(A[k + 1], Passed(s[k], A[k])) /\ Reading(s[k], A[k])
    BY <1>1 DEF Typed, n
  <2>2. k + 1 \in 1 .. n + 1 /\ B[k] = A[k]
    BY <1>2, <1>3
  <2> QED
    BY <1>4, <2>1, <2>2, WeakerStill
<1>6. Weaker(B[1], Entry)
  <2>1. Weaker(A[1], Entry) /\ Weaker(B[1], A[1])
    BY <1>1, <1>2, <1>4 DEF Typed
  <2> QED
    BY <2>1, WeakerStill
<1>7. Typed(s, B, m)
  BY <1>5, <1>6 DEF Typed, n
<1> QED
  BY <1>3, <1>7 DEF Reaches, n

\* What was refused stays refused.
LEMMA RefusedStill ==
  ASSUME NEW s \in Seq(Items), NEW t \in Seq(Items), Len(s) <= Len(t),
         \A k \in 1 .. Len(s) : t[k] = s[k], Refused(s)
  PROVE  Refused(t)
<1>1. PICK k \in DOMAIN s : Unplaced(s[k])
  BY DEF Refused
<1>2. k \in DOMAIN t /\ t[k] = s[k]
  BY <1>1
<1> QED
  BY <1>1, <1>2 DEF Refused

-----------------------------------------------------------------------------
(* What the operations do to the data of the variables.                    *)

\* No variable begins or ends its scope, but that it may last for ever.
Steady(c, d) ==
  c.cur \in Nat =>
    /\ d.cur \in Nat
    /\ \A v \in Variables : /\ d.var[v].ends \in {c.var[v].ends, 0}
                            /\ c.var[v].work # -1 => d.var[v].work # -1

\* Every variable but those of S is where it was.
Still(c, d, S) ==
  \A v \in Variables \ S :
    /\ d.var[v].state = c.var[v].state
    /\ d.var[v].register = c.var[v].register
    /\ d.var[v].changed = c.var[v].changed

\* Two operations in a row keep the scopes that each of them keeps.
LEMMA SteadyStill ==
  ASSUME NEW a, NEW b, NEW c, Steady(a, b), Steady(b, c)
  PROVE  Steady(a, c)
BY DEF Steady

\* A context is like itself.
LEMMA SteadyItself ==
  ASSUME NEW c
  PROVE  Steady(c, c) /\ Still(c, c, {})
BY DEF Steady, Still

\* To mark a variable as used changes its priority only.
LEMMA TouchSteady ==
  ASSUME NEW c \in Contexts, NEW use \in Uses
  PROVE  LET d == Touch(c, use, 0)
         IN  Steady(c, d) /\ Still(c, d, {}) /\ d.cur = c.cur
<1> DEFINE w == c.var[use.v]
           x == [w EXCEPT !.work = c.cur, !.bias = @ + Bias(use.how),
                          !.first = IF @ = -1 THEN c.cur ELSE @,
                          !.last = c.cur, !.ends = 0]
           d == [c EXCEPT !.var[use.v] = x]
<1>1. use.v \in Variables /\ c.var \in [Variables -> VarDatas] /\ w \in VarDatas
  BY ContextFields DEF Uses
<1>2. Touch(c, use, 0) = d
  BY DEF Touch
<1>3. /\ x.state = w.state /\ x.register = w.register /\ x.changed = w.changed
      /\ x.work = c.cur /\ x.ends = 0
  BY <1>1 DEF VarDatas
<1> HIDE DEF x
<1>4. d.var = [c.var EXCEPT ![use.v] = x] /\ d.cur = c.cur
  BY DEF Contexts
<1> HIDE DEF d
<1>5. Still(c, d, {})
  BY <1>1, <1>3, <1>4 DEF Still
<1>6. Steady(c, d)
  BY <1>1, <1>3, <1>4 DEF Steady
<1> QED
  BY <1>2, <1>4, <1>5, <1>6

\* ... and so for the one operand of an instruction.
LEMMA TouchEachSteady ==
  ASSUME NEW c \in Contexts, NEW uses \in Seq(Uses), Len(uses) = 1
  PROVE  LET d == TouchEach(c, uses, 0)
         IN  Steady(c, d) /\ Still(c, d, {}) /\ d.cur = c.cur
<1>1. PICK q \in [0 .. Len(uses) -> Touched(c)] :
        /\ q[0] = c
        /\ \A k \in 1 .. Len(uses) : q[k] = Touch(q[k - 1], uses[k], 0)
        /\ TouchEach(c, uses, 0) = q[Len(uses)]
  BY TouchSteps
<1>2. 1 \in 1 .. Len(uses) /\ 1 - 1 = 0 /\ uses[1] \in Uses
  OBVIOUS
<1>3. q[1] = Touch(q[0], uses[1], 0)
  BY <1>1, <1>2
<1>4. TouchEach(c, uses, 0) = Touch(c, uses[1], 0)
  BY <1>1, <1>3
<1> QED
  BY <1>2, <1>4, TouchSteady

\* To prepare an instruction leaves every variable where it is.
LEMMA PrepareSteady ==
  ASSUME NEW c \in Contexts, NEW uses \in Seq(Uses), Len(uses) = 1
  PROVE  LET d == PrepareInstruction(c, uses, 0)
         IN  Steady(c, d) /\ Still(c, d, {})
<1> DEFINE isNew == \E k \in DOMAIN uses : c.var[uses[k].v].work # c.cur
           e == IF isNew THEN TouchEach(c, uses, 0) ELSE c
           d == [e EXCEPT !.cur = @ + 1]
<1>1. PrepareInstruction(c, uses, 0) = d
  BY DEF PrepareInstruction, TouchEach
<1>2. e \in Contexts
  BY TouchAll DEF Touched
<1>3. e.cur = c.cur /\ Steady(c, e) /\ Still(c, e, {})
  BY TouchEachSteady, SteadyItself
<1> HIDE DEF e
<1>4. d.var = e.var /\ d.cur = e.cur + 1
  BY <1>2 DEF Contexts
<1> HIDE DEF d
<1>5. Still(c, d, {})
  BY <1>3, <1>4 DEF Still
<1>6. Steady(c, d)
  BY <1>3, <1>4 DEF Steady
<1> QED
  BY <1>1, <1>5, <1>6

\* To put an emittable in the code leaves every variable where it is.
LEMMA EmitSteady ==
  ASSUME NEW c \in Contexts, NEW op \in {"save", "load"}, NEW v \in Variables,
         NEW r \in Registers
  PROVE  LET d == Emit(c, op, v, r)
         IN  Steady(c, d) /\ Still(c, d, {})
<1> DEFINE item == [op |-> op, v |-> v, r |-> r]
           frame == IF Contains(c.frame, v) THEN c.frame ELSE Append(c.frame, v)
           uses == <<[v |-> v, how |-> {"slot"}]>>
           placed == [c EXCEPT !.frame = frame, !.code = Append(c.code, item)]
           done == PrepareInstruction(placed, uses, 0)
           d == [done EXCEPT !.at = c.cur]
<1>1. Emit(c, op, v, r) = d
  BY DEF Emit
<1>2. item \in Items
  BY DEF Items
<1>3. uses \in Seq(Uses) /\ Len(uses) = 1
  BY DEF Uses
<1>4. frame \in Seq(Variables) /\ Append(c.code, item) \in Seq(Items) /\ c.cur \in Int
  BY <1>2, ContextFields
<1> HIDE DEF frame, item, uses
<1>5. placed \in Contexts /\ placed.var = c.var /\ placed.cur = c.cur
  BY <1>4 DEF Contexts
<1>6. Steady(c, placed) /\ Still(c, placed, {})
  BY <1>5 DEF Steady, Still
<1> HIDE DEF placed
<1>7. done \in Contexts /\ Steady(placed, done) /\ Still(placed, done, {})
  BY <1>3, <1>5, PrepareSteady, PrepareInstructionKeeps
<1> HIDE DEF done
<1>8. d.var = done.var /\ d.cur = done.cur
  BY <1>7 DEF Contexts
<1> HIDE DEF d
<1>9. Still(c, d, {})
  BY <1>6, <1>7, <1>8 DEF Still
<1>10. Steady(c, done)
  BY <1>6, <1>7, SteadyStill
<1>11. Steady(c, d)
  BY <1>8, <1>10 DEF Steady
<1> QED
  BY <1>1, <1>9, <1>11

\* Only variables that are forgotten lose their place.
LEMMA ForgetSteady ==
  ASSUME NEW c \in Contexts, NEW gone \in SUBSET Variables, NEW state \in {"unused", "memory"}
  PROVE  LET d == Forget(c, gone, state)
         IN  /\ Steady(c, d) /\ Still(c, d, gone)
             /\ \A v \in gone : d.var[v].state = state /\ d.var[v].register = NoRegister
<1> DEFINE d == Forget(c, gone, state)
<1>1. d.cur = c.cur /\ d.var = Forgotten(c, gone, state)
  BY ForgetFields
<1>2. ASSUME NEW v \in Variables
      PROVE  /\ d.var[v].ends = c.var[v].ends /\ d.var[v].work = c.var[v].work
             /\ v \notin gone => d.var[v] = c.var[v]
             /\ v \in gone => d.var[v].state = state /\ d.var[v].register = NoRegister
  <2>1. c.var[v] \in VarDatas
    BY ContextFields
  <2>2. d.var[v] = IF v \in gone
                   THEN [c.var[v] EXCEPT !.state = state, !.register = NoRegister,
                                         !.changed = FALSE]
                   ELSE c.var[v]
    BY <1>1 DEF Forgotten
  <2> QED
    BY <2>1, <2>2 DEF VarDatas
<1> HIDE DEF d
<1> QED
  BY <1>1, <1>2 DEF Steady, Still, d

-----------------------------------------------------------------------------
(* What the operations do to the claims.                                   *)

\* A save makes the slot of a variable hold what its register holds.
LEMMA SaveTold ==
  ASSUME NEW c, Sound(c), NEW v \in Variables, NEW r \in Registers, c.var[v].register = r,
         NEW l, NEW K, NEW X, X \cap K = {}, Told(c, l, K, X)
  PROVE  LET d == Emit(c, "save", v, r)
         IN  \E b : /\ Reaches(d.code, l, b) /\ K \subseteq b.slots /\ Covers(d, b, X)
                    /\ v \notin X => v \in b.slots
<1> DEFINE d == Emit(c, "save", v, r)
           item == [op |-> "save", v |-> v, r |-> r]
<1>1. PICK a : Reaches(c.code, l, a) /\ K \subseteq a.slots /\ Covers(c, a, X)
  BY DEF Told
<1> DEFINE b == AfterSave(item, a)
<1>2. c \in Contexts /\ c.code \in Seq(Items) /\ item \in Items
  BY ContextFields DEF Sound, Items
<1>3. d.code = Append(c.code, item) /\ Still(c, d, {})
  BY <1>2, EmitKeeps, EmitSteady
<1>4. item.op = "save" /\ item.v = v /\ item.r = r
  OBVIOUS
<1>5. v \notin X => <<r, v>> \in a.regs
  BY <1>1 DEF Covers, Registers, NoRegister
<1>6. /\ b.regs = a.regs
      /\ b.slots = IF <<r, v>> \in a.regs THEN a.slots \cup {v} ELSE a.slots \ {v}
  BY <1>4 DEF AfterSave, Claim
<1>7. Passed(item, a) = b /\ Reading(item, a)
  BY <1>4 DEF Passed, Reading
<1> HIDE DEF b, d, item
<1>8. Reaches(d.code, l, b)
  BY <1>1, <1>2, <1>3, <1>4, <1>7, ReachesMore DEF Weaker
<1>9. K \subseteq b.slots /\ (v \notin X => v \in b.slots)
  BY <1>1, <1>5, <1>6
<1>10. Covers(d, b, X)
  BY <1>1, <1>3, <1>5, <1>6 DEF Covers, Still
<1> QED
  BY <1>8, <1>9, <1>10 DEF d

\* To spill a variable keeps the claims: it is saved if it has changed.
LEMMA SpillTold ==
  ASSUME NEW c, Sound(c), NEW r \in Registers, c.gp[r] # NoVariable,
         NEW l, NEW K, NEW X, X \cap K = {}, Told(c, l, K, X)
  PROVE  LET d == SpillGPVar(c, c.gp[r])
         IN  /\ Told(d, l, K, X) /\ Steady(c, d) /\ Still(c, d, {c.gp[r]})
             /\ d.var[c.gp[r]].state = "memory" /\ d.var[c.gp[r]].register = NoRegister
<1> DEFINE v == c.gp[r]
           saved == IF c.var[v].changed THEN Emit(c, "save", v, c.var[v].register) ELSE c
           d == Forget(saved, {v}, "memory")
<1>1. c \in Contexts /\ Matched(c) /\ v \in Variables
  BY ContextFields DEF Sound
<1>2. c.var[v].register = r /\ c.var[v].state = "register"
  <2>1. c.var[v].register = r
    BY <1>1 DEF Matched
  <2> QED
    BY <1>1, <2>1 DEF Matched, Registers, NoRegister
<1>3. SpillGPVar(c, v) = d
  BY DEF SpillGPVar
<1>4. /\ saved \in Contexts /\ Steady(c, saved) /\ Still(c, saved, {})
      /\ \E b : /\ Reaches(saved.code, l, b) /\ K \subseteq b.slots /\ Covers(saved, b, X)
                /\ v \notin X => v \in b.slots
  <2>1. CASE c.var[v].changed
    <3>1. saved = Emit(c, "save", v, r)
      BY <1>2, <2>1
    <3> HIDE DEF saved, v
    <3> QED
      BY <1>1, <1>2, <3>1, SaveTold, EmitSteady, EmitKeeps
  <2>2. CASE ~c.var[v].changed
    <3>1. saved = c
      BY <2>2
    <3>2. PICK a : Reaches(c.code, l, a) /\ K \subseteq a.slots /\ Covers(c, a, X)
      BY DEF Told
    <3>3. v \notin X => v \in a.slots
      BY <1>1, <1>2, <2>2, <3>2 DEF Covers
    <3> HIDE DEF saved, v
    <3> QED
      BY <1>1, <3>1, <3>2, <3>3, SteadyItself
  <2> QED
    BY <2>1, <2>2
<1> HIDE DEF saved, v
<1>5. /\ d.code = saved.code /\ Steady(saved, d) /\ Still(saved, d, {v})
      /\ d.var[v].state = "memory" /\ d.var[v].register = NoRegister
  <2> DEFINE gone == {v}
  <2>1. gone \in SUBSET Variables /\ v \in gone /\ "memory" \in {"unused", "memory"}
    BY <1>1
  <2> HIDE DEF gone
  <2>2. Forget(saved, gone, "memory").code = saved.code
    BY <1>4, <2>1, ForgetFields
  <2>3. LET f == Forget(saved, gone, "memory")
        IN  /\ Steady(saved, f) /\ Still(saved, f, gone)
            /\ f.var[v].state = "memory" /\ f.var[v].register = NoRegister
    BY <1>4, <2>1, ForgetSteady
  <2> QED
    BY <2>2, <2>3 DEF gone
<1> HIDE DEF d
<1>6. Still(c, d, {v}) /\ Steady(c, d)
  BY <1>4, <1>5, SteadyStill DEF Still
<1>7. Told(d, l, K, X)
  <2>1. PICK b : /\ Reaches(saved.code, l, b) /\ K \subseteq b.slots /\ Covers(saved, b, X)
                 /\ v \notin X => v \in b.slots
    BY <1>4
  <2>2. Covers(d, b, X)
    BY <1>5, <2>1 DEF Covers, Still
  <2> QED
    BY <1>5, <2>1, <2>2 DEF Told
<1> QED
  BY <1>3, <1>5, <1>6, <1>7 DEF v

\* To give a free register to a variable keeps the claims: it is loaded from its
\* slot unless the instruction is about to write it.
LEMMA OccupyTold ==
  ASSUME NEW c, Sound(c), NEW v \in Variables, c.var[v].state # "register",
         NEW r \in Allocatable \ c.used, NEW how, NEW l, NEW K, NEW X, Told(c, l, K, X),
         v \in X \/ ("read" \in how /\ c.var[v].state = "memory")
  PROVE  LET d == Occupy(c, v, r, how)
         IN  /\ Told(d, l, K, X) /\ Steady(c, d) /\ Still(c, d, {v})
             /\ d.var[v].state = "register" /\ d.var[v].changed = c.var[v].changed
             /\ d.var[v].register = r
<1> DEFINE loads == c.var[v].state = "memory" /\ "read" \in how
           item == [op |-> "load", v |-> v, r |-> r]
           loaded == IF loads THEN Emit(c, "load", v, r) ELSE c
           w == [loaded.var[v] EXCEPT !.state = "register", !.register = r, !.home = r]
           d == [loaded EXCEPT !.var[v] = w, !.gp[r] = v, !.used = @ \cup {r},
                               !.modified = @ \cup {r}]
<1>1. /\ c \in Contexts /\ Matched(c) /\ r \in Registers /\ r \notin c.used
      /\ c.code \in Seq(Items) /\ item \in Items
  BY ContextFields DEF Sound, Allocatable, Items
<1>2. Occupy(c, v, r, how) = d
  BY DEF Occupy
<1>3. loaded \in Contexts /\ Steady(c, loaded) /\ Still(c, loaded, {})
  BY <1>1, EmitKeeps, EmitSteady, SteadyItself
<1>4. /\ loads => loaded.code = Append(c.code, item)
      /\ ~loads => loaded.code = c.code
  BY <1>1, EmitKeeps
<1>5. item.op = "load" /\ item.v = v /\ item.r = r
  OBVIOUS
<1> HIDE DEF loaded, item
<1>6. loaded.var \in [Variables -> VarDatas] /\ loaded.var[v] \in VarDatas
  BY <1>3, ContextFields
<1>7. /\ w.state = "register" /\ w.register = r
      /\ w.changed = loaded.var[v].changed /\ w.work = loaded.var[v].work
      /\ w.ends = loaded.var[v].ends
  BY <1>6 DEF VarDatas
<1> HIDE DEF w
<1>8. d.var = [loaded.var EXCEPT ![v] = w] /\ d.code = loaded.code /\ d.cur = loaded.cur
  BY <1>3 DEF Contexts
<1> HIDE DEF d
<1>9. /\ d.var[v] = w
      /\ \A u \in Variables : u # v => d.var[u] = loaded.var[u]
  BY <1>6, <1>8
<1>10. Still(c, d, {v}) /\ d.var[v].changed = c.var[v].changed
  BY <1>3, <1>7, <1>9 DEF Still
<1>11. Steady(c, d)
  <2>1. Steady(loaded, d)
    BY <1>7, <1>8, <1>9 DEF Steady
  <2> QED
    BY <1>3, <2>1, SteadyStill
<1>12. PICK a : Reaches(c.code, l, a) /\ K \subseteq a.slots /\ Covers(c, a, X)
  BY DEF Told
<1>13. ASSUME NEW u \in Variables, u # v, c.var[u].register # NoRegister
       PROVE  c.var[u].register # r
  <2>1. c.gp[c.var[u].register] = u /\ u # NoVariable
    BY <1>1, <1>13, NoVariableIsNone DEF Matched
  <2> QED
    BY <1>1, <2>1 DEF Matched
<1>14. Told(d, l, K, X)
  <2>1. CASE loads
    <3> DEFINE b == AfterLoad(item, a)
    <3>1. /\ b.regs = {f \in a.regs : f[1] # r} \cup (IF v \in a.slots THEN {<<r, v>>} ELSE {})
          /\ b.slots = a.slots
      BY <1>5 DEF AfterLoad, Claim
    <3>2. Passed(item, a) = b /\ Reading(item, a)
      BY <1>5 DEF Passed, Reading
    <3> HIDE DEF b
    <3>3. d.code = Append(c.code, item) /\ Reaches(d.code, l, b)
      <4>1. Weaker(b, Passed(item, a))
        BY <3>2 DEF Weaker
      <4>2. item.op # "L_Loop" /\ item.op # "jne"
        BY <1>5
      <4>3. Reaches(Append(c.code, item), l, b)
        BY <1>1, <1>12, <3>2, <4>1, <4>2, ReachesMore
      <4> QED
        BY <1>4, <1>8, <2>1, <4>3
    <3>4. v \notin X => v \in a.slots
      BY <1>12, <2>1 DEF Covers
    <3>5. Covers(d, b, X)
      <4> SUFFICES ASSUME NEW u \in Variables \ X
                   PROVE  /\ d.var[u].register # NoRegister => <<d.var[u].register, u>> \in b.regs
                          /\ (d.var[u].state = "memory"
                               \/ (d.var[u].state = "register" /\ ~d.var[u].changed))
                                 => u \in b.slots
        BY DEF Covers
      <4>1. CASE u = v
        BY <1>7, <1>9, <3>1, <3>4, <4>1
      <4>2. CASE u # v
        <5>1. /\ d.var[u].state = c.var[u].state /\ d.var[u].register = c.var[u].register
              /\ d.var[u].changed = c.var[u].changed
          BY <1>10, <4>2 DEF Still
        <5>2. c.var[u].register # NoRegister => <<c.var[u].register, u>> \in a.regs
          BY <1>12 DEF Covers
        <5>3. c.var[u].register # NoRegister => <<c.var[u].register, u>> \in b.regs
          BY <1>13, <3>1, <4>2, <5>2
        <5> QED
          BY <1>12, <3>1, <5>1, <5>3 DEF Covers
      <4> QED
        BY <4>1, <4>2
    <3> QED
      BY <1>12, <3>1, <3>3, <3>5 DEF Told
  <2>2. CASE ~loads
    <3>1. v \in X /\ d.code = c.code
      BY <1>4, <1>8, <2>2
    <3>2. Covers(d, a, X)
      BY <1>10, <1>12, <3>1 DEF Covers, Still
    <3> QED
      BY <1>12, <3>1, <3>2 DEF Told
  <2> QED
    BY <2>1, <2>2
<1> QED
  BY <1>2, <1>7, <1>9, <1>10, <1>11, <1>14

\* No variable but v comes into a register, none becomes unused.
Shifted(c, d, v) ==
  \A w \in Variables :
    /\ c.var[w].state # "unused" => d.var[w].state # "unused"
    /\ w # v /\ d.var[w].state = "register" =>
         c.var[w].state = "register" /\ d.var[w].changed = c.var[w].changed

\* To allocate one of the general registers keeps the claims, whatever is
\* spilled or exchanged for it.
LEMMA AllocGPVarTold ==
  ASSUME NEW c, Sound(c), NEW use \in Uses, NEW l, NEW K, NEW X, X \cap K = {}, Told(c, l, K, X),
         use.v \in X \/ ("read" \in use.how /\ c.var[use.v].state # "unused")
  PROVE  LET d == AllocGPVar(c, use)
         IN  Told(d, l, K, X) /\ Steady(c, d) /\ Shifted(c, d, use.v)
<1> DEFINE v == use.v
           how == use.how
           free == FreeRegister(c, v)
           r == SpillCandidate(c)
           b == SpillGPVar(c, c.gp[r])
           d == AllocGPVar(c, use)
<1>1. c \in Contexts /\ v \in Variables /\ Matched(c)
  BY DEF Sound, Uses
<1>2. CASE c.var[v].state = "register"
  <2>1. d = c
    BY <1>2 DEF AllocGPVar
  <2> QED
    BY <2>1, SteadyItself DEF Shifted
<1>3. c.var[v].state \in {"unused", "register", "memory"}
  BY <1>1, ContextFields, VarDataFields
<1>4. CASE c.var[v].state # "register" /\ free # NoRegister
  <2>1. d = Occupy(c, v, free, how)
    BY <1>4 DEF AllocGPVar
  <2>2. free \in Allocatable \ c.used
    BY <1>1, <1>4, FreeRegisterFree
  <2>3. v \in X \/ ("read" \in how /\ c.var[v].state = "memory")
    BY <1>3, <1>4
  <2> HIDE DEF free, v, how, d
  <2>4. /\ Told(d, l, K, X) /\ Steady(c, d) /\ Still(c, d, {v}) /\ d.var[v].state = "register"
    <3>1. c.var[v].state # "register"
      BY <1>4
    <3>2. LET e == Occupy(c, v, free, how)
          IN  /\ Told(e, l, K, X) /\ Steady(c, e) /\ Still(c, e, {v})
              /\ e.var[v].state = "register"
      BY <1>1, <2>2, <2>3, <3>1, OccupyTold
    <3> QED
      BY <2>1, <3>2
  <2>5. Shifted(c, d, v)
    BY <2>4 DEF Shifted, Still
  <2> QED
    BY <2>4, <2>5 DEF d, v
<1>5. CASE c.var[v].state # "register" /\ free = NoRegister /\ SpillCandidates(c) = {}
  <2>1. d = [c EXCEPT !.error = TRUE]
    BY <1>5 DEF AllocGPVar
  <2>2. d.var = c.var /\ d.code = c.code /\ d.cur = c.cur
    BY <1>1, <2>1 DEF Contexts
  <2> HIDE DEF d
  <2>3. Told(d, l, K, X) /\ Steady(c, d) /\ Shifted(c, d, v)
    BY <2>2 DEF Told, Covers, Steady, Shifted
  <2> QED
    BY <2>3 DEF d, v
<1>6. CASE c.var[v].state # "register" /\ free = NoRegister /\ SpillCandidates(c) # {}
  <2>1. d = Occupy(b, v, r, how)
    BY <1>6 DEF AllocGPVar
  <2>2. r \in Registers /\ c.gp[r] # NoVariable
    BY <1>1, <1>6, SpillCandidateExists
  <2>3. c.gp[r] \in Variables /\ c.gp[r] # v
    <3>1. c.gp[r] \in Variables
      BY <1>1, <2>2, ContextFields
    <3>2. c.var[c.gp[r]].register = r /\ r # NoRegister
      BY <1>1, <2>2 DEF Matched, Registers, NoRegister
    <3> QED
      BY <1>1, <1>6, <3>1, <3>2 DEF Matched
  <2>4. v \in X \/ ("read" \in how /\ c.var[v].state = "memory")
    BY <1>3, <1>6
  <2> HIDE DEF r, v, how, free, d
  <2>5. Spilled(c, r, b)
    BY <2>2, SpillLater
  <2>6. /\ Told(b, l, K, X) /\ Steady(c, b) /\ Still(c, b, {c.gp[r]})
        /\ b.var[c.gp[r]].state = "memory"
    BY <2>2, SpillTold
  <2> HIDE DEF b
  <2>7. b.var[v].state = c.var[v].state
    BY <1>1, <2>3, <2>6 DEF Still
  <2>8. Sound(b) /\ r \in Allocatable \ b.used
    BY <1>1, <2>2, <2>5 DEF Spilled, Later, Sound, Matched, Marked
  <2>9. /\ Told(d, l, K, X) /\ Steady(b, d) /\ Still(b, d, {v}) /\ d.var[v].state = "register"
    <3>1. b.var[v].state # "register"
      BY <1>6, <2>7
    <3>2. v \in X \/ ("read" \in how /\ b.var[v].state = "memory")
      BY <2>4, <2>7
    <3>3. v \in Variables /\ Sound(b) /\ r \in Allocatable \ b.used /\ Told(b, l, K, X)
      BY <1>1, <2>6, <2>8
    <3>4. LET e == Occupy(b, v, r, how)
          IN  /\ Told(e, l, K, X) /\ Steady(b, e) /\ Still(b, e, {v})
              /\ e.var[v].state = "register"
      BY <3>1, <3>2, <3>3, OccupyTold, Z3
    <3> QED
      BY <2>1, <3>4
  <2>10. Steady(c, d)
    BY <2>6, <2>9, SteadyStill
  <2>11. Shifted(c, d, v)
    BY <2>6, <2>9 DEF Shifted, Still
  <2> QED
    BY <2>9, <2>10, <2>11 DEF d, v
<1> QED
  BY <1>2, <1>4, <1>5, <1>6

\* A variable that is written, and is in a register, differs from its slot.
LEMMA AllocVarTold ==
  ASSUME NEW c, Sound(c), NEW use \in Uses, NEW l, NEW K, NEW X, X \cap K = {}, Told(c, l, K, X),
         use.v \in X \/ ("read" \in use.how /\ c.var[use.v].state # "unused")
  PROVE  LET d == AllocVar(c, use)
         IN  /\ Told(d, l, K, X) /\ Steady(c, d) /\ Shifted(c, d, use.v)
             /\ "write" \in use.how => d.var[use.v].changed
<1> DEFINE v == use.v
           b == AllocGPVar(c, use)
           w == [b.var[v] EXCEPT !.changed = TRUE]
           d == AllocVar(c, use)
<1>1. Told(b, l, K, X) /\ Steady(c, b) /\ Shifted(c, b, v)
  BY AllocGPVarTold
<1>2. b \in Contexts /\ v \in Variables
  BY AllocGPVarLater DEF Later, Sound, Uses
<1>3. CASE "write" \notin use.how
  <2>1. d = b
    BY <1>3 DEF AllocVar
  <2> HIDE DEF b, d, v
  <2> QED
    BY <1>1, <1>3, <2>1 DEF v, d
<1>4. CASE "write" \in use.how
  <2>1. d = [b EXCEPT !.var[v].changed = TRUE]
    BY <1>4 DEF AllocVar
  <2> HIDE DEF b, d, v
  <2>2. b.var \in [Variables -> VarDatas] /\ b.var[v] \in VarDatas
    BY <1>2, ContextFields
  <2>3. /\ w.state = b.var[v].state /\ w.register = b.var[v].register /\ w.changed = TRUE
        /\ w.work = b.var[v].work /\ w.ends = b.var[v].ends
    BY <2>2 DEF VarDatas
  <2>4. d.var = [b.var EXCEPT ![v] = w] /\ d.code = b.code /\ d.cur = b.cur
    BY <1>2, <2>1 DEF Contexts
  <2> HIDE DEF w
  <2>5. d.var[v] = w /\ \A u \in Variables : u # v => d.var[u] = b.var[u]
    BY <1>2, <2>2, <2>4
  <2>6. Told(d, l, K, X)
    <3>1. PICK a : Reaches(b.code, l, a) /\ K \subseteq a.slots /\ Covers(b, a, X)
      BY <1>1 DEF Told
    <3>2. Covers(d, a, X)
      BY <2>3, <2>5, <3>1 DEF Covers
    <3> QED
      BY <2>4, <3>1, <3>2 DEF Told
  <2>7. Steady(c, d)
    <3>1. Steady(b, d)
      BY <2>3, <2>4, <2>5 DEF Steady
    <3> QED
      BY <1>1, <3>1, SteadyStill
  <2>8. Shifted(c, d, v)
    BY <1>1, <2>3, <2>5 DEF Shifted
  <2> QED
    BY <2>3, <2>5, <2>6, <2>7, <2>8 DEF d, v
<1> QED
  BY <1>3, <1>4

\* What the variables of an instruction must be like, and are like behind it.
Askable(c, uses, X) ==
  /\ \A j, k \in DOMAIN uses : uses[j].v = uses[k].v => j = k
  /\ \A k \in DOMAIN uses :
       uses[k].v \in X \/ ("read" \in uses[k].how /\ c.var[uses[k].v].state # "unused")

\* What became of the variables when the operands up to the n-th were allocated.
Asked(c, d, uses, n) ==
  \A w \in Variables :
    /\ c.var[w].state # "unused" => d.var[w].state # "unused"
    /\ d.var[w].state = "register" /\ (\A k \in 1 .. n : uses[k].v # w) =>
         c.var[w].state = "register" /\ d.var[w].changed = c.var[w].changed
    /\ \A k \in 1 .. n :
         uses[k].v = w /\ "write" \in uses[k].how /\ d.var[w].state = "register" =>
           d.var[w].changed

\* To allocate the operands of an instruction keeps the claims.
LEMMA AllocEachTold ==
  ASSUME NEW c, Sound(c), NEW uses \in Seq(Uses), NEW l, NEW K, NEW X, X \cap K = {},
         Told(c, l, K, X), Askable(c, uses, X)
  PROVE  LET d == AllocEach(c, uses)
         IN  Told(d, l, K, X) /\ Steady(c, d) /\ Asked(c, d, uses, Len(uses))
<1>1. PICK q \in [0 .. Len(uses) -> After(c)] :
        /\ q[0] = c
        /\ \A k \in 1 .. Len(uses) : q[k] = AllocVar(q[k - 1], uses[k])
        /\ AllocEach(c, uses) = q[Len(uses)]
  BY AllocSteps
<1> DEFINE n == Len(uses)
           Done(k) == Told(q[k], l, K, X) /\ Steady(c, q[k]) /\ Asked(c, q[k], uses, k)
           S == {k \in 0 .. n : Done(k)}
<1>2. n \in Nat /\ DOMAIN uses = 1 .. n /\ \A k \in 1 .. n : uses[k] \in Uses
  OBVIOUS
<1> HIDE DEF n
<1>3. 0 \in S
  BY <1>1, <1>2, SteadyItself DEF Asked
<1>4. ASSUME NEW k \in 0 .. n - 1, k \in S PROVE k + 1 \in S
  <2> DEFINE b == q[k]
             d == q[k + 1]
             use == uses[k + 1]
  <2>1. k + 1 \in 1 .. n /\ (k + 1) - 1 = k /\ k \in 0 .. n /\ k + 1 \in 0 .. n
    BY <1>2
  <2>2. d = AllocVar(b, use) /\ use \in Uses
    BY <1>1, <1>2, <2>1 DEF n
  <2>3. Told(b, l, K, X) /\ Steady(c, b) /\ Asked(c, b, uses, k) /\ Sound(b)
    BY <1>1, <1>4, <2>1 DEF After, Later, n
  <2> HIDE DEF b, d
  <2>4. use.v \in Variables
    BY <2>2 DEF Uses
  <2>5. use.v \in X \/ ("read" \in use.how /\ b.var[use.v].state # "unused")
    BY <1>2, <2>1, <2>3, <2>4 DEF Askable, Asked
  <2>6. /\ Told(d, l, K, X) /\ Steady(b, d) /\ Shifted(b, d, use.v)
        /\ "write" \in use.how => d.var[use.v].changed
    BY <2>2, <2>3, <2>5, AllocVarTold
  <2>7. \A m \in 1 .. k : uses[m].v # use.v
    BY <1>2, <2>1 DEF Askable
  <2>8. \A m \in 1 .. k + 1 : m \in 1 .. k \/ m = k + 1
    BY <2>1
  <2>9. Asked(c, d, uses, k + 1)
    <3> SUFFICES ASSUME NEW w \in Variables
                 PROVE  /\ c.var[w].state # "unused" => d.var[w].state # "unused"
                        /\ d.var[w].state = "register"
                             /\ (\A m \in 1 .. k + 1 : uses[m].v # w) =>
                             c.var[w].state = "register" /\ d.var[w].changed = c.var[w].changed
                        /\ \A m \in 1 .. k + 1 :
                             uses[m].v = w /\ "write" \in uses[m].how
                               /\ d.var[w].state = "register" => d.var[w].changed
      BY DEF Asked
    <3>1. c.var[w].state # "unused" => d.var[w].state # "unused"
      BY <2>3, <2>6 DEF Asked, Shifted
    <3>2. ASSUME d.var[w].state = "register", \A m \in 1 .. k + 1 : uses[m].v # w
          PROVE  c.var[w].state = "register" /\ d.var[w].changed = c.var[w].changed
      <4>1. w # use.v /\ \A m \in 1 .. k : uses[m].v # w
        BY <2>1, <3>2
      <4>2. b.var[w].state = "register" /\ d.var[w].changed = b.var[w].changed
        BY <2>6, <3>2, <4>1 DEF Shifted
      <4> QED
        BY <2>3, <4>1, <4>2 DEF Asked
    <3>3. ASSUME NEW m \in 1 .. k + 1, uses[m].v = w, "write" \in uses[m].how,
                 d.var[w].state = "register"
          PROVE  d.var[w].changed
      <4>1. CASE m = k + 1
        BY <2>6, <3>3, <4>1
      <4>2. CASE m \in 1 .. k
        <5>1. w # use.v
          BY <2>7, <3>3, <4>2
        <5>2. b.var[w].state = "register" /\ d.var[w].changed = b.var[w].changed
          BY <2>6, <3>3, <5>1 DEF Shifted
        <5> QED
          BY <2>3, <3>3, <4>2, <5>2 DEF Asked
      <4> QED
        BY <2>8, <4>1, <4>2
    <3> QED
      BY <3>1, <3>2, <3>3
  <2>10. Steady(c, d)
    BY <2>3, <2>6, SteadyStill
  <2> QED
    BY <2>1, <2>6, <2>9, <2>10 DEF d
<1>5. \A k \in 0 .. n : k \in S
  <2> HIDE DEF S
  <2> QED
    BY <1>2, <1>3, <1>4, UpTo
<1>6. n \in 0 .. n
  BY <1>2
<1> QED
  BY <1>1, <1>5, <1>6 DEF n

\* The variables an instruction writes, of which there is at most one.
WrittenBy(uses) == {uses[k].v : k \in {m \in DOMAIN uses : "write" \in uses[m].how}}

\* An instruction reads what is claimed, and what it writes is claimed behind it.
LEMMA AppendTold ==
  ASSUME NEW c, Sound(c), NEW op \in Ops \ {"L_Loop", "jne"}, NEW uses \in Seq(Uses),
         NEW l, NEW K, NEW X, Told(c, l, K, X),
         X \subseteq WrittenBy(uses), WrittenBy(uses) \cap K = {},
         \A j, k \in DOMAIN uses :
           "write" \in uses[j].how /\ "write" \in uses[k].how => j = k,
         \A k \in DOMAIN uses :
           /\ "read" \in uses[k].how => uses[k].v \notin X
           /\ "write" \in uses[k].how /\ c.var[uses[k].v].state = "register" =>
                c.var[uses[k].v].changed
  PROVE  LET d == AppendCode(c, op, uses)
         IN  \/ Refused(d.code)
             \/ /\ Told(d, l, K, {})
                /\ \A k \in DOMAIN uses : c.var[uses[k].v].state = "register"
<1> DEFINE item == [op |-> op, uses |-> uses,
                    regs |-> [k \in DOMAIN uses |-> c.var[uses[k].v].register]]
           d == AppendCode(c, op, uses)
<1>1. c \in Contexts /\ Matched(c) /\ c.code \in Seq(Items)
  BY ContextFields DEF Sound
<1>2. d.var = c.var /\ d.code = Append(c.code, item)
  BY <1>1 DEF AppendCode, Contexts
<1>3. /\ item.op = op /\ item.uses = uses /\ DOMAIN item.regs = DOMAIN uses
      /\ \A k \in DOMAIN uses : item.regs[k] = c.var[uses[k].v].register
  OBVIOUS
<1>4. op \notin {"save", "load"} /\ op # "L_Loop" /\ op # "jne"
  BY DEF Ops
<1>5. \A k \in DOMAIN uses : uses[k].v \in Variables
  <2>1. \A k \in DOMAIN uses : uses[k] \in Uses
    OBVIOUS
  <2> QED
    BY <2>1 DEF Uses
<1>6. item \in Items
  <2>1. /\ item \in [op : Ops, uses : Seq(Uses), regs : Seq(Registers \cup {NoRegister})]
    <3>1. \A k \in DOMAIN uses : c.var[uses[k].v].register \in Registers \cup {NoRegister}
      BY <1>1, <1>5, ContextFields, VarDataFields
    <3> QED
      BY <3>1
  <2> QED
    BY <1>3, <2>1 DEF Items
<1> HIDE DEF item, d
<1>7. CASE Unplaced(item)
  <2>1. Len(c.code) + 1 \in DOMAIN d.code /\ d.code[Len(c.code) + 1] = item
    BY <1>1, <1>2
  <2> QED
    BY <1>7, <2>1 DEF Refused, d
<1>8. CASE ~Unplaced(item)
  <2>1. \A k \in DOMAIN uses : c.var[uses[k].v].register # NoRegister
    BY <1>3, <1>4, <1>8 DEF Unplaced
  <2>2. \A k \in DOMAIN uses : c.var[uses[k].v].state = "register"
    BY <1>1, <1>5, <2>1 DEF Matched
  <2>3. PICK a : Reaches(c.code, l, a) /\ K \subseteq a.slots /\ Covers(c, a, X)
    BY DEF Told
  <2> DEFINE W == WrittenBy(uses)
             written == {item.uses[k].v : k \in Written(item)}
             taken == {item.regs[k] : k \in Written(item)}
             b == AfterExecute(item, a)
  <2>4. Written(item) = {k \in DOMAIN uses : "write" \in uses[k].how}
    BY <1>3 DEF Written
  <2>5. written = W
    BY <1>3, <2>4 DEF WrittenBy
  <2>6. \A k \in Written(item) : Sole(item, k)
    BY <1>3, <2>4 DEF Sole
  <2>7. /\ b.regs = {f \in a.regs : f[1] \notin taken /\ f[2] \notin W}
                      \cup {<<item.regs[k], item.uses[k].v>> : k \in {m \in Written(item) : Sole(item, m)}}
        /\ b.slots = a.slots \ W
    BY <2>5 DEF AfterExecute, Claim
  <2>8. Passed(item, a) = b
    BY <1>3, <1>4 DEF Passed
  <2>9. Reading(item, a)
    <3>1. ASSUME NEW k \in DOMAIN uses, "read" \in uses[k].how
          PROVE  <<item.regs[k], uses[k].v>> \in a.regs
      BY <1>3, <1>5, <2>1, <2>3, <3>1 DEF Covers
    <3> QED
      BY <1>3, <3>1 DEF Reading
  <2> HIDE DEF b, written, W, taken
  <2>10. Reaches(d.code, l, b)
    <3>1. Weaker(b, Passed(item, a))
      BY <2>8 DEF Weaker
    <3>2. item.op # "L_Loop" /\ item.op # "jne"
      BY <1>3, <1>4
    <3> QED
      BY <1>1, <1>2, <1>6, <2>3, <2>9, <3>1, <3>2, ReachesMore
  <2>11. K \subseteq b.slots
    BY <2>3, <2>7 DEF W
  <2>12. Covers(d, b, {})
    <3> SUFFICES ASSUME NEW u \in Variables
                 PROVE  /\ c.var[u].register # NoRegister => <<c.var[u].register, u>> \in b.regs
                        /\ (c.var[u].state = "memory"
                             \/ (c.var[u].state = "register" /\ ~c.var[u].changed))
                               => u \in b.slots
      BY <1>2 DEF Covers
    <3>1. CASE u \in W
      <4>1. PICK k \in Written(item) : u = uses[k].v /\ k \in DOMAIN uses /\ "write" \in uses[k].how
        BY <2>4, <3>1 DEF W, WrittenBy
      <4>2. item.regs[k] = c.var[u].register /\ item.uses[k].v = u
        BY <1>3, <4>1
      <4>3. <<c.var[u].register, u>> \in b.regs
        BY <2>6, <2>7, <4>1, <4>2
      <4>4. c.var[u].state = "register" /\ c.var[u].changed
        BY <2>2, <4>1
      <4> QED
        BY <4>3, <4>4
    <3>2. CASE u \notin W
      <4>1. u \notin X
        BY <3>2 DEF W
      <4>2. ASSUME c.var[u].register # NoRegister
            PROVE  c.var[u].register \notin taken
        <5>1. SUFFICES ASSUME NEW k \in Written(item), c.var[u].register = item.regs[k]
                       PROVE  FALSE
          BY DEF taken
        <5>2. k \in DOMAIN uses /\ item.regs[k] = c.var[uses[k].v].register /\ uses[k].v \in W
          BY <1>3, <2>4 DEF W, WrittenBy
        <5>3. c.gp[c.var[u].register] = u /\ c.gp[c.var[uses[k].v].register] = uses[k].v
          BY <1>1, <1>5, <2>1, <4>2, <5>2 DEF Matched
        <5> QED
          BY <3>2, <5>1, <5>2, <5>3
      <4>3. ASSUME c.var[u].register # NoRegister
            PROVE  <<c.var[u].register, u>> \in b.regs
        <5>1. <<c.var[u].register, u>> \in a.regs
          BY <2>3, <4>1, <4>3 DEF Covers
        <5> QED
          BY <2>7, <3>2, <4>2, <4>3, <5>1
      <4>4. (c.var[u].state = "memory" \/ (c.var[u].state = "register" /\ ~c.var[u].changed))
              => u \in a.slots
        BY <2>3, <4>1 DEF Covers
      <4> QED
        BY <2>7, <3>2, <4>3, <4>4
    <3> QED
      BY <3>1, <3>2
  <2> QED
    BY <2>2, <2>10, <2>11, <2>12 DEF Told, d
<1> QED
  BY <1>7, <1>8

\* A scope that ends takes nothing that is claimed.
LEMMA EndTold ==
  ASSUME NEW c \in Contexts, NEW S \in SUBSET Variables, NEW i,
         NEW l, NEW K, Told(c, l, K, {})
  PROVE  LET d == EndScopes(c, S, i)
         IN  /\ Told(d, l, K, {}) /\ Steady(c, d) /\ d.code = c.code
             /\ \A v \in Variables :
                  \/ v \in S /\ c.var[v].ends = i /\ d.var[v].state = "unused"
                  \/ d.var[v].state = c.var[v].state /\ d.var[v].changed = c.var[v].changed
<1> DEFINE gone == {v \in S : c.var[v].ends = i}
           d == Forget(c, gone, "unused")
<1>1. gone \in SUBSET Variables /\ "unused" \in {"unused", "memory"}
  OBVIOUS
<1>2. EndScopes(c, S, i) = d
  BY DEF EndScopes, UnuseVars
<1>3. \A v \in Variables : v \in gone <=> v \in S /\ c.var[v].ends = i
  OBVIOUS
<1> HIDE DEF gone
<1>4. d.code = c.code
  BY <1>1, ForgetFields
<1>5. /\ Steady(c, d) /\ Still(c, d, gone)
      /\ \A v \in gone : d.var[v].state = "unused" /\ d.var[v].register = NoRegister
  BY <1>1, ForgetSteady
<1> HIDE DEF d
<1>6. Told(d, l, K, {})
  <2>1. PICK a : Reaches(c.code, l, a) /\ K \subseteq a.slots /\ Covers(c, a, {})
    BY DEF Told
  <2>2. Covers(d, a, {})
    BY <1>5, <2>1 DEF Covers, Still
  <2> QED
    BY <1>4, <2>1, <2>2 DEF Told
<1>7. \A v \in Variables :
        \/ v \in S /\ c.var[v].ends = i /\ d.var[v].state = "unused"
        \/ d.var[v].state = c.var[v].state /\ d.var[v].changed = c.var[v].changed
  BY <1>3, <1>5 DEF Still
<1> QED
  BY <1>2, <1>4, <1>5, <1>6, <1>7

-----------------------------------------------------------------------------
(* Back to the label.                                                      *)

\* What is kept while registers are freed and loaded.
Coming(c, t, l, K) == Told(c, l, K, {}) /\ Alive(c, Found(t))

\* To leave a register for the state of the label keeps the claims.
LEMMA LeaveTold ==
  ASSUME NEW c, Sound(c), NEW t, NEW r \in Registers, NEW l, NEW K, Coming(c, t, l, K)
  PROVE  Coming(LeaveRegister(c, t, r), t, l, K)
<1> DEFINE v == c.gp[r]
           d == LeaveRegister(c, t, r)
<1>1. c \in Contexts /\ c.gp \in [Registers -> Variables \cup {NoVariable}]
  BY ContextFields DEF Sound
<1>2. CASE v \in {NoVariable, t.gp[r]}
  BY <1>2 DEF LeaveRegister
<1>3. CASE v \notin {NoVariable, t.gp[r]} /\ StateAtTarget(t, v) = "unused"
  <2> DEFINE gone == {v}
  <2>1. d = Forget(c, gone, "unused")
    BY <1>3 DEF LeaveRegister, UnuseVars
  <2>2. v \in Variables
    BY <1>1, <1>3
  <2>3. gone \in SUBSET Variables /\ "unused" \in {"unused", "memory"}
    BY <2>2
  <2>4. gone \cap Found(t) = {}
    BY <1>3 DEF Found
  <2> HIDE DEF gone, v, d
  <2>5. d.code = c.code
    BY <1>1, <2>1, <2>3, ForgetFields
  <2>6. Still(c, d, gone) /\ \A u \in gone : d.var[u].state = "unused" /\ d.var[u].register = NoRegister
    BY <1>1, <2>1, <2>3, ForgetSteady
  <2>7. PICK a : Reaches(c.code, l, a) /\ K \subseteq a.slots /\ Covers(c, a, {})
    BY DEF Coming, Told
  <2>8. Covers(d, a, {})
    BY <2>6, <2>7 DEF Covers, Still
  <2>9. Alive(d, Found(t))
    BY <2>4, <2>6 DEF Coming, Alive, Still, Found
  <2> QED
    BY <2>5, <2>7, <2>8, <2>9 DEF Coming, Told, d
<1>4. CASE v \notin {NoVariable, t.gp[r]} /\ StateAtTarget(t, v) # "unused"
  <2>1. d = SpillGPVar(c, v) /\ v # NoVariable
    BY <1>4 DEF LeaveRegister
  <2>2. Told(c, l, K, {}) /\ {} \cap K = {}
    BY DEF Coming
  <2>3. /\ Told(SpillGPVar(c, v), l, K, {}) /\ Still(c, SpillGPVar(c, v), {v})
        /\ SpillGPVar(c, v).var[v].state = "memory"
    BY <2>1, <2>2, SpillTold
  <2> HIDE DEF v, d
  <2>4. Alive(d, Found(t))
    BY <2>1, <2>3 DEF Coming, Alive, Still, Found
  <2> QED
    BY <2>1, <2>3, <2>4 DEF Coming, d
<1> QED
  BY <1>2, <1>3, <1>4

\* To enter a register as the state of the label has it keeps the claims.
LEMMA EnterTold ==
  ASSUME NEW c, Sound(c), NEW t, TargetSound(t), NEW r \in Registers, AllLeft(c, t),
         NEW l, NEW K, Coming(c, t, l, K)
  PROVE  Coming(EnterRegister(c, t, r), t, l, K)
<1> DEFINE v == t.gp[r]
           d == EnterRegister(c, t, r)
<1>1. c \in Contexts /\ c.gp \in [Registers -> Variables \cup {NoVariable}] /\ Matched(c)
  BY ContextFields DEF Sound
<1>2. CASE v \in {NoVariable, c.gp[r]}
  BY <1>2 DEF EnterRegister
<1>3. CASE v \notin {NoVariable, c.gp[r]}
  <2>1. d = Occupy(c, v, r, {"read"})
    BY <1>3 DEF EnterRegister
  <2>2. v \in Variables /\ r \in Allocatable
    BY <1>3 DEF TargetSound
  <2>3. c.gp[r] = NoVariable /\ r \notin c.used
    BY <1>1, <1>3 DEF Left, AllLeft, Matched
  <2>4. c.var[v].state # "register"
    <3> SUFFICES ASSUME c.var[v].state = "register" PROVE FALSE
      OBVIOUS
    <3> DEFINE q == c.var[v].register
    <3>1. q # NoRegister /\ c.gp[q] = v
      BY <1>1, <2>2 DEF Matched
    <3>2. q \in Registers
      BY <1>1, <2>2, <3>1, ContextFields, VarDataFields
    <3>3. t.gp[q] = v
      BY <1>3, <3>1, <3>2 DEF Left, AllLeft
    <3>4. q = r
      BY <1>3, <3>2, <3>3 DEF TargetSound
    <3> QED
      BY <1>3, <3>1, <3>4
  <2>5. StateAtTarget(t, v) = "register" /\ v \in Found(t)
    <3>1. v \notin t.memory
      BY DEF TargetSound
    <3>2. StateAtTarget(t, v) = "register"
      BY <3>1 DEF StateAtTarget
    <3> QED
      BY <2>2, <3>2 DEF Found
  <2>6. c.var[v].state = "memory"
    <3>1. c.var[v].state \in {"unused", "register", "memory"}
      BY <1>1, <2>2, ContextFields, VarDataFields
    <3> QED
      BY <2>4, <2>5, <3>1 DEF Coming, Alive
  <2> DEFINE how == {"read"}
  <2>7. "read" \in how
    OBVIOUS
  <2> HIDE DEF v, d, how
  <2>8. LET e == Occupy(c, v, r, how)
        IN  Told(e, l, K, {}) /\ Still(c, e, {v}) /\ e.var[v].state = "register"
    BY <2>2, <2>3, <2>4, <2>6, <2>7, OccupyTold DEF Coming
  <2>9. Told(d, l, K, {}) /\ Still(c, d, {v}) /\ d.var[v].state = "register"
    BY <2>1, <2>8 DEF how
  <2>10. Alive(d, Found(t))
    BY <2>9 DEF Coming, Alive, Still, Found
  <2> QED
    BY <2>9, <2>10 DEF Coming, d
<1> QED
  BY <1>2, <1>3

\* ... and so for all registers that are to be left ...
LEMMA LeaveAllTold ==
  ASSUME NEW c, Sound(c), NEW t, NEW l, NEW K, Coming(c, t, l, K)
  PROVE  Coming(LeaveEach(c, t), t, l, K)
<1>1. PICK q \in [0 .. 16 -> After(c)] :
        /\ q[0] = c
        /\ \A k \in 0 .. 15 : q[k + 1] = LeaveRegister(q[k], t, k)
        /\ LeaveEach(c, t) = q[16]
  BY LeaveSteps
<1> DEFINE S == {k \in 0 .. 16 : Coming(q[k], t, l, K)}
<1>2. 0 \in S
  BY <1>1
<1>3. ASSUME NEW k \in 0 .. 15, k \in S PROVE k + 1 \in S
  <2>1. k + 1 \in 0 .. 16 /\ k \in 0 .. 16 /\ k \in Registers
    BY DEF Registers
  <2>2. q[k + 1] = LeaveRegister(q[k], t, k) /\ Sound(q[k])
    BY <1>1, <2>1 DEF After, Later
  <2> QED
    BY <1>3, <2>1, <2>2, LeaveTold
<1> HIDE DEF S
<1>4. 16 \in S
  <2>1. 16 \in Nat /\ 16 \in 0 .. 16 /\ \A k \in 0 .. 16 - 1 : k \in S => k + 1 \in S
    BY <1>3
  <2> QED
    BY <1>2, <2>1, UpTo
<1> QED
  BY <1>1, <1>4 DEF S

\* ... and for all that are to be entered.
LEMMA EnterAllTold ==
  ASSUME NEW c, Sound(c), NEW t, TargetSound(t), AllLeft(c, t), NEW l, NEW K,
         Coming(c, t, l, K)
  PROVE  Coming(EnterEach(c, t), t, l, K)
<1>1. PICK q \in [0 .. 16 -> {d \in After(c) : AllLeft(d, t)}] :
        /\ q[0] = c
        /\ \A k \in 0 .. 15 : q[k + 1] = EnterRegister(q[k], t, k)
        /\ EnterEach(c, t) = q[16]
  BY EnterSteps
<1> DEFINE S == {k \in 0 .. 16 : Coming(q[k], t, l, K)}
<1>2. 0 \in S
  BY <1>1
<1>3. ASSUME NEW k \in 0 .. 15, k \in S PROVE k + 1 \in S
  <2>1. k + 1 \in 0 .. 16 /\ k \in 0 .. 16 /\ k \in Registers
    BY DEF Registers
  <2>2. q[k + 1] = EnterRegister(q[k], t, k) /\ Sound(q[k]) /\ AllLeft(q[k], t)
    BY <1>1, <2>1 DEF After, Later
  <2> QED
    BY <1>3, <2>1, <2>2, EnterTold
<1> HIDE DEF S
<1>4. 16 \in S
  <2>1. 16 \in Nat /\ 16 \in 0 .. 16 /\ \A k \in 0 .. 16 - 1 : k \in S => k + 1 \in S
    BY <1>3
  <2> QED
    BY <1>2, <2>1, UpTo
<1> QED
  BY <1>1, <1>4 DEF S

\* In front of the jump everything is as the label claims it.
LEMMA RestoreTold ==
  ASSUME NEW c, Sound(c), NEW t, TargetSound(t), NEW l, Labelled(l, t),
         Coming(c, t, l, l.slots \ Positions)
  PROVE  \E a : Reaches(RestoreState(c, t).code, l, a) /\ Weaker(l, a)
<1> DEFINE left == LeaveEach(c, t)
           moved == EnterEach(left, t)
           K == l.slots \ Positions
           Settle(v) ==
             IF v \in Active(c) /\ StateAtTarget(t, v) # "register"
             THEN [moved.var[v] EXCEPT !.state = StateAtTarget(t, v), !.changed = FALSE]
             ELSE moved.var[v]
           var == [v \in DOMAIN c.var |-> Settle(v)]
           d == [moved EXCEPT !.used = t.used, !.var = var]
<1>1. RestoreState(c, t) = d
  BY DEF RestoreState, LeaveEach, EnterEach
<1>2. Later(c, left) /\ AllLeft(left, t) /\ Coming(left, t, l, K)
  BY LeaveAll, LeaveAllTold
<1>3. Sound(left)
  BY <1>2 DEF Later
<1> HIDE DEF left
<1>4. Later(left, moved) /\ moved.gp = t.gp /\ Coming(moved, t, l, K)
  BY <1>2, <1>3, EnterAll, EnterAllTold
<1>5. moved \in Contexts /\ Matched(moved)
  BY <1>4 DEF Later, Sound
<1> HIDE DEF moved, var
<1>6. d.code = moved.code
  BY <1>5 DEF Contexts
<1> HIDE DEF d
<1>7. PICK a : Reaches(moved.code, l, a) /\ K \subseteq a.slots /\ Covers(moved, a, {})
  BY <1>4 DEF Coming, Told
<1>8. l.regs \subseteq a.regs
  <2> SUFFICES ASSUME NEW r \in t.used PROVE <<r, t.gp[r]>> \in a.regs
    BY DEF Labelled
  <2>1. r \in Registers /\ t.gp[r] # NoVariable /\ t.gp[r] \in Variables
    BY DEF TargetSound
  <2>2. moved.var[t.gp[r]].register = r /\ r # NoRegister
    BY <1>4, <1>5, <2>1 DEF Matched, Registers, NoRegister
  <2> QED
    BY <1>7, <2>1, <2>2 DEF Covers
<1>9. t.memory \subseteq a.slots
  <2> SUFFICES ASSUME NEW v \in t.memory PROVE v \in a.slots
    OBVIOUS
  <2>1. v \in Variables /\ \A r \in Registers : t.gp[r] # v
    BY DEF TargetSound
  <2>2. StateAtTarget(t, v) = "memory" /\ v \in Found(t)
    BY <2>1 DEF StateAtTarget, Found
  <2>3. moved.var[v].state # "register"
    BY <1>4, <1>5, <2>1, <2>2, SettleKeeps
  <2>4. moved.var[v].state = "memory"
    <3>1. moved.var[v].state \in {"unused", "register", "memory"}
      BY <1>5, <2>1, ContextFields, VarDataFields
    <3> QED
      BY <1>4, <2>2, <2>3, <3>1 DEF Coming, Alive
  <2> QED
    BY <1>7, <2>1, <2>4 DEF Covers
<1>10. l.slots \subseteq a.slots
  BY <1>7, <1>9 DEF Labelled
<1> QED
  BY <1>1, <1>6, <1>7, <1>8, <1>10 DEF Weaker

-----------------------------------------------------------------------------
(* Translating.                                                            *)

\* Scopes depend on nothing that translating changes.
LEMMA ScopesStayKept ==
  ASSUME NEW c, NEW d, ScopesKept(c), c.cur \in Nat, Steady(c, d)
  PROVE  ScopesKept(d)
<1> SUFFICES ASSUME NEW v \in Variables
             PROVE  /\ d.var[v].work # -1
                    /\ d.var[v].ends # 0 =>
                         /\ d.var[v].ends \notin LoopPlace .. JumpPlace - 1
                         /\ \A q \in 1 .. JumpPlace - 1 : v \in UsedAt(q) => q <= d.var[v].ends
  BY DEF ScopesKept
<1>1. d.var[v].work # -1 /\ d.var[v].ends \in {c.var[v].ends, 0}
  BY DEF Steady, ScopesKept
<1> QED
  BY <1>1 DEF ScopesKept

\* To begin an emittable changes the place only.
LEMMA AtFields ==
  ASSUME Sound(cc), NEW i \in Nat \ {0}
  PROVE  /\ Sound(At(i)) /\ At(i).var = cc.var /\ At(i).code = cc.code
         /\ At(i).cur \in Nat
<1>1. At(i).var = cc.var /\ At(i).code = cc.code /\ At(i).cur = i - 1
  BY DEF At, Sound, Contexts
<1>2. Sound(At(i))
  BY AtLater DEF Later
<1> QED
  BY <1>1, <1>2

\* To mark the variables that are in work leaves every variable where it is.
LEMMA MarkSteady ==
  ASSUME NEW c \in Contexts, NEW uses \in Seq(Uses), uses # <<>>
  PROVE  LET d == MarkAtWork(c, uses) IN Steady(c, d) /\ Still(c, d, {})
<1> DEFINE v == uses[1].v
           w == [c.var[v] EXCEPT !.work = c.cur]
           d == [c EXCEPT !.var[v] = w]
<1>1. v \in Variables
  <2>1. uses[1] \in Uses
    OBVIOUS
  <2> QED
    BY <2>1 DEF Uses
<1>2. c.var \in [Variables -> VarDatas] /\ c.var[v] \in VarDatas
  BY <1>1, ContextFields
<1>3. /\ w.state = c.var[v].state /\ w.register = c.var[v].register
      /\ w.changed = c.var[v].changed /\ w.ends = c.var[v].ends /\ w.work = c.cur
  BY <1>2 DEF VarDatas
<1>4. MarkAtWork(c, uses) = d
  BY DEF MarkAtWork
<1> HIDE DEF v, w
<1>5. d.var = [c.var EXCEPT ![v] = w] /\ d.cur = c.cur
  BY DEF Contexts
<1> HIDE DEF d
<1>6. d.var[v] = w /\ \A u \in Variables : u # v => d.var[u] = c.var[u]
  BY <1>1, <1>2, <1>5
<1> QED
  BY <1>3, <1>4, <1>5, <1>6 DEF Steady, Still

\* What an instruction may ask of its variables.
Sensible(uses, K, X) ==
  /\ X = {uses[k].v : k \in {m \in DOMAIN uses : "read" \notin uses[m].how}}
  /\ WrittenBy(uses) \cap K = {}
  /\ \A j, k \in DOMAIN uses :
       /\ uses[j].v = uses[k].v => j = k
       /\ "write" \in uses[j].how /\ "write" \in uses[k].how => j = k
  /\ \A k \in DOMAIN uses : "read" \in uses[k].how \/ "write" \in uses[k].how

\* The variables behind the instruction at place i.
Carried(c, d, i, uses) ==
  \A v \in Variables :
    /\ c.var[v].state # "unused" \/ v \in UsedAt(i) =>
         d.var[v].state # "unused" \/ c.var[v].ends = i
    /\ d.var[v].state = "register" /\ (v \in UsedAt(i) => v \in WrittenBy(uses)) =>
         d.var[v].changed \/ (c.var[v].state = "register" /\ ~c.var[v].changed)

\* An instruction whose operands are sensible keeps the claims, or is refused.
LEMMA InstructionTold ==
  ASSUME input \in Inputs, Sound(cc), ScopesKept(cc), NEW i \in DOMAIN Program,
         Program[i].op \notin {"L_Loop", "jne"}, Program[i].uses # <<>>,
         NEW l, NEW K, NEW X, Told(cc, l, K, {}), Sensible(Program[i].uses, K, X),
         \A k \in DOMAIN Program[i].uses :
           "read" \in Program[i].uses[k].how => cc.var[Program[i].uses[k].v].state # "unused"
  PROVE  LET d == TranslateInstruction(i)
         IN  /\ ScopesKept(d)
             /\ \/ Refused(d.code)
                \/ Told(d, l, K, {}) /\ Carried(cc, d, i, Program[i].uses)
<1> DEFINE uses == Program[i].uses
           op == Program[i].op
           S == {uses[k].v : k \in DOMAIN uses}
           a == At(i)
           b == MarkAtWork(a, uses)
           ready == AllocEach(b, uses)
           e == AppendCode(ready, op, uses)
           d == EndScopes(e, S, i)
<1>1. uses \in Seq(Uses) /\ op \in Ops /\ i \in Nat \ {0} /\ op \in Ops \ {"L_Loop", "jne"}
  BY PlaceFields
<1>2. TranslateInstruction(i) = d
  BY DEF TranslateInstruction, AllocEach
<1>3. S = UsedAt(i) /\ S \subseteq Variables
  BY UsedVariables DEF UsedAt
<1>4. \A k \in DOMAIN uses : uses[k].v \in S /\ uses[k].v \in Variables
  BY <1>3
<1>5. /\ Sensible(uses, K, X) /\ uses # <<>>
      /\ \A k \in DOMAIN uses : "read" \in uses[k].how => cc.var[uses[k].v].state # "unused"
  OBVIOUS
<1>6. X \cap K = {} /\ X \subseteq WrittenBy(uses)
  BY <1>5 DEF Sensible, WrittenBy
<1>7. /\ a \in Contexts /\ Sound(a) /\ a.var = cc.var /\ a.code = cc.code /\ a.cur \in Nat
  BY <1>1, AtFields DEF Sound
<1> HIDE DEF a, uses, op
<1>8. /\ Sound(b) /\ b.code = cc.code
      /\ Steady(a, b) /\ Still(a, b, {})
  BY <1>1, <1>5, <1>7, MarkAtWorkQuiet, QuietLater, MarkSteady DEF Later, Quiet
<1> HIDE DEF b
<1>9. Still(cc, b, {})
  BY <1>7, <1>8 DEF Still
<1>10. Told(b, l, K, X)
  <2>1. PICK g : Reaches(cc.code, l, g) /\ K \subseteq g.slots /\ Covers(cc, g, {})
    BY DEF Told
  <2>2. Covers(b, g, X)
    BY <1>9, <2>1 DEF Covers, Still
  <2> QED
    BY <1>8, <2>1, <2>2 DEF Told
<1>11. Askable(b, uses, X)
  <2>1. \A j, k \in DOMAIN uses : uses[j].v = uses[k].v => j = k
    BY <1>5 DEF Sensible
  <2>2. ASSUME NEW k \in DOMAIN uses, uses[k].v \notin X
        PROVE  "read" \in uses[k].how /\ b.var[uses[k].v].state # "unused"
    <3>1. "read" \in uses[k].how
      BY <1>5, <2>2 DEF Sensible
    <3> QED
      BY <1>4, <1>5, <1>9, <3>1 DEF Still
  <2> QED
    BY <2>1, <2>2 DEF Askable
<1>12. Told(ready, l, K, X) /\ Steady(b, ready) /\ Asked(b, ready, uses, Len(uses)) /\ Sound(ready)
  BY <1>1, <1>6, <1>8, <1>10, <1>11, AllocEachTold, AllocAllLater DEF Later
<1> HIDE DEF ready
<1>13. DOMAIN uses = 1 .. Len(uses)
  BY <1>1
<1>14. ASSUME NEW k \in DOMAIN uses
       PROVE  /\ "read" \in uses[k].how => uses[k].v \notin X
              /\ "write" \in uses[k].how /\ ready.var[uses[k].v].state = "register" =>
                   ready.var[uses[k].v].changed
  <2>1. "read" \in uses[k].how => uses[k].v \notin X
    BY <1>5 DEF Sensible
  <2> QED
    BY <1>4, <1>12, <1>13, <2>1 DEF Asked
<1>15. \/ Refused(e.code)
       \/ Told(e, l, K, {}) /\ \A k \in DOMAIN uses : ready.var[uses[k].v].state = "register"
  <2>1. \A j, k \in DOMAIN uses : "write" \in uses[j].how /\ "write" \in uses[k].how => j = k
    BY <1>5 DEF Sensible
  <2>2. WrittenBy(uses) \cap K = {}
    BY <1>5 DEF Sensible
  <2> QED
    BY <1>1, <1>6, <1>12, <1>14, <2>1, <2>2, AppendTold
<1>16. e.var = ready.var /\ e.cur = ready.cur /\ e \in Contexts
  <2>1. e.var = ready.var /\ e.cur = ready.cur
    BY <1>12 DEF AppendCode, Sound, Contexts
  <2> QED
    BY <1>1, <1>12, <2>1, AppendSound DEF Sound
<1> HIDE DEF e, S
<1>17. d.code = e.code /\ Steady(e, d)
  <2> DEFINE gone == {v \in S : e.var[v].ends = i}
  <2>1. gone \in SUBSET Variables /\ "unused" \in {"unused", "memory"}
    BY <1>3
  <2>2. d = Forget(e, gone, "unused")
    BY DEF EndScopes, UnuseVars
  <2> HIDE DEF gone, d
  <2>3. d.code = e.code
    BY <1>16, <2>1, <2>2, ForgetFields
  <2>4. Steady(e, d)
    BY <1>16, <2>1, <2>2, ForgetSteady
  <2> QED
    BY <2>3, <2>4
<1>18. ScopesKept(d)
  <2>1. Steady(a, ready)
    BY <1>8, <1>12, SteadyStill
  <2>2. Steady(a, e)
    BY <1>16, <2>1 DEF Steady
  <2>3. Steady(a, d)
    BY <1>17, <2>2, SteadyStill
  <2>4. ScopesKept(a)
    BY <1>7 DEF ScopesKept
  <2> HIDE DEF d
  <2> QED
    BY <1>7, <2>3, <2>4, ScopesStayKept
<1>19. \A v \in Variables : ready.var[v].ends \in {cc.var[v].ends, 0}
  <2>1. Steady(a, ready)
    BY <1>8, <1>12, SteadyStill
  <2> QED
    BY <1>7, <2>1 DEF Steady
<1>20. CASE Refused(e.code)
  BY <1>2, <1>17, <1>18, <1>20
<1>21. CASE ~Refused(e.code)
  <2>1. Told(e, l, K, {}) /\ \A k \in DOMAIN uses : ready.var[uses[k].v].state = "register"
    BY <1>15, <1>21
  <2>2. /\ Told(d, l, K, {})
        /\ \A v \in Variables :
             \/ v \in S /\ e.var[v].ends = i /\ d.var[v].state = "unused"
             \/ d.var[v].state = e.var[v].state /\ d.var[v].changed = e.var[v].changed
    <3>1. S \in SUBSET Variables /\ e \in Contexts /\ Told(e, l, K, {})
      BY <1>3, <1>16, <2>1
    <3> HIDE DEF S, e
    <3>2. LET g == EndScopes(e, S, i)
          IN  /\ Told(g, l, K, {}) /\ Steady(e, g) /\ g.code = e.code
              /\ \A v \in Variables :
                   \/ v \in S /\ e.var[v].ends = i /\ g.var[v].state = "unused"
                   \/ g.var[v].state = e.var[v].state /\ g.var[v].changed = e.var[v].changed
      BY <3>1, EndTold
    <3> QED
      BY <3>2
  <2> HIDE DEF d
  <2>3. ASSUME NEW v \in Variables
        PROVE  /\ cc.var[v].state # "unused" \/ v \in UsedAt(i) =>
                    d.var[v].state # "unused" \/ cc.var[v].ends = i
               /\ d.var[v].state = "register" /\ (v \in UsedAt(i) => v \in WrittenBy(uses)) =>
                    d.var[v].changed \/ (cc.var[v].state = "register" /\ ~cc.var[v].changed)
    <3>1. v \in UsedAt(i) <=> \E k \in DOMAIN uses : uses[k].v = v
      BY DEF UsedAt, uses
    <3>2. ASSUME cc.var[v].state # "unused" \/ v \in UsedAt(i) PROVE ready.var[v].state # "unused"
      <4>1. CASE cc.var[v].state # "unused"
        BY <1>9, <1>12, <4>1 DEF Asked, Still
      <4>2. CASE v \in UsedAt(i)
        BY <2>1, <3>1, <4>2
      <4> QED
        BY <3>2, <4>1, <4>2
    <3>3. ASSUME cc.var[v].state # "unused" \/ v \in UsedAt(i), d.var[v].state = "unused"
          PROVE  cc.var[v].ends = i
      <4>1. e.var[v].ends = i
        BY <1>16, <2>2, <3>2, <3>3
      <4> QED
        BY <1>1, <1>16, <1>19, <4>1
    <3>4. ASSUME d.var[v].state = "register", v \in UsedAt(i) => v \in WrittenBy(uses),
                 ~d.var[v].changed
          PROVE  cc.var[v].state = "register" /\ ~cc.var[v].changed
      <4>1. ready.var[v].state = "register" /\ ~ready.var[v].changed
        BY <1>16, <2>2, <3>4
      <4>2. v \notin WrittenBy(uses)
        BY <1>12, <1>13, <4>1 DEF Asked, WrittenBy
      <4>3. \A k \in 1 .. Len(uses) : uses[k].v # v
        BY <1>13, <3>1, <3>4, <4>2
      <4>4. b.var[v].state = "register" /\ ready.var[v].changed = b.var[v].changed
        BY <1>12, <4>1, <4>3 DEF Asked
      <4> QED
        BY <1>9, <4>1, <4>4 DEF Still
    <3> QED
      BY <3>3, <3>4
  <2> QED
    BY <1>2, <1>18, <2>2, <2>3 DEF Carried, uses, d
<1> QED
  BY <1>20, <1>21

-----------------------------------------------------------------------------
(* What the program asks of its variables.                                 *)

\* The three kinds of instructions that use variables.
Fills(i, u, v) ==
  /\ Program[i].uses = <<Writes(u), Reads(v)>>
  /\ u # v /\ v \in Needed(i) /\ u \in Variables /\ v \notin Positions

\* An instruction with the one operand v ...
Visits(i, v, how) ==
  /\ Program[i].uses = <<[v |-> v, how |-> how]>>
  /\ "read" \in how /\ v \in Needed(i) /\ v \in Positions

\* ... and one that reads two.
Compares(i, u, v) ==
  /\ Program[i].uses = <<Reads(u), Reads(v)>>
  /\ u # v /\ u \in Needed(i) /\ v \in Needed(i)

\* What is needed at a place, spelled out.
LEMMA NeededIs ==
  ASSUME NEW i \in Nat, i < JumpPlace, JumpPlace \in Nat, NEW v \in Variables, v \in UsedAt(i),
         v = Chain \/ \E q \in 1 .. i - 1 : v \in UsedAt(q)
  PROVE  v \in Needed(i)
<1>1. i \in i .. JumpPlace - 1
  OBVIOUS
<1> QED
  BY <1>1 DEF Needed

\* What each place of the program asks of the variables.
LEMMA Instructions ==
  ASSUME input \in Inputs, NEW i \in DOMAIN Program, Program[i].uses # <<>>
  PROVE  /\ i \in 4 .. JumpPlace - 1 /\ i # LoopPlace
         /\ i < LoopPlace => \E u, v : Fills(i, u, v)
         /\ i > LoopPlace => \/ \E v, how : Visits(i, v, how)
                             \/ \E u, v : Compares(i, u, v)
<1> DEFINE n == input.chains_per_thread
           w == Len(FollowAll)
           l == input.loop_length
<1>1. /\ n \in Nat \ {0} /\ l \in Nat /\ w \in Nat /\ Usage(n, w, l) /\ Places(n, w, l)
      /\ Sections(n, w, l) /\ Holds(n, w, l)
  BY ProgramUsage, ProgramPlaces, ProgramSections, ProgramHolds
<1>2. /\ \A j \in 1 .. n : HeadAt(j) \in Variables /\ Position(j) \in Variables /\ Position(j) \in Positions
      /\ Chain \in Variables
      /\ \A x \in Following : \E j \in 1 .. n : x = Chase(j) \/ x = Prefetch(j)
      /\ \A j : HeadAt(j) \notin Positions /\ Chain \notin Positions
  BY VariablesDiffer DEF Variables, Positions, Following
<1>3. \A k \in DOMAIN Program : Program[k].op \notin UsingOps => Program[k].uses = <<>>
  BY PlaceFields
<1> HIDE DEF n, w, l
<1>4. /\ LoopPlace = 2 * n + 4 /\ JumpPlace = 2 * n + w + l + 6 /\ JumpPlace \in Nat
      /\ DOMAIN Program = 1 .. 2 * n + w + l + 8 /\ i \in Nat
  BY <1>1 DEF Usage, Places
<1>5. i \in 4 .. JumpPlace - 1
  BY <1>1, <1>4 DEF Usage
<1>6. i # LoopPlace
  <2>1. i = LoopPlace => Program[i].op = "L_Loop"
    BY <1>1, <1>4 DEF Places
  <2> QED
    BY <1>3, <2>1 DEF UsingOps
<1>7. 1 \in 1 .. n /\ HeadAt(1) \in UsedAt(4)
  <2>1. 1 \in 1 .. n /\ 3 + 1 = 4
    BY <1>1
  <2>2. UsedAt(3 + 1) = {HeadAt(1), Chain}
    BY <1>1, <2>1 DEF Usage
  <2> QED
    BY <2>1, <2>2
<1>8. ASSUME i < LoopPlace PROVE \E u, v : Fills(i, u, v)
  <2>1. CASE i \in 4 .. n + 3
    <3>1. i - 3 \in 1 .. n /\ i = 3 + (i - 3)
      BY <1>1, <2>1
    <3> DEFINE j == i - 3
    <3>2. Program[3 + j] = Item("head", <<Writes(HeadAt(j)), Reads(Chain)>>)
      BY <1>1, <3>1 DEF Holds
    <3>3. UsedAt(3 + j) = {HeadAt(j), Chain}
      BY <1>1, <3>1 DEF Usage
    <3>4. Program[i].uses = <<Writes(HeadAt(j)), Reads(Chain)>> /\ Chain \in UsedAt(i)
      BY <3>1, <3>2, <3>3 DEF Item
    <3>5. Chain \in Needed(i)
      BY <1>2, <1>4, <1>5, <3>4, NeededIs
    <3>6. Fills(i, HeadAt(j), Chain)
      BY <1>2, <3>1, <3>4, <3>5, VariablesDiffer DEF Fills
    <3> QED
      BY <3>6
  <2>2. CASE i \in n + 4 .. 2 * n + 3
    <3>1. i - (n + 3) \in 1 .. n /\ i = n + 3 + (i - (n + 3)) /\ 4 \in 1 .. i - 1
      BY <1>1, <2>2
    <3> DEFINE j == i - (n + 3)
    <3>2. Program[n + 3 + j] = Item("position", <<Writes(Position(j)), Reads(HeadAt(1))>>)
      BY <1>1, <3>1 DEF Holds
    <3>3. UsedAt(n + 3 + j) = {Position(j), HeadAt(1)}
      BY <1>1, <3>1 DEF Usage
    <3>4. Program[i].uses = <<Writes(Position(j)), Reads(HeadAt(1))>> /\ HeadAt(1) \in UsedAt(i)
      BY <3>1, <3>2, <3>3 DEF Item
    <3>5. HeadAt(1) \in Needed(i)
      BY <1>2, <1>4, <1>5, <1>7, <3>1, <3>4, NeededIs
    <3>6. Fills(i, Position(j), HeadAt(1))
      BY <1>2, <3>1, <3>4, <3>5, VariablesDiffer DEF Fills
    <3> QED
      BY <3>6
  <2> QED
    BY <1>1, <1>4, <1>5, <1>8, <2>1, <2>2
\* In the loop every position was set before.
<1>9. ASSUME NEW j \in 1 .. n, Position(j) \in UsedAt(i), i > LoopPlace
      PROVE  Position(j) \in Needed(i) /\ Position(j) \in Positions
  <2>1. Position(j) \in UsedAt(n + 3 + j) /\ n + 3 + j \in 1 .. i - 1
    BY <1>1, <1>4, <1>9 DEF Usage
  <2> QED
    BY <1>2, <1>4, <1>5, <1>9, <2>1, NeededIs
<1>10. ASSUME i > LoopPlace
       PROVE  (\E v, how : Visits(i, v, how)) \/ (\E u, v : Compares(i, u, v))
  <2>1. CASE i \in 2 * n + 5 .. 2 * n + 4 + w
    <3>1. i - (2 * n + 4) \in 1 .. w /\ i = 2 * n + 4 + (i - (2 * n + 4))
      BY <1>1, <2>1
    <3>2. Program[i] \in Following
      BY <1>1, <3>1 DEF Holds
    <3>3. PICK j \in 1 .. n : Program[i] = Chase(j) \/ Program[i] = Prefetch(j)
      BY <1>2, <3>2
    <3>4. UsedAt(i) = {Position(j)}
      BY <3>3, UsedOne DEF Chase, Prefetch, Reads
    <3>5. Position(j) \in Needed(i) /\ Position(j) \in Positions
      BY <1>9, <1>10, <3>4
    <3>6. CASE Program[i] = Chase(j)
      <4>1. Program[i].uses = <<[v |-> Position(j), how |-> {"read", "write"}]>>
        BY <3>6 DEF Chase, Item
      <4>2. Visits(i, Position(j), {"read", "write"})
        BY <3>5, <4>1 DEF Visits
      <4> QED
        BY <4>2
    <3>7. CASE Program[i] = Prefetch(j)
      <4>1. Program[i].uses = <<[v |-> Position(j), how |-> {"read"}]>>
        BY <3>7 DEF Prefetch, Reads, Item
      <4>2. Visits(i, Position(j), {"read"})
        BY <3>5, <4>1 DEF Visits
      <4> QED
        BY <4>2
    <3> QED
      BY <3>3, <3>6, <3>7
  <2>2. CASE i = 2 * n + 5 + w + l
    <3>1. Program[i] = Item("cmp", <<Reads(HeadAt(1)), Reads(Position(1))>>)
      BY <1>1, <2>2 DEF Holds
    <3>2. Program[i].uses = <<Reads(HeadAt(1)), Reads(Position(1))>>
      BY <3>1 DEF Item
    <3>3. HeadAt(1) \in UsedAt(i) /\ Position(1) \in UsedAt(i)
      BY <3>1, UsedTwo DEF Reads
    <3>4. 4 \in 1 .. i - 1
      BY <1>1, <2>2
    <3>5. HeadAt(1) \in Needed(i)
      BY <1>2, <1>4, <1>5, <1>7, <3>3, <3>4, NeededIs
    <3>6. Position(1) \in Needed(i)
      BY <1>7, <1>9, <1>10, <3>3
    <3>7. Compares(i, HeadAt(1), Position(1))
      BY <3>2, <3>5, <3>6, VariablesDiffer DEF Compares
    <3> QED
      BY <3>7
  <2>3. CASE i \in 2 * n + 5 + w .. 2 * n + 4 + w + l
    <3>1. Program[i].op = "nop"
      BY <1>1, <2>3 DEF Sections, Section
    <3> QED
      BY <1>3, <3>1 DEF UsingOps
  <2>4. \/ i \in 2 * n + 5 .. 2 * n + 4 + w \/ i = 2 * n + 5 + w + l
        \/ i \in 2 * n + 5 + w .. 2 * n + 4 + w + l
    BY <1>1, <1>4, <1>5, <1>10
  <2> QED
    BY <2>1, <2>2, <2>3, <2>4
<1> QED
  BY <1>5, <1>6, <1>8, <1>10

\* Such an instruction is sensible: the one that fills u may find any place for
\* it, the others want what is there already.
LEMMA FillsSensible ==
  ASSUME NEW i, NEW u, NEW v, Fills(i, u, v)
  PROVE  /\ Sensible(Program[i].uses, {}, {u})
         /\ \A k \in DOMAIN Program[i].uses :
              "read" \in Program[i].uses[k].how => Program[i].uses[k].v = v
         /\ UsedAt(i) = {u, v} /\ WrittenBy(Program[i].uses) = {u}
<1> DEFINE uses == Program[i].uses
<1>1. /\ DOMAIN uses = {1, 2}
      /\ uses[1].v = u /\ uses[1].how = {"write"}
      /\ uses[2].v = v /\ uses[2].how = {"read"}
  BY DEF Fills, Reads, Writes
<1>2. u # v
  BY DEF Fills
<1> HIDE DEF uses
<1>3. WrittenBy(uses) = {u}
  BY <1>1 DEF WrittenBy
<1>4. Sensible(uses, {}, {u})
  BY <1>1, <1>2, <1>3 DEF Sensible
<1> QED
  BY <1>1, <1>3, <1>4 DEF uses, UsedAt

\* What the instructions in the loop use has been written before ...
LEMMA VisitsSensible ==
  ASSUME NEW i, NEW v, NEW how, Visits(i, v, how), NEW K, K \cap Positions = {}
  PROVE  /\ Sensible(Program[i].uses, K, {})
         /\ UsedAt(i) = {v}
<1> DEFINE uses == Program[i].uses
<1>1. /\ DOMAIN uses = {1} /\ uses[1].v = v /\ uses[1].how = how /\ "read" \in how
  BY DEF Visits
<1>2. v \in Positions
  BY DEF Visits
<1> HIDE DEF uses
<1>3. WrittenBy(uses) \subseteq {v}
  BY <1>1 DEF WrittenBy
<1>4. Sensible(uses, K, {})
  BY <1>1, <1>2, <1>3 DEF Sensible
<1> QED
  BY <1>1, <1>4 DEF uses, UsedAt

\* ... and what the comparison at its end reads.
LEMMA ComparesSensible ==
  ASSUME NEW i, NEW u, NEW v, Compares(i, u, v), NEW K
  PROVE  /\ Sensible(Program[i].uses, K, {})
         /\ UsedAt(i) = {u, v}
<1> DEFINE uses == Program[i].uses
<1>1. /\ DOMAIN uses = {1, 2}
      /\ uses[1].v = u /\ uses[1].how = {"read"}
      /\ uses[2].v = v /\ uses[2].how = {"read"}
  <2>1. uses = <<[v |-> u, how |-> {"read"}], [v |-> v, how |-> {"read"}]>>
    BY DEF Compares, Reads
  <2> HIDE DEF uses
  <2>2. DOMAIN uses = {1, 2}
    BY <2>1
  <2>3. uses[1] = [v |-> u, how |-> {"read"}] /\ uses[2] = [v |-> v, how |-> {"read"}]
    BY <2>1
  <2> QED
    BY <2>2, <2>3
<1>2. u # v
  BY DEF Compares
<1> HIDE DEF uses
<1>3. WrittenBy(uses) = {}
  BY <1>1 DEF WrittenBy
<1>4. Sensible(uses, K, {})
  BY <1>1, <1>2, <1>3 DEF Sensible
<1> QED
  BY <1>1, <1>4 DEF uses, UsedAt

-----------------------------------------------------------------------------
(* Translating, place by place.                                           *)

\* An emittable that uses nothing changes no claim.
LEMMA PlainTold ==
  ASSUME NEW c, Sound(c), NEW op \in Ops, NEW l, NEW a, Reaches(c.code, l, a),
         op = "L_Loop" => a = l,
         op = "jne" => Weaker(l, a)
  PROVE  Reaches(AppendCode(c, op, <<>>).code, l, a)
<1> DEFINE item == [op |-> op, uses |-> <<>>,
                    regs |-> [k \in DOMAIN <<>> |-> c.var[(<<>>)[k].v].register]]
           d == AppendCode(c, op, <<>>)
<1>1. c \in Contexts /\ c.code \in Seq(Items)
  BY ContextFields DEF Sound
<1>2. d.code = Append(c.code, item)
  BY <1>1 DEF AppendCode, Contexts
<1>3. item.op = op /\ item.uses = <<>> /\ item.regs = <<>>
  OBVIOUS
<1>4. item \in Items
  <2>1. <<>> \in Seq(Uses) /\ <<>> \in Seq(Registers \cup {NoRegister})
    OBVIOUS
  <2>2. item \in [op : Ops, uses : Seq(Uses), regs : Seq(Registers \cup {NoRegister})]
    BY <2>1
  <2> HIDE DEF item
  <2> QED
    BY <1>3, <2>2 DEF Items
<1>5. op \notin {"save", "load"}
  BY DEF Ops
<1> HIDE DEF item, d
<1>6. Written(item) = {} /\ DOMAIN item.regs = {}
  BY <1>3 DEF Written
<1>7. Reading(item, a)
  BY <1>6 DEF Reading
<1>8. Weaker(a, Passed(item, a))
  <2>1. Passed(item, a) = AfterExecute(item, a)
    BY <1>3, <1>5 DEF Passed
  <2>2. a.regs \subseteq AfterExecute(item, a).regs /\ a.slots \subseteq AfterExecute(item, a).slots
    BY <1>6 DEF AfterExecute, Claim
  <2> QED
    BY <2>1, <2>2 DEF Weaker
<1>9. Reaches(Append(c.code, item), l, a)
  <2>1. item.op = "L_Loop" => a = l
    BY <1>3
  <2>2. item.op = "jne" => Weaker(l, a)
    BY <1>3
  <2> QED
    BY <1>1, <1>4, <1>7, <1>8, <2>1, <2>2, ReachesMore
<1> QED
  BY <1>2, <1>9 DEF d

\* To put an emittable in the code changes no variable's data.
LEMMA AppendData ==
  ASSUME NEW c, Sound(c), NEW op, NEW uses
  PROVE  LET d == AppendCode(c, op, uses)
         IN  d.var = c.var /\ d.cur = c.cur
BY DEF AppendCode, Sound, Contexts

\* Where the parts of the program are.
LEMMA Landmarks ==
  ASSUME input \in Inputs
  PROVE  /\ LoopPlace \in Nat /\ JumpPlace \in Nat
         /\ 6 <= LoopPlace /\ LoopPlace + 2 <= JumpPlace
         /\ DOMAIN Program = 1 .. JumpPlace + 2 /\ Len(Program) = JumpPlace + 2
         /\ \A k \in DOMAIN Program :
              /\ k = 3 <=> Program[k].op = "prolog"
              /\ k = LoopPlace <=> Program[k].op = "L_Loop"
              /\ k = JumpPlace <=> Program[k].op = "jne"
              /\ k <= 3 \/ k = LoopPlace \/ k >= JumpPlace => Program[k].uses = <<>>
<1> DEFINE n == input.chains_per_thread
           w == Len(FollowAll)
           l == input.loop_length
<1>1. /\ n \in Nat \ {0} /\ l \in Nat /\ w \in Nat /\ Usage(n, w, l) /\ Places(n, w, l)
      /\ Sections(n, w, l)
  BY ProgramUsage, ProgramPlaces, ProgramSections
<1>2. \A k \in DOMAIN Program : Program[k].op \notin UsingOps => Program[k].uses = <<>>
  BY PlaceFields
<1> HIDE DEF n, w, l
<1>3. /\ LoopPlace = 2 * n + 4 /\ JumpPlace = 2 * n + w + l + 6
      /\ DOMAIN Program = 1 .. 2 * n + w + l + 8 /\ Len(Program) = 2 * n + w + l + 8
  BY <1>1 DEF Usage, Places, Sections
<1>4. /\ LoopPlace \in Nat /\ JumpPlace \in Nat
      /\ 6 <= LoopPlace /\ LoopPlace + 2 <= JumpPlace
      /\ 2 * n + w + l + 8 = JumpPlace + 2
  BY <1>1, <1>3
<1>5. ASSUME NEW k \in DOMAIN Program
      PROVE  /\ k = 3 <=> Program[k].op = "prolog"
             /\ k = LoopPlace <=> Program[k].op = "L_Loop"
             /\ k = JumpPlace <=> Program[k].op = "jne"
             /\ k <= 3 \/ k = LoopPlace \/ k >= JumpPlace => Program[k].uses = <<>>
  <2>1. /\ k = 3 <=> Program[k].op = "prolog"
        /\ k = LoopPlace <=> Program[k].op = "L_Loop"
        /\ k = JumpPlace <=> Program[k].op = "jne"
    BY <1>1, <1>3 DEF Places
  <2>2. k = LoopPlace => Program[k].uses = <<>>
    BY <1>2, <2>1 DEF UsingOps
  <2>3. k <= 3 \/ k >= JumpPlace => Program[k].uses = <<>>
    BY <1>1 DEF Usage
  <2> QED
    BY <2>1, <2>2, <2>3
<1> QED
  BY <1>3, <1>4, <1>5

\* Code that the assembler refuses is refused when it has grown.
LEMMA StillRefused ==
  ASSUME input \in Inputs, Sound(cc), TargetSound(target), NEW i \in DOMAIN Program,
         i <= 3 => cc.used = {}, Refused(cc.code)
  PROVE  Refused(TranslateEmittable(i).code)
<1> DEFINE d == TranslateEmittable(i)
<1>1. Translated(cc, d, i)
  BY TranslateEmittableSound
<1> HIDE DEF d
<1>2. cc.code \in Seq(Items) /\ d.code \in Seq(Items)
  BY <1>1, ContextFields DEF Translated, Sound
<1>3. Len(cc.code) <= Len(d.code) /\ \A k \in 1 .. Len(cc.code) : d.code[k] = cc.code[k]
  <2>1. Len(cc.code) \in Nat /\ Len(d.code) \in Nat
    BY <1>2
  <2> QED
    BY <1>1, <2>1 DEF Translated, Emits
<1>4. Refused(d.code)
  BY <1>2, <1>3, RefusedStill
<1> QED
  BY <1>4 DEF d

\* An emittable that is just put in the code.
LEMMA PlainStep ==
  ASSUME input \in Inputs, Sound(cc), NEW i \in DOMAIN Program,
         Program[i].uses = <<>>, Program[i].op \notin {"prolog", "jne"}
  PROVE  LET d == TranslateEmittable(i)
         IN  /\ d.var = cc.var
             /\ \A l, a : Reaches(cc.code, l, a) /\ (Program[i].op = "L_Loop" => a = l)
                            => Reaches(d.code, l, a)
<1> DEFINE op == Program[i].op
           d == AppendCode(At(i), op, <<>>)
<1>1. op \in Ops /\ i \in Nat \ {0}
  BY PlaceFields
<1>2. TranslateEmittable(i) = d
  BY DEF TranslateEmittable
<1>3. Sound(At(i)) /\ At(i).var = cc.var /\ At(i).code = cc.code
  BY <1>1, AtFields
<1>4. d.var = cc.var
  BY <1>3, AppendData
<1>5. op # "jne"
  OBVIOUS
<1> HIDE DEF op
<1>6. ASSUME NEW l, NEW a, Reaches(cc.code, l, a), op = "L_Loop" => a = l
      PROVE  Reaches(d.code, l, a)
  BY <1>1, <1>3, <1>5, <1>6, PlainTold
<1> QED
  BY <1>2, <1>4, <1>6 DEF op

\* The function, its entry and ...
LEMMA OpeningStep ==
  ASSUME input \in Inputs, Sound(cc), NEW i \in {1, 2}, Translating(cc, target, i), NEW t
  PROVE  Translating(TranslateEmittable(i), t, i + 1)
<1> DEFINE d == TranslateEmittable(i)
<1>1. /\ LoopPlace \in Nat /\ JumpPlace \in Nat /\ 6 <= LoopPlace /\ LoopPlace < JumpPlace
      /\ i \in DOMAIN Program /\ Program[i].uses = <<>>
      /\ Program[i].op \notin {"prolog", "jne", "L_Loop"}
  BY Landmarks
<1>2. ScopesKept(cc) /\ Blank(cc) /\ Reaches(cc.code, Entry, Entry)
  BY <1>1 DEF Translating
<1>3. d.var = cc.var /\ Reaches(d.code, Entry, Entry)
  BY <1>1, <1>2, PlainStep
<1> HIDE DEF d
<1>4. ScopesKept(d) /\ Blank(d)
  BY <1>2, <1>3 DEF ScopesKept, Blank
<1>5. i + 1 \in {2, 3}
  OBVIOUS
<1> QED
  BY <1>1, <1>3, <1>4, <1>5 DEF Translating, d

\* The argument is in the register in which it is passed; nothing else moves.
LEMMA AllocVariablesData ==
  ASSUME NEW c \in Contexts
  PROVE  LET d == AllocVariables(c)
         IN  /\ d.code = c.code
             /\ \A v \in Variables \ {Chain} : d.var[v] = c.var[v]
             /\ d.var[Chain].state = "register" /\ d.var[Chain].register = ArgRegister
             /\ d.var[Chain].changed
             /\ d.var[Chain].ends = c.var[Chain].ends /\ d.var[Chain].work = c.var[Chain].work
<1> DEFINE w == [c.var[Chain] EXCEPT !.state = "register", !.register = ArgRegister,
                                     !.home = ArgRegister]
           taken == [c EXCEPT !.var[Chain] = w, !.gp[ArgRegister] = Chain,
                              !.used = @ \cup {ArgRegister}, !.modified = @ \cup {ArgRegister}]
           x == [taken.var[Chain] EXCEPT !.changed = TRUE, !.home = NoRegister]
           var == [taken.var EXCEPT ![Chain] = x]
           d == [taken EXCEPT !.var = var]
<1>1. Chain \in Variables /\ c.var \in [Variables -> VarDatas] /\ c.var[Chain] \in VarDatas
  BY ContextFields DEF Variables
<1>2. AllocVariables(c) = [taken EXCEPT !.var[Chain].changed = TRUE,
                                        !.var[Chain].home = NoRegister]
  BY DEF Occupy, AllocVariables
<1>3. /\ w \in VarDatas /\ w.state = "register" /\ w.register = ArgRegister
      /\ w.ends = c.var[Chain].ends /\ w.work = c.var[Chain].work
  <2>1. ArgRegister \in Registers \cup {NoRegister}
    BY DEF ArgRegister, Registers
  <2> QED
    BY <1>1, <2>1 DEF VarDatas
<1>4. taken.var = [c.var EXCEPT ![Chain] = w] /\ taken.code = c.code
  BY <1>1 DEF Contexts
<1>5. {"var", "code"} \subseteq DOMAIN taken
  BY DEF Contexts
<1> HIDE DEF w, taken
<1>6. taken.var \in [Variables -> VarDatas] /\ taken.var[Chain] = w
  BY <1>1, <1>3, <1>4
<1>7. AllocVariables(c) = d
  BY <1>1, <1>2, <1>3, <1>5, <1>6 DEF VarDatas
<1>8. /\ x.state = w.state /\ x.register = w.register /\ x.changed
      /\ x.ends = w.ends /\ x.work = w.work
  BY <1>3, <1>6 DEF VarDatas
<1> HIDE DEF x
<1>9. var[Chain] = x /\ \A v \in Variables \ {Chain} : var[v] = c.var[v]
  BY <1>1, <1>4, <1>6
<1> HIDE DEF var
<1>10. d.var = var /\ d.code = taken.code
  BY <1>5
<1> HIDE DEF d
<1> QED
  BY <1>3, <1>4, <1>7, <1>8, <1>9, <1>10

\* ... the prolog, behind which the argument is in its register.
LEMMA PrologStep ==
  ASSUME input \in Inputs, Sound(cc), cc.used = {}, Translating(cc, target, 3), NEW t
  PROVE  Translating(TranslateEmittable(3), t, 4)
<1> DEFINE b == AllocVariables(At(3))
           d == AppendCode(b, "prolog", <<>>)
<1>1. /\ LoopPlace \in Nat /\ JumpPlace \in Nat /\ 6 <= LoopPlace /\ LoopPlace < JumpPlace
      /\ 3 \in DOMAIN Program /\ Program[3].op = "prolog"
      /\ \A k \in 1 .. 3 : Program[k].uses = <<>>
  BY Landmarks
<1>2. ScopesKept(cc) /\ Blank(cc) /\ Reaches(cc.code, Entry, Entry)
  BY <1>1 DEF Translating
<1>3. TranslateEmittable(3) = d
  BY <1>1 DEF TranslateEmittable
<1>4. /\ At(3) \in Contexts /\ Sound(At(3)) /\ At(3).var = cc.var /\ At(3).code = cc.code
      /\ At(3).used = {}
  BY AtFields, AtLater DEF Quiet, Placed
<1>5. Sound(b)
  BY <1>4, AllocVariablesSound DEF Later
<1>6. /\ b.code = cc.code
      /\ \A v \in Variables \ {Chain} : b.var[v] = cc.var[v]
      /\ b.var[Chain].state = "register" /\ b.var[Chain].register = ArgRegister
      /\ b.var[Chain].changed
      /\ b.var[Chain].ends = cc.var[Chain].ends /\ b.var[Chain].work = cc.var[Chain].work
  BY <1>4, AllocVariablesData
<1> HIDE DEF b
<1>7. d.var = b.var
  BY <1>5, AppendData
<1>8. Reaches(d.code, Entry, Entry)
  BY <1>2, <1>5, <1>6, PlainTold DEF Ops
<1> HIDE DEF d
<1>9. ScopesKept(d)
  BY <1>2, <1>6, <1>7 DEF ScopesKept
<1>10. Needed(4) \subseteq {Chain}
  <2>1. \A q \in 1 .. 4 - 1 : UsedAt(q) = {}
    BY <1>1, NothingUsed
  <2> QED
    BY <2>1 DEF Needed
<1>11. \A v \in Variables \ {Chain} : d.var[v].state = "unused" /\ d.var[v].register = NoRegister
  <2> TAKE v \in Variables \ {Chain}
  <2>1. d.var[v].state = "unused"
    BY <1>2, <1>6, <1>7 DEF Blank
  <2> QED
    BY <1>6, <1>7, <2>1, <1>5 DEF Sound, Matched
<1>12. Filling(d, 4)
  <2>1. Alive(d, Needed(4))
    BY <1>6, <1>7, <1>10 DEF Alive
  <2>2. Unloaded(d)
    <3>1. Positions \subseteq Variables \ {Chain}
      BY VariablesDiffer DEF Positions, Variables
    <3> QED
      BY <1>11, <3>1 DEF Unloaded
  <2>3. Covers(d, Entry, {})
    BY <1>6, <1>7, <1>11 DEF Covers, Entry, Claim, NoRegister
  <2>4. Told(d, Entry, {}, {})
    BY <1>8, <2>3 DEF Told
  <2> QED
    BY <1>9, <2>1, <2>2, <2>4 DEF Filling
<1> QED
  BY <1>1, <1>3, <1>12 DEF Translating

\* What will be needed is needed now, or comes with this place; and no scope of
\* such a variable ends here.
LEMMA NeededOn ==
  ASSUME NEW i \in Nat \ {0}, JumpPlace \in Nat, NEW v \in Needed(i + 1)
  PROVE  /\ v \in Variables
         /\ v \in Needed(i) \/ v \in UsedAt(i)
         /\ \A c : ScopesKept(c) => c.var[v].ends # i
<1>1. v \in Variables /\ (v = Chain \/ \E q \in 1 .. i : v \in UsedAt(q))
  BY DEF Needed
<1>2. PICK p \in i + 1 .. JumpPlace - 1 : v \in UsedAt(p)
  BY DEF Needed
<1>3. v \in Needed(i) \/ v \in UsedAt(i)
  <2> SUFFICES ASSUME v \notin UsedAt(i) PROVE v \in Needed(i)
    OBVIOUS
  <2>1. \A q \in 1 .. i : q = i \/ q \in 1 .. i - 1
    OBVIOUS
  <2>2. p \in i .. JumpPlace - 1
    OBVIOUS
  <2> QED
    BY <1>1, <1>2, <2>1, <2>2 DEF Needed
<1>4. ASSUME NEW c, ScopesKept(c), c.var[v].ends = i PROVE FALSE
  <2>1. p \in 1 .. JumpPlace - 1 /\ i # 0 /\ p > i
    OBVIOUS
  <2>2. p <= c.var[v].ends
    BY <1>1, <1>2, <1>4, <2>1 DEF ScopesKept
  <2> QED
    BY <1>4, <2>1, <2>2
<1> QED
  BY <1>1, <1>3, <1>4

\* Before the loop: heads and positions are written.
LEMMA FillStep ==
  ASSUME input \in Inputs, Sound(cc), TargetSound(target), NEW i \in 4 .. LoopPlace - 1,
         Translating(cc, target, i), NEW t
  PROVE  Translating(TranslateEmittable(i), t, i + 1)
<1> DEFINE uses == Program[i].uses
           d == TranslateEmittable(i)
<1>1. /\ LoopPlace \in Nat /\ JumpPlace \in Nat /\ 6 <= LoopPlace /\ LoopPlace < JumpPlace
      /\ i \in DOMAIN Program /\ i \in Nat \ {0} /\ i < LoopPlace
      /\ Program[i].op \notin {"prolog", "jne", "L_Loop"}
  BY Landmarks
<1>2. Refused(d.code) \/ Filling(d, i + 1)
  <2>1. CASE Refused(cc.code)
    BY <1>1, <2>1, StillRefused
  <2>2. CASE ~Refused(cc.code)
    <3>1. ScopesKept(cc) /\ Alive(cc, Needed(i)) /\ Unloaded(cc) /\ Told(cc, Entry, {}, {})
      BY <1>1, <2>2 DEF Translating, Filling
    <3>2. CASE uses = <<>>
      <4>1. d.var = cc.var /\ \A a : Reaches(cc.code, Entry, a) => Reaches(d.code, Entry, a)
        BY <1>1, <3>2, PlainStep
      <4>2. UsedAt(i) = {}
        BY <3>2, NothingUsed
      <4> HIDE DEF d, uses
      <4>3. Alive(d, Needed(i + 1))
        BY <1>1, <3>1, <4>1, <4>2, NeededOn DEF Alive
      <4>4. ScopesKept(d) /\ Unloaded(d)
        BY <3>1, <4>1 DEF ScopesKept, Unloaded
      <4>5. Told(d, Entry, {}, {})
        BY <3>1, <4>1 DEF Told, Covers
      <4> QED
        BY <4>3, <4>4, <4>5 DEF Filling
    <3>3. CASE uses # <<>>
      <4>1. PICK u, v : Fills(i, u, v)
        BY <1>1, <3>3, Instructions
      <4>2. /\ Sensible(uses, {}, {u})
            /\ \A k \in DOMAIN uses : "read" \in uses[k].how => uses[k].v = v
            /\ UsedAt(i) = {u, v} /\ WrittenBy(uses) = {u}
        BY <4>1, FillsSensible
      <4>3. v \in Needed(i) /\ v \notin Positions
        BY <4>1 DEF Fills
      <4>4. \A k \in DOMAIN uses : "read" \in uses[k].how => cc.var[uses[k].v].state # "unused"
        BY <3>1, <4>2, <4>3 DEF Alive
      <4>5. d = TranslateInstruction(i)
        BY <1>1, <3>3 DEF TranslateEmittable
      <4> HIDE DEF d
      <4>6. /\ ScopesKept(d)
            /\ Refused(d.code) \/ (Told(d, Entry, {}, {}) /\ Carried(cc, d, i, uses))
        <5>1. Program[i].op \notin {"L_Loop", "jne"}
          BY <1>1
        <5> QED
          BY <1>1, <3>1, <3>3, <4>2, <4>4, <4>5, <5>1, InstructionTold
      <4> HIDE DEF uses
      <4>7. ASSUME Carried(cc, d, i, uses) PROVE Alive(d, Needed(i + 1)) /\ Unloaded(d)
        <5>1. ASSUME NEW x \in Needed(i + 1) PROVE d.var[x].state # "unused"
          <6>1. x \in Variables /\ (x \in Needed(i) \/ x \in UsedAt(i)) /\ cc.var[x].ends # i
            BY <1>1, <3>1, NeededOn
          <6> QED
            BY <3>1, <4>7, <6>1 DEF Alive, Carried
        <5>2. ASSUME NEW x \in Positions, d.var[x].state = "register" PROVE d.var[x].changed
          <6>1. x \in Variables /\ (x \in UsedAt(i) => x \in WrittenBy(uses))
            BY <4>2, <4>3 DEF Positions, Variables
          <6> QED
            BY <3>1, <4>7, <5>2, <6>1 DEF Carried, Unloaded
        <5> QED
          BY <5>1, <5>2 DEF Alive, Unloaded
      <4> QED
        BY <4>6, <4>7 DEF Filling
    <3> QED
      BY <3>2, <3>3
  <2> QED
    BY <2>1, <2>2
<1> HIDE DEF d
<1> QED
  BY <1>1, <1>2 DEF Translating, d

\* The label and the jump are not in the code before their place is translated.
LEMMA NoLabelYet ==
  ASSUME CompilerInv, CodeInv, phase = "translate", place <= LoopPlace
  PROVE  \A j \in 1 .. Len(cc.code) : cc.code[j].op \notin {"L_Loop", "jne"}
<1> DEFINE n == place - 1
<1>1. /\ LoopPlace \in Nat /\ JumpPlace \in Nat /\ LoopPlace < JumpPlace
      /\ DOMAIN Program = 1 .. JumpPlace + 2
      /\ \A k \in DOMAIN Program :
           /\ k = LoopPlace <=> Program[k].op = "L_Loop"
           /\ k = JumpPlace <=> Program[k].op = "jne"
  BY Landmarks DEF CompilerInv
<1>2. n \in Nat /\ n < LoopPlace /\ cc.code \in Seq(Items)
  BY <1>1, ContextFields DEF CompilerInv, Sound
<1> HIDE DEF n
<1>3. PICK f \in [0 .. n -> 0 .. Len(cc.code)] : Laid(cc.code, f, n)
  BY DEF CodeInv, Translations, Code, n
<1>4. TAKE j \in 1 .. Len(cc.code)
<1>5. PICK k \in 1 .. n : f[k - 1] < j /\ j <= f[k]
  BY <1>2, <1>3, LaidFinds
<1>6. k \in DOMAIN Program /\ k # LoopPlace /\ k # JumpPlace
  BY <1>1, <1>2
<1>7. k - 1 \in 0 .. n /\ k \in 0 .. n
  BY <1>2
<1>8. f[k] \in Nat /\ f[k - 1] \in Nat
  BY <1>3, <1>7
<1>9. j = f[k] \/ j \in f[k - 1] + 1 .. f[k] - 1
  BY <1>5, <1>8
<1>10. \/ cc.code[j].op = Program[k].op
       \/ cc.code[j].op \in {"save", "load"}
  BY <1>3, <1>9 DEF Laid
<1> QED
  BY <1>1, <1>6, <1>10

\* At the label the claims are made the loop's.
LEMMA LabelStep ==
  ASSUME CompilerInv, CodeInv, phase = "translate", place = LoopPlace,
         Translating(cc, target, place)
  PROVE  Translating(TranslateEmittable(place), SaveState(cc), place + 1)
<1> DEFINE d == TranslateEmittable(place)
           t == SaveState(cc)
<1>1. /\ LoopPlace \in Nat /\ JumpPlace \in Nat /\ 6 <= LoopPlace /\ LoopPlace < JumpPlace
      /\ place \in DOMAIN Program /\ Program[place].uses = <<>>
      /\ Program[place].op \notin {"prolog", "jne"}
  BY Landmarks DEF CompilerInv
<1>2. input \in Inputs /\ Sound(cc) /\ TargetSound(target) /\ cc.code \in Seq(Items)
  BY ContextFields DEF CompilerInv, Sound
<1>3. /\ d.var = cc.var
      /\ \A l : Reaches(cc.code, l, l) => Reaches(d.code, l, l)
  BY <1>1, <1>2, PlainStep
<1>4. /\ t.gp = cc.gp /\ t.used = cc.used
      /\ t.memory = {v \in Active(cc) : cc.var[v].state = "memory"}
  BY DEF SaveState
<1>5. TargetSound(t)
  BY <1>2, SaveStateSound
<1>6. CASE Refused(cc.code)
  <2>1. Refused(d.code)
    BY <1>1, <1>2, <1>6, StillRefused
  <2> QED
    BY <1>1, <2>1 DEF Translating
<1>7. CASE ~Refused(cc.code)
  <2> HIDE DEF d, t
  <2>1. ScopesKept(cc) /\ Alive(cc, Needed(place)) /\ Unloaded(cc) /\ Told(cc, Entry, {}, {})
    BY <1>1, <1>7 DEF Translating, Filling
  <2>2. PICK a : Reaches(cc.code, Entry, a) /\ Covers(cc, a, {})
    BY <2>1 DEF Told
  <2> DEFINE l == Claim({<<r, t.gp[r]>> : r \in t.used}, t.memory \cup (a.slots \ Positions))
  <2>3. /\ l.regs = {<<r, t.gp[r]>> : r \in t.used}
        /\ l.slots = t.memory \cup (a.slots \ Positions)
    BY DEF Claim
  <2> HIDE DEF l
  <2>4. Labelled(l, t)
    BY <2>3 DEF Labelled
  <2>5. DOMAIN cc.var = Variables /\ \A v \in Variables : v \in Active(cc)
    <3>1. DOMAIN cc.var = Variables
      BY <1>2, ContextFields DEF Sound
    <3> QED
      BY <2>1, <3>1 DEF Active, ScopesKept
  <2>6. Weaker(l, a)
    <3>1. ASSUME NEW r \in t.used PROVE <<r, t.gp[r]>> \in a.regs
      <4>1. r \in Registers /\ cc.gp[r] # NoVariable /\ cc.gp[r] \in Variables
        BY <1>2, <1>4, ContextFields DEF Sound, Matched
      <4>2. r # NoRegister
        BY <4>1 DEF Registers, NoRegister
      <4>3. cc.var[cc.gp[r]].register = r
        BY <1>2, <4>1 DEF Sound, Matched
      <4> QED
        BY <1>4, <2>2, <4>1, <4>2, <4>3 DEF Covers
    <3>2. t.memory \subseteq a.slots
      BY <1>4, <2>2, <2>5 DEF Covers, Active
    <3> QED
      BY <2>3, <3>1, <3>2 DEF Weaker
  <2>7. Reaches(d.code, l, l)
    <3>1. \A k \in 1 .. Len(cc.code) : cc.code[k].op \notin {"L_Loop", "jne"}
      BY <1>1, NoLabelYet
    <3>2. Reaches(cc.code, l, l)
      BY <1>2, <2>2, <2>6, <3>1, ReachesWeaker
    <3> QED
      BY <1>3, <3>2
  <2>8. Covers(d, l, {})
    <3> SUFFICES ASSUME NEW v \in Variables
                 PROVE  /\ cc.var[v].register # NoRegister => <<cc.var[v].register, v>> \in l.regs
                        /\ cc.var[v].state = "memory" => v \in l.slots
                        /\ cc.var[v].state = "register" /\ ~cc.var[v].changed => v \in l.slots
      BY <1>3 DEF Covers
    <3>1. ASSUME cc.var[v].register # NoRegister PROVE <<cc.var[v].register, v>> \in l.regs
      <4>1. cc.gp[cc.var[v].register] = v /\ cc.var[v].register \in Registers
        BY <1>2, <3>1, ContextFields, VarDataFields DEF Sound, Matched
      <4>2. cc.var[v].register \in cc.used
        BY <1>2, <4>1, NoVariableIsNone DEF Sound, Matched
      <4> QED
        BY <1>4, <2>3, <4>1, <4>2
    <3>2. cc.var[v].state = "memory" => v \in l.slots
      BY <1>4, <2>3, <2>5
    <3>3. ASSUME cc.var[v].state = "register", ~cc.var[v].changed PROVE v \in l.slots
      <4>1. v \in a.slots
        BY <2>2, <3>3 DEF Covers
      <4>2. v \notin Positions
        BY <2>1, <3>3 DEF Unloaded
      <4> QED
        BY <2>3, <4>1, <4>2
    <3> QED
      BY <3>1, <3>2, <3>3
  <2>9. Told(d, l, l.slots \ Positions, {})
    BY <2>7, <2>8 DEF Told
  <2>10. ScopesKept(d)
    BY <1>3, <2>1 DEF ScopesKept
  <2>11. Alive(d, Needed(place + 1))
    <3>1. UsedAt(place) = {}
      BY <1>1, NothingUsed
    <3>2. \A v \in Needed(place + 1) : v \in Needed(place)
      BY <1>1, <3>1, NeededOn
    <3> QED
      BY <1>3, <2>1, <3>2 DEF Alive
  <2>12. Alive(d, Found(t))
    <3> SUFFICES ASSUME NEW v \in Found(t) PROVE cc.var[v].state # "unused"
      BY <1>3 DEF Alive
    <3>1. v \in Variables /\ StateAtTarget(t, v) # "unused"
      BY DEF Found
    <3>2. CASE \E r \in Registers : t.gp[r] = v
      <4>1. PICK r \in Registers : cc.gp[r] = v
        BY <1>4, <3>2
      <4>2. r # NoRegister
        BY DEF Registers, NoRegister
      <4>3. cc.var[v].register = r
        BY <1>2, <3>1, <4>1, NoVariableIsNone DEF Sound, Matched
      <4> QED
        BY <1>2, <3>1, <4>2, <4>3 DEF Sound, Matched
    <3>3. CASE ~\E r \in Registers : t.gp[r] = v
      <4>1. v \in t.memory
        BY <3>1, <3>3 DEF StateAtTarget
      <4> QED
        BY <1>4, <4>1
    <3> QED
      BY <3>2, <3>3
  <2>13. Looping(d, t, place + 1)
    <3>1. Alive(d, Needed(place + 1) \cup Found(t))
      BY <2>11, <2>12 DEF Alive
    <3> QED
      BY <2>4, <2>9, <2>10, <3>1 DEF Looping
  <2> QED
    BY <1>1, <2>13 DEF Translating, d, t
<1> QED
  BY <1>6, <1>7

\* In the loop: the variables that were found at the label stay in scope.
LEMMA LoopStep ==
  ASSUME input \in Inputs, Sound(cc), TargetSound(target), NEW i \in LoopPlace + 1 .. JumpPlace - 1,
         Translating(cc, target, i)
  PROVE  Translating(TranslateEmittable(i), target, i + 1)
<1> DEFINE uses == Program[i].uses
           d == TranslateEmittable(i)
<1>1. /\ LoopPlace \in Nat /\ JumpPlace \in Nat /\ 6 <= LoopPlace /\ LoopPlace < JumpPlace
      /\ i \in DOMAIN Program /\ i \in Nat \ {0} /\ i > LoopPlace /\ i < JumpPlace
      /\ Program[i].op \notin {"prolog", "jne", "L_Loop"}
  BY Landmarks
<1>2. CASE Refused(cc.code)
  <2>1. Refused(d.code)
    BY <1>1, <1>2, StillRefused
  <2> HIDE DEF d
  <2> QED
    BY <1>1, <2>1 DEF Translating, d
<1>3. CASE ~Refused(cc.code)
  <2>1. ScopesKept(cc) /\ Alive(cc, Needed(i) \cup Found(target))
    BY <1>1, <1>3 DEF Translating, Looping
  <2>2. PICK l : Labelled(l, target) /\ Told(cc, l, l.slots \ Positions, {})
    BY <1>1, <1>3 DEF Translating, Looping
  <2> DEFINE K == l.slots \ Positions
  <2>3. Told(cc, l, K, {}) /\ K \cap Positions = {}
    BY <2>2
  <2> HIDE DEF K
  <2>4. \A v \in Found(target) : v \in Variables /\ cc.var[v].ends # i
    <3> TAKE v \in Found(target)
    <3>1. v \in Variables
      BY DEF Found
    <3> QED
      BY <1>1, <2>1, <3>1 DEF ScopesKept
  <2>5. \A v \in Needed(i + 1) :
          v \in Variables /\ cc.var[v].ends # i /\ (v \in Needed(i) \/ v \in UsedAt(i))
    BY <1>1, <2>1, NeededOn
  <2>6. Refused(d.code)
          \/ (ScopesKept(d) /\ Alive(d, Needed(i + 1) \cup Found(target)) /\ Told(d, l, K, {}))
    <3>1. CASE uses = <<>>
      <4>1. d.var = cc.var /\ \A a : Reaches(cc.code, l, a) => Reaches(d.code, l, a)
        BY <1>1, <3>1, PlainStep
      <4>2. UsedAt(i) = {}
        BY <3>1, NothingUsed
      <4> HIDE DEF d, uses
      <4>3. Alive(d, Needed(i + 1) \cup Found(target))
        BY <2>1, <2>5, <4>1, <4>2 DEF Alive
      <4>4. ScopesKept(d)
        BY <2>1, <4>1 DEF ScopesKept
      <4>5. Told(d, l, K, {})
        BY <2>3, <4>1 DEF Told, Covers
      <4> QED
        BY <4>3, <4>4, <4>5
    <3>2. CASE uses # <<>>
      <4>1. /\ Sensible(uses, K, {})
            /\ \A k \in DOMAIN uses : uses[k].v \in Needed(i)
        <5>1. ASSUME NEW v, NEW how, Visits(i, v, how)
              PROVE  Sensible(uses, K, {}) /\ \A k \in DOMAIN uses : uses[k].v \in Needed(i)
          <6>1. Sensible(uses, K, {}) /\ UsedAt(i) = {v}
            BY <2>3, <5>1, VisitsSensible
          <6>2. v \in Needed(i)
            BY <5>1 DEF Visits
          <6> QED
            BY <6>1, <6>2 DEF UsedAt
        <5>2. ASSUME NEW u, NEW v, Compares(i, u, v)
              PROVE  Sensible(uses, K, {}) /\ \A k \in DOMAIN uses : uses[k].v \in Needed(i)
          <6>1. Sensible(uses, K, {}) /\ UsedAt(i) = {u, v}
            BY <5>2, ComparesSensible
          <6>2. u \in Needed(i) /\ v \in Needed(i)
            BY <5>2 DEF Compares
          <6> QED
            BY <6>1, <6>2 DEF UsedAt
        <5>3. (\E v, how : Visits(i, v, how)) \/ (\E u, v : Compares(i, u, v))
          BY <1>1, <3>2, Instructions
        <5> QED
          BY <5>1, <5>2, <5>3
      <4>2. \A k \in DOMAIN uses : "read" \in uses[k].how => cc.var[uses[k].v].state # "unused"
        BY <2>1, <4>1 DEF Alive
      <4>3. d = TranslateInstruction(i)
        BY <1>1, <3>2 DEF TranslateEmittable
      <4> HIDE DEF d
      <4>4. /\ ScopesKept(d)
            /\ Refused(d.code) \/ (Told(d, l, K, {}) /\ Carried(cc, d, i, uses))
        <5>1. Program[i].op \notin {"L_Loop", "jne"}
          BY <1>1
        <5> QED
          BY <1>1, <2>1, <2>3, <3>2, <4>1, <4>2, <4>3, <5>1, InstructionTold
      <4> HIDE DEF uses
      <4>5. ASSUME Carried(cc, d, i, uses) PROVE Alive(d, Needed(i + 1) \cup Found(target))
        BY <2>1, <2>4, <2>5, <4>5 DEF Alive, Carried
      <4> QED
        BY <4>4, <4>5
    <3> QED
      BY <3>1, <3>2
  <2> HIDE DEF d
  <2>7. Refused(d.code) \/ Looping(d, target, i + 1)
    BY <2>2, <2>6 DEF Looping, K
  <2> QED
    BY <1>1, <2>7 DEF Translating, d
<1> QED
  BY <1>2, <1>3

\* At the jump the state of the label is restored, so that the label's claims
\* hold again.
LEMMA JumpStep ==
  ASSUME input \in Inputs, Sound(cc), TargetSound(target), Translating(cc, target, JumpPlace)
  PROVE  Translating(TranslateEmittable(JumpPlace), target, JumpPlace + 1)
<1> DEFINE i == JumpPlace
           back == RestoreState(At(i), target)
           e == AppendCode(back, "jne", <<>>)
           d == EndScopes(e, Active(cc), i)
<1>1. /\ LoopPlace \in Nat /\ i \in Nat /\ 6 <= LoopPlace /\ LoopPlace < i
      /\ i \in DOMAIN Program /\ i \in Nat \ {0} /\ Program[i].op = "jne"
      /\ Program[i].uses = <<>>
  BY Landmarks
<1>2. TranslateEmittable(i) = d
  BY <1>1 DEF TranslateEmittable, TranslateJump
<1>3. CASE Refused(cc.code)
  <2>1. Refused(TranslateEmittable(i).code)
    BY <1>1, <1>3, StillRefused
  <2> HIDE DEF d
  <2> QED
    BY <1>1, <1>2, <2>1 DEF Translating
<1>4. CASE ~Refused(cc.code)
  <2> HIDE DEF d, e, back
  <2>1. Alive(cc, Found(target)) /\ \E l : Labelled(l, target) /\ Told(cc, l, l.slots \ Positions, {})
    <3>1. i \in LoopPlace + 1 .. JumpPlace
      BY <1>1
    <3>2. Looping(cc, target, JumpPlace)
      BY <1>4, <3>1 DEF Translating, i
    <3> QED
      BY <3>2 DEF Looping, Alive
  <2>2. PICK l : Labelled(l, target) /\ Told(cc, l, l.slots \ Positions, {})
    BY <2>1
  <2>3. Sound(At(i)) /\ At(i).var = cc.var /\ At(i).code = cc.code
    BY <1>1, AtFields
  <2>4. Told(At(i), l, l.slots \ Positions, {})
    BY <2>2, <2>3 DEF Told, Covers
  <2>5. Alive(At(i), Found(target))
    BY <2>1, <2>3 DEF Alive
  <2>6. Coming(At(i), target, l, l.slots \ Positions)
    BY <2>4, <2>5 DEF Coming
  <2>7. PICK a : Reaches(back.code, l, a) /\ Weaker(l, a)
    BY <2>2, <2>3, <2>6, RestoreTold DEF back
  <2>8. Sound(back)
    BY <2>3, RestoreLater DEF Later, back
  <2>9. Reaches(e.code, l, a)
    BY <2>7, <2>8, PlainTold DEF Ops, e
  <2>10. Sound(e)
    <3>1. <<>> \in Seq(Uses) /\ "jne" \in Ops
      BY DEF Ops
    <3> QED
      BY <2>8, <3>1, AppendSound DEF e
  <2>11. d.code = e.code
    <3> DEFINE gone == {v \in Active(cc) : e.var[v].ends = i}
    <3>1. gone \in SUBSET Variables /\ "unused" \in {"unused", "memory"} /\ e \in Contexts
      BY <2>10, ContextFields DEF Active, Sound
    <3>2. d = Forget(e, gone, "unused")
      BY DEF EndScopes, UnuseVars, d
    <3> HIDE DEF gone
    <3> QED
      BY <3>1, <3>2, ForgetFields
  <2>12. Closed(d.code)
    BY <2>9, <2>11 DEF Closed
  <2> QED
    BY <1>1, <1>2, <2>12 DEF Translating
<1> QED
  BY <1>3, <1>4

\* Behind the loop nothing is used.
LEMMA ClosingStep ==
  ASSUME input \in Inputs, Sound(cc), TargetSound(target), NEW i \in DOMAIN Program, i > JumpPlace,
         Translating(cc, target, i)
  PROVE  Translating(TranslateEmittable(i), target, i + 1)
<1> DEFINE d == TranslateEmittable(i)
<1>1. /\ LoopPlace \in Nat /\ JumpPlace \in Nat /\ 6 <= LoopPlace /\ LoopPlace < JumpPlace
      /\ i \in Nat /\ Program[i].uses = <<>>
      /\ Program[i].op \notin {"prolog", "jne"} /\ Program[i].op # "L_Loop"
  BY Landmarks
<1>2. Refused(cc.code) \/ Closed(cc.code)
  BY <1>1 DEF Translating
<1>3. Refused(cc.code) => Refused(d.code)
  BY <1>1, StillRefused
<1>4. Closed(cc.code) => Closed(d.code)
  <2>1. \A l, a : Reaches(cc.code, l, a) => Reaches(d.code, l, a)
    BY <1>1, PlainStep
  <2> HIDE DEF d
  <2> QED
    BY <2>1 DEF Closed
<1> HIDE DEF d
<1> QED
  BY <1>1, <1>2, <1>3, <1>4 DEF Translating, d

-----------------------------------------------------------------------------
(* The invariant in the next state.                                        *)

\* Claims about the code say nothing of the rest of the state ...
LEMMA ReachesNext ==
  ASSUME NEW l, NEW a, Reaches(cc'.code, l, a)
  PROVE  Reaches(cc.code, l, a)'
<1>1. PICK A : Typed(cc'.code, A, l) /\ A[Len(cc'.code) + 1] = a
  BY DEF Reaches
<1>2. Typed(cc.code, A, l)'
  BY <1>1 DEF Typed, Weaker, Entry, Claim, Passed, AfterSave, AfterLoad, AfterExecute, Sole,
              Written, Reading, ArgRegister, Chain
<1> QED
  BY <1>1, <1>2 DEF Reaches

\* ... nor does what the assembler refuses.
LEMMA RefusedNext ==
  ASSUME Refused(cc'.code)
  PROVE  Refused(cc.code)'
BY DEF Refused, Unplaced, NoRegister

\* The program is the same in the next state.
LEMMA NeededNext ==
  ASSUME input' = input
  PROVE  Needed(place)' = Needed(place')
BY PlacesNext DEF Needed, Chain

\* Scopes are read off the program and the context.
LEMMA ScopesKeptNext ==
  ASSUME input' = input, ScopesKept(cc')
  PROVE  ScopesKept(cc)'
BY PlacesNext DEF ScopesKept

\* The positions are the same in the next state.
LEMMA PositionsNext ==
  ASSUME input' = input
  PROVE  Positions' = Positions
BY DEF Positions, Position

\* The parts of the invariant of a context that is the next one are those parts
\* in the next state: what is claimed, ...
LEMMA ToldNext ==
  ASSUME input' = input, NEW l, NEW K, Told(cc', l, K, {})
  PROVE  Told(cc, l, K, {})'
<1>1. PICK a : Reaches(cc'.code, l, a) /\ K \subseteq a.slots /\ Covers(cc', a, {})
  BY DEF Told
<1>2. Reaches(cc.code, l, a)'
  BY <1>1, ReachesNext
<1>3. Covers(cc, a, {})'
  BY <1>1, PlacesNext DEF Covers, NoRegister
<1> QED
  BY <1>1, <1>2, <1>3 DEF Told

\* ... before the loop, ...
LEMMA FillingNext ==
  ASSUME input' = input, Filling(cc', place')
  PROVE  Filling(cc, place)'
<1>1. ScopesKept(cc') /\ Alive(cc', Needed(place')) /\ Unloaded(cc') /\ Told(cc', Entry, {}, {})
  BY DEF Filling
<1>2. ScopesKept(cc)'
  BY <1>1, ScopesKeptNext
<1>3. Alive(cc, Needed(place))'
  BY <1>1, NeededNext DEF Alive
<1>4. Unloaded(cc)'
  BY <1>1, PositionsNext DEF Unloaded
<1>5. Told(cc, Entry, {}, {})'
  BY <1>1, ToldNext DEF Entry, Claim, ArgRegister, Chain
<1> QED
  BY <1>2, <1>3, <1>4, <1>5 DEF Filling

\* ... in the loop, ...
LEMMA LoopingNext ==
  ASSUME input' = input, Looping(cc', target', place')
  PROVE  Looping(cc, target, place)'
<1>1. ScopesKept(cc)'
  BY ScopesKeptNext DEF Looping
<1>2. Alive(cc, Needed(place) \cup Found(target))'
  <2>1. Alive(cc', Needed(place') \cup Found(target'))
    BY DEF Looping
  <2>2. Found(target)' = Found(target')
    BY PlacesNext DEF Found, StateAtTarget, Registers
  <2> QED
    BY <2>1, <2>2, NeededNext DEF Alive
<1>3. PICK l : Labelled(l, target') /\ Told(cc', l, l.slots \ Positions, {})
  BY DEF Looping
<1>4. Labelled(l, target)'
  BY <1>3, PositionsNext DEF Labelled
<1>5. Told(cc, l, l.slots \ Positions, {})'
  <2> DEFINE K == l.slots \ Positions
  <2>1. PICK k : k = K
    OBVIOUS
  <2>2. Told(cc, l, k, {})'
    BY <1>3, <2>1, ToldNext
  <2>3. k = (l.slots \ Positions)'
    BY <2>1, PositionsNext
  <2> QED
    BY <2>2, <2>3 DEF Told
<1> QED
  BY <1>1, <1>2, <1>4, <1>5 DEF Looping

\* ... at any place that is translated ...
LEMMA TranslatingNext ==
  ASSUME input' = input, Translating(cc', target', place')
  PROVE  Translating(cc, target, place)'
<1>1. JumpPlace' = JumpPlace /\ LoopPlace' = LoopPlace /\ Variables' = Variables
  BY PlacesNext
<1>2. place' <= 3 => ScopesKept(cc)' /\ Blank(cc)' /\ Reaches(cc.code, Entry, Entry)'
  <2> SUFFICES ASSUME place' <= 3
               PROVE  ScopesKept(cc)' /\ Blank(cc)' /\ Reaches(cc.code, Entry, Entry)'
    OBVIOUS
  <2>1. ScopesKept(cc') /\ Blank(cc') /\ Reaches(cc'.code, Entry, Entry)
    BY DEF Translating
  <2>2. Blank(cc)'
    BY <1>1, <2>1 DEF Blank
  <2>3. Entry' = Entry
    BY DEF Entry, Claim, ArgRegister, Chain
  <2> QED
    BY <2>1, <2>2, <2>3, ScopesKeptNext, ReachesNext
<1>3. place' \in 4 .. LoopPlace => Refused(cc.code)' \/ Filling(cc, place)'
  BY RefusedNext, FillingNext DEF Translating
<1>4. place' \in LoopPlace + 1 .. JumpPlace => Refused(cc.code)' \/ Looping(cc, target, place)'
  BY RefusedNext, LoopingNext DEF Translating
<1>5. place' > JumpPlace => Refused(cc.code)' \/ Closed(cc.code)'
  BY RefusedNext, ReachesNext DEF Translating, Closed
<1> QED
  BY <1>1, <1>2, <1>3, <1>4, <1>5 DEF Translating

\* ... and at any that is prepared.
LEMMA PreparingNext ==
  ASSUME input' = input, Preparing(cc', place')
  PROVE  Preparing(cc, place)'
<1>1. JumpPlace' = JumpPlace /\ Variables' = Variables
  BY PlacesNext
<1>2. cc'.code = <<>> /\ Blank(cc)'
  BY <1>1 DEF Preparing, Blank
<1>3. IF place' <= JumpPlace THEN ScopesOpen(cc, place)' ELSE ScopesKept(cc)'
  BY ScopesOpenNext, ScopesKeptNext DEF Preparing
<1> QED
  BY <1>1, <1>2, <1>3 DEF Preparing

-----------------------------------------------------------------------------
(* Preparing.                                                              *)

\* Every variable is used before the jump, and before the loop if it is used in
\* it.
LEMMA EverUsed ==
  ASSUME input \in Inputs, NEW v \in Variables
  PROVE  /\ \E q \in 1 .. JumpPlace - 1 : v \in UsedAt(q)
         /\ v \in Across => \E q \in 1 .. LoopPlace - 1 : v \in UsedAt(q)
         /\ \A k \in LoopPlace .. JumpPlace - 1 : UsedAt(k) \subseteq Across
<1> DEFINE n == input.chains_per_thread
           w == Len(FollowAll)
           l == input.loop_length
<1>1. n \in Nat \ {0} /\ l \in Nat /\ w \in Nat /\ Usage(n, w, l)
  BY ProgramUsage, ProgramPlaces
<1>2. /\ Variables = {Chain} \cup {HeadAt(i) : i \in 1 .. n} \cup {Position(i) : i \in 1 .. n}
      /\ Across = {HeadAt(1)} \cup {Position(i) : i \in 1 .. n}
  BY DEF Variables, Across
<1> HIDE DEF n, w, l
<1>3. LoopPlace = 2 * n + 4 /\ JumpPlace = 2 * n + w + l + 6
  BY <1>1 DEF Usage
<1>4. \E q \in 1 .. LoopPlace - 1 : v \in UsedAt(q)
  <2>1. CASE v = Chain
    <3>1. 1 \in 1 .. n /\ 3 + 1 \in 1 .. LoopPlace - 1
      BY <1>1, <1>3
    <3> QED
      BY <1>1, <2>1, <3>1 DEF Usage
  <2>2. ASSUME NEW i \in 1 .. n, v = HeadAt(i) PROVE \E q \in 1 .. LoopPlace - 1 : v \in UsedAt(q)
    <3>1. 3 + i \in 1 .. LoopPlace - 1
      BY <1>1, <1>3
    <3> QED
      BY <1>1, <2>2, <3>1 DEF Usage
  <2>3. ASSUME NEW i \in 1 .. n, v = Position(i) PROVE \E q \in 1 .. LoopPlace - 1 : v \in UsedAt(q)
    <3>1. n + 3 + i \in 1 .. LoopPlace - 1
      BY <1>1, <1>3
    <3> QED
      BY <1>1, <2>3, <3>1 DEF Usage
  <2> QED
    BY <1>2, <2>1, <2>2, <2>3
<1>5. LoopPlace - 1 \in Int /\ JumpPlace - 1 \in Int /\ LoopPlace - 1 <= JumpPlace - 1
  BY <1>1, <1>3
<1>6. \A k \in LoopPlace .. JumpPlace - 1 : k \in LoopPlace .. JumpPlace
  BY <1>1, <1>3
<1> QED
  BY <1>1, <1>4, <1>5, <1>6 DEF Usage

\* The jump prolongs every scope that would end in the loop.
LEMMA ScopesKeptByJump ==
  ASSUME input \in Inputs, NEW c \in Contexts, ScopesOpen(c, JumpPlace)
  PROVE  ScopesKept(PrepareJump(c, JumpPlace))
<1> DEFINE p == JumpPlace
           d == PrepareJump(c, p)
           across == {v \in Active(c) : /\ c.var[v].first <= LoopPlace - 1
                                        /\ c.var[v].last >= LoopPlace - 1}
<1>1. p \in Nat /\ LoopPlace \in Nat /\ LoopPlace < p /\ LoopPlace > 0
  BY Landmarks
<1>2. c.var \in [Variables -> VarDatas]
  BY ContextFields
<1>3. ASSUME NEW v \in Variables
      PROVE  /\ d.var[v].ends = IF v \in across THEN p ELSE c.var[v].ends
             /\ d.var[v].work = c.var[v].work
  <2>1. d.var = [u \in Variables |->
                   IF u \in across THEN [c.var[u] EXCEPT !.last = c.cur, !.ends = p]
                   ELSE c.var[u]]
    BY <1>2 DEF PrepareJump, Contexts
  <2> HIDE DEF across, d
  <2>2. CASE v \in across
    <3>1. d.var[v] = [c.var[v] EXCEPT !.last = c.cur, !.ends = p]
      BY <2>1, <2>2
    <3> QED
      BY <1>2, <2>2, <3>1 DEF VarDatas
  <2>3. CASE v \notin across
    BY <2>1, <2>3
  <2> QED
    BY <2>2, <2>3
<1> HIDE DEF d
<1>4. ASSUME NEW v \in Variables
      PROVE  /\ d.var[v].work # -1
             /\ d.var[v].ends # 0 =>
                  /\ d.var[v].ends \notin LoopPlace .. JumpPlace - 1
                  /\ \A q \in 1 .. JumpPlace - 1 : v \in UsedAt(q) => q <= d.var[v].ends
  <2>1. Scope(c, v, p)
    BY DEF ScopesOpen
  <2>2. PICK q \in 1 .. p - 1 : v \in UsedAt(q)
    BY EverUsed
  <2>3. c.var[v].work # -1
    BY <2>1, <2>2 DEF Scope
  <2>4. /\ c.var[v].ends \in 1 .. p - 1 /\ v \in UsedAt(c.var[v].ends)
        /\ c.var[v].last = c.var[v].ends - 1
        /\ \A k \in 1 .. p - 1 : v \in UsedAt(k) => c.var[v].first < k /\ k <= c.var[v].ends
    BY <2>1, <2>3 DEF Scope
  <2>5. v \in Active(c) /\ c.var[v].first \in Int /\ c.var[v].last \in Int
    BY <1>2, <2>3, VarDataFields DEF Active
  <2>6. CASE v \in across
    BY <1>1, <1>3, <2>3, <2>6
  <2>7. CASE v \notin across
    <3>1. c.var[v].ends \notin LoopPlace .. p - 1
      <4> SUFFICES ASSUME c.var[v].ends \in LoopPlace .. p - 1 PROVE FALSE
        OBVIOUS
      <4>1. v \in Across
        BY <2>4, EverUsed
      <4>2. PICK k \in 1 .. LoopPlace - 1 : v \in UsedAt(k)
        BY <4>1, EverUsed
      <4>3. c.var[v].first < k
        <5>1. k \in 1 .. p - 1
          BY <1>1
        <5> QED
          BY <2>4, <4>2, <5>1
      <4>4. c.var[v].first <= LoopPlace - 1 /\ c.var[v].last >= LoopPlace - 1
        BY <1>1, <2>4, <2>5, <4>3
      <4> QED
        BY <2>5, <2>7, <4>4
    <3> QED
      BY <1>3, <2>3, <2>4, <2>7, <3>1
  <2> QED
    BY <2>6, <2>7
<1> QED
  BY <1>4 DEF ScopesKept, d

\* To prepare an emittable keeps the invariant,
LEMMA PrepareRead ==
  ASSUME CompilerInv, phase = "prepare", Preparing(cc, place), Prepare
  PROVE  ReadInv'
<1> DEFINE d == PrepareEmittable(cc, place)
<1>1. /\ input' = input /\ cc' = d
      /\ \/ place = Len(Program) /\ place' = 1 /\ phase' = "translate"
         \/ place # Len(Program) /\ place' = place + 1 /\ phase' = "prepare"
  BY DEF Prepare
<1>2. /\ LoopPlace \in Nat /\ JumpPlace \in Nat /\ 6 <= LoopPlace /\ LoopPlace < JumpPlace
      /\ DOMAIN Program = 1 .. JumpPlace + 2 /\ Len(Program) = JumpPlace + 2
      /\ place \in 1 .. JumpPlace + 2 /\ input \in Inputs /\ cc \in Contexts
  BY Landmarks DEF CompilerInv, Sound
<1>3. d \in Contexts /\ Quiet(cc, d)
  BY <1>2, PrepareEmittableQuiet
<1>4. d.code = <<>> /\ Blank(d)
  BY <1>3 DEF Preparing, Quiet, Placed, Blank
<1>5. IF place + 1 <= JumpPlace THEN ScopesOpen(d, place + 1) ELSE ScopesKept(d)
  <2>1. CASE place < JumpPlace
    <3>1. ScopesOpen(cc, place)
      BY <1>2, <2>1 DEF Preparing
    <3>2. ScopesOpen(d, place + 1)
      BY <1>2, <2>1, <3>1, ScopesMore
    <3> QED
      BY <1>2, <2>1, <3>2
  <2>2. CASE place = JumpPlace
    <3>1. ScopesOpen(cc, JumpPlace)
      BY <1>2, <2>2 DEF Preparing
    <3>2. d = PrepareJump(cc, JumpPlace)
      BY <1>2, <2>2, Landmarks DEF PrepareEmittable
    <3> QED
      BY <1>2, <2>2, <3>1, <3>2, ScopesKeptByJump
  <2>3. CASE place > JumpPlace
    <3>1. ScopesKept(cc)
      BY <1>2, <2>3 DEF Preparing
    <3>2. Program[place].uses = <<>> /\ Program[place].op \notin {"prolog", "jne"}
      BY <1>2, <2>3, Landmarks
    <3>3. d = [cc EXCEPT !.cur = @ + 1]
      BY <3>2 DEF PrepareEmittable
    <3>4. d.var = cc.var
      BY <1>2, <3>3 DEF Contexts
    <3> HIDE DEF d
    <3> QED
      BY <1>2, <2>3, <3>1, <3>4 DEF ScopesKept
  <2> QED
    BY <1>2, <2>1, <2>2, <2>3
<1> HIDE DEF d
<1>6. CASE place # Len(Program)
  <2>1. Preparing(cc', place')
    BY <1>1, <1>4, <1>5, <1>6 DEF Preparing
  <2>2. Preparing(cc, place)'
    BY <1>1, <2>1, PreparingNext
  <2> QED
    BY <1>1, <1>6, <2>2 DEF ReadInv
<1>7. CASE place = Len(Program)
  <2>1. ScopesKept(d)
    BY <1>2, <1>5, <1>7
  <2>2. Reaches(<<>>, Entry, Entry)
    <3> DEFINE A == [k \in {1} |-> Entry]
    <3>1. Typed(<<>>, A, Entry) /\ A[Len(<<>>) + 1] = Entry
      BY DEF Typed, Weaker
    <3> HIDE DEF A
    <3> QED
      BY <3>1 DEF Reaches
  <2>3. Translating(cc', target', place')
    BY <1>1, <1>2, <1>4, <1>7, <2>1, <2>2 DEF Translating
  <2>4. Translating(cc, target, place)'
    BY <1>1, <2>3, TranslatingNext
  <2> QED
    BY <1>1, <1>7, <2>4 DEF ReadInv
<1> QED
  BY <1>6, <1>7

\* to translate it does,
LEMMA TranslateRead ==
  ASSUME CompilerInv, CodeInv, Translating(cc, target, place), Translate
  PROVE  ReadInv'
<1> DEFINE d == TranslateEmittable(place)
           t == IF place = LoopPlace THEN SaveState(cc) ELSE target
<1>1. /\ phase = "translate" /\ phase' = "translate" /\ input' = input
      /\ place \in DOMAIN Program /\ place' = place + 1 /\ cc' = d /\ target' = t
  BY DEF Translate
<1>2. /\ LoopPlace \in Nat /\ JumpPlace \in Nat /\ 6 <= LoopPlace /\ LoopPlace < JumpPlace
      /\ input \in Inputs /\ Sound(cc) /\ TargetSound(target)
      /\ place \in Nat \ {0} /\ (place <= 3 => cc.used = {})
  BY <1>1, Landmarks DEF CompilerInv, Early
<1>3. Translating(d, t, place + 1)
  <2>1. CASE place \in {1, 2}
    BY <1>2, <2>1, OpeningStep
  <2>2. CASE place = 3
    <3>1. Translating(TranslateEmittable(3), t, 4)
      BY <1>2, <2>2, PrologStep
    <3> QED
      BY <2>2, <3>1
  <2>3. CASE place \in 4 .. LoopPlace - 1
    BY <1>2, <2>3, FillStep
  <2>4. CASE place = LoopPlace
    BY <1>1, <2>4, LabelStep
  <2>5. CASE place \in LoopPlace + 1 .. JumpPlace - 1
    <3>1. t = target
      BY <1>2, <2>5
    <3> QED
      BY <1>2, <2>5, <3>1, LoopStep
  <2>6. CASE place = JumpPlace
    <3>1. t = target
      BY <1>2, <2>6
    <3> QED
      BY <1>2, <2>6, <3>1, JumpStep
  <2>7. CASE place > JumpPlace
    <3>1. t = target
      BY <1>2, <2>7
    <3> QED
      BY <1>1, <1>2, <2>7, <3>1, ClosingStep
  <2> QED
    BY <1>2, <2>1, <2>2, <2>3, <2>4, <2>5, <2>6, <2>7
<1> HIDE DEF d, t
<1>4. Translating(cc', target', place')
  BY <1>1, <1>3
<1>5. Translating(cc, target, place)'
  BY <1>1, <1>4, TranslatingNext
<1> QED
  BY <1>1, <1>5 DEF ReadInv

\* it holds in the beginning,
LEMMA ReadInit ==
  ASSUME Init
  PROVE  ReadInv
<1>1. phase = "prepare" /\ place = 1 /\ cc = NewContext(Variables) /\ input \in Inputs
  BY DEF Init, InitCompiler
<1>2. /\ cc.code = <<>> /\ cc.cur = 0
      /\ \A v \in Variables : cc.var[v] = NewVarData
  BY <1>1 DEF NewContext
<1>3. Blank(cc)
  BY <1>2 DEF Blank, NewVarData
<1>4. ScopesOpen(cc, 1)
  <2>1. ASSUME NEW v \in Variables PROVE Scope(cc, v, 1)
    <3>1. cc.var[v].work = -1 /\ cc.var[v].first = -1
      BY <1>2 DEF NewVarData
    <3> QED
      BY <3>1 DEF Scope
  <2> QED
    BY <1>2, <2>1 DEF ScopesOpen
<1>5. 1 <= JumpPlace
  BY <1>1, Landmarks
<1> QED
  BY <1>1, <1>2, <1>3, <1>4, <1>5 DEF ReadInv, Preparing

\* and every step keeps it.
LEMMA ReadStep ==
  ASSUME CompilerInv, CodeInv, ReadInv, [Next]_vars
  PROVE  ReadInv'
<1>1. CASE Prepare
  BY <1>1, PrepareRead DEF ReadInv, Prepare
<1>2. CASE Translate
  BY <1>2, TranslateRead DEF ReadInv, Translate
<1>3. CASE ~Prepare /\ ~Translate
  <2>1. /\ input' = input /\ cc' = cc /\ target' = target /\ place' = place
        /\ phase' = "prepare" <=> phase = "prepare"
    BY <1>3 DEF Next, Compile, StartEncode, Encode, Make, Call, Save, Load, Execute, Jump, Return,
                vars, codeVars, compilerVars
  <2>2. CASE phase = "prepare"
    <3>1. Preparing(cc', place')
      BY <2>1, <2>2 DEF ReadInv
    <3>2. Preparing(cc, place)'
      BY <2>1, <3>1, PreparingNext
    <3> QED
      BY <2>1, <2>2, <3>2 DEF ReadInv
  <2>3. CASE phase # "prepare"
    <3>1. Translating(cc', target', place')
      BY <2>1, <2>3 DEF ReadInv
    <3>2. Translating(cc, target, place)'
      BY <2>1, <3>1, TranslatingNext
    <3> QED
      BY <2>1, <2>3, <3>2 DEF ReadInv
  <2> QED
    BY <2>2, <2>3
<1> QED
  BY <1>1, <1>2, <1>3

\* What the allocator believes of the registers and the slots is so in the code
\* it wrote: behind every instruction there are claims that cover its view.
THEOREM ReadInvariance == Spec => [](CompilerInv /\ CodeInv /\ AssemblerInv /\ ReadInv)
<1>1. Init => ReadInv
  BY ReadInit
<1>2. CompilerInv /\ CodeInv /\ ReadInv /\ [Next]_vars => ReadInv'
  BY ReadStep
<1> QED
  BY <1>1, <1>2, Assembled, PTL DEF Spec

-----------------------------------------------------------------------------
(* The finished code.                                                      *)

\* In front of the label stands an instruction that is not empty; and the jump
\* uses no variable.
LEMMA CodeAround ==
  ASSUME CompilerInv, CodeInv, phase \in {"encode", "made"},
         NEW loop, NEW jump, Placing(loop, jump)
  PROVE  /\ loop - 1 \in DOMAIN Code /\ Wide(Code[loop - 1])
         /\ Code[jump].uses = <<>>
<1> DEFINE m == JumpPlace + 2
           p == LoopPlace
           q == JumpPlace
<1>1. input \in Inputs /\ Code \in Seq(Items) /\ place \in Nat
  BY ContextFields DEF CompilerInv, Sound, Code
<1>2. /\ p \in Nat /\ q \in Nat /\ 6 <= p /\ p + 2 <= q
      /\ DOMAIN Program = 1 .. m /\ Len(Program) = m
      /\ Program[p].op = "L_Loop" /\ Program[q].op = "jne" /\ Program[q].uses = <<>>
  BY <1>1, Landmarks
<1>3. Program[p - 1].op = "position"
  <2> DEFINE n == input.chains_per_thread
             w == Len(FollowAll)
             l == input.loop_length
  <2>1. n \in Nat \ {0} /\ l \in Nat /\ w \in Nat /\ Places(n, w, l) /\ Sections(n, w, l)
    BY <1>1, ProgramPlaces, ProgramSections
  <2> HIDE DEF n, w, l
  <2>2. p = 2 * n + 4 /\ Section(Program, n + 4, 2 * n + 3, {"position"})
    BY <2>1 DEF Places, Sections
  <2> HIDE DEF p
  <2>3. p - 1 \in n + 4 .. 2 * n + 3
    BY <2>1, <2>2
  <2> QED
    BY <2>2, <2>3 DEF Section
<1> HIDE DEF m, p, q
<1>4. PICK f \in [0 .. m -> 0 .. Len(Code)] : Laid(Code, f, m)
  BY <1>2 DEF CodeInv, Translations
<1>5. /\ p \in 1 .. m /\ q \in 1 .. m /\ p - 1 \in 1 .. m /\ p \in 0 .. m /\ q \in 0 .. m
      /\ p - 1 \in 0 .. m /\ q - 1 \in 0 .. m /\ (p - 1) - 1 \in 0 .. m
  BY <1>2 DEF m, p, q
<1>6. /\ f[p] \in 0 .. Len(Code) /\ f[q] \in 0 .. Len(Code) /\ f[p - 1] \in 0 .. Len(Code)
      /\ f[q - 1] \in 0 .. Len(Code) /\ f[(p - 1) - 1] \in 0 .. Len(Code)
  BY <1>4, <1>5
<1>7. /\ f[p - 1] < f[p] /\ f[q - 1] < f[q] /\ f[(p - 1) - 1] < f[p - 1]
      /\ Code[f[p]].op = "L_Loop" /\ Code[f[q]].op = "jne" /\ Code[f[q]].uses = <<>>
      /\ Code[f[p - 1]].op = "position"
      /\ \A j \in f[p - 1] + 1 .. f[p] - 1 : Code[j].op \in {"save", "load"}
  BY <1>2, <1>3, <1>4, <1>5 DEF Laid
<1>8. f[p] \in DOMAIN Code /\ f[q] \in DOMAIN Code /\ f[p] - 1 \in DOMAIN Code
  <2>1. DOMAIN Code = 1 .. Len(Code) /\ Len(Code) \in Nat
    BY <1>1
  <2>2. f[q - 1] < f[q] /\ f[p - 1] < f[p] /\ f[(p - 1) - 1] < f[p - 1]
    BY <1>7
  <2>3. f[q] \in 1 .. Len(Code)
    BY <1>6, <2>1, <2>2
  <2>4. f[p - 1] \in 1 .. Len(Code)
    BY <1>6, <2>1, <2>2
  <2>5. \A k, x, y \in Nat : x \in 1 .. k /\ y \in 0 .. k /\ x < y =>
           y \in 1 .. k /\ y - 1 \in 1 .. k
    OBVIOUS
  <2>6. f[p - 1] \in Nat /\ f[p] \in Nat /\ f[p] \in 0 .. Len(Code)
    BY <1>6, <2>1
  <2>7. f[p] \in 1 .. Len(Code) /\ f[p] - 1 \in 1 .. Len(Code)
    BY <2>1, <2>2, <2>4, <2>5, <2>6
  <2> QED
    BY <2>1, <2>3, <2>7
<1>9. f[p] = loop /\ f[q] = jump
  <2>1. f[p] \in DOMAIN Code /\ Code[f[p]].op = "L_Loop" => f[p] = loop
    BY DEF Placing
  <2>2. f[q] \in DOMAIN Code /\ Code[f[q]].op = "jne" => f[q] = jump
    BY DEF Placing
  <2> QED
    BY <1>7, <1>8, <2>1, <2>2
<1>10. Wide(Code[f[p] - 1])
  <2>1. CASE f[p - 1] = f[p] - 1
    BY <1>7, <2>1 DEF Wide
  <2>2. CASE f[p - 1] # f[p] - 1
    <3>1. f[p - 1] \in Nat /\ f[p] \in Nat /\ f[p - 1] < f[p]
      BY <1>6, <1>7
    <3>2. f[p] - 1 \in f[p - 1] + 1 .. f[p] - 1
      BY <2>2, <3>1
    <3> QED
      BY <1>7, <3>2 DEF Wide
  <2> QED
    BY <2>1, <2>2
<1> QED
  BY <1>7, <1>8, <1>9, <1>10

\* The instructions in front of the label are not empty.
LEMMA WideLengths ==
  ASSUME NEW item, Wide(item)
  PROVE  Len(Lengths(item)) = 1 /\ Lengths(item)[1] \in Nat \ {0}
<1>1. CASE item.op = "position"
  BY <1>1 DEF Lengths, MoveRegister
<1>2. CASE item.op \in {"save", "load"}
  <2> DEFINE x == Move(ESP, SlotOf(item.v))
  <2>1. \A base, disp : Move(base, disp) \in Nat \ {0}
    BY DEF Move, ModM
  <2>2. x \in Nat \ {0}
    BY <2>1
  <2>3. Lengths(item) = <<x>>
    BY <1>2 DEF Lengths
  <2> HIDE DEF x
  <2> QED
    BY <2>2, <2>3
<1> QED
  BY <1>1, <1>2 DEF Wide

\* Nothing has been emitted in the beginning.
LEMMA EncodeInit == Init => EncodeInv
BY DEF Init, InitAssembler, EncodeInv

\* An emittable begins behind those before it.
LEMMA EncodeEncode ==
  ASSUME CompilerInv, CodeInv, AssemblerInv, EncodeInv, Encode
  PROVE  EncodeInv'
<1> DEFINE n == Len(starts)
           item == Code[n + 1]
           here == buffer.offset
           lengths == Lengths(item)
           behind == FoldLeft(EmitInstruction, buffer, lengths)
<1>1. /\ phase = "encode" /\ n < Len(Code) /\ Code' = Code /\ starts' = Append(starts, here)
      /\ phase' # "failed" => ~Unplaced(item) /\ buffer' = behind
  BY DEF Encode, Code
<1>2. starts \in Seq(Nat) /\ n \in Nat /\ buffer \in Buffers /\ here \in Nat
  BY DEF AssemblerInv, Buffers
<1>3. lengths \in Seq(0 .. 15)
  BY LengthsType
<1>4. Wide(item) => Len(lengths) = 1 /\ lengths[1] \in Nat \ {0}
  BY WideLengths
<1> HIDE DEF lengths
<1>5. /\ behind \in Buffers /\ behind.offset >= here
      /\ Len(lengths) = 1 => behind.offset = here + lengths[1]
  BY <1>2, <1>3, EmitAllFits
<1> HIDE DEF behind
<1>6. behind.offset \in Nat
  BY <1>5 DEF Buffers
<1>7. Wide(item) => here < behind.offset
  <2> SUFFICES ASSUME Wide(item) PROVE here < behind.offset
    OBVIOUS
  <2>1. Len(lengths) = 1 /\ lengths[1] \in Nat \ {0} /\ behind.offset = here + lengths[1]
    BY <1>4, <1>5
  <2>2. here \in Nat
    BY <1>2
  <2> HIDE DEF here, item
  <2> QED
    BY <2>1, <2>2
<1>8. /\ DOMAIN starts = 1 .. n /\ DOMAIN starts' = 1 .. n + 1 /\ starts'[n + 1] = here
      /\ \A k \in 1 .. n : starts'[k] = starts[k] /\ starts[k] \in Nat
  BY <1>1, <1>2
<1>9. \A k \in 1 .. n :
        /\ ~Unplaced(Code[k])
        /\ starts[k] <= here /\ (Wide(Code[k]) => starts[k] < here)
        /\ \A j \in 1 .. k - 1 :
             starts[j] <= starts[k] /\ (Wide(Code[j]) => starts[j] < starts[k])
  BY <1>1, <1>8 DEF EncodeInv
<1> HIDE DEF item, here, n
<1> SUFFICES ASSUME phase' # "failed", NEW k \in 1 .. n + 1
             PROVE  /\ ~Unplaced(Code[k])
                    /\ starts'[k] <= behind.offset /\ (Wide(Code[k]) => starts'[k] < behind.offset)
                    /\ \A j \in 1 .. k - 1 :
                         starts'[j] <= starts'[k] /\ (Wide(Code[j]) => starts'[j] < starts'[k])
  BY <1>1, <1>8 DEF EncodeInv, Unplaced, NoRegister, Wide
<1>10. CASE k = n + 1
  <2>1. ~Unplaced(Code[k]) /\ starts'[k] = here /\ Code[k] = item
    BY <1>1, <1>8, <1>10 DEF item, n
  <2>2. k - 1 = n
    BY <1>2, <1>10
  <2>3. \A j \in 1 .. k - 1 : starts'[j] <= starts'[k] /\ (Wide(Code[j]) => starts'[j] < starts'[k])
    BY <1>8, <1>9, <2>1, <2>2
  <2> QED
    BY <1>2, <1>5, <1>6, <1>7, <2>1, <2>3
<1>11. CASE k # n + 1
  <2>1. k \in 1 .. n /\ \A j \in 1 .. k - 1 : j \in 1 .. n
    BY <1>2, <1>11
  <2>2. starts'[k] = starts[k] /\ starts[k] \in Nat /\ \A j \in 1 .. k - 1 : starts'[j] = starts[j]
    BY <1>8, <2>1
  <2> QED
    BY <1>2, <1>5, <1>6, <1>9, <2>1, <2>2
<1> QED
  BY <1>10, <1>11

\* ... and nothing that was emitted moves.
LEMMA EncodeStays ==
  ASSUME CompilerInv, CodeInv, AssemblerInv, EncodeInv, [Next]_vars
  PROVE  EncodeInv'
<1>1. CASE Encode
  BY <1>1, EncodeEncode
<1>2. CASE Compile /\ UNCHANGED assemblerVars
  <2>1. phase \in {"prepare", "translate"}
    BY <1>2 DEF Compile, Prepare, Translate
  <2>2. DOMAIN starts' = {}
    BY <1>2, <2>1 DEF AssemblerInv, assemblerVars
  <2> QED
    BY <2>2 DEF EncodeInv
<1>3. CASE StartEncode \/ Make \/ Call \/ Save \/ Load \/ Execute \/ Jump \/ Return \/ UNCHANGED vars
  <2>1. Code' = Code /\ starts' = starts /\ buffer' = buffer /\ (phase = "failed" => phase' = "failed")
    BY <1>3 DEF StartEncode, Make, Call, Save, Load, Execute, Jump, Return, AtOp,
                vars, codeVars, compilerVars, assemblerVars, Code
  <2> QED
    BY <2>1 DEF EncodeInv, Unplaced, NoRegister, Wide
<1> QED
  BY <1>1, <1>2, <1>3 DEF Next

-----------------------------------------------------------------------------
(* The finished function runs.                                             *)

\* The jump leads to the label: no emittable before it begins there.
LEMMA LandsOnLabel ==
  ASSUME CompilerInv, CodeInv, AssemblerInv, EncodeInv, phase = "made",
         NEW k \in DOMAIN Code, Code[k].op = "jne"
  PROVE  Code[Landing(k)].op = "L_Loop" /\ Code[k].uses = <<>>
<1>1. Code \in Seq(Items) /\ starts \in Seq(Nat) /\ Len(starts) = Len(Code)
  BY ContextFields DEF AssemblerInv, CompilerInv, Sound, Code
<1>2. PICK loop \in Nat, jump \in Nat : Placing(loop, jump)
  BY CodePlaces
<1>3. k < Len(Code) /\ loop \in DOMAIN Code /\ Code[loop].op = "L_Loop" /\ k = jump
  BY <1>2 DEF Placing
<1>4. loop - 1 \in DOMAIN Code /\ Wide(Code[loop - 1]) /\ Code[k].uses = <<>>
  BY <1>2, <1>3, CodeAround
<1>5. DOMAIN starts = DOMAIN Code /\ DOMAIN starts = 1 .. Len(Code) /\ Len(Code) \in Nat
      /\ \A j \in DOMAIN starts : starts[j] \in Nat
  BY <1>1
<1>6. Behind(k) = starts[k + 1]
  BY <1>1, <1>3 DEF Behind
<1> DEFINE there == starts[k + 1] + displacement
<1>7. there = label
  BY <1>5, <1>6 DEF AssemblerInv
<1>8. starts[loop] = there
  BY <1>3, <1>5, <1>7 DEF AssemblerInv
<1>9. Landing(k) = CHOOSE j \in DOMAIN starts : starts[j] = there /\ \A i \in 1 .. j - 1 : starts[i] # there
  BY DEF Landing
<1> HIDE DEF there
<1>10. ASSUME NEW i \in 1 .. loop - 1 PROVE starts[i] # there
  <2>1. i \in DOMAIN starts /\ loop - 1 \in DOMAIN starts /\ loop \in DOMAIN starts
    BY <1>3, <1>4, <1>5
  <2>2. starts[loop - 1] < starts[loop]
    <3>1. loop - 1 \in 1 .. loop - 1
      BY <1>4, <1>5
    <3> QED
      BY <1>4, <2>1, <3>1 DEF EncodeInv
  <2>3. starts[i] <= starts[loop - 1]
    <3>1. CASE i = loop - 1
      BY <1>5, <2>1, <3>1
    <3>2. CASE i # loop - 1
      <4>1. i \in 1 .. (loop - 1) - 1
        BY <1>2, <3>2
      <4> QED
        BY <2>1, <4>1 DEF EncodeInv
    <3> QED
      BY <3>1, <3>2
  <2>4. starts[i] \in Nat /\ starts[loop - 1] \in Nat /\ starts[loop] \in Nat
    BY <1>5, <2>1
  <2> QED
    BY <1>8, <2>2, <2>3, <2>4
<1> DEFINE First(j) == starts[j] = there /\ \A i \in 1 .. j - 1 : starts[i] # there
<1>11. loop \in DOMAIN starts /\ First(loop)
  BY <1>3, <1>5, <1>8, <1>10
<1>12. Landing(k) \in DOMAIN starts /\ First(Landing(k))
  BY <1>9, <1>11
<1>13. Landing(k) = loop
  <2> DEFINE j == Landing(k)
  <2>1. j \in DOMAIN starts /\ starts[j] = there /\ \A i \in 1 .. j - 1 : starts[i] # there
    BY <1>12
  <2> HIDE DEF j
  <2>2. ~(loop < j)
    <3>1. loop < j => loop \in 1 .. j - 1
      BY <1>3, <1>5, <2>1
    <3> QED
      BY <1>8, <2>1, <3>1
  <2>3. ~(j < loop)
    <3>1. j < loop => j \in 1 .. loop - 1
      BY <1>3, <1>5, <2>1
    <3> QED
      BY <1>10, <2>1, <3>1
  <2>4. j \in Nat /\ loop \in Nat
    BY <1>2, <1>5, <2>1
  <2>5. j = loop
    BY <2>2, <2>3, <2>4
  <2> QED
    BY <2>5 DEF j
<1> QED
  BY <1>3, <1>4, <1>13

\* A function that was made has claims that hold between its emittables.
LEMMA MadeTyped ==
  ASSUME CompilerInv, CodeInv, AssemblerInv, EncodeInv, ReadInv, Make, phase' = "made"
  PROVE  \E A, l : Typed(Code, A, l)
<1>1. phase = "encode" /\ Len(starts) = Len(Code) /\ input \in Inputs /\ Code \in Seq(Items)
      /\ starts \in Seq(Nat)
  BY ContextFields DEF Make, CompilerInv, Sound, Code, AssemblerInv
<1>2. DOMAIN starts = DOMAIN Code
  BY <1>1
<1>3. ~Refused(Code)
  BY <1>1, <1>2 DEF EncodeInv, Refused
<1>4. place > JumpPlace
  <2>1. place - 1 = Len(Program)
    BY <1>1 DEF CodeInv, Translations
  <2>2. JumpPlace \in Nat /\ Len(Program) = JumpPlace + 2 /\ place \in Nat
    BY <1>1, Landmarks DEF CompilerInv
  <2> QED
    BY <2>1, <2>2
<1>5. Closed(Code)
  BY <1>1, <1>3, <1>4 DEF ReadInv, Translating, Code
<1> QED
  BY <1>5 DEF Closed, Reaches

\* The claims in the next state, when the code is the same.
LEMMA RunNext ==
  ASSUME NEW A, NEW l, Typed(Code, A, l), UNCHANGED codeVars,
         pc' # 0 => /\ \A f \in A[pc'].regs : f[1] \in Registers => holds'[f[1]] = f[2]
                    /\ A[pc'].slots \subseteq fresh'
  PROVE  RunInv'
<1>1. Typed(cc'.code, A, l)
  BY DEF codeVars, compilerVars, Code
<1>2. Typed(cc.code, A, l)'
  BY <1>1 DEF Typed, Weaker, Entry, Claim, Passed, AfterSave, AfterLoad, AfterExecute, Sole,
              Written, Reading, ArgRegister, Chain
<1>3. (pc # 0 => Keeps(A[pc]))'
  BY DEF Keeps, Registers
<1> QED
  BY <1>2, <1>3 DEF RunInv, Code

\* The claims of the emittable behind are kept if those passed on to it are.
LEMMA PassedOn ==
  ASSUME NEW A, NEW l, Typed(Code, A, l), NEW k \in 1 .. Len(Code), UNCHANGED codeVars, pc' = k + 1,
         \A f \in Passed(Code[k], A[k]).regs : f[1] \in Registers => holds'[f[1]] = f[2],
         Passed(Code[k], A[k]).slots \subseteq fresh'
  PROVE  RunInv'
<1>1. Weaker(A[k + 1], Passed(Code[k], A[k]))
  BY DEF Typed
<1> DEFINE b == A[k + 1]
           a == Passed(Code[k], A[k])
<1>2. b.regs \subseteq a.regs /\ b.slots \subseteq a.slots
  BY <1>1 DEF Weaker
<1> HIDE DEF b, a
<1>3. /\ \A f \in b.regs : f[1] \in Registers => holds'[f[1]] = f[2]
      /\ b.slots \subseteq fresh'
  BY <1>2 DEF a
<1> QED
  BY <1>3, RunNext DEF b

\* An instruction writes its variables and makes every other copy of them stale.
LEMMA ExecuteRuns ==
  ASSUME CompilerInv, CodeInv, EncodeInv, AssemblerInv, MachineInv, Execute,
         NEW A, NEW l, Typed(Code, A, l), Keeps(A[pc])
  PROVE  RunInv'
<1> DEFINE item == Code[pc]
           a == A[pc]
           written == {item.uses[k].v : k \in Written(item)}
           taken == {item.regs[k] : k \in Written(item)}
           h == [r \in Registers |->
                   IF \E k \in Written(item) : item.regs[k] = r
                   THEN item.uses[CHOOSE k \in Written(item) : item.regs[k] = r].v
                   ELSE IF holds[r] \in written THEN NoVariable
                   ELSE holds[r]]
<1>1. /\ pc \in DOMAIN Code /\ item.op \notin {"save", "load"} /\ pc' = pc + 1
      /\ UNCHANGED codeVars /\ holds' = h /\ fresh' = fresh \ written
  BY DEF Execute, MachineInv
<1>2. pc \in 1 .. Len(Code)
  <2>1. Code \in Seq(Items)
    BY ContextFields DEF CompilerInv, Sound, Code
  <2> QED
    BY <1>1, <2>1
<1>3. Passed(item, a) = AfterExecute(item, a)
  BY <1>1 DEF Passed
<1>4. /\ \A f \in a.regs : f[1] \in Registers => holds[f[1]] = f[2]
      /\ a.slots \subseteq fresh
  BY DEF Keeps
<1>5. /\ AfterExecute(item, a).slots = a.slots \ written
      /\ AfterExecute(item, a).regs =
           {f \in a.regs : f[1] \notin taken /\ f[2] \notin written}
             \cup {<<item.regs[k], item.uses[k].v>> : k \in {m \in Written(item) : Sole(item, m)}}
  BY DEF AfterExecute, Claim
<1> HIDE DEF item, a
<1>6. ASSUME NEW f \in a.regs, f[1] \notin taken, f[2] \notin written, f[1] \in Registers
      PROVE  h[f[1]] = f[2]
  <2>1. ~\E k \in Written(item) : item.regs[k] = f[1]
    BY <1>6
  <2>2. holds[f[1]] = f[2]
    BY <1>4, <1>6
  <2> HIDE DEF written, taken
  <2> QED
    BY <1>6, <2>1, <2>2
<1>7. ASSUME NEW k \in Written(item), Sole(item, k), item.regs[k] \in Registers
      PROVE  h[item.regs[k]] = item.uses[k].v
  <2> DEFINE r == item.regs[k]
             j == CHOOSE m \in Written(item) : item.regs[m] = r
  <2>1. j \in Written(item) /\ item.regs[j] = item.regs[k]
    OBVIOUS
  <2>2. h[r] = item.uses[j].v
    BY <1>7
  <2> HIDE DEF j
  <2>3. item.uses[j].v = item.uses[k].v
    BY <1>7, <2>1 DEF Sole
  <2> QED
    BY <2>2, <2>3
<1> HIDE DEF h, taken, written
<1>8. ASSUME NEW f \in AfterExecute(item, a).regs, f[1] \in Registers
      PROVE  h[f[1]] = f[2]
  <2>1. CASE f \in a.regs /\ f[1] \notin taken /\ f[2] \notin written
    BY <1>6, <1>8, <2>1
  <2>2. CASE \E k \in Written(item) : Sole(item, k) /\ f = <<item.regs[k], item.uses[k].v>>
    <3>1. PICK k \in Written(item) : Sole(item, k) /\ f = <<item.regs[k], item.uses[k].v>>
      BY <2>2
    <3> QED
      BY <1>7, <1>8, <3>1
  <2> QED
    BY <1>5, <1>8, <2>1, <2>2
<1>9. AfterExecute(item, a).slots \subseteq fresh'
  BY <1>1, <1>4, <1>5
<1> QED
  BY <1>1, <1>2, <1>3, <1>8, <1>9, PassedOn DEF item, a

\* A save makes the slot as good as the register ...
LEMMA SaveRuns ==
  ASSUME CompilerInv, MachineInv, Save, NEW A, NEW l, Typed(Code, A, l), Keeps(A[pc])
  PROVE  RunInv'
<1> DEFINE item == Code[pc]
           a == A[pc]
<1>1. /\ pc \in DOMAIN Code /\ item.op = "save" /\ pc' = pc + 1 /\ UNCHANGED codeVars
      /\ holds' = holds
      /\ fresh' = IF holds[item.r] = item.v THEN fresh \cup {item.v} ELSE fresh \ {item.v}
  BY DEF Save, AtOp, MachineInv
<1>2. pc \in 1 .. Len(Code)
  <2>1. Code \in Seq(Items)
    BY ContextFields DEF CompilerInv, Sound, Code
  <2> QED
    BY <1>1, <2>1
<1>3. item.r \in Registers
  BY <1>1, CodeItem
<1>4. /\ \A f \in a.regs : f[1] \in Registers => holds[f[1]] = f[2]
      /\ a.slots \subseteq fresh
  BY DEF Keeps
<1>5. /\ Passed(item, a).regs = a.regs
      /\ Passed(item, a).slots = IF <<item.r, item.v>> \in a.regs THEN a.slots \cup {item.v}
                                                                   ELSE a.slots \ {item.v}
  BY <1>1 DEF Passed, AfterSave, Claim
<1> HIDE DEF item, a
<1>6. <<item.r, item.v>> \in a.regs => holds[item.r] = item.v
  BY <1>3, <1>4
<1>7. Passed(item, a).slots \subseteq fresh'
  BY <1>1, <1>4, <1>5, <1>6
<1>8. \A f \in Passed(item, a).regs : f[1] \in Registers => holds'[f[1]] = f[2]
  BY <1>1, <1>4, <1>5
<1> QED
  BY <1>1, <1>2, <1>7, <1>8, PassedOn DEF item, a

\* ... and a load the register as good as the slot.
LEMMA LoadRuns ==
  ASSUME CompilerInv, MachineInv, Load, NEW A, NEW l, Typed(Code, A, l), Keeps(A[pc])
  PROVE  RunInv'
<1> DEFINE item == Code[pc]
           a == A[pc]
<1>1. /\ pc \in DOMAIN Code /\ item.op = "load" /\ pc' = pc + 1 /\ UNCHANGED codeVars
      /\ fresh' = fresh
      /\ holds' = [holds EXCEPT ![item.r] = IF item.v \in fresh THEN item.v ELSE NoVariable]
  BY DEF Load, AtOp, MachineInv
<1>2. pc \in 1 .. Len(Code)
  <2>1. Code \in Seq(Items)
    BY ContextFields DEF CompilerInv, Sound, Code
  <2> QED
    BY <1>1, <2>1
<1>3. item.r \in Registers
  BY <1>1, CodeItem
<1>4. /\ \A f \in a.regs : f[1] \in Registers => holds[f[1]] = f[2]
      /\ a.slots \subseteq fresh
  BY DEF Keeps
<1>5. /\ Passed(item, a).slots = a.slots
      /\ Passed(item, a).regs =
           {f \in a.regs : f[1] # item.r}
             \cup (IF item.v \in a.slots THEN {<<item.r, item.v>>} ELSE {})
  BY <1>1 DEF Passed, AfterLoad, Claim
<1>6. DOMAIN holds = Registers
  BY DEF MachineInv
<1> HIDE DEF item, a
<1>7. ASSUME NEW f \in Passed(item, a).regs, f[1] \in Registers
      PROVE  holds'[f[1]] = f[2]
  <2>1. CASE f \in a.regs /\ f[1] # item.r
    BY <1>1, <1>4, <1>6, <1>7, <2>1
  <2>2. CASE item.v \in a.slots /\ f = <<item.r, item.v>>
    <3>1. item.v \in fresh /\ f[1] = item.r /\ f[2] = item.v
      BY <1>4, <2>2
    <3> QED
      BY <1>1, <1>3, <1>6, <3>1
  <2> QED
    BY <1>5, <1>7, <2>1, <2>2
<1>8. Passed(item, a).slots \subseteq fresh'
  BY <1>1, <1>4, <1>5
<1> QED
  BY <1>1, <1>2, <1>7, <1>8, PassedOn DEF item, a

\* Taken, the jump leads to where no more is claimed; and not taken, it passes
\* on what it was given.
LEMMA JumpRuns ==
  ASSUME CompilerInv, CodeInv, AssemblerInv, EncodeInv, MachineInv, Jump,
         NEW A, NEW l, Typed(Code, A, l), Keeps(A[pc])
  PROVE  RunInv'
<1> DEFINE item == Code[pc]
           a == A[pc]
<1>1. /\ pc \in DOMAIN Code /\ item.op = "jne" /\ UNCHANGED codeVars /\ phase = "made"
      /\ fresh' = fresh /\ holds' = holds /\ pc' \in {Landing(pc), pc + 1}
  BY DEF Jump, AtOp, MachineInv
<1>2. Code \in Seq(Items)
  BY ContextFields DEF CompilerInv, Sound, Code
<1>3. pc \in 1 .. Len(Code)
  BY <1>1, <1>2
<1>4. /\ \A f \in a.regs : f[1] \in Registers => holds[f[1]] = f[2]
      /\ a.slots \subseteq fresh
  BY DEF Keeps
<1>5. Code[Landing(pc)].op = "L_Loop" /\ item.uses = <<>> /\ Landing(pc) \in DOMAIN Code
  BY <1>1, LandsOnLabel, LandingPlace
<1>6. CASE pc' = Landing(pc)
  <2>1. Landing(pc) \in 1 .. Len(Code)
    BY <1>2, <1>5
  <2>2. Weaker(l, a) /\ A[pc'] = l
    BY <1>1, <1>3, <1>5, <1>6, <2>1 DEF Typed
  <2> HIDE DEF item, a
  <2>3. /\ \A f \in A[pc'].regs : f[1] \in Registers => holds'[f[1]] = f[2]
        /\ A[pc'].slots \subseteq fresh'
    BY <1>1, <1>4, <2>2 DEF Weaker
  <2> QED
    BY <1>1, <2>3, RunNext
<1>7. CASE pc' = pc + 1
  <2>1. DOMAIN item.regs = DOMAIN item.uses
    BY <1>1, CodeItem
  <2> HIDE DEF item, a
  <2>2. Written(item) = {}
    BY <1>5, <2>1 DEF Written
  <2>3. Passed(item, a).regs \subseteq a.regs /\ Passed(item, a).slots \subseteq a.slots
    BY <1>1, <2>2 DEF Passed, AfterExecute, Claim
  <2>4. /\ \A f \in Passed(item, a).regs : f[1] \in Registers => holds'[f[1]] = f[2]
        /\ Passed(item, a).slots \subseteq fresh'
    BY <1>1, <1>4, <2>3
  <2> QED
    BY <1>1, <1>3, <1>7, <2>4, PassedOn DEF item, a
<1> QED
  BY <1>1, <1>6, <1>7

\* The caller passes the chains in the register that the entry claims.
LEMMA CallRuns ==
  ASSUME Call, NEW A, NEW l, Typed(Code, A, l)
  PROVE  RunInv'
<1>1. /\ pc' = 1 /\ UNCHANGED codeVars /\ fresh' = {}
      /\ holds' = [r \in Registers |-> IF r = ArgRegister THEN Chain ELSE Caller]
  BY DEF Call
<1>2. A[1].regs \subseteq {<<ArgRegister, Chain>>} /\ A[1].slots \subseteq {}
  BY DEF Typed, Weaker, Entry, Claim
<1> QED
  BY <1>1, <1>2, RunNext

\* Every step of the function leads to a place whose claims are so.
LEMMA RunStep ==
  ASSUME CompilerInv, CodeInv, AssemblerInv, EncodeInv, ReadInv, MachineInv, RunInv, [Next]_vars
  PROVE  RunInv'
<1>1. CASE phase = "made"
  <2>1. PICK A, l : Typed(Code, A, l) /\ (pc # 0 => Keeps(A[pc]))
    BY <1>1 DEF RunInv
  <2>2. CASE Save \/ Load \/ Execute \/ Jump
    <3>1. pc # 0
      BY <2>2 DEF Save, Load, Execute, Jump, AtOp
    <3> QED
      BY <2>1, <2>2, <3>1, SaveRuns, LoadRuns, ExecuteRuns, JumpRuns
  <2>3. CASE Call
    BY <2>1, <2>3, CallRuns
  <2>4. CASE Return
    <3>1. pc' = 0 /\ UNCHANGED codeVars
      BY <2>4 DEF Return
    <3> QED
      BY <2>1, <3>1, RunNext
  <2>5. CASE UNCHANGED vars
    <3>1. pc' = pc /\ holds' = holds /\ fresh' = fresh /\ UNCHANGED codeVars
      BY <2>5 DEF vars, machineVars
    <3>2. pc' # 0 => /\ \A f \in A[pc'].regs : f[1] \in Registers => holds'[f[1]] = f[2]
                     /\ A[pc'].slots \subseteq fresh'
      BY <2>1, <3>1 DEF Keeps
    <3> QED
      BY <2>1, <3>1, <3>2, RunNext
  <2>6. ~Compile /\ ~StartEncode /\ ~Encode /\ ~Make
    BY <1>1 DEF Compile, Prepare, Translate, StartEncode, Encode, Make
  <2> QED
    BY <2>2, <2>3, <2>4, <2>5, <2>6 DEF Next
<1>2. CASE phase # "made" /\ phase' = "made"
  <2>1. Make /\ pc' = pc
    BY <1>2 DEF Next, Compile, Prepare, Translate, StartEncode, Encode, Make, Call, Save, Load,
                Execute, Jump, Return, AtOp, vars, codeVars, compilerVars, machineVars
  <2>2. pc' = 0
    BY <1>2, <2>1 DEF MachineInv
  <2>3. PICK A, l : Typed(Code, A, l)
    BY <1>2, <2>1, MadeTyped
  <2>4. cc' = cc
    BY <2>1 DEF Make
  <2>5. Typed(cc'.code, A, l)
    BY <2>3, <2>4 DEF Code
  <2>6. Typed(cc.code, A, l)'
    BY <2>5 DEF Typed, Weaker, Entry, Claim, Passed, AfterSave, AfterLoad, AfterExecute, Sole,
                Written, Reading, ArgRegister, Chain
  <2> QED
    BY <2>2, <2>6 DEF RunInv, Code
<1>3. CASE phase' # "made"
  BY <1>3 DEF RunInv
<1> QED
  BY <1>1, <1>2, <1>3

\* What an instruction reads is claimed, and so is so.
LEMMA RunReads ==
  ASSUME CompilerInv, AssemblerInv, EncodeInv, MachineInv, RunInv
  PROVE  ReadsPresent
<1> SUFFICES ASSUME phase = "made", pc > 0, Code[pc].op \notin {"save", "load"},
                    NEW k \in DOMAIN Code[pc].regs, "read" \in Code[pc].uses[k].how
             PROVE  holds[Code[pc].regs[k]] = Code[pc].uses[k].v
  BY DEF ReadsPresent
<1>1. pc # 0 /\ pc \in DOMAIN Code
  BY DEF MachineInv
<1>2. PICK A, l : Typed(Code, A, l) /\ Keeps(A[pc])
  BY <1>1 DEF RunInv
<1>3. Code \in Seq(Items) /\ starts \in Seq(Nat) /\ Len(starts) = Len(Code)
  BY ContextFields DEF CompilerInv, Sound, Code, AssemblerInv
<1>4. pc \in 1 .. Len(Code) /\ pc \in DOMAIN starts
  BY <1>1, <1>3
<1> DEFINE item == Code[pc]
           a == A[pc]
           f == <<item.regs[k], item.uses[k].v>>
<1>5. f \in a.regs
  BY <1>2, <1>4 DEF Typed, Reading
<1>6. item.regs[k] \in Registers
  <2>1. item.regs[k] \in cc.modified \cup {NoRegister}
    BY <1>1, CodeItem
  <2>2. item.regs[k] # NoRegister
    BY <1>4 DEF EncodeInv, Unplaced
  <2>3. cc.modified \subseteq Registers
    BY DEF CompilerInv, Sound, Marked, Allocatable
  <2> QED
    BY <2>1, <2>2, <2>3
<1> HIDE DEF item, a
<1>7. f[1] = item.regs[k] /\ f[2] = item.uses[k].v
  OBVIOUS
<1> HIDE DEF f
<1>8. holds[f[1]] = f[2]
  BY <1>2, <1>5, <1>6, <1>7 DEF Keeps, a
<1> QED
  BY <1>7, <1>8 DEF item

\* Whenever the finished function runs an instruction of the program, each
\* register it reads holds what the program last put in that variable: on every
\* turn of the loop, however many chains compete for the registers and whatever
\* was spilled, exchanged or reloaded in between.
THEOREM ReadsPresentCorrect == Spec => []ReadsPresent
<1>1. Init => EncodeInv /\ MachineInv /\ RunInv
  <2>1. Init => RunInv
    BY DEF Init, InitCompiler, RunInv
  <2> QED
    BY <2>1, EncodeInit, MachineInit
<1>2. CompilerInv /\ CodeInv /\ AssemblerInv /\ EncodeInv /\ [Next]_vars => EncodeInv'
  BY EncodeStays
<1>3. CompilerInv /\ CodeInv /\ AssemblerInv /\ MachineInv /\ [Next]_vars => MachineInv'
  BY MachineStep
<1>4. /\ CompilerInv /\ CodeInv /\ AssemblerInv /\ EncodeInv /\ ReadInv /\ MachineInv /\ RunInv
      /\ [Next]_vars
      => RunInv'
  BY RunStep
<1>5. CompilerInv /\ AssemblerInv /\ EncodeInv /\ MachineInv /\ RunInv => ReadsPresent
  BY RunReads
<1> QED
  BY <1>1, <1>2, <1>3, <1>4, <1>5, ReadInvariance, PTL DEF Spec
=============================================================================
