------------------------------ MODULE CodeProofs ------------------------------
(***************************************************************************)
(* Proofs about the function that chase_pointers gets from AsmJit, for     *)
(* every number of chains and every length of the loop: about the register *)
(* allocator (src/lib/AsmJit/CompilerX86X64.cpp), the assembler and its    *)
(* buffer (AssemblerX86X64.cpp, Util.cpp), and the function as it runs.    *)
(*                                                                         *)
(* The allocator's operations change a context step by step, some of them  *)
(* with folds over sequences of any length.  What holds of the values of a *)
(* fold is proved once, in FoldExists and FoldSteps.                       *)
(***************************************************************************)
EXTENDS CodeInvariant, FiniteSetTheorems, WellFoundedInduction, TLAPS

-----------------------------------------------------------------------------
(* Numbers, and the folds of the community modules.                        *)

LEMMA LeastNumber ==
  ASSUME NEW T \in SUBSET Nat, T # {}
  PROVE  \E m \in T : \A n \in T : m <= n
<1>1. \E m \in T : \A n \in T : <<n, m>> \notin OpToRel(<, Nat)
  BY NatLessThanWellFounded, WFMin
<1>2. \A m, n \in Nat : n < m => <<n, m>> \in OpToRel(<, Nat)
  BY DEF OpToRel
<1>3. \A m, n \in Nat : ~(n < m) => m <= n
  OBVIOUS
<1> QED
  BY <1>1, <1>2, <1>3

LEMMA UpTo ==
  ASSUME NEW n \in Nat, NEW S, 0 \in S, \A k \in 0 .. n - 1 : k \in S => k + 1 \in S
  PROVE  \A k \in 0 .. n : k \in S
<1> DEFINE T == {k \in 0 .. n : k \notin S}
<1> SUFFICES ASSUME T # {} PROVE FALSE
  OBVIOUS
<1>1. PICK m \in T : \A k \in T : m <= k
  BY LeastNumber, T \in SUBSET Nat
<1>2. m \in 1 .. n
  OBVIOUS
<1>3. m - 1 \in 0 .. n - 1 /\ (m - 1) + 1 = m
  BY <1>2
<1>4. m - 1 \in S
  BY <1>1, <1>3
<1> QED
  BY <1>3, <1>4

LEMMA MaxOfRange ==
  ASSUME NEW n \in Nat, NEW S \in SUBSET (1 .. n), S # {}
  PROVE  Max(S) \in S /\ \A y \in S : Max(S) >= y
<1> DEFINE T == {m \in Nat : \A y \in S : m >= y}
<1>1. PICK m \in T : \A k \in T : m <= k
  <2>1. n \in T
    OBVIOUS
  <2> QED
    BY <2>1, LeastNumber
<1>2. m \in S
  <2> SUFFICES ASSUME m \notin S PROVE FALSE
    OBVIOUS
  <2>1. m \in Nat /\ \A y \in S : y \in Nat \ {0} /\ m >= y /\ y # m
    OBVIOUS
  <2>2. m # 0
    <3>1. PICK y \in S : TRUE
      OBVIOUS
    <3> QED
      BY <2>1, <3>1
  <2>3. m - 1 \in Nat /\ \A y \in S : m - 1 >= y
    BY <2>1, <2>2
  <2> QED
    BY <1>1, <2>3
<1> QED
  BY <1>2 DEF Max

\* The recursion behind a fold has a solution whose values are of the type
\* that the step preserves.
Solves(h, n, base, F) ==
  \A s \in SUBSET (1 .. n) :
    h[s] = IF s = {} THEN base ELSE F[Max(s)][h[s \ {Max(s)}]]

LEMMA FoldExists ==
  ASSUME NEW n \in Nat, NEW A, NEW base \in A, NEW F \in [1 .. n -> [A -> A]]
  PROVE  \E h \in [SUBSET (1 .. n) -> A] : Solves(h, n, base, F)
<1> DEFINE Some(m) == \E h \in [SUBSET (1 .. m) -> A] : Solves(h, m, base, F)
           S == {m \in 0 .. n : Some(m)}
<1>1. Some(0)
  <2> DEFINE h == [s \in SUBSET (1 .. 0) |-> base]
  <2>1. h \in [SUBSET (1 .. 0) -> A]
    OBVIOUS
  <2>2. Solves(h, 0, base, F)
    BY DEF Solves
  <2> QED
    BY <2>1, <2>2
<1>2. ASSUME NEW m \in 0 .. n - 1, Some(m)
      PROVE  Some(m + 1)
  <2>1. PICK g \in [SUBSET (1 .. m) -> A] : Solves(g, m, base, F)
    BY <1>2
  <2> DEFINE h == [s \in SUBSET (1 .. m + 1) |->
                     IF m + 1 \in s THEN F[m + 1][g[s \ {m + 1}]] ELSE g[s]]
  <2>2. \A s \in SUBSET (1 .. m + 1) :
          /\ s \ {m + 1} \in SUBSET (1 .. m)
          /\ m + 1 \notin s => s \in SUBSET (1 .. m)
    OBVIOUS
  <2>3. h \in [SUBSET (1 .. m + 1) -> A]
    BY <2>2
  <2>4. ASSUME NEW s \in SUBSET (1 .. m + 1)
        PROVE  h[s] = IF s = {} THEN base ELSE F[Max(s)][h[s \ {Max(s)}]]
    <3>1. CASE m + 1 \in s
      <4>1. Max(s) = m + 1
        <5>1. m + 1 \in Nat /\ s # {}
          BY <3>1
        <5>2. Max(s) \in s /\ Max(s) >= m + 1
          BY <3>1, <5>1, MaxOfRange
        <5>3. Max(s) \in 1 .. m + 1
          BY <5>2
        <5> QED
          BY <5>2, <5>3
      <4>2. h[s \ {m + 1}] = g[s \ {m + 1}]
        BY <2>2
      <4> QED
        BY <3>1, <4>1, <4>2
    <3>2. CASE m + 1 \notin s
      <4>1. h[s] = g[s]
        BY <3>2
      <4>2. CASE s = {}
        BY <2>1, <4>1, <4>2, <2>2, <3>2 DEF Solves
      <4>3. CASE s # {}
        <5>1. s \in SUBSET (1 .. m)
          BY <2>2, <3>2
        <5>2. Max(s) \in s
          BY <4>3, <5>1, MaxOfRange, m \in Nat
        <5>3. h[s \ {Max(s)}] = g[s \ {Max(s)}]
          BY <3>2, <5>2
        <5> QED
          BY <2>1, <4>1, <4>3, <5>1, <5>3 DEF Solves
      <4> QED
        BY <4>2, <4>3
    <3> QED
      BY <3>1, <3>2
  <2> HIDE DEF h
  <2>5. Solves(h, m + 1, base, F)
    BY <2>4 DEF Solves
  <2> QED
    BY <2>3, <2>5
<1> HIDE DEF Some
<1>3. \A m \in 0 .. n : m \in S
  <2>1. 0 \in S
    BY <1>1
  <2>2. \A m \in 0 .. n - 1 : m \in S => m + 1 \in S
    BY <1>2
  <2> HIDE DEF S
  <2> QED
    BY <2>1, <2>2, UpTo
<1>4. Some(n)
  BY <1>3
<1>5. PICK h \in [SUBSET (1 .. n) -> A] : Solves(h, n, base, F)
  BY <1>4 DEF Some
<1> QED
  BY <1>5

\* What the provers need to know of a solution, and what they get: it takes
\* its values from the type, one step after the other.
Follows(g, n, A, base, F) ==
  /\ g[{}] = base
  /\ \A s \in SUBSET (1 .. n) :
       s # {} /\ g[s \ {Max(s)}] \in A => g[s] = F[Max(s)][g[s \ {Max(s)}]]

Steps(q, n, base, F) == q[0] = base /\ \A k \in 1 .. n : q[k] = F[k][q[k - 1]]

LEMMA FoldSteps ==
  ASSUME NEW n \in Nat, NEW A, NEW base \in A, NEW F \in [1 .. n -> [A -> A]],
         NEW g, Follows(g, n, A, base, F)
  PROVE  \E q \in [0 .. n -> A] : Steps(q, n, base, F) /\ q[n] = g[1 .. n]
<1> DEFINE S == {k \in 0 .. n : g[1 .. k] \in A}
<1>1. ASSUME NEW k \in 1 .. n, g[1 .. k - 1] \in A
      PROVE  g[1 .. k] = F[k][g[1 .. k - 1]]
  <2>1. (1 .. k) \in SUBSET (1 .. n) /\ (1 .. k) # {} /\ k \in 1 .. k
    <3>1. k \in Nat /\ 1 <= k /\ k <= n
      OBVIOUS
    <3>2. k \in 1 .. k
      BY <3>1
    <3>3. \A x \in 1 .. k : x \in 1 .. n
      BY <3>1
    <3> QED
      BY <3>2, <3>3
  <2>2. Max(1 .. k) \in 1 .. k /\ Max(1 .. k) >= k
    BY <2>1, MaxOfRange
  <2>3. Max(1 .. k) = k
    BY <2>2
  <2>4. (1 .. k) \ {k} = 1 .. k - 1
    OBVIOUS
  <2> QED
    BY <1>1, <2>1, <2>3, <2>4 DEF Follows
<1>2. g[1 .. 0] = base
  <2>1. 1 .. 0 = {}
    OBVIOUS
  <2> QED
    BY <2>1 DEF Follows
<1>3. \A k \in 0 .. n : g[1 .. k] \in A
  <2>1. 0 \in S
    BY <1>2
  <2>2. ASSUME NEW k \in 0 .. n - 1, k \in S PROVE k + 1 \in S
    <3>1. k + 1 \in 1 .. n /\ (k + 1) - 1 = k
      OBVIOUS
    <3>2. g[1 .. k + 1] = F[k + 1][g[1 .. k]]
      BY <1>1, <2>2, <3>1
    <3> QED
      BY <2>2, <3>1, <3>2
  <2> HIDE DEF S
  <2>3. \A k \in 0 .. n : k \in S
    BY <2>1, <2>2, UpTo
  <2> QED
    BY <2>3 DEF S
<1> DEFINE q == [k \in 0 .. n |-> g[1 .. k]]
<1>4. q \in [0 .. n -> A] /\ q[0] = base /\ q[n] = g[1 .. n]
  BY <1>2, <1>3
<1>5. \A k \in 1 .. n : q[k] = F[k][q[k - 1]]
  <2> TAKE k \in 1 .. n
  <2>1. k \in 0 .. n /\ k - 1 \in 0 .. n
    OBVIOUS
  <2> QED
    BY <1>1, <1>3, <2>1
<1> QED
  BY <1>4, <1>5 DEF Steps

-----------------------------------------------------------------------------
(* What the operations leave alone.                                        *)

LEMMA NoVariableIsNone == NoVariable \notin Variables
BY DEF NoVariable, Variables, Chain, HeadAt, Position

\* Everybody stays where he is.
Placed(c, d) ==
  /\ d.gp = c.gp /\ d.used = c.used /\ d.modified = c.modified /\ d.error = c.error
  /\ \A v \in Variables :
       /\ d.var[v].state = c.var[v].state
       /\ d.var[v].register = c.var[v].register
       /\ d.var[v].home = c.var[v].home

\* Only the counters move.
Quiet(c, d) == Placed(c, d) /\ d.frame = c.frame /\ d.code = c.code

\* The allocator puts code behind what is there.
Extended(s, t) ==
  /\ Len(s) <= Len(t)
  /\ \A k \in 1 .. Len(s) : t[k] = s[k]
  /\ \A k \in Len(s) + 1 .. Len(t) : t[k].op \in {"save", "load"}

\* Context d is what the allocator may make of c.
Later(c, d) ==
  /\ Sound(c) /\ Sound(d)
  /\ c.modified \subseteq d.modified
  /\ Extended(c.code, d.code)

LEMMA ContextFields ==
  ASSUME NEW c \in Contexts
  PROVE  /\ c.cur \in Int /\ c.at \in Int
         /\ c.gp \in [Registers -> Variables \cup {NoVariable}]
         /\ c.used \in SUBSET Registers /\ c.modified \in SUBSET Registers
         /\ c.var \in [Variables -> VarDatas]
         /\ c.frame \in Seq(Variables) /\ c.code \in Seq(Items)
         /\ c.error \in BOOLEAN
BY DEF Contexts

LEMMA VarDataFields ==
  ASSUME NEW w \in VarDatas
  PROVE  /\ w.state \in {"unused", "register", "memory"}
         /\ w.register \in Registers \cup {NoRegister}
         /\ w.home \in Registers \cup {NoRegister}
         /\ w.changed \in BOOLEAN
         /\ w.work \in Int /\ w.first \in Int /\ w.last \in Int
         /\ w.ends \in Int /\ w.bias \in Int
BY DEF VarDatas

LEMMA SameCode ==
  ASSUME NEW s
  PROVE  Len(s) \in Nat => Extended(s, s)
BY DEF Extended

LEMMA LaterItself ==
  ASSUME NEW c, Sound(c)
  PROVE  Later(c, c)
BY SameCode, ContextFields DEF Sound, Later

LEMMA LaterStill ==
  ASSUME NEW a, NEW b, NEW c, Later(a, b), Later(b, c)
  PROVE  Later(a, c)
<1>1. /\ a.code \in Seq(Items) /\ b.code \in Seq(Items) /\ c.code \in Seq(Items)
      /\ Extended(a.code, b.code) /\ Extended(b.code, c.code)
  BY ContextFields DEF Later, Sound
<1>2. Extended(a.code, c.code)
  <2>1. /\ Len(a.code) \in Nat /\ Len(b.code) \in Nat /\ Len(c.code) \in Nat
        /\ Len(a.code) <= Len(b.code) /\ Len(b.code) <= Len(c.code)
    BY <1>1 DEF Extended
  <2>2. \A k \in 1 .. Len(a.code) : c.code[k] = a.code[k]
    BY <1>1, <2>1 DEF Extended
  <2>3. ASSUME NEW k \in Len(a.code) + 1 .. Len(c.code)
        PROVE  c.code[k].op \in {"save", "load"}
    <3>1. CASE k <= Len(b.code)
      BY <1>1, <2>1, <3>1 DEF Extended
    <3>2. CASE k > Len(b.code)
      BY <1>1, <2>1, <3>2 DEF Extended
    <3> QED
      BY <2>1, <3>1, <3>2
  <2> QED
    BY <2>1, <2>2, <2>3 DEF Extended
<1> QED
  BY <1>2 DEF Later

LEMMA PlacedMatched ==
  ASSUME NEW c, Sound(c), NEW d, Placed(c, d)
  PROVE  Matched(d)
<1>1. c \in Contexts /\ Matched(c)
  BY DEF Sound
<1>2. \A r \in Registers : c.gp[r] # NoVariable => c.gp[r] \in Variables
  BY <1>1, ContextFields
<1> QED
  BY <1>1, <1>2 DEF Placed, Matched

LEMMA QuietLater ==
  ASSUME NEW c, Sound(c), NEW d \in Contexts, Quiet(c, d)
  PROVE  Later(c, d)
<1>1. Matched(d)
  BY PlacedMatched DEF Quiet
<1>2. Marked(d)
  BY DEF Quiet, Placed, Sound, Marked
<1>3. SlotsDiffer(d)
  BY DEF Quiet, Sound, SlotsDiffer
<1>4. Extended(c.code, d.code) /\ c.modified \subseteq d.modified
  BY SameCode, ContextFields DEF Quiet, Placed, Sound
<1> QED
  BY <1>1, <1>2, <1>3, <1>4 DEF Sound, Later

Touched(c) ==
  {d \in Contexts : Quiet(c, d) /\ d.cur = c.cur /\ d.at = c.at}

LEMMA TouchKeeps ==
  ASSUME NEW c \in Contexts, NEW d \in Touched(c), NEW use \in Uses, NEW p \in Int
  PROVE  Touch(d, use, p) \in Touched(c)
<1> DEFINE w == d.var[use.v]
           first == IF w.first = -1 THEN d.cur ELSE w.first
           bias == w.bias + Bias(use.how)
           x == [w EXCEPT !.work = d.cur, !.bias = bias, !.first = first,
                          !.last = d.cur, !.ends = p]
           e == [d EXCEPT !.var[use.v] = x]
<1>1. d \in Contexts /\ use.v \in Variables
  BY DEF Touched, Uses
<1>2. w \in VarDatas /\ d.cur \in Int
  BY <1>1, ContextFields
<1>3. Bias(use.how) \in Int
  BY DEF Bias
<1>4. bias \in Int /\ first \in Int
  BY <1>2, <1>3, VarDataFields
<1>5. Touch(d, use, p) = e
  BY DEF Touch
<1> HIDE DEF first, w, bias
<1>6. x \in VarDatas
  BY <1>2, <1>4 DEF VarDatas
<1>10. x.state = w.state /\ x.register = w.register /\ x.home = w.home
  BY <1>2 DEF VarDatas
<1> HIDE DEF x
<1>7. e \in Contexts
  BY <1>1, <1>6 DEF Contexts
<1>8. e.var = [d.var EXCEPT ![use.v] = x] /\ e = [d EXCEPT !.var = e.var]
  BY <1>1 DEF Contexts
<1>9. Quiet(c, e)
  BY <1>1, <1>10, <1>8, ContextFields DEF Quiet, Placed, Touched, w
<1> QED
  BY <1>1, <1>5, <1>7, <1>9 DEF Touched, Contexts

TouchEach(c, uses, p) == FoldLeft(LAMBDA d, use : Touch(d, use, p), c, uses)

LEMMA TouchSteps ==
  ASSUME NEW c \in Contexts, NEW uses \in Seq(Uses), NEW p \in Int
  PROVE  \E q \in [0 .. Len(uses) -> Touched(c)] :
           /\ q[0] = c
           /\ \A k \in 1 .. Len(uses) : q[k] = Touch(q[k - 1], uses[k], p)
           /\ TouchEach(c, uses, p) = q[Len(uses)]
<1> DEFINE n == Len(uses)
           A == Touched(c)
           F == [k \in 1 .. n |-> [d \in A |-> Touch(d, uses[k], p)]]
           Recursion(g) ==
             g = [s \in SUBSET (1 .. n) |->
                    IF s = {} THEN c ELSE Touch(g[s \ {Max(s)}], uses[Max(s)], p)]
           it == CHOOSE g : Recursion(g)
<1>1. DOMAIN uses = 1 .. n /\ \A k \in 1 .. n : uses[k] \in Uses
  OBVIOUS
<1>2. n \in Nat
  OBVIOUS
<1>3. c \in A
  BY DEF Touched, Quiet, Placed
<1>4. F \in [1 .. n -> [A -> A]]
  BY <1>1, TouchKeeps
<1>5. \A k \in 1 .. n, a \in A : F[k][a] = Touch(a, uses[k], p)
  OBVIOUS
<1> HIDE DEF n, A, F, Recursion, it
<1>6. PICK h \in [SUBSET (1 .. n) -> A] : Solves(h, n, c, F)
  BY <1>2, <1>3, <1>4, FoldExists
<1>7. \A s \in SUBSET (1 .. n) : s # {} => Max(s) \in 1 .. n /\ s \ {Max(s)} \in SUBSET (1 .. n)
  BY <1>2, MaxOfRange
<1>8. Recursion(h)
  BY <1>5, <1>6, <1>7 DEF Recursion, Solves
<1>9. Recursion(it)
  BY <1>8 DEF it
<1>10. Follows(it, n, A, c, F)
  BY <1>5, <1>7, <1>9 DEF Recursion, Follows
<1>11. PICK q \in [0 .. n -> A] : Steps(q, n, c, F) /\ q[n] = it[1 .. n]
  BY <1>2, <1>3, <1>4, <1>10, FoldSteps
<1>12. q[0] = c /\ \A k \in 1 .. n : q[k] = Touch(q[k - 1], uses[k], p)
  <2>1. \A k \in 1 .. n : k - 1 \in 0 .. n
    BY <1>2
  <2> QED
    BY <1>5, <1>11, <2>1 DEF Steps
<1>13. TouchEach(c, uses, p) = it[1 .. n]
  BY <1>1 DEF TouchEach, FoldLeft, MapThenFoldSet, it, Recursion
<1> QED
  BY <1>11, <1>12, <1>13 DEF A, n

LEMMA TouchAll ==
  ASSUME NEW c \in Contexts, NEW uses \in Seq(Uses), NEW p \in Int
  PROVE  TouchEach(c, uses, p) \in Touched(c)
<1>1. Len(uses) \in 0 .. Len(uses)
  OBVIOUS
<1> QED
  BY <1>1, TouchSteps

LEMMA PrepareInstructionKeeps ==
  ASSUME NEW c \in Contexts, NEW uses \in Seq(Uses), NEW p \in Int
  PROVE  LET d == PrepareInstruction(c, uses, p)
         IN  /\ d \in Contexts
             /\ Quiet(c, d)
             /\ d.at = c.at
<1> DEFINE all == TouchEach(c, uses, p)
           isNew == \E k \in DOMAIN uses : c.var[uses[k].v].work # c.cur
           e == IF isNew THEN all ELSE c
           d == [e EXCEPT !.cur = @ + 1]
<1>1. e \in Touched(c)
  BY TouchAll DEF Touched, Quiet, Placed
<1>2. PrepareInstruction(c, uses, p) = d
  BY DEF PrepareInstruction, TouchEach
<1> HIDE DEF e
<1>3. e \in Contexts /\ e.cur + 1 \in Int
  BY <1>1, ContextFields DEF Touched
<1>4. d \in Contexts
  BY <1>3 DEF Contexts
<1>5. /\ d.gp = e.gp /\ d.used = e.used /\ d.modified = e.modified /\ d.var = e.var
      /\ d.at = e.at /\ d.frame = e.frame /\ d.code = e.code /\ d.error = e.error
  BY <1>3 DEF Contexts
<1> QED
  BY <1>1, <1>2, <1>4, <1>5 DEF Touched, Quiet, Placed

LEMMA EmitKeeps ==
  ASSUME NEW c \in Contexts, NEW op \in {"save", "load"}, NEW v \in Variables,
         NEW r \in Registers
  PROVE  LET d == Emit(c, op, v, r)
         IN  /\ d \in Contexts
             /\ Placed(c, d)
             /\ d.frame = IF Contains(c.frame, v) THEN c.frame ELSE Append(c.frame, v)
             /\ d.code = Append(c.code, [op |-> op, v |-> v, r |-> r])
<1> DEFINE frame == IF Contains(c.frame, v) THEN c.frame ELSE Append(c.frame, v)
           item == [op |-> op, v |-> v, r |-> r]
           uses == <<[v |-> v, how |-> {"slot"}]>>
           placed == [c EXCEPT !.frame = frame, !.code = Append(@, item)]
           done == PrepareInstruction(placed, uses, 0)
           d == [done EXCEPT !.at = c.cur]
<1>1. item \in Items
  BY DEF Items
<1>2. uses \in Seq(Uses)
  BY DEF Uses
<1>3. frame \in Seq(Variables) /\ Append(c.code, item) \in Seq(Items) /\ c.cur \in Int
  BY <1>1, ContextFields
<1> HIDE DEF frame, item
<1>4. placed \in Contexts
  BY <1>3 DEF Contexts
<1>5. /\ placed.frame = frame /\ placed.code = Append(c.code, item)
      /\ placed.gp = c.gp /\ placed.used = c.used /\ placed.modified = c.modified
      /\ placed.var = c.var /\ placed.error = c.error
  BY DEF Contexts
<1> HIDE DEF placed, uses
<1>6. /\ done \in Contexts
      /\ Quiet(placed, done)
  BY <1>2, <1>4, PrepareInstructionKeeps
<1>7. Emit(c, op, v, r) = d
  BY DEF Emit, placed, frame, item, uses
<1> HIDE DEF done
<1>8. d \in Contexts
  BY <1>3, <1>6 DEF Contexts
<1>9. /\ d.gp = done.gp /\ d.used = done.used /\ d.modified = done.modified
      /\ d.var = done.var /\ d.frame = done.frame /\ d.code = done.code
      /\ d.error = done.error
  BY <1>6 DEF Contexts
<1> QED
  BY <1>5, <1>6, <1>7, <1>8, <1>9 DEF Quiet, Placed, frame, item

LEMMA SlotAdded ==
  ASSUME NEW c \in Contexts, SlotsDiffer(c), NEW v \in Variables, NEW d,
         d.frame = IF Contains(c.frame, v) THEN c.frame ELSE Append(c.frame, v)
  PROVE  SlotsDiffer(d)
<1>1. c.frame \in Seq(Variables)
  BY ContextFields
<1>2. CASE Contains(c.frame, v)
  BY <1>2 DEF SlotsDiffer
<1>3. CASE ~Contains(c.frame, v)
  BY <1>1, <1>3 DEF SlotsDiffer, Contains
<1> QED
  BY <1>2, <1>3

LEMMA CodeAdded ==
  ASSUME NEW s \in Seq(Items), NEW item, item.op \in {"save", "load"}
  PROVE  Extended(s, Append(s, item))
BY DEF Extended

LEMMA EmitLater ==
  ASSUME NEW c, Sound(c), NEW op \in {"save", "load"}, NEW v \in Variables,
         NEW r \in c.modified
  PROVE  Later(c, Emit(c, op, v, r)) /\ Placed(c, Emit(c, op, v, r))
<1> DEFINE d == Emit(c, op, v, r)
           item == [op |-> op, v |-> v, r |-> r]
<1>1. c \in Contexts /\ r \in Registers
  BY ContextFields DEF Sound
<1>2. /\ d \in Contexts
      /\ Placed(c, d)
      /\ d.frame = IF Contains(c.frame, v) THEN c.frame ELSE Append(c.frame, v)
      /\ d.code = Append(c.code, item)
  BY <1>1, EmitKeeps
<1>3. c.code \in Seq(Items) /\ item.op = op /\ RegistersOf(item) = {r}
  BY <1>1, ContextFields DEF RegistersOf
<1> HIDE DEF d, item
<1>4. Matched(d)
  BY <1>2, PlacedMatched
<1>5. Marked(d)
  <2>1. \A k \in DOMAIN d.code : RegistersOf(d.code[k]) \subseteq c.modified \cup {NoRegister}
    BY <1>2, <1>3 DEF Sound, Marked
  <2> QED
    BY <1>2, <2>1 DEF Placed, Sound, Marked
<1>6. SlotsDiffer(d)
  BY <1>1, <1>2, SlotAdded DEF Sound
<1>7. Extended(c.code, d.code)
  BY <1>2, <1>3, CodeAdded
<1>8. c.modified \subseteq d.modified
  BY <1>2 DEF Placed
<1> QED
  BY <1>2, <1>4, <1>5, <1>6, <1>7, <1>8 DEF Sound, Later, d

-----------------------------------------------------------------------------
(* What the operations change.                                             *)

Forgotten(c, gone, state) ==
  [v \in Variables |->
     IF v \in gone
     THEN [c.var[v] EXCEPT !.state = state, !.register = NoRegister, !.changed = FALSE]
     ELSE c.var[v]]

LEMMA ForgetFields ==
  ASSUME NEW c \in Contexts, NEW gone \in SUBSET Variables, NEW state \in {"unused", "memory"}
  PROVE  LET d == Forget(c, gone, state)
             freed == {c.var[v].register : v \in gone}
         IN  /\ d \in Contexts
             /\ d.gp = [r \in Registers |-> IF r \in freed THEN NoVariable ELSE c.gp[r]]
             /\ d.used = c.used \ freed
             /\ d.var = Forgotten(c, gone, state)
             /\ d.modified = c.modified /\ d.error = c.error
             /\ d.cur = c.cur /\ d.at = c.at /\ d.frame = c.frame /\ d.code = c.code
<1> DEFINE freed == {c.var[v].register : v \in gone}
           gp == [r \in Registers |-> IF r \in freed THEN NoVariable ELSE c.gp[r]]
           used == c.used \ freed
           var == Forgotten(c, gone, state)
           d == [c EXCEPT !.gp = gp, !.used = used, !.var = var]
<1>1. DOMAIN c.var = Variables
  BY ContextFields
<1>2. Forget(c, gone, state) = d
  BY <1>1 DEF Forget, Forgotten
<1>3. gp \in [Registers -> Variables \cup {NoVariable}] /\ used \in SUBSET Registers
  BY ContextFields
<1>4. ASSUME NEW w \in VarDatas
      PROVE  [w EXCEPT !.state = state, !.register = NoRegister, !.changed = FALSE] \in VarDatas
  BY DEF VarDatas
<1>5. var \in [Variables -> VarDatas]
  BY <1>4, ContextFields DEF Forgotten
<1> HIDE DEF gp, used, var
<1>6. d \in Contexts
  BY <1>3, <1>5 DEF Contexts
<1>7. /\ d.gp = gp /\ d.used = used /\ d.var = var
      /\ d.modified = c.modified /\ d.error = c.error
      /\ d.cur = c.cur /\ d.at = c.at /\ d.frame = c.frame /\ d.code = c.code
  BY DEF Contexts
<1> QED
  BY <1>2, <1>6, <1>7 DEF gp, used, var

LEMMA ForgottenFields ==
  ASSUME NEW c \in Contexts, NEW gone \in SUBSET Variables, NEW state \in {"unused", "memory"},
         NEW v \in Variables
  PROVE  LET w == Forgotten(c, gone, state)[v]
         IN  /\ v \in gone => /\ w.state = state /\ w.register = NoRegister
                              /\ w.home = c.var[v].home
             /\ v \notin gone => w = c.var[v]
BY ContextFields DEF Forgotten, VarDatas

LEMMA ForgetLater ==
  ASSUME NEW c, Sound(c), NEW gone \in SUBSET Variables, NEW state \in {"unused", "memory"}
  PROVE  Later(c, Forget(c, gone, state))
<1> DEFINE d == Forget(c, gone, state)
           freed == {c.var[v].register : v \in gone}
<1>1. c \in Contexts /\ Matched(c) /\ Marked(c)
  BY DEF Sound
<1>2. /\ d \in Contexts
      /\ d.gp = [r \in Registers |-> IF r \in freed THEN NoVariable ELSE c.gp[r]]
      /\ d.used = c.used \ freed
      /\ d.var = Forgotten(c, gone, state)
      /\ d.modified = c.modified /\ d.frame = c.frame /\ d.code = c.code
  <2>1. d \in Contexts /\ d.used = c.used \ freed /\ d.var = Forgotten(c, gone, state)
    BY <1>1, ForgetFields
  <2>2. d.gp = [r \in Registers |-> IF r \in freed THEN NoVariable ELSE c.gp[r]]
    BY <1>1, ForgetFields
  <2>3. d.modified = c.modified /\ d.frame = c.frame /\ d.code = c.code
    BY <1>1, ForgetFields
  <2> QED
    BY <2>1, <2>2, <2>3
<1>3. \A v \in Variables :
        /\ v \in gone => /\ d.var[v].state = state /\ d.var[v].register = NoRegister
                         /\ d.var[v].home = c.var[v].home
        /\ v \notin gone => d.var[v] = c.var[v]
  BY <1>1, <1>2, ForgottenFields
<1>4. \A v \in gone : c.var[v].register \in freed
  OBVIOUS
<1>5. ASSUME NEW r \in freed \cap Registers, NEW v \in Variables, c.gp[r] = v
      PROVE  v \in gone
  <2>1. PICK u \in gone : r = c.var[u].register
    OBVIOUS
  <2>2. r # NoRegister
    BY DEF NoRegister, Registers
  <2> QED
    BY <1>1, <1>5, <2>1, <2>2 DEF Matched
<1> HIDE DEF d, freed
<1>6. \A r \in Registers : c.gp[r] # NoVariable => c.gp[r] \in Variables
  BY <1>1, ContextFields
<1>7. \A v \in Variables : c.var[v].register # NoRegister => c.var[v].register \in Registers
  BY <1>1, ContextFields, VarDataFields
<1>8. Matched(d)
  <2>1. d.used = {r \in Registers : d.gp[r] # NoVariable}
    BY <1>1, <1>2 DEF Matched
  <2>2. ASSUME NEW r \in Registers, d.gp[r] # NoVariable
        PROVE  d.var[d.gp[r]].register = r
    <3>1. r \notin freed /\ d.gp[r] = c.gp[r] /\ c.gp[r] \in Variables
      BY <1>2, <1>6, <2>2
    <3>2. c.var[c.gp[r]].register = r
      BY <1>1, <1>2, <2>2, <3>1 DEF Matched
    <3> QED
      BY <1>3, <1>4, <3>1, <3>2
  <2>3. ASSUME NEW v \in Variables
        PROVE  /\ d.var[v].state = "register" <=> d.var[v].register # NoRegister
               /\ d.var[v].register # NoRegister => d.gp[d.var[v].register] = v
    <3>1. CASE v \in gone
      BY <1>3, <3>1
    <3>2. CASE v \notin gone
      <4>1. d.var[v] = c.var[v]
        BY <1>3, <3>2
      <4>2. ASSUME c.var[v].register # NoRegister
            PROVE  d.gp[c.var[v].register] = v
        <5>1. c.var[v].register \in Registers /\ c.gp[c.var[v].register] = v
          BY <1>1, <1>7, <4>2 DEF Matched
        <5>2. c.var[v].register \notin freed
          BY <1>5, <3>2, <5>1
        <5> QED
          BY <1>2, <5>1, <5>2
      <4> QED
        BY <1>1, <4>1, <4>2 DEF Matched
    <3> QED
      BY <3>1, <3>2
  <2> QED
    BY <2>1, <2>2, <2>3 DEF Matched
<1>9. Marked(d)
  BY <1>1, <1>2, <1>3 DEF Marked
<1>10. SlotsDiffer(d) /\ Extended(c.code, d.code)
  BY <1>1, <1>2, SameCode, ContextFields DEF Sound, SlotsDiffer
<1> QED
  BY <1>2, <1>8, <1>9, <1>10 DEF Sound, Later, d

\* Context d is c after register r gave its variable back to the slot, ...
Spilled(c, r, d) ==
  /\ Later(c, d)
  /\ d.gp = [c.gp EXCEPT ![r] = NoVariable]
  /\ d.used = c.used \ {r}
  /\ d.modified = c.modified /\ d.error = c.error
  /\ \A v \in Variables :
       c.gp[r] # v => /\ d.var[v].state = c.var[v].state
                      /\ d.var[v].register = c.var[v].register

\* ... or after variable v took it.
Occupied(c, v, r, d) ==
  /\ Later(c, d)
  /\ d.gp = [c.gp EXCEPT ![r] = v]
  /\ d.used = c.used \cup {r}
  /\ d.modified = c.modified \cup {r} /\ d.error = c.error
  /\ d.var[v].state = "register"
  /\ \A u \in Variables \ {v} :
       /\ d.var[u].state = c.var[u].state
       /\ d.var[u].register = c.var[u].register

LEMMA SpillLater ==
  ASSUME NEW c, Sound(c), NEW r \in Registers, c.gp[r] # NoVariable
  PROVE  Spilled(c, r, SpillGPVar(c, c.gp[r]))
<1> DEFINE v == c.gp[r]
           saved == IF c.var[v].changed THEN Emit(c, "save", v, c.var[v].register) ELSE c
           d == Forget(saved, {v}, "memory")
<1>1. c \in Contexts /\ Matched(c) /\ v \in Variables
  BY ContextFields DEF Sound
<1>2. c.var[v].register = r
  BY <1>1 DEF Matched
<1>3. Later(c, saved) /\ Placed(c, saved)
  <2>1. CASE c.var[v].changed
    <3>1. r \in c.modified
      BY DEF Sound, Matched, Marked
    <3>2. Later(c, Emit(c, "save", v, r)) /\ Placed(c, Emit(c, "save", v, r))
      BY <1>1, <3>1, EmitLater
    <3> QED
      BY <1>2, <2>1, <3>2
  <2>2. CASE ~c.var[v].changed
    BY <1>1, <2>2, LaterItself DEF Placed
  <2> QED
    BY <2>1, <2>2
<1>4. Sound(saved) /\ saved \in Contexts
  BY <1>3 DEF Later, Sound
<1> HIDE DEF saved
<1>5. Later(c, d)
  BY <1>1, <1>3, <1>4, ForgetLater, LaterStill
<1>6. {saved.var[u].register : u \in {v}} = {r}
  BY <1>1, <1>2, <1>3 DEF Placed
<1>7. /\ d.gp = [q \in Registers |-> IF q \in {r} THEN NoVariable ELSE saved.gp[q]]
      /\ d.used = saved.used \ {r}
      /\ d.var = Forgotten(saved, {v}, "memory")
      /\ d.modified = saved.modified /\ d.error = saved.error
  BY <1>1, <1>4, <1>6, ForgetFields
<1>8. d.gp = [c.gp EXCEPT ![r] = NoVariable]
  BY <1>1, <1>3, <1>4, <1>7, ContextFields DEF Placed
<1>9. \A u \in Variables :
        v # u => d.var[u].state = c.var[u].state /\ d.var[u].register = c.var[u].register
  BY <1>1, <1>3, <1>4, <1>7, ForgottenFields DEF Placed
<1> QED
  BY <1>3, <1>5, <1>7, <1>8, <1>9 DEF SpillGPVar, saved, Placed, Spilled

LEMMA LeastInSet ==
  ASSUME NEW S \in SUBSET Registers, S # {}
  PROVE  Least(S) \in S
<1>1. S \in SUBSET Nat
  BY DEF Registers
<1> QED
  BY <1>1, LeastNumber DEF Least

\* A register that is taken freely was free, and is no stack pointer.
LEMMA FreeRegisterFree ==
  ASSUME NEW c, Sound(c), NEW v \in Variables, FreeRegister(c, v) # NoRegister
  PROVE  FreeRegister(c, v) \in Allocatable \ c.used
<1> DEFINE home == c.var[v].home
           free == Registers \ (c.used \cup {EAX, ESP, EBP})
           S == IF free \subseteq Preserved THEN free ELSE free \ Preserved
<1>1. CASE home \in Registers \ c.used
  <2>1. FreeRegister(c, v) = home
    BY <1>1 DEF FreeRegister
  <2>2. home # NoRegister
    BY <1>1 DEF Registers, NoRegister
  <2>3. home \in Allocatable
    BY <2>2 DEF Sound, Marked
  <2> QED
    BY <1>1, <2>1, <2>3
<1>2. CASE home \notin Registers \ c.used /\ free # {}
  <2>1. FreeRegister(c, v) = Least(S)
    BY <1>2 DEF FreeRegister
  <2>2. S \in SUBSET Registers /\ S # {}
    BY <1>2
  <2>3. Least(S) \in free
    BY <2>2, LeastInSet
  <2> QED
    BY <2>1, <2>3 DEF Allocatable
<1>3. CASE home \notin Registers \ c.used /\ free = {}
  BY <1>3 DEF FreeRegister, Allocatable, Registers, EAX, ESP, EBP, NoRegister
<1> QED
  BY <1>1, <1>2, <1>3

\* Of some registers with scores there is a best one.
LEMMA BestExists ==
  ASSUME NEW S \in SUBSET Registers, S # {}, NEW score \in [S -> Int]
  PROVE  \E r \in S : \A s \in S :
           score[r] > score[s] \/ (score[r] = score[s] /\ r <= s)
<1> DEFINE Best(r, k) == \A s \in S : s < k =>
                           score[r] > score[s] \/ (score[r] = score[s] /\ r <= s)
           Some(k) == (\E s \in S : s < k) => \E r \in S : r < k /\ Best(r, k)
           K == {k \in 0 .. 16 : Some(k)}
<1>1. \A s \in S : s \in 0 .. 15 /\ score[s] \in Int
  BY DEF Registers
<1>2. Some(0)
  BY <1>1
<1>3. ASSUME NEW k \in 0 .. 15, Some(k) PROVE Some(k + 1)
  <2>1. \A s \in S : s < k + 1 <=> s < k \/ s = k
    BY <1>1
  <2>2. CASE k \notin S
    <3>1. \A s \in S : s < k + 1 <=> s < k
      BY <2>1, <2>2
    <3> QED
      BY <1>3, <3>1
  <2>3. CASE k \in S /\ ~\E s \in S : s < k
    <3>1. Best(k, k + 1)
      BY <1>1, <2>1, <2>3
    <3> QED
      BY <2>3, <3>1
  <2>4. CASE k \in S /\ \E s \in S : s < k
    <3>1. PICK r \in S : r < k /\ Best(r, k)
      BY <1>3, <2>4
    <3>2. CASE score[k] > score[r]
      <4>1. ASSUME NEW s \in S, s < k + 1
            PROVE  score[k] > score[s] \/ (score[k] = score[s] /\ k <= s)
        <5>1. score[r] \in Int /\ score[s] \in Int /\ score[k] \in Int
          BY <2>4, <3>1
        <5>2. s < k => score[r] >= score[s]
          BY <3>1, <5>1
        <5> QED
          BY <1>1, <2>1, <3>2, <4>1, <5>1, <5>2
      <4> QED
        BY <2>4, <4>1
    <3>3. CASE score[k] <= score[r]
      <4>1. ASSUME NEW s \in S, s < k + 1
            PROVE  score[r] > score[s] \/ (score[r] = score[s] /\ r <= s)
        <5>1. score[r] \in Int /\ score[k] \in Int /\ r < k
          BY <2>4, <3>1
        <5>2. s = k => score[r] > score[s] \/ (score[r] = score[s] /\ r <= s)
          BY <1>1, <3>3, <5>1
        <5> QED
          BY <2>1, <3>1, <4>1, <5>2
      <4>2. r < k + 1
        BY <1>1, <3>1
      <4> QED
        BY <4>1, <4>2
    <3> QED
      BY <1>1, <2>4, <3>2, <3>3
  <2> QED
    BY <2>2, <2>3, <2>4
<1> HIDE DEF Some
<1>4. \A k \in 0 .. 16 : k \in K
  <2>1. 0 \in K /\ 16 \in Nat
    BY <1>2
  <2>2. \A k \in 0 .. 16 - 1 : k \in K => k + 1 \in K
    BY <1>3
  <2> HIDE DEF K
  <2> QED
    BY <2>1, <2>2, UpTo
<1>5. Some(16)
  BY <1>4
<1> QED
  BY <1>1, <1>5 DEF Some

\* The allocator finds the register to spill among those it may spill.
LEMMA SpillCandidateExists ==
  ASSUME NEW c \in Contexts, SpillCandidates(c) # {}
  PROVE  /\ SpillCandidate(c) \in Registers
         /\ c.gp[SpillCandidate(c)] # NoVariable
         /\ c.var[c.gp[SpillCandidate(c)]].work # c.cur
<1> DEFINE S == SpillCandidates(c)
           score == [r \in S |-> SpillScore(c, c.gp[r])]
<1>1. S \in SUBSET Registers /\ S # {}
  BY DEF SpillCandidates
<1>2. \A r \in S : c.gp[r] \in Variables
  BY ContextFields DEF SpillCandidates
<1>3. ASSUME NEW v \in Variables PROVE SpillScore(c, v) \in Int
  BY ContextFields, VarDataFields DEF SpillScore
<1>4. score \in [S -> Int]
  BY <1>2, <1>3
<1> HIDE DEF S
<1>5. \E r \in S : \A s \in S : score[r] > score[s] \/ (score[r] = score[s] /\ r <= s)
  BY <1>1, <1>4, BestExists
<1>6. \A r, s \in S : LET gain == SpillScore(c, c.gp[r]) - SpillScore(c, c.gp[s])
                      IN  /\ score[r] > score[s] <=> gain > 0
                          /\ score[r] = score[s] <=> gain = 0
  BY <1>2, <1>3
<1> HIDE DEF score
<1>7. \E r \in S : \A s \in S :
        LET gain == SpillScore(c, c.gp[r]) - SpillScore(c, c.gp[s])
        IN  gain > 0 \/ (gain = 0 /\ r <= s)
  BY <1>5, <1>6
<1>8. SpillCandidate(c) \in SpillCandidates(c)
  BY <1>7 DEF SpillCandidate, S
<1> QED
  BY <1>8 DEF SpillCandidates

\* A variable in no register takes one that is free.
LEMMA OccupyLater ==
  ASSUME NEW c, Sound(c), NEW v \in Variables, c.var[v].state # "register",
         NEW r \in Allocatable \ c.used, NEW how
  PROVE  Occupied(c, v, r, Occupy(c, v, r, how))
<1> DEFINE loaded == IF c.var[v].state = "memory" /\ "read" \in how
                     THEN Emit(c, "load", v, r) ELSE c
           w == [loaded.var[v] EXCEPT !.state = "register", !.register = r, !.home = r]
           d == [loaded EXCEPT !.var[v] = w, !.gp[r] = v, !.used = @ \cup {r},
                               !.modified = @ \cup {r}]
<1>1. c \in Contexts /\ r \in Registers
  BY DEF Sound, Allocatable
<1>2. /\ loaded \in Contexts /\ Placed(c, loaded) /\ SlotsDiffer(loaded)
      /\ Extended(c.code, loaded.code)
      /\ \A k \in DOMAIN loaded.code :
           RegistersOf(loaded.code[k]) \subseteq c.modified \cup {r, NoRegister}
  <2> DEFINE item == [op |-> "load", v |-> v, r |-> r]
             l == Emit(c, "load", v, r)
  <2>1. /\ l \in Contexts
        /\ Placed(c, l)
        /\ l.frame = IF Contains(c.frame, v) THEN c.frame ELSE Append(c.frame, v)
        /\ l.code = Append(c.code, item)
    BY <1>1, EmitKeeps
  <2>2. c.code \in Seq(Items) /\ item.op = "load" /\ RegistersOf(item) = {r}
    BY <1>1, ContextFields DEF RegistersOf
  <2>3. SlotsDiffer(c) /\ \A k \in DOMAIN c.code :
                            RegistersOf(c.code[k]) \subseteq c.modified \cup {NoRegister}
    BY DEF Sound, Marked
  <2> HIDE DEF l, item
  <2>4. SlotsDiffer(l) /\ Extended(c.code, l.code)
    BY <1>1, <2>1, <2>2, <2>3, SlotAdded, CodeAdded
  <2>5. \A k \in DOMAIN l.code :
          RegistersOf(l.code[k]) \subseteq c.modified \cup {r, NoRegister}
    BY <2>1, <2>2, <2>3
  <2>6. Placed(c, c) /\ Extended(c.code, c.code)
    BY <2>2, SameCode DEF Placed
  <2>7. loaded \in {c, l}
    BY DEF l
  <2> HIDE DEF loaded
  <2>8. CASE loaded = l
    BY <2>1, <2>4, <2>5, <2>8
  <2>9. CASE loaded = c
    BY <1>1, <2>3, <2>6, <2>9
  <2> QED
    BY <2>7, <2>8, <2>9
<1>3. Occupy(c, v, r, how) = d
  BY DEF Occupy
<1> HIDE DEF loaded
<1>4. /\ loaded.var[v] \in VarDatas /\ loaded.gp \in [Registers -> Variables \cup {NoVariable}]
      /\ loaded.var \in [Variables -> VarDatas]
      /\ loaded.used \in SUBSET Registers /\ loaded.modified \in SUBSET Registers
  BY <1>2, ContextFields
<1>5. w \in VarDatas /\ w.state = "register" /\ w.register = r /\ w.home = r
  BY <1>1, <1>4 DEF VarDatas
<1> HIDE DEF w
<1>6. d \in Contexts
  BY <1>1, <1>2, <1>4, <1>5 DEF Contexts
<1>7. /\ d.gp = [loaded.gp EXCEPT ![r] = v]
      /\ d.var = [loaded.var EXCEPT ![v] = w]
      /\ d.used = loaded.used \cup {r}
      /\ d.modified = loaded.modified \cup {r}
      /\ d.error = loaded.error /\ d.code = loaded.code /\ d.frame = loaded.frame
  BY <1>2 DEF Contexts
<1> HIDE DEF d
<1>8. /\ d.gp = [c.gp EXCEPT ![r] = v]
      /\ d.used = c.used \cup {r}
      /\ d.modified = c.modified \cup {r}
      /\ d.error = c.error
  BY <1>2, <1>7 DEF Placed
<1>9. /\ d.var[v] = w
      /\ \A u \in Variables \ {v} : /\ d.var[u].state = c.var[u].state
                                    /\ d.var[u].register = c.var[u].register
                                    /\ d.var[u].home = c.var[u].home
  BY <1>2, <1>4, <1>7 DEF Placed
<1>10. Matched(c) /\ Marked(c)
  BY DEF Sound
<1>11. c.gp \in [Registers -> Variables \cup {NoVariable}] /\ c.gp[r] = NoVariable
  BY <1>1, <1>10, ContextFields DEF Matched
<1>12. v # NoVariable /\ r # NoRegister /\ \A q \in Registers : c.gp[q] # v
  BY <1>1, <1>10, NoVariableIsNone DEF Matched, NoRegister, Registers
<1>13. Matched(d)
  <2>1. d.used = {q \in Registers : d.gp[q] # NoVariable}
    BY <1>1, <1>8, <1>10, <1>11, <1>12 DEF Matched
  <2>2. ASSUME NEW q \in Registers, d.gp[q] # NoVariable
        PROVE  d.var[d.gp[q]].register = q
    <3>1. CASE q = r
      BY <1>1, <1>5, <1>8, <1>9, <1>11, <3>1
    <3>2. CASE q # r
      <4>1. d.gp[q] = c.gp[q] /\ c.gp[q] \in Variables \ {v}
        BY <1>8, <1>11, <1>12, <2>2, <3>2
      <4>2. c.var[c.gp[q]].register = q
        BY <1>10, <2>2, <4>1 DEF Matched
      <4> QED
        BY <1>9, <4>1, <4>2
    <3> QED
      BY <3>1, <3>2
  <2>3. ASSUME NEW u \in Variables
        PROVE  /\ d.var[u].state = "register" <=> d.var[u].register # NoRegister
               /\ d.var[u].register # NoRegister => d.gp[d.var[u].register] = u
    <3>1. CASE u = v
      BY <1>1, <1>5, <1>8, <1>9, <1>11, <1>12, <3>1
    <3>2. CASE u # v
      <4>1. d.var[u].state = c.var[u].state /\ d.var[u].register = c.var[u].register
        BY <1>9, <3>2
      <4>2. ASSUME c.var[u].register # NoRegister PROVE d.gp[c.var[u].register] = u
        <5>1. c.gp[c.var[u].register] = u
          BY <1>10, <4>2 DEF Matched
        <5>2. c.var[u].register \in Registers
          BY <1>1, <4>2, ContextFields, VarDataFields
        <5>3. c.var[u].register # r
          BY <1>11, <5>1, NoVariableIsNone
        <5> QED
          BY <1>8, <1>11, <5>1, <5>2, <5>3
      <4> QED
        BY <1>10, <4>1, <4>2 DEF Matched
    <3> QED
      BY <3>1, <3>2
  <2> QED
    BY <2>1, <2>2, <2>3 DEF Matched
<1>14. Marked(d)
  <2>1. \A u \in Variables : d.var[u].home \in d.modified \cup {NoRegister}
    BY <1>5, <1>8, <1>9, <1>10 DEF Marked
  <2>2. \A k \in DOMAIN d.code : RegistersOf(d.code[k]) \subseteq d.modified \cup {NoRegister}
    BY <1>2, <1>7, <1>8
  <2> QED
    BY <1>8, <1>10, <2>1, <2>2 DEF Marked
<1>15. SlotsDiffer(d) /\ Extended(c.code, d.code)
  BY <1>2, <1>7 DEF SlotsDiffer
<1> QED
  BY <1>3, <1>5, <1>6, <1>8, <1>9, <1>13, <1>14, <1>15 DEF Sound, Occupied, Later

LEMMA AllocGPVarLater ==
  ASSUME NEW c, Sound(c), NEW use \in Uses
  PROVE  Later(c, AllocGPVar(c, use))
<1> DEFINE v == use.v
           free == FreeRegister(c, v)
           r == SpillCandidate(c)
           b == SpillGPVar(c, c.gp[r])
           d == AllocGPVar(c, use)
<1>1. c \in Contexts /\ v \in Variables
  BY DEF Sound, Uses
<1>2. CASE c.var[v].state = "register"
  BY <1>2, LaterItself DEF AllocGPVar
<1>3. CASE c.var[v].state # "register" /\ free # NoRegister
  <2>1. d = Occupy(c, v, free, use.how)
    BY <1>3 DEF AllocGPVar
  <2>2. free \in Allocatable \ c.used
    BY <1>1, <1>3, FreeRegisterFree
  <2> HIDE DEF free, v
  <2>3. Occupied(c, v, free, Occupy(c, v, free, use.how))
    BY <1>1, <1>3, <2>2, OccupyLater
  <2> QED
    BY <2>1, <2>3 DEF Occupied
<1>4. CASE c.var[v].state # "register" /\ free = NoRegister /\ SpillCandidates(c) = {}
  <2>1. d = [c EXCEPT !.error = TRUE]
    BY <1>4 DEF AllocGPVar
  <2>2. d \in Contexts
    BY <1>1, <2>1 DEF Contexts
  <2>3. /\ d.gp = c.gp /\ d.used = c.used /\ d.modified = c.modified /\ d.var = c.var
        /\ d.frame = c.frame /\ d.code = c.code
    BY <1>1, <2>1 DEF Contexts
  <2>4. Extended(c.code, d.code)
    BY <1>1, <2>3, SameCode, ContextFields
  <2> QED
    BY <2>2, <2>3, <2>4 DEF Sound, Matched, Marked, SlotsDiffer, Later
<1>5. CASE c.var[v].state # "register" /\ free = NoRegister /\ SpillCandidates(c) # {}
  <2>1. d = Occupy(b, v, r, use.how)
    BY <1>5 DEF AllocGPVar
  <2>2. r \in Registers /\ c.gp[r] # NoVariable
    BY <1>1, <1>5, SpillCandidateExists
  <2> HIDE DEF r, v, free
  <2>3. Spilled(c, r, b)
    BY <1>1, <2>2, SpillLater
  <2> HIDE DEF b
  <2>4. c.gp[r] # v
    <3>1. c.var[c.gp[r]].register = r /\ r # NoRegister
      BY <2>2 DEF Sound, Matched, Registers, NoRegister
    <3> QED
      BY <1>1, <1>5, <3>1 DEF Sound, Matched
  <2>5. Sound(b) /\ b.var[v].state # "register" /\ r \in Allocatable \ b.used
    BY <1>1, <1>5, <2>2, <2>3, <2>4 DEF Spilled, Later, Sound, Matched, Marked
  <2>6. Occupied(b, v, r, Occupy(b, v, r, use.how))
    BY <1>1, <2>5, OccupyLater
  <2> QED
    BY <2>1, <2>3, <2>6, LaterStill DEF Spilled, Occupied
<1> QED
  BY <1>2, <1>3, <1>4, <1>5

LEMMA AllocVarLater ==
  ASSUME NEW c, Sound(c), NEW use \in Uses
  PROVE  Later(c, AllocVar(c, use))
<1> DEFINE b == AllocGPVar(c, use)
           d == [b EXCEPT !.var[use.v].changed = TRUE]
<1>1. Later(c, b)
  BY AllocGPVarLater
<1> HIDE DEF b
<1>2. b \in Contexts /\ use.v \in Variables
  BY <1>1 DEF Later, Sound, Uses
<1>3. b.var \in [Variables -> VarDatas]
  BY <1>2, ContextFields
<1>4. ASSUME NEW w \in VarDatas
      PROVE  /\ [w EXCEPT !.changed = TRUE] \in VarDatas
             /\ [w EXCEPT !.changed = TRUE].state = w.state
             /\ [w EXCEPT !.changed = TRUE].register = w.register
             /\ [w EXCEPT !.changed = TRUE].home = w.home
  BY DEF VarDatas
<1> DEFINE w == [b.var[use.v] EXCEPT !.changed = TRUE]
<1>5. /\ w \in VarDatas /\ w.state = b.var[use.v].state
      /\ w.register = b.var[use.v].register /\ w.home = b.var[use.v].home
  BY <1>2, <1>3, <1>4
<1>6. d = [b EXCEPT !.var = [b.var EXCEPT ![use.v] = w]]
  BY <1>2, <1>3 DEF Contexts
<1> HIDE DEF w, d
<1>7. d \in Contexts
  BY <1>2, <1>3, <1>5, <1>6 DEF Contexts
<1>8. /\ d.gp = b.gp /\ d.used = b.used /\ d.modified = b.modified /\ d.error = b.error
      /\ d.frame = b.frame /\ d.code = b.code
      /\ d.var = [b.var EXCEPT ![use.v] = w]
  BY <1>2, <1>6 DEF Contexts
<1>9. Quiet(b, d)
  BY <1>2, <1>3, <1>5, <1>8 DEF Quiet, Placed
<1>10. Later(b, d)
  BY <1>1, <1>7, <1>9, QuietLater DEF Later
<1> QED
  BY <1>1, <1>10, LaterStill DEF AllocVar, b, d

\* What is made of c.
After(c) == {d \in Contexts : Later(c, d)}

AllocEach(c, uses) == FoldLeft(AllocVar, c, uses)

LEMMA AllocSteps ==
  ASSUME NEW c, Sound(c), NEW uses \in Seq(Uses)
  PROVE  \E q \in [0 .. Len(uses) -> After(c)] :
           /\ q[0] = c
           /\ \A k \in 1 .. Len(uses) : q[k] = AllocVar(q[k - 1], uses[k])
           /\ AllocEach(c, uses) = q[Len(uses)]
<1> DEFINE n == Len(uses)
           A == After(c)
           F == [k \in 1 .. n |-> [d \in A |-> AllocVar(d, uses[k])]]
           Recursion(g) ==
             g = [s \in SUBSET (1 .. n) |->
                    IF s = {} THEN c ELSE AllocVar(g[s \ {Max(s)}], uses[Max(s)])]
           it == CHOOSE g : Recursion(g)
<1>1. DOMAIN uses = 1 .. n /\ \A k \in 1 .. n : uses[k] \in Uses
  OBVIOUS
<1>2. n \in Nat
  OBVIOUS
<1>3. c \in A
  BY LaterItself DEF After, Sound
<1>4. F \in [1 .. n -> [A -> A]]
  <2>1. ASSUME NEW d \in A, NEW use \in Uses PROVE AllocVar(d, use) \in A
    <3>1. Later(d, AllocVar(d, use))
      BY AllocVarLater DEF After, Later
    <3> QED
      BY <3>1, LaterStill DEF After, Later, Sound
  <2> HIDE DEF A
  <2> QED
    BY <1>1, <2>1
<1>5. \A k \in 1 .. n, a \in A : F[k][a] = AllocVar(a, uses[k])
  OBVIOUS
<1> HIDE DEF n, A, F, Recursion, it
<1>6. PICK h \in [SUBSET (1 .. n) -> A] : Solves(h, n, c, F)
  BY <1>2, <1>3, <1>4, FoldExists
<1>7. \A s \in SUBSET (1 .. n) : s # {} => Max(s) \in 1 .. n /\ s \ {Max(s)} \in SUBSET (1 .. n)
  BY <1>2, MaxOfRange
<1>8. Recursion(h)
  BY <1>5, <1>6, <1>7 DEF Recursion, Solves
<1>9. Recursion(it)
  BY <1>8 DEF it
<1>10. Follows(it, n, A, c, F)
  BY <1>5, <1>7, <1>9 DEF Recursion, Follows
<1>11. PICK q \in [0 .. n -> A] : Steps(q, n, c, F) /\ q[n] = it[1 .. n]
  BY <1>2, <1>3, <1>4, <1>10, FoldSteps
<1>12. q[0] = c /\ \A k \in 1 .. n : q[k] = AllocVar(q[k - 1], uses[k])
  <2>1. \A k \in 1 .. n : k - 1 \in 0 .. n
    BY <1>2
  <2> QED
    BY <1>5, <1>11, <2>1 DEF Steps
<1>13. AllocEach(c, uses) = it[1 .. n]
  BY <1>1 DEF AllocEach, FoldLeft, MapThenFoldSet, it, Recursion
<1> QED
  BY <1>11, <1>12, <1>13 DEF A, n

LEMMA AllocAllLater ==
  ASSUME NEW c, Sound(c), NEW uses \in Seq(Uses)
  PROVE  Later(c, AllocEach(c, uses))
<1>1. Len(uses) \in 0 .. Len(uses)
  OBVIOUS
<1> QED
  BY <1>1, AllocSteps DEF After

-----------------------------------------------------------------------------
(* Going back to the state of the label.                                   *)

\* The registers in which a context differs from the label at most by being
\* free.
Left(c, t, r) == c.gp[r] \in {NoVariable, t.gp[r]}

LEMMA UnuseLater ==
  ASSUME NEW c, Sound(c), NEW gone \in SUBSET Variables
  PROVE  Later(c, UnuseVars(c, gone))
BY ForgetLater DEF UnuseVars

AllLeft(c, t) == \A r \in Registers : Left(c, t, r)

\* Context d is c with nothing done but to register r.
Alone(c, r, d) ==
  /\ Later(c, d)
  /\ \A q \in Registers \ {r} : d.gp[q] = c.gp[q]

LEMMA LeaveLater ==
  ASSUME NEW c, Sound(c), NEW t, NEW r \in Registers
  PROVE  Alone(c, r, LeaveRegister(c, t, r)) /\ Left(LeaveRegister(c, t, r), t, r)
<1> DEFINE v == c.gp[r]
           d == LeaveRegister(c, t, r)
<1>1. c \in Contexts /\ c.gp \in [Registers -> Variables \cup {NoVariable}]
  BY ContextFields DEF Sound
<1>2. CASE Left(c, t, r)
  BY <1>2, LaterItself DEF Left, LeaveRegister, Alone
<1>3. CASE ~Left(c, t, r) /\ StateAtTarget(t, v) = "unused"
  <2>1. d = UnuseVars(c, {v})
    BY <1>3 DEF Left, LeaveRegister
  <2>2. v \in Variables /\ c.var[v].register = r
    BY <1>1, <1>3 DEF Left, Sound, Matched
  <2>3. {c.var[u].register : u \in {v}} = {r}
    BY <2>2
  <2>4. {v} \in SUBSET Variables
    BY <2>2
  <2>5. Later(c, UnuseVars(c, {v}))
    BY <2>4, UnuseLater
  <2>6. UnuseVars(c, {v}).gp =
          [q \in Registers |-> IF q \in {c.var[u].register : u \in {v}}
                               THEN NoVariable ELSE c.gp[q]]
    BY <1>1, <2>4, ForgetFields DEF UnuseVars
  <2>7. d.gp = [q \in Registers |-> IF q = r THEN NoVariable ELSE c.gp[q]]
    BY <2>1, <2>3, <2>6
  <2> HIDE DEF d
  <2>8. Alone(c, r, d)
    BY <2>1, <2>5, <2>7 DEF Alone
  <2>9. Left(d, t, r)
    BY <2>7 DEF Left
  <2> QED
    BY <2>8, <2>9 DEF d
<1>4. CASE ~Left(c, t, r) /\ StateAtTarget(t, v) # "unused"
  <2>1. d = SpillGPVar(c, v)
    BY <1>4 DEF Left, LeaveRegister
  <2>2. v # NoVariable
    BY <1>4 DEF Left
  <2>3. Spilled(c, r, SpillGPVar(c, v))
    BY <2>2, SpillLater
  <2> QED
    BY <1>1, <2>1, <2>3 DEF Spilled, Left, Alone
<1> QED
  BY <1>2, <1>3, <1>4

LEMMA EnterLater ==
  ASSUME NEW c, Sound(c), NEW t, TargetSound(t), NEW r \in Registers,
         AllLeft(c, t)
  PROVE  Alone(c, r, EnterRegister(c, t, r)) /\ EnterRegister(c, t, r).gp[r] = t.gp[r]
<1> DEFINE v == t.gp[r]
           d == EnterRegister(c, t, r)
<1>1. c \in Contexts /\ c.gp \in [Registers -> Variables \cup {NoVariable}] /\ Matched(c)
  BY ContextFields DEF Sound
<1>2. CASE v \in {NoVariable, c.gp[r]}
  BY <1>2, LaterItself DEF Left, AllLeft, EnterRegister, Alone
<1>3. CASE v \notin {NoVariable, c.gp[r]}
  <2>1. d = Occupy(c, v, r, {"read"})
    BY <1>3 DEF EnterRegister
  <2>2. v \in Variables /\ r \in Allocatable
    BY <1>3 DEF TargetSound
  <2>3. c.gp[r] = NoVariable /\ r \notin c.used
    BY <1>1, <1>3 DEF Left, AllLeft, Matched
  <2>4. c.var[v].state # "register"
    <3> SUFFICES ASSUME c.var[v].state = "register" PROVE FALSE
      OBVIOUS
    <3> DEFINE q == c.var[v].register
    <3>1. q # NoRegister /\ c.gp[q] = v
      BY <1>1, <2>2 DEF Matched
    <3>2. q \in Registers
      BY <1>1, <2>2, <3>1, ContextFields, VarDataFields
    <3>3. t.gp[q] = v
      BY <1>3, <3>1, <3>2 DEF Left, AllLeft
    <3>4. q = r
      BY <1>3, <3>2, <3>3 DEF TargetSound
    <3> QED
      BY <1>3, <3>1, <3>4
  <2> HIDE DEF v
  <2>5. Occupied(c, v, r, Occupy(c, v, r, {"read"}))
    BY <2>2, <2>3, <2>4, OccupyLater
  <2> QED
    BY <1>1, <2>1, <2>5 DEF Occupied, Alone, v
<1> QED
  BY <1>2, <1>3

LEMMA Order ==
  /\ DOMAIN RegisterOrder = 1 .. 16
  /\ \A k \in 1 .. 16 : RegisterOrder[k] = k - 1 /\ RegisterOrder[k] \in Registers
BY DEF RegisterOrder, Registers

LeaveEach(c, t) ==
  FoldLeft(LAMBDA e, r : LeaveRegister(e, t, r), c, RegisterOrder)

LEMMA LeaveSteps ==
  ASSUME NEW c, Sound(c), NEW t
  PROVE  \E q \in [0 .. 16 -> After(c)] :
           /\ q[0] = c
           /\ \A k \in 0 .. 15 : q[k + 1] = LeaveRegister(q[k], t, k)
           /\ LeaveEach(c, t) = q[16]
<1> DEFINE n == 16
           A == After(c)
           F == [k \in 1 .. n |-> [d \in A |-> LeaveRegister(d, t, RegisterOrder[k])]]
           Recursion(g) ==
             g = [s \in SUBSET (1 .. n) |->
                    IF s = {} THEN c
                    ELSE LeaveRegister(g[s \ {Max(s)}], t, RegisterOrder[Max(s)])]
           it == CHOOSE g : Recursion(g)
<1>1. n = 16
  OBVIOUS
<1>2. n \in Nat
  OBVIOUS
<1>3. c \in A
  BY LaterItself DEF After, Sound
<1>4. F \in [1 .. n -> [A -> A]]
  <2>1. ASSUME NEW d \in A, NEW r \in Registers PROVE LeaveRegister(d, t, r) \in A
    <3>1. Later(d, LeaveRegister(d, t, r))
      BY LeaveLater DEF After, Later, Alone
    <3> QED
      BY <3>1, LaterStill DEF After, Later, Sound
  <2> HIDE DEF A
  <2> QED
    BY <2>1, <1>1, Order
<1>5. \A k \in 1 .. n, a \in A : F[k][a] = LeaveRegister(a, t, RegisterOrder[k])
  OBVIOUS
<1> HIDE DEF n, A, F, Recursion, it
<1>6. PICK h \in [SUBSET (1 .. n) -> A] : Solves(h, n, c, F)
  BY <1>2, <1>3, <1>4, FoldExists
<1>7. \A s \in SUBSET (1 .. n) : s # {} => Max(s) \in 1 .. n /\ s \ {Max(s)} \in SUBSET (1 .. n)
  BY <1>2, MaxOfRange
<1>8. Recursion(h)
  BY <1>5, <1>6, <1>7 DEF Recursion, Solves
<1>9. Recursion(it)
  BY <1>8 DEF it
<1>10. Follows(it, n, A, c, F)
  BY <1>5, <1>7, <1>9 DEF Recursion, Follows
<1>11. PICK q \in [0 .. n -> A] : Steps(q, n, c, F) /\ q[n] = it[1 .. n]
  BY <1>2, <1>3, <1>4, <1>10, FoldSteps
<1>12. LeaveEach(c, t) = it[1 .. n]
  BY <1>1, Order DEF LeaveEach, FoldLeft, MapThenFoldSet, it, Recursion
<1>13. q[0] = c
  BY <1>11 DEF Steps
<1>14. \A k \in 0 .. 15 : q[k + 1] = LeaveRegister(q[k], t, k)
  <2> TAKE k \in 0 .. 15
  <2>1. k + 1 \in 1 .. n /\ (k + 1) - 1 = k /\ k \in 0 .. n
    BY <1>1
  <2> QED
    BY <1>1, <1>5, <1>11, <2>1, Order DEF Steps
<1> QED
  BY <1>1, <1>11, <1>12, <1>13, <1>14 DEF A

LEMMA LeaveAll ==
  ASSUME NEW c, Sound(c), NEW t
  PROVE  LET d == LeaveEach(c, t)
         IN  Later(c, d) /\ AllLeft(d, t)
<1>1. PICK q \in [0 .. 16 -> After(c)] :
        /\ q[0] = c
        /\ \A k \in 0 .. 15 : q[k + 1] = LeaveRegister(q[k], t, k)
        /\ LeaveEach(c, t) = q[16]
  BY LeaveSteps
<1> DEFINE S == {k \in 0 .. 16 : \A r \in Registers : r < k => Left(q[k], t, r)}
<1>2. 0 \in S
  BY DEF Registers
<1>3. ASSUME NEW k \in 0 .. 15, k \in S PROVE k + 1 \in S
  <2>1. k + 1 \in 0 .. 16 /\ k \in 0 .. 16 /\ k \in Registers
    BY DEF Registers
  <2>2. q[k + 1] = LeaveRegister(q[k], t, k) /\ Sound(q[k])
    BY <1>1, <2>1 DEF After, Later
  <2>3. /\ Left(q[k + 1], t, k)
        /\ \A r \in Registers \ {k} : q[k + 1].gp[r] = q[k].gp[r]
    BY <2>1, <2>2, LeaveLater DEF Alone
  <2>4. \A r \in Registers : r < k + 1 => r = k \/ r < k
    BY DEF Registers
  <2> QED
    BY <1>3, <2>1, <2>3, <2>4 DEF Left
<1> HIDE DEF S
<1>4. 16 \in S
  <2>1. 16 \in Nat /\ 16 \in 0 .. 16 /\ \A k \in 0 .. 16 - 1 : k \in S => k + 1 \in S
    BY <1>3
  <2> QED
    BY <1>2, <2>1, UpTo
<1>5. \A r \in Registers : r < 16
  BY DEF Registers
<1> QED
  BY <1>1, <1>4, <1>5 DEF S, After, AllLeft

EnterEach(c, t) ==
  FoldLeft(LAMBDA e, r : EnterRegister(e, t, r), c, RegisterOrder)

LEMMA EnterSteps ==
  ASSUME NEW c, Sound(c), NEW t, TargetSound(t), AllLeft(c, t)
  PROVE  \E q \in [0 .. 16 -> {d \in After(c) : AllLeft(d, t)}] :
           /\ q[0] = c
           /\ \A k \in 0 .. 15 : q[k + 1] = EnterRegister(q[k], t, k)
           /\ EnterEach(c, t) = q[16]
<1> DEFINE n == 16
           A == {d \in After(c) : AllLeft(d, t)}
           F == [k \in 1 .. n |-> [d \in A |-> EnterRegister(d, t, RegisterOrder[k])]]
           Recursion(g) ==
             g = [s \in SUBSET (1 .. n) |->
                    IF s = {} THEN c
                    ELSE EnterRegister(g[s \ {Max(s)}], t, RegisterOrder[Max(s)])]
           it == CHOOSE g : Recursion(g)
<1>1. n = 16
  OBVIOUS
<1>2. n \in Nat
  OBVIOUS
<1>3. c \in A
  BY LaterItself DEF After, Sound
<1>4. F \in [1 .. n -> [A -> A]]
  <2>1. ASSUME NEW d \in A, NEW r \in Registers PROVE EnterRegister(d, t, r) \in A
    <3>1. Later(d, EnterRegister(d, t, r))
      BY EnterLater DEF After, Later, Alone
    <3>2. AllLeft(EnterRegister(d, t, r), t)
      BY EnterLater DEF After, Later, Alone, Left, AllLeft
    <3> QED
      BY <3>1, <3>2, LaterStill DEF After, Later, Sound
  <2> HIDE DEF A
  <2> QED
    BY <2>1, <1>1, Order
<1>5. \A k \in 1 .. n, a \in A : F[k][a] = EnterRegister(a, t, RegisterOrder[k])
  OBVIOUS
<1> HIDE DEF n, A, F, Recursion, it
<1>6. PICK h \in [SUBSET (1 .. n) -> A] : Solves(h, n, c, F)
  BY <1>2, <1>3, <1>4, FoldExists
<1>7. \A s \in SUBSET (1 .. n) : s # {} => Max(s) \in 1 .. n /\ s \ {Max(s)} \in SUBSET (1 .. n)
  BY <1>2, MaxOfRange
<1>8. Recursion(h)
  BY <1>5, <1>6, <1>7 DEF Recursion, Solves
<1>9. Recursion(it)
  BY <1>8 DEF it
<1>10. Follows(it, n, A, c, F)
  BY <1>5, <1>7, <1>9 DEF Recursion, Follows
<1>11. PICK q \in [0 .. n -> A] : Steps(q, n, c, F) /\ q[n] = it[1 .. n]
  BY <1>2, <1>3, <1>4, <1>10, FoldSteps
<1>12. EnterEach(c, t) = it[1 .. n]
  BY <1>1, Order DEF EnterEach, FoldLeft, MapThenFoldSet, it, Recursion
<1>13. q[0] = c
  BY <1>11 DEF Steps
<1>14. \A k \in 0 .. 15 : q[k + 1] = EnterRegister(q[k], t, k)
  <2> TAKE k \in 0 .. 15
  <2>1. k + 1 \in 1 .. n /\ (k + 1) - 1 = k /\ k \in 0 .. n
    BY <1>1
  <2> QED
    BY <1>1, <1>5, <1>11, <2>1, Order DEF Steps
<1> QED
  BY <1>1, <1>11, <1>12, <1>13, <1>14 DEF A

LEMMA EnterAll ==
  ASSUME NEW c, Sound(c), NEW t, TargetSound(t), AllLeft(c, t)
  PROVE  LET d == EnterEach(c, t)
         IN  Later(c, d) /\ d.gp = t.gp
<1>1. PICK q \in [0 .. 16 -> {d \in After(c) : AllLeft(d, t)}] :
        /\ q[0] = c
        /\ \A k \in 0 .. 15 : q[k + 1] = EnterRegister(q[k], t, k)
        /\ EnterEach(c, t) = q[16]
  BY EnterSteps
<1> DEFINE S == {k \in 0 .. 16 : \A r \in Registers : r < k => q[k].gp[r] = t.gp[r]}
<1>2. 0 \in S
  BY DEF Registers
<1>3. ASSUME NEW k \in 0 .. 15, k \in S PROVE k + 1 \in S
  <2>1. k + 1 \in 0 .. 16 /\ k \in 0 .. 16 /\ k \in Registers
    BY DEF Registers
  <2>2. q[k + 1] = EnterRegister(q[k], t, k) /\ Sound(q[k]) /\ AllLeft(q[k], t)
    BY <1>1, <2>1 DEF After, Later
  <2>3. /\ q[k + 1].gp[k] = t.gp[k]
        /\ \A r \in Registers \ {k} : q[k + 1].gp[r] = q[k].gp[r]
    BY <2>1, <2>2, EnterLater DEF Alone
  <2>4. \A r \in Registers : r < k + 1 => r = k \/ r < k
    BY DEF Registers
  <2> QED
    BY <1>3, <2>1, <2>3, <2>4 DEF Left
<1> HIDE DEF S
<1>4. 16 \in S
  <2>1. 16 \in Nat /\ 16 \in 0 .. 16 /\ \A k \in 0 .. 16 - 1 : k \in S => k + 1 \in S
    BY <1>3
  <2> QED
    BY <1>2, <2>1, UpTo
<1>5. \A r \in Registers : r < 16
  BY DEF Registers
<1>6. q[16] \in After(c) /\ \A r \in Registers : q[16].gp[r] = t.gp[r]
  BY <1>1, <1>4, <1>5 DEF S
<1>7. q[16].gp = t.gp
  <2>1. q[16].gp \in [Registers -> Variables \cup {NoVariable}]
    BY <1>6, ContextFields DEF After
  <2>2. t.gp \in [Registers -> Variables \cup {NoVariable}]
    BY DEF TargetSound
  <2> QED
    BY <1>6, <2>1, <2>2
<1> QED
  BY <1>1, <1>6, <1>7 DEF After

\* Where the label found nothing in a register, nothing is in one now.
LEMMA SettleKeeps ==
  ASSUME NEW d \in Contexts, Matched(d), NEW t, TargetSound(t), d.gp = t.gp,
         NEW v \in Variables, StateAtTarget(t, v) # "register"
  PROVE  /\ StateAtTarget(t, v) \in {"memory", "unused"}
         /\ d.var[v].state # "register" /\ d.var[v].register = NoRegister
<1>1. StateAtTarget(t, v) \in {"memory", "unused"}
  BY DEF StateAtTarget
<1>2. ~ \E r \in Registers : t.gp[r] = v
  <2> SUFFICES ASSUME NEW r \in Registers, t.gp[r] = v PROVE FALSE
    OBVIOUS
  <2>1. v \notin t.memory
    BY DEF TargetSound
  <2> QED
    BY <2>1 DEF StateAtTarget
<1>3. d.var[v].register \in Registers \cup {NoRegister}
  BY ContextFields, VarDataFields
<1>4. d.var[v].register = NoRegister
  BY <1>2, <1>3 DEF Matched
<1> QED
  BY <1>1, <1>4 DEF Matched

LEMMA RestoreLater ==
  ASSUME NEW c, Sound(c), NEW t, TargetSound(t)
  PROVE  Later(c, RestoreState(c, t))
<1> DEFINE left == LeaveEach(c, t)
           moved == EnterEach(left, t)
           Settle(v) ==
             IF v \in Active(c) /\ StateAtTarget(t, v) # "register"
             THEN [moved.var[v] EXCEPT !.state = StateAtTarget(t, v), !.changed = FALSE]
             ELSE moved.var[v]
           var == [v \in Variables |-> Settle(v)]
           d == [moved EXCEPT !.used = t.used, !.var = var]
<1>1. c \in Contexts /\ DOMAIN c.var = Variables
  BY ContextFields DEF Sound
<1>2. RestoreState(c, t) = d
  BY <1>1 DEF RestoreState, LeaveEach, EnterEach
<1>3. Later(c, left) /\ AllLeft(left, t)
  BY LeaveAll
<1>4. Sound(left)
  BY <1>3 DEF Later
<1> HIDE DEF left
<1>5. Later(left, moved) /\ moved.gp = t.gp
  BY <1>3, <1>4, EnterAll
<1>6. Later(c, moved)
  BY <1>3, <1>5, LaterStill
<1>7. moved \in Contexts /\ Matched(moved) /\ Marked(moved) /\ SlotsDiffer(moved)
  BY <1>5 DEF Later, Sound
<1> HIDE DEF moved
<1>8. moved.used = t.used
  BY <1>5, <1>7 DEF TargetSound, Matched
<1>9. ASSUME NEW v \in Variables
      PROVE  /\ var[v] \in VarDatas
             /\ var[v].register = moved.var[v].register
             /\ var[v].home = moved.var[v].home
             /\ var[v].state = "register" <=> moved.var[v].state = "register"
  <2> DEFINE w == moved.var[v]
  <2>1. w \in VarDatas
    BY <1>7, ContextFields
  <2>2. CASE v \in Active(c) /\ StateAtTarget(t, v) # "register"
    <3>1. StateAtTarget(t, v) \in {"memory", "unused"} /\ w.state # "register"
      BY <1>5, <1>7, <2>2, SettleKeeps
    <3>2. var[v] = [w EXCEPT !.state = StateAtTarget(t, v), !.changed = FALSE]
      BY <2>2
    <3> HIDE DEF w
    <3> QED
      BY <2>1, <3>1, <3>2 DEF VarDatas, w
  <2>3. CASE ~(v \in Active(c) /\ StateAtTarget(t, v) # "register")
    BY <2>1, <2>3
  <2> QED
    BY <2>2, <2>3
<1>10. var \in [Variables -> VarDatas]
  BY <1>9
<1> HIDE DEF var
<1>11. /\ d \in Contexts
       /\ d.gp = moved.gp /\ d.used = moved.used /\ d.modified = moved.modified
       /\ d.var = var /\ d.frame = moved.frame /\ d.code = moved.code
  BY <1>7, <1>8, <1>10 DEF Contexts
<1> HIDE DEF d
<1>12. Matched(d)
  <2>1. \A r \in Registers : moved.gp[r] # NoVariable => moved.gp[r] \in Variables
    BY <1>7, ContextFields
  <2> QED
    BY <1>7, <1>9, <1>11, <2>1 DEF Matched
<1>13. Marked(d)
  BY <1>7, <1>9, <1>11 DEF Marked
<1>14. SlotsDiffer(d)
  BY <1>7, <1>11 DEF SlotsDiffer
<1> QED
  BY <1>2, <1>6, <1>11, <1>12, <1>13, <1>14 DEF Later, Sound
-----------------------------------------------------------------------------
(* The steps of the compiler.                                              *)

LEMMA CountersQuiet ==
  ASSUME NEW c \in Contexts, NEW x \in Int, NEW y \in Int,
         NEW d, d = [c EXCEPT !.cur = x, !.at = y]
  PROVE  d \in Contexts /\ Quiet(c, d)
<1>1. d \in Contexts
  BY DEF Contexts
<1>2. Quiet(c, d)
  BY DEF Contexts, Quiet, Placed
<1> QED
  BY <1>1, <1>2

\* Every variable keeps its place, whatever else of it changes.
SamePlaces(c, var) ==
  /\ var \in [Variables -> VarDatas]
  /\ \A v \in Variables :
       /\ var[v].state = c.var[v].state
       /\ var[v].register = c.var[v].register
       /\ var[v].home = c.var[v].home

LEMMA VariablesQuiet ==
  ASSUME NEW c \in Contexts, NEW x \in Int, NEW var, SamePlaces(c, var),
         NEW d, d = [c EXCEPT !.cur = x, !.var = var]
  PROVE  d \in Contexts /\ Quiet(c, d)
<1>1. d \in Contexts
  BY DEF Contexts, SamePlaces
<1>2. d.gp = c.gp /\ d.used = c.used /\ d.modified = c.modified /\ d.error = c.error
      /\ d.frame = c.frame /\ d.code = c.code /\ d.var = var
  BY DEF Contexts
<1>3. Quiet(c, d)
  BY <1>2 DEF Quiet, Placed, SamePlaces
<1> QED
  BY <1>1, <1>3

LEMMA MarkAtWorkQuiet ==
  ASSUME NEW c \in Contexts, NEW uses \in Seq(Uses), uses # <<>>
  PROVE  MarkAtWork(c, uses) \in Contexts /\ Quiet(c, MarkAtWork(c, uses))
<1> DEFINE v == uses[1].v
           w == [c.var[v] EXCEPT !.work = c.cur]
           var == [c.var EXCEPT ![v] = w]
           d == [c EXCEPT !.cur = c.cur, !.var = var]
<1>1. v \in Variables
  <2>1. uses[1] \in Uses
    OBVIOUS
  <2> QED
    BY <2>1 DEF Uses
<1>2. c.cur \in Int /\ c.var \in [Variables -> VarDatas] /\ c.var[v] \in VarDatas
  BY <1>1, ContextFields
<1>3. w \in VarDatas /\ w.state = c.var[v].state /\ w.register = c.var[v].register
      /\ w.home = c.var[v].home
  BY <1>2 DEF VarDatas
<1>4. MarkAtWork(c, uses) = d
  BY DEF MarkAtWork, Contexts
<1> HIDE DEF v, w
<1>5. SamePlaces(c, var)
  BY <1>1, <1>2, <1>3 DEF SamePlaces
<1> HIDE DEF var
<1>6. d \in Contexts /\ Quiet(c, d)
  <2>1. c.cur \in Int /\ c.cur + 1 \in Int
    BY <1>2
  <2> QED
    BY <1>5, <2>1, VariablesQuiet
<1> QED
  BY <1>4, <1>6

LEMMA PrepareJumpQuiet ==
  ASSUME NEW c \in Contexts, NEW i \in Int
  PROVE  PrepareJump(c, i) \in Contexts /\ Quiet(c, PrepareJump(c, i))
<1> DEFINE across == {v \in Active(c) : /\ c.var[v].first <= LoopPlace - 1
                                        /\ c.var[v].last >= LoopPlace - 1}
           var == [v \in Variables |->
                     IF v \in across THEN [c.var[v] EXCEPT !.last = c.cur, !.ends = i]
                     ELSE c.var[v]]
           d == [c EXCEPT !.cur = c.cur + 1, !.var = var]
<1>1. c.cur \in Int /\ c.var \in [Variables -> VarDatas]
  BY ContextFields
<1>2. PrepareJump(c, i) = d
  BY <1>1 DEF PrepareJump
<1>3. ASSUME NEW v \in Variables
      PROVE  /\ var[v] \in VarDatas /\ var[v].state = c.var[v].state
             /\ var[v].register = c.var[v].register /\ var[v].home = c.var[v].home
  <2>1. CASE v \in across
    BY <1>1, <2>1 DEF VarDatas
  <2>2. CASE v \notin across
    BY <1>1, <2>2
  <2> QED
    BY <2>1, <2>2
<1> HIDE DEF across
<1>4. SamePlaces(c, var)
  BY <1>3 DEF SamePlaces
<1> HIDE DEF var
<1>5. c.cur + 1 \in Int
  BY <1>1
<1>6. d \in Contexts /\ Quiet(c, d)
  BY <1>4, <1>5, VariablesQuiet
<1> QED
  BY <1>2, <1>6

LEMMA PreparePrologQuiet ==
  ASSUME NEW c \in Contexts, NEW i \in Int
  PROVE  PrepareProlog(c, i) \in Contexts /\ Quiet(c, PrepareProlog(c, i))
<1> DEFINE w == [c.var[Chain] EXCEPT !.first = c.cur, !.last = c.cur, !.ends = i]
           var == [c.var EXCEPT ![Chain] = w]
           d == [c EXCEPT !.cur = c.cur + 1, !.var = var]
<1>1. Chain \in Variables
  BY DEF Variables
<1>2. c.cur \in Int /\ c.var \in [Variables -> VarDatas] /\ c.var[Chain] \in VarDatas
  BY <1>1, ContextFields
<1>3. w \in VarDatas /\ w.state = c.var[Chain].state /\ w.register = c.var[Chain].register
      /\ w.home = c.var[Chain].home
  BY <1>2 DEF VarDatas
<1>4. PrepareProlog(c, i) = d
  BY DEF PrepareProlog, Contexts
<1> HIDE DEF w
<1>5. SamePlaces(c, var)
  BY <1>1, <1>2, <1>3 DEF SamePlaces
<1> HIDE DEF var
<1>6. d \in Contexts /\ Quiet(c, d)
  <2>1. c.cur \in Int /\ c.cur + 1 \in Int
    BY <1>2
  <2> QED
    BY <1>5, <2>1, VariablesQuiet
<1> QED
  BY <1>4, <1>6
LEMMA AppendSound ==
  ASSUME NEW c, Sound(c), NEW op \in Ops, NEW uses \in Seq(Uses)
  PROVE  Sound(AppendCode(c, op, uses)) /\ Placed(c, AppendCode(c, op, uses))
<1> DEFINE regs == [k \in DOMAIN uses |-> c.var[uses[k].v].register]
           item == [op |-> op, uses |-> uses, regs |-> regs]
           d == [c EXCEPT !.code = Append(c.code, item)]
<1>1. /\ c \in Contexts /\ Matched(c) /\ Marked(c) /\ SlotsDiffer(c)
      /\ c.code \in Seq(Items) /\ c.var \in [Variables -> VarDatas]
  BY ContextFields DEF Sound
<1>2. AppendCode(c, op, uses) = d
  BY DEF AppendCode
<1>3. ASSUME NEW v \in Variables
      PROVE  /\ c.var[v].register \in Registers \cup {NoRegister}
             /\ c.var[v].register \in c.modified \cup {NoRegister}
  <2>1. c.var[v].register \in Registers \cup {NoRegister}
    BY <1>1, VarDataFields
  <2>2. ASSUME c.var[v].register # NoRegister PROVE c.var[v].register \in c.modified
    <3>1. c.gp[c.var[v].register] = v /\ c.var[v].register \in Registers
      BY <1>1, <2>1, <2>2 DEF Matched
    <3>2. c.var[v].register \in c.used
      BY <1>1, <3>1, NoVariableIsNone DEF Matched
    <3> QED
      BY <1>1, <3>2 DEF Marked
  <2> QED
    BY <2>1, <2>2
<1>4. \A k \in DOMAIN uses : uses[k] \in Uses /\ uses[k].v \in Variables
  <2>1. \A k \in DOMAIN uses : uses[k] \in Uses
    OBVIOUS
  <2> QED
    BY <2>1 DEF Uses
<1>5. /\ regs \in Seq(Registers \cup {NoRegister})
      /\ \A k \in DOMAIN regs : regs[k] \in c.modified \cup {NoRegister}
      /\ DOMAIN regs = DOMAIN uses
  <2>1. DOMAIN uses = 1 .. Len(uses) /\ Len(uses) \in Nat
    OBVIOUS
  <2>2. \A k \in DOMAIN uses : regs[k] \in Registers \cup {NoRegister}
    BY <1>3, <1>4
  <2> QED
    BY <1>3, <1>4, <2>1, <2>2
<1> HIDE DEF regs
<1>6. item \in Items /\ item.op = op /\ item.regs = regs /\ op \notin {"save", "load"}
  BY <1>5 DEF Items, Ops
<1>7. RegistersOf(item) \subseteq c.modified \cup {NoRegister}
  BY <1>5, <1>6 DEF RegistersOf
<1> HIDE DEF item
<1>8. Append(c.code, item) \in Seq(Items)
  BY <1>1, <1>6
<1>9. /\ d \in Contexts /\ d.gp = c.gp /\ d.used = c.used /\ d.modified = c.modified
      /\ d.var = c.var /\ d.error = c.error /\ d.frame = c.frame
      /\ d.code = Append(c.code, item)
  BY <1>1, <1>8 DEF Contexts
<1> HIDE DEF d
<1>10. Placed(c, d)
  BY <1>9 DEF Placed
<1>11. Matched(d)
  BY <1>10, PlacedMatched
<1>12. Marked(d)
  <2>1. \A k \in DOMAIN d.code : RegistersOf(d.code[k]) \subseteq c.modified \cup {NoRegister}
    BY <1>1, <1>7, <1>9 DEF Marked
  <2> QED
    BY <1>1, <1>9, <2>1 DEF Marked
<1>13. SlotsDiffer(d)
  BY <1>1, <1>9 DEF SlotsDiffer
<1> QED
  BY <1>2, <1>9, <1>10, <1>11, <1>12, <1>13 DEF Sound

LEMMA EndScopesSound ==
  ASSUME NEW c, Sound(c), NEW S \in SUBSET Variables, NEW i
  PROVE  Later(c, EndScopes(c, S, i))
<1>1. {v \in S : c.var[v].ends = i} \in SUBSET Variables
  OBVIOUS
<1> QED
  BY <1>1, UnuseLater DEF EndScopes

\* The argument is in the register that it came in.
LEMMA AllocVariablesSound ==
  ASSUME NEW c, Sound(c), c.used = {}
  PROVE  Later(c, AllocVariables(c))
<1> DEFINE taken == Occupy(c, Chain, ArgRegister, {})
           w == [taken.var[Chain] EXCEPT !.changed = TRUE, !.home = NoRegister]
           var == [taken.var EXCEPT ![Chain] = w]
           d == [taken EXCEPT !.var = var]
<1>1. Chain \in Variables /\ ArgRegister \in Allocatable \ c.used
  BY DEF Variables, ArgRegister, Allocatable, Registers, ESP, EBP
<1>2. c.var[Chain].state # "register"
  <2>1. c \in Contexts /\ Matched(c)
    BY DEF Sound
  <2>2. c.var[Chain].register \in Registers \cup {NoRegister}
    BY <1>1, <2>1, ContextFields, VarDataFields
  <2>3. \A r \in Registers : c.gp[r] = NoVariable
    BY <2>1 DEF Matched
  <2>4. c.var[Chain].register = NoRegister
    BY <1>1, <2>1, <2>2, <2>3, NoVariableIsNone DEF Matched
  <2> QED
    BY <1>1, <2>1, <2>4 DEF Matched
<1>3. Occupied(c, Chain, ArgRegister, taken)
  BY <1>1, <1>2, OccupyLater
<1>4. /\ taken \in Contexts /\ Matched(taken) /\ Marked(taken) /\ SlotsDiffer(taken)
      /\ taken.var \in [Variables -> VarDatas] /\ taken.var[Chain] \in VarDatas
  BY <1>1, <1>3, ContextFields DEF Occupied, Later, Sound
<1> HIDE DEF taken
<1>5. AllocVariables(c) = d
  <2>1. AllocVariables(c) =
          [taken EXCEPT !.var[Chain].changed = TRUE, !.var[Chain].home = NoRegister]
    BY DEF AllocVariables, taken
  <2> QED
    BY <1>1, <1>4, <2>1 DEF Contexts
<1>6. /\ w \in VarDatas /\ w.state = taken.var[Chain].state
      /\ w.register = taken.var[Chain].register /\ w.home = NoRegister
  BY <1>4 DEF VarDatas
<1> HIDE DEF w
<1>7. /\ var \in [Variables -> VarDatas]
      /\ \A v \in Variables :
           /\ var[v].state = taken.var[v].state
           /\ var[v].register = taken.var[v].register
           /\ var[v].home \in {taken.var[v].home, NoRegister}
  BY <1>1, <1>4, <1>6
<1> HIDE DEF var
<1>8. /\ d \in Contexts /\ d.gp = taken.gp /\ d.used = taken.used
      /\ d.modified = taken.modified /\ d.var = var /\ d.frame = taken.frame
      /\ d.code = taken.code
  BY <1>4, <1>7 DEF Contexts
<1> HIDE DEF d
<1>9. Matched(d)
  <2>1. \A r \in Registers : taken.gp[r] # NoVariable => taken.gp[r] \in Variables
    BY <1>4, ContextFields
  <2> QED
    BY <1>4, <1>7, <1>8, <2>1 DEF Matched
<1>10. Marked(d)
  BY <1>4, <1>7, <1>8 DEF Marked
<1>11. SlotsDiffer(d)
  BY <1>4, <1>8 DEF SlotsDiffer
<1> QED
  BY <1>3, <1>5, <1>8, <1>9, <1>10, <1>11 DEF Sound, Occupied, Later

LEMMA SaveStateSound ==
  ASSUME NEW c, Sound(c)
  PROVE  TargetSound(SaveState(c))
<1> DEFINE t == SaveState(c)
<1>1. c \in Contexts /\ Matched(c) /\ Marked(c)
  BY DEF Sound
<1>2. /\ t.gp = c.gp /\ t.used = c.used
      /\ t.memory = {v \in Active(c) : c.var[v].state = "memory"}
  BY DEF SaveState
<1>3. c.gp \in [Registers -> Variables \cup {NoVariable}] /\ DOMAIN c.var = Variables
  BY <1>1, ContextFields
<1> HIDE DEF t
<1>4. t.used \subseteq Allocatable
  BY <1>1, <1>2 DEF Marked
<1>5. t.memory \subseteq Variables
  BY <1>2, <1>3 DEF Active
<1>6. \A r, s \in Registers : t.gp[r] = t.gp[s] => r = s \/ t.gp[r] = NoVariable
  BY <1>1, <1>2 DEF Matched
<1>7. ASSUME NEW r \in Registers PROVE t.gp[r] \notin t.memory
  <2>1. CASE t.gp[r] = NoVariable
    BY <1>5, <2>1, NoVariableIsNone
  <2>2. CASE t.gp[r] # NoVariable
    <3>1. c.gp[r] \in Variables /\ c.var[c.gp[r]].register = r /\ r # NoRegister
      BY <1>1, <1>2, <1>3, <2>2 DEF Matched, Registers, NoRegister
    <3>2. c.var[c.gp[r]].state = "register"
      BY <1>1, <3>1 DEF Matched
    <3> QED
      BY <1>2, <3>2
  <2> QED
    BY <2>1, <2>2
<1> QED
  BY <1>1, <1>2, <1>3, <1>4, <1>5, <1>6, <1>7 DEF TargetSound, Matched, t
-----------------------------------------------------------------------------
(* The program.                                                            *)

\* The recursion of FlattenSeq.
Joins(h, s, n) == \A i \in 1 .. n : h[i] = IF i = 1 THEN s[i] ELSE h[i - 1] \o s[i]

LEMMA FlattenType ==
  ASSUME NEW X, NEW n \in Nat \ {0}, NEW s \in [1 .. n -> Seq(X)]
  PROVE  FlattenSeq(s) \in Seq(X)
<1> DEFINE Some(m) == \E h \in [1 .. m -> Seq(X)] : Joins(h, s, m)
           S == {m \in 0 .. n : Some(m)}
           Recursion(g) ==
             g = [i \in 1 .. n |-> IF i = 1 THEN s[i] ELSE g[i - 1] \o s[i]]
           flatten == CHOOSE g : Recursion(g)
<1>1. Some(0)
  <2> DEFINE h == [i \in 1 .. 0 |-> <<>>]
  <2>1. h \in [1 .. 0 -> Seq(X)] /\ Joins(h, s, 0)
    BY DEF Joins
  <2> QED
    BY <2>1
<1>2. ASSUME NEW m \in 0 .. n - 1, Some(m) PROVE Some(m + 1)
  <2>1. PICK g \in [1 .. m -> Seq(X)] : Joins(g, s, m)
    BY <1>2
  <2> DEFINE h == [i \in 1 .. m + 1 |->
                     IF i = m + 1 THEN (IF i = 1 THEN s[i] ELSE g[i - 1] \o s[i]) ELSE g[i]]
  <2>2. m + 1 \in 1 .. n /\ (m # 0 => m \in 1 .. m) /\ (m + 1) - 1 = m
    OBVIOUS
  <2>3. ASSUME NEW i \in 1 .. m + 1 PROVE h[i] \in Seq(X)
    <3>1. CASE i = m + 1 /\ m = 0
      BY <2>2, <3>1
    <3>2. CASE i = m + 1 /\ m # 0
      <4>1. g[m] \in Seq(X) /\ s[m + 1] \in Seq(X)
        BY <2>2, <3>2
      <4>2. h[i] = g[m] \o s[m + 1]
        BY <2>2, <3>2
      <4> QED
        BY <4>1, <4>2
    <3>3. CASE i # m + 1
      BY <3>3
    <3> QED
      BY <3>1, <3>2, <3>3
  <2>4. h \in [1 .. m + 1 -> Seq(X)]
    BY <2>3
  <2>5. ASSUME NEW i \in 1 .. m + 1
        PROVE  h[i] = IF i = 1 THEN s[i] ELSE h[i - 1] \o s[i]
    <3>1. CASE i = m + 1
      <4>1. i # 1 => i - 1 \in 1 .. m + 1 /\ i - 1 # m + 1
        BY <3>1
      <4>2. i # 1 => h[i - 1] = g[i - 1]
        BY <4>1
      <4> QED
        BY <3>1, <4>2
    <3>2. CASE i # m + 1
      <4>1. i \in 1 .. m /\ (i # 1 => i - 1 \in 1 .. m)
        BY <3>2
      <4>2. h[i] = g[i] /\ (i # 1 => h[i - 1] = g[i - 1])
        BY <3>2, <4>1
      <4> QED
        BY <2>1, <4>1, <4>2 DEF Joins
    <3> QED
      BY <3>1, <3>2
  <2> HIDE DEF h
  <2>6. Joins(h, s, m + 1)
    BY <2>5 DEF Joins
  <2> QED
    BY <2>4, <2>6
<1> HIDE DEF Some
<1>3. Some(n)
  <2>1. 0 \in S /\ \A m \in 0 .. n - 1 : m \in S => m + 1 \in S
    BY <1>1, <1>2
  <2>2. n \in Nat /\ n \in 0 .. n
    OBVIOUS
  <2> HIDE DEF S
  <2>3. n \in S
    BY <2>1, <2>2, UpTo
  <2> QED
    BY <2>3 DEF S
<1>4. PICK h \in [1 .. n -> Seq(X)] : Joins(h, s, n)
  BY <1>3 DEF Some
<1>5. Recursion(h)
  BY <1>4 DEF Joins
<1> HIDE DEF Recursion
<1>6. Recursion(flatten)
  BY <1>5
<1>7. FlattenSeq(s) = flatten[n]
  <2>1. Len(s) = n /\ n # 0
    OBVIOUS
  <2> QED
    BY <2>1 DEF FlattenSeq, flatten, Recursion
<1> HIDE DEF flatten
<1>8. Joins(flatten, s, n) /\ DOMAIN flatten = 1 .. n
  BY <1>6 DEF Recursion, Joins
<1> DEFINE T == {m \in 0 .. n : m # 0 => flatten[m] \in Seq(X)}
<1>9. ASSUME NEW m \in 0 .. n - 1, m \in T PROVE m + 1 \in T
  <2>1. m + 1 \in 1 .. n /\ (m + 1) - 1 = m
    OBVIOUS
  <2>2. CASE m = 0
    BY <1>8, <2>1, <2>2 DEF Joins
  <2>3. CASE m # 0
    <3>1. flatten[m + 1] = flatten[m] \o s[m + 1]
      <4>1. m + 1 # 1
        BY <2>3
      <4>2. flatten[m + 1] = flatten[(m + 1) - 1] \o s[m + 1]
        BY <1>8, <2>1, <4>1 DEF Joins
      <4> QED
        BY <2>1, <4>2
    <3>2. flatten[m] \in Seq(X) /\ s[m + 1] \in Seq(X)
      BY <1>9, <2>1, <2>3
    <3>3. flatten[m + 1] \in Seq(X)
      BY <3>1, <3>2
    <3> QED
      BY <2>1, <3>3
  <2> QED
    BY <2>2, <2>3
<1>10. n \in T
  <2>1. 0 \in T /\ n \in Nat /\ n \in 0 .. n
    OBVIOUS
  <2> HIDE DEF T
  <2> QED
    BY <1>9, <2>1, UpTo
<1> QED
  BY <1>7, <1>10
LEMMA Joined ==
  ASSUME NEW X, NEW s \in Seq(X), NEW t \in Seq(X)
  PROVE  /\ s \o t \in Seq(X)
         /\ Len(s \o t) = Len(s) + Len(t)
         /\ \A k \in 1 .. Len(s) : (s \o t)[k] = s[k]
         /\ \A k \in Len(s) + 1 .. Len(s) + Len(t) : (s \o t)[k] = t[k - Len(s)]
OBVIOUS

\* The instructions that have to do with variables, and what the program is of.
UsingOps == {"head", "position", "chase", "prefetch", "cmp"}

ProgramItems ==
  [op : UsingOps, uses : Seq(Uses)] \cup [op : Ops \ UsingOps, uses : {<<>>}]

\* From place `from' on the program has operations of the given kind only.
Section(s, from, to, ops) == \A k \in from .. to : s[k].op \in ops

\* What is joined to a sequence of length m is a section of its own.
Joining(s, r, m, e, ops) ==
  /\ r \in Seq(ProgramItems) /\ Len(r) = e
  /\ Section(r, m + 1, e, ops)
  /\ \A k \in 1 .. m : r[k] = s[k]

LEMMA SectionJoined ==
  ASSUME NEW s \in Seq(ProgramItems), NEW t \in Seq(ProgramItems), NEW ops,
         NEW m, m = Len(s), NEW e, e = m + Len(t), Section(t, 1, Len(t), ops)
  PROVE  Joining(s, s \o t, m, e, ops)
<1>1. Len(s) \in Nat /\ Len(t) \in Nat
  OBVIOUS
<1>2. /\ s \o t \in Seq(ProgramItems)
      /\ Len(s \o t) = Len(s) + Len(t)
      /\ \A k \in 1 .. Len(s) : (s \o t)[k] = s[k]
      /\ \A k \in Len(s) + 1 .. Len(s) + Len(t) : (s \o t)[k] = t[k - Len(s)]
  BY Joined
<1>3. \A k \in Len(s) + 1 .. Len(s) + Len(t) : k - Len(s) \in 1 .. Len(t)
  BY <1>1
<1>4. Section(s \o t, Len(s) + 1, Len(s) + Len(t), ops)
  BY <1>2, <1>3 DEF Section
<1> QED
  BY <1>2, <1>4 DEF Joining

LEMMA InputFields ==
  ASSUME input \in Inputs
  PROVE  /\ input.chains_per_thread \in Nat \ {0}
         /\ input.loop_length \in Nat
         /\ input.prefetch \in BOOLEAN
BY CompilerAssumption DEF Inputs

LEMMA PartTypes ==
  ASSUME input \in Inputs
  PROVE  /\ Opening \in Seq(ProgramItems) /\ Len(Opening) = 3
         /\ ReadHeads \in Seq(ProgramItems) /\ Len(ReadHeads) = input.chains_per_thread
         /\ SetPositions \in Seq(ProgramItems) /\ Len(SetPositions) = input.chains_per_thread
         /\ <<Item("L_Loop", <<>>)>> \in Seq(ProgramItems)
         /\ FollowAll \in Seq([op : {"chase", "prefetch"}, uses : Seq(Uses)])
         /\ Nops \in Seq(ProgramItems) /\ Len(Nops) = input.loop_length
         /\ Closing \in Seq(ProgramItems) /\ Len(Closing) = 4
<1> DEFINE n == input.chains_per_thread
<1>1. n \in Nat \ {0} /\ input.loop_length \in Nat
  BY InputFields
<1>2. /\ Chain \in Variables
      /\ \A i \in 1 .. n : HeadAt(i) \in Variables /\ Position(i) \in Variables
  BY DEF Variables
<1>3. \A v \in Variables :
        /\ Reads(v) \in Uses /\ Writes(v) \in Uses
        /\ [v |-> v, how |-> {"read", "write"}] \in Uses
  BY DEF Uses, Reads, Writes
<1>4. <<>> \in Seq(Uses) /\ \A u, w \in Uses : <<u>> \in Seq(Uses) /\ <<u, w>> \in Seq(Uses)
  OBVIOUS
<1>5. /\ \A op \in UsingOps, uses \in Seq(Uses) : Item(op, uses) \in ProgramItems
      /\ \A op \in Ops \ UsingOps : Item(op, <<>>) \in ProgramItems
  BY DEF Item, ProgramItems
<1>6. 1 \in 1 .. n
  BY <1>1
<1> HIDE DEF Uses
<1>7. /\ Opening \in Seq(ProgramItems) /\ Len(Opening) = 3
      /\ <<Item("L_Loop", <<>>)>> \in Seq(ProgramItems)
  <2>1. Item("function", <<>>) \in ProgramItems /\ Item("entry", <<>>) \in ProgramItems
        /\ Item("prolog", <<>>) \in ProgramItems /\ Item("L_Loop", <<>>) \in ProgramItems
    BY <1>5 DEF Ops, UsingOps
  <2> QED
    BY <2>1 DEF Opening
<1>8. Closing \in Seq(ProgramItems) /\ Len(Closing) = 4
  <2>1. /\ Item("cmp", <<Reads(HeadAt(1)), Reads(Position(1))>>) \in ProgramItems
        /\ Item("jne", <<>>) \in ProgramItems
        /\ Item("exit", <<>>) \in ProgramItems /\ Item("epilog", <<>>) \in ProgramItems
    BY <1>2, <1>3, <1>4, <1>5, <1>6 DEF Ops, UsingOps
  <2> QED
    BY <2>1 DEF Closing
<1>9. ReadHeads \in Seq(ProgramItems) /\ Len(ReadHeads) = n
  <2> DEFINE one(i) == Item("head", <<Writes(HeadAt(i)), Reads(Chain)>>)
  <2>1. \A i \in 1 .. n : one(i) \in ProgramItems
    BY <1>2, <1>3, <1>4, <1>5 DEF Ops, UsingOps
  <2>2. ReadHeads = [i \in 1 .. n |-> one(i)]
    BY DEF ReadHeads
  <2> HIDE DEF one, n
  <2> QED
    BY <1>1, <2>1, <2>2
<1>10. SetPositions \in Seq(ProgramItems) /\ Len(SetPositions) = n
  <2> DEFINE one(i) == Item("position", <<Writes(Position(i)), Reads(HeadAt(1))>>)
  <2>1. \A i \in 1 .. n : one(i) \in ProgramItems
    BY <1>2, <1>3, <1>4, <1>5, <1>6 DEF Ops, UsingOps
  <2>2. SetPositions = [i \in 1 .. n |-> one(i)]
    BY DEF SetPositions
  <2> HIDE DEF one, n
  <2> QED
    BY <1>1, <2>1, <2>2
<1>11. Nops \in Seq(ProgramItems) /\ Len(Nops) = input.loop_length
  <2>1. Item("nop", <<>>) \in ProgramItems
    BY <1>5 DEF Ops, UsingOps
  <2> QED
    BY <1>1, <2>1 DEF Nops
<1>12. FollowAll \in Seq([op : {"chase", "prefetch"}, uses : Seq(Uses)])
  <2> DEFINE B == [op : {"chase", "prefetch"}, uses : Seq(Uses)]
  <2>1. ASSUME NEW i \in 1 .. n PROVE Follow(i) \in Seq(B)
    <3>1. /\ Item("chase", <<[v |-> Position(i), how |-> {"read", "write"}]>>) \in B
          /\ Item("prefetch", <<Reads(Position(i))>>) \in B
      BY <1>2, <1>3, <1>4 DEF Item
    <3> HIDE DEF B
    <3> QED
      BY <3>1 DEF Follow
  <2> HIDE DEF B
  <2>2. [i \in 1 .. n |-> Follow(i)] \in [1 .. n -> Seq(B)]
    BY <2>1
  <2>3. FlattenSeq([i \in 1 .. n |-> Follow(i)]) \in Seq(B)
    BY <1>1, <2>2, FlattenType
  <2> QED
    BY <2>3 DEF FollowAll, B
<1> QED
  BY <1>7, <1>8, <1>9, <1>10, <1>11, <1>12
\* The program, section by section.
Sections(n, w, l) ==
  /\ Program \in Seq(ProgramItems)
  /\ Len(Program) = 2 * n + w + l + 8
  /\ Section(Program, 1, 1, {"function"}) /\ Section(Program, 2, 2, {"entry"})
  /\ Section(Program, 3, 3, {"prolog"})
  /\ Section(Program, 4, n + 3, {"head"})
  /\ Section(Program, n + 4, 2 * n + 3, {"position"})
  /\ Section(Program, 2 * n + 4, 2 * n + 4, {"L_Loop"})
  /\ Section(Program, 2 * n + 5, 2 * n + 4 + w, {"chase", "prefetch"})
  /\ Section(Program, 2 * n + 5 + w, 2 * n + 4 + w + l, {"nop"})
  /\ Section(Program, 2 * n + 5 + w + l, 2 * n + 5 + w + l, {"cmp"})
  /\ Section(Program, 2 * n + 6 + w + l, 2 * n + 6 + w + l, {"jne"})
  /\ Section(Program, 2 * n + 7 + w + l, 2 * n + 7 + w + l, {"exit"})
  /\ Section(Program, 2 * n + 8 + w + l, 2 * n + 8 + w + l, {"epilog"})

LEMMA ProgramSections ==
  ASSUME input \in Inputs
  PROVE  Sections(input.chains_per_thread, Len(FollowAll), input.loop_length)
         /\ Len(FollowAll) \in Nat
<1> DEFINE n == input.chains_per_thread
           w == Len(FollowAll)
           l == input.loop_length
           A == Opening
           bound == <<Item("L_Loop", <<>>)>>
           B == A \o ReadHeads
           C == B \o SetPositions
           D == C \o bound
           E == D \o FollowAll
           F == E \o Nops
           G == F \o Closing
<1>1. n \in Nat \ {0} /\ l \in Nat
  BY InputFields
<1>2. /\ Opening \in Seq(ProgramItems) /\ Len(Opening) = 3
      /\ ReadHeads \in Seq(ProgramItems) /\ Len(ReadHeads) = n
      /\ SetPositions \in Seq(ProgramItems) /\ Len(SetPositions) = n
      /\ bound \in Seq(ProgramItems)
      /\ FollowAll \in Seq([op : {"chase", "prefetch"}, uses : Seq(Uses)])
      /\ Nops \in Seq(ProgramItems) /\ Len(Nops) = l
      /\ Closing \in Seq(ProgramItems) /\ Len(Closing) = 4
  BY PartTypes
<1>3. /\ w \in Nat /\ FollowAll \in Seq(ProgramItems)
      /\ Section(FollowAll, 1, w, {"chase", "prefetch"})
  <2> DEFINE X == [op : {"chase", "prefetch"}, uses : Seq(Uses)]
  <2>1. \A x \in X : x \in ProgramItems /\ x.op \in {"chase", "prefetch"}
    BY DEF ProgramItems, UsingOps
  <2>2. FollowAll \in Seq(X)
    BY <1>2
  <2> HIDE DEF X
  <2> QED
    BY <2>1, <2>2 DEF Section
<1>4. /\ Section(A, 1, 1, {"function"}) /\ Section(A, 2, 2, {"entry"})
      /\ Section(A, 3, 3, {"prolog"})
  BY DEF Section, Opening, Item
<1>5. Section(ReadHeads, 1, n, {"head"}) /\ Section(SetPositions, 1, n, {"position"})
  BY DEF Section, ReadHeads, SetPositions, Item
<1>6. Len(bound) = 1 /\ Section(bound, 1, 1, {"L_Loop"}) /\ Section(Nops, 1, l, {"nop"})
  BY DEF Section, Nops, Item
<1>7. /\ Closing[1].op = "cmp" /\ Closing[2].op = "jne" /\ Closing[3].op = "exit"
      /\ Closing[4].op = "epilog"
  BY DEF Closing, Item
<1>8. Program = G
  BY DEF Program
<1> HIDE DEF n, w, l
<1> DEFINE b == n + 3
           c == 2 * n + 3
           d == 2 * n + 4
           e == 2 * n + 4 + w
           f == 2 * n + 4 + w + l
<1>9. /\ b = 3 + n /\ c = b + n /\ d = c + 1 /\ e = d + w /\ f = e + l /\ f + 4 = 2 * n + w + l + 8
      /\ b \in Nat /\ c \in Nat /\ d \in Nat /\ e \in Nat /\ f \in Nat
      /\ 3 < b /\ b < c /\ c < d /\ d <= e /\ e <= f
  BY <1>1, <1>3
<1> HIDE DEF n, w, l, A, bound, B, C, D, E, F, G, b, c, d, e, f
<1>10. Joining(A, B, 3, b, {"head"})
  BY <1>2, <1>5, <1>9, SectionJoined DEF A, B
<1>11. Joining(B, C, b, c, {"position"})
  <2>1. B \in Seq(ProgramItems) /\ Len(B) = b
    BY <1>10 DEF Joining
  <2> QED
    BY <1>2, <1>5, <1>9, <2>1, SectionJoined DEF C
<1>12. Joining(C, D, c, d, {"L_Loop"})
  <2>1. C \in Seq(ProgramItems) /\ Len(C) = c
    BY <1>11 DEF Joining
  <2> QED
    BY <1>2, <1>6, <1>9, <2>1, SectionJoined DEF D
<1>13. Joining(D, E, d, e, {"chase", "prefetch"})
  <2>1. D \in Seq(ProgramItems) /\ Len(D) = d
    BY <1>12 DEF Joining
  <2> QED
    BY <1>3, <1>9, <2>1, SectionJoined DEF E, w
<1>14. Joining(E, F, e, f, {"nop"})
  <2>1. E \in Seq(ProgramItems) /\ Len(E) = e
    BY <1>13 DEF Joining
  <2> QED
    BY <1>2, <1>6, <1>9, <2>1, SectionJoined DEF F
<1>15. Joining(F, G, f, f + 4, {Closing[k].op : k \in 1 .. 4})
  <2>1. Section(Closing, 1, 4, {Closing[k].op : k \in 1 .. 4})
    BY DEF Section
  <2>2. F \in Seq(ProgramItems) /\ Len(F) = f
    BY <1>14 DEF Joining
  <2> QED
    BY <1>2, <1>9, <2>1, <2>2, SectionJoined DEF G
<1>16. G[f + 1].op = "cmp" /\ G[f + 2].op = "jne" /\ G[f + 3].op = "exit" /\ G[f + 4].op = "epilog"
  <2>1. \A k \in Len(F) + 1 .. Len(F) + Len(Closing) : G[k] = Closing[k - Len(F)]
    BY <1>2, <1>14, Joined DEF G, Joining
  <2>2. \A k \in f + 1 .. f + 4 : G[k] = Closing[k - f]
    BY <1>2, <1>14, <2>1 DEF Joining
  <2>3. G[f + 1] = Closing[1] /\ G[f + 2] = Closing[2] /\ G[f + 3] = Closing[3] /\ G[f + 4] = Closing[4]
    BY <1>9, <2>2
  <2> QED
    BY <1>7, <2>3
<1>17. /\ Section(G, 1, 1, {"function"}) /\ Section(G, 2, 2, {"entry"})
       /\ Section(G, 3, 3, {"prolog"})
  BY <1>4, <1>9, <1>10, <1>11, <1>12, <1>13, <1>14, <1>15 DEF Joining, Section
<1>18. Section(G, 4, b, {"head"})
  <2>1. \A k \in 4 .. b : k \in 1 .. b /\ k \in 1 .. c /\ k \in 1 .. d /\ k \in 1 .. e /\ k \in 1 .. f
    BY <1>9
  <2>2. \A k \in 4 .. b : G[k] = B[k]
    BY <1>11, <1>12, <1>13, <1>14, <1>15, <2>1 DEF Joining
  <2>3. \A k \in 4 .. b : B[k].op \in {"head"}
    BY <1>10 DEF Joining, Section
  <2> QED
    BY <2>2, <2>3 DEF Section
<1>19. Section(G, b + 1, c, {"position"})
  <2>1. \A k \in b + 1 .. c : k \in 1 .. c /\ k \in 1 .. d /\ k \in 1 .. e /\ k \in 1 .. f
    BY <1>9
  <2>2. \A k \in b + 1 .. c : G[k] = C[k]
    BY <1>12, <1>13, <1>14, <1>15, <2>1 DEF Joining
  <2>3. \A k \in b + 1 .. c : C[k].op \in {"position"}
    BY <1>11 DEF Joining, Section
  <2> QED
    BY <2>2, <2>3 DEF Section
<1>20. Section(G, d, d, {"L_Loop"})
  <2>1. \A k \in c + 1 .. d : k \in 1 .. d /\ k \in 1 .. e /\ k \in 1 .. f
    BY <1>9
  <2>2. \A k \in c + 1 .. d : G[k] = D[k]
    BY <1>13, <1>14, <1>15, <2>1 DEF Joining
  <2>3. \A k \in c + 1 .. d : D[k].op \in {"L_Loop"}
    BY <1>12 DEF Joining, Section
  <2> QED
    BY <1>9, <2>2, <2>3 DEF Section
<1>21. Section(G, d + 1, e, {"chase", "prefetch"})
  <2>1. \A k \in d + 1 .. e : k \in 1 .. e /\ k \in 1 .. f
    BY <1>9
  <2>2. \A k \in d + 1 .. e : G[k] = E[k]
    BY <1>14, <1>15, <2>1 DEF Joining
  <2>3. \A k \in d + 1 .. e : E[k].op \in {"chase", "prefetch"}
    BY <1>13 DEF Joining, Section
  <2> QED
    BY <2>2, <2>3 DEF Section
<1>22. Section(G, e + 1, f, {"nop"})
  <2>1. \A k \in e + 1 .. f : k \in 1 .. f
    BY <1>9
  <2>2. \A k \in e + 1 .. f : G[k] = F[k]
    BY <1>15, <2>1 DEF Joining
  <2>3. \A k \in e + 1 .. f : F[k].op \in {"nop"}
    BY <1>14 DEF Joining, Section
  <2> QED
    BY <2>2, <2>3 DEF Section
<1>23. /\ Section(G, f + 1, f + 1, {"cmp"}) /\ Section(G, f + 2, f + 2, {"jne"})
       /\ Section(G, f + 3, f + 3, {"exit"}) /\ Section(G, f + 4, f + 4, {"epilog"})
  BY <1>9, <1>16 DEF Section
<1>24. G \in Seq(ProgramItems) /\ Len(G) = f + 4
  BY <1>15 DEF Joining
<1>25. /\ b + 1 = n + 4 /\ d + 1 = 2 * n + 5 /\ e + 1 = 2 * n + 5 + w /\ f + 1 = 2 * n + 5 + w + l
       /\ f + 2 = 2 * n + 6 + w + l /\ f + 3 = 2 * n + 7 + w + l /\ f + 4 = 2 * n + 8 + w + l
       /\ f + 4 = 2 * n + w + l + 8
  BY <1>1, <1>3 DEF b, d, e, f
<1>26. b = n + 3 /\ c = 2 * n + 3 /\ d = 2 * n + 4 /\ e = 2 * n + 4 + w /\ f = 2 * n + 4 + w + l
  BY DEF b, c, d, e, f
<1>27. Sections(n, w, l)
  BY <1>8, <1>17, <1>18, <1>19, <1>20, <1>21, <1>22, <1>23, <1>24, <1>25, <1>26 DEF Sections
<1> QED
  BY <1>3, <1>27 DEF n, w, l

\* Where each of the operations is that there is one of.
Places(n, w, l) ==
  /\ Program \in Seq(ProgramItems) /\ DOMAIN Program = 1 .. 2 * n + w + l + 8
  /\ LoopPlace = 2 * n + 4
  /\ \A k \in DOMAIN Program :
       /\ k <= 2 <=> Program[k].op \in {"function", "entry"}
       /\ k = 3 <=> Program[k].op = "prolog"
       /\ k = 2 * n + 4 <=> Program[k].op = "L_Loop"
       /\ k = 2 * n + w + l + 6 <=> Program[k].op = "jne"
       /\ k = 2 * n + w + l + 8 <=> Program[k].op = "epilog"

LEMMA ProgramPlaces ==
  ASSUME input \in Inputs
  PROVE  /\ Places(input.chains_per_thread, Len(FollowAll), input.loop_length)
         /\ input.chains_per_thread \in Nat \ {0} /\ input.loop_length \in Nat
         /\ Len(FollowAll) \in Nat
<1> DEFINE n == input.chains_per_thread
           w == Len(FollowAll)
           l == input.loop_length
<1>1. n \in Nat \ {0} /\ l \in Nat /\ w \in Nat /\ Sections(n, w, l)
  BY InputFields, ProgramSections
<1> HIDE DEF n, w, l
<1>2. Program \in Seq(ProgramItems) /\ DOMAIN Program = 1 .. 2 * n + w + l + 8
  BY <1>1 DEF Sections
<1>3. ASSUME NEW k \in DOMAIN Program
      PROVE  /\ k <= 2 <=> Program[k].op \in {"function", "entry"}
             /\ k = 3 <=> Program[k].op = "prolog"
             /\ k = 2 * n + 4 <=> Program[k].op = "L_Loop"
             /\ k = 2 * n + w + l + 6 <=> Program[k].op = "jne"
             /\ k = 2 * n + w + l + 8 <=> Program[k].op = "epilog"
  <2>1. k \in 1 .. 2 * n + w + l + 8
    BY <1>2
  <2>2. CASE k <= 3
    <3>1. \/ k = 1 /\ Program[k].op = "function"
          \/ k = 2 /\ Program[k].op = "entry"
          \/ k = 3 /\ Program[k].op = "prolog"
      BY <1>1, <2>1, <2>2 DEF Sections, Section
    <3> QED
      BY <1>1, <3>1
  <2>3. CASE k \in 4 .. 2 * n + 3
    <3>1. k \in 4 .. n + 3 \/ k \in n + 4 .. 2 * n + 3
      BY <1>1, <2>3
    <3>2. Program[k].op \in {"head", "position"}
      BY <1>1, <3>1 DEF Sections, Section
    <3> QED
      BY <1>1, <2>3, <3>2
  <2>4. CASE k = 2 * n + 4
    <3>1. Program[k].op = "L_Loop"
      BY <1>1, <2>4 DEF Sections, Section
    <3> QED
      BY <1>1, <2>4, <3>1
  <2>5. CASE k \in 2 * n + 5 .. 2 * n + 5 + w + l
    <3>1. \/ k \in 2 * n + 5 .. 2 * n + 4 + w
          \/ k \in 2 * n + 5 + w .. 2 * n + 4 + w + l
          \/ k \in 2 * n + 5 + w + l .. 2 * n + 5 + w + l
      BY <1>1, <2>5
    <3>2. Program[k].op \in {"chase", "prefetch", "nop", "cmp"}
      BY <1>1, <3>1 DEF Sections, Section
    <3> QED
      BY <1>1, <2>5, <3>2
  <2>6. CASE k >= 2 * n + 6 + w + l
    <3>1. k = 2 * n + 6 + w + l \/ k = 2 * n + 7 + w + l \/ k = 2 * n + 8 + w + l
      BY <1>1, <2>1, <2>6
    <3>2. \/ k = 2 * n + 6 + w + l /\ Program[k].op = "jne"
          \/ k = 2 * n + 7 + w + l /\ Program[k].op = "exit"
          \/ k = 2 * n + 8 + w + l /\ Program[k].op = "epilog"
      BY <1>1, <3>1 DEF Sections, Section
    <3> QED
      BY <1>1, <3>2
  <2> QED
    BY <1>1, <2>1, <2>2, <2>3, <2>4, <2>5, <2>6
<1>4. LoopPlace = 2 * n + 4
  <2>1. 2 * n + 4 \in DOMAIN Program
    BY <1>1, <1>2
  <2> QED
    BY <1>3, <2>1 DEF LoopPlace
<1>5. Places(n, w, l)
  BY <1>2, <1>3, <1>4 DEF Places
<1> QED
  BY <1>1, <1>5 DEF n, w, l

LEMMA ItemFields ==
  ASSUME NEW x \in ProgramItems
  PROVE  /\ x.op \in Ops /\ x.uses \in Seq(Uses)
         /\ x.op \notin UsingOps => x.uses = <<>>
<1>1. CASE x \in [op : UsingOps, uses : Seq(Uses)]
  BY <1>1 DEF UsingOps, Ops
<1>2. CASE x \in [op : Ops \ UsingOps, uses : {<<>>}]
  <2>1. x.op \in Ops /\ x.uses = <<>>
    BY <1>2
  <2>2. <<>> \in Seq(Uses)
    OBVIOUS
  <2> QED
    BY <2>1, <2>2
<1> QED
  BY <1>1, <1>2 DEF ProgramItems

\* What a place of the program holds.
LEMMA PlaceFields ==
  ASSUME input \in Inputs, NEW i \in DOMAIN Program
  PROVE  /\ i \in Nat /\ i >= 1 /\ i \in 1 .. Len(Program) /\ Len(Program) \in Nat
         /\ Program[i] \in ProgramItems
         /\ Program[i].op \in Ops /\ Program[i].uses \in Seq(Uses)
         /\ Program[i].op \notin UsingOps => Program[i].uses = <<>>
<1>1. Program \in Seq(ProgramItems)
  BY ProgramPlaces DEF Places
<1>2. Len(Program) \in Nat /\ DOMAIN Program = 1 .. Len(Program)
  BY <1>1
<1>3. i \in 1 .. Len(Program)
  BY <1>2
<1>4. Program[i] \in ProgramItems
  BY <1>1, <1>3
<1>5. i \in Nat /\ i >= 1
  BY <1>2, <1>3
<1> QED
  BY <1>2, <1>3, <1>4, <1>5, ItemFields

-----------------------------------------------------------------------------
(* The invariant of the compiler.                                          *)

LEMMA InitSound ==
  ASSUME input \in Inputs
  PROVE  Sound(NewContext(Variables)) /\ NewContext(Variables).used = {}
<1> DEFINE c == NewContext(Variables)
<1>1. NewVarData \in VarDatas /\ NewVarData.state = "unused"
      /\ NewVarData.register = NoRegister /\ NewVarData.home = NoRegister
  BY DEF NewVarData, VarDatas, NoRegister
<1>2. /\ c.used = {} /\ c.modified = {} /\ c.code = <<>> /\ c.frame = <<>>
      /\ c.gp = [r \in Registers |-> NoVariable]
      /\ c.var = [v \in Variables |-> NewVarData]
  BY DEF NewContext
<1>3. c \in Contexts
  <2>1. <<>> \in Seq(Items) /\ <<>> \in Seq(Variables)
    OBVIOUS
  <2> QED
    BY <1>1, <2>1 DEF Contexts, NewContext
<1> HIDE DEF c
<1>4. Matched(c)
  BY <1>1, <1>2 DEF Matched
<1>5. Marked(c) /\ SlotsDiffer(c)
  BY <1>1, <1>2 DEF Marked, SlotsDiffer
<1> QED
  BY <1>2, <1>3, <1>4, <1>5 DEF Sound, c

LEMMA InitInvariant == Init => CompilerInv
<1> SUFFICES ASSUME Init PROVE CompilerInv
  OBVIOUS
<1>1. /\ input \in Inputs /\ phase = "prepare" /\ place = 1
      /\ cc = NewContext(Variables) /\ target = SaveState(cc)
  BY DEF Init, InitCompiler
<1>2. Sound(cc) /\ cc.used = {}
  BY <1>1, InitSound
<1>3. 1 \in DOMAIN Program
  BY <1>1, ProgramPlaces DEF Places
<1>4. TargetSound(target)
  BY <1>1, <1>2, SaveStateSound
<1> QED
  BY <1>1, <1>2, <1>3, <1>4 DEF CompilerInv

LEMMA AtLater ==
  ASSUME Sound(cc), NEW i \in Int
  PROVE  At(i) \in Contexts /\ Quiet(cc, At(i)) /\ Later(cc, At(i))
<1>1. cc \in Contexts /\ i - 1 \in Int /\ i - 2 \in Int
  BY DEF Sound
<1>2. At(i) \in Contexts /\ Quiet(cc, At(i))
  BY <1>1, CountersQuiet DEF At
<1> QED
  BY <1>2, QuietLater

\* The code has grown by an instruction, and what the allocator put before it.
Emits(s, t, op, uses) ==
  /\ Len(s) < Len(t)
  /\ \A k \in 1 .. Len(s) : t[k] = s[k]
  /\ \A k \in Len(s) + 1 .. Len(t) - 1 : t[k].op \in {"save", "load"}
  /\ t[Len(t)].op = op /\ t[Len(t)].uses = uses

LEMMA AppendEmits ==
  ASSUME NEW b, NEW c, Later(b, c), NEW op, NEW uses
  PROVE  Emits(b.code, AppendCode(c, op, uses).code, op, uses)
<1> DEFINE item == [op |-> op, uses |-> uses,
                    regs |-> [k \in DOMAIN uses |-> c.var[uses[k].v].register]]
<1>1. c \in Contexts /\ b.code \in Seq(Items) /\ c.code \in Seq(Items)
  BY ContextFields DEF Later, Sound
<1>2. AppendCode(c, op, uses).code = Append(c.code, item)
  BY <1>1 DEF AppendCode, Contexts
<1>3. item.op = op /\ item.uses = uses
  OBVIOUS
<1> HIDE DEF item
<1>4. /\ Len(b.code) \in Nat /\ Len(c.code) \in Nat /\ Len(b.code) <= Len(c.code)
      /\ Extended(b.code, c.code)
  BY <1>1 DEF Later, Extended
<1> DEFINE t == Append(c.code, item)
<1>5. /\ Len(t) = Len(c.code) + 1 /\ t[Len(c.code) + 1] = item
      /\ \A k \in 1 .. Len(c.code) : t[k] = c.code[k]
  BY <1>1
<1> HIDE DEF t
<1>6. \A k \in 1 .. Len(b.code) : t[k] = b.code[k]
  BY <1>4, <1>5 DEF Extended
<1>7. \A k \in Len(b.code) + 1 .. Len(t) - 1 : t[k].op \in {"save", "load"}
  BY <1>4, <1>5 DEF Extended
<1>8. Len(b.code) < Len(t) /\ t[Len(t)] = item
  BY <1>4, <1>5
<1> QED
  BY <1>2, <1>3, <1>6, <1>7, <1>8 DEF Emits, t

\* What translating the emittable at place i makes of context c.
Translated(c, d, i) ==
  /\ Sound(d)
  /\ c.modified \subseteq d.modified
  /\ Emits(c.code, d.code, Program[i].op, Program[i].uses)
  /\ i <= 2 => d.used = {}

\* An instruction behind code of the allocator, when scopes end there.
LEMMA AppendTranslated ==
  ASSUME input \in Inputs, NEW i \in DOMAIN Program, NEW c, NEW b, Later(c, b),
         NEW S \in SUBSET Variables, i > 2
  PROVE  /\ Translated(c, EndScopes(AppendCode(b, Program[i].op, Program[i].uses), S, i), i)
         /\ Translated(c, AppendCode(b, Program[i].op, Program[i].uses), i)
<1> DEFINE op == Program[i].op
           uses == Program[i].uses
           d == AppendCode(b, op, uses)
           e == EndScopes(d, S, i)
<1>1. op \in Ops /\ uses \in Seq(Uses)
  BY PlaceFields
<1>2. Emits(c.code, d.code, op, uses)
  BY AppendEmits
<1> HIDE DEF op, uses
<1>3. Sound(d) /\ Placed(b, d)
  BY <1>1, AppendSound DEF Later
<1> HIDE DEF d
<1>4. Later(d, e) /\ e.code = d.code
  <2>1. {v \in S : d.var[v].ends = i} \in SUBSET Variables
    OBVIOUS
  <2>2. d \in Contexts
    BY <1>3 DEF Sound
  <2>3. Forget(d, {v \in S : d.var[v].ends = i}, "unused").code = d.code
    BY <2>1, <2>2, ForgetFields
  <2>4. e.code = d.code
    BY <2>3 DEF EndScopes, UnuseVars
  <2> QED
    BY <1>3, <2>4, EndScopesSound
<1> HIDE DEF e
<1>5. c.modified \subseteq d.modified /\ d.modified \subseteq e.modified
  BY <1>3, <1>4 DEF Later, Placed
<1>6. i \in Nat
  BY PlaceFields
<1>7. Translated(c, d, i) /\ Translated(c, e, i)
  BY <1>2, <1>3, <1>4, <1>5, <1>6 DEF Translated, Later, op, uses
<1> QED
  BY <1>7 DEF d, e, op, uses

LEMMA TranslateEmittableSound ==
  ASSUME input \in Inputs, Sound(cc), TargetSound(target), NEW i \in DOMAIN Program,
         i <= 3 => cc.used = {}
  PROVE  Translated(cc, TranslateEmittable(i), i)
<1> DEFINE op == Program[i].op
           uses == Program[i].uses
           d == TranslateEmittable(i)
<1>1. /\ op \in Ops /\ uses \in Seq(Uses) /\ (op \notin UsingOps => uses = <<>>)
      /\ i \in Int /\ i >= 1
  BY PlaceFields
<1>2. /\ i <= 2 <=> op \in {"function", "entry"}
      /\ i = 3 <=> op = "prolog"
  BY ProgramPlaces DEF Places
<1>3. At(i) \in Contexts /\ Quiet(cc, At(i)) /\ Later(cc, At(i))
  BY <1>1, AtLater
<1>4. CASE op = "prolog"
  <2>1. uses = <<>> /\ i = 3
    BY <1>1, <1>2, <1>4 DEF UsingOps
  <2>2. d = AppendCode(AllocVariables(At(i)), op, uses)
    BY <1>4, <2>1 DEF TranslateEmittable
  <2>3. Later(cc, AllocVariables(At(i)))
    <3>1. At(i).used = {}
      BY <1>3, <2>1 DEF Quiet, Placed
    <3> QED
      BY <1>3, <3>1, AllocVariablesSound, LaterStill DEF Later
  <2>4. {} \in SUBSET Variables /\ i > 2
    BY <2>1
  <2>5. Translated(cc, AppendCode(AllocVariables(At(i)), op, uses), i)
    BY <2>3, <2>4, AppendTranslated
  <2> QED
    BY <2>2, <2>5
<1>5. CASE op = "jne"
  <2>1. uses = <<>> /\ i > 2
    BY <1>1, <1>2, <1>5 DEF UsingOps
  <2>2. d = EndScopes(AppendCode(RestoreState(At(i), target), op, uses), Active(cc), i)
    BY <1>5, <2>1 DEF TranslateEmittable, TranslateJump
  <2>3. Later(cc, RestoreState(At(i), target))
    BY <1>3, RestoreLater, LaterStill DEF Later
  <2>4. Active(cc) \in SUBSET Variables
    BY ContextFields DEF Active, Sound
  <2> QED
    BY <2>1, <2>2, <2>3, <2>4, AppendTranslated
<1>6. CASE op \notin {"prolog", "jne"} /\ uses # <<>>
  <2>1. i > 2
    BY <1>1, <1>2, <1>6 DEF UsingOps
  <2> DEFINE ready == AllocEach(MarkAtWork(At(i), uses), uses)
  <2>2. d = EndScopes(AppendCode(ready, op, uses), {uses[k].v : k \in DOMAIN uses}, i)
    BY <1>6 DEF TranslateEmittable, TranslateInstruction, AllocEach
  <2>3. {uses[k].v : k \in DOMAIN uses} \in SUBSET Variables
    <3>1. \A k \in DOMAIN uses : uses[k] \in Uses
      BY <1>1
    <3> QED
      BY <3>1 DEF Uses
  <2>4. Later(cc, ready)
    <3>1. Later(At(i), MarkAtWork(At(i), uses))
      BY <1>1, <1>3, <1>6, MarkAtWorkQuiet, QuietLater DEF Later
    <3>2. Later(MarkAtWork(At(i), uses), ready)
      BY <1>1, <3>1, AllocAllLater DEF Later
    <3> QED
      BY <1>3, <3>1, <3>2, LaterStill
  <2> QED
    BY <2>1, <2>2, <2>3, <2>4, AppendTranslated
<1>7. CASE op \notin {"prolog", "jne"} /\ uses = <<>>
  <2>1. d = AppendCode(At(i), op, uses)
    BY <1>7 DEF TranslateEmittable
  <2>2. Sound(d) /\ Placed(At(i), d)
    BY <1>1, <1>3, <2>1, AppendSound DEF Later
  <2>3. Emits(cc.code, d.code, op, uses)
    BY <1>3, <2>1, AppendEmits
  <2>4. cc.modified = d.modified /\ d.used = cc.used
    BY <1>3, <2>2 DEF Quiet, Placed
  <2> QED
    BY <2>2, <2>3, <2>4, <1>1 DEF Translated
<1> QED
  BY <1>4, <1>5, <1>6, <1>7

\* The arguments stay, and with them everything that depends on nothing else.
LEMMA SoundNext ==
  ASSUME input' = input, Sound(cc')
  PROVE  Sound(cc)'
BY DEF Sound, Contexts, Matched, Marked, SlotsDiffer, Variables, Items, Uses

LEMMA TargetNext ==
  ASSUME input' = input, TargetSound(target')
  PROVE  TargetSound(target)'
BY DEF TargetSound, Variables

LEMMA ProgramNext ==
  ASSUME input' = input
  PROVE  Program' = Program
BY DEF Program, Opening, ReadHeads, SetPositions, FollowAll, Follow, Nops, Closing, Item

LEMMA PrepareEmittableQuiet ==
  ASSUME input \in Inputs, NEW c \in Contexts, NEW i \in DOMAIN Program
  PROVE  PrepareEmittable(c, i) \in Contexts /\ Quiet(c, PrepareEmittable(c, i))
<1> DEFINE item == Program[i]
<1>1. item \in ProgramItems /\ i \in Int
  BY PlaceFields
<1>2. item.op \in Ops /\ item.uses \in Seq(Uses) /\ (item.op \notin UsingOps => item.uses = <<>>)
  BY PlaceFields
<1>3. CASE item.op = "prolog"
  <2>1. PrepareEmittable(c, i) = PrepareProlog(c, i)
    BY <1>2, <1>3 DEF PrepareEmittable, UsingOps
  <2> QED
    BY <1>1, <2>1, PreparePrologQuiet
<1>4. CASE item.op = "jne"
  <2>1. PrepareEmittable(c, i) = PrepareJump(c, i)
    BY <1>2, <1>4 DEF PrepareEmittable, UsingOps
  <2> QED
    BY <1>1, <2>1, PrepareJumpQuiet
<1>5. CASE item.op \notin {"prolog", "jne"} /\ item.uses # <<>>
  <2>1. PrepareEmittable(c, i) = PrepareInstruction(c, item.uses, i)
    BY <1>5 DEF PrepareEmittable
  <2> HIDE DEF item
  <2> QED
    BY <1>1, <1>2, <2>1, PrepareInstructionKeeps
<1>6. CASE item.op \notin {"prolog", "jne"} /\ item.uses = <<>>
  <2> DEFINE d == [c EXCEPT !.cur = @ + 1]
  <2>1. PrepareEmittable(c, i) = d
    BY <1>6 DEF PrepareEmittable
  <2>2. c.cur + 1 \in Int /\ c.at \in Int
    BY ContextFields
  <2>3. d = [c EXCEPT !.cur = c.cur + 1, !.at = c.at]
    BY DEF Contexts
  <2> HIDE DEF d
  <2>4. d \in Contexts /\ Quiet(c, d)
    BY <2>2, <2>3, CountersQuiet
  <2> QED
    BY <2>1, <2>4
<1> QED
  BY <1>3, <1>4, <1>5, <1>6

LEMMA PrepareStep ==
  ASSUME CompilerInv, Prepare
  PROVE  CompilerInv'
<1>1. /\ phase = "prepare" /\ input' = input /\ target' = target
      /\ cc' = PrepareEmittable(cc, place)
      /\ \/ place = Len(Program) /\ place' = 1 /\ phase' = "translate"
         \/ place # Len(Program) /\ place' = place + 1 /\ phase' = phase
  BY DEF Prepare
<1>2. /\ input \in Inputs /\ place \in Nat \ {0} /\ place \in DOMAIN Program
      /\ Sound(cc) /\ TargetSound(target) /\ cc.used = {}
  BY <1>1 DEF CompilerInv, Early
<1>3. Sound(cc') /\ cc'.used = {}
  <2>1. cc \in Contexts
    BY <1>2 DEF Sound
  <2>2. cc' \in Contexts /\ Quiet(cc, cc')
    BY <1>1, <1>2, <2>1, PrepareEmittableQuiet
  <2>3. Later(cc, cc')
    BY <1>2, <2>2, QuietLater
  <2> QED
    BY <1>2, <2>2, <2>3 DEF Later, Quiet, Placed
<1>4. input' \in Inputs'
  BY <1>1, <1>2 DEF Inputs
<1>5. phase' = "prepare" => place' \in DOMAIN Program'
  <2>1. Program' = Program
    BY <1>1, ProgramNext
  <2>2. Program \in Seq(ProgramItems)
    BY <1>2, ProgramPlaces DEF Places
  <2>3. DOMAIN Program = 1 .. Len(Program) /\ Len(Program) \in Nat
    BY <2>2
  <2>4. phase' = "prepare" => place' \in 1 .. Len(Program)
    <3> DEFINE m == Len(Program)
    <3>1. place \in 1 .. m /\ m \in Nat
      BY <1>2, <2>3
    <3>2. phase' = "prepare" => place # m /\ place' = place + 1
      BY <1>1
    <3> HIDE DEF m
    <3>3. phase' = "prepare" => place' \in 1 .. m
      BY <3>1, <3>2
    <3> QED
      BY <3>3 DEF m
  <2>5. DOMAIN Program' = 1 .. Len(Program)
    BY <2>1, <2>3
  <2> QED
    BY <2>4, <2>5
<1>6. Sound(cc)' /\ TargetSound(target)'
  BY <1>1, <1>2, <1>3, SoundNext, TargetNext
<1> QED
  BY <1>1, <1>2, <1>3, <1>4, <1>5, <1>6 DEF CompilerInv, Early

LEMMA TranslateStep ==
  ASSUME CompilerInv, Translate
  PROVE  CompilerInv' /\ Translated(cc, cc', place)
<1>1. /\ phase = "translate" /\ input' = input /\ place' = place + 1 /\ phase' = phase
      /\ place \in DOMAIN Program /\ cc' = TranslateEmittable(place)
      /\ target' = IF place = LoopPlace THEN SaveState(cc) ELSE target
  BY DEF Translate
<1>2. /\ input \in Inputs /\ place \in Nat \ {0}
      /\ Sound(cc) /\ TargetSound(target) /\ (place <= 3 => cc.used = {})
  BY <1>1 DEF CompilerInv, Early
<1>3. Translated(cc, cc', place)
  BY <1>1, <1>2, TranslateEmittableSound
<1>4. Sound(cc')
  BY <1>3 DEF Translated
<1>5. TargetSound(target')
  <2>1. CASE place = LoopPlace
    BY <1>1, <1>2, <2>1, SaveStateSound
  <2>2. CASE place # LoopPlace
    BY <1>1, <1>2, <2>2
  <2> QED
    BY <2>1, <2>2
<1>6. Sound(cc)' /\ TargetSound(target)'
  BY <1>1, <1>4, <1>5, SoundNext, TargetNext
<1>7. input' \in Inputs'
  BY <1>1, <1>2 DEF Inputs
<1>8. Early' => cc'.used = {}
  <2>1. Early' => place <= 2
    BY <1>1, <1>2 DEF Early
  <2> QED
    BY <1>3, <2>1 DEF Translated
<1>9. place' \in Nat \ {0} /\ phase' = "translate"
  BY <1>1, <1>2
<1>10. CompilerInv'
  BY <1>6, <1>7, <1>8, <1>9 DEF CompilerInv
<1> QED
  BY <1>3, <1>10

\* Nothing else changes the compiler's state but its phase.
LEMMA OtherStep ==
  ASSUME CompilerInv, UNCHANGED <<input, place, cc, target>>,
         phase' \in {phase, "encode", "made", "failed"}
  PROVE  CompilerInv'
<1>1. input' \in Inputs' /\ Program' = Program
  BY ProgramNext DEF CompilerInv, Inputs
<1>2. Sound(cc)' /\ TargetSound(target)'
  BY SoundNext, TargetNext DEF CompilerInv
<1>3. phase' = "prepare" => phase = "prepare"
  OBVIOUS
<1>4. Early' => Early
  BY DEF Early
<1>5. place' \in Nat \ {0} /\ (phase' = "prepare" => place' \in DOMAIN Program')
  BY <1>1, <1>3 DEF CompilerInv
<1>6. phase' \in {"prepare", "translate", "encode", "made", "failed"}
  BY DEF CompilerInv
<1> QED
  BY <1>1, <1>2, <1>4, <1>5, <1>6 DEF CompilerInv

LEMMA CompilerStep ==
  ASSUME CompilerInv, [Next]_vars
  PROVE  CompilerInv'
<1>1. CASE Compile
  BY <1>1, PrepareStep, TranslateStep DEF Compile
<1>2. CASE StartEncode \/ Make
  BY <1>2, OtherStep DEF StartEncode, Make
<1>3. CASE Encode
  BY <1>3, OtherStep DEF Encode
<1>4. CASE Call \/ Save \/ Load \/ Execute \/ Jump \/ Return
  BY <1>4, OtherStep
     DEF Call, Save, Load, Execute, Jump, Return, codeVars, compilerVars
<1>5. CASE UNCHANGED vars
  BY <1>5, OtherStep DEF vars, codeVars, compilerVars
<1> QED
  BY <1>1, <1>2, <1>3, <1>4, <1>5 DEF Next

\* The inductive invariant: before and after every emittable the context of the
\* compiler is sound, and so is the state it remembers for the label.
THEOREM CompilerInvariance == Spec => []CompilerInv
<1>1. Init => CompilerInv
  BY InitInvariant
<1>2. CompilerInv /\ [Next]_vars => CompilerInv'
  BY CompilerStep
<1> QED
  BY <1>1, <1>2, PTL DEF Spec

\* The mask of used registers, the table of registers and the data of the
\* variables agree before and after every emittable: also behind the jump,
\* where _restoreState sets the mask to what it was at the label, after any
\* number of spills and loads.
THEOREM RegistersAgreeCorrect == Spec => []RegistersAgree
<1>1. CompilerInv => RegistersAgree
  BY DEF CompilerInv, Sound, Matched, RegistersAgree
<1> QED
  BY <1>1, CompilerInvariance, PTL

-----------------------------------------------------------------------------
(* The code is the program, with code of the allocator in between.         *)

LEMMA LaidMore ==
  ASSUME NEW s \in Seq(Items), NEW t \in Seq(Items), NEW n \in Nat,
         NEW f \in [0 .. n -> 0 .. Len(s)], Laid(s, f, n),
         Emits(s, t, Program[n + 1].op, Program[n + 1].uses)
  PROVE  \E g \in [0 .. n + 1 -> 0 .. Len(t)] : Laid(t, g, n + 1)
<1> DEFINE a == Len(s)
           b == Len(t)
           g == [k \in 0 .. n + 1 |-> IF k = n + 1 THEN b ELSE f[k]]
<1>1. a \in Nat /\ b \in Nat /\ a < b
  BY DEF Emits
<1> HIDE DEF a, b
<1>2. f \in [0 .. n -> 0 .. a] /\ f[0] = 0 /\ f[n] = a
  BY DEF a, Laid
<1>3. /\ \A k \in 1 .. a : t[k] = s[k]
      /\ \A k \in a + 1 .. b - 1 : t[k].op \in {"save", "load"}
      /\ t[b].op = Program[n + 1].op /\ t[b].uses = Program[n + 1].uses
  BY DEF Emits, a, b
<1>4. /\ \A k \in 0 .. n : g[k] = f[k]
      /\ g[n + 1] = b /\ g \in [0 .. n + 1 -> 0 .. b]
  BY <1>1, <1>2
<1> HIDE DEF g
<1>5. g[0] = 0
  BY <1>2, <1>4
<1>6. ASSUME NEW k \in 1 .. n + 1
      PROVE  /\ g[k - 1] < g[k]
             /\ t[g[k]].op = Program[k].op /\ t[g[k]].uses = Program[k].uses
             /\ \A j \in g[k - 1] + 1 .. g[k] - 1 : t[j].op \in {"save", "load"}
  <2>1. CASE k = n + 1
    <3>1. g[k - 1] = a /\ g[k] = b
      BY <1>2, <1>4, <2>1
    <3> QED
      BY <1>1, <1>3, <2>1, <3>1
  <2>2. CASE k # n + 1
    <3>1. k \in 1 .. n /\ k \in 0 .. n /\ k - 1 \in 0 .. n
      BY <2>2
    <3>2. g[k] = f[k] /\ g[k - 1] = f[k - 1]
      BY <1>4, <3>1
    <3>3. /\ f[k - 1] < f[k]
          /\ s[f[k]].op = Program[k].op /\ s[f[k]].uses = Program[k].uses
          /\ \A j \in f[k - 1] + 1 .. f[k] - 1 : s[j].op \in {"save", "load"}
      BY <3>1 DEF Laid
    <3>4. f[k] \in 0 .. a /\ f[k - 1] \in 0 .. a /\ f[k] \in 1 .. a
      BY <1>2, <3>1, <3>3
    <3>5. \A j \in f[k - 1] + 1 .. f[k] - 1 : t[j] = s[j]
      <4> DEFINE x == f[k - 1]
                 y == f[k]
      <4>1. x \in 0 .. a /\ y \in 0 .. a
        BY <3>4
      <4> HIDE DEF x, y
      <4>2. \A j \in x + 1 .. y - 1 : j \in 1 .. a
        BY <1>1, <4>1
      <4> QED
        BY <1>3, <4>2 DEF x, y
    <3> QED
      BY <1>3, <3>2, <3>3, <3>4, <3>5
  <2> QED
    BY <2>1, <2>2
<1>7. Laid(t, g, n + 1)
  BY <1>4, <1>5, <1>6 DEF Laid, b
<1> QED
  BY <1>4, <1>7 DEF b

LEMMA LaidRises ==
  ASSUME NEW s \in Seq(Items), NEW n \in Nat, NEW f \in [0 .. n -> 0 .. Len(s)], Laid(s, f, n)
  PROVE  \A k \in 0 .. n, i \in 0 .. n : i < k => f[i] < f[k]
<1> DEFINE S == {k \in 0 .. n : \A i \in 0 .. n : i < k => f[i] < f[k]}
<1>1. 0 \in S
  OBVIOUS
<1>2. ASSUME NEW k \in 0 .. n - 1, k \in S PROVE k + 1 \in S
  <2>1. k + 1 \in 1 .. n /\ (k + 1) - 1 = k /\ k \in 0 .. n /\ k + 1 \in 0 .. n
    OBVIOUS
  <2>2. f[k] < f[k + 1]
    BY <2>1 DEF Laid
  <2>3. ASSUME NEW i \in 0 .. n, i < k + 1 PROVE f[i] < f[k + 1]
    <3>1. f[i] \in Nat /\ f[k] \in Nat /\ f[k + 1] \in Nat
      BY <2>1
    <3>2. CASE i = k
      BY <2>2, <3>2
    <3>3. CASE i # k
      <4>1. i < k
        BY <2>3, <3>3
      <4>2. f[i] < f[k]
        BY <1>2, <4>1
      <4> QED
        BY <2>2, <3>1, <4>2
    <3> QED
      BY <3>2, <3>3
  <2> QED
    BY <2>1, <2>3
<1> HIDE DEF S
<1>3. \A k \in 0 .. n : k \in S
  BY <1>1, <1>2, UpTo
<1> QED
  BY <1>3 DEF S

\* Every place in the code is that of an emittable or before it.
LEMMA LaidFinds ==
  ASSUME NEW s \in Seq(Items), NEW n \in Nat, NEW f \in [0 .. n -> 0 .. Len(s)], Laid(s, f, n),
         NEW j \in 1 .. Len(s)
  PROVE  \E k \in 1 .. n : f[k - 1] < j /\ j <= f[k]
<1> DEFINE T == {k \in 0 .. n : j <= f[k]}
<1>1. n \in T
  BY DEF Laid
<1>2. PICK k \in T : \A m \in T : k <= m
  BY <1>1, LeastNumber, T \in SUBSET Nat
<1>3. k # 0
  BY DEF Laid
<1>4. k \in 1 .. n /\ k - 1 \in 0 .. n
  BY <1>3
<1>5. k - 1 \notin T
  BY <1>2, <1>4
<1> QED
  BY <1>4, <1>5

\* The only place in a sequence of emittables with this operation.
Only(s, op, p) == p \in DOMAIN s /\ \A j \in DOMAIN s : j = p <=> s[j].op = op

\* An operation that the program has once is once in the code.
LEMMA LaidOnce ==
  ASSUME NEW s \in Seq(Items), NEW n \in Nat, NEW f \in [0 .. n -> 0 .. Len(s)], Laid(s, f, n),
         DOMAIN Program = 1 .. n, NEW op, op \notin {"save", "load"}, NEW p, Only(Program, op, p)
  PROVE  Only(s, op, f[p])
<1>0. p \in 1 .. n /\ \A k \in 1 .. n : k = p <=> Program[k].op = op
  BY DEF Only
<1>1. f[p] \in 1 .. Len(s) /\ s[f[p]].op = op
  <2>1. f[p - 1] < f[p] /\ s[f[p]].op = Program[p].op
    BY <1>0 DEF Laid
  <2>2. f[p] \in 0 .. Len(s) /\ f[p - 1] \in 0 .. Len(s)
    BY <1>0
  <2> QED
    BY <1>0, <2>1, <2>2
<1>2. ASSUME NEW j \in 1 .. Len(s), s[j].op = op PROVE j = f[p]
  <2>1. PICK k \in 1 .. n : f[k - 1] < j /\ j <= f[k]
    BY LaidFinds
  <2>2. j = f[k]
    <3>1. f[k - 1] \in 0 .. Len(s) /\ f[k] \in 0 .. Len(s)
      OBVIOUS
    <3>2. j # f[k] => j \in f[k - 1] + 1 .. f[k] - 1
      BY <2>1, <3>1
    <3> QED
      BY <1>2, <2>1, <3>2 DEF Laid
  <2>3. Program[k].op = op
    BY <1>2, <2>2 DEF Laid
  <2> QED
    BY <1>0, <2>2, <2>3
<1> QED
  BY <1>1, <1>2 DEF Only

LEMMA CodeInit ==
  ASSUME CompilerInv, Init
  PROVE  CodeInv
<1>1. phase = "prepare" /\ Code = <<>> /\ Translations = 0
  BY DEF Init, InitCompiler, NewContext, Code, Translations
<1> DEFINE f == [k \in 0 .. 0 |-> 0]
<1>2. f \in [0 .. 0 -> 0 .. Len(Code)] /\ f[0] = 0 /\ Len(Code) = 0
  BY <1>1
<1>3. Laid(Code, f, 0)
  BY <1>2 DEF Laid
<1> QED
  BY <1>1, <1>2, <1>3 DEF CodeInv

\* Nothing is put in the code but by Translate.
LEMMA CodeStays ==
  ASSUME CodeInv, input' = input, Code' = Code, Translations' = Translations,
         \/ phase' = phase
         \/ phase' = "translate" /\ Translations = 0
         \/ phase' \in {"encode", "made", "failed"} /\ Translations = Len(Program),
         Len(Program) \in Nat
  PROVE  CodeInv'
<1>1. Program' = Program
  BY ProgramNext
<1>2. /\ phase' \in {"encode", "made", "failed"} => Translations' = Len(Program)'
      /\ phase' = "translate" => Translations' <= Len(Program)'
  BY <1>1 DEF CodeInv
<1>3. PICK f \in [0 .. Translations -> 0 .. Len(Code)] : Laid(Code, f, Translations)
  BY DEF CodeInv
<1>4. Laid(Code, f, Translations)'
  BY <1>1, <1>3 DEF Laid
<1>5. f \in [0 .. Translations' -> 0 .. Len(Code')]
  BY <1>3
<1> QED
  BY <1>2, <1>4, <1>5 DEF CodeInv

LEMMA CodeStep ==
  ASSUME CompilerInv, CodeInv, [Next]_vars
  PROVE  CodeInv'
<1>1. input \in Inputs /\ place \in Nat \ {0} /\ Sound(cc) /\ cc \in Contexts /\ Code \in Seq(Items)
  BY ContextFields DEF CompilerInv, Sound, Code
<1>2. Program \in Seq(ProgramItems) /\ DOMAIN Program = 1 .. Len(Program) /\ Len(Program) \in Nat
  <2>1. Program \in Seq(ProgramItems)
    BY <1>1, ProgramPlaces DEF Places
  <2> QED
    BY <2>1
<1>3. CASE Prepare
  <2>1. /\ phase = "prepare" /\ input' = input /\ cc' = PrepareEmittable(cc, place)
        /\ place \in DOMAIN Program
        /\ \/ place' = 1 /\ phase' = "translate"
           \/ phase' = phase
    BY <1>3 DEF Prepare, CompilerInv
  <2>2. Code' = Code
    BY <1>1, <2>1, PrepareEmittableQuiet DEF Quiet, Code
  <2>3. Translations' = Translations /\ Translations = 0
    BY <2>1 DEF Translations
  <2> QED
    BY <1>2, <2>1, <2>2, <2>3, CodeStays
<1>4. CASE Translate
  <2>1. /\ phase = "translate" /\ phase' = "translate" /\ input' = input
        /\ place \in DOMAIN Program /\ place' = place + 1
    BY <1>4 DEF Translate
  <2>2. Translated(cc, cc', place)
    BY <1>4, TranslateStep
  <2> DEFINE n == Translations
  <2>3. n \in Nat /\ n + 1 = place /\ Translations' = n + 1 /\ n + 1 <= Len(Program)
    BY <1>1, <1>2, <2>1 DEF Translations
  <2>4. Code' \in Seq(Items)
    <3>1. cc' \in Contexts
      BY <2>2 DEF Translated, Sound
    <3> QED
      BY <3>1, ContextFields DEF Code
  <2>5. Emits(Code, Code', Program[n + 1].op, Program[n + 1].uses)
    BY <2>2, <2>3 DEF Translated, Code
  <2>6. PICK f \in [0 .. n -> 0 .. Len(Code)] : Laid(Code, f, n)
    BY DEF CodeInv
  <2> HIDE DEF n
  <2>7. PICK g \in [0 .. n + 1 -> 0 .. Len(Code')] : Laid(Code', g, n + 1)
    BY <1>1, <2>3, <2>4, <2>5, <2>6, LaidMore
  <2>8. Program' = Program
    BY <2>1, ProgramNext
  <2>9. Laid(Code, g, Translations)'
    BY <2>3, <2>7, <2>8 DEF Laid
  <2>10. g \in [0 .. Translations' -> 0 .. Len(Code')]
    BY <2>3, <2>7
  <2> QED
    BY <2>1, <2>3, <2>8, <2>9, <2>10 DEF CodeInv
<1>5. CASE StartEncode
  <2>1. /\ phase = "translate" /\ phase' = "encode" /\ input' = input /\ place' = place /\ cc' = cc
        /\ place \notin DOMAIN Program
    BY <1>5 DEF StartEncode
  <2>2. Translations = place - 1 /\ Translations' = Translations /\ Code' = Code
    BY <2>1 DEF Translations, Code
  <2>3. Translations <= Len(Program)
    BY <2>1 DEF CodeInv
  <2>4. Translations = Len(Program)
    BY <1>1, <1>2, <2>1, <2>2, <2>3
  <2> QED
    BY <1>2, <2>1, <2>2, <2>4, CodeStays
<1>6. CASE Encode \/ Make
  <2>1. /\ phase = "encode" /\ phase' \in {"encode", "made", "failed"} /\ input' = input
        /\ place' = place /\ cc' = cc
    BY <1>6 DEF Encode, Make
  <2>2. Translations' = Translations /\ Code' = Code
    BY <2>1 DEF Translations, Code
  <2>3. Translations = Len(Program)
    BY <2>1 DEF CodeInv
  <2> QED
    BY <1>2, <2>1, <2>2, <2>3, CodeStays
<1>7. CASE Call \/ Save \/ Load \/ Execute \/ Jump \/ Return \/ UNCHANGED vars
  <2>1. /\ phase' = phase /\ input' = input /\ place' = place /\ cc' = cc
    BY <1>7 DEF Call, Save, Load, Execute, Jump, Return, vars, codeVars, compilerVars
  <2>2. Translations' = Translations /\ Code' = Code
    BY <2>1 DEF Translations, Code
  <2> QED
    BY <1>2, <2>1, <2>2, CodeStays
<1> QED
  BY <1>3, <1>4, <1>5, <1>6, <1>7 DEF Next, Compile

\* Where the label, the jump and the end of the finished code are.
Placing(loop, jump) ==
  /\ loop \in DOMAIN Code /\ jump \in DOMAIN Code /\ loop < jump /\ jump < Len(Code)
  /\ \A j \in DOMAIN Code :
       /\ j = loop <=> Code[j].op = "L_Loop"
       /\ j = jump <=> Code[j].op = "jne"
       /\ j = Len(Code) <=> Code[j].op = "epilog"

LEMMA CodePlaces ==
  ASSUME CompilerInv, CodeInv, phase \in {"encode", "made", "failed"}
  PROVE  \E loop, jump \in Nat : Placing(loop, jump)
<1> DEFINE n == input.chains_per_thread
           w == Len(FollowAll)
           l == input.loop_length
           m == 2 * n + w + l + 8
<1>1. input \in Inputs /\ Code \in Seq(Items)
  BY ContextFields DEF CompilerInv, Sound, Code
<1>2. Places(n, w, l) /\ n \in Nat \ {0} /\ l \in Nat /\ w \in Nat
  BY <1>1, ProgramPlaces
<1> HIDE DEF n, w, l
<1>3. m \in Nat /\ Len(Program) = m /\ DOMAIN Program = 1 .. m
  BY <1>2 DEF Places
<1>4. PICK f \in [0 .. m -> 0 .. Len(Code)] : Laid(Code, f, m)
  BY <1>3 DEF CodeInv
<1> DEFINE p == 2 * n + 4
           q == 2 * n + w + l + 6
<1>5. /\ p \in 1 .. m /\ q \in 1 .. m /\ m \in 1 .. m
      /\ p \in 0 .. m /\ q \in 0 .. m /\ m \in 0 .. m /\ p < q /\ q < m
  BY <1>2
<1>6. \A k \in 1 .. m :
        /\ k = p <=> Program[k].op = "L_Loop"
        /\ k = q <=> Program[k].op = "jne"
        /\ k = m <=> Program[k].op = "epilog"
  BY <1>2, <1>3 DEF Places
<1> HIDE DEF m, p, q
<1>7. Only(Code, "L_Loop", f[p])
  <2>1. Only(Program, "L_Loop", p) /\ "L_Loop" \notin {"save", "load"}
    BY <1>3, <1>5, <1>6 DEF Only
  <2> QED
    BY <1>1, <1>3, <1>4, <2>1, LaidOnce
<1>8. Only(Code, "jne", f[q])
  <2>1. Only(Program, "jne", q) /\ "jne" \notin {"save", "load"}
    BY <1>3, <1>5, <1>6 DEF Only
  <2> QED
    BY <1>1, <1>3, <1>4, <2>1, LaidOnce
<1>9. Only(Code, "epilog", f[m])
  <2>1. Only(Program, "epilog", m) /\ "epilog" \notin {"save", "load"}
    BY <1>3, <1>5, <1>6 DEF Only
  <2> QED
    BY <1>1, <1>3, <1>4, <2>1, LaidOnce
<1>10. f[p] < f[q] /\ f[q] < f[m]
  BY <1>1, <1>3, <1>4, <1>5, LaidRises
<1>11. f[m] = Len(Code)
  BY <1>4 DEF Laid
<1>12. f[p] \in Nat /\ f[q] \in Nat
  BY <1>5
<1>13. Placing(f[p], f[q])
  BY <1>7, <1>8, <1>9, <1>10, <1>11 DEF Placing, Only
<1> QED
  BY <1>12, <1>13

-----------------------------------------------------------------------------
(* The assembler's instructions are short, and the buffer has room for them. *)

LEMMA PushesType == Pushes \in Seq(0 .. 15)
<1>1. IsFiniteSet(Registers)
  BY FS_Interval, 0 \in Int, 15 \in Int DEF Registers
<1>2. Pushed \in SUBSET Registers
  BY DEF Pushed, Preserved, Registers
<1>3. Cardinality(Pushed) \in Nat
  BY <1>1, <1>2, FS_Subset, FS_CardinalityType
<1> DEFINE n == Cardinality(Pushed)
<1>4. \A r : 1 + Rex(r) \in 0 .. 15
  BY DEF Rex
<1>5. Pushes = [k \in 1 .. n |-> 1 + Rex(PushOrder[k])] /\ n \in Nat
  BY <1>3 DEF Pushes
<1> HIDE DEF n
<1> QED
  BY <1>4, <1>5

LEMMA MoveShort == \A base, disp : Move(base, disp) \in 0 .. 15
<1>1. \A base, disp : ModM(base, disp) \in 1 .. 6
  BY DEF ModM
<1> QED
  BY <1>1 DEF Move

LEMMA ReverseType ==
  ASSUME NEW S, NEW s \in Seq(S)
  PROVE  Reverse(s) \in Seq(S)
<1>1. Len(s) \in Nat /\ \A i \in 1 .. Len(s) : (Len(s) - i) + 1 \in 1 .. Len(s)
  OBVIOUS
<1>2. \A i \in 1 .. Len(s) : s[(Len(s) - i) + 1] \in S
  BY <1>1
<1> QED
  BY <1>1, <1>2 DEF Reverse

LEMMA LengthsType == \A item : Lengths(item) \in Seq(0 .. 15)
<1> TAKE item
<1>1. Pushes \in Seq(0 .. 15) /\ Reverse(Pushes) \in Seq(0 .. 15)
  BY PushesType, ReverseType
<1>2. Adjust \in Seq(0 .. 15)
  <2> DEFINE x == 3 + (IF IsInt8(FrameSize) THEN 1 ELSE 4)
  <2>1. x \in 0 .. 15
    OBVIOUS
  <2>2. Adjust = IF IsEspAdjusted THEN <<x>> ELSE <<>>
    BY DEF Adjust
  <2> HIDE DEF x
  <2>3. <<x>> \in Seq(0 .. 15) /\ <<>> \in Seq(0 .. 15)
    BY <2>1
  <2>4. Adjust = <<x>> \/ Adjust = <<>>
    BY <2>2
  <2> QED
    BY <2>3, <2>4
<1>3. Pushes \o Adjust \in Seq(0 .. 15)
  BY <1>1, <1>2
<1>4. Adjust \o Reverse(Pushes) \o <<1>> \in Seq(0 .. 15)
  <2>1. <<1>> \in Seq(0 .. 15)
    OBVIOUS
  <2>2. Adjust \o Reverse(Pushes) \in Seq(0 .. 15)
    BY <1>1, <1>2
  <2> QED
    BY <2>1, <2>2
<1>5. \A base, disp : <<Move(base, disp)>> \in Seq(0 .. 15)
  BY MoveShort
<1>6. <<Rex(item.regs[1]) + 2 + ModM(item.regs[1], 0)>> \in Seq(0 .. 15)
  <2>1. Rex(item.regs[1]) \in 0 .. 1 /\ ModM(item.regs[1], 0) \in 1 .. 6
    BY DEF Rex, ModM
  <2> QED
    BY <2>1
<1>7. <<MoveRegister>> \in Seq(0 .. 15) /\ <<1>> \in Seq(0 .. 15) /\ <<>> \in Seq(0 .. 15)
  BY DEF MoveRegister
<1>8. <<IF IsShort(buffer.offset) THEN 2 ELSE 6>> \in Seq(0 .. 15)
  OBVIOUS
<1> QED
  BY <1>3, <1>4, <1>5, <1>6, <1>7, <1>8 DEF Lengths

\* A buffer with room for one instruction more, whatever is in it.
LEMMA EnsureSpaceRoom ==
  ASSUME NEW b \in Buffers
  PROVE  /\ EnsureSpace(b) \in Buffers /\ EnsureSpace(b).offset = b.offset
         /\ b.offset + 15 <= EnsureSpace(b).capacity
<1>1. /\ FirstCapacity \in Nat /\ MostDoubled \in Nat /\ GrowThreshold \in Nat
      /\ 15 <= GrowThreshold /\ GrowThreshold < FirstCapacity /\ GrowThreshold <= MostDoubled
  BY BufferAssumption
<1>2. /\ b.capacity \in Nat /\ b.offset \in Nat /\ b.offset <= b.capacity
      /\ b.capacity = 0 \/ b.capacity >= FirstCapacity
  BY DEF Buffers
<1>3. b \in [capacity : Nat, offset : Nat]
  BY DEF Buffers
<1> DEFINE g == Grown(b.capacity)
<1>4. g \in Nat /\ g >= FirstCapacity /\ g >= b.capacity + 15
  <2>1. FirstCapacity \div 2 \in Nat /\ 0 < FirstCapacity \div 2 /\ FirstCapacity \div 2 < FirstCapacity
    BY <1>1
  <2>2. CASE b.capacity = 0
    <3>0. b.capacity < FirstCapacity \div 2 /\ ~(b.capacity > MostDoubled)
      BY <1>1, <2>1, <2>2
    <3>1. g = FirstCapacity
      BY <3>0 DEF Grown
    <3> QED
      BY <1>1, <2>2, <3>1
  <2>3. CASE b.capacity >= FirstCapacity
    <3>1. ~(b.capacity < FirstCapacity \div 2)
      BY <1>1, <1>2, <2>1, <2>3
    <3>2. CASE b.capacity > MostDoubled
      <4>1. g = b.capacity + MostDoubled
        BY <3>1, <3>2 DEF Grown
      <4> QED
        BY <1>1, <1>2, <2>3, <4>1
    <3>3. CASE ~(b.capacity > MostDoubled)
      <4>1. g = 2 * b.capacity
        BY <3>1, <3>3 DEF Grown
      <4> QED
        BY <1>1, <1>2, <2>3, <4>1
    <3> QED
      BY <3>2, <3>3
  <2> QED
    BY <1>2, <2>2, <2>3
<1>5. CASE b.offset >= b.capacity - GrowThreshold
  <2>1. EnsureSpace(b) = [b EXCEPT !.capacity = g]
    BY <1>5 DEF EnsureSpace
  <2> HIDE DEF g
  <2>2. /\ EnsureSpace(b) \in [capacity : Nat, offset : Nat]
        /\ EnsureSpace(b).capacity = g /\ EnsureSpace(b).offset = b.offset
    BY <1>3, <1>4, <2>1
  <2> QED
    BY <1>1, <1>2, <1>4, <2>2 DEF Buffers
<1>6. CASE ~(b.offset >= b.capacity - GrowThreshold)
  <2>1. EnsureSpace(b) = b
    BY <1>6 DEF EnsureSpace
  <2> QED
    BY <1>1, <1>2, <1>6, <2>1
<1> QED
  BY <1>5, <1>6

LEMMA EmitInstructionFits ==
  ASSUME NEW b \in Buffers, NEW x \in 0 .. 15
  PROVE  /\ EmitInstruction(b, x) \in Buffers
         /\ EmitInstruction(b, x).offset = b.offset + x
<1> DEFINE d == EnsureSpace(b)
<1>1. d \in Buffers /\ d.offset = b.offset /\ b.offset + 15 <= d.capacity
  BY EnsureSpaceRoom
<1>2. EmitInstruction(b, x) = [d EXCEPT !.offset = @ + x]
  BY DEF EmitInstruction
<1> HIDE DEF d
<1>3. d \in [capacity : Nat, offset : Nat] /\ (d.capacity = 0 \/ d.capacity >= FirstCapacity)
  BY <1>1 DEF Buffers
<1>4. /\ EmitInstruction(b, x) \in [capacity : Nat, offset : Nat]
      /\ EmitInstruction(b, x).capacity = d.capacity
      /\ EmitInstruction(b, x).offset = b.offset + x
  BY <1>1, <1>2, <1>3
<1> QED
  BY <1>1, <1>3, <1>4 DEF Buffers

LEMMA EmitAllFits ==
  ASSUME NEW b \in Buffers, NEW lengths \in Seq(0 .. 15)
  PROVE  /\ FoldLeft(EmitInstruction, b, lengths) \in Buffers
         /\ FoldLeft(EmitInstruction, b, lengths).offset >= b.offset
         /\ Len(lengths) = 1 =>
              FoldLeft(EmitInstruction, b, lengths).offset = b.offset + lengths[1]
<1> DEFINE n == Len(lengths)
           A == Buffers
           F == [k \in 1 .. n |-> [d \in A |-> EmitInstruction(d, lengths[k])]]
           Recursion(g) ==
             g = [s \in SUBSET (1 .. n) |->
                    IF s = {} THEN b ELSE EmitInstruction(g[s \ {Max(s)}], lengths[Max(s)])]
           it == CHOOSE g : Recursion(g)
<1>1. DOMAIN lengths = 1 .. n /\ \A k \in 1 .. n : lengths[k] \in 0 .. 15
  OBVIOUS
<1>2. n \in Nat
  OBVIOUS
<1>3. b \in A
  OBVIOUS
<1>4. F \in [1 .. n -> [A -> A]]
  <2>1. ASSUME NEW d \in A, NEW x \in 0 .. 15 PROVE EmitInstruction(d, x) \in A
    BY EmitInstructionFits
  <2> HIDE DEF A
  <2> QED
    BY <1>1, <2>1
<1>5. \A k \in 1 .. n, a \in A : F[k][a] = EmitInstruction(a, lengths[k])
  OBVIOUS
<1> HIDE DEF n, A, F, Recursion, it
<1>6. PICK h \in [SUBSET (1 .. n) -> A] : Solves(h, n, b, F)
  BY <1>2, <1>3, <1>4, FoldExists
<1>7. \A s \in SUBSET (1 .. n) : s # {} => Max(s) \in 1 .. n /\ s \ {Max(s)} \in SUBSET (1 .. n)
  BY <1>2, MaxOfRange
<1>8. Recursion(h)
  BY <1>5, <1>6, <1>7 DEF Recursion, Solves
<1>9. Recursion(it)
  BY <1>8 DEF it
<1>10. Follows(it, n, A, b, F)
  BY <1>5, <1>7, <1>9 DEF Recursion, Follows
<1>11. PICK q \in [0 .. n -> A] : Steps(q, n, b, F) /\ q[n] = it[1 .. n]
  BY <1>2, <1>3, <1>4, <1>10, FoldSteps
<1>12. it[1 .. n] \in A
  BY <1>2, <1>11
<1>13. FoldLeft(EmitInstruction, b, lengths) = it[1 .. n]
  BY <1>1 DEF FoldLeft, MapThenFoldSet, it, Recursion
<1>14. n = 1 => it[1 .. n].offset = b.offset + lengths[1]
  <2> SUFFICES ASSUME n = 1 PROVE it[1 .. n].offset = b.offset + lengths[1]
    OBVIOUS
  <2>1. 1 \in 1 .. n /\ 1 - 1 = 0
    OBVIOUS
  <2>2. q[0] = b /\ q[1] = F[1][q[1 - 1]] /\ q[n] = it[1 .. n]
    BY <1>11, <2>1 DEF Steps
  <2>3. q[1] = EmitInstruction(b, lengths[1])
    BY <1>3, <1>5, <2>1, <2>2
  <2>4. lengths[1] \in 0 .. 15
    BY <1>1, <2>1
  <2> QED
    BY <2>2, <2>3, <2>4, EmitInstructionFits
<1>15. it[1 .. n].offset >= b.offset
  <2> DEFINE S == {k \in 0 .. n : q[k].offset >= b.offset}
  <2>1. \A a \in A : a \in Buffers /\ a.offset \in Nat
    BY DEF A, Buffers
  <2>2. 0 \in S
    <3>1. q[0] = b /\ 0 \in 0 .. n
      BY <1>2, <1>11 DEF Steps
    <3> QED
      BY <1>3, <2>1, <3>1
  <2>3. ASSUME NEW k \in 0 .. n - 1, k \in S PROVE k + 1 \in S
    <3>1. k + 1 \in 1 .. n /\ k + 1 \in 0 .. n /\ (k + 1) - 1 = k /\ k \in 0 .. n
      BY <1>2
    <3>2. q[k + 1] = F[k + 1][q[(k + 1) - 1]]
      BY <1>11, <3>1 DEF Steps
    <3>3. q[k] \in A
      BY <1>11, <3>1
    <3>4. q[k + 1] = EmitInstruction(q[k], lengths[k + 1])
      BY <1>5, <3>1, <3>2, <3>3
    <3>5. lengths[k + 1] \in 0 .. 15
      BY <1>1, <3>1
    <3>6. q[k + 1].offset = q[k].offset + lengths[k + 1]
      BY <2>1, <3>3, <3>4, <3>5, EmitInstructionFits
    <3>7. q[k].offset >= b.offset
      BY <2>3
    <3>8. b.offset \in Nat
      BY DEF Buffers
    <3>9. q[k].offset \in Nat
      BY <2>1, <3>3
    <3>10. lengths[k + 1] \in Nat
      BY <3>5
    <3>11. q[k + 1].offset >= b.offset
      BY <3>6, <3>7, <3>8, <3>9, <3>10
    <3> QED
      BY <3>1, <3>11
  <2> HIDE DEF S
  <2>4. \A k \in 0 .. n : k \in S
    BY <1>2, <2>2, <2>3, UpTo
  <2>5. n \in S
    BY <1>2, <2>4
  <2> QED
    BY <1>11, <2>5 DEF S
<1> QED
  BY <1>12, <1>13, <1>14, <1>15 DEF A, n

-----------------------------------------------------------------------------
(* Where the label is, and where the jump leads.                           *)

LEMMA SignedByteItself == \A x \in Int : IsInt8(x) => SignedByte(x) = x
BY DEF IsInt8, SignedByte

LEMMA AssemblerInit == Init => AssemblerInv
<1> SUFFICES ASSUME Init PROVE AssemblerInv
  OBVIOUS
<1>1. buffer = [capacity |-> 0, offset |-> 0] /\ starts = <<>> /\ label = -1 /\ displacement = 0
  BY DEF Init, InitAssembler, Unbound
<1>2. Code = <<>> /\ phase = "prepare"
  BY DEF Init, InitCompiler, NewContext, Code
<1>3. buffer \in Buffers
  BY <1>1 DEF Buffers
<1> QED
  BY <1>1, <1>2, <1>3 DEF AssemblerInv

\* An emittable is emitted behind those before it.
LEMMA EncodeStep ==
  ASSUME CompilerInv, CodeInv, AssemblerInv, Encode
  PROVE  AssemblerInv'
<1> DEFINE n == Len(starts)
           item == Code[n + 1]
           here == buffer.offset
<1>1. /\ phase = "encode" /\ phase' \in {"encode", "failed"} /\ n < Len(Code)
      /\ cc' = cc /\ Code' = Code /\ starts' = Append(starts, here)
      /\ label' = IF item.op = "L_Loop" THEN here ELSE label
      /\ displacement' = CASE item.op # "jne" -> displacement
                          [] item.op = "jne" /\ IsShort(here) -> SignedByte(ShortDistance(here))
                          [] item.op = "jne" /\ ~IsShort(here) -> LongDistance(here)
      /\ \/ phase' = "failed" /\ buffer' = buffer
         \/ phase' # "failed" /\ buffer' = FoldLeft(EmitInstruction, buffer, Lengths(item))
  BY DEF Encode, Code
<1>2. /\ starts \in Seq(Nat) /\ n \in Nat /\ buffer \in Buffers /\ here \in Nat
      /\ label \in Int /\ displacement \in Int
  BY DEF AssemblerInv, Buffers
<1>3. PICK loop \in Nat, jump \in Nat : Placing(loop, jump)
  BY <1>1, CodePlaces
<1>4. Code \in Seq(Items) /\ Len(Code) \in Nat /\ n + 1 \in DOMAIN Code
  <2>1. Code \in Seq(Items)
    BY ContextFields DEF CompilerInv, Sound, Code
  <2> QED
    BY <1>1, <1>2, <2>1
<1>5. /\ loop < jump
      /\ \A j \in DOMAIN Code : (j = loop <=> Code[j].op = "L_Loop") /\ (j = jump <=> Code[j].op = "jne")
  BY <1>3 DEF Placing
<1>6. Lengths(item) \in Seq(0 .. 15) /\ buffer' \in Buffers
  <2>1. Lengths(item) \in Seq(0 .. 15)
    BY LengthsType
  <2> HIDE DEF item
  <2> QED
    BY <1>1, <1>2, <2>1, EmitAllFits
<1>7. ShortDistance(here) = label - here - 2 /\ LongDistance(here) = label - here - 6
  BY DEF ShortDistance, LongDistance
<1>8. /\ starts' \in Seq(Nat) /\ Len(starts') = n + 1 /\ starts'[n + 1] = here
      /\ \A k \in 1 .. n : starts'[k] = starts[k]
  BY <1>1, <1>2
<1>9. label' \in Int /\ displacement' \in Int
  <2>1. ShortDistance(here) \in Int /\ LongDistance(here) \in Int
    BY <1>2, <1>7
  <2>2. IsShort(here) => SignedByte(ShortDistance(here)) = ShortDistance(here)
    BY <2>1, SignedByteItself DEF IsShort
  <2> HIDE DEF here, item
  <2>3. CASE item.op # "jne"
    BY <1>1, <1>2, <2>3
  <2>4. CASE item.op = "jne" /\ IsShort(here)
    <3>1. displacement' = SignedByte(ShortDistance(here))
      BY <1>1, <2>4
    <3> QED
      BY <1>1, <1>2, <2>1, <2>2, <2>4, <3>1
  <2>5. CASE item.op = "jne" /\ ~IsShort(here)
    <3>1. displacement' = LongDistance(here)
      BY <1>1, <2>5
    <3> QED
      BY <1>1, <1>2, <2>1, <2>5, <3>1
  <2> QED
    BY <2>3, <2>4, <2>5
<1>10. ASSUME NEW k \in 1 .. n + 1, Code[k].op = "L_Loop" PROVE label' = starts'[k]
  <2>1. k \in DOMAIN Code
    BY <1>1, <1>2, <1>4
  <2>2. CASE k = n + 1
    BY <1>1, <1>8, <1>10, <2>2
  <2>3. CASE k # n + 1
    <3>1. k \in 1 .. n
      BY <1>2, <2>3
    <3>2. item.op # "L_Loop"
      BY <1>4, <1>5, <1>10, <2>1, <2>3
    <3>3. label' = label
      BY <1>1, <3>2
    <3>4. label = starts[k]
      BY <1>2, <1>10, <3>1 DEF AssemblerInv
    <3> QED
      BY <1>8, <3>1, <3>3, <3>4
  <2> QED
    BY <2>2, <2>3
<1>11. ASSUME NEW k \in 1 .. n + 1, Code[k].op = "jne", phase' # "failed"
       PROVE  Behind(k)' + displacement' = label'
  <2>1. k \in DOMAIN Code /\ k = jump
    BY <1>1, <1>2, <1>4, <1>5, <1>11
  <2>2. item.op # "L_Loop" /\ label' = label
    <3>1. n + 1 # loop
      BY <1>2, <1>5, <2>1
    <3> QED
      BY <1>1, <1>4, <1>5, <3>1
  <2>3. CASE k = n + 1
    <3>1. item.op = "jne"
      BY <1>11, <2>3
    <3>2. Behind(k)' = buffer'.offset
      BY <1>8, <2>3 DEF Behind
    <3>3. Lengths(item) = <<IF IsShort(here) THEN 2 ELSE 6>>
      BY <3>1 DEF Lengths
    <3>4. buffer'.offset = here + Lengths(item)[1]
      <4>1. buffer' = FoldLeft(EmitInstruction, buffer, Lengths(item))
        BY <1>1, <1>11
      <4>2. Len(Lengths(item)) = 1
        BY <3>3
      <4> DEFINE lengths == Lengths(item)
      <4>3. lengths \in Seq(0 .. 15) /\ Len(lengths) = 1
        BY <1>6, <4>2
      <4> HIDE DEF lengths
      <4>4. FoldLeft(EmitInstruction, buffer, lengths).offset = buffer.offset + lengths[1]
        BY <1>2, <4>3, EmitAllFits
      <4> QED
        BY <4>1, <4>4 DEF lengths
    <3>5. CASE IsShort(here)
      <4>1. displacement' = SignedByte(ShortDistance(here))
        BY <1>1, <3>1, <3>5
      <4>2. ShortDistance(here) \in Int
        BY <1>2, <1>7
      <4>3. displacement' = label - here - 2
        BY <1>7, <3>5, <4>1, <4>2, SignedByteItself DEF IsShort
      <4>4. buffer'.offset = here + 2
        BY <3>3, <3>4, <3>5
      <4> QED
        BY <1>2, <2>2, <3>2, <4>3, <4>4
    <3>6. CASE ~IsShort(here)
      <4>1. displacement' = LongDistance(here)
        BY <1>1, <3>1, <3>6
      <4>2. buffer'.offset = here + 6
        BY <3>3, <3>4, <3>6
      <4> QED
        BY <1>2, <1>7, <2>2, <3>2, <4>1, <4>2
    <3> QED
      BY <3>5, <3>6
  <2>4. CASE k # n + 1
    <3>1. k \in 1 .. n /\ k + 1 \in 1 .. n + 1 /\ k # n + 1
      BY <1>2, <2>4
    <3>2. item.op # "jne"
      BY <1>4, <1>5, <2>1, <2>4
    <3>3. displacement' = displacement
      BY <1>1, <3>2
    <3>4. Behind(k) + displacement = label
      BY <1>1, <1>2, <1>11, <3>1 DEF AssemblerInv
    <3>5. Behind(k)' = Behind(k)
      <4>1. Behind(k)' = starts'[k + 1]
        BY <1>8, <3>1 DEF Behind
      <4>2. CASE k = n
        BY <1>8, <4>1, <4>2 DEF Behind
      <4>3. CASE k # n
        <5>1. k + 1 \in 1 .. n
          BY <1>2, <3>1, <4>3
        <5> QED
          BY <1>8, <4>1, <4>3, <5>1 DEF Behind
      <4> QED
        BY <4>2, <4>3
    <3> QED
      BY <2>2, <3>3, <3>4, <3>5
  <2> QED
    BY <2>3, <2>4
<1>12. DOMAIN starts' = 1 .. n + 1 /\ Len(starts') <= Len(Code')
  BY <1>1, <1>2, <1>4, <1>8
<1> HIDE DEF n, item, here
<1> QED
  BY <1>1, <1>6, <1>8, <1>9, <1>10, <1>11, <1>12 DEF AssemblerInv

LEMMA AssemblerStep ==
  ASSUME CompilerInv, CompilerInv', CodeInv, AssemblerInv, [Next]_vars
  PROVE  AssemblerInv'
<1>1. Len(Code') \in Nat
  <2>1. (cc \in Contexts)'
    BY DEF CompilerInv, Sound
  <2>2. Code' \in Seq(Items')
    BY <2>1 DEF Contexts, Code
  <2> QED
    BY <2>2
<1>2. CASE Encode
  BY <1>2, EncodeStep
<1>3. CASE Compile /\ UNCHANGED assemblerVars
  <2>1. phase \in {"prepare", "translate"} /\ phase' \in {"prepare", "translate"}
    BY <1>3 DEF Compile, Prepare, Translate
  <2>2. /\ starts = <<>> /\ starts' = <<>> /\ buffer' = buffer /\ label' = label
        /\ displacement' = displacement
    BY <1>3, <2>1 DEF AssemblerInv, assemblerVars
  <2>3. Len(Code') \in Nat /\ DOMAIN starts' = {} /\ Len(starts') = 0
    BY <1>1, <2>2
  <2> QED
    BY <2>1, <2>2, <2>3 DEF AssemblerInv
<1>4. CASE StartEncode \/ Make
  <2>1. /\ phase \in {"translate", "encode"} /\ phase' \in {"encode", "made", "failed"}
        /\ phase' = "made" => Len(starts) = Len(Code)
        /\ phase = "translate" => phase' = "encode"
        /\ cc' = cc /\ UNCHANGED assemblerVars /\ phase # "failed"
    BY <1>4 DEF StartEncode, Make, Code
  <2>2. /\ buffer' = buffer /\ starts' = starts /\ label' = label
        /\ displacement' = displacement /\ Code' = Code
    BY <2>1 DEF assemblerVars, Code
  <2>3. \A k : Behind(k)' = Behind(k)
    BY <2>2 DEF Behind
  <2> QED
    BY <2>1, <2>2, <2>3 DEF AssemblerInv
<1>5. CASE Call \/ Save \/ Load \/ Execute \/ Jump \/ Return \/ UNCHANGED vars
  <2>1. cc' = cc /\ phase' = phase /\ UNCHANGED assemblerVars
    BY <1>5 DEF Call, Save, Load, Execute, Jump, Return, vars, codeVars, compilerVars
  <2>2. /\ buffer' = buffer /\ starts' = starts /\ label' = label
        /\ displacement' = displacement /\ Code' = Code
    BY <2>1 DEF assemblerVars, Code
  <2>3. \A k : Behind(k)' = Behind(k)
    BY <2>2 DEF Behind
  <2> QED
    BY <2>1, <2>2, <2>3 DEF AssemblerInv
<1> QED
  BY <1>2, <1>3, <1>4, <1>5 DEF Next

LEMMA Assembled == Spec => [](CompilerInv /\ CodeInv /\ AssemblerInv)
<1>1. Init => CompilerInv /\ CodeInv /\ AssemblerInv
  BY InitInvariant, CodeInit, AssemblerInit
<1>2. CompilerInv /\ CodeInv /\ AssemblerInv /\ [Next]_vars => (CompilerInv /\ CodeInv /\ AssemblerInv)'
  BY CompilerStep, CodeStep, AssemblerStep
<1> QED
  BY <1>1, <1>2, PTL DEF Spec

\* No byte is written behind the end of the assembler's buffer, which grows as
\* it fills, and in the finished function the jump at the end of the loop leads
\* to where the label was bound, in its short form and in its long one,
\* whatever the number of chains and the length of the loop.
THEOREM CodeInPlaceCorrect == Spec => []CodeInPlace
<1>1. ASSUME CompilerInv, CodeInv, AssemblerInv PROVE CodeInPlace
  <2>1. buffer.offset <= buffer.capacity
    BY <1>1 DEF AssemblerInv, Buffers
  <2>2. ASSUME phase = "made", NEW k \in DOMAIN Code, Code[k].op = "jne"
        PROVE  starts[k + 1] + displacement = label
    <3>1. Code \in Seq(Items) /\ starts \in Seq(Nat) /\ Len(starts) = Len(Code)
      BY <1>1, <2>2, ContextFields DEF AssemblerInv, CompilerInv, Sound, Code
    <3>2. PICK loop \in Nat, jump \in Nat : Placing(loop, jump)
      BY <1>1, <2>2, CodePlaces
    <3>3. k < Len(Code)
      BY <2>2, <3>2 DEF Placing
    <3>4. k \in DOMAIN starts /\ k # Len(starts)
      BY <3>1, <3>3
    <3>5. Behind(k) + displacement = label
      BY <1>1, <2>2, <3>4 DEF AssemblerInv
    <3> QED
      BY <3>4, <3>5 DEF Behind
  <2> QED
    BY <2>1, <2>2 DEF CodeInPlace
<1> QED
  BY <1>1, Assembled, PTL

-----------------------------------------------------------------------------
(* The finished function runs.                                             *)

LEMMA CallerIsNone == Caller \notin Variables \cup {NoVariable}
BY DEF Caller, NoVariable, Variables, Chain, HeadAt, Position

\* A register that is not pushed is in no instruction.
LEMMA KeptUnmodified ==
  ASSUME CompilerInv, NEW r \in Preserved \ Pushed
  PROVE  r \notin cc.modified /\ r \in Registers /\ r # ArgRegister
<1>1. cc.modified \subseteq Registers \ {ESP}
  BY DEF CompilerInv, Sound, Marked, Allocatable
<1> QED
  BY <1>1 DEF Pushed, Preserved, Registers, ArgRegister

LEMMA CodeItem ==
  ASSUME CompilerInv, NEW k \in DOMAIN Code
  PROVE  /\ RegistersOf(Code[k]) \subseteq cc.modified \cup {NoRegister}
         /\ Code[k].op \in {"save", "load"} =>
              Code[k].v \in Variables /\ Code[k].r \in Registers /\ Code[k].r \in cc.modified
         /\ Code[k].op \notin {"save", "load"} =>
              /\ Code[k].uses \in Seq(Uses) /\ DOMAIN Code[k].regs = DOMAIN Code[k].uses
              /\ \A m \in DOMAIN Code[k].regs : Code[k].regs[m] \in cc.modified \cup {NoRegister}
<1>1. Code \in Seq(Items) /\ Marked(cc)
  BY ContextFields DEF CompilerInv, Sound, Code
<1>2. Code[k] \in Items
  BY <1>1
<1>3. RegistersOf(Code[k]) \subseteq cc.modified \cup {NoRegister}
  BY <1>1 DEF Marked, Code
<1> DEFINE item == Code[k]
<1>4. item \in Items /\ RegistersOf(item) \subseteq cc.modified \cup {NoRegister}
  BY <1>2, <1>3
<1> HIDE DEF item
<1>5. CASE item.op \in {"save", "load"}
  <2>1. item.v \in Variables /\ item.r \in Registers
    BY <1>4, <1>5 DEF Items, Ops
  <2>2. item.r \in RegistersOf(item) /\ item.r # NoRegister
    BY <1>5, <2>1 DEF RegistersOf, Registers, NoRegister
  <2> QED
    BY <1>4, <1>5, <2>1, <2>2 DEF item
<1>6. CASE item.op \notin {"save", "load"}
  <2>1. item.uses \in Seq(Uses) /\ DOMAIN item.regs = DOMAIN item.uses
    BY <1>4, <1>6 DEF Items
  <2>2. \A m \in DOMAIN item.regs : item.regs[m] \in RegistersOf(item)
    BY <1>6 DEF RegistersOf
  <2> QED
    BY <1>4, <1>6, <2>1, <2>2 DEF item
<1> QED
  BY <1>5, <1>6

\* The jump leads to an emittable.
LEMMA LandingPlace ==
  ASSUME CompilerInv, CodeInv, AssemblerInv, phase = "made",
         NEW k \in DOMAIN Code, Code[k].op = "jne"
  PROVE  Landing(k) \in DOMAIN Code
<1>1. Code \in Seq(Items) /\ starts \in Seq(Nat) /\ Len(starts) = Len(Code)
  BY ContextFields DEF AssemblerInv, CompilerInv, Sound, Code
<1>2. PICK loop \in Nat, jump \in Nat : Placing(loop, jump)
  BY CodePlaces
<1>3. k < Len(Code) /\ loop \in DOMAIN Code /\ Code[loop].op = "L_Loop"
  BY <1>2 DEF Placing
<1>4. DOMAIN starts = DOMAIN Code /\ DOMAIN starts \in SUBSET Nat
  BY <1>1
<1>5. Behind(k) = starts[k + 1]
  BY <1>1, <1>3 DEF Behind
<1> DEFINE there == starts[k + 1] + displacement
<1>6. there = label
  BY <1>4, <1>5 DEF AssemblerInv
<1>7. starts[loop] = there
  BY <1>3, <1>4, <1>6 DEF AssemblerInv
<1> HIDE DEF there
<1> DEFINE S == {j \in DOMAIN starts : starts[j] = there}
<1>8. loop \in S /\ S \in SUBSET Nat
  BY <1>3, <1>4, <1>7
<1>9. PICK j \in S : \A m \in S : j <= m
  BY <1>8, LeastNumber
<1>10. j \in DOMAIN starts /\ starts[j] = there /\ \A i \in 1 .. j - 1 : starts[i] # there
  <2>1. j \in DOMAIN starts /\ starts[j] = there
    OBVIOUS
  <2>2. ASSUME NEW i \in 1 .. j - 1 PROVE starts[i] # there
    <3>1. i \in DOMAIN starts /\ ~(j <= i)
      BY <1>1, <2>1
    <3> QED
      BY <1>9, <3>1
  <2> QED
    BY <2>1, <2>2
<1>11. Landing(k) \in DOMAIN starts
  BY <1>10 DEF Landing, there
<1> QED
  BY <1>4, <1>11

LEMMA MachineInit == Init => MachineInv
<1>1. Preserved \subseteq Registers
  BY DEF Preserved, Registers
<1> QED
  BY <1>1 DEF Init, MachineInv

\* Behind every emittable but the epilog there is another.
LEMMA Goes ==
  ASSUME CompilerInv, CodeInv, phase = "made", NEW k \in DOMAIN Code, Code[k].op # "epilog"
  PROVE  k + 1 \in DOMAIN Code
<1>1. Code \in Seq(Items)
  BY ContextFields DEF CompilerInv, Sound, Code
<1>2. PICK loop \in Nat, jump \in Nat : Placing(loop, jump)
  BY CodePlaces
<1>3. k # Len(Code)
  BY <1>2 DEF Placing
<1> QED
  BY <1>1, <1>3

Contents == [Registers -> Variables \cup {NoVariable, Caller}]

Kept(h) == \A r \in Preserved \ Pushed : h[r] = Caller

LEMMA ExecuteKeeps ==
  ASSUME CompilerInv, CodeInv, AssemblerInv, MachineInv, Execute
  PROVE  holds' \in Contents /\ Kept(holds')
<1> DEFINE item == Code[pc]
           written == {item.uses[k].v : k \in Written(item)}
<1>1. pc \in DOMAIN Code /\ item.op \notin {"save", "load"}
  BY DEF Execute, MachineInv
<1>2. /\ item.uses \in Seq(Uses) /\ DOMAIN item.regs = DOMAIN item.uses
      /\ \A m \in DOMAIN item.regs : item.regs[m] \in cc.modified \cup {NoRegister}
  BY <1>1, CodeItem
<1>3. holds' = [r \in Registers |->
                  IF \E k \in Written(item) : item.regs[k] = r
                  THEN item.uses[CHOOSE k \in Written(item) : item.regs[k] = r].v
                  ELSE IF holds[r] \in written THEN NoVariable
                  ELSE holds[r]]
  BY DEF Execute
<1> HIDE DEF item
<1>4. \A k \in Written(item) : item.uses[k].v \in Variables /\ item.regs[k] \in cc.modified \cup {NoRegister}
  <2>1. \A k \in Written(item) : k \in DOMAIN item.regs /\ k \in DOMAIN item.uses
    BY <1>2 DEF Written
  <2>2. \A k \in DOMAIN item.uses : item.uses[k] \in Uses
    BY <1>2
  <2> QED
    BY <1>2, <2>1, <2>2 DEF Uses
<1>5. written \subseteq Variables
  BY <1>4
<1> HIDE DEF written
<1>6. holds \in Contents
  BY DEF MachineInv, Contents
<1>7. ASSUME NEW r \in Registers PROVE holds'[r] \in Variables \cup {NoVariable, Caller}
  <2>1. CASE \E k \in Written(item) : item.regs[k] = r
    <3> DEFINE k == CHOOSE k \in Written(item) : item.regs[k] = r
    <3>1. k \in Written(item)
      BY <2>1
    <3>2. holds'[r] = item.uses[k].v
      BY <1>3, <2>1
    <3> QED
      BY <1>4, <3>1, <3>2
  <2>2. CASE ~\E k \in Written(item) : item.regs[k] = r
    BY <1>3, <1>6, <2>2 DEF Contents
  <2> QED
    BY <2>1, <2>2
<1>8. ASSUME NEW r \in Preserved \ Pushed PROVE holds'[r] = Caller
  <2>1. r \notin cc.modified /\ r \in Registers
    BY KeptUnmodified
  <2>2. r # NoRegister
    BY <2>1 DEF Registers, NoRegister
  <2>3. ~\E k \in Written(item) : item.regs[k] = r
    BY <1>4, <2>1, <2>2
  <2>4. holds[r] = Caller
    BY DEF MachineInv
  <2>5. holds[r] \notin written
    BY <1>5, <2>4, CallerIsNone
  <2> QED
    BY <1>3, <2>1, <2>3, <2>4, <2>5
<1>9. holds' = [r \in Registers |-> holds'[r]]
  BY <1>3
<1>10. holds' \in Contents
  BY <1>7, <1>9 DEF Contents
<1> QED
  BY <1>8, <1>10 DEF Kept

LEMMA MachineStep ==
  ASSUME CompilerInv, CodeInv, AssemblerInv, MachineInv, [Next]_vars
  PROVE  MachineInv'
<1>1. holds \in Contents /\ (pc # 0 => phase = "made" /\ pc \in DOMAIN Code)
  BY DEF MachineInv, Contents
<1>2. Code \in Seq(Items)
  BY ContextFields DEF CompilerInv, Sound, Code
<1>3. CASE phase # "made" /\ UNCHANGED machineVars
  <2>1. input' = input
    BY <1>3 DEF Next, Compile, Prepare, Translate, StartEncode, Encode, Make, Call, Save, Load,
                Execute, Jump, Return, AtOp, vars, codeVars, compilerVars
  <2>2. pc = 0 /\ pc' = 0 /\ holds' = holds /\ \A r \in Preserved : holds[r] = Caller
    BY <1>1, <1>3 DEF machineVars, MachineInv
  <2> QED
    BY <1>1, <2>1, <2>2 DEF MachineInv, Contents, Variables
<1>4. ASSUME phase = "made", UNCHANGED codeVars, holds' \in Contents,
             pc' \in {0} \cup DOMAIN Code, Kept(holds'), pc' = 0 => \A r \in Preserved : holds'[r] = Caller
      PROVE  MachineInv'
  <2>1. input' = input /\ phase' = phase /\ cc' = cc
    BY <1>4 DEF codeVars, compilerVars
  <2>2. Code' = Code /\ Pushed' = Pushed /\ Variables' = Variables
    BY <2>1 DEF Code, Pushed, Variables
  <2> QED
    BY <1>4, <2>1, <2>2 DEF MachineInv, Contents, Kept
<1>5. phase = "made" /\ pc # 0 => Kept(holds)
  BY DEF MachineInv, Kept
<1>6. CASE Call
  <2>1. phase = "made" /\ pc = 0 /\ pc' = 1 /\ UNCHANGED codeVars
        /\ holds' = [r \in Registers |-> IF r = ArgRegister THEN Chain ELSE Caller]
    BY <1>6 DEF Call
  <2>2. holds' \in Contents
    BY <2>1 DEF Contents, Variables
  <2>3. Kept(holds')
    BY <2>1, KeptUnmodified DEF Kept
  <2>4. 1 \in DOMAIN Code
    <3>1. PICK loop \in Nat, jump \in Nat : Placing(loop, jump)
      BY <2>1, CodePlaces
    <3>2. loop \in DOMAIN Code
      BY <3>1 DEF Placing
    <3> QED
      BY <1>2, <3>2
  <2> QED
    BY <1>4, <2>1, <2>2, <2>3, <2>4
<1>7. CASE Save
  <2>1. phase = "made" /\ pc > 0 /\ Code[pc].op = "save" /\ pc' = pc + 1 /\ UNCHANGED codeVars
        /\ holds' = holds
    BY <1>7 DEF Save, AtOp
  <2>2. pc \in DOMAIN Code /\ pc # 0
    BY <1>1, <2>1
  <2>3. pc' \in DOMAIN Code
    BY <2>1, <2>2, Goes
  <2>4. pc' # 0
    BY <1>2, <2>3
  <2> QED
    BY <1>1, <1>4, <1>5, <2>1, <2>2, <2>3, <2>4
<1>8. CASE Load
  <2>1. phase = "made" /\ pc > 0 /\ Code[pc].op = "load" /\ pc' = pc + 1 /\ UNCHANGED codeVars
        /\ holds' = [holds EXCEPT ![Code[pc].r] =
                       IF Code[pc].v \in fresh THEN Code[pc].v ELSE NoVariable]
    BY <1>8 DEF Load, AtOp
  <2>2. pc \in DOMAIN Code /\ pc # 0
    BY <1>1, <2>1
  <2>3. pc' \in DOMAIN Code
    BY <2>1, <2>2, Goes
  <2>4. pc' # 0
    BY <1>2, <2>3
  <2>5. Code[pc].v \in Variables /\ Code[pc].r \in cc.modified
    BY <2>1, <2>2, CodeItem
  <2>6. holds' \in Contents
    BY <1>1, <2>1, <2>5 DEF Contents
  <2>7. Kept(holds')
    <3> SUFFICES ASSUME NEW r \in Preserved \ Pushed PROVE holds'[r] = Caller
      BY DEF Kept
    <3>1. r \notin cc.modified /\ r \in Registers
      BY KeptUnmodified
    <3>2. holds'[r] = holds[r]
      BY <1>1, <2>1, <2>5, <3>1 DEF Contents
    <3> QED
      BY <1>5, <2>1, <2>2, <3>2 DEF Kept
  <2> QED
    BY <1>4, <2>1, <2>3, <2>4, <2>6, <2>7
<1>9. CASE Execute
  <2>1. phase = "made" /\ pc > 0 /\ Code[pc].op # "epilog" /\ pc' = pc + 1 /\ UNCHANGED codeVars
    BY <1>9 DEF Execute
  <2>2. pc \in DOMAIN Code /\ pc # 0
    BY <1>1, <2>1
  <2>3. pc' \in DOMAIN Code
    BY <2>1, <2>2, Goes
  <2>4. pc' # 0
    BY <1>2, <2>3
  <2> QED
    BY <1>4, <1>9, <2>1, <2>3, <2>4, ExecuteKeeps
<1>10. CASE Jump
  <2>1. phase = "made" /\ pc > 0 /\ Code[pc].op = "jne" /\ pc' \in {Landing(pc), pc + 1}
        /\ UNCHANGED codeVars /\ holds' = holds
    BY <1>10 DEF Jump, AtOp
  <2>2. pc \in DOMAIN Code /\ pc # 0
    BY <1>1, <2>1
  <2>3. pc' \in DOMAIN Code
    BY <2>1, <2>2, Goes, LandingPlace
  <2>4. pc' # 0
    BY <1>2, <2>3
  <2> QED
    BY <1>1, <1>4, <1>5, <2>1, <2>2, <2>3, <2>4
<1>11. CASE Return
  <2>1. phase = "made" /\ pc > 0 /\ pc' = 0 /\ UNCHANGED codeVars
        /\ holds' = [r \in Registers |-> IF r \in Pushed THEN Caller ELSE holds[r]]
    BY <1>11 DEF Return, AtOp
  <2>2. pc # 0
    BY <1>1, <2>1
  <2>3. holds' \in Contents
    BY <1>1, <2>1 DEF Contents
  <2>4. ASSUME NEW r \in Preserved PROVE holds'[r] = Caller
    <3>1. r \in Registers
      BY DEF Preserved, Registers
    <3> QED
      BY <1>5, <2>1, <2>2, <3>1 DEF Kept
  <2> QED
    BY <1>4, <2>1, <2>3, <2>4 DEF Kept
<1>12. CASE phase = "made" /\ UNCHANGED vars
  <2>1. UNCHANGED codeVars /\ holds' = holds /\ pc' = pc
    BY <1>12 DEF vars, machineVars
  <2>2. pc = 0 => \A r \in Preserved : holds[r] = Caller
    BY DEF MachineInv
  <2>3. Kept(holds)
    BY <1>5, <1>12, <2>2 DEF Kept
  <2> QED
    BY <1>1, <1>4, <1>12, <2>1, <2>2, <2>3
<1>13. ASSUME [Next]_vars, ~(Call \/ Save \/ Load \/ Execute \/ Jump \/ Return), ~(phase = "made" /\ UNCHANGED vars)
       PROVE  phase # "made" /\ UNCHANGED machineVars
  BY <1>13 DEF Next, Compile, Prepare, Translate, StartEncode, Encode, Make, vars
<1> QED
  BY <1>3, <1>6, <1>7, <1>8, <1>9, <1>10, <1>11, <1>12, <1>13

\* When the function returns, every register that the calling convention lets
\* the caller keep is as it was, however many chains compete for the registers.
THEOREM CallerKeepsCorrect == Spec => []CallerKeeps
<1>1. Init => MachineInv
  BY MachineInit
<1>2. CompilerInv /\ CodeInv /\ AssemblerInv /\ MachineInv /\ [Next]_vars => MachineInv'
  BY MachineStep
<1>3. MachineInv => CallerKeeps
  BY DEF MachineInv, CallerKeeps
<1> QED
  BY <1>1, <1>2, <1>3, Assembled, PTL DEF Spec
=============================================================================
