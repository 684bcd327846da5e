----------------------------- MODULE ScopeProofs -----------------------------
(***************************************************************************)
(* Proofs about what the compiler (src/lib/AsmJit/CompilerX86X64.cpp) puts *)
(* on the stack, for every number of chains and every length of the loop:  *)
(* as long as the registers do, nothing; and what it puts there when they  *)
(* do not stays below what the function's prologue reserves.               *)
(*                                                                         *)
(* The argument follows the scopes of the variables: where each begins and *)
(* ends is known from the program alone, so the variables that can be in a *)
(* register at a place are known too, and with fewer than fourteen chains  *)
(* there are fewer of them than allocatable registers.                     *)
(***************************************************************************)
EXTENDS CodeProofs

-----------------------------------------------------------------------------
(* What the program uses, place by place.                                  *)

Joint(r, s, t) ==
  /\ Len(r) = Len(s) + Len(t)
  /\ \A k \in 1 .. Len(s) : r[k] = s[k]
  /\ \A k \in 1 .. Len(t) : r[Len(s) + k] = t[k]

LEMMA JointJoined ==
  ASSUME NEW X, NEW s \in Seq(X), NEW t \in Seq(X), NEW r, r = s \o t
  PROVE  r \in Seq(X) /\ Joint(r, s, t) /\ Len(s) \in Nat /\ Len(t) \in Nat
<1>1. Len(s) \in Nat /\ Len(t) \in Nat
  OBVIOUS
<1>2. /\ r \in Seq(X)
      /\ Len(r) = Len(s) + Len(t)
      /\ \A k \in 1 .. Len(s) : r[k] = s[k]
      /\ \A k \in Len(s) + 1 .. Len(s) + Len(t) : r[k] = t[k - Len(s)]
  BY Joined
<1>3. ASSUME NEW k \in 1 .. Len(t) PROVE r[Len(s) + k] = t[k]
  <2>1. Len(s) + k \in Len(s) + 1 .. Len(s) + Len(t) /\ (Len(s) + k) - Len(s) = k
    BY <1>1
  <2>2. r[Len(s) + k] = t[(Len(s) + k) - Len(s)]
    BY <1>2, <2>1
  <2> QED
    BY <2>1, <2>2
<1> QED
  BY <1>1, <1>2, <1>3 DEF Joint

\* Seven parts, one behind the other.
Seven(s, a, b, c, d, e, f, g) == s = a \o b \o c \o d \o e \o f \o g

SevenPlaces(s, a, b, c, d, e, f, g) ==
  /\ \A k \in 1 .. Len(b) : s[Len(a) + k] = b[k]
  /\ \A k \in 1 .. Len(c) : s[Len(a) + Len(b) + k] = c[k]
  /\ \A k \in 1 .. Len(e) : s[Len(a) + Len(b) + Len(c) + Len(d) + k] = e[k]
  /\ \A k \in 1 .. Len(g) :
       s[Len(a) + Len(b) + Len(c) + Len(d) + Len(e) + Len(f) + k] = g[k]

LEMMA SevenParts ==
  ASSUME NEW X, NEW a \in Seq(X), NEW b \in Seq(X), NEW c \in Seq(X), NEW d \in Seq(X),
         NEW e \in Seq(X), NEW f \in Seq(X), NEW g \in Seq(X), NEW s, Seven(s, a, b, c, d, e, f, g)
  PROVE  SevenPlaces(s, a, b, c, d, e, f, g)
<1> DEFINE p == a \o b
           q == p \o c
           r == q \o d
           t == r \o e
           u == t \o f
<1>1. s = u \o g
  BY DEF Seven
<1>2. p \in Seq(X) /\ Joint(p, a, b) /\ Len(a) \in Nat /\ Len(b) \in Nat
  BY JointJoined
<1>3. p = a \o b /\ q = p \o c /\ r = q \o d /\ t = r \o e /\ u = t \o f
  OBVIOUS
<1> HIDE DEF p, q, r, t, u
<1>4. q \in Seq(X) /\ Joint(q, p, c) /\ Len(c) \in Nat
  BY <1>2, <1>3, JointJoined
<1>5. r \in Seq(X) /\ Joint(r, q, d) /\ Len(d) \in Nat
  BY <1>3, <1>4, JointJoined
<1>6. t \in Seq(X) /\ Joint(t, r, e) /\ Len(e) \in Nat
  BY <1>3, <1>5, JointJoined
<1>7. u \in Seq(X) /\ Joint(u, t, f) /\ Len(f) \in Nat
  BY <1>3, <1>6, JointJoined
<1>8. Joint(s, u, g) /\ Len(g) \in Nat
  BY <1>1, <1>7, JointJoined
<1>9. /\ Len(p) = Len(a) + Len(b) /\ Len(q) = Len(a) + Len(b) + Len(c)
      /\ Len(r) = Len(a) + Len(b) + Len(c) + Len(d)
      /\ Len(t) = Len(a) + Len(b) + Len(c) + Len(d) + Len(e)
      /\ Len(u) = Len(a) + Len(b) + Len(c) + Len(d) + Len(e) + Len(f)
      /\ Len(p) <= Len(q) /\ Len(q) <= Len(r) /\ Len(r) <= Len(t) /\ Len(t) <= Len(u)
      /\ Len(p) \in Nat /\ Len(q) \in Nat /\ Len(r) \in Nat /\ Len(t) \in Nat /\ Len(u) \in Nat
  <2>1. Len(p) = Len(a) + Len(b) /\ Len(a) \in Nat /\ Len(b) \in Nat
    BY <1>2 DEF Joint
  <2>2. Len(q) = Len(p) + Len(c) /\ Len(c) \in Nat
    BY <1>4 DEF Joint
  <2>3. Len(r) = Len(q) + Len(d) /\ Len(d) \in Nat
    BY <1>5 DEF Joint
  <2>4. Len(t) = Len(r) + Len(e) /\ Len(e) \in Nat
    BY <1>6 DEF Joint
  <2>5. Len(u) = Len(t) + Len(f) /\ Len(f) \in Nat
    BY <1>7 DEF Joint
  <2> HIDE DEF p, q, r, t, u
  <2> QED
    BY <2>1, <2>2, <2>3, <2>4, <2>5
<1>10. ASSUME NEW x \in 1 .. Len(t) PROVE s[x] = t[x]
  <2>1. x \in 1 .. Len(u)
    BY <1>9
  <2> QED
    BY <1>7, <1>8, <2>1 DEF Joint
<1>11. ASSUME NEW x \in 1 .. Len(q) PROVE s[x] = q[x]
  <2>1. x \in 1 .. Len(r) /\ x \in 1 .. Len(t)
    BY <1>9
  <2>2. r[x] = q[x] /\ t[x] = r[x]
    BY <1>5, <1>6, <2>1 DEF Joint
  <2> QED
    BY <1>10, <2>1, <2>2
<1>12. ASSUME NEW k \in 1 .. Len(b) PROVE s[Len(a) + k] = b[k]
  <2>1. Len(a) + k \in 1 .. Len(p) /\ Len(a) + k \in 1 .. Len(q)
    BY <1>2, <1>9
  <2>2. p[Len(a) + k] = b[k] /\ q[Len(a) + k] = p[Len(a) + k]
    BY <1>2, <1>4, <2>1 DEF Joint
  <2> QED
    BY <1>11, <2>1, <2>2
<1>13. ASSUME NEW k \in 1 .. Len(c) PROVE s[Len(a) + Len(b) + k] = c[k]
  <2>1. Len(p) + k \in 1 .. Len(q) /\ Len(a) + Len(b) + k = Len(p) + k
    BY <1>4, <1>9
  <2>2. q[Len(p) + k] = c[k]
    BY <1>4 DEF Joint
  <2> QED
    BY <1>11, <2>1, <2>2
<1>14. ASSUME NEW k \in 1 .. Len(e) PROVE s[Len(a) + Len(b) + Len(c) + Len(d) + k] = e[k]
  <2>1. Len(r) + k \in 1 .. Len(t) /\ Len(a) + Len(b) + Len(c) + Len(d) + k = Len(r) + k
    BY <1>6, <1>9
  <2>2. t[Len(r) + k] = e[k]
    BY <1>6 DEF Joint
  <2> QED
    BY <1>10, <2>1, <2>2
<1>15. \A k \in 1 .. Len(g) :
         s[Len(a) + Len(b) + Len(c) + Len(d) + Len(e) + Len(f) + k] = g[k]
  BY <1>8, <1>9 DEF Joint
<1> QED
  BY <1>12, <1>13, <1>14, <1>15 DEF SevenPlaces

\* The instructions that follow a chain.
Chase(i) == Item("chase", <<[v |-> Position(i), how |-> {"read", "write"}]>>)
Prefetch(i) == Item("prefetch", <<Reads(Position(i))>>)

Following == UNION {{Chase(i), Prefetch(i)} : i \in 1 .. input.chains_per_thread}

\* What the places of the program hold that have to do with variables.
Holds(n, w, l) ==
  /\ \A i \in 1 .. n :
       /\ Program[3 + i] = Item("head", <<Writes(HeadAt(i)), Reads(Chain)>>)
       /\ Program[n + 3 + i] = Item("position", <<Writes(Position(i)), Reads(HeadAt(1))>>)
  /\ \A k \in 1 .. w : Program[2 * n + 4 + k] = FollowAll[k] /\ FollowAll[k] \in Following
  /\ Program[2 * n + 5 + w + l] = Item("cmp", <<Reads(HeadAt(1)), Reads(Position(1))>>)

LEMMA FollowAllType ==
  ASSUME input \in Inputs
  PROVE  FollowAll \in Seq(Following)
<1> DEFINE n == input.chains_per_thread
<1>1. n \in Nat \ {0}
  BY InputFields
<1>2. ASSUME NEW i \in 1 .. n PROVE Follow(i) \in Seq(Following)
  <2>1. Chase(i) \in Following /\ Prefetch(i) \in Following
    BY DEF Following
  <2> HIDE DEF Following
  <2> QED
    BY <2>1 DEF Follow, Chase, Prefetch
<1> HIDE DEF Following
<1>3. [i \in 1 .. n |-> Follow(i)] \in [1 .. n -> Seq(Following)]
  BY <1>2
<1>4. FlattenSeq([i \in 1 .. n |-> Follow(i)]) \in Seq(Following)
  BY <1>1, <1>3, FlattenType
<1> QED
  BY <1>4 DEF FollowAll

LEMMA ProgramHolds ==
  ASSUME input \in Inputs
  PROVE  Holds(input.chains_per_thread, Len(FollowAll), input.loop_length)
<1> DEFINE n == input.chains_per_thread
           w == Len(FollowAll)
           l == input.loop_length
           X == ProgramItems \cup Following
           bound == <<Item("L_Loop", <<>>)>>
<1>1. /\ Opening \in Seq(X) /\ Len(Opening) = 3
      /\ ReadHeads \in Seq(X) /\ Len(ReadHeads) = n
      /\ SetPositions \in Seq(X) /\ Len(SetPositions) = n
      /\ bound \in Seq(X)
      /\ Nops \in Seq(X) /\ Len(Nops) = l
      /\ Closing \in Seq(X) /\ Len(Closing) = 4
  BY PartTypes
<1>2. FollowAll \in Seq(Following)
  BY FollowAllType
<1>3. FollowAll \in Seq(X) /\ w \in Nat /\ \A k \in 1 .. w : FollowAll[k] \in Following
  BY <1>2
<1>4. Len(bound) = 1 /\ n \in Nat /\ l \in Nat
  BY InputFields
<1>5. Seven(Program, Opening, ReadHeads, SetPositions, bound, FollowAll, Nops, Closing)
  BY DEF Seven, Program
<1> HIDE DEF X, bound, n, w, l
<1>6. /\ \A k \in 1 .. n : Program[3 + k] = ReadHeads[k]
      /\ \A k \in 1 .. n : Program[3 + n + k] = SetPositions[k]
      /\ \A k \in 1 .. w : Program[3 + n + n + 1 + k] = FollowAll[k]
      /\ \A k \in 1 .. 4 : Program[3 + n + n + 1 + w + l + k] = Closing[k]
  <2>1. SevenPlaces(Program, Opening, ReadHeads, SetPositions, bound, FollowAll, Nops, Closing)
    BY <1>1, <1>3, <1>5, SevenParts
  <2> QED
    BY <1>1, <1>4, <2>1 DEF SevenPlaces, w
<1>7. /\ \A k \in 1 .. n : Program[n + 3 + k] = SetPositions[k]
      /\ \A k \in 1 .. w : Program[2 * n + 4 + k] = FollowAll[k]
      /\ Program[2 * n + 5 + w + l] = Closing[1]
  <2>1. \A k \in 1 .. n : n + 3 + k = 3 + n + k
    BY <1>4
  <2>2. \A k \in 1 .. w : 2 * n + 4 + k = 3 + n + n + 1 + k
    BY <1>3, <1>4
  <2>3. 2 * n + 5 + w + l = 3 + n + n + 1 + w + l + 1 /\ 1 \in 1 .. 4
    BY <1>3, <1>4
  <2> QED
    BY <1>6, <2>1, <2>2, <2>3
<1>8. \A k \in 1 .. n : ReadHeads[k] = Item("head", <<Writes(HeadAt(k)), Reads(Chain)>>)
  BY DEF ReadHeads, n
<1>9. \A k \in 1 .. n : SetPositions[k] = Item("position", <<Writes(Position(k)), Reads(HeadAt(1))>>)
  BY DEF SetPositions, n
<1>10. Closing[1] = Item("cmp", <<Reads(HeadAt(1)), Reads(Position(1))>>)
  BY DEF Closing
<1> QED
  BY <1>3, <1>6, <1>7, <1>8, <1>9, <1>10 DEF Holds, n, w, l

\* Which variables are used where.
Usage(n, w, l) ==
  /\ LoopPlace = 2 * n + 4 /\ JumpPlace = 2 * n + w + l + 6
  /\ \A i \in 1 .. n : UsedAt(3 + i) = {HeadAt(i), Chain}
  /\ \A i \in 1 .. n : UsedAt(n + 3 + i) = {Position(i), HeadAt(1)}
  /\ \A k \in LoopPlace .. JumpPlace : UsedAt(k) \subseteq Across
  /\ \A k \in DOMAIN Program : k <= 3 \/ k >= JumpPlace => Program[k].uses = <<>>

LEMMA NothingUsed ==
  ASSUME NEW k, Program[k].uses = <<>>
  PROVE  UsedAt(k) = {}
BY DEF UsedAt

LEMMA UsedTwo ==
  ASSUME NEW k, NEW op, NEW u, NEW v, Program[k] = Item(op, <<u, v>>)
  PROVE  UsedAt(k) = {u.v, v.v}
BY DEF UsedAt, Item

LEMMA UsedOne ==
  ASSUME NEW k, NEW op, NEW u, Program[k] = Item(op, <<u>>)
  PROVE  UsedAt(k) = {u.v}
BY DEF UsedAt, Item

LEMMA ProgramUsage ==
  ASSUME input \in Inputs
  PROVE  Usage(input.chains_per_thread, Len(FollowAll), input.loop_length)
<1> DEFINE n == input.chains_per_thread
           w == Len(FollowAll)
           l == input.loop_length
<1>1. /\ n \in Nat \ {0} /\ l \in Nat /\ w \in Nat
      /\ Holds(n, w, l) /\ Places(n, w, l) /\ Sections(n, w, l)
  BY ProgramHolds, ProgramPlaces, ProgramSections
<1>2. JumpPlace = LoopPlace + w + l + 2
  BY DEF JumpPlace
<1>3. \A k \in DOMAIN Program : Program[k].op \notin UsingOps => Program[k].uses = <<>>
  BY PlaceFields
<1>4. /\ HeadAt(1) \in Across /\ \A i \in 1 .. n : Position(i) \in Across
      /\ \A x \in Following : \E i \in 1 .. n : x = Chase(i) \/ x = Prefetch(i)
  BY DEF Across, Following
<1> HIDE DEF n, w, l
<1>5. /\ LoopPlace = 2 * n + 4 /\ JumpPlace = 2 * n + w + l + 6
      /\ DOMAIN Program = 1 .. 2 * n + w + l + 8
  <2>1. LoopPlace = 2 * n + 4 /\ DOMAIN Program = 1 .. 2 * n + w + l + 8
    BY <1>1 DEF Places
  <2> QED
    BY <1>1, <1>2, <2>1
<1>6. \A i \in 1 .. n : UsedAt(3 + i) = {HeadAt(i), Chain}
  <2> TAKE i \in 1 .. n
  <2>1. Program[3 + i] = Item("head", <<Writes(HeadAt(i)), Reads(Chain)>>)
    BY <1>1 DEF Holds
  <2> QED
    BY <2>1, UsedTwo DEF Writes, Reads
<1>7. \A i \in 1 .. n : UsedAt(n + 3 + i) = {Position(i), HeadAt(1)}
  <2> TAKE i \in 1 .. n
  <2>1. Program[n + 3 + i] = Item("position", <<Writes(Position(i)), Reads(HeadAt(1))>>)
    BY <1>1 DEF Holds
  <2> QED
    BY <2>1, UsedTwo DEF Writes, Reads
<1>8. ASSUME NEW k \in DOMAIN Program, k <= 3 \/ k >= JumpPlace
      PROVE  Program[k].uses = <<>>
  <2>1. \/ k \in 1 .. 1 \/ k \in 2 .. 2 \/ k \in 3 .. 3
        \/ k \in 2 * n + 6 + w + l .. 2 * n + 6 + w + l
        \/ k \in 2 * n + 7 + w + l .. 2 * n + 7 + w + l
        \/ k \in 2 * n + 8 + w + l .. 2 * n + 8 + w + l
    BY <1>1, <1>5, <1>8
  <2>2. Program[k].op \in {"function", "entry", "prolog", "jne", "exit", "epilog"}
    BY <1>1, <2>1 DEF Sections, Section
  <2> QED
    BY <1>3, <2>2 DEF UsingOps
<1>9. ASSUME NEW k \in LoopPlace .. JumpPlace
      PROVE  UsedAt(k) \subseteq Across
  <2>1. k \in DOMAIN Program
    BY <1>1, <1>5
  <2>2. CASE k \in 2 * n + 5 .. 2 * n + 4 + w
    <3>1. k - (2 * n + 4) \in 1 .. w /\ k = 2 * n + 4 + (k - (2 * n + 4))
      BY <1>1, <2>2
    <3>2. Program[k] \in Following
      BY <1>1, <3>1 DEF Holds
    <3>3. PICK i \in 1 .. n : Program[k] = Chase(i) \/ Program[k] = Prefetch(i)
      BY <1>4, <3>2
    <3>4. UsedAt(k) = {Position(i)}
      BY <3>3, UsedOne DEF Chase, Prefetch, Reads
    <3> QED
      BY <1>4, <3>4
  <2>3. CASE k = 2 * n + 5 + w + l
    <3>1. UsedAt(k) = {HeadAt(1), Position(1)}
      BY <1>1, <2>3, UsedTwo DEF Holds, Reads
    <3>2. 1 \in 1 .. n
      BY <1>1
    <3> QED
      BY <1>4, <3>1, <3>2
  <2>4. CASE k \notin 2 * n + 5 .. 2 * n + 4 + w /\ k # 2 * n + 5 + w + l
    <3>1. \/ k \in 2 * n + 4 .. 2 * n + 4
          \/ k \in 2 * n + 5 + w .. 2 * n + 4 + w + l
          \/ k \in 2 * n + 6 + w + l .. 2 * n + 6 + w + l
      BY <1>1, <1>5, <2>4
    <3>2. Program[k].op \in {"L_Loop", "nop", "jne"}
      BY <1>1, <3>1 DEF Sections, Section
    <3> QED
      BY <1>3, <2>1, <3>2, NothingUsed DEF UsingOps
  <2> QED
    BY <2>2, <2>3, <2>4
<1> QED
  BY <1>5, <1>6, <1>7, <1>8, <1>9 DEF Usage, n, w, l

\* The variables are different ones.
LEMMA VariablesDiffer ==
  /\ \A i : HeadAt(i) # Chain /\ Position(i) # Chain
  /\ \A i, j : HeadAt(i) # Position(j)
  /\ \A i, j : HeadAt(i) = HeadAt(j) => i = j
  /\ \A i, j : Position(i) = Position(j) => i = j
BY DEF HeadAt, Position, Chain

-----------------------------------------------------------------------------
(* The scopes while the program is prepared.                               *)

\* What the instruction that place p holds makes of the data of a variable.
Used(w, x, cur, p) ==
  /\ x.work = cur /\ x.last = cur /\ x.ends = p
  /\ x.first = IF w.first = -1 THEN cur ELSE w.first

\* The variables S, and no others, were used at place p.
Prepared(c, d, S, p) ==
  /\ \A v \in Variables \cap S : Used(c.var[v], d.var[v], c.cur, p)
  /\ \A v \in Variables \ S : d.var[v] = c.var[v]

LEMMA TouchData ==
  ASSUME NEW c \in Contexts, NEW use \in Uses, NEW p \in Int
  PROVE  Prepared(c, Touch(c, use, p), {use.v}, p) /\ Touch(c, use, p).cur = c.cur
<1> DEFINE w == c.var[use.v]
           x == [w EXCEPT !.work = c.cur, !.bias = @ + Bias(use.how),
                          !.first = IF @ = -1 THEN c.cur ELSE @,
                          !.last = c.cur, !.ends = p]
           d == [c EXCEPT !.var[use.v] = x]
<1>1. use.v \in Variables /\ c.var \in [Variables -> VarDatas] /\ w \in VarDatas
  BY ContextFields DEF Uses
<1>2. Touch(c, use, p) = d
  BY DEF Touch
<1>3. Used(w, x, c.cur, p)
  BY <1>1 DEF Used, VarDatas
<1> HIDE DEF x
<1>4. d.var = [c.var EXCEPT ![use.v] = x] /\ d.cur = c.cur
  BY DEF Contexts
<1> QED
  BY <1>1, <1>2, <1>3, <1>4 DEF Prepared

LEMMA PreparedMore ==
  ASSUME NEW a, NEW b, NEW c, NEW S, NEW v, NEW p,
         a.cur # -1, b.cur = a.cur, Prepared(a, b, S, p), Prepared(b, c, {v}, p)
  PROVE  Prepared(a, c, S \cup {v}, p)
<1>1. ASSUME NEW u \in Variables \cap (S \cup {v})
      PROVE  Used(a.var[u], c.var[u], a.cur, p)
  <2>1. CASE u = v /\ u \in S
    BY <2>1 DEF Prepared, Used
  <2>2. CASE u = v /\ u \notin S
    BY <2>2 DEF Prepared, Used
  <2>3. CASE u # v
    BY <1>1, <2>3 DEF Prepared, Used
  <2> QED
    BY <2>1, <2>2, <2>3
<1> QED
  BY <1>1 DEF Prepared

LEMMA InstructionPrepared ==
  ASSUME NEW c \in Contexts, c.cur # -1, NEW uses \in Seq(Uses), uses # <<>>, NEW p \in Int,
         \A k \in DOMAIN uses : c.var[uses[k].v].work # c.cur
  PROVE  /\ Prepared(c, PrepareInstruction(c, uses, p), {uses[k].v : k \in DOMAIN uses}, p)
         /\ PrepareInstruction(c, uses, p).cur = c.cur + 1
<1> DEFINE n == Len(uses)
           all == TouchEach(c, uses, p)
           d == [all EXCEPT !.cur = @ + 1]
           Upon(k) == {uses[j].v : j \in 1 .. k}
<1>1. n \in Nat /\ DOMAIN uses = 1 .. n /\ 1 \in 1 .. n /\ \A k \in 1 .. n : uses[k] \in Uses
  OBVIOUS
<1>2. PrepareInstruction(c, uses, p) = d
  BY <1>1 DEF PrepareInstruction, TouchEach
<1>3. PICK q \in [0 .. n -> Touched(c)] :
        /\ q[0] = c
        /\ \A k \in 1 .. n : q[k] = Touch(q[k - 1], uses[k], p)
        /\ all = q[n]
  <2>1. \E q \in [0 .. Len(uses) -> Touched(c)] :
          /\ q[0] = c
          /\ \A k \in 1 .. Len(uses) : q[k] = Touch(q[k - 1], uses[k], p)
          /\ TouchEach(c, uses, p) = q[Len(uses)]
    BY TouchSteps
  <2> QED
    BY <2>1
<1> HIDE DEF all
<1> DEFINE T == {k \in 0 .. n : Prepared(c, q[k], Upon(k), p)}
<1>4. 0 \in T
  <2>1. Upon(0) = {}
    OBVIOUS
  <2> QED
    BY <1>1, <1>3, <2>1 DEF Prepared
<1>5. ASSUME NEW k \in 0 .. n - 1, k \in T PROVE k + 1 \in T
  <2>1. k \in 0 .. n /\ k + 1 \in 1 .. n /\ k + 1 \in 0 .. n /\ (k + 1) - 1 = k
    BY <1>1
  <2>2. q[k] \in Contexts /\ q[k].cur = c.cur
    BY <1>3, <2>1 DEF Touched
  <2>3. q[k + 1] = Touch(q[k], uses[k + 1], p)
    BY <1>3, <2>1
  <2>4. Prepared(q[k], q[k + 1], {uses[k + 1].v}, p)
    BY <1>1, <2>1, <2>2, <2>3, TouchData
  <2>5. Upon(k + 1) = Upon(k) \cup {uses[k + 1].v}
    <3>1. \A j : j \in 1 .. k + 1 <=> j \in 1 .. k \/ j = k + 1
      BY <2>1
    <3> QED
      BY <3>1
  <2>6. Prepared(c, q[k], Upon(k), p)
    BY <1>5
  <2> HIDE DEF Upon
  <2> DEFINE S == Upon(k)
             v == uses[k + 1].v
             b == q[k]
             e == q[k + 1]
  <2>7. b.cur = c.cur /\ Prepared(c, b, S, p) /\ Prepared(b, e, {v}, p)
    BY <2>2, <2>4, <2>6
  <2> HIDE DEF S, v, b, e
  <2>8. Prepared(c, e, S \cup {v}, p)
    BY <2>7, PreparedMore
  <2>9. Prepared(c, q[k + 1], Upon(k + 1), p)
    BY <2>5, <2>8 DEF S, v, e
  <2> QED
    BY <2>1, <2>9 DEF Upon
<1>6. n \in T
  <2>1. n \in 0 .. n
    BY <1>1
  <2> HIDE DEF T
  <2> QED
    BY <1>1, <1>4, <1>5, <2>1, UpTo
<1>7. Prepared(c, all, {uses[k].v : k \in DOMAIN uses}, p)
  BY <1>1, <1>3, <1>6
<1>8. all \in Contexts /\ all.cur = c.cur
  <2>1. n \in 0 .. n
    BY <1>1
  <2> QED
    BY <1>3, <2>1 DEF Touched
<1>9. d.var = all.var /\ d.cur = c.cur + 1
  BY <1>8 DEF Contexts
<1> QED
  BY <1>2, <1>7, <1>9 DEF Prepared

LEMMA ScopesMore ==
  ASSUME input \in Inputs, NEW c \in Contexts, NEW p \in DOMAIN Program, p < JumpPlace,
         ScopesOpen(c, p)
  PROVE  ScopesOpen(PrepareEmittable(c, p), p + 1)
<1> DEFINE n == input.chains_per_thread
           w == Len(FollowAll)
           l == input.loop_length
           item == Program[p]
           d == PrepareEmittable(c, p)
<1>1. /\ n \in Nat \ {0} /\ l \in Nat /\ w \in Nat /\ Usage(n, w, l) /\ Places(n, w, l)
  BY ProgramUsage, ProgramPlaces
<1>2. /\ p \in Nat /\ p >= 1 /\ item.uses \in Seq(Uses)
  BY PlaceFields
<1> HIDE DEF n, w, l
<1>3. /\ item.op = "prolog" <=> p = 3
      /\ item.op # "jne"
      /\ p <= 3 => item.uses = <<>>
  BY <1>1 DEF Places, Usage
<1>4. c.cur = p - 1 /\ \A v \in Variables : Scope(c, v, p)
  BY DEF ScopesOpen
<1>5. c.var \in [Variables -> VarDatas]
  BY ContextFields
<1>6. \A v \in Variables : /\ c.var[v].work \in Int /\ c.var[v].first \in Int
                           /\ c.var[v].last \in Int /\ c.var[v].ends \in Int
  BY <1>5, VarDataFields
<1>7. \A q \in 1 .. p : q \in 1 .. p - 1 \/ q = p
  BY <1>2
\* A variable that is not used, and whose data stays.
<1>8. ASSUME NEW v \in Variables, v \notin UsedAt(p), d.var[v] = c.var[v]
      PROVE  Scope(d, v, p + 1)
  <2>1. Scope(c, v, p)
    BY <1>4
  <2> QED
    BY <1>2, <1>6, <1>7, <1>8, <2>1 DEF Scope
<1>9. CASE item.uses # <<>>
  <2>1. d = PrepareInstruction(c, item.uses, p)
    BY <1>3, <1>9 DEF PrepareEmittable
  <2>2. \A k \in DOMAIN item.uses : item.uses[k].v \in Variables
    <3>1. \A k \in DOMAIN item.uses : item.uses[k] \in Uses
      BY <1>2
    <3> QED
      BY <3>1 DEF Uses
  <2>3. \A k \in DOMAIN item.uses : c.var[item.uses[k].v].work # c.cur
    <3>1. \A v \in Variables : c.var[v].work < p - 1
      BY <1>4 DEF Scope
    <3> QED
      BY <1>2, <1>4, <1>6, <2>2, <3>1
  <2>4. c.cur # -1 /\ p \in Int
    BY <1>2, <1>4
  <2>5. /\ Prepared(c, PrepareInstruction(c, item.uses, p), {item.uses[k].v : k \in DOMAIN item.uses}, p)
        /\ PrepareInstruction(c, item.uses, p).cur = c.cur + 1
    BY <1>2, <1>9, <2>3, <2>4, InstructionPrepared
  <2>6. Prepared(c, d, UsedAt(p), p) /\ d.cur = p
    BY <1>2, <1>4, <2>1, <2>5 DEF UsedAt
  <2> HIDE DEF d
  <2>7. ASSUME NEW v \in Variables PROVE Scope(d, v, p + 1)
    <3>1. CASE v \notin UsedAt(p)
      BY <1>8, <2>6, <3>1 DEF Prepared, d
    <3>2. CASE v \in UsedAt(p)
      <4>1. Used(c.var[v], d.var[v], p - 1, p)
        BY <1>4, <2>6, <3>2 DEF Prepared
      <4>2. Scope(c, v, p)
        BY <1>4
      <4>3. d.var[v].first < p /\ d.var[v].first # -1
        BY <1>2, <1>6, <4>1, <4>2 DEF Used, Scope
      <4>4. ASSUME NEW q \in 1 .. p - 1, v \in UsedAt(q)
            PROVE  d.var[v].first < q /\ q <= p
        <5>1. c.var[v].first < q /\ c.var[v].first # -1
          BY <4>2, <4>4 DEF Scope
        <5> QED
          BY <1>2, <4>1, <5>1 DEF Used
      <4> DEFINE x == d.var[v]
      <4>5. x.work = p - 1 /\ x.last = p - 1 /\ x.ends = p
        BY <4>1 DEF Used
      <4>6. \A q \in 1 .. p : v \in UsedAt(q) => x.work # -1 /\ x.first < q /\ q <= x.ends
        <5> TAKE q \in 1 .. p
        <5>1. CASE q = p
          BY <1>2, <4>3, <4>5, <5>1
        <5>2. CASE q # p
          BY <1>2, <1>7, <4>4, <4>5, <5>2
        <5> QED
          BY <5>1, <5>2
      <4>7. x.first < p /\ x.first # -1
        BY <4>3
      <4> HIDE DEF x
      <4>8. (p + 1) - 1 = p /\ p \in 1 .. p /\ p - 1 < p
        BY <1>2
      <4>9. Scope(d, v, p + 1) <=>
              /\ x.work < (p + 1) - 1 /\ x.first < (p + 1) - 1
              /\ x.work # -1 => /\ x.first # -1
                                /\ x.ends \in 1 .. (p + 1) - 1
                                /\ v \in UsedAt(x.ends)
                                /\ x.last = x.ends - 1
              /\ \A q \in 1 .. (p + 1) - 1 :
                   v \in UsedAt(q) => x.work # -1 /\ x.first < q /\ q <= x.ends
        BY DEF Scope, x
      <4> QED
        BY <3>2, <4>5, <4>6, <4>7, <4>8, <4>9
    <3> QED
      BY <3>1, <3>2
  <2> QED
    BY <1>2, <2>6, <2>7 DEF ScopesOpen, d
<1>10. CASE item.op = "prolog"
  <2>1. d = PrepareProlog(c, p) /\ p = 3
    BY <1>3, <1>10 DEF PrepareEmittable
  <2>2. Chain \in Variables
    BY DEF Variables
  <2> DEFINE x == [c.var[Chain] EXCEPT !.first = c.cur, !.last = c.cur, !.ends = p]
  <2>3. d.cur = p /\ d.var = [c.var EXCEPT ![Chain] = x]
    BY <1>2, <1>4, <2>1 DEF PrepareProlog, Contexts
  <2>4. x.work = c.var[Chain].work /\ x.first = p - 1
    BY <1>4, <1>5, <2>2 DEF VarDatas
  <2> HIDE DEF x, d
  <2>5. \A q \in 1 .. p : UsedAt(q) = {}
    <3>1. \A q \in 1 .. p : q \in DOMAIN Program /\ q <= 3
      BY <1>1, <2>1 DEF Places
    <3> QED
      BY <1>1, <3>1, NothingUsed DEF Usage
  <2>6. ASSUME NEW v \in Variables PROVE Scope(d, v, p + 1)
    <3>1. CASE v = Chain
      <4>1. c.var[Chain].work = -1
        <5>1. Scope(c, Chain, p)
          BY <1>4, <2>2
        <5>2. \A q \in 1 .. p - 1 : UsedAt(q) = {}
          BY <2>1, <2>5
        <5> QED
          BY <5>1, <5>2 DEF Scope
      <4>2. d.var[v] = x
        BY <1>5, <2>2, <2>3, <3>1
      <4> QED
        BY <1>2, <2>4, <2>5, <4>1, <4>2 DEF Scope
    <3>2. CASE v # Chain
      <4>1. d.var[v] = c.var[v]
        BY <1>5, <2>3, <3>2
      <4>2. v \notin UsedAt(p)
        BY <1>2, <2>5
      <4> QED
        BY <1>8, <4>1, <4>2 DEF d
    <3> QED
      BY <3>1, <3>2
  <2> QED
    BY <1>2, <2>3, <2>6 DEF ScopesOpen, d
<1>11. CASE item.uses = <<>> /\ item.op # "prolog"
  <2>1. d = [c EXCEPT !.cur = @ + 1]
    BY <1>3, <1>11 DEF PrepareEmittable
  <2>2. d.cur = p /\ d.var = c.var
    BY <1>2, <1>4, <2>1 DEF Contexts
  <2>3. UsedAt(p) = {}
    BY <1>11, NothingUsed
  <2> HIDE DEF d
  <2>4. \A v \in Variables : Scope(d, v, p + 1)
    BY <1>8, <2>2, <2>3 DEF d
  <2> QED
    BY <1>2, <2>2, <2>4 DEF ScopesOpen, d
<1> QED
  BY <1>9, <1>10, <1>11

\* The jump prolongs the scopes of those that are used in the loop, and of
\* no others.
LEMMA ScopesProlonged ==
  ASSUME input \in Inputs, NEW c \in Contexts, ScopesOpen(c, JumpPlace)
  PROVE  ScopesSet(PrepareJump(c, JumpPlace))
<1> DEFINE n == input.chains_per_thread
           w == Len(FollowAll)
           l == input.loop_length
           p == JumpPlace
           d == PrepareJump(c, p)
           across == {v \in Active(c) : /\ c.var[v].first <= LoopPlace - 1
                                        /\ c.var[v].last >= LoopPlace - 1}
<1>1. /\ n \in Nat \ {0} /\ l \in Nat /\ w \in Nat /\ Usage(n, w, l)
      /\ DOMAIN Program = 1 .. 2 * n + w + l + 8
  BY ProgramUsage, ProgramPlaces DEF Places
<1> HIDE DEF n, w, l
<1>2. LoopPlace = 2 * n + 4 /\ p = 2 * n + w + l + 6 /\ p \in Nat /\ LoopPlace \in Nat
  BY <1>1 DEF Usage
<1>3. c.var \in [Variables -> VarDatas]
  BY ContextFields
<1>4. \A v \in Variables : /\ c.var[v].work \in Int /\ c.var[v].first \in Int
                           /\ c.var[v].last \in Int /\ c.var[v].ends \in Int
  BY <1>3, VarDataFields
<1>5. \A v \in Variables : Scope(c, v, p)
  BY DEF ScopesOpen
<1> HIDE DEF p
<1>6. ASSUME NEW v \in Variables
      PROVE  d.var[v].ends = IF v \in across THEN p ELSE c.var[v].ends
  <2>1. d.var = [v_1 \in Variables |->
                   IF v_1 \in across THEN [c.var[v_1] EXCEPT !.last = c.cur, !.ends = p]
                   ELSE c.var[v_1]]
    BY <1>3 DEF PrepareJump, Contexts
  <2> HIDE DEF across, d
  <2>2. CASE v \in across
    <3>1. d.var[v] = [c.var[v] EXCEPT !.last = c.cur, !.ends = p]
      BY <2>1, <2>2
    <3> QED
      BY <1>3, <2>2, <3>1 DEF VarDatas
  <2>3. CASE v \notin across
    BY <2>1, <2>3
  <2> QED
    BY <2>2, <2>3
<1>7. Active(c) = {v \in Variables : c.var[v].work # -1}
  BY <1>3 DEF Active
<1> HIDE DEF d
\* A variable whose scope ends early keeps it.
<1>8. ASSUME NEW v \in Variables, NEW e \in 4 .. n + 3, v \in UsedAt(e),
             \A k \in 1 .. p - 1 : v \in UsedAt(k) => k <= e
      PROVE  d.var[v].ends = e
  <2>1. e \in 1 .. p - 1
    BY <1>1, <1>2
  <2>2. c.var[v].ends = e /\ c.var[v].last = e - 1
    BY <1>4, <1>5, <1>8, <2>1 DEF Scope
  <2>3. v \notin across
    BY <1>1, <1>2, <2>2
  <2> QED
    BY <1>6, <2>2, <2>3
<1>9. \A k \in 1 .. p - 1 : \/ k <= 3 /\ UsedAt(k) = {}
                            \/ \E i \in 1 .. n : k = 3 + i /\ UsedAt(k) = {HeadAt(i), Chain}
                            \/ k > n + 3 /\ UsedAt(k) \subseteq Across
  <2> TAKE k \in 1 .. p - 1
  <2>1. CASE k <= 3
    <3>1. k \in DOMAIN Program
      BY <1>1, <1>2
    <3> QED
      BY <1>1, <2>1, <3>1, NothingUsed DEF Usage
  <2>2. CASE k \in 4 .. n + 3
    <3>1. k - 3 \in 1 .. n /\ k = 3 + (k - 3)
      BY <1>1, <2>2
    <3> QED
      BY <1>1, <3>1 DEF Usage
  <2>3. CASE k \in n + 4 .. 2 * n + 3
    <3>1. k - (n + 3) \in 1 .. n /\ k = n + 3 + (k - (n + 3)) /\ k > n + 3
      BY <1>1, <2>3
    <3>2. UsedAt(n + 3 + (k - (n + 3))) = {Position(k - (n + 3)), HeadAt(1)}
      BY <1>1, <3>1 DEF Usage
    <3>3. UsedAt(k) = {Position(k - (n + 3)), HeadAt(1)}
      BY <3>1, <3>2
    <3> QED
      BY <3>1, <3>3 DEF Across, n
  <2>4. CASE k \in LoopPlace .. p
    <3>1. k > n + 3
      BY <1>1, <1>2, <2>4
    <3> QED
      BY <1>1, <2>4, <3>1 DEF Usage, p
  <2> QED
    BY <1>1, <1>2, <2>1, <2>2, <2>3, <2>4
<1>10. d.var[Chain].ends = n + 3
  <2>1. Chain \in Variables /\ Chain \notin Across
    BY VariablesDiffer DEF Variables, Across
  <2>2. Chain \in UsedAt(n + 3) /\ n + 3 \in 4 .. n + 3
    <3>1. n \in 1 .. n /\ n + 3 = 3 + n
      BY <1>1
    <3> QED
      BY <1>1, <3>1 DEF Usage
  <2>3. \A k \in 1 .. p - 1 : Chain \in UsedAt(k) => k <= n + 3
    BY <1>1, <1>9, <2>1
  <2> QED
    BY <1>8, <2>1, <2>2, <2>3
<1>11. ASSUME NEW i \in 2 .. n PROVE d.var[HeadAt(i)].ends = i + 3
  <2>1. HeadAt(i) \in Variables /\ HeadAt(i) \notin Across /\ HeadAt(i) # Chain /\ i \in 1 .. n
    BY <1>1, VariablesDiffer DEF Variables, Across, n
  <2>2. HeadAt(i) \in UsedAt(i + 3) /\ i + 3 \in 4 .. n + 3
    <3>1. i + 3 = 3 + i
      OBVIOUS
    <3> QED
      BY <1>1, <2>1, <3>1 DEF Usage
  <2>3. \A k \in 1 .. p - 1 : HeadAt(i) \in UsedAt(k) => k <= i + 3
    <3> TAKE k \in 1 .. p - 1
    <3> HAVE HeadAt(i) \in UsedAt(k)
    <3>1. PICK j \in 1 .. n : k = 3 + j /\ UsedAt(k) = {HeadAt(j), Chain}
      BY <1>9, <2>1
    <3>2. j = i
      BY <2>1, <3>1, VariablesDiffer
    <3> QED
      BY <3>1, <3>2
  <2> QED
    BY <1>8, <2>1, <2>2, <2>3
<1>12. ASSUME NEW v \in Across PROVE d.var[v].ends \notin LoopPlace .. p - 1
  <2>1. v \in Variables
    <3>1. 1 \in 1 .. n
      BY <1>1
    <3> QED
      BY <3>1 DEF Variables, Across, n
  <2>2. CASE v \in across
    BY <1>2, <1>6, <2>1, <2>2
  <2>3. CASE v \notin across
    <3>1. d.var[v].ends = c.var[v].ends
      BY <1>6, <2>1, <2>3
    <3>2. PICK q \in 1 .. LoopPlace - 1 : v \in UsedAt(q)
      <4>1. CASE v = HeadAt(1)
        <5>1. 1 \in 1 .. n /\ 3 + 1 \in 1 .. LoopPlace - 1
          BY <1>1, <1>2
        <5> QED
          BY <1>1, <4>1, <5>1 DEF Usage
      <4>2. CASE \E i \in 1 .. n : v = Position(i)
        <5>1. PICK i \in 1 .. n : v = Position(i)
          BY <4>2
        <5>2. n + 3 + i \in 1 .. LoopPlace - 1
          BY <1>1, <1>2
        <5> QED
          BY <1>1, <5>1, <5>2 DEF Usage
      <4> QED
        BY <4>1, <4>2 DEF Across, n
    <3>3. q \in 1 .. p - 1
      BY <1>1, <1>2
    <3>4. c.var[v].work # -1 /\ c.var[v].first < q
      BY <1>5, <2>1, <3>2, <3>3 DEF Scope
    <3>5. c.var[v].first <= LoopPlace - 1 /\ v \in Active(c) /\ c.var[v].last = c.var[v].ends - 1
      BY <1>2, <1>4, <1>5, <1>7, <2>1, <3>2, <3>4 DEF Scope
    <3>6. ~ c.var[v].last >= LoopPlace - 1
      BY <2>3, <3>5
    <3> QED
      BY <1>2, <1>4, <2>1, <3>1, <3>5, <3>6
  <2> QED
    BY <2>2, <2>3
<1> QED
  BY <1>10, <1>11, <1>12 DEF ScopesSet, n, p, d

-----------------------------------------------------------------------------
(* The allocator as long as the registers do.                              *)

LEMMA StaysUnspilled ==
  ASSUME NEW c, Unspilled(c), NEW d,
         d.frame = c.frame, d.error = c.error, d.code = c.code,
         \A v \in Variables : d.var[v].state \in {c.var[v].state, "register", "unused"}
  PROVE  Unspilled(d)
BY DEF Unspilled

LEMMA QuietUnspilled ==
  ASSUME NEW c, Unspilled(c), NEW d, Quiet(c, d)
  PROVE  Unspilled(d)
BY StaysUnspilled DEF Quiet, Placed

\* What the allocator does when it has a register for everyone.
Calm(c, d) ==
  /\ Unspilled(d) /\ d.code = c.code
  /\ \A r \in Registers : c.gp[r] # NoVariable => d.gp[r] = c.gp[r]
  /\ \A v \in Variables : d.var[v].ends = c.var[v].ends

LEMMA CalmStill ==
  ASSUME NEW a, NEW b, NEW c, Calm(a, b), Calm(b, c)
  PROVE  Calm(a, c)
BY DEF Calm

\* Who is in a register is in it later.
LEMMA CalmKeeps ==
  ASSUME NEW c, Sound(c), NEW d, Sound(d), Calm(c, d), NEW v \in Variables,
         c.var[v].register # NoRegister
  PROVE  d.var[v].register # NoRegister
<1>1. c.var[v].register \in Registers /\ c.gp[c.var[v].register] = v
  BY ContextFields, VarDataFields DEF Sound, Matched
<1>2. d.gp[c.var[v].register] = v /\ v # NoVariable
  BY <1>1, NoVariableIsNone DEF Calm
<1>3. d.var[v].register = c.var[v].register
  BY <1>1, <1>2 DEF Sound, Matched
<1> QED
  BY <1>3

LEMMA OccupyCalm ==
  ASSUME NEW c, Sound(c), Unspilled(c), NEW v \in Variables, c.var[v].state # "register",
         NEW r \in Allocatable \ c.used, NEW how
  PROVE  LET d == Occupy(c, v, r, how)
         IN  /\ Calm(c, d) /\ d.gp = [c.gp EXCEPT ![r] = v]
             /\ d.var[v].state = "register"
<1> DEFINE w == [c.var[v] EXCEPT !.state = "register", !.register = r, !.home = r]
           d == [c EXCEPT !.var[v] = w, !.gp[r] = v, !.used = @ \cup {r},
                          !.modified = @ \cup {r}]
<1>1. c \in Contexts /\ r \in Registers /\ c.var[v].state # "memory"
  BY DEF Sound, Allocatable, Unspilled
<1>2. Occupy(c, v, r, how) = d
  BY <1>1 DEF Occupy
<1>3. /\ c.var \in [Variables -> VarDatas] /\ c.gp \in [Registers -> Variables \cup {NoVariable}]
  BY <1>1, ContextFields
<1>4. w.state = "register" /\ w.ends = c.var[v].ends
  BY <1>3 DEF VarDatas
<1> HIDE DEF w
<1>5. /\ d.gp = [c.gp EXCEPT ![r] = v]
      /\ d.var = [c.var EXCEPT ![v] = w]
      /\ d.error = c.error /\ d.code = c.code /\ d.frame = c.frame
  BY <1>1 DEF Contexts
<1> HIDE DEF d
<1>6. d.var[v] = w /\ \A u \in Variables \ {v} : d.var[u] = c.var[u]
  BY <1>3, <1>5
<1>7. Unspilled(d)
  <2>1. \A u \in Variables : d.var[u].state \in {c.var[u].state, "register", "unused"}
    <3> TAKE u \in Variables
    <3>1. CASE u = v
      BY <1>4, <1>6, <3>1
    <3>2. CASE u # v
      BY <1>6, <3>2
    <3> QED
      BY <3>1, <3>2
  <2> QED
    BY <1>5, <2>1, StaysUnspilled
<1>8. c.gp[r] = NoVariable
  BY <1>1 DEF Sound, Matched
<1>9. \A q \in Registers : c.gp[q] # NoVariable => d.gp[q] = c.gp[q]
  BY <1>3, <1>5, <1>8
<1> QED
  BY <1>2, <1>4, <1>5, <1>6, <1>7, <1>9 DEF Calm

\* There is no register for another variable when all are taken.
LEMMA NoRegisterFree ==
  ASSUME NEW c, NEW v, FreeRegister(c, v) = NoRegister
  PROVE  Allocatable \subseteq c.used
<1> DEFINE home == c.var[v].home
           free == Registers \ (c.used \cup {EAX, ESP, EBP})
           S == IF free \subseteq Preserved THEN free ELSE free \ Preserved
<1>1. home \notin Registers \ c.used
  <2> SUFFICES ASSUME home \in Registers \ c.used PROVE FALSE
    OBVIOUS
  <2>1. FreeRegister(c, v) = home
    BY DEF FreeRegister
  <2> QED
    BY <2>1 DEF Registers, NoRegister
<1>2. free = {}
  <2> SUFFICES ASSUME free # {} PROVE FALSE
    OBVIOUS
  <2>1. FreeRegister(c, v) = Least(S)
    BY <1>1 DEF FreeRegister
  <2>2. S \in SUBSET Registers /\ S # {}
    OBVIOUS
  <2>3. Least(S) \in Registers
    BY <2>2, LeastInSet
  <2> QED
    BY <2>1, <2>3 DEF Registers, NoRegister
<1>3. EAX \in c.used
  BY <1>1, <1>2 DEF FreeRegister, EAX, NoRegister
<1> QED
  BY <1>2, <1>3 DEF Allocatable

LEMMA AllocatableCount == IsFiniteSet(Allocatable) /\ Cardinality(Allocatable) = 14
<1>1. IsFiniteSet(Registers) /\ Cardinality(Registers) = 16
  <2> DEFINE a == 0
             b == 15
  <2>1. a \in Int /\ b \in Int /\ ~(a > b) /\ b - a + 1 = 16
    OBVIOUS
  <2> HIDE DEF a, b
  <2>2. IsFiniteSet(a .. b) /\ Cardinality(a .. b) = 16
    BY <2>1, FS_Interval
  <2>3. Registers = a .. b
    BY DEF Registers, a, b
  <2> QED
    BY <2>2, <2>3
<1>2. ESP \in Registers /\ EBP \in Registers \ {ESP}
  BY DEF Registers, ESP, EBP
<1>3. IsFiniteSet(Registers \ {ESP}) /\ Cardinality(Registers \ {ESP}) = 15
  BY <1>1, <1>2, FS_RemoveElement
<1>4. /\ IsFiniteSet((Registers \ {ESP}) \ {EBP})
      /\ Cardinality((Registers \ {ESP}) \ {EBP}) = 14
  BY <1>2, <1>3, FS_RemoveElement
<1>5. Allocatable = (Registers \ {ESP}) \ {EBP}
  BY DEF Allocatable
<1> QED
  BY <1>4, <1>5

\* The variables that may be in registers are so few that, if there is no
\* register for one of them, the function has many chains.
Few(L) ==
  /\ L \subseteq Variables /\ IsFiniteSet(L)
  /\ Cardinality(L) >= 15 => input.chains_per_thread >= 14

LEMMA NoRoom ==
  ASSUME NEW c, Sound(c), NEW L, Few(L), Within(c, L), NEW v \in L,
         c.var[v].state # "register", FreeRegister(c, v) = NoRegister
  PROVE  Crowd(c)
<1>1. Allocatable \subseteq c.used /\ Allocatable \subseteq Registers
  BY NoRegisterFree DEF Allocatable
<1>2. \A r \in Allocatable : c.gp[r] # NoVariable /\ c.var[c.gp[r]].register = r
  BY <1>1 DEF Sound, Matched
<1>3. \A r \in Allocatable : c.gp[r] \in L
  BY <1>1, <1>2 DEF Within
<1>4. \A r \in Allocatable : c.gp[r] # v
  <2> SUFFICES ASSUME NEW r \in Allocatable, c.gp[r] = v PROVE FALSE
    OBVIOUS
  <2>1. c.var[v].register = r /\ r # NoRegister
    BY <1>1, <1>2 DEF Registers, NoRegister
  <2>2. v \in Variables
    BY DEF Few
  <2> QED
    BY <2>1, <2>2 DEF Sound, Matched
<1> DEFINE M == L \ {v}
           f == [r \in Allocatable |-> c.gp[r]]
<1>5. f \in [Allocatable -> M]
  BY <1>3, <1>4
<1>6. \A r, q \in Allocatable : f[r] = f[q] => r = q
  BY <1>2
<1>7. f \in Injection(Allocatable, M)
  <2> HIDE DEF f, M
  <2> QED
    BY <1>5, <1>6 DEF Injection, IsInjective
<1>8. IsFiniteSet(M) /\ Cardinality(M) = Cardinality(L) - 1
  BY FS_RemoveElement DEF Few
<1>9. Cardinality(L) \in Nat
  BY FS_CardinalityType DEF Few
<1>10. 14 <= Cardinality(M)
  <2> HIDE DEF f, M
  <2> QED
    BY <1>7, <1>8, FS_Injection, AllocatableCount
<1>11. Cardinality(L) >= 15
  BY <1>8, <1>9, <1>10
<1>12. c.used \subseteq c.modified
  BY DEF Sound, Marked
<1> QED
  BY <1>1, <1>11, <1>12 DEF Few, Crowd

LEMMA CrowdLater ==
  ASSUME NEW c, NEW d, c.modified \subseteq d.modified, Crowd(c)
  PROVE  Crowd(d)
BY DEF Crowd

\* Either the registers are all taken, or the variable is in one.
Ready(c, d, L, v) ==
  Crowd(d) \/ (Calm(c, d) /\ Within(d, L) /\ d.var[v].register # NoRegister)

LEMMA AllocGPVarReady ==
  ASSUME NEW c, Sound(c), Unspilled(c), NEW L, Few(L), Within(c, L),
         NEW use \in Uses, use.v \in L
  PROVE  Ready(c, AllocGPVar(c, use), L, use.v)
<1> DEFINE v == use.v
           free == FreeRegister(c, v)
           d == AllocGPVar(c, use)
<1>1. c \in Contexts /\ v \in Variables
  BY DEF Sound, Uses
<1>2. CASE c.var[v].state = "register"
  <2>1. d = c
    BY <1>2 DEF AllocGPVar
  <2>2. c.var[v].register # NoRegister
    BY <1>1, <1>2 DEF Sound, Matched
  <2> QED
    BY <2>1, <2>2 DEF Ready, Calm
<1>3. CASE c.var[v].state # "register" /\ free # NoRegister
  <2>1. d = Occupy(c, v, free, use.how)
    BY <1>3 DEF AllocGPVar
  <2>2. free \in Allocatable \ c.used
    BY <1>1, <1>3, FreeRegisterFree
  <2> HIDE DEF free, v, d
  <2>3. Sound(d)
    BY <1>1, <1>3, <2>1, <2>2, OccupyLater DEF Occupied, Later
  <2>4. Calm(c, d) /\ d.gp = [c.gp EXCEPT ![free] = v] /\ d.var[v].state = "register"
    BY <1>1, <1>3, <2>1, <2>2, OccupyCalm
  <2>5. d.var[v].register # NoRegister
    BY <1>1, <2>3, <2>4 DEF Sound, Matched
  <2>6. Within(d, L)
    <3>1. c.gp \in [Registers -> Variables \cup {NoVariable}] /\ free \in Registers
      BY <1>1, <2>2, ContextFields DEF Allocatable
    <3>2. v \in L
      BY DEF v
    <3> QED
      BY <2>4, <3>1, <3>2 DEF Within
  <2> QED
    BY <2>4, <2>5, <2>6 DEF Ready, v, d
<1>4. CASE c.var[v].state # "register" /\ free = NoRegister
  <2>1. Crowd(c)
    BY <1>4, NoRoom
  <2>2. c.modified \subseteq d.modified
    BY AllocGPVarLater DEF Later
  <2> QED
    BY <2>1, <2>2, CrowdLater DEF Ready
<1> QED
  BY <1>2, <1>3, <1>4

LEMMA AllocVarReady ==
  ASSUME NEW c, Sound(c), Unspilled(c), NEW L, Few(L), Within(c, L),
         NEW use \in Uses, use.v \in L
  PROVE  Ready(c, AllocVar(c, use), L, use.v)
<1> DEFINE v == use.v
           b == AllocGPVar(c, use)
           w == [b.var[v] EXCEPT !.changed = TRUE]
           d == [b EXCEPT !.var[v] = w]
<1>1. Sound(b) /\ Ready(c, b, L, v)
  BY AllocGPVarReady, AllocGPVarLater DEF Later
<1>2. AllocVar(c, use) \in {b, d}
  BY DEF AllocVar
<1> HIDE DEF b
<1>3. b \in Contexts /\ v \in Variables /\ b.var \in [Variables -> VarDatas]
  BY <1>1, ContextFields DEF Sound, Uses
<1>4. w.state = b.var[v].state /\ w.register = b.var[v].register /\ w.ends = b.var[v].ends
  BY <1>3 DEF VarDatas
<1> HIDE DEF w, v
<1>5. /\ d.gp = b.gp /\ d.error = b.error /\ d.frame = b.frame /\ d.code = b.code
      /\ d.modified = b.modified /\ d.var = [b.var EXCEPT ![v] = w]
  BY <1>3 DEF Contexts
<1> HIDE DEF d
<1>6. \A u \in Variables : /\ d.var[u].state = b.var[u].state
                           /\ d.var[u].register = b.var[u].register
                           /\ d.var[u].ends = b.var[u].ends
  <2> TAKE u \in Variables
  <2>1. CASE u = v
    BY <1>3, <1>4, <1>5, <2>1
  <2>2. CASE u # v
    BY <1>3, <1>5, <2>2
  <2> QED
    BY <2>1, <2>2
<1>7. CASE Crowd(b)
  <2>1. Crowd(d)
    BY <1>5, <1>7 DEF Crowd
  <2> QED
    BY <1>2, <1>7, <2>1 DEF Ready
<1>8. CASE ~Crowd(b)
  <2>1. Calm(c, b) /\ Within(b, L) /\ b.var[v].register # NoRegister
    BY <1>1, <1>8 DEF Ready
  <2>2. Unspilled(d)
    <3>1. Unspilled(b)
      BY <2>1 DEF Calm
    <3> QED
      BY <1>5, <1>6, <3>1, StaysUnspilled
  <2>3. Calm(c, d)
    BY <1>5, <1>6, <2>1, <2>2 DEF Calm
  <2>4. Within(d, L) /\ d.var[v].register # NoRegister
    BY <1>3, <1>5, <1>6, <2>1 DEF Within
  <2> QED
    BY <1>1, <1>2, <2>3, <2>4 DEF Ready, v
<1> QED
  BY <1>7, <1>8

\* All the variables of an instruction.
AllReady(c, d, L, uses) ==
  \/ Crowd(d)
  \/ /\ Calm(c, d) /\ Within(d, L)
     /\ \A k \in DOMAIN uses : d.var[uses[k].v].register # NoRegister

LEMMA AllocEachReady ==
  ASSUME NEW c, Sound(c), Unspilled(c), NEW L, Few(L), Within(c, L),
         NEW uses \in Seq(Uses), \A k \in DOMAIN uses : uses[k].v \in L
  PROVE  AllReady(c, AllocEach(c, uses), L, uses)
<1> DEFINE n == Len(uses)
           Upon(d, k) == \A j \in 1 .. k : d.var[uses[j].v].register # NoRegister
<1>1. /\ n \in Nat /\ DOMAIN uses = 1 .. n
      /\ \A k \in 1 .. n : uses[k] \in Uses /\ uses[k].v \in L /\ uses[k].v \in Variables
  BY DEF Few
<1>2. PICK q \in [0 .. n -> After(c)] :
        /\ q[0] = c
        /\ \A k \in 1 .. n : q[k] = AllocVar(q[k - 1], uses[k])
        /\ AllocEach(c, uses) = q[n]
  BY AllocSteps
<1> HIDE DEF n
<1> DEFINE Good(k) == Crowd(q[k]) \/ (Calm(c, q[k]) /\ Within(q[k], L) /\ Upon(q[k], k))
           T == {k \in 0 .. n : Good(k)}
<1>3. 0 \in T
  <2>1. Calm(c, c)
    BY DEF Calm
  <2> QED
    BY <1>1, <1>2, <2>1
<1>4. ASSUME NEW k \in 0 .. n - 1, k \in T PROVE k + 1 \in T
  <2>1. k \in 0 .. n /\ k + 1 \in 1 .. n /\ k + 1 \in 0 .. n /\ (k + 1) - 1 = k
    BY <1>1
  <2> DEFINE b == q[k]
             d == q[k + 1]
             use == uses[k + 1]
  <2>2. Sound(b) /\ Sound(d) /\ d = AllocVar(b, use)
    BY <1>2, <2>1 DEF After, Later
  <2>3. use \in Uses /\ use.v \in L /\ \A j \in 1 .. k : uses[j].v \in Variables
    BY <1>1, <2>1
  <2>4. Good(k) <=> Crowd(b) \/ (Calm(c, b) /\ Within(b, L) /\ Upon(b, k))
    OBVIOUS
  <2>5. Good(k + 1) <=> Crowd(d) \/ (Calm(c, d) /\ Within(d, L) /\ Upon(d, k + 1))
    OBVIOUS
  <2>6. Good(k)
    BY <1>4
  <2>7. \A j \in 1 .. k + 1 : j \in 1 .. k \/ uses[j] = use
    BY <2>1
  <2> HIDE DEF b, d, Good, use
  <2>8. CASE Crowd(b)
    <3>1. b.modified \subseteq d.modified
      BY <2>2, <2>3, AllocVarLater DEF Later
    <3> QED
      BY <2>1, <2>5, <2>8, <3>1, CrowdLater
  <2>9. CASE ~Crowd(b)
    <3>1. Calm(c, b) /\ Within(b, L) /\ Upon(b, k)
      BY <2>4, <2>6, <2>9
    <3>2. Ready(b, d, L, use.v)
      BY <2>2, <2>3, <3>1, AllocVarReady DEF Calm
    <3>3. CASE Crowd(d)
      BY <2>1, <2>5, <3>3
    <3>4. CASE ~Crowd(d)
      <4>1. Calm(b, d) /\ Within(d, L) /\ d.var[use.v].register # NoRegister
        BY <3>2, <3>4 DEF Ready
      <4>2. Calm(c, d)
        BY <3>1, <4>1, CalmStill
      <4>3. ASSUME NEW j \in 1 .. k PROVE d.var[uses[j].v].register # NoRegister
        <5>1. b.var[uses[j].v].register # NoRegister /\ uses[j].v \in Variables
          BY <2>3, <3>1
        <5> QED
          BY <2>2, <4>1, <5>1, CalmKeeps
      <4>4. Upon(d, k + 1)
        BY <2>7, <4>1, <4>3
      <4> QED
        BY <2>1, <2>5, <4>1, <4>2, <4>4
    <3> QED
      BY <3>3, <3>4
  <2> QED
    BY <2>8, <2>9
<1>5. n \in T
  <2>1. n \in 0 .. n
    BY <1>1
  <2> HIDE DEF T
  <2> QED
    BY <1>1, <1>3, <1>4, <2>1, UpTo
<1> QED
  BY <1>1, <1>2, <1>5 DEF AllReady

LEMMA UnuseCalm ==
  ASSUME NEW c, Sound(c), Unspilled(c), NEW gone \in SUBSET Variables
  PROVE  LET d == UnuseVars(c, gone)
         IN  /\ Unspilled(d) /\ d.code = c.code
             /\ \A r \in Registers :
                  d.gp[r] = IF c.gp[r] \in gone THEN NoVariable ELSE c.gp[r]
             /\ \A v \in Variables : d.var[v].ends = c.var[v].ends
<1> DEFINE d == UnuseVars(c, gone)
           freed == {c.var[v].register : v \in gone}
<1>1. c \in Contexts /\ Matched(c) /\ c.var \in [Variables -> VarDatas]
  BY ContextFields DEF Sound
<1>2. /\ d.gp = [r \in Registers |-> IF r \in freed THEN NoVariable ELSE c.gp[r]]
      /\ d.var = Forgotten(c, gone, "unused")
      /\ d.error = c.error /\ d.frame = c.frame /\ d.code = c.code
  BY <1>1, ForgetFields DEF UnuseVars
<1> HIDE DEF d, freed
<1>3. \A v \in Variables : d.var[v].ends = c.var[v].ends
                           /\ d.var[v].state \in {c.var[v].state, "unused"}
  <2> TAKE v \in Variables
  <2>1. CASE v \in gone
    <3>1. d.var[v] = [c.var[v] EXCEPT !.state = "unused", !.register = NoRegister,
                                      !.changed = FALSE]
      BY <1>2, <2>1 DEF Forgotten
    <3> QED
      BY <1>1, <3>1 DEF VarDatas
  <2>2. CASE v \notin gone
    BY <1>2, <2>2 DEF Forgotten
  <2> QED
    BY <2>1, <2>2
<1>4. Unspilled(d)
  BY <1>2, <1>3, StaysUnspilled
<1>5. ASSUME NEW r \in Registers
      PROVE  d.gp[r] = IF c.gp[r] \in gone THEN NoVariable ELSE c.gp[r]
  <2>1. CASE c.gp[r] \in gone
    <3>1. c.var[c.gp[r]].register = r
      BY <1>1, <2>1, NoVariableIsNone DEF Matched
    <3>2. r \in freed
      BY <2>1, <3>1 DEF freed
    <3> QED
      BY <1>2, <2>1, <3>2
  <2>2. CASE c.gp[r] \notin gone
    <3>1. r \notin freed
      <4> SUFFICES ASSUME r \in freed PROVE FALSE
        OBVIOUS
      <4>1. PICK v \in gone : c.var[v].register = r
        BY DEF freed
      <4>2. r # NoRegister
        BY DEF Registers, NoRegister
      <4>3. c.gp[r] = v
        BY <1>1, <4>1, <4>2 DEF Matched
      <4> QED
        BY <2>2, <4>3
    <3> QED
      BY <1>2, <2>2, <3>1
  <2> QED
    BY <2>1, <2>2
<1> QED
  BY <1>2, <1>3, <1>4, <1>5 DEF d

LEMMA AppendUnspilled ==
  ASSUME NEW c \in Contexts, Unspilled(c), NEW op \in Ops, NEW uses \in Seq(Uses),
         \A k \in DOMAIN uses : c.var[uses[k].v].register # NoRegister
  PROVE  Unspilled(AppendCode(c, op, uses))
<1> DEFINE regs == [k \in DOMAIN uses |-> c.var[uses[k].v].register]
           item == [op |-> op, uses |-> uses, regs |-> regs]
           d == [c EXCEPT !.code = Append(c.code, item)]
<1>1. AppendCode(c, op, uses) = d
  BY DEF AppendCode
<1>2. op \notin {"save", "load"} /\ item.op = op
  BY DEF Ops
<1>3. ~Unplaced(item)
  BY DEF Unplaced
<1>4. c.code \in Seq(Items)
  BY ContextFields
<1> HIDE DEF item
<1>5. /\ d.var = c.var /\ d.error = c.error /\ d.frame = c.frame
      /\ d.code = Append(c.code, item)
  BY DEF Contexts
<1> HIDE DEF d
<1>6. ASSUME NEW k \in DOMAIN d.code
      PROVE  d.code[k].op \notin {"save", "load"} /\ ~Unplaced(d.code[k])
  <2>1. d.code[k] = item \/ (k \in DOMAIN c.code /\ d.code[k] = c.code[k])
    BY <1>4, <1>5
  <2> QED
    BY <1>2, <1>3, <2>1 DEF Unspilled
<1> QED
  BY <1>1, <1>5, <1>6 DEF Unspilled

LEMMA AppendSame ==
  ASSUME NEW c \in Contexts, NEW op, NEW uses
  PROVE  LET d == AppendCode(c, op, uses)
         IN  d.gp = c.gp /\ d.var = c.var /\ d.modified = c.modified
BY DEF AppendCode, Contexts

LEMMA AllocVariablesCalm ==
  ASSUME NEW c, Sound(c), Unspilled(c), c.used = {}
  PROVE  Calm(c, AllocVariables(c)) /\ Within(AllocVariables(c), {Chain})
<1> DEFINE taken == Occupy(c, Chain, ArgRegister, {})
           w == [taken.var[Chain] EXCEPT !.changed = TRUE, !.home = NoRegister]
           d == [taken EXCEPT !.var[Chain] = w]
<1>1. Chain \in Variables /\ ArgRegister \in Allocatable \ c.used /\ ArgRegister \in Registers
  BY DEF Variables, ArgRegister, Allocatable, Registers, ESP, EBP
<1>2. c \in Contexts /\ Matched(c) /\ \A r \in Registers : c.gp[r] = NoVariable
  BY DEF Sound, Matched
<1>3. c.var[Chain].state # "register"
  <2>1. c.var[Chain].register \in Registers \cup {NoRegister}
    BY <1>1, <1>2, ContextFields, VarDataFields
  <2>2. c.var[Chain].register = NoRegister
    BY <1>1, <1>2, <2>1, NoVariableIsNone DEF Matched
  <2> QED
    BY <1>1, <1>2, <2>2 DEF Matched
<1>4. taken \in Contexts
  BY <1>1, <1>3, OccupyLater DEF Occupied, Later, Sound
<1>5. Calm(c, taken) /\ taken.gp = [c.gp EXCEPT ![ArgRegister] = Chain]
  BY <1>1, <1>3, OccupyCalm
<1> HIDE DEF taken
<1>6. taken.var \in [Variables -> VarDatas] /\ c.gp \in [Registers -> Variables \cup {NoVariable}]
  BY <1>2, <1>4, ContextFields
<1>7. AllocVariables(c) = d
  <2>1. AllocVariables(c) =
          [taken EXCEPT !.var[Chain].changed = TRUE, !.var[Chain].home = NoRegister]
    BY DEF AllocVariables, taken
  <2> QED
    BY <1>1, <1>4, <1>6, <2>1 DEF Contexts
<1>8. w.state = taken.var[Chain].state /\ w.ends = taken.var[Chain].ends
  BY <1>1, <1>6 DEF VarDatas
<1> HIDE DEF w
<1>9. /\ d.gp = taken.gp /\ d.var = [taken.var EXCEPT ![Chain] = w]
      /\ d.error = taken.error /\ d.frame = taken.frame /\ d.code = taken.code
  BY <1>4 DEF Contexts
<1> HIDE DEF d
<1>10. \A v \in Variables : d.var[v].state = taken.var[v].state
                            /\ d.var[v].ends = taken.var[v].ends
  <2> TAKE v \in Variables
  <2>1. CASE v = Chain
    BY <1>6, <1>8, <1>9, <2>1
  <2>2. CASE v # Chain
    BY <1>6, <1>9, <2>2
  <2> QED
    BY <2>1, <2>2
<1>11. Unspilled(d)
  <2>1. Unspilled(taken)
    BY <1>5 DEF Calm
  <2> QED
    BY <1>9, <1>10, <2>1, StaysUnspilled
<1>12. Calm(taken, d)
  <2> HIDE DEF Unspilled
  <2> QED
    BY <1>9, <1>10, <1>11 DEF Calm
<1>13. Calm(c, d)
  BY <1>5, <1>12, CalmStill
<1>14. Within(d, {Chain})
  BY <1>1, <1>2, <1>5, <1>6, <1>9 DEF Within
<1> QED
  BY <1>7, <1>13, <1>14

-----------------------------------------------------------------------------
(* The emittables as long as the registers do.                             *)

LEMMA EndsMarked ==
  ASSUME NEW c \in Contexts, NEW uses \in Seq(Uses), uses # <<>>, NEW v \in Variables
  PROVE  MarkAtWork(c, uses).var[v].ends = c.var[v].ends
<1> DEFINE u == uses[1].v
           w == [c.var[u] EXCEPT !.work = c.cur]
           d == [c EXCEPT !.var[u] = w]
<1>1. u \in Variables
  <2>1. uses[1] \in Uses
    OBVIOUS
  <2> QED
    BY <2>1 DEF Uses
<1>2. c.var \in [Variables -> VarDatas]
  BY ContextFields
<1>3. w.ends = c.var[u].ends
  BY <1>1, <1>2 DEF VarDatas
<1>4. MarkAtWork(c, uses) = d
  BY DEF MarkAtWork
<1> HIDE DEF w, u
<1>5. d.var = [c.var EXCEPT ![u] = w]
  BY DEF Contexts
<1> HIDE DEF d
<1>6. CASE v = u
  BY <1>1, <1>2, <1>3, <1>4, <1>5, <1>6
<1>7. CASE v # u
  BY <1>2, <1>4, <1>5, <1>7
<1> QED
  BY <1>6, <1>7

\* The variables whose scope the emittable at place i ends.
Ending(c, i) == {v \in UsedAt(i) : c.var[v].ends = i}

SameEnds(c, d) == \A v \in Variables : d.var[v].ends = c.var[v].ends

\* The emittable at place i was translated with no need to spill.
Smooth(c, d, L, i) ==
  /\ Unspilled(d) /\ SameEnds(c, d)
  /\ Within(d, L \ Ending(c, i))
  /\ \A r \in Registers :
       c.gp[r] \notin Ending(c, i) \cup {NoVariable} => d.gp[r] = c.gp[r]

LEMMA UsedVariables ==
  ASSUME input \in Inputs, NEW i \in DOMAIN Program
  PROVE  UsedAt(i) \subseteq Variables
<1>1. Program[i].uses \in Seq(Uses)
  BY PlaceFields
<1>2. \A k \in DOMAIN Program[i].uses : Program[i].uses[k] \in Uses
  BY <1>1
<1> QED
  BY <1>2 DEF UsedAt, Uses

LEMMA InstructionSmooth ==
  ASSUME input \in Inputs, Sound(cc), Unspilled(cc), NEW i \in DOMAIN Program,
         Program[i].uses # <<>>, NEW L, Few(L), Within(cc, L), UsedAt(i) \subseteq L
  PROVE  Crowd(TranslateInstruction(i)) \/ Smooth(cc, TranslateInstruction(i), L, i)
<1> DEFINE uses == Program[i].uses
           op == Program[i].op
           S == {uses[k].v : k \in DOMAIN uses}
           a == At(i)
           b == MarkAtWork(a, uses)
           ready == AllocEach(b, uses)
           e == AppendCode(ready, op, uses)
           gone == {v \in S : e.var[v].ends = i}
           d == UnuseVars(e, gone)
<1>1. uses \in Seq(Uses) /\ op \in Ops /\ i \in Int
  BY PlaceFields
<1>2. TranslateInstruction(i) = d
  BY DEF TranslateInstruction, AllocEach, EndScopes
<1>3. S = UsedAt(i) /\ S \subseteq Variables /\ \A k \in DOMAIN uses : uses[k].v \in L
  BY UsedVariables DEF UsedAt
<1>4. /\ a \in Contexts /\ Quiet(cc, a) /\ Sound(a) /\ SameEnds(cc, a)
  <2>1. cc.var = a.var
    BY DEF At, Sound, Contexts
  <2> QED
    BY <1>1, <2>1, AtLater DEF Later, SameEnds
<1> HIDE DEF a
<1>5. /\ b \in Contexts /\ Quiet(a, b) /\ Sound(b) /\ SameEnds(a, b)
  BY <1>1, <1>4, MarkAtWorkQuiet, QuietLater, EndsMarked DEF Later, SameEnds
<1>6. Unspilled(b) /\ Within(b, L) /\ SameEnds(cc, b) /\ b.gp = cc.gp
  <2>1. b.gp = cc.gp
    BY <1>4, <1>5 DEF Quiet, Placed
  <2> QED
    BY <1>4, <1>5, <2>1, QuietUnspilled DEF Within, SameEnds
<1> HIDE DEF b, uses, op
<1>7. Sound(ready) /\ AllReady(b, ready, L, uses)
  BY <1>1, <1>3, <1>5, <1>6, AllocEachReady, AllocAllLater DEF Later
<1> HIDE DEF ready
<1>8. e.gp = ready.gp /\ e.var = ready.var /\ e.modified = ready.modified /\ Sound(e)
  BY <1>1, <1>7, AppendSame, AppendSound DEF Sound
<1>9. CASE Crowd(ready)
  <2>1. Later(e, d)
    BY <1>3, <1>8, UnuseLater
  <2> QED
    BY <1>2, <1>8, <1>9, <2>1 DEF Crowd, Later
<1>10. CASE ~Crowd(ready)
  <2>1. /\ Calm(b, ready) /\ Within(ready, L)
        /\ \A k \in DOMAIN uses : ready.var[uses[k].v].register # NoRegister
    BY <1>7, <1>10 DEF AllReady
  <2>2. Unspilled(e)
    BY <1>1, <1>7, <2>1, AppendUnspilled DEF Calm, Sound
  <2>3. SameEnds(cc, e)
    BY <1>6, <1>8, <2>1 DEF Calm, SameEnds
  <2>4. \A r \in Registers : cc.gp[r] # NoVariable => e.gp[r] = cc.gp[r]
    BY <1>6, <1>8, <2>1 DEF Calm
  <2>5. Within(e, L)
    BY <1>8, <2>1 DEF Within
  <2> HIDE DEF e, d
  <2>6. gone = Ending(cc, i) /\ gone \subseteq Variables
    BY <1>3, <2>3 DEF SameEnds, Ending
  <2> HIDE DEF gone
  <2>7. /\ Unspilled(d)
        /\ \A r \in Registers : d.gp[r] = IF e.gp[r] \in gone THEN NoVariable ELSE e.gp[r]
        /\ \A v \in Variables : d.var[v].ends = e.var[v].ends
    BY <1>8, <2>2, <2>6, UnuseCalm DEF d
  <2>8. SameEnds(cc, d)
    BY <2>3, <2>7 DEF SameEnds
  <2>9. Within(d, L \ gone)
    BY <2>5, <2>7 DEF Within
  <2>10. \A r \in Registers : cc.gp[r] \notin gone \cup {NoVariable} => d.gp[r] = cc.gp[r]
    BY <2>4, <2>7
  <2> QED
    BY <1>2, <2>6, <2>7, <2>8, <2>9, <2>10 DEF Smooth
<1> QED
  BY <1>9, <1>10

\* An emittable that uses no variable.
LEMMA OtherSmooth ==
  ASSUME input \in Inputs, Sound(cc), Unspilled(cc), NEW i \in DOMAIN Program,
         Program[i].uses = <<>>, Program[i].op \notin {"prolog", "jne"}
  PROVE  LET d == TranslateEmittable(i)
         IN  Unspilled(d) /\ SameEnds(cc, d) /\ d.gp = cc.gp
<1> DEFINE op == Program[i].op
           a == At(i)
           d == AppendCode(a, op, <<>>)
<1>1. op \in Ops /\ i \in Int
  BY PlaceFields
<1>2. TranslateEmittable(i) = d
  BY DEF TranslateEmittable
<1>3. a \in Contexts /\ Quiet(cc, a) /\ cc.var = a.var
  BY <1>1, AtLater DEF At, Sound, Contexts
<1> HIDE DEF a, op
<1>4. d.gp = a.gp /\ d.var = a.var
  BY <1>3, AppendSame
<1>5. <<>> \in Seq(Uses) /\ DOMAIN <<>> = {}
  OBVIOUS
<1>6. Unspilled(d)
  BY <1>1, <1>3, <1>5, QuietUnspilled, AppendUnspilled
<1> QED
  BY <1>2, <1>3, <1>4, <1>6 DEF SameEnds, Quiet, Placed

LEMMA PrologSmooth ==
  ASSUME input \in Inputs, Sound(cc), Unspilled(cc), cc.used = {}, NEW i \in DOMAIN Program,
         Program[i].op = "prolog"
  PROVE  LET d == TranslateEmittable(i)
         IN  Unspilled(d) /\ SameEnds(cc, d) /\ Within(d, {Chain})
<1> DEFINE a == At(i)
           b == AllocVariables(a)
           d == AppendCode(b, "prolog", <<>>)
<1>1. i \in Int /\ "prolog" \in Ops /\ Program[i].uses = <<>>
  BY PlaceFields DEF Ops, UsingOps
<1>2. TranslateEmittable(i) = d
  BY <1>1 DEF TranslateEmittable
<1>3. a \in Contexts /\ Quiet(cc, a) /\ cc.var = a.var /\ Sound(a) /\ a.used = {}
  BY <1>1, AtLater DEF At, Sound, Contexts, Later
<1> HIDE DEF a
<1>4. Calm(a, b) /\ Within(b, {Chain}) /\ b \in Contexts
  BY <1>3, QuietUnspilled, AllocVariablesCalm, AllocVariablesSound DEF Later, Sound
<1> HIDE DEF b
<1>5. d.gp = b.gp /\ d.var = b.var
  BY <1>4, AppendSame
<1>6. <<>> \in Seq(Uses) /\ DOMAIN <<>> = {}
  OBVIOUS
<1>7. Unspilled(d)
  BY <1>1, <1>4, <1>6, AppendUnspilled DEF Calm
<1> QED
  BY <1>2, <1>3, <1>4, <1>5, <1>7 DEF SameEnds, Calm, Within

LEMMA LeaveCalm ==
  ASSUME NEW c, Sound(c), Unspilled(c), NEW t, Unmoved(c, t), NEW r \in Registers
  PROVE  LET d == LeaveRegister(c, t, r)
         IN  Unspilled(d) /\ SameEnds(c, d) /\ Unmoved(d, t)
<1> DEFINE v == c.gp[r]
           d == LeaveRegister(c, t, r)
<1>1. c \in Contexts /\ c.gp \in [Registers -> Variables \cup {NoVariable}] /\ Matched(c)
  BY ContextFields DEF Sound
<1>2. CASE Left(c, t, r)
  BY <1>2 DEF Left, LeaveRegister, SameEnds
<1>3. CASE ~Left(c, t, r)
  <2>1. v \in Variables /\ v # NoVariable /\ v # t.gp[r]
    BY <1>1, <1>3 DEF Left
  <2>2. ASSUME NEW q \in Registers PROVE t.gp[q] # v
    <3> SUFFICES ASSUME t.gp[q] = v PROVE FALSE
      OBVIOUS
    <3>1. c.gp[q] = v
      BY <2>1 DEF Unmoved
    <3>2. q = c.var[v].register /\ r = c.var[v].register
      BY <1>1, <2>1, <3>1 DEF Matched
    <3> QED
      BY <2>1, <3>2
  <2>3. StateAtTarget(t, v) = "unused"
    <3>1. t.memory = {}
      BY DEF Unmoved
    <3> QED
      BY <2>2, <3>1 DEF StateAtTarget
  <2>4. d = UnuseVars(c, {v})
    BY <1>3, <2>3 DEF Left, LeaveRegister
  <2> HIDE DEF v, d
  <2>5. {v} \in SUBSET Variables
    BY <2>1
  <2>6. /\ Unspilled(d)
        /\ \A q \in Registers : d.gp[q] = IF c.gp[q] \in {v} THEN NoVariable ELSE c.gp[q]
        /\ \A u \in Variables : d.var[u].ends = c.var[u].ends
    BY <2>4, <2>5, UnuseCalm
  <2>7. Unmoved(d, t)
    BY <2>2, <2>6 DEF Unmoved
  <2> QED
    BY <2>6, <2>7 DEF SameEnds, d
<1> QED
  BY <1>2, <1>3

LEMMA RestoreSmooth ==
  ASSUME NEW c, Sound(c), Unspilled(c), NEW t, TargetSound(t), Unmoved(c, t)
  PROVE  LET d == RestoreState(c, t)
         IN  Unspilled(d) /\ SameEnds(c, d) /\ d.gp = t.gp
<1> DEFINE left == LeaveEach(c, t)
           moved == EnterEach(left, t)
           Settle(v) ==
             IF v \in Active(c) /\ StateAtTarget(t, v) # "register"
             THEN [moved.var[v] EXCEPT !.state = StateAtTarget(t, v), !.changed = FALSE]
             ELSE moved.var[v]
           var == [v \in Variables |-> Settle(v)]
           d == [moved EXCEPT !.used = t.used, !.var = var]
<1>1. c \in Contexts /\ DOMAIN c.var = Variables
  BY ContextFields DEF Sound
<1>2. RestoreState(c, t) = d
  BY <1>1 DEF RestoreState, LeaveEach, EnterEach
<1>3. Sound(left) /\ AllLeft(left, t)
  BY LeaveAll DEF Later
<1>4. Unspilled(left) /\ SameEnds(c, left) /\ Unmoved(left, t)
  <2>1. PICK q \in [0 .. 16 -> After(c)] :
          /\ q[0] = c
          /\ \A k \in 0 .. 15 : q[k + 1] = LeaveRegister(q[k], t, k)
          /\ LeaveEach(c, t) = q[16]
    BY LeaveSteps
  <2> DEFINE Good(e) == Unspilled(e) /\ SameEnds(c, e) /\ Unmoved(e, t)
             T == {k \in 0 .. 16 : Good(q[k])}
  <2>2. 0 \in T
    BY <2>1 DEF SameEnds
  <2>3. ASSUME NEW k \in 0 .. 15, k \in T PROVE k + 1 \in T
    <3>1. k \in Registers /\ k \in 0 .. 16 /\ k + 1 \in 0 .. 16
      BY DEF Registers
    <3>2. Sound(q[k]) /\ Good(q[k])
      BY <2>1, <2>3, <3>1 DEF After, Later
    <3>3. /\ Unspilled(q[k + 1]) /\ SameEnds(q[k], q[k + 1]) /\ Unmoved(q[k + 1], t)
      BY <2>1, <3>1, <3>2, LeaveCalm
    <3> QED
      BY <3>1, <3>2, <3>3 DEF SameEnds
  <2>4. 16 \in T
    <3>1. 16 \in Nat /\ 16 \in 0 .. 16 /\ 16 - 1 = 15
      OBVIOUS
    <3> HIDE DEF T
    <3> QED
      BY <2>2, <2>3, <3>1, UpTo
  <2> QED
    BY <2>1, <2>4
<1> HIDE DEF left
<1>5. moved = left
  <2>1. PICK q \in [0 .. 16 -> {e \in After(left) : AllLeft(e, t)}] :
          /\ q[0] = left
          /\ \A k \in 0 .. 15 : q[k + 1] = EnterRegister(q[k], t, k)
          /\ EnterEach(left, t) = q[16]
    BY <1>3, EnterSteps
  <2> DEFINE T == {k \in 0 .. 16 : q[k] = left}
  <2>2. 0 \in T
    BY <2>1
  <2>3. ASSUME NEW k \in 0 .. 15, k \in T PROVE k + 1 \in T
    <3>1. k \in Registers /\ k \in 0 .. 16 /\ k + 1 \in 0 .. 16
      BY DEF Registers
    <3>2. EnterRegister(left, t, k) = left
      BY <1>4, <3>1 DEF Unmoved, EnterRegister
    <3> QED
      BY <2>1, <2>3, <3>1, <3>2
  <2>4. 16 \in T
    <3>1. 16 \in Nat /\ 16 \in 0 .. 16 /\ 16 - 1 = 15
      OBVIOUS
    <3> HIDE DEF T
    <3> QED
      BY <2>2, <2>3, <3>1, UpTo
  <2> QED
    BY <2>1, <2>4
<1>6. moved.gp = t.gp /\ moved \in Contexts
  BY <1>3, EnterAll DEF Later, Sound
<1> HIDE DEF moved
<1>7. ASSUME NEW v \in Variables
      PROVE  /\ var[v].ends = left.var[v].ends
             /\ var[v].state \in {left.var[v].state, "register", "unused"}
  <2>1. left.var[v] \in VarDatas
    BY <1>3, ContextFields DEF Sound
  <2>2. CASE v \in Active(c) /\ StateAtTarget(t, v) # "register"
    <3>1. StateAtTarget(t, v) = "unused"
      <4>1. t.memory = {}
        BY <1>4 DEF Unmoved
      <4> QED
        BY <2>2, <4>1 DEF StateAtTarget
    <3>2. var[v] = [left.var[v] EXCEPT !.state = "unused", !.changed = FALSE]
      BY <1>5, <2>2, <3>1
    <3> QED
      BY <2>1, <3>2 DEF VarDatas
  <2>3. CASE ~(v \in Active(c) /\ StateAtTarget(t, v) # "register")
    BY <1>5, <2>3
  <2> QED
    BY <2>2, <2>3
<1> HIDE DEF var
<1>8. /\ d.gp = moved.gp /\ d.var = var /\ d.frame = moved.frame /\ d.code = moved.code
      /\ d.error = moved.error
  BY <1>6 DEF Contexts
<1> HIDE DEF d
<1>9. Unspilled(d)
  BY <1>4, <1>5, <1>7, <1>8, StaysUnspilled
<1>10. SameEnds(c, d)
  BY <1>4, <1>7, <1>8 DEF SameEnds
<1> QED
  BY <1>2, <1>6, <1>8, <1>9, <1>10

LEMMA JumpSmooth ==
  ASSUME input \in Inputs, Sound(cc), Unspilled(cc), TargetSound(target), Unmoved(cc, target),
         NEW L, Within(cc, L), NEW i \in DOMAIN Program, Program[i].op = "jne"
  PROVE  Unspilled(TranslateEmittable(i)) /\ Within(TranslateEmittable(i), L)
<1> DEFINE a == At(i)
           b == RestoreState(a, target)
           e == AppendCode(b, "jne", <<>>)
           gone == {v \in Active(cc) : e.var[v].ends = i}
           d == UnuseVars(e, gone)
<1>1. i \in Int /\ "jne" \in Ops /\ Program[i].uses = <<>>
  BY PlaceFields DEF Ops, UsingOps
<1>2. TranslateEmittable(i) = d
  BY <1>1 DEF TranslateEmittable, TranslateJump, EndScopes
<1>3. a \in Contexts /\ Quiet(cc, a) /\ Sound(a)
  BY <1>1, AtLater DEF Later
<1> HIDE DEF a
<1>4. Unspilled(a) /\ Unmoved(a, target)
  BY <1>3, QuietUnspilled DEF Quiet, Placed, Unmoved
<1>5. Sound(b) /\ b \in Contexts /\ Unspilled(b) /\ b.gp = target.gp
  BY <1>3, <1>4, RestoreSmooth, RestoreLater DEF Later, Sound
<1> HIDE DEF b
<1>6. <<>> \in Seq(Uses) /\ DOMAIN <<>> = {}
  OBVIOUS
<1>7. Sound(e) /\ e.gp = b.gp
  BY <1>1, <1>5, <1>6, AppendSound, AppendSame
<1>8. Unspilled(e)
  BY <1>1, <1>5, <1>6, AppendUnspilled
<1>9. gone \in SUBSET Variables
  BY ContextFields DEF Active, Sound
<1> HIDE DEF e, gone
<1>10. /\ Unspilled(d)
       /\ \A r \in Registers : d.gp[r] = IF e.gp[r] \in gone THEN NoVariable ELSE e.gp[r]
  BY <1>7, <1>8, <1>9, UnuseCalm
<1> HIDE DEF d
<1>11. Within(d, L)
  <2> SUFFICES ASSUME NEW r \in Registers PROVE d.gp[r] \in L \cup {NoVariable}
    BY DEF Within
  <2>1. d.gp[r] = NoVariable \/ d.gp[r] = target.gp[r]
    BY <1>5, <1>7, <1>10
  <2>2. target.gp[r] = NoVariable \/ target.gp[r] = cc.gp[r]
    BY DEF Unmoved
  <2> QED
    BY <2>1, <2>2 DEF Within
<1> QED
  BY <1>2, <1>10, <1>11

LEMMA FewHeads ==
  ASSUME input \in Inputs, NEW i \in 1 .. input.chains_per_thread
  PROVE  Few({Chain, HeadAt(1), HeadAt(i)})
<1> DEFINE a == {Chain}
           b == {Chain} \cup {HeadAt(1)}
           c == b \cup {HeadAt(i)}
<1>1. IsFiniteSet(a) /\ Cardinality(a) = 1
  BY FS_Singleton
<1>2. IsFiniteSet(b) /\ Cardinality(b) \in 1 .. 2
  <2> HIDE DEF a
  <2>1. IsFiniteSet(a \cup {HeadAt(1)}) /\ Cardinality(a \cup {HeadAt(1)}) \in 1 .. 2
    BY <1>1, FS_AddElement
  <2> QED
    BY <2>1 DEF a
<1> HIDE DEF b
<1>3. IsFiniteSet(c) /\ Cardinality(c) \in 1 .. 3
  BY <1>2, FS_AddElement
<1>4. {Chain, HeadAt(1), HeadAt(i)} = c
  BY DEF b
<1>5. 1 \in 1 .. input.chains_per_thread
  BY InputFields
<1>6. {Chain, HeadAt(1), HeadAt(i)} \subseteq Variables
  BY <1>5 DEF Variables
<1> HIDE DEF c
<1> QED
  BY <1>3, <1>4, <1>6 DEF Few

LEMMA FewAcross ==
  ASSUME input \in Inputs
  PROVE  Few(Across)
<1> DEFINE n == input.chains_per_thread
           S == 1 .. n
           P == {Position(i) : i \in S}
           f == [i \in S |-> Position(i)]
<1>1. n \in Nat \ {0}
  BY InputFields
<1>2. f \in Surjection(S, P)
  BY DEF Surjection
<1> HIDE DEF n
<1>3. IsFiniteSet(S) /\ Cardinality(S) = n
  <2> DEFINE a == 1
  <2>1. a \in Int /\ n \in Int /\ ~(a > n) /\ n - a + 1 = n
    BY <1>1
  <2> HIDE DEF a
  <2>2. IsFiniteSet(a .. n) /\ Cardinality(a .. n) = n
    BY <2>1, FS_Interval
  <2> QED
    BY <2>2 DEF a
<1> HIDE DEF S, P, f
<1>4. IsFiniteSet(P) /\ Cardinality(P) <= n
  BY <1>2, <1>3, FS_Surjection
<1>5. IsFiniteSet(P \cup {HeadAt(1)}) /\ Cardinality(P \cup {HeadAt(1)}) <= n + 1
  <2> DEFINE m == Cardinality(P)
             x == HeadAt(1)
             a == Cardinality(P \cup {x})
  <2>1. m \in Nat /\ m <= n
    BY <1>4, FS_CardinalityType
  <2>2. IsFiniteSet(P \cup {x}) /\ a = IF x \in P THEN m ELSE m + 1
    BY <1>4, FS_AddElement
  <2> HIDE DEF m, a
  <2>3. a <= n + 1
    BY <1>1, <2>1, <2>2
  <2> QED
    BY <2>2, <2>3 DEF a
<1>6. Across = P \cup {HeadAt(1)}
  BY DEF Across, P, S, n
<1>7. Across \subseteq Variables
  <2>1. 1 \in 1 .. n
    BY <1>1
  <2> QED
    BY <2>1 DEF Across, Variables, n
<1>8. IsFiniteSet(Across) /\ Cardinality(Across) <= n + 1 /\ Cardinality(Across) \in Nat
  BY <1>5, <1>6, FS_CardinalityType
<1> QED
  BY <1>1, <1>7, <1>8 DEF Few, n

\* What Roomy says of the context that follows, with t remembered for the label.
Followed(d, t, p) ==
  /\ Unspilled(d) /\ Within(d, Live(p + 1))
  /\ p + 1 <= JumpPlace => ScopesSet(d)
  /\ p + 1 \in LoopPlace + 1 .. JumpPlace => Unmoved(d, t)

LEMMA ScopesSame ==
  ASSUME input \in Inputs, NEW c, NEW d, SameEnds(c, d), ScopesSet(c)
  PROVE  ScopesSet(d)
<1>1. /\ Chain \in Variables /\ Across \subseteq Variables
      /\ \A i \in 2 .. input.chains_per_thread : HeadAt(i) \in Variables
  <2>1. \A i \in 2 .. input.chains_per_thread : i \in 1 .. input.chains_per_thread
    BY InputFields
  <2> QED
    BY <2>1, FewAcross DEF Few, Variables
<1> QED
  BY <1>1 DEF ScopesSet, SameEnds

\* The first of the heads' places, and those before.
LEMMA HeadsFollowed ==
  ASSUME CompilerInv, Roomy, phase = "translate", place \in DOMAIN Program,
         place <= input.chains_per_thread + 3, NEW t
  PROVE  Crowd(TranslateEmittable(place)) \/ Followed(TranslateEmittable(place), t, place)
<1> DEFINE n == input.chains_per_thread
           w == Len(FollowAll)
           l == input.loop_length
           p == place
           d == TranslateEmittable(p)
           pair == {Chain, HeadAt(1)}
<1>1. /\ input \in Inputs /\ n \in Nat \ {0} /\ l \in Nat /\ w \in Nat
      /\ Usage(n, w, l) /\ Places(n, w, l)
  BY ProgramUsage, ProgramPlaces DEF CompilerInv
<1>2. /\ p \in Nat /\ p >= 1 /\ p <= n + 3
      /\ Program[p].op \in UsingOps \/ Program[p].uses = <<>>
  BY <1>1, PlaceFields
<1>3. Sound(cc) /\ (p <= 3 => cc.used = {})
  BY DEF CompilerInv, Early
<1> HIDE DEF n, w, l, p
<1>4. LoopPlace = 2 * n + 4 /\ JumpPlace = 2 * n + w + l + 6
  BY <1>1 DEF Usage
<1>5. /\ Unspilled(cc) /\ Within(cc, pair) /\ ScopesSet(cc)
  <2>1. place <= JumpPlace
    BY <1>1, <1>2, <1>4 DEF p
  <2>2. Live(place) = pair
    BY DEF Live
  <2> QED
    BY <2>1, <2>2 DEF Roomy
<1>6. p + 1 <= JumpPlace /\ p + 1 \notin LoopPlace + 1 .. JumpPlace
  <2> DEFINE first == LoopPlace
             jump == JumpPlace
  <2>1. first = 2 * n + 4 /\ jump = 2 * n + w + l + 6 /\ p \in Nat /\ p <= n + 3
    BY <1>2, <1>4
  <2> HIDE DEF first, jump
  <2>2. p + 1 <= jump /\ p + 1 < first + 1
    BY <1>1, <2>1
  <2> QED
    BY <1>1, <2>1, <2>2 DEF first, jump
<1>7. Live(p + 1) = IF p = n + 3 THEN Across ELSE pair
  <2>1. p + 1 <= n + 3 <=> p # n + 3
    BY <1>1, <1>2
  <2> QED
    BY <2>1 DEF Live, n
<1>8. SameEnds(cc, d) => ScopesSet(d)
  BY <1>1, <1>5, ScopesSame
<1>9. HeadAt(1) \in Across
  BY DEF Across
<1> HIDE DEF pair, d
<1>10. CASE p <= 2
  <2>1. Program[p].uses = <<>> /\ Program[p].op \notin {"prolog", "jne"}
    <3>1. p \in DOMAIN Program
      BY DEF p
    <3>2. Program[p].uses = <<>>
      BY <1>2, <1>10, <3>1, <1>1 DEF Usage
    <3>3. Program[p].op \in {"function", "entry"}
      BY <1>1, <1>10, <3>1 DEF Places
    <3> QED
      BY <3>2, <3>3
  <2>2. Unspilled(d) /\ SameEnds(cc, d) /\ d.gp = cc.gp
    BY <1>1, <1>3, <1>5, <2>1, OtherSmooth DEF d, p
  <2>3. Within(d, pair)
    BY <1>5, <2>2 DEF Within
  <2>4. Live(p + 1) = pair
    BY <1>1, <1>2, <1>7, <1>10
  <2> QED
    BY <1>6, <1>8, <2>2, <2>3, <2>4 DEF Followed, d, p
<1>11. CASE p = 3
  <2>1. Program[p].op = "prolog" /\ p \in DOMAIN Program
    BY <1>1, <1>2, <1>11 DEF Places, p
  <2>2. cc.used = {}
    BY <1>3, <1>11
  <2>3. Unspilled(d) /\ SameEnds(cc, d) /\ Within(d, {Chain})
    BY <1>1, <1>3, <1>5, <2>1, <2>2, PrologSmooth DEF d
  <2>4. Within(d, pair)
    BY <2>3 DEF Within, pair
  <2>5. Live(p + 1) = pair
    BY <1>1, <1>7, <1>11
  <2> QED
    BY <1>6, <1>8, <2>3, <2>4, <2>5 DEF Followed, d, p
<1>12. CASE p > 3
  <2> DEFINE i == p - 3
             L == {Chain, HeadAt(1), HeadAt(i)}
             rest == L \ Ending(cc, p)
  <2>1. i \in 1 .. n /\ p = 3 + i /\ p = i + 3
    BY <1>1, <1>2, <1>12
  <2> HIDE DEF i
  <2>2. UsedAt(p) = {HeadAt(i), Chain}
    BY <1>1, <2>1 DEF Usage
  <2>3. Program[p].uses # <<>> /\ Program[p].op \notin {"prolog", "jne"}
    <3>1. Program[p].uses # <<>>
      BY <2>2, NothingUsed
    <3> QED
      BY <1>2, <3>1 DEF UsingOps
  <2>4. d = TranslateInstruction(p)
    BY <2>3 DEF TranslateEmittable, d
  <2>5. Few(L) /\ Within(cc, L) /\ UsedAt(p) \subseteq L
    BY <1>1, <1>5, <2>1, <2>2, FewHeads DEF Within, n, pair
  <2> HIDE DEF L
  <2>6. Crowd(d) \/ Smooth(cc, d, L, p)
    BY <1>1, <1>3, <1>5, <2>3, <2>4, <2>5, InstructionSmooth DEF p
  <2>7. rest \subseteq Live(p + 1)
    <3>1. i # 1 => HeadAt(i) \in Ending(cc, p)
      <4> SUFFICES ASSUME i # 1 PROVE HeadAt(i) \in Ending(cc, p)
        OBVIOUS
      <4>1. i \in 2 .. n
        BY <1>1, <2>1
      <4>2. cc.var[HeadAt(i)].ends = p
        BY <1>5, <2>1, <4>1 DEF ScopesSet, n
      <4> QED
        BY <2>2, <4>2 DEF Ending
    <3>2. rest \subseteq pair
      BY <3>1 DEF L, pair
    <3>3. CASE p = n + 3
      <4>1. Chain \in Ending(cc, p)
        BY <1>5, <2>2, <3>3 DEF ScopesSet, Ending, n
      <4> QED
        BY <1>7, <1>9, <3>2, <3>3, <4>1 DEF pair
    <3>4. CASE p # n + 3
      BY <1>7, <3>2, <3>4
    <3> QED
      BY <3>3, <3>4
  <2>8. CASE Smooth(cc, d, L, p)
    <3>1. Unspilled(d) /\ SameEnds(cc, d) /\ Within(d, rest)
      BY <2>8 DEF Smooth
    <3>2. Within(d, Live(p + 1))
      BY <2>7, <3>1 DEF Within
    <3> QED
      BY <1>6, <1>8, <3>1, <3>2 DEF Followed, d, p
  <2> QED
    BY <2>6, <2>8 DEF d, p
<1> QED
  BY <1>2, <1>10, <1>11, <1>12

\* The places of the positions, the loop, and what is behind it.
LEMMA RestFollowed ==
  ASSUME CompilerInv, Roomy, phase = "translate", place \in DOMAIN Program,
         place > input.chains_per_thread + 3,
         NEW t, t = IF place = LoopPlace THEN SaveState(cc) ELSE target
  PROVE  Crowd(TranslateEmittable(place)) \/ Followed(TranslateEmittable(place), t, place)
<1> DEFINE n == input.chains_per_thread
           w == Len(FollowAll)
           l == input.loop_length
           p == place
           d == TranslateEmittable(p)
<1>1. /\ input \in Inputs /\ n \in Nat \ {0} /\ l \in Nat /\ w \in Nat
      /\ Usage(n, w, l) /\ Places(n, w, l)
  BY ProgramUsage, ProgramPlaces DEF CompilerInv
<1>2. /\ p \in Nat /\ p > n + 3 /\ p \in DOMAIN Program
      /\ Program[p].op \in UsingOps \/ Program[p].uses = <<>>
  BY <1>1, PlaceFields
<1>3. Sound(cc) /\ TargetSound(target)
  BY DEF CompilerInv
<1>4. /\ Unspilled(cc) /\ Within(cc, Live(p)) /\ (p <= JumpPlace => ScopesSet(cc))
      /\ p \in LoopPlace + 1 .. JumpPlace => Unmoved(cc, target)
      /\ t = IF p = LoopPlace THEN SaveState(cc) ELSE target
  BY DEF Roomy
<1> HIDE DEF n, w, l, p
<1>5. LoopPlace = 2 * n + 4 /\ JumpPlace = 2 * n + w + l + 6
  BY <1>1 DEF Usage
<1>6. Live(p) = Across /\ Live(p + 1) = Across
  <2>1. ~ p <= n + 3 /\ ~ p + 1 <= n + 3
    BY <1>1, <1>2
  <2> QED
    BY <2>1 DEF Live, n
<1>7. SameEnds(cc, d) => (p <= JumpPlace => ScopesSet(d))
  BY <1>1, <1>4, ScopesSame
<1>8. p + 1 <= JumpPlace => p <= JumpPlace
  BY <1>1, <1>2, <1>5
<1>9. Program[p].op = "jne" <=> p = JumpPlace
  BY <1>1, <1>2, <1>5 DEF Places
<1>10. Program[p].op # "prolog"
  BY <1>1, <1>2 DEF Places
<1> HIDE DEF d
\* The label and the nops.
<1>11. CASE Program[p].uses = <<>> /\ p # JumpPlace
  <2>1. Unspilled(d) /\ SameEnds(cc, d) /\ d.gp = cc.gp
    BY <1>1, <1>2, <1>3, <1>4, <1>9, <1>10, <1>11, OtherSmooth DEF d
  <2>2. Within(d, Across)
    BY <1>4, <1>6, <2>1 DEF Within
  <2>3. p + 1 \in LoopPlace + 1 .. JumpPlace => Unmoved(d, t)
    <3>1. CASE p = LoopPlace
      <4>1. t.gp = cc.gp /\ t.memory = {}
        <5>1. cc.var \in [Variables -> VarDatas]
          BY <1>3, ContextFields DEF Sound
        <5> QED
          BY <1>4, <3>1, <5>1 DEF SaveState, Active, Unspilled
      <4> QED
        BY <2>1, <4>1 DEF Unmoved
    <3>2. CASE p # LoopPlace
      <4>1. p + 1 \in LoopPlace + 1 .. JumpPlace => p \in LoopPlace + 1 .. JumpPlace
        BY <1>1, <1>2, <1>5, <3>2
      <4> QED
        BY <1>4, <2>1, <3>2, <4>1 DEF Unmoved
    <3> QED
      BY <3>1, <3>2
  <2> QED
    BY <1>6, <1>7, <1>8, <2>1, <2>2, <2>3 DEF Followed, d, p
\* The positions and the chases.
<1>12. CASE Program[p].uses # <<>>
  <2>1. Program[p].op \notin {"prolog", "jne"} /\ p # JumpPlace
    BY <1>2, <1>9, <1>12 DEF UsingOps
  <2>2. d = TranslateInstruction(p)
    BY <1>12, <2>1 DEF TranslateEmittable, d
  <2>3. p < JumpPlace
    <3>1. ~ (p <= 3 \/ p >= JumpPlace)
      BY <1>1, <1>2, <1>12 DEF Usage
    <3> QED
      BY <1>1, <1>2, <1>5, <3>1
  <2>4. UsedAt(p) \subseteq Across
    <3>1. CASE p \in LoopPlace .. JumpPlace
      BY <1>1, <3>1 DEF Usage
    <3>2. CASE p < LoopPlace
      <4> DEFINE i == p - (n + 3)
      <4>1. i \in 1 .. n /\ p = n + 3 + i
        BY <1>1, <1>2, <1>5, <3>2
      <4> HIDE DEF i
      <4>2. UsedAt(p) = {Position(i), HeadAt(1)}
        BY <1>1, <4>1 DEF Usage
      <4> QED
        BY <4>1, <4>2 DEF Across, n
    <3> QED
      BY <1>1, <1>2, <1>5, <2>3, <3>1, <3>2
  <2>5. Crowd(d) \/ Smooth(cc, d, Across, p)
    BY <1>1, <1>2, <1>3, <1>4, <1>6, <1>12, <2>2, <2>4, FewAcross, InstructionSmooth
  <2>6. CASE Smooth(cc, d, Across, p)
    <3>1. Unspilled(d) /\ SameEnds(cc, d) /\ Within(d, Across)
      BY <2>6 DEF Smooth, Within
    <3>2. ASSUME p + 1 \in LoopPlace + 1 .. JumpPlace PROVE Unmoved(d, t)
      <4>1. p \in LoopPlace .. JumpPlace - 1 /\ p <= JumpPlace
        BY <1>1, <1>2, <1>5, <3>2
      <4>2. Ending(cc, p) = {}
        BY <1>4, <2>4, <4>1 DEF ScopesSet, Ending
      <4>3. p # LoopPlace
        <5>1. LoopPlace \in DOMAIN Program
          BY <1>1, <1>5 DEF Places
        <5>2. Program[LoopPlace].op = "L_Loop"
          BY <1>1, <1>5, <5>1 DEF Places
        <5> QED
          BY <1>2, <1>12, <5>2 DEF UsingOps
      <4>4. Unmoved(cc, target) /\ t = target
        BY <1>1, <1>2, <1>4, <1>5, <4>1, <4>3
      <4>5. ASSUME NEW r \in Registers, t.gp[r] # NoVariable PROVE d.gp[r] = t.gp[r]
        <5>1. cc.gp[r] = t.gp[r]
          BY <4>4, <4>5 DEF Unmoved
        <5>2. cc.gp[r] \notin Ending(cc, p) \cup {NoVariable}
          BY <4>2, <4>5, <5>1
        <5> QED
          BY <2>6, <5>1, <5>2 DEF Smooth
      <4> QED
        BY <4>4, <4>5 DEF Unmoved
    <3> QED
      BY <1>6, <1>7, <1>8, <3>1, <3>2 DEF Followed, d, p
  <2> QED
    BY <2>5, <2>6 DEF d, p
<1>13. CASE p = JumpPlace
  <2>1. Unmoved(cc, target)
    BY <1>1, <1>4, <1>5, <1>13
  <2>2. Unspilled(d) /\ Within(d, Across)
    BY <1>1, <1>2, <1>3, <1>4, <1>6, <1>9, <1>13, <2>1, JumpSmooth DEF d
  <2>3. ~ p + 1 <= JumpPlace /\ p + 1 \notin LoopPlace + 1 .. JumpPlace
    BY <1>1, <1>5, <1>13
  <2> QED
    BY <1>6, <2>2, <2>3 DEF Followed, d, p
<1> QED
  BY <1>11, <1>12, <1>13

-----------------------------------------------------------------------------
(* The invariant.                                                          *)

\* The program stays what it is.
LEMMA PlacesNext ==
  ASSUME input' = input
  PROVE  /\ Variables' = Variables /\ LoopPlace' = LoopPlace /\ JumpPlace' = JumpPlace
         /\ \A k : UsedAt(k)' = UsedAt(k)
<1>1. Program' = Program
  BY ProgramNext
<1>2. FollowAll' = FollowAll
  BY DEF FollowAll, Follow
<1> QED
  BY <1>1, <1>2 DEF Variables, LoopPlace, JumpPlace, UsedAt

LEMMA UnspilledNext ==
  ASSUME input' = input, Unspilled(cc')
  PROVE  Unspilled(cc)'
<1>1. Variables' = Variables
  BY PlacesNext
<1> QED
  BY <1>1 DEF Unspilled

LEMMA ScopesSetNext ==
  ASSUME input' = input, ScopesSet(cc')
  PROVE  ScopesSet(cc)'
<1>1. LoopPlace' = LoopPlace /\ JumpPlace' = JumpPlace
  BY PlacesNext
<1>2. Across' = Across
  BY DEF Across
<1> QED
  BY <1>1, <1>2 DEF ScopesSet

LEMMA ScopesOpenNext ==
  ASSUME input' = input, ScopesOpen(cc', place')
  PROVE  ScopesOpen(cc, place)'
<1>1. Variables' = Variables /\ \A k : UsedAt(k)' = UsedAt(k)
  BY PlacesNext
<1>2. cc'.cur = place' - 1 /\ \A v \in Variables : Scope(cc', v, place')
  BY DEF ScopesOpen
<1> DEFINE p == place'
           d == cc'
<1>3. ASSUME NEW v \in Variables PROVE Scope(cc, v, place)'
  <2>1. Scope(d, v, p)
    BY <1>2
  <2> QED
    BY <1>1, <2>1 DEF Scope
<1> QED
  BY <1>1, <1>2, <1>3 DEF ScopesOpen

LEMMA WithinNext ==
  ASSUME input' = input, Within(cc', Live(place'))
  PROVE  Within(cc, Live(place))'
BY DEF Within, Live, Across

LEMMA CrowdNext ==
  ASSUME CompilerInv, Crowd(cc), [Next]_vars
  PROVE  Crowd(cc)'
<1>1. input' = input
  BY DEF Next, Compile, Prepare, Translate, StartEncode, Encode, Make, Call, Save, Load,
         Execute, Jump, Return, vars, codeVars, compilerVars
<1>2. cc.modified \subseteq cc'.modified
  <2>1. CASE Prepare
    <3>1. input \in Inputs /\ cc \in Contexts /\ place \in DOMAIN Program
      BY <2>1 DEF CompilerInv, Sound, Prepare
    <3>2. Quiet(cc, PrepareEmittable(cc, place))
      BY <3>1, PrepareEmittableQuiet
    <3> QED
      BY <2>1, <3>2 DEF Prepare, Quiet, Placed
  <2>2. CASE Translate
    BY <2>2, TranslateStep DEF Translated
  <2>3. CASE ~Prepare /\ ~Translate
    BY <2>3 DEF Next, Compile, StartEncode, Encode, Make, Call, Save, Load,
                Execute, Jump, Return, vars, codeVars, compilerVars
  <2> QED
    BY <2>1, <2>2, <2>3
<1> QED
  BY <1>1, <1>2 DEF Crowd

LEMMA ScopeInit ==
  ASSUME Init
  PROVE  ScopeInv
<1>1. input \in Inputs /\ phase = "prepare" /\ place = 1 /\ cc = NewContext(Variables)
  BY DEF Init, InitCompiler
<1>2. /\ cc.cur = 0 /\ cc.frame = <<>> /\ ~cc.error /\ cc.code = <<>>
      /\ \A v \in Variables : cc.var[v].state = "unused" /\ cc.var[v].work = -1
                              /\ cc.var[v].first = -1
  BY <1>1 DEF NewContext, NewVarData
<1>3. Unspilled(cc)
  BY <1>2 DEF Unspilled
<1>4. ScopesOpen(cc, 1)
  <2>1. \A v \in Variables : Scope(cc, v, 1)
    <3>1. 1 .. 1 - 1 = {} /\ -1 < 1 - 1
      OBVIOUS
    <3> QED
      BY <1>2, <3>1 DEF Scope
  <2> QED
    BY <1>2, <2>1 DEF ScopesOpen
<1>5. 1 <= JumpPlace
  <2>1. /\ input.chains_per_thread \in Nat /\ input.loop_length \in Nat /\ Len(FollowAll) \in Nat
        /\ Usage(input.chains_per_thread, Len(FollowAll), input.loop_length)
    BY <1>1, ProgramUsage, ProgramPlaces
  <2>2. JumpPlace = 2 * input.chains_per_thread + Len(FollowAll) + input.loop_length + 6
    BY <2>1 DEF Usage
  <2> QED
    BY <2>1, <2>2
<1> QED
  BY <1>1, <1>3, <1>4, <1>5 DEF ScopeInv, Roomy

LEMMA PrepareScope ==
  ASSUME CompilerInv, Roomy, Prepare
  PROVE  Roomy'
<1> DEFINE n == input.chains_per_thread
           w == Len(FollowAll)
           l == input.loop_length
           p == place
           d == PrepareEmittable(cc, p)
           m == Len(Program)
<1>1. /\ phase = "prepare" /\ input' = input /\ cc' = d
      /\ \/ p = m /\ place' = 1 /\ phase' = "translate"
         \/ p # m /\ place' = p + 1 /\ phase' = "prepare"
  BY DEF Prepare
<1>2. /\ input \in Inputs /\ n \in Nat \ {0} /\ l \in Nat /\ w \in Nat
      /\ Usage(n, w, l) /\ Places(n, w, l)
  BY ProgramUsage, ProgramPlaces DEF CompilerInv
<1>3. p \in DOMAIN Program /\ Sound(cc) /\ cc \in Contexts /\ cc.used = {}
  BY <1>1 DEF CompilerInv, Early, Sound
<1>4. p \in 1 .. m /\ m \in Nat /\ Program[p].op \in Ops
  BY <1>2, <1>3, PlaceFields
<1>5. Unspilled(cc) /\ IF p <= JumpPlace THEN ScopesOpen(cc, p) ELSE ScopesSet(cc)
  BY <1>1 DEF Roomy
<1> HIDE DEF n, w, l, p, m
<1>6. /\ LoopPlace = 2 * n + 4 /\ JumpPlace = 2 * n + w + l + 6
      /\ m = 2 * n + w + l + 8
  <2>1. 1 .. m = 1 .. 2 * n + w + l + 8
    <3>1. Program \in Seq(ProgramItems) /\ DOMAIN Program = 1 .. 2 * n + w + l + 8
      BY <1>2 DEF Places
    <3> QED
      BY <3>1 DEF m
  <2>2. m = 2 * n + w + l + 8
    BY <1>2, <1>4, <2>1
  <2> QED
    BY <1>2, <2>2 DEF Usage
<1> HIDE DEF d
<1>7. d \in Contexts /\ Quiet(cc, d)
  BY <1>2, <1>3, PrepareEmittableQuiet DEF d
<1>8. Unspilled(d) /\ Sound(d) /\ d.used = {}
  BY <1>3, <1>5, <1>7, QuietUnspilled, QuietLater DEF Later, Quiet, Placed
<1>9. IF p + 1 <= JumpPlace THEN ScopesOpen(d, p + 1) ELSE ScopesSet(d)
  <2>1. CASE p < JumpPlace
    <3>1. ScopesOpen(cc, p)
      BY <1>2, <1>4, <1>5, <1>6, <2>1
    <3>2. ScopesOpen(d, p + 1)
      BY <1>2, <1>3, <2>1, <3>1, ScopesMore DEF d
    <3> QED
      BY <1>2, <1>4, <1>6, <2>1, <3>2
  <2>2. CASE p = JumpPlace
    <3>1. Program[p].op = "jne" /\ Program[p].uses = <<>>
      BY <1>2, <1>3, <1>6, <2>2 DEF Places, Usage
    <3>2. d = PrepareJump(cc, JumpPlace)
      BY <2>2, <3>1 DEF PrepareEmittable, d
    <3>3. ScopesOpen(cc, JumpPlace)
      BY <1>2, <1>5, <1>6, <2>2
    <3>4. ScopesSet(d)
      BY <1>2, <1>3, <3>2, <3>3, ScopesProlonged
    <3> QED
      BY <1>2, <1>6, <2>2, <3>4
  <2>3. CASE p > JumpPlace
    <3>1. Program[p].uses = <<>> /\ Program[p].op \notin {"prolog", "jne"}
      BY <1>2, <1>3, <1>4, <1>6, <2>3 DEF Usage, Places
    <3>2. d = [cc EXCEPT !.cur = @ + 1]
      BY <3>1 DEF PrepareEmittable, d
    <3>3. d.var = cc.var
      BY <1>3, <3>2 DEF Contexts
    <3>4. ScopesSet(cc)
      BY <1>2, <1>4, <1>5, <1>6, <2>3
    <3>5. ScopesSet(d)
      BY <3>3, <3>4 DEF ScopesSet
    <3> QED
      BY <1>2, <1>4, <1>6, <2>3, <3>5
  <2> QED
    BY <1>2, <1>4, <1>6, <2>1, <2>2, <2>3
<1>10. Unspilled(cc)' /\ JumpPlace' = JumpPlace /\ LoopPlace' = LoopPlace
  BY <1>1, <1>8, UnspilledNext, PlacesNext
<1>11. CASE p # m
  <2>1. place' = p + 1 /\ phase' = "prepare"
    BY <1>1, <1>11
  <2>2. CASE p + 1 <= JumpPlace
    <3>1. ScopesOpen(cc', place')
      BY <1>1, <1>9, <2>1, <2>2
    <3>2. ScopesOpen(cc, place)'
      BY <1>1, <3>1, ScopesOpenNext
    <3> QED
      BY <1>10, <2>1, <2>2, <3>2 DEF Roomy
  <2>3. CASE ~ p + 1 <= JumpPlace
    <3>1. ScopesSet(cc)'
      BY <1>1, <1>9, <2>3, ScopesSetNext
    <3> QED
      BY <1>10, <2>1, <2>3, <3>1 DEF Roomy
  <2> QED
    BY <2>2, <2>3
<1>12. CASE p = m
  <2>1. place' = 1 /\ phase' = "translate"
    <3>1. ~ p # m
      BY <1>12
    <3> QED
      BY <1>1, <3>1
  <2>2. ScopesSet(d)
    <3>1. ~ p + 1 <= JumpPlace
      BY <1>2, <1>6, <1>12
    <3> QED
      BY <1>9, <3>1
  <2>3. ScopesSet(cc)'
    BY <1>1, <2>2, ScopesSetNext
  <2>4. Within(d, Live(1))
    BY <1>8 DEF Sound, Matched, Within
  <2>5. Within(cc, Live(place))'
    <3>1. Within(cc', Live(place'))
      BY <1>1, <2>1, <2>4
    <3> QED
      BY <1>1, <3>1, WithinNext
  <2>6. 1 \notin LoopPlace + 1 .. JumpPlace
    BY <1>2, <1>6
  <2> QED
    BY <1>10, <2>1, <2>3, <2>5, <2>6 DEF Roomy
<1> QED
  BY <1>11, <1>12

LEMMA TranslateScope ==
  ASSUME CompilerInv, Roomy, Translate
  PROVE  ScopeInv'
<1> DEFINE d == TranslateEmittable(place)
           t == IF place = LoopPlace THEN SaveState(cc) ELSE target
<1>1. /\ phase = "translate" /\ phase' = "translate" /\ input' = input
      /\ place \in DOMAIN Program /\ place' = place + 1 /\ cc' = d /\ target' = t
  BY DEF Translate
<1>2. input \in Inputs
  BY DEF CompilerInv
<1>3. Crowd(d) \/ Followed(d, t, place)
  <2>1. place \in Nat /\ input.chains_per_thread \in Nat
    BY <1>1, <1>2, PlaceFields, InputFields
  <2>2. CASE place <= input.chains_per_thread + 3
    BY <1>1, <2>2, HeadsFollowed
  <2>3. CASE place > input.chains_per_thread + 3
    <3> HIDE DEF d, t
    <3>1. t = IF place = LoopPlace THEN SaveState(cc) ELSE target
      BY DEF t
    <3> QED
      BY <1>1, <2>3, <3>1, RestFollowed DEF d
  <2> QED
    BY <2>1, <2>2, <2>3
<1> HIDE DEF d, t
<1>4. CASE Crowd(d)
  BY <1>1, <1>4 DEF ScopeInv, Crowd
<1>5. CASE Followed(d, t, place)
  <2>1. Unspilled(cc)' /\ JumpPlace' = JumpPlace /\ LoopPlace' = LoopPlace
    BY <1>1, <1>5, UnspilledNext, PlacesNext DEF Followed
  <2>2. Within(cc, Live(place))'
    <3>1. Within(cc', Live(place'))
      BY <1>1, <1>5 DEF Followed
    <3> QED
      BY <1>1, <3>1, WithinNext
  <2>3. place' <= JumpPlace => ScopesSet(cc)'
    <3>1. place' <= JumpPlace => ScopesSet(cc')
      BY <1>1, <1>5 DEF Followed
    <3> QED
      BY <1>1, <3>1, ScopesSetNext
  <2>4. place' \in LoopPlace + 1 .. JumpPlace => Unmoved(cc, target)'
    <3>1. place' \in LoopPlace + 1 .. JumpPlace => Unmoved(cc', target')
      BY <1>1, <1>5 DEF Followed
    <3> QED
      BY <3>1 DEF Unmoved
  <2> QED
    BY <1>1, <2>1, <2>2, <2>3, <2>4 DEF ScopeInv, Roomy
<1> QED
  BY <1>3, <1>4, <1>5

\* The assembler refuses nothing, and the compiler has no error to report.
LEMMA EncodeScope ==
  ASSUME CompilerInv, AssemblerInv, Roomy, StartEncode \/ Encode \/ Make
  PROVE  Roomy'
<1>1. input' = input /\ cc' = cc
  BY DEF StartEncode, Encode, Make
<1>2. Unspilled(cc) /\ Unspilled(cc)'
  BY <1>1, UnspilledNext DEF Roomy
<1>3. phase' \in {"encode", "made"}
  <2>1. CASE StartEncode
    BY <2>1 DEF StartEncode
  <2>2. CASE Make
    BY <1>2, <2>2 DEF Make, Unspilled
  <2>3. CASE Encode
    <3> DEFINE k == Len(starts) + 1
    <3>1. phase = "encode" /\ (Unplaced(cc.code[k]) \/ phase' = phase)
      BY <2>3 DEF Encode
    <3>2. k \in DOMAIN cc.code
      <4>1. Len(starts) \in Nat /\ Len(starts) < Len(cc.code) /\ cc.code \in Seq(Items)
        BY <2>3, ContextFields DEF AssemblerInv, CompilerInv, Sound, Encode
      <4> QED
        BY <4>1
    <3> QED
      BY <1>2, <3>1, <3>2 DEF Unspilled
  <2> QED
    BY <2>1, <2>2, <2>3
<1> QED
  BY <1>2, <1>3 DEF Roomy

LEMMA ScopeStep ==
  ASSUME CompilerInv, AssemblerInv, ScopeInv, [Next]_vars
  PROVE  ScopeInv'
<1>1. CASE Crowd(cc)
  BY <1>1, CrowdNext DEF ScopeInv
<1>2. CASE Roomy /\ Compile
  BY <1>2, PrepareScope, TranslateScope DEF Compile, ScopeInv
<1>3. CASE Roomy /\ (StartEncode \/ Encode \/ Make)
  BY <1>3, EncodeScope DEF ScopeInv
<1>4. CASE Roomy /\ (Call \/ Save \/ Load \/ Execute \/ Jump \/ Return \/ UNCHANGED vars)
  <2>1. /\ input' = input /\ cc' = cc /\ phase' = phase /\ place' = place /\ target' = target
    BY <1>4 DEF Call, Save, Load, Execute, Jump, Return, vars, codeVars, compilerVars
  <2>2. JumpPlace' = JumpPlace /\ LoopPlace' = LoopPlace
    BY <2>1, PlacesNext
  <2>3. /\ phase' # "failed"
        /\ Unspilled(cc)'
    BY <1>4, <2>1, UnspilledNext DEF Roomy
  <2>4. phase' = "prepare" =>
          IF place' <= JumpPlace THEN ScopesOpen(cc, place)' ELSE ScopesSet(cc)'
    BY <1>4, <2>1, ScopesOpenNext, ScopesSetNext DEF Roomy
  <2>5. phase' = "translate" => Within(cc, Live(place))'
    BY <1>4, <2>1, WithinNext DEF Roomy
  <2>6. (phase' = "translate" /\ place' <= JumpPlace) => ScopesSet(cc)'
    BY <1>4, <2>1, ScopesSetNext DEF Roomy
  <2>7. (phase' = "translate" /\ place' \in LoopPlace + 1 .. JumpPlace) => Unmoved(cc, target)'
    BY <1>4, <2>1 DEF Roomy, Unmoved
  <2> QED
    BY <2>2, <2>3, <2>4, <2>5, <2>6, <2>7 DEF ScopeInv, Roomy
<1> QED
  BY <1>1, <1>2, <1>3, <1>4 DEF ScopeInv, Next

\* The inductive invariant: nothing is on the stack, and only what the program
\* still uses is in a register, unless there are chains enough to take them all.
THEOREM ScopeInvariance == Spec => [](CompilerInv /\ ScopeInv)
<1>1. Init => ScopeInv
  BY ScopeInit
<1>2. CompilerInv /\ AssemblerInv /\ ScopeInv /\ [Next]_vars => ScopeInv'
  BY ScopeStep
<1> QED
  BY <1>1, <1>2, Assembled, PTL DEF Spec

\* As long as the first of the heads and the positions fit the registers, the
\* loop of chase_pointers accesses no memory but that of the chains, and the
\* assembler takes all of the function: however long the loop is, with and
\* without prefetches.
THEOREM NothingSpilledCorrect == Spec => []NothingSpilled
<1>1. ASSUME CompilerInv, ScopeInv PROVE NothingSpilled
  <2>1. CASE Roomy
    BY <2>1 DEF NothingSpilled, Roomy, Unspilled, Code
  <2>2. CASE Crowd(cc)
    <3>1. input.chains_per_thread \in Nat /\ input.chains_per_thread >= 14
      BY <1>1, <2>2, InputFields DEF CompilerInv, Crowd
    <3>2. Registers \ {ESP, EBP} = Allocatable
      BY DEF Allocatable
    <3>3. ~ input.chains_per_thread + 1 <= Cardinality(Registers \ {ESP, EBP})
      BY <3>1, <3>2, AllocatableCount
    <3> QED
      BY <3>3 DEF NothingSpilled
  <2> QED
    BY <1>1, <2>1, <2>2 DEF ScopeInv
<1> QED
  BY <1>1, ScopeInvariance, PTL

\* When all the registers were taken, five of them are pushed.
LEMMA FivePushed ==
  ASSUME CompilerInv, Crowd(cc)
  PROVE  Cardinality(Pushed) = 5
<1>1. cc.modified = Allocatable
  BY DEF CompilerInv, Sound, Marked, Crowd
<1>2. Pushed = {3, 12, 13, 14, 15}
  BY <1>1 DEF Pushed, Preserved, Allocatable, Registers, ESP, EBP
<1> DEFINE a == {3}
           b == a \cup {12}
           c == b \cup {13}
           d == c \cup {14}
           e == d \cup {15}
<1>3. e = {3, 12, 13, 14, 15} /\ 12 \notin a /\ 13 \notin b /\ 14 \notin c /\ 15 \notin d
  OBVIOUS
<1>4. IsFiniteSet(a) /\ Cardinality(a) = 1
  BY FS_Singleton
<1> HIDE DEF a
<1>5. IsFiniteSet(b) /\ Cardinality(b) = 2
  BY <1>3, <1>4, FS_AddElement
<1> HIDE DEF b
<1>6. IsFiniteSet(c) /\ Cardinality(c) = 3
  BY <1>3, <1>5, FS_AddElement
<1> HIDE DEF c
<1>7. IsFiniteSet(d) /\ Cardinality(d) = 4
  BY <1>3, <1>6, FS_AddElement
<1> HIDE DEF d
<1>8. Cardinality(e) = 5
  <2>1. 15 \notin d
    BY <1>3
  <2>2. Cardinality(d \cup {15}) = Cardinality(d) + 1
    BY <1>7, <2>1, FS_AddElement
  <2> QED
    BY <1>7, <2>2
<1> QED
  BY <1>2, <1>3, <1>8

\* The slots lie between the end of the red zone and what was pushed, and no
\* variable has two: when there are slots at all, the registers that are
\* pushed are so many that the stack needs nothing to be aligned.
THEOREM SlotsSafeCorrect == Spec => []SlotsSafe
<1>1. ASSUME CompilerInv, ScopeInv PROVE SlotsSafe
  <2> SUFFICES ASSUME phase = "made", NEW k \in DOMAIN cc.frame
               PROVE  /\ SlotAddress(k) >= StackPointer - RedZone
                      /\ SlotAddress(k) + 8 <= 0
                      /\ \A m \in DOMAIN cc.frame : m # k => cc.frame[m] # cc.frame[k]
    BY DEF SlotsSafe
  <2> DEFINE m == Len(cc.frame)
             slots == 8 * m
             whole == ((slots + 15) \div 16) * 16
  <2>1. cc.frame \in Seq(Variables) /\ SlotsDiffer(cc)
    BY <1>1, ContextFields DEF CompilerInv, Sound
  <2>2. m \in Nat /\ k \in 1 .. m
    BY <2>1
  <2>3. Crowd(cc)
    <3>1. cc.frame # <<>>
      BY <2>1, <2>2
    <3> QED
      BY <1>1, <3>1 DEF ScopeInv, Roomy, Unspilled
  <2>4. FrameSize = whole
    <3>1. Cardinality(Pushed) = 5
      BY <1>1, <2>3, FivePushed
    <3> QED
      BY <3>1 DEF FrameSize
  <2>5. SlotAddress(k) = 8 * (m - k) - whole
    BY <2>4 DEF SlotAddress
  <2>6. StackPointer = IF slots > 128 THEN -whole ELSE 0
    BY <2>4 DEF StackPointer, IsEspAdjusted, RedZone
  <2> HIDE DEF m
  <2>7. slots <= whole /\ whole <= slots + 15 /\ whole % 16 = 0 /\ slots \in Nat /\ whole \in Nat
    BY <2>2
  <2>8. slots <= 128 => whole <= 128
    BY <2>2
  <2> HIDE DEF whole
  <2>9. 8 * (m - k) >= 0 /\ 8 * (m - k) + 8 <= slots
    BY <2>2
  <2>10. SlotAddress(k) >= StackPointer - RedZone
    BY <2>2, <2>5, <2>6, <2>7, <2>8, <2>9 DEF RedZone
  <2>11. SlotAddress(k) + 8 <= 0
    BY <2>2, <2>5, <2>7, <2>9
  <2>12. \A j \in DOMAIN cc.frame : j # k => cc.frame[j] # cc.frame[k]
    BY <2>1 DEF SlotsDiffer
  <2> QED
    BY <2>10, <2>11, <2>12
<1> QED
  BY <1>1, ScopeInvariance, PTL
=============================================================================
