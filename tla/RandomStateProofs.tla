-------------------------- MODULE RandomStateProofs --------------------------
(***************************************************************************)
(* Proofs about RandomState, for every number of threads, chains and       *)
(* pages: the mutex and setstate() give every thread its own stream.       *)
(***************************************************************************)
EXTENDS RandomState, TLAPS

USE RandomStateAssumption

\* Between setstate() and the end of a session the thread's own state stays
\* active.
ActiveInv == \A t \in Threads : pc[t] \in {"factor", "offset"} => active = t

\* Nobody else ever draws from a thread's state.
PositionInv == \A t \in Threads : position[t] = Len(drawn[t])

\* The draws of the sessions a thread has finished, but for the one that
\* follows the last page.
Sessions(t) == (PagesPerChain + 1) * chain[t] + page[t]
Before(t) == 2 * Sessions(t)

\* The draws of a thread, counted along its program.
ThreadDraws(t) ==
  /\ pc[t] \in {"lock", "setState", "factor", "ready"}
       => Len(drawn[t]) = Before(t)
  /\ pc[t] = "offset" => Len(drawn[t]) = Before(t) + 1
  /\ pc[t] \in {"unlock", "lockOps", "writeOps", "unlockOps"}
       => Len(drawn[t]) = Before(t) + 2
  /\ pc[t] \in {"lockOps", "writeOps", "unlockOps"}
       => page[t] = PagesPerChain
  /\ pc[t] = "ready" => page[t] = 0

DrawsInv == \A t \in Threads : ThreadDraws(t)

\* A thread that has initialised all its chains is ready.
ChainInv ==
  \A t \in Threads : pc[t] # "ready" => chain[t] < ChainsPerThread

IInv ==
  /\ TypeOK
  /\ MutualExclusion
  /\ ActiveInv
  /\ PositionInv
  /\ OwnStream
  /\ DrawsInv
  /\ ChainInv
  /\ OpsAgree

-----------------------------------------------------------------------------
LEMMA NobodyIsNoThread == Nobody \notin Threads
BY DEF Nobody, Threads

LEMMA BeforeType ==
  ASSUME TypeOK, NEW t \in Threads
  PROVE  /\ chain[t] \in Nat /\ page[t] \in Nat
         /\ Before(t) \in Nat
         /\ Len(drawn[t]) \in Nat
<1>1. chain[t] \in Nat /\ page[t] \in Nat /\ drawn[t] \in Seq(Threads \X Nat)
  BY DEF TypeOK
<1>2. (PagesPerChain + 1) * chain[t] \in Nat
  <2>1. \A m, n \in Nat : m * n \in Nat
    OBVIOUS
  <2> QED
    BY <1>1, <2>1
<1>3. Sessions(t) \in Nat
  BY <1>1, <1>2 DEF Sessions
<1> QED
  BY <1>1, <1>3 DEF Before

\* A draw of a thread whose state is active is the next of its own stream.
LEMMA DrawOwn ==
  ASSUME IInv, NEW t \in Threads, pc[t] \in {"factor", "offset"}, Random(t)
  PROVE  /\ drawn' = [drawn EXCEPT ![t] = Append(@, <<t, Len(@)>>)]
         /\ position' = [position EXCEPT ![t] = Len(drawn[t]) + 1]
BY DEF IInv, TypeOK, ActiveInv, PositionInv, Random

LEMMA OneMoreChain ==
  ASSUME NEW pages \in Int, NEW k \in Int
  PROVE  (pages + 1) * (k + 1) = (pages + 1) * k + pages + 1
<1> DEFINE m == pages + 1
<1>1. m \in Int /\ m * (k + 1) = m * k + m /\ m * k \in Int
  OBVIOUS
<1>2. m = pages + 1
  OBVIOUS
<1> HIDE DEF m
<1>3. m * (k + 1) = m * k + pages + 1
  BY <1>1, <1>2
<1> QED
  BY <1>3 DEF m

LEMMA InitInvariant == Init => IInv
<1> SUFFICES ASSUME Init PROVE IInv
  OBVIOUS
<1>1. TypeOK
  BY DEF Init, TypeOK, Threads, Nobody, Label
<1>2. MutualExclusion
  BY DEF Init, MutualExclusion, Locked, Threads, Nobody
<1>3. ActiveInv /\ PositionInv /\ OwnStream /\ ChainInv /\ OpsAgree
  BY DEF Init, ActiveInv, PositionInv, OwnStream, ChainInv, OpsAgree
<1>4. DrawsInv
  BY DEF Init, DrawsInv, ThreadDraws, Before, Sessions
<1> QED
  BY <1>1, <1>2, <1>3, <1>4 DEF IInv

\* Taking the mutex.
LEMMA LockStep ==
  ASSUME IInv, NEW t \in Threads, Lock(t) \/ LockOps(t)
  PROVE  IInv'
<1>1. TypeOK'
  BY DEF IInv, TypeOK, Lock, LockOps, Goto, Label
<1>2. MutualExclusion'
  BY NobodyIsNoThread
     DEF IInv, TypeOK, MutualExclusion, Locked, Lock, LockOps, Goto
<1>3. ActiveInv' /\ PositionInv' /\ OwnStream' /\ ChainInv' /\ OpsAgree'
  BY DEF IInv, TypeOK, ActiveInv, PositionInv, OwnStream, ChainInv, OpsAgree,
     Lock, LockOps, Goto
<1>4. DrawsInv'
  BY DEF IInv, TypeOK, DrawsInv, ThreadDraws, Before, Sessions, Lock, LockOps, Goto
<1> QED
  BY <1>1, <1>2, <1>3, <1>4 DEF IInv

LEMMA SetStateStep ==
  ASSUME IInv, NEW t \in Threads, SetState(t)
  PROVE  IInv'
<1>1. TypeOK'
  BY DEF IInv, TypeOK, SetState, Goto, Label
<1>2. MutualExclusion'
  BY DEF IInv, TypeOK, MutualExclusion, Locked, SetState, Goto
<1>3. ActiveInv'
  BY DEF IInv, TypeOK, ActiveInv, MutualExclusion, Locked, SetState, Goto
<1>4. PositionInv' /\ OwnStream' /\ ChainInv' /\ OpsAgree'
  BY DEF IInv, TypeOK, PositionInv, OwnStream, ChainInv, OpsAgree, SetState,
     Goto
<1>5. DrawsInv'
  BY DEF IInv, TypeOK, DrawsInv, ThreadDraws, Before, Sessions, SetState, Goto
<1> QED
  BY <1>1, <1>2, <1>3, <1>4, <1>5 DEF IInv

LEMMA DrawStep ==
  ASSUME IInv, NEW t \in Threads, DrawFactor(t) \/ DrawOffset(t)
  PROVE  IInv'
<1>1. /\ pc[t] \in {"factor", "offset"} /\ Random(t)
      /\ pc' = [pc EXCEPT ![t] = IF pc[t] = "factor" THEN "offset" ELSE "unlock"]
      /\ UNCHANGED <<owner, active, page, chain, ops>>
  BY DEF DrawFactor, DrawOffset, Goto
<1>2. /\ drawn' = [drawn EXCEPT ![t] = Append(drawn[t], <<t, Len(drawn[t])>>)]
      /\ position' = [position EXCEPT ![t] = Len(drawn[t]) + 1]
  BY <1>1, DrawOwn
<1>3. /\ drawn[t] \in Seq(Threads \X Nat) /\ Len(drawn[t]) \in Nat
      /\ drawn'[t] = Append(drawn[t], <<t, Len(drawn[t])>>)
      /\ drawn'[t] \in Seq(Threads \X Nat)
      /\ Len(drawn'[t]) = Len(drawn[t]) + 1
  <2>1. drawn \in [Threads -> Seq(Threads \X Nat)]
    BY DEF IInv, TypeOK
  <2>2. /\ drawn[t] \in Seq(Threads \X Nat) /\ Len(drawn[t]) \in Nat
        /\ drawn'[t] = Append(drawn[t], <<t, Len(drawn[t])>>)
    BY <1>2, <2>1
  <2>3. <<t, Len(drawn[t])>> \in Threads \X Nat
    BY <2>2
  <2> QED
    BY <2>2, <2>3
<1>4. \A u \in Threads \ {t} : drawn'[u] = drawn[u]
  BY <1>2 DEF IInv, TypeOK
<1>5. TypeOK'
  <2>1. drawn' \in [Threads -> Seq(Threads \X Nat)]
    BY <1>2, <1>3 DEF IInv, TypeOK
  <2>2. position' \in [Threads -> Nat]
    <3>1. position \in [Threads -> Nat]
      BY DEF IInv, TypeOK
    <3> QED
      BY <1>2, <1>3, <3>1
  <2>3. pc' \in [Threads -> Label]
    <3>1. {"offset", "unlock"} \subseteq Label
      BY DEF Label
    <3> QED
      BY <1>1, <3>1 DEF IInv, TypeOK
  <2> QED
    BY <1>1, <2>1, <2>2, <2>3 DEF IInv, TypeOK
<1>6. MutualExclusion'
  BY <1>1 DEF IInv, TypeOK, MutualExclusion, Locked
<1>7. ActiveInv' /\ ChainInv' /\ OpsAgree'
  BY <1>1 DEF IInv, TypeOK, ActiveInv, ChainInv, OpsAgree
<1>8. PositionInv'
  BY <1>2, <1>3, <1>4 DEF IInv, TypeOK, PositionInv
<1>9. OwnStream'
  <2> SUFFICES ASSUME NEW u \in Threads, NEW k \in 1 .. Len(drawn'[u])
               PROVE  drawn'[u][k] = <<u, k - 1>>
    BY DEF OwnStream
  <2>1. CASE u # t
    BY <1>4, <2>1 DEF IInv, OwnStream
  <2>2. CASE u = t /\ k <= Len(drawn[t])
    <3>1. drawn'[t][k] = drawn[t][k]
      BY <1>3, <2>2
    <3>2. k \in 1 .. Len(drawn[t])
      BY <1>3, <2>2
    <3> QED
      BY <2>2, <3>1, <3>2 DEF IInv, OwnStream
  <2>3. CASE u = t /\ k = Len(drawn[t]) + 1
    BY <1>3, <2>3
  <2> QED
    BY <1>3, <2>1, <2>2, <2>3
<1>10. DrawsInv'
  <2>1. \A u \in Threads : Before(u)' = Before(u)
    BY <1>1 DEF Before, Sessions
  <2>2. Before(t) \in Nat
    BY BeforeType DEF IInv
  <2> QED
    <3> SUFFICES ASSUME NEW u \in Threads PROVE ThreadDraws(u)'
      BY DEF DrawsInv
    <3>1. ThreadDraws(u)
      BY DEF IInv, DrawsInv, ThreadDraws
    <3>2. CASE u # t
      BY <1>1, <1>4, <2>1, <3>1, <3>2 DEF IInv, TypeOK, ThreadDraws
    <3>3. ThreadDraws(t)'
      <4>1. ThreadDraws(t) /\ Before(t)' = Before(t) /\ pc'[t] =
              IF pc[t] = "factor" THEN "offset" ELSE "unlock"
        BY <1>1, <2>1 DEF IInv, TypeOK, DrawsInv
      <4>2. CASE pc[t] = "factor"
        BY <1>3, <2>2, <4>1, <4>2 DEF ThreadDraws
      <4>3. CASE pc[t] = "offset"
        BY <1>3, <2>2, <4>1, <4>3 DEF ThreadDraws
      <4> QED
        BY <1>1, <4>2, <4>3
    <3> QED
      BY <3>2, <3>3
<1> QED
  BY <1>5, <1>6, <1>7, <1>8, <1>9, <1>10 DEF IInv

LEMMA UnlockStep ==
  ASSUME IInv, NEW t \in Threads, Unlock(t)
  PROVE  IInv'
<1>1. TypeOK'
  BY DEF IInv, TypeOK, Unlock, Goto, Label
<1>2. MutualExclusion'
  BY NobodyIsNoThread
     DEF IInv, TypeOK, MutualExclusion, Locked, Unlock, Goto
<1>3. ActiveInv' /\ PositionInv' /\ OwnStream' /\ ChainInv' /\ OpsAgree'
  BY DEF IInv, TypeOK, ActiveInv, PositionInv, OwnStream, ChainInv, OpsAgree,
     Unlock, Goto
<1>4. DrawsInv'
  <2>1. \A u \in Threads : /\ chain[u] \in Nat /\ page[u] \in Nat
                           /\ Before(u) \in Nat /\ Len(drawn[u]) \in Nat
    BY BeforeType DEF IInv
  <2>2. \A u \in Threads \ {t} : Before(u)' = Before(u)
    BY DEF IInv, TypeOK, Unlock, Before, Sessions
  <2>3. CASE page[t] < PagesPerChain
    <3>1. page'[t] = page[t] + 1 /\ chain' = chain /\ drawn' = drawn
          /\ pc[t] = "unlock" /\ pc'[t] = "lock"
      BY <2>3 DEF IInv, TypeOK, Unlock, Goto
    <3>2. (PagesPerChain + 1) * chain[t] \in Int
      BY <2>1
    <3>3. Sessions(t)' = Sessions(t) + 1
      BY <2>1, <3>1, <3>2 DEF Sessions
    <3>4. Sessions(t) \in Int
      BY <2>1, <3>2 DEF Sessions
    <3>5. Before(t)' = Before(t) + 2
      BY <3>3, <3>4 DEF Before
    <3>6. ThreadDraws(t)'
      BY <3>1, <3>5 DEF IInv, DrawsInv, ThreadDraws
    <3> QED
      BY <2>2, <3>6 DEF IInv, TypeOK, DrawsInv, ThreadDraws, Unlock, Goto
  <2>4. CASE ~(page[t] < PagesPerChain)
    <3>1. UNCHANGED <<page, chain, drawn>> /\ page[t] = PagesPerChain
          /\ pc[t] = "unlock" /\ pc'[t] = "lockOps"
      BY <2>4 DEF IInv, TypeOK, Unlock, Goto
    <3>2. Before(t)' = Before(t)
      BY <3>1 DEF Before, Sessions
    <3>3. ThreadDraws(t)'
      BY <3>1, <3>2 DEF IInv, DrawsInv, ThreadDraws
    <3> QED
      BY <2>2, <3>3 DEF IInv, TypeOK, DrawsInv, ThreadDraws, Unlock, Goto
  <2> QED
    BY <2>3, <2>4
<1> QED
  BY <1>1, <1>2, <1>3, <1>4 DEF IInv

LEMMA WriteOpsStep ==
  ASSUME IInv, NEW t \in Threads, WriteOps(t)
  PROVE  IInv'
<1>1. page[t] = PagesPerChain /\ PagesPerChain * LinesPerPage \in Nat
  BY DEF IInv, DrawsInv, ThreadDraws, WriteOps, Goto
<1>2. ops' = PagesPerChain * LinesPerPage
  BY <1>1 DEF WriteOps
<1>3. TypeOK'
  BY <1>1, <1>2 DEF IInv, TypeOK, WriteOps, Goto, Label
<1>4. MutualExclusion'
  BY DEF IInv, TypeOK, MutualExclusion, Locked, WriteOps, Goto
<1>5. ActiveInv' /\ PositionInv' /\ OwnStream' /\ ChainInv'
  BY DEF IInv, TypeOK, ActiveInv, PositionInv, OwnStream, ChainInv, WriteOps,
     Goto
<1>6. OpsAgree'
  BY <1>2 DEF OpsAgree
<1>7. DrawsInv'
  BY DEF IInv, TypeOK, DrawsInv, ThreadDraws, Before, Sessions, WriteOps, Goto
<1> QED
  BY <1>3, <1>4, <1>5, <1>6, <1>7 DEF IInv

LEMMA UnlockOpsStep ==
  ASSUME IInv, NEW t \in Threads, UnlockOps(t)
  PROVE  IInv'
<1>1. /\ chain[t] < ChainsPerThread /\ chain[t] \in Nat
      /\ page[t] = PagesPerChain
      /\ Len(drawn[t]) = 2 * ((PagesPerChain + 1) * chain[t] + PagesPerChain) + 2
  <2>1. pc[t] = "unlockOps" /\ ThreadDraws(t)
    BY DEF IInv, DrawsInv, UnlockOps, Goto
  <2>2. chain[t] < ChainsPerThread /\ chain[t] \in Nat
    BY <2>1 DEF IInv, TypeOK, ChainInv
  <2>3. page[t] = PagesPerChain /\ Len(drawn[t]) = Before(t) + 2
    BY <2>1 DEF ThreadDraws
  <2>4. Before(t) = 2 * ((PagesPerChain + 1) * chain[t] + PagesPerChain)
    BY <2>3 DEF Before, Sessions
  <2> QED
    BY <2>2, <2>3, <2>4
<1>2. TypeOK'
  <2>1. chain[t] + 1 \in 0 .. ChainsPerThread
    BY <1>1
  <2> QED
    BY <2>1 DEF IInv, TypeOK, UnlockOps, Goto, Label
<1>3. MutualExclusion'
  BY NobodyIsNoThread
     DEF IInv, TypeOK, MutualExclusion, Locked, UnlockOps, Goto
<1>4. ActiveInv' /\ PositionInv' /\ OwnStream'
  BY DEF IInv, TypeOK, ActiveInv, PositionInv, OwnStream, UnlockOps, Goto
<1>5. ChainInv' /\ OpsAgree'
  BY <1>1 DEF IInv, TypeOK, ChainInv, OpsAgree, UnlockOps, Goto
<1>6. DrawsInv'
  <2>1. /\ pc'[t] \in {"lock", "ready"} /\ page'[t] = 0
        /\ chain'[t] = chain[t] + 1 /\ drawn' = drawn
    BY DEF IInv, TypeOK, UnlockOps, Goto
  <2>2. (PagesPerChain + 1) * (chain[t] + 1) + 0
          = (PagesPerChain + 1) * chain[t] + PagesPerChain + 1
    <3>1. (PagesPerChain + 1) * (chain[t] + 1)
            = (PagesPerChain + 1) * chain[t] + PagesPerChain + 1
      <4>1. PagesPerChain \in Int /\ chain[t] \in Int
        BY <1>1
      <4> QED
        BY <4>1, OneMoreChain, Zenon
    <3>2. (PagesPerChain + 1) * (chain[t] + 1) \in Int
      BY <1>1
    <3> QED
      BY <3>1, <3>2
  <2>3. Sessions(t)' = (PagesPerChain + 1) * chain[t] + PagesPerChain + 1
    BY <2>1, <2>2 DEF Sessions
  <2>4. (PagesPerChain + 1) * chain[t] \in Int
    BY <1>1
  <2>5. Before(t)' = Len(drawn[t])
    BY <1>1, <2>3, <2>4 DEF Before
  <2>6. ThreadDraws(t)'
    BY <2>1, <2>5 DEF ThreadDraws
  <2>7. \A u \in Threads \ {t} : ThreadDraws(u)' <=> ThreadDraws(u)
    BY DEF IInv, TypeOK, UnlockOps, Goto, ThreadDraws, Before, Sessions
  <2> QED
    BY <2>6, <2>7 DEF IInv, DrawsInv
<1> QED
  BY <1>2, <1>3, <1>4, <1>5, <1>6 DEF IInv

LEMMA NextInvariant == IInv /\ [Next]_vars => IInv'
<1> SUFFICES ASSUME IInv, [Next]_vars PROVE IInv'
  OBVIOUS
<1>1. ASSUME NEW t \in Threads, Thread(t) PROVE IInv'
  BY <1>1, LockStep, SetStateStep, DrawStep, UnlockStep, WriteOpsStep,
     UnlockOpsStep DEF Thread
<1>2. CASE UNCHANGED vars
  BY <1>2 DEF vars, IInv, TypeOK, MutualExclusion, ActiveInv, PositionInv,
     OwnStream, DrawsInv, ThreadDraws, Before, Sessions, ChainInv, OpsAgree
<1> QED
  BY <1>1, <1>2 DEF Next, Terminating

-----------------------------------------------------------------------------
(* The theorems.                                                           *)

THEOREM Invariance == Spec => []IInv
BY InitInvariant, NextInvariant, PTL DEF Spec

\* The loops over pages and chains never run past their bounds
\* (run.cpp:403, 110), and every number is drawn from some thread's state.
THEOREM TypeCorrect == Spec => []TypeOK
<1>1. IInv => TypeOK
  BY DEF IInv
<1> QED
  BY <1>1, Invariance, PTL

\* random() is never entered by two threads (run.cpp:394-411).
THEOREM MutualExclusionCorrect == Spec => []MutualExclusion
<1>1. IInv => MutualExclusion
  BY DEF IInv
<1> QED
  BY <1>1, Invariance, PTL

\* The chains of a thread depend on its own seed alone (run.cpp:397-411).
THEOREM OwnStreamCorrect == Spec => []OwnStream
<1>1. IInv => OwnStream
  BY DEF IInv
<1> QED
  BY <1>1, Invariance, PTL

\* No draw is lost to, or taken from, another thread's state.
THEOREM DrawsPerChainCorrect == Spec => []DrawsPerChain
<1>1. ASSUME IInv PROVE DrawsPerChain
  <2> SUFFICES ASSUME NEW t \in Threads,
                      pc[t] \in {"lockOps", "writeOps", "unlockOps", "ready"}
               PROVE  /\ position[t] = Len(drawn[t])
                      /\ LET chains == chain[t] + IF pc[t] = "ready" THEN 0 ELSE 1
                         IN  Len(drawn[t]) = 2 * ((PagesPerChain + 1) * chains)
    BY DEF DrawsPerChain
  <2>1. position[t] = Len(drawn[t]) /\ chain[t] \in Nat /\ ThreadDraws(t)
    BY <1>1 DEF IInv, TypeOK, PositionInv, DrawsInv
  <2>2. (PagesPerChain + 1) * chain[t] \in Int
    BY <2>1
  <2>3. CASE pc[t] = "ready"
    <3>1. page[t] = 0 /\ Len(drawn[t]) = Before(t)
      BY <2>1, <2>3 DEF ThreadDraws
    <3>2. Before(t) = 2 * ((PagesPerChain + 1) * chain[t])
      BY <2>2, <3>1 DEF Before, Sessions
    <3> QED
      BY <2>1, <2>3, <3>1, <3>2
  <2>4. CASE pc[t] # "ready"
    <3>1. page[t] = PagesPerChain /\ Len(drawn[t]) = Before(t) + 2
      BY <2>1, <2>4 DEF ThreadDraws
    <3>2. Before(t) + 2 = 2 * ((PagesPerChain + 1) * chain[t] + PagesPerChain + 1)
      BY <2>2, <3>1 DEF Before, Sessions
    <3>3. (PagesPerChain + 1) * (chain[t] + 1)
            = (PagesPerChain + 1) * chain[t] + PagesPerChain + 1
      <4>1. PagesPerChain \in Int /\ chain[t] \in Int
        BY <2>1
      <4> QED
        BY <4>1, OneMoreChain, Zenon
    <3> QED
      BY <2>1, <2>4, <3>1, <3>2, <3>3
  <2> QED
    BY <2>3, <2>4
<1> QED
  BY <1>1, Invariance, PTL

\* What main prints is what every thread counted (run.cpp:435).
THEOREM OpsAgreeCorrect == Spec => []OpsAgree
<1>1. IInv => OpsAgree
  BY DEF IInv
<1> QED
  BY <1>1, Invariance, PTL
=============================================================================
