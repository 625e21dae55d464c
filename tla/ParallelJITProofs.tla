-------------------------- MODULE ParallelJITProofs --------------------------
(* The gate of ParallelJIT.cpp, for any number of worker threads.          *)
EXTENDS ParallelJIT, TLAPS, FiniteSetTheorems

(* The counters stay in range whatever the wakeups and the failures.       *)
LEMMA NumType == num \in Nat
  BY ThreadsAssumption, FS_CardinalityType DEF num

LEMMA CountInvStep == CountInv /\ [Next]_vars => CountInv'
<1> SUFFICES ASSUME CountInv, [Next]_vars PROVE CountInv'
  OBVIOUS
<1> USE ThreadsAssumption, NumType
    DEF CountInv, TypeOK, Threads, WorkerPlaces, MainPlaces
<1>1. ASSUME NEW w \in Workers, WorkerStep(w) PROVE CountInv'
  <2>1. w \in Threads /\ w # Main
    OBVIOUS
  <2>2. CASE Lock(w)
    BY <2>1, <2>2 DEF Lock, Acquire, Goto
  <2>3. CASE Block(w)
    BY <2>1, <2>3 DEF Block, UnblockThreads, CondWait, Goto, Waiting, NoOne
  <2>4. CASE Reacquire(w)
    BY <2>1, <2>4 DEF Reacquire, Acquire, Goto
  <2>5. CASE Unlock(w)
    BY <2>1, <2>5 DEF Unlock, Goto
  <2>6. CASE RunFunction(w)
    BY <2>1, <2>6 DEF RunFunction, Goto
  <2>7. CASE UseDestroyed(w)
    BY <2>7 DEF UseDestroyed, Goto
  <2>8. QED
    BY <1>1, <2>2, <2>3, <2>4, <2>5, <2>6, <2>7 DEF WorkerStep
<1>2. ASSUME NEW w \in Workers, CreateThread(w) PROVE CountInv'
  BY <1>2 DEF CreateThread
<1>3. ASSUME NEW w \in Workers, Join(w) PROVE CountInv'
  BY <1>3 DEF Join
<1>4. CASE AllCreated \/ CreateFails \/ JoinFails \/ JoinedAll \/ Exit
  BY <1>4 DEF AllCreated, CreateFails, JoinFails, JoinedAll, Exit, Goto
<1>5. CASE Lock(Main)
  BY <1>5 DEF Lock, Acquire, Goto
<1>6. CASE ReleaseThreads
  BY <1>6 DEF ReleaseThreads, UnblockThreads, CondWait, Goto, Waiting, NoOne
<1>7. CASE Reacquire(Main)
  BY <1>7 DEF Reacquire, Acquire, Goto
<1>8. CASE Unlock(Main)
  BY <1>8 DEF Unlock, Goto
<1>9. CASE Destroy
  BY <1>9 DEF Destroy, Goto
<1>10. ASSUME NEW t \in Threads, SpuriousWakeup(t) PROVE CountInv'
  BY <1>10 DEF SpuriousWakeup, Goto
<1>11. CASE UNCHANGED vars
  BY <1>11 DEF vars
<1>12. QED
  BY <1>1, <1>2, <1>3, <1>4, <1>5, <1>6, <1>7, <1>8, <1>9, <1>10, <1>11
     DEF Next, MainStep, Ended

LEMMA CountInvInit == Init => CountInv
<1> SUFFICES ASSUME Init PROVE CountInv
  OBVIOUS
<1>1. pc \in [Threads -> WorkerPlaces \cup MainPlaces]
  BY DEF Init, WorkerPlaces, MainPlaces
<1>2. pc[Main] \in MainPlaces /\ \A w \in Workers : pc[w] \in WorkerPlaces
  BY ThreadsAssumption DEF Init, Threads, WorkerPlaces, MainPlaces
<1>3. QED
  BY <1>1, <1>2 DEF Init, CountInv, TypeOK

(* Types, and a release that is waited for lacks some worker: with         *)
(* spurious wakeups and failures of the other calls too.                    *)
THEOREM CountInvariant == Spec => []CountInv
  BY CountInvInit, CountInvStep, PTL DEF Spec

(* The gate's counters, the mutex and the threads' places keep their types, *)
(* in the calls of block() and releaseThreads() whatever wakes them.         *)
THEOREM TypesAreRight == Spec => []TypeOK
<1>1. CountInv => TypeOK
  BY DEF CountInv
<1>2. QED
  BY <1>1, CountInvariant, PTL

(* The assertion in block() never fails.                                   *)
THEOREM BlockNeverAsserts == Spec => []BlockAssertion
<1>1. CountInv => BlockAssertion
  BY DEF CountInv, TypeOK, BlockAssertion
<1>2. QED
  BY <1>1, CountInvariant, PTL

-----------------------------------------------------------------------------
LEMMA CountedCardinality ==
  /\ IsFiniteSet(Counted) /\ Cardinality(Counted) \in Nat
  /\ Cardinality(Counted) <= num
  /\ Cardinality(Counted) = num => Counted = Workers
<1>1. Counted \in SUBSET Workers
  BY DEF Counted
<1>2. QED
  BY <1>1, ThreadsAssumption, FS_Subset, FS_CardinalityType DEF num

(* A step that moves threads only before the gate or past it, and leaves   *)
(* the counters alone, keeps the invariant.                                *)
LEMMA QuietStep ==
  ASSUME GateInv, TypeOK', UNCHANGED <<n, waitFor>>,
         Counted' = Counted, Opened' = Opened,
         pc'[Main] = "wait" <=> pc[Main] = "wait",
         Opened => /\ \A t \in Threads : pc'[t] # "wait"
                   /\ pc'[Main] \notin {"create", "call", "test"}
  PROVE  GateInv'
  BY DEF GateInv, OpenInv, ClosedInv, num

(* The last of the threads the release needs opens the gate for all.       *)
LEMMA OpeningStep ==
  ASSUME GateInv, TypeOK', ~Opened, NEW t \in Threads, UnblockThreads(t),
         \A w \in Workers : w # t => w \in Counted,
         t = Main \/ pc[Main] = "wait"
  PROVE  GateInv'
<1> USE ThreadsAssumption DEF Threads
<1>1. \A w \in Workers : pc'[w] \notin {"new", "call", "count", "wait"}
  <2> SUFFICES ASSUME NEW w \in Workers
               PROVE  pc'[w] \notin {"new", "call", "count", "wait"}
    OBVIOUS
  <2>1. CASE w = t
    BY <2>1 DEF UnblockThreads
  <2>2. CASE w # t
    <3>1. pc[w] \in {"wait"}
      BY <2>2 DEF GateInv, Opened, Freed, Counted, TypeOK, WorkerPlaces
    <3>2. QED
      BY <2>2, <3>1 DEF UnblockThreads, Waiting
  <2>3. QED
    BY <2>1, <2>2
<1>2. pc'[Main] \in {"wake", "unlock"}
  BY DEF UnblockThreads, Waiting
<1>3. Counted' = Workers
  BY <1>1 DEF Counted
<1>4. Opened'
  BY <1>2 DEF Opened
<1>5. OpenInv'
  BY <1>1, <1>2, <1>3 DEF OpenInv, UnblockThreads
<1>6. QED
  BY <1>4, <1>5 DEF GateInv

LEMMA GateInvStep ==
  ASSUME "spurious" \notin faults, GateInv, [Next]_vars PROVE GateInv'
<1> USE ThreadsAssumption DEF Threads
<1>0. TypeOK /\ TypeOK'
  <2>1. CountInv
    BY NumType DEF GateInv, CountInv, OpenInv, ClosedInv, TypeOK
  <2>2. QED
    BY <2>1, CountInvStep DEF CountInv
<1>0a. \A t \in Threads : \A to : pc' = [pc EXCEPT ![t] = to] =>
         /\ pc'[t] = to /\ \A u \in Threads : u # t => pc'[u] = pc[u]
  BY <1>0 DEF TypeOK
<1>1. ASSUME NEW w \in Workers, Lock(w) PROVE GateInv'
  <2>1. pc[w] = "call" /\ pc'[w] = "count"
        /\ \A u \in Threads : u # w => pc'[u] = pc[u]
    BY <1>1, <1>0a DEF Lock, Acquire, Goto
  <2>2. Counted' = Counted /\ Freed' = Freed
    BY <2>1 DEF Counted, Freed
  <2>3. QED
    BY <1>0, <1>1, <2>1, <2>2, QuietStep
       DEF GateInv, OpenInv, Opened, Lock, Acquire
<1>2. ASSUME NEW w \in Workers, Block(w) PROVE GateInv'
  <2>1. ~Opened /\ w \notin Counted
    BY <1>2 DEF GateInv, OpenInv, Block, Counted
  <2>2. ClosedInv
    BY <2>1 DEF GateInv
  <2>3. /\ IsFiniteSet(Counted \cup {w})
        /\ Cardinality(Counted \cup {w}) = n + 1
    BY <2>1, <2>2, CountedCardinality, FS_AddElement DEF ClosedInv
  <2>4. CASE waitFor > 0 /\ n + 1 = waitFor
    <3>1. pc[Main] = "wait" /\ n + 1 = num
      BY <2>2, <2>4 DEF ClosedInv
    <3>2. Counted \cup {w} \in SUBSET Workers
      BY DEF Counted
    <3>3. Counted \cup {w} = Workers
      BY <2>3, <3>1, <3>2, FS_Subset DEF num
    <3>4. UnblockThreads(w)
      BY <1>2, <2>4 DEF Block
    <3>5. QED
      BY <1>0, <2>1, <3>1, <3>3, <3>4, OpeningStep
  <2>5. CASE ~(waitFor > 0 /\ n + 1 = waitFor)
    <3>1. pc'[w] = "wait" /\ (\A u \in Threads : u # w => pc'[u] = pc[u])
          /\ n' = n + 1 /\ waitFor' = waitFor
      BY <1>2, <2>5, <1>0a DEF Block, CondWait, Goto
    <3>2. Counted' = Counted \cup {w}
      BY <3>1 DEF Counted
    <3>3. Freed' = Freed /\ Opened' = Opened
      BY <1>2, <3>1 DEF Freed, Opened, Block
    <3>4. pc'[Main] = "wait" => n' < num
      BY <1>0, <2>2, <2>5, <3>1, NumType DEF ClosedInv, TypeOK
    <3>5. ClosedInv'
      BY <2>2, <2>3, <3>1, <3>2, <3>4 DEF ClosedInv, num
    <3>6. QED
      BY <1>0, <2>1, <3>3, <3>5 DEF GateInv
  <2>6. QED
    BY <2>4, <2>5
<1>3. ASSUME NEW w \in Workers, Reacquire(w) \/ Unlock(w) \/ RunFunction(w)
      PROVE  GateInv'
  <2>1. pc[w] \in {"wake", "unlock", "run"} /\ pc'[w] \in {"unlock", "run", "done"}
        /\ (\A u \in Threads : u # w => pc'[u] = pc[u])
        /\ UNCHANGED <<n, waitFor>>
    BY <1>3, <1>0a DEF Reacquire, Acquire, Unlock, RunFunction, Goto
  <2>2. Counted' = Counted /\ Freed' = Freed
    BY <2>1 DEF Counted, Freed
  <2>3. QED
    BY <1>0, <2>1, <2>2, QuietStep DEF GateInv, OpenInv, Opened
<1>4. ASSUME NEW w \in Workers, CreateThread(w) PROVE GateInv'
  <2>1. pc[w] = "new" /\ pc'[w] = "call" /\ pc[Main] = "create"
        /\ (\A u \in Threads : u # w => pc'[u] = pc[u])
        /\ UNCHANGED <<n, waitFor>>
    BY <1>4, <1>0a DEF CreateThread
  <2>2. Counted' = Counted /\ Freed' = Freed
    BY <2>1 DEF Counted, Freed
  <2>3. QED
    BY <1>0, <2>1, <2>2, QuietStep DEF GateInv, OpenInv, Opened
<1>5. ASSUME NEW from, NEW to, pc[Main] = from, Goto(Main, to),
             UNCHANGED <<n, waitFor>>, to # "wait", from # "wait",
             to \in {"wake", "unlock", "join"} <=>
             from \in {"wake", "unlock", "join"},
             to \in {"call", "test", "create"} =>
             from \in {"call", "test", "create"}
      PROVE  GateInv'
  <2>1. pc'[Main] = to /\ (\A u \in Threads : u # Main => pc'[u] = pc[u])
    BY <1>5, <1>0a DEF Goto
  <2>2. Counted' = Counted /\ Freed' = Freed
    BY <2>1 DEF Counted, Freed
  <2>3. QED
    BY <1>0, <1>5, <2>1, <2>2, QuietStep DEF GateInv, OpenInv, Opened
<1>6. CASE AllCreated
  BY <1>5, <1>6 DEF AllCreated
<1>7. CASE CreateFails
  BY <1>5, <1>7 DEF CreateFails
<1>8. CASE Lock(Main)
  BY <1>5, <1>8 DEF Lock, Acquire
<1>9. CASE Unlock(Main)
  BY <1>5, <1>9 DEF Unlock
<1>10. CASE Exit
  BY <1>5, <1>10 DEF Exit
<1>11. CASE Reacquire(Main)
  <2>1. Goto(Main, "unlock") /\ UNCHANGED <<n, waitFor>> /\ pc[Main] = "wake"
    BY <1>11 DEF Reacquire, Acquire
  <2>2. QED
    BY <1>5, <2>1
<1>12. CASE JoinFails \/ JoinedAll
  <2>1. pc[Main] = "join" /\ pc'[Main] = "return"
        /\ (\A u \in Threads : u # Main => pc'[u] = pc[u])
        /\ UNCHANGED <<n, waitFor>>
    BY <1>12, <1>0a DEF JoinFails, JoinedAll, Goto
  <2>2. Counted' = Counted /\ Freed' = Freed
    BY <2>1 DEF Counted, Freed
  <2>3. OpenInv /\ OpenInv'
    BY <2>1, <2>2 DEF GateInv, Opened, OpenInv
  <2>4. CASE Opened'
    BY <1>0, <2>3, <2>4 DEF GateInv
  <2>5. CASE ~Opened'
    <3>1. \A w \in Workers : pc[w] \notin {"wake", "unlock", "run", "done"}
      BY <2>2, <2>5 DEF Opened, Freed
    <3>2. \A w \in Workers : pc[w] \notin {"new", "call", "count", "wait"}
      BY <2>3 DEF OpenInv, Counted
    <3>3. Workers = {}
      BY <1>0, <3>1, <3>2 DEF TypeOK, WorkerPlaces
    <3>4. Cardinality(Counted') = 0
      BY <2>2, <2>3, <3>3, FS_EmptySet DEF OpenInv
    <3>5. QED
      BY <1>0, <2>1, <2>3, <2>5, <3>4 DEF GateInv, ClosedInv, OpenInv
  <2>6. QED
    BY <2>4, <2>5
<1>13. CASE ReleaseThreads
  <2>1. ~Opened
    BY <1>13 DEF GateInv, OpenInv, ReleaseThreads
  <2>2. ClosedInv
    BY <2>1 DEF GateInv
  <2>3. CASE n >= num
    <3>1. Counted = Workers
      BY <2>2, <2>3, CountedCardinality, NumType DEF ClosedInv
    <3>2. UnblockThreads(Main)
      BY <1>13, <2>3 DEF ReleaseThreads
    <3>3. QED
      BY <1>0, <2>1, <3>1, <3>2, OpeningStep
  <2>4. CASE ~(n >= num)
    <3>1. pc'[Main] = "wait" /\ (\A u \in Threads : u # Main => pc'[u] = pc[u])
          /\ n' = n /\ waitFor' = num /\ pc[Main] = "test"
      BY <1>13, <2>4, <1>0a DEF ReleaseThreads, CondWait, Goto
    <3>2. Counted' = Counted /\ Freed' = Freed
      BY <3>1 DEF Counted, Freed
    <3>3. ~Opened'
      BY <2>1, <3>1, <3>2 DEF Opened
    <3>4. n < num
      BY <1>0, <2>4, NumType DEF TypeOK
    <3>5. ClosedInv'
      BY <2>2, <3>1, <3>2, <3>4 DEF ClosedInv, num
    <3>6. QED
      BY <1>0, <3>3, <3>5 DEF GateInv
  <2>5. QED
    BY <2>3, <2>4
<1>14. CASE (\E w \in Workers : Join(w)) \/ (Destroy /\ UNCHANGED pc) \/ UNCHANGED vars
  <2>1. UNCHANGED <<pc, n, waitFor>>
    BY <1>14 DEF Join, Destroy, vars
  <2>2. QED
    BY <1>0, <2>1
       DEF GateInv, OpenInv, ClosedInv, Opened, Counted, Freed
(* What an undefined destruction does, and what comes after it, concerns   *)
(* main only, which is past the gate.                                      *)
<1>15. CASE (Destroy /\ pc' # pc) \/ \E w \in Workers : UseDestroyed(w)
  <2>1. PICK from \in {"return", "hung"}, to \in {"hung", "aborted"} :
          pc[Main] = from /\ Goto(Main, to) /\ UNCHANGED <<n, waitFor>>
    BY <1>15 DEF Destroy, UseDestroyed
  <2>2. QED
    BY <1>5, <2>1
<1>16. QED
  BY <1>1, <1>2, <1>3, <1>4, <1>6, <1>7, <1>8, <1>9, <1>10, <1>11, <1>12,
     <1>13, <1>14, <1>15
     DEF Next, MainStep, WorkerStep, Ended, SpuriousWakeup

(* With spurious wakeups nothing is claimed, and the faults never change.   *)
SoundGate == "spurious" \notin faults => GateInv

LEMMA SoundGateInvariant == Spec => []SoundGate
<1>1. Init => SoundGate
  <2> SUFFICES ASSUME Init PROVE GateInv
    BY DEF SoundGate
  <2>1. \A w \in Workers : pc[w] = "new"
    BY ThreadsAssumption DEF Init, Threads
  <2>2. Counted = {} /\ Freed = {} /\ pc[Main] = "create"
    BY <2>1 DEF Counted, Freed, Init, Threads
  <2>3. TypeOK
    BY CountInvInit DEF CountInv
  <2>4. QED
    BY <2>2, <2>3, FS_EmptySet DEF Init, GateInv, Opened, ClosedInv
<1>2. SoundGate /\ [Next]_vars => SoundGate'
  <2> SUFFICES ASSUME SoundGate, [Next]_vars, "spurious" \notin faults'
               PROVE  GateInv'
    BY DEF SoundGate
  <2>1. UNCHANGED faults
    BY DEF Next, MainStep, WorkerStep, SpuriousWakeup, Ended, vars
  <2>2. QED
    BY <2>1, GateInvStep DEF SoundGate
<1>3. QED
  BY <1>1, <1>2, PTL DEF Spec

(* Where pthread_cond_wait returns on a broadcast only, the gate holds for *)
(* any number of threads: nobody passes before all have arrived.           *)
THEOREM NobodyPassesEarly == Spec => []NoEarlyPass
<1>1. SoundGate => NoEarlyPass
  <2> SUFFICES ASSUME GateInv PROVE GateHolds
    BY DEF SoundGate, NoEarlyPass
  <2>1. CASE Opened
    <3>1. \A w \in Workers : pc[w] \notin {"new", "call"}
      BY <2>1 DEF GateInv, OpenInv, Counted
    <3>2. Arrived = Workers
      BY <3>1 DEF Arrived
    <3>3. QED
      BY <2>1, <3>2 DEF GateInv, OpenInv, GateHolds
  <2>2. CASE ~Opened
    BY <2>2 DEF Opened, GateHolds
  <2>3. QED
    BY <2>1, <2>2
<1>2. QED
  BY <1>1, SoundGateInvariant, PTL

-----------------------------------------------------------------------------
(* The abstract gate: who has arrived, and who has left.                   *)
Left == {w \in Workers : pc[w] \in {"run", "done"}} \cup
        (IF pc[Main] \in Past THEN {Main} ELSE {})
IsOpen == Freed # {} \/ MainFreed
Asked == pc[Main] \notin {"create", "call"}

(* A step of WaitForThreads is a step of the abstract gate, or none of its *)
(* business, where no pthread call is at fault.                            *)
LEMMA GateStep ==
  ASSUME faults = {}, GateInv, GateInv', [Next]_vars
  PROVE  [AbstractGate!Next]_<<Arrived, Asked, IsOpen, Left>>
<1> USE ThreadsAssumption DEF Threads
<1>0. TypeOK /\ TypeOK'
  BY DEF GateInv
<1>0a. \A t \in Threads : \A to : pc' = [pc EXCEPT ![t] = to] =>
         /\ pc'[t] = to /\ \A u \in Threads : u # t => pc'[u] = pc[u]
  BY <1>0 DEF TypeOK
<1> DEFINE Stutter == UNCHANGED <<Arrived, Asked, IsOpen, Left>>
<1>1. ASSUME NEW w \in Workers, WorkerStep(w)
      PROVE  Stutter \/ AbstractGate!Next
  <2>1. CASE Lock(w)
    <3>1. pc[w] = "call" /\ pc'[w] = "count" /\ \A u \in Threads : u # w => pc'[u] = pc[u]
      BY <1>0a, <2>1 DEF Lock, Acquire, Goto
    <3>2. AbstractGate!Arrive(w)
      BY <3>1 DEF AbstractGate!Arrive, Arrived, Freed, MainFreed, Past
    <3>3. QED
      BY <3>2 DEF AbstractGate!Next
  <2>2. CASE Block(w) /\ waitFor > 0 /\ n + 1 = waitFor
    <3>1. ~Opened /\ pc[Main] = "wait"
      BY <2>2 DEF GateInv, OpenInv, ClosedInv
    <3>2. /\ pc[w] = "count"
          /\ pc' = [u \in Threads |-> IF u = w THEN "unlock"
                                      ELSE IF u \in Waiting THEN "wake" ELSE pc[u]]
      BY <2>2 DEF Block, UnblockThreads
    <3>3. Opened'
      BY <3>2 DEF Opened, Freed
    <3>4. \A v \in Workers : pc'[v] \notin {"new", "call", "count", "wait"}
      BY <3>3 DEF GateInv, OpenInv, Counted
    <3>5. \A v \in Workers : v # w => pc[v] = "wait"
      BY <1>0, <3>1, <3>2, <3>4 DEF Waiting, Opened, Freed, TypeOK, WorkerPlaces
    <3>6. /\ Arrived = Workers /\ Arrived' = Workers
          /\ ~IsOpen /\ IsOpen'
          /\ pc'[Main] = "wake"
      BY <3>1, <3>2, <3>3, <3>4, <3>5 DEF Arrived, IsOpen, Opened, MainFreed, Waiting, Freed, Past
    <3>7. Left = {} /\ Left' = {}
      BY <3>1, <3>2, <3>5, <3>6 DEF Left, Waiting, Past
    <3>8. AbstractGate!Open
      BY <3>1, <3>6, <3>7 DEF AbstractGate!Open, IsOpen, Left
    <3>9. QED
      BY <3>8 DEF AbstractGate!Next
  <2>3. CASE Block(w) /\ ~(waitFor > 0 /\ n + 1 = waitFor)
    <3>1. pc[w] = "count" /\ pc'[w] = "wait" /\ \A u \in Threads : u # w => pc'[u] = pc[u]
      BY <1>0a, <2>3 DEF Block, CondWait, Goto
    <3>2. QED
      BY <3>1 DEF Arrived, Asked, IsOpen, Freed, MainFreed, Left
  <2>4. CASE Reacquire(w)
    <3>1. pc[w] = "wake" /\ pc'[w] = "unlock" /\ \A u \in Threads : u # w => pc'[u] = pc[u]
      BY <1>0a, <2>4 DEF Reacquire, Acquire, Goto
    <3>2. QED
      BY <3>1 DEF Arrived, Asked, IsOpen, Freed, MainFreed, Left
  <2>5. CASE Unlock(w)
    <3>1. pc[w] = "unlock" /\ pc'[w] = "run" /\ \A u \in Threads : u # w => pc'[u] = pc[u]
      BY <1>0a, <2>5 DEF Unlock, Goto
    <3>2. w \in Freed /\ Freed' = Freed /\ Arrived' = Arrived
      BY <3>1 DEF Freed, Arrived
    <3>3. AbstractGate!Leave(w)
      BY <3>1, <3>2 DEF AbstractGate!Leave, MainFreed, Past
    <3>4. QED
      BY <3>3 DEF AbstractGate!Next
  <2>6. CASE RunFunction(w)
    <3>1. pc[w] = "run" /\ pc'[w] = "done" /\ \A u \in Threads : u # w => pc'[u] = pc[u]
      BY <1>0a, <2>6 DEF RunFunction, Goto
    <3>2. QED
      BY <3>1 DEF Arrived, Asked, IsOpen, Freed, MainFreed, Left
  <2>7. CASE UseDestroyed(w)
    <3>1. PICK from \in {"return", "hung"} : pc[Main] = from /\ Goto(Main, "aborted")
      BY <2>7 DEF UseDestroyed
    <3>2. pc'[Main] = "aborted" /\ \A v \in Workers : pc'[v] = pc[v]
      BY <1>0a, <3>1 DEF Goto
    <3>3. QED
      BY <3>1, <3>2 DEF Arrived, Asked, IsOpen, Freed, MainFreed, Left, Past
  <2>8. QED
    BY <1>1, <2>1, <2>2, <2>3, <2>4, <2>5, <2>6, <2>7 DEF WorkerStep
<1>2. ASSUME NEW w \in Workers, CreateThread(w) PROVE Stutter
  <2>1. pc[w] = "new" /\ pc'[w] = "call" /\ \A u \in Threads : u # w => pc'[u] = pc[u]
    BY <1>0a, <1>2 DEF CreateThread
  <2>2. QED
    BY <2>1 DEF Arrived, Asked, IsOpen, Freed, MainFreed, Left
(* Main moves alone, on one side of the gate.                              *)
<1>3. ASSUME NEW to, Goto(Main, to),
             pc[Main] \in {"create", "call"} <=> to \in {"create", "call"},
             pc[Main] \in Past <=> to \in Past,
             pc[Main] \in {"wake", "unlock"} <=> to \in {"wake", "unlock"}
      PROVE  Stutter
  <2>1. pc'[Main] = to /\ \A w \in Workers : pc'[w] = pc[w]
    BY <1>0a, <1>3 DEF Goto
  <2>2. Arrived' = Arrived /\ Freed' = Freed /\ Left' = Left
    BY <1>3, <2>1 DEF Arrived, Freed, Left
  <2>3. QED
    BY <1>3, <2>1, <2>2 DEF Asked, IsOpen, MainFreed
<1>4. CASE AllCreated \/ JoinedAll \/ Exit
  BY <1>3, <1>4 DEF AllCreated, JoinedAll, Exit, Past
<1>5. CASE Reacquire(Main)
  <2>1. Goto(Main, "unlock") /\ pc[Main] = "wake"
    BY <1>5 DEF Reacquire, Acquire
  <2>2. QED
    BY <1>3, <2>1 DEF Past
<1>6. CASE Lock(Main)
  <2>1. pc[Main] = "call" /\ pc'[Main] = "test" /\ \A w \in Workers : pc'[w] = pc[w]
    BY <1>0a, <1>6 DEF Lock, Acquire, Goto
  <2>2. AbstractGate!Ask
    BY <2>1 DEF AbstractGate!Ask, Arrived, Freed, MainFreed, Past
  <2>3. QED
    BY <2>2 DEF AbstractGate!Next
<1>7. CASE ReleaseThreads /\ n >= num
  <2>1. /\ pc[Main] = "test"
        /\ pc' = [u \in Threads |-> IF u = Main THEN "unlock"
                                    ELSE IF u \in Waiting THEN "wake" ELSE pc[u]]
    BY <1>7 DEF ReleaseThreads, UnblockThreads
  <2>2. ~Opened /\ Opened'
    BY <2>1 DEF GateInv, OpenInv, Opened
  <2>3. \A v \in Workers : pc'[v] \notin {"new", "call", "count", "wait"}
    BY <2>2 DEF GateInv, OpenInv, Counted
  <2>4. \A v \in Workers : pc[v] = "wait"
    BY <1>0, <2>1, <2>2, <2>3 DEF Waiting, Opened, Freed, TypeOK, WorkerPlaces
  <2>5. /\ Arrived = Workers /\ Arrived' = Workers
        /\ ~IsOpen /\ IsOpen' /\ pc'[Main] = "unlock"
    BY <2>1, <2>2, <2>3, <2>4 DEF Arrived, IsOpen, Opened, MainFreed, Freed, Past
  <2>6. Left = {} /\ Left' = {}
    BY <2>1, <2>4, <2>5 DEF Left, Waiting, Past
  <2>7. AbstractGate!Open
    BY <2>1, <2>5, <2>6 DEF AbstractGate!Open, IsOpen, Left
  <2>8. QED
    BY <2>7 DEF AbstractGate!Next
<1>8. CASE ReleaseThreads /\ ~(n >= num)
  BY <1>3, <1>8 DEF ReleaseThreads, CondWait, Past
<1>9. CASE Unlock(Main)
  <2>1. pc[Main] = "unlock" /\ pc'[Main] = "join" /\ \A w \in Workers : pc'[w] = pc[w]
    BY <1>0a, <1>9 DEF Unlock, Goto
  <2>2. Arrived' = Arrived /\ Freed' = Freed
    BY <2>1 DEF Arrived, Freed
  <2>3. AbstractGate!Leave(Main)
    BY <2>1, <2>2 DEF AbstractGate!Leave, MainFreed, Past
  <2>4. QED
    BY <2>3 DEF AbstractGate!Next
<1>10. CASE (\E w \in Workers : Join(w)) \/ (Destroy /\ UNCHANGED pc) \/ UNCHANGED vars
  <2>1. UNCHANGED pc
    BY <1>10 DEF Join, Destroy, vars
  <2>2. QED
    BY <2>1 DEF Arrived, Asked, IsOpen, Freed, MainFreed, Left
<1>11. CASE Destroy /\ pc' # pc
  <2>1. PICK to \in {"hung", "aborted"} : pc[Main] = "return" /\ Goto(Main, to)
    BY <1>11 DEF Destroy
  <2>2. QED
    BY <1>3, <2>1 DEF Past
<1>12. Stutter \/ AbstractGate!Next
  BY <1>1, <1>2, <1>4, <1>5, <1>6, <1>7, <1>8, <1>9, <1>10, <1>11
     DEF Next, MainStep, Ended, SpuriousWakeup, CreateFails, JoinFails
<1>13. QED
  BY <1>12

(* WaitForThreads implements the safety part of the abstract gate, for any *)
(* number of threads: its mutex and its counters let workers through in no *)
(* other way than a gate that opens when all have arrived and main asked.  *)
THEOREM ImplementsSafeGate == Spec => AbstractGate!SafeSpec
<1>1. Init => AbstractGate!Init
  <2> SUFFICES ASSUME Init PROVE AbstractGate!Init
    OBVIOUS
  <2>1. pc[Main] = "create" /\ \A w \in Workers : pc[w] = "new"
    BY ThreadsAssumption DEF Init, Threads
  <2>2. QED
    BY <2>1 DEF AbstractGate!Init, Arrived, Freed, MainFreed, Past
<1>2. [Next]_vars /\ SoundGate /\ SoundGate' =>
      [faults # {} \/ AbstractGate!Next]_<<Arrived, Asked, IsOpen, Left>>
  <2>1. [Next]_vars => UNCHANGED faults
    BY DEF Next, MainStep, WorkerStep, SpuriousWakeup, Ended, vars
  <2>2. QED
    BY <2>1, GateStep DEF SoundGate
<1>3. QED
  BY <1>1, <1>2, SoundGateInvariant, PTL
     DEF Spec, AbstractGate!SafeSpec, AbstractGate!gateVars, Asked, IsOpen, Left
=============================================================================
