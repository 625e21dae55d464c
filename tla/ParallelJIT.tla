---------------------------- MODULE ParallelJIT -----------------------------
(***************************************************************************)
(* ParallelJIT.cpp: the main thread creates the worker threads, holds them *)
(* at a WaitForThreads gate built from a mutex and a condition variable,   *)
(* releases them into the JIT together, joins them and returns.            *)
(*                                                                         *)
(* A thread inside pthread_cond_wait is at "wait"; a broadcast (or, where  *)
(* POSIX allows it, nothing at all) moves it to "wake", where it takes the *)
(* mutex again.  The code calls pthread_cond_wait without a loop.          *)
(***************************************************************************)
EXTENDS Naturals, FiniteSets

CONSTANTS
  Workers,          (* the threads main creates: add1, fib1, fib2           *)
  Main              (* the main thread                                      *)

ASSUME ThreadsAssumption == IsFiniteSet(Workers) /\ Main \notin Workers

(* What the pthread calls may do: pthread_cond_wait may return without a   *)
(* broadcast, pthread_create and pthread_join may fail.                    *)
Faults == {"spurious", "create", "join"}

Threads == Workers \cup {Main}
NoOne   == "free"

(* The argument of releaseThreads: as many as were created.                *)
num == Cardinality(Workers)

VARIABLES
  faults,    (* the faults of this execution                                *)
  pc,        (* where each thread is                                        *)
  n,         (* WaitForThreads::n                                           *)
  waitFor,   (* WaitForThreads::waitFor                                     *)
  mutex,     (* the thread holding the mutex, or NoOne                      *)
  joined,    (* the workers main has joined                                 *)
  destroyed  (* whether ~WaitForThreads has run                             *)

vars == <<faults, pc, n, waitFor, mutex, joined, destroyed>>

ASSUME NoOneAssumption == NoOne \notin Threads

-----------------------------------------------------------------------------
Init ==
  /\ faults \in SUBSET Faults
  /\ pc = [t \in Threads |-> IF t = Main THEN "create" ELSE "new"]
  /\ n = 0 /\ waitFor = 0
  /\ mutex = NoOne
  /\ joined = {} /\ destroyed = FALSE

Goto(t, to) == pc' = [pc EXCEPT ![t] = to]

(* pthread_mutex_lock, by a caller or by a thread leaving cond_wait.       *)
Acquire(t, from, to) ==
  /\ pc[t] = from /\ mutex = NoOne
  /\ mutex' = t
  /\ Goto(t, to)
  /\ UNCHANGED <<n, waitFor, joined, destroyed>>

Lock(t)      == Acquire(t, "call", IF t = Main THEN "test" ELSE "count")
Reacquire(t) == Acquire(t, "wake", "unlock")

Unlock(t) ==
  /\ pc[t] = "unlock"
  /\ mutex' = NoOne
  /\ Goto(t, IF t = Main THEN "join" ELSE "run")
  /\ UNCHANGED <<n, waitFor, joined, destroyed>>

Waiting == {t \in Threads : pc[t] = "wait"}

(* Mistaken UnblockThreads: one thread is signalled instead of all.        *)
UnblockOne(t) ==
  /\ n' = 0 /\ waitFor' = 0
  /\ \E one \in Waiting :
       pc' = [u \in Threads |-> IF u = t THEN "unlock"
                                ELSE IF u = one THEN "wake" ELSE pc[u]]
  /\ UNCHANGED mutex

(* unblockThreads: reset both counters and broadcast.                      *)
UnblockThreads(t) ==
  /\ n' = 0 /\ waitFor' = 0
  /\ pc' = [u \in Threads |-> IF u = t THEN "unlock"
                              ELSE IF u \in Waiting THEN "wake" ELSE pc[u]]
  /\ UNCHANGED mutex

(* pthread_cond_wait: release the mutex and wait, in one step.             *)
CondWait(t) ==
  /\ mutex' = NoOne
  /\ Goto(t, "wait")

(* block(), between its lock and its unlock.                               *)
Block(w) ==
  /\ pc[w] = "count"
  /\ IF waitFor > 0 /\ n + 1 = waitFor
     THEN UnblockThreads(w)
     ELSE CondWait(w) /\ n' = n + 1 /\ UNCHANGED waitFor
  /\ UNCHANGED <<joined, destroyed>>

(* Mistaken ReleaseThreads: one thread too few is waited for, or as many   *)
(* as there already are.                                                   *)
ReleaseOneFewer ==
  /\ pc[Main] = "test"
  /\ IF n >= num
     THEN UnblockThreads(Main)
     ELSE CondWait(Main) /\ waitFor' = num - 1 /\ UNCHANGED n
  /\ UNCHANGED <<joined, destroyed>>
ReleaseWaitsForN ==
  /\ pc[Main] = "test"
  /\ IF n >= num
     THEN UnblockThreads(Main)
     ELSE CondWait(Main) /\ waitFor' = n /\ UNCHANGED n
  /\ UNCHANGED <<joined, destroyed>>

(* releaseThreads(num), between its lock and its unlock.                   *)
ReleaseThreads ==
  /\ pc[Main] = "test"
  /\ IF n >= num
     THEN UnblockThreads(Main)
     ELSE CondWait(Main) /\ waitFor' = num /\ UNCHANGED n
  /\ UNCHANGED <<joined, destroyed>>

SpuriousWakeup(t) ==
  /\ "spurious" \in faults /\ pc[t] = "wait"
  /\ Goto(t, "wake")
  /\ UNCHANGED <<faults, n, waitFor, mutex, joined, destroyed>>

(* runFunction of the execution engine, whose own lock serialises the JIT. *)
RunFunction(w) ==
  /\ pc[w] = "run"
  /\ Goto(w, "done")
  /\ UNCHANGED <<n, waitFor, mutex, joined, destroyed>>

-----------------------------------------------------------------------------
(* main creates its three threads in a fixed order; they differ only in    *)
(* the function they call, so any order stands for it.                     *)
CreateThread(w) ==
  /\ pc[Main] = "create" /\ pc[w] = "new"
  /\ pc' = [pc EXCEPT ![w] = "call"]
  /\ UNCHANGED <<n, waitFor, mutex, joined, destroyed>>

AllCreated ==
  /\ pc[Main] = "create" /\ \A w \in Workers : pc[w] # "new"
  /\ Goto(Main, "call")
  /\ UNCHANGED <<n, waitFor, mutex, joined, destroyed>>

(* "Could not create thread": main returns 1.                              *)
CreateFails ==
  /\ "create" \in faults
  /\ pc[Main] = "create" /\ \E w \in Workers : pc[w] = "new"
  /\ Goto(Main, "return")
  /\ UNCHANGED <<n, waitFor, mutex, joined, destroyed>>

Join(w) ==
  /\ pc[Main] = "join" /\ pc[w] = "done" /\ w \notin joined
  /\ joined' = joined \cup {w}
  /\ UNCHANGED <<pc, n, waitFor, mutex, destroyed>>

(* "Could not join thread": main returns 1.                                *)
JoinFails ==
  /\ "join" \in faults
  /\ pc[Main] = "join" /\ joined # Workers
  /\ Goto(Main, "return")
  /\ UNCHANGED <<n, waitFor, mutex, joined, destroyed>>

JoinedAll ==
  /\ pc[Main] = "join" /\ joined = Workers
  /\ Goto(Main, "return")
  /\ UNCHANGED <<n, waitFor, mutex, joined, destroyed>>

InGate == {w \in Workers : pc[w] \in {"count", "wait", "wake", "unlock"}}

(* The static object's destructor runs after main returns; then the        *)
(* process ends and takes every thread with it.  To destroy the condition  *)
(* variable or the mutex while threads use them is undefined: it may do    *)
(* nothing, wait for the threads, or fail, which the destructor asserts.   *)
Destroy ==
  /\ pc[Main] = "return" /\ ~destroyed
  /\ destroyed' = TRUE
  /\ \/ UNCHANGED pc
     \/ InGate # {} /\ \E to \in {"hung", "aborted"} : Goto(Main, to)
  /\ UNCHANGED <<n, waitFor, mutex, joined>>

(* A worker locks the destroyed mutex; an error is asserted not to happen. *)
UseDestroyed(w) ==
  /\ destroyed /\ pc[Main] \in {"return", "hung"}
  /\ pc[w] \in {"call", "wake"}
  /\ Goto(Main, "aborted")
  /\ UNCHANGED <<n, waitFor, mutex, joined, destroyed>>

Exit ==
  /\ pc[Main] = "return" /\ destroyed
  /\ Goto(Main, "exited")
  /\ UNCHANGED <<n, waitFor, mutex, joined, destroyed>>

-----------------------------------------------------------------------------
WorkerStep(w) ==
  /\ Lock(w) \/ Block(w) \/ Reacquire(w) \/ Unlock(w) \/ RunFunction(w)
     \/ UseDestroyed(w)
  /\ UNCHANGED faults

MainStep ==
  /\ \/ \E w \in Workers : CreateThread(w) \/ Join(w)
     \/ AllCreated \/ CreateFails
     \/ Lock(Main) \/ ReleaseThreads \/ Reacquire(Main) \/ Unlock(Main)
     \/ JoinFails \/ JoinedAll \/ Destroy \/ Exit
  /\ UNCHANGED faults

Alive == pc[Main] \notin {"exited", "aborted"}

(* The process has ended, or its destructor waits for ever.                *)
Ended == pc[Main] \in {"exited", "aborted", "hung"} /\ UNCHANGED vars

Next ==
  \/ MainStep
  \/ Alive /\ \E w \in Workers : WorkerStep(w)
  \/ Alive /\ \E t \in Threads : SpuriousWakeup(t)
  \/ Ended

(* The operating system runs every thread that can run; nothing owes       *)
(* anybody a spurious wakeup or a failing call.                            *)
Fairness ==
  /\ WF_vars(MainStep)
  /\ \A w \in Workers : WF_vars(Alive /\ WorkerStep(w))

Spec == Init /\ [][Next]_vars /\ Fairness

-----------------------------------------------------------------------------
(* Type invariant of the threads and the gate.                             *)
WorkerPlaces == {"new", "call", "count", "wait", "wake", "unlock", "run", "done"}
MainPlaces   == {"create", "call", "test", "wait", "wake", "unlock", "join",
                 "return", "hung", "aborted", "exited"}
Past         == {"join", "return", "hung", "aborted", "exited"}
TypeOK ==
  /\ pc \in [Threads -> WorkerPlaces \cup MainPlaces]
  /\ pc[Main] \in MainPlaces /\ \A w \in Workers : pc[w] \in WorkerPlaces
  /\ n \in Nat /\ waitFor \in Nat
  /\ mutex \in Threads \cup {NoOne}
  /\ joined \in SUBSET Workers
  /\ destroyed \in BOOLEAN

Arrived == {w \in Workers : pc[w] \notin {"new", "call"}}
Counted == {w \in Workers : pc[w] \notin {"new", "call", "count"}}
Freed   == {w \in Workers : pc[w] \in {"wake", "unlock", "run", "done"}}
MainFreed == pc[Main] \in {"wake", "unlock"} \cup Past

(* The gate holds where pthread_cond_wait returns on a broadcast only: no  *)
(* worker gets past block(), and main does not get past releaseThreads,    *)
(* before every worker has arrived and main has asked for their release.   *)
GateHolds ==
  /\ Freed # {} =>
       Arrived = Workers /\ pc[Main] \notin {"create", "call", "test"}
  /\ pc[Main] \in {"wake", "unlock", "join"} => Arrived = Workers
NoEarlyPass == "spurious" \notin faults => GateHolds

(* Why it holds: before the gate opens, n counts the workers inside        *)
(* block() and waitFor is set exactly while main waits for more of them;   *)
(* once it has opened, nobody is left to count or to wait.                 *)
Opened == Freed # {} \/ pc[Main] \in {"wake", "unlock", "join"}
ClosedInv ==
  /\ n = Cardinality(Counted)
  /\ waitFor = IF pc[Main] = "wait" THEN num ELSE 0
  /\ pc[Main] = "wait" => n < num
OpenInv ==
  /\ Counted = Workers
  /\ n = 0 /\ waitFor = 0
  /\ \A t \in Threads : pc[t] # "wait"
  /\ pc[Main] \notin {"create", "call", "test"}
GateInv == TypeOK /\ (IF Opened THEN OpenInv ELSE ClosedInv)

(* Whatever the wakeups, a release that is waited for lacks some worker.   *)
CountInv == TypeOK /\ (waitFor > 0 => n < waitFor)

(* The assertion of block(): waitFor == 0 || n <= waitFor, after n++.      *)
BlockAssertion ==
  \A w \in Workers : pc[w] = "count" => waitFor = 0 \/ n + 1 <= waitFor

(* Where every thread can be created and joined, the program ends with all *)
(* of them, spurious wakeups or not: nobody is left waiting for a          *)
(* broadcast that has already been made, nor is the gate destroyed before  *)
(* everybody has left.                                                     *)
Terminates == faults \subseteq {"spurious"} => <>(pc[Main] = "exited")

(* WaitForThreads implements the abstract gate, where no pthread call is   *)
(* at fault.                                                               *)
AbstractGate == INSTANCE Gate WITH
  excused <- faults # {},
  arrived <- Arrived,
  asked   <- pc[Main] \notin {"create", "call"},
  open    <- Freed # {} \/ MainFreed,
  left    <- {w \in Workers : pc[w] \in {"run", "done"}} \cup
             (IF pc[Main] \in Past THEN {Main} ELSE {})
ImplementsGate == AbstractGate!Spec
=============================================================================
