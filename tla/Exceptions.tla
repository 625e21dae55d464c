------------------------------ MODULE Exceptions ------------------------------
(* The exception handling demo (examples/ExceptionDemo/ExceptionDemo.cpp): the *)
(* functions it generates, which invoke one another, catch the exceptions of   *)
(* some types and run a finally block; the throwing function under them; the   *)
(* personality function that guides the unwinder through their frames; the C++ *)
(* test harness above them; and the life of each exception object.             *)
(*                                                                             *)
(* A basic block of a generated function is a step.  An exception is a number, *)
(* its place in heap; 0 is the null pointer.  What is printed is left out.     *)
EXTENDS Integers, Sequences, FiniteSets

CONSTANTS MaxType, \* bound on the types main is asked to throw
          MaxRuns  \* bound on the arguments of main

ASSUME ArgumentsAssumption == MaxType \in Nat /\ MaxRuns \in Nat

VARIABLES pc,        \* <<function, block>> that is executed
          argument,  \* exceptTypeToThrow of this run
          frame,     \* flag and storages of each generated function
          heap,      \* exceptions: class, type and how often it was freed
          unwinder,  \* what _Unwind_RaiseException and _Unwind_Resume know
          runs,      \* arguments main is done with or has begun
          finals,    \* history: finally blocks run by each function in this run
          catcher    \* history: who caught this run's exception

vars == <<pc, argument, frame, heap, unwinder, runs, finals, catcher>>

-----------------------------------------------------------------------------
(* createUnwindExceptionTest: which function invokes which, and what the       *)
(* clauses of their landing pads are, in order.                                *)
Generated == {"outerCatchFunct", "innerCatchFunct"}
Invokes == [outerCatchFunct |-> "innerCatchFunct", innerCatchFunct |-> "throwFunct"]
TypesToCatch == [innerCatchFunct |-> <<6, 2, 4>>, outerCatchFunct |-> <<3, 1, 5>>]

(* The frames above throwFunct, as the unwinder walks them.                    *)
Harness == "runExceptionThrow"
Stack == <<"innerCatchFunct", "outerCatchFunct", Harness>>

nativeThrowType == -1 \* ~0
Arguments == {nativeThrowType} \cup 1..MaxType
NULL == 0

(* The states of exceptionCaughtFlag.                                          *)
NotThrown == "ourExceptionNotThrownState"
Thrown == "ourExceptionThrownState"
Caught == "ourExceptionCaughtState"

(* The class is what tells the exceptions of the demo from foreign ones.       *)
ourBaseExceptionClass == "obj bas"
foreign == "C++"

(* The storages createFinallyBlock allocates and initialises; caughtResult is  *)
(* the exception and the index the landing pad got.                            *)
NewFrame == [exceptionCaughtFlag |-> NotThrown, exceptionStorage |-> NULL,
             caughtResult |-> <<NULL, 0>>]
Idle == [exception |-> NULL, at |-> 0, handler |-> 0]

Init ==
    /\ pc = <<"main", "next">>
    /\ argument = nativeThrowType
    /\ frame = [f \in Generated |-> NewFrame]
    /\ heap = <<>>
    /\ unwinder = Idle
    /\ runs = 0
    /\ finals = [f \in Generated |-> 0]
    /\ catcher = "none"

-----------------------------------------------------------------------------
(* deleteOurException: only the exceptions of the demo are freed; a null       *)
(* pointer is ignored.                                                         *)
deleteOurException(h, e) ==
    IF e # NULL /\ h[e].class = ourBaseExceptionClass THEN [h EXCEPT ![e].frees = @ + 1] ELSE h

(* Mistaken: createOurException leaves exception_cleanup unset.                *)
NoCleanup(h, e) == IF h[e].class = ourBaseExceptionClass THEN h ELSE [h EXCEPT ![e].frees = @ + 1]

(* exception_cleanup of an exception, which the C++ runtime calls when a       *)
(* handler of its own is done: deleteFromUnwindOurException, or its own.       *)
exception_cleanup(h, e) ==
    IF h[e].class = ourBaseExceptionClass THEN deleteOurException(h, e)
    ELSE [h EXCEPT ![e].frees = @ + 1]

(* Mistaken: the action value counts from 0 (i, not i + 1).                    *)
CountedFromZero(types, e) ==
    LET matching == {i \in DOMAIN types : types[i] = heap[e].type}
    IN  IF matching = {} THEN 0 ELSE (CHOOSE i \in matching : \A j \in matching : i <= j) - 1

(* handleActionValue: the position, in the clauses of the landing pad, of the  *)
(* first type that is the exception's, or 0.                                   *)
handleActionValue(types, e) ==
    LET matching == {i \in DOMAIN types : types[i] = heap[e].type}
    IN  IF matching = {} THEN 0 ELSE CHOOSE i \in matching : \A j \in matching : i <= j

(* handleLsda for the call site of f's invoke: no actions for a foreign        *)
(* exception, so its landing pad is entered as a cleanup.                      *)
handleLsda(f, e) ==
    IF heap[e].class # ourBaseExceptionClass THEN 0 ELSE handleActionValue(TypesToCatch[f], e)

(* Mistaken: a cleanup is reported as a handler as well.                       *)
CleanupFound(f, e) == f = Harness \/ handleLsda(f, e) >= 0

(* What a frame answers in the search phase; the C++ harness catches all.      *)
HandlerFound(f, e) == f = Harness \/ handleLsda(f, e) > 0

-----------------------------------------------------------------------------
(* main takes its next argument; runExceptionThrow calls outerCatchFunct.      *)
NextRun ==
    /\ pc = <<"main", "next">> /\ runs < MaxRuns
    /\ runs' = runs + 1
    /\ \E a \in Arguments : argument' = a
    /\ pc' = <<"outerCatchFunct", "entry">>
    /\ finals' = [f \in Generated |-> 0]
    /\ catcher' = "none"
    /\ UNCHANGED <<frame, heap, unwinder>>

EndOfArguments ==
    /\ pc = <<"main", "next">>
    /\ pc' = <<"main", "end">>
    /\ UNCHANGED <<argument, frame, heap, unwinder, runs, finals, catcher>>

(* The entry block: the storages are initialised, and the function is invoked. *)
Entry(f) ==
    /\ pc = <<f, "entry">>
    /\ frame' = [frame EXCEPT ![f] = NewFrame]
    /\ pc' = <<Invokes[f], "entry">>
    /\ UNCHANGED <<argument, heap, unwinder, runs, finals, catcher>>

(* throwFunct: a C++ exception for -1 (throwCppException), else one of the     *)
(* demo's (createOurException), which is raised.                               *)
Throw ==
    /\ pc = <<"throwFunct", "entry">>
    /\ heap' = Append(heap, [class |-> IF argument = nativeThrowType THEN foreign ELSE ourBaseExceptionClass,
                             type |-> argument, frees |-> 0])
    /\ unwinder' = [exception |-> Len(heap'), at |-> 1, handler |-> 0]
    /\ pc' = <<"unwinder", "search">>
    /\ UNCHANGED <<argument, frame, runs, finals, catcher>>

(* The search phase asks the personality of each frame for a handler.          *)
SearchPhase ==
    /\ pc = <<"unwinder", "search">>
    /\ IF HandlerFound(Stack[unwinder.at], unwinder.exception)
       THEN /\ unwinder' = [unwinder EXCEPT !.handler = unwinder.at, !.at = 1]
            /\ pc' = <<"unwinder", "cleanup">>
       ELSE /\ unwinder' = [unwinder EXCEPT !.at = @ + 1]
            /\ UNCHANGED pc
    /\ UNCHANGED <<argument, frame, heap, runs, finals, catcher>>

(* The cleanup phase installs the landing pad of each frame up to the handler, *)
(* with the index of the clause that matches, or 0 for a cleanup.              *)
CleanupPhase ==
    /\ pc = <<"unwinder", "cleanup">>
    /\ LET f == Stack[unwinder.at]
       IN  IF f = Harness
           THEN pc' = <<Harness, "catch">> /\ UNCHANGED frame
           ELSE /\ frame' = [frame EXCEPT ![f].caughtResult =
                                <<unwinder.exception, handleLsda(f, unwinder.exception)>>]
                /\ pc' = <<f, "exception">>
    /\ UNCHANGED <<argument, heap, unwinder, runs, finals, catcher>>

(* The exception block of f: what was caught is stored, and the class decides. *)
Exception(f) ==
    /\ pc = <<f, "exception">>
    /\ LET e == frame[f].caughtResult[1]
       IN  /\ frame' = [frame EXCEPT ![f].exceptionStorage = e, ![f].exceptionCaughtFlag = Thrown]
           /\ pc' = <<f, IF heap[e].class = ourBaseExceptionClass THEN "exceptionRoute" ELSE "externalException">>
    /\ UNCHANGED <<argument, heap, unwinder, runs, finals, catcher>>

(* Mistaken: a foreign exception is passed on at once.                         *)
ExternalResumes(f) ==
    /\ pc = <<f, "externalException">>
    /\ pc' = <<f, "unwindResume">>
    /\ UNCHANGED <<argument, frame, heap, unwinder, runs, finals, catcher>>

(* A foreign exception: only the finally block is run.                         *)
ExternalException(f) ==
    /\ pc = <<f, "externalException">>
    /\ pc' = <<f, "finally">>
    /\ UNCHANGED <<argument, frame, heap, unwinder, runs, finals, catcher>>

(* The switch on the index: its catch block, or the finally block.             *)
ExceptionRoute(f) ==
    /\ pc = <<f, "exceptionRoute">>
    /\ pc' = <<f, IF frame[f].caughtResult[2] \in DOMAIN TypesToCatch[f] THEN "catch" ELSE "finally">>
    /\ UNCHANGED <<argument, frame, heap, unwinder, runs, finals, catcher>>

(* createCatchBlock, for whichever type was matched.                           *)
Catch(f) ==
    /\ pc = <<f, "catch">>
    /\ frame' = [frame EXCEPT ![f].exceptionCaughtFlag = Caught]
    /\ catcher' = f
    /\ pc' = <<f, "finally">>
    /\ UNCHANGED <<argument, heap, unwinder, runs, finals>>

(* createFinallyBlock: the flag decides how the function is left.              *)
Finally(f) ==
    /\ pc = <<f, "finally">>
    /\ finals' = [finals EXCEPT ![f] = @ + 1]
    /\ pc' = <<f, IF frame[f].exceptionCaughtFlag = Thrown THEN "unwindResume" ELSE "end">>
    /\ UNCHANGED <<argument, frame, heap, unwinder, runs, catcher>>

(* The unwinder goes on with the frame above f.                                *)
UnwindResume(f) ==
    /\ pc = <<f, "unwindResume">>
    /\ unwinder' = [unwinder EXCEPT !.exception = frame[f].caughtResult[1], !.at = @ + 1]
    /\ pc' = <<"unwinder", "cleanup">>
    /\ UNCHANGED <<argument, frame, heap, runs, finals, catcher>>

(* The end block deletes what is stored, and returns to the caller's normal    *)
(* block, or to main.                                                          *)
ReturnsTo(f) == IF f = "innerCatchFunct" THEN <<"outerCatchFunct", "normal">> ELSE <<"main", "next">>
End(f) ==
    /\ pc = <<f, "end">>
    /\ heap' = deleteOurException(heap, frame[f].exceptionStorage)
    /\ pc' = ReturnsTo(f)
    /\ UNCHANGED <<argument, frame, unwinder, runs, finals, catcher>>

Normal(f) ==
    /\ pc = <<f, "normal">>
    /\ pc' = <<f, "finally">>
    /\ UNCHANGED <<argument, frame, heap, unwinder, runs, finals, catcher>>

(* runExceptionThrow: a C++ handler catches the exception and is done with it. *)
HarnessCatch ==
    /\ pc = <<Harness, "catch">>
    /\ catcher' = Harness
    /\ heap' = exception_cleanup(heap, unwinder.exception)
    /\ pc' = <<"main", "next">>
    /\ UNCHANGED <<argument, frame, unwinder, runs, finals>>

Next ==
    \/ NextRun \/ EndOfArguments \/ Throw \/ SearchPhase \/ CleanupPhase \/ HarnessCatch
    \/ \E f \in Generated :
          \/ Entry(f) \/ Exception(f) \/ ExternalException(f) \/ ExceptionRoute(f) \/ Catch(f)
          \/ Finally(f) \/ UnwindResume(f) \/ End(f) \/ Normal(f)

Spec == Init /\ [][Next]_vars

-----------------------------------------------------------------------------
Ran == pc[1] = "main" /\ runs > 0

(* "In all cases, the finally blocks of every generated test functions will    *)
(* executed": each exactly once in each run, whether the function catches,     *)
(* passes the exception on, or is returned to normally.                        *)
FinallyOnce ==
    /\ Ran => \A f \in Generated : finals[f] = 1
    /\ \A f \in Generated : finals[f] <= 1

(* Each exception is freed exactly once, by the function that caught it or by  *)
(* the C++ runtime; a run leaves none behind; and it is not freed while anyone *)
(* still reads it: the unwinder, and a generated function that may resume it.  *)
FreedOnce ==
    /\ \A e \in DOMAIN heap : heap[e].frees <= 1
    /\ Ran => \A e \in DOMAIN heap : heap[e].frees = 1
    /\ pc[1] = "unwinder" => heap[unwinder.exception].frees = 0
    /\ \A f \in Generated :
          pc[1] = f /\ frame[f].exceptionCaughtFlag # NotThrown /\ pc[2] # "entry"
          => heap[frame[f].exceptionStorage].frees = 0

(* Each exception is caught by the function that lists its type, the innermost *)
(* one, and a foreign one or one that nobody lists by the harness (main's      *)
(* comment: 1 to 6 by the test functions, more than 6 and -1 by the harness).  *)
Lists(f, type) == \E i \in DOMAIN TypesToCatch[f] : TypesToCatch[f][i] = type
CaughtWhereListed ==
    Ran => catcher = IF Lists("innerCatchFunct", argument) THEN "innerCatchFunct"
                     ELSE IF Lists("outerCatchFunct", argument) THEN "outerCatchFunct"
                     ELSE Harness

(* The two phases agree: the frame in which the cleanup phase ends is the one  *)
(* that the search phase was told has a handler, so no frame is entered that   *)
(* the search did not reach and none is left that claimed the exception.       *)
PhasesAgree ==
    /\ pc = <<"unwinder", "cleanup">> => unwinder.at <= unwinder.handler
    /\ Ran => catcher = Stack[unwinder.handler]
=============================================================================
