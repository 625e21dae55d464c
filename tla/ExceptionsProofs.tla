--------------------------- MODULE ExceptionsProofs ---------------------------
(* The exception demo, for any number of runs and any types of exception:      *)
(* where the exception of a run is, and what has become of it and of those     *)
(* before it, at every block of the generated functions and of the unwinder.   *)
EXTENDS Exceptions, SequenceTheorems, TLAPS

Inner == "innerCatchFunct"
Outer == "outerCatchFunct"
Index(f) == IF f = Inner THEN 1 ELSE 2

(* The frame that catches what is thrown in this run, and the functions that   *)
(* have been left once the unwinder is at frame k.                             *)
HandlerOf == IF Lists(Inner, argument) THEN 1 ELSE IF Lists(Outer, argument) THEN 2 ELSE 3
Done(k) == [f \in Generated |-> IF Index(f) < k THEN 1 ELSE 0]

Objects == [class : {foreign, ourBaseExceptionClass}, type : Arguments, frees : Nat]
Frames == [exceptionCaughtFlag : {NotThrown, Thrown, Caught}, exceptionStorage : Nat,
           caughtResult : Nat \X Nat]
Unwinders == [exception : Nat, at : Nat, handler : Nat]

TypeInv ==
    /\ argument \in Arguments
    /\ frame \in [Generated -> Frames]
    /\ heap \in Seq(Objects)
    /\ unwinder \in Unwinders
    /\ finals \in [Generated -> Nat]

(* Every exception has been freed; or the last one is under way and all others *)
(* have been.                                                                  *)
Settled == \A e \in DOMAIN heap : heap[e].frees = 1
Flying ==
    /\ Len(heap) > 0 /\ unwinder.exception = Len(heap)
    /\ heap[Len(heap)].type = argument /\ heap[Len(heap)].frees = 0
    /\ heap[Len(heap)].class = IF argument = nativeThrowType THEN foreign ELSE ourBaseExceptionClass
    /\ \A e \in DOMAIN heap : e # Len(heap) => heap[e].frees = 1

(* In main, on the way down to throwFunct, and in the unwinder's two phases.   *)
AtMain ==
    /\ pc[1] = "main" /\ Settled
    /\ finals \in {Done(1), Done(3)}
    /\ runs > 0 => /\ finals = Done(3)
                   /\ catcher = Stack[HandlerOf]
                   /\ unwinder.handler = HandlerOf
Calling ==
    /\ pc \in {<<Outer, "entry">>, <<Inner, "entry">>, <<"throwFunct", "entry">>}
    /\ Settled /\ finals = Done(1)
    /\ pc[1] # Outer => frame[Outer] = NewFrame
    /\ pc[1] = "throwFunct" => frame[Inner] = NewFrame
Searching ==
    /\ pc = <<"unwinder", "search">> /\ Flying
    /\ unwinder.at \in 1..HandlerOf
    /\ finals = Done(1)
    /\ \A f \in Generated : frame[f] = NewFrame
Cleaning ==
    /\ pc = <<"unwinder", "cleanup">> /\ Flying
    /\ unwinder.at \in 1..HandlerOf /\ unwinder.handler = HandlerOf
    /\ finals = Done(unwinder.at)
    /\ \A f \in Generated : Index(f) >= unwinder.at => frame[f] = NewFrame

(* In the landing pad of f, and the blocks after it.                           *)
Block(f) ==
    \/ /\ pc[2] = "exception"
       /\ frame[f].exceptionCaughtFlag = NotThrown
    \/ /\ pc[2] = "exceptionRoute" /\ argument # nativeThrowType
       /\ frame[f].exceptionCaughtFlag = Thrown
    \/ /\ pc[2] = "externalException" /\ argument = nativeThrowType
       /\ frame[f].exceptionCaughtFlag = Thrown
    \/ /\ pc[2] = "catch" /\ HandlerOf = Index(f)
       /\ frame[f].exceptionCaughtFlag = Thrown
    \/ /\ pc[2] \in {"finally", "unwindResume"} /\ HandlerOf # Index(f)
       /\ frame[f].exceptionCaughtFlag = Thrown
    \/ /\ pc[2] \in {"finally", "end"} /\ HandlerOf = Index(f)
       /\ frame[f].exceptionCaughtFlag = Caught
       /\ catcher = f
Landed(f) ==
    /\ pc[1] = f /\ Flying
    /\ Index(f) \in 1..HandlerOf
    /\ unwinder.at = Index(f) /\ unwinder.handler = HandlerOf
    /\ frame[f].caughtResult = <<unwinder.exception, handleLsda(f, unwinder.exception)>>
    /\ pc[2] # "exception" => frame[f].exceptionStorage = unwinder.exception
    /\ f = Inner => frame[Outer] = NewFrame
    /\ finals = Done(IF pc[2] \in {"unwindResume", "end"} THEN Index(f) + 1 ELSE Index(f))
    /\ Block(f)

(* The inner function has caught the exception, and the outer is returned to.  *)
Returning ==
    /\ pc[1] = Outer /\ pc[2] \in {"normal", "finally", "end"}
    /\ Settled /\ frame[Outer] = NewFrame
    /\ catcher = Inner /\ HandlerOf = 1 /\ unwinder.handler = 1
    /\ finals = Done(IF pc[2] = "end" THEN 3 ELSE 2)

(* Nobody has, and the harness is about to.                                    *)
InHarness ==
    /\ pc = <<Harness, "catch">> /\ Flying
    /\ HandlerOf = 3 /\ unwinder.handler = 3
    /\ finals = Done(3)

(* The inductive invariant.                                                    *)
UnwindInv ==
    /\ TypeInv
    /\ \/ AtMain \/ Calling \/ Searching \/ Cleaning \/ Returning \/ InHarness
       \/ \E f \in Generated : Landed(f)

-----------------------------------------------------------------------------
(* The numbers of the frames.                                                  *)
LEMMA IndexFacts ==
  /\ Index(Inner) = 1 /\ Index(Outer) = 2 /\ Inner # Outer
  /\ Generated = {Inner, Outer}
  /\ Stack[1] = Inner /\ Stack[2] = Outer /\ Stack[3] = Harness
  /\ Harness \notin Generated
  /\ \A f \in Generated : Index(f) \in 1..2 /\ Stack[Index(f)] = f
  /\ HandlerOf \in 1..3
  BY DEF Index, Inner, Outer, Generated, Stack, Harness, HandlerOf

LEMMA DoneFacts ==
  /\ \A k : Done(k) \in [Generated -> Nat]
  /\ \A f \in Generated : [Done(Index(f)) EXCEPT ![f] = @ + 1] = Done(Index(f) + 1)
<1>1. \A k : Done(k) \in [Generated -> Nat]
  BY DEF Done
<1>2. ASSUME NEW f \in Generated
      PROVE  [Done(Index(f)) EXCEPT ![f] = @ + 1] = Done(Index(f) + 1)
  <2> DEFINE new == [Done(Index(f)) EXCEPT ![f] = @ + 1]
  <2>1. new \in [Generated -> Nat] /\ Done(Index(f) + 1) \in [Generated -> Nat]
    BY <1>1
  <2>2. ASSUME NEW g \in Generated
        PROVE  new[g] = Done(Index(f) + 1)[g]
    <3>1. new[g] = IF g = f THEN Done(Index(f))[f] + 1 ELSE Done(Index(f))[g]
      BY <1>1
    <3> HIDE DEF new
    <3>2. \A k : Done(k)[g] = IF Index(g) < k THEN 1 ELSE 0
      BY DEF Done
    <3>3. Index(f) \in {1, 2} /\ Index(g) \in {1, 2} /\ (Index(f) = Index(g) <=> f = g)
      BY DEF Index, Generated, Inner
    <3> QED
      BY <3>1, <3>2, <3>3
  <2> HIDE DEF new
  <2>3. new = Done(Index(f) + 1)
    BY <2>1, <2>2
  <2> QED
    BY <2>3 DEF new
<1> QED
  BY <1>1, <1>2

(* What a landing pad answers is the position of a type it lists, or 0.        *)
LEMMA ActionValue ==
  ASSUME NEW f \in Generated, NEW e, heap[e].type = argument, argument \in Arguments,
         heap[e].class = IF argument = nativeThrowType THEN foreign ELSE ourBaseExceptionClass
  PROVE  /\ handleLsda(f, e) \in 0..3
         /\ DOMAIN TypesToCatch[f] = 1..3
         /\ handleLsda(f, e) > 0 <=> Lists(f, argument)
<1>1. /\ DOMAIN TypesToCatch[f] = 1..3
      /\ \A i \in 1..3 : TypesToCatch[f][i] \in 1..6
  <2>1. CASE f = Inner
    BY <2>1 DEF TypesToCatch, Inner
  <2>2. CASE f = Outer
    BY <2>2 DEF TypesToCatch, Outer
  <2> QED
    BY <2>1, <2>2, IndexFacts
<1>2. CASE argument = nativeThrowType
  <2>1. handleLsda(f, e) = 0
    BY <1>2 DEF handleLsda, foreign, ourBaseExceptionClass
  <2>2. ~Lists(f, argument)
    BY <1>1, <1>2 DEF Lists, nativeThrowType
  <2> QED
    BY <1>1, <2>1, <2>2
<1>3. CASE argument # nativeThrowType
  <2> DEFINE matching == {i \in DOMAIN TypesToCatch[f] : TypesToCatch[f][i] = argument}
  <2>1. handleLsda(f, e) = IF matching = {} THEN 0
                          ELSE CHOOSE i \in matching : \A j \in matching : i <= j
    BY <1>3 DEF handleLsda, handleActionValue
  <2>2. matching \subseteq 1..3
    BY <1>1
  <2>3. matching # {} <=> Lists(f, argument)
    BY DEF Lists
  <2> HIDE DEF matching
  <2>4. CASE matching = {}
    BY <1>1, <2>1, <2>3, <2>4
  <2>5. CASE matching # {}
    <3>1. \E i \in matching : \A j \in matching : i <= j
      <4>1. CASE 1 \in matching
        BY <2>2, <4>1
      <4>2. CASE 1 \notin matching /\ 2 \in matching
        BY <2>2, <4>2
      <4>3. CASE 1 \notin matching /\ 2 \notin matching
        <5>1. \A i \in matching : i = 3
          BY <2>2, <4>3
        <5>2. PICK i \in matching : TRUE
          BY <2>5
        <5> QED
          BY <5>1, <5>2
      <4> QED
        BY <4>1, <4>2, <4>3
    <3>2. handleLsda(f, e) \in matching
      BY <2>1, <2>5, <3>1
    <3>3. handleLsda(f, e) \in 1..3
      BY <2>2, <3>2
    <3> QED
      BY <1>1, <2>3, <2>5, <3>3
  <2> QED
    BY <2>4, <2>5
<1> QED
  BY <1>2, <1>3

(* The search phase finds the frame that lists the type, and no frame before.  *)
LEMMA Handler ==
  ASSUME TypeInv, Flying
  PROVE  /\ \A f \in Generated :
               /\ handleLsda(f, unwinder.exception) \in Nat
               /\ Index(f) <= HandlerOf =>
                     (handleLsda(f, unwinder.exception) \in DOMAIN TypesToCatch[f]
                         <=> HandlerOf = Index(f))
         /\ \A k \in 1..HandlerOf :
               HandlerFound(Stack[k], unwinder.exception) <=> k = HandlerOf
<1> DEFINE e == unwinder.exception
<1>1. /\ heap[e].type = argument /\ argument \in Arguments
      /\ heap[e].class = IF argument = nativeThrowType THEN foreign ELSE ourBaseExceptionClass
  BY DEF Flying, TypeInv
<1> HIDE DEF e
<1>2. \A f \in Generated :
         /\ handleLsda(f, e) \in 0..3
         /\ DOMAIN TypesToCatch[f] = 1..3
         /\ handleLsda(f, e) > 0 <=> Lists(f, argument)
  BY <1>1, ActionValue
<1>3. \A f \in Generated : Index(f) <= HandlerOf => (Lists(f, argument) <=> HandlerOf = Index(f))
  BY DEF HandlerOf, Index, Generated, Inner, Outer
<1>4. ASSUME NEW f \in Generated
      PROVE  /\ handleLsda(f, e) \in Nat
             /\ Index(f) <= HandlerOf =>
                   (handleLsda(f, e) \in DOMAIN TypesToCatch[f] <=> HandlerOf = Index(f))
  BY <1>2, <1>3
<1>5. ASSUME NEW k \in 1..HandlerOf
      PROVE  HandlerFound(Stack[k], e) <=> k = HandlerOf
  <2>1. CASE k = 3
    BY <1>5, <2>1, IndexFacts DEF HandlerFound
  <2>2. CASE k \in 1..2
    <3>1. PICK f \in Generated : f = Stack[k] /\ Index(f) = k /\ f # Harness
      BY <2>2, IndexFacts
    <3>2. HandlerFound(Stack[k], e) <=> handleLsda(f, e) > 0
      BY <3>1 DEF HandlerFound
    <3> QED
      BY <1>2, <1>3, <1>5, <3>1, <3>2, IndexFacts
  <2> QED
    BY <1>5, <2>1, <2>2, IndexFacts
<1> QED
  BY <1>4, <1>5 DEF e

LEMMA InitInv ==
  ASSUME Init
  PROVE  UnwindInv
<1>1. finals = Done(1)
  BY IndexFacts DEF Init, Done
<1>2. TypeInv
  BY <1>1, DoneFacts DEF Init, TypeInv, Arguments, NewFrame, Frames, Idle, Unwinders, NULL
<1>3. AtMain
  BY <1>1, EmptySeq DEF Init, AtMain, Settled
<1> QED
  BY <1>2, <1>3 DEF UnwindInv

-----------------------------------------------------------------------------
LEMMA NextRunInv ==
  ASSUME UnwindInv, NextRun
  PROVE  UnwindInv'
<1>1. pc[1] = "main" /\ Settled
  BY DEF NextRun, UnwindInv, AtMain, Calling, Searching, Cleaning, Returning, InHarness, Landed,
     Generated, Outer, Harness
<1>2. finals' = Done(1)
  BY DEF NextRun, Done, Generated, Index, Inner
<1>3. pc' = <<Outer, "entry">>
  BY DEF NextRun, Outer
<1>4. Calling'
  BY <1>1, <1>2, <1>3 DEF NextRun, Calling, Settled, Outer
<1>5. TypeInv'
  BY <1>2, DoneFacts DEF NextRun, TypeInv, UnwindInv
<1> QED
  BY <1>4, <1>5 DEF UnwindInv

LEMMA EndOfArgumentsInv ==
  ASSUME UnwindInv, EndOfArguments
  PROVE  UnwindInv'
<1>1. AtMain
  BY DEF EndOfArguments, UnwindInv, AtMain, Calling, Searching, Cleaning, Returning, InHarness,
     Landed, Generated, Outer, Harness
<1>2. AtMain'
  BY <1>1 DEF EndOfArguments, AtMain, Settled, HandlerOf
<1> QED
  BY <1>2 DEF EndOfArguments, UnwindInv, TypeInv

LEMMA EntryInv ==
  ASSUME UnwindInv, NEW f \in Generated, Entry(f)
  PROVE  UnwindInv'
<1>1. pc = <<f, "entry">> /\ UNCHANGED <<argument, heap, unwinder, runs, finals, catcher>>
      /\ frame' = [frame EXCEPT ![f] = NewFrame] /\ pc' = <<Invokes[f], "entry">>
  BY DEF Entry
<1>2. Calling
  BY <1>1 DEF UnwindInv, AtMain, Calling, Searching, Cleaning, Returning, InHarness, Landed, Block,
     Generated, Outer, Harness
<1>3. NewFrame \in Frames
  BY DEF NewFrame, Frames, NULL
<1>4. TypeInv'
  BY <1>1, <1>3 DEF TypeInv, UnwindInv
<1>5. frame \in [Generated -> Frames]
  BY DEF UnwindInv, TypeInv
<1>6. CASE f = Outer
  <2>1. pc' = <<Inner, "entry">> /\ frame'[Outer] = NewFrame
    BY <1>1, <1>5, <1>6 DEF Invokes, Outer, Inner
  <2> QED
    BY <1>1, <1>2, <1>4, <2>1 DEF UnwindInv, Calling, Settled, Inner
<1>7. CASE f = Inner
  <2>1. pc' = <<"throwFunct", "entry">> /\ frame'[Inner] = NewFrame /\ frame'[Outer] = frame[Outer]
    BY <1>1, <1>5, <1>7, IndexFacts DEF Invokes, Inner
  <2>2. frame[Outer] = NewFrame
    BY <1>1, <1>2, <1>7, IndexFacts DEF Calling
  <2> QED
    BY <1>1, <1>2, <1>4, <2>1, <2>2 DEF UnwindInv, Calling, Settled
<1> QED
  BY <1>6, <1>7, IndexFacts

LEMMA ThrowInv ==
  ASSUME UnwindInv, Throw
  PROVE  UnwindInv'
<1> DEFINE e == [class |-> IF argument = nativeThrowType THEN foreign ELSE ourBaseExceptionClass,
                 type |-> argument, frees |-> 0]
<1>1. pc = <<"throwFunct", "entry">> /\ pc' = <<"unwinder", "search">>
      /\ heap' = Append(heap, e)
      /\ unwinder' = [exception |-> Len(heap'), at |-> 1, handler |-> 0]
      /\ UNCHANGED <<argument, frame, runs, finals, catcher>>
  BY DEF Throw
<1>2. Calling
  BY <1>1 DEF UnwindInv, AtMain, Calling, Searching, Cleaning, Returning, InHarness, Landed, Block,
     Generated, Outer, Harness
<1>3. TypeInv
  BY DEF UnwindInv
<1>4. e \in Objects /\ e.type = argument /\ e.frees = 0
      /\ e.class = IF argument = nativeThrowType THEN foreign ELSE ourBaseExceptionClass
  BY <1>3 DEF Objects, TypeInv
<1> HIDE DEF e
<1>5. heap' \in Seq(Objects)
  BY <1>1, <1>3, <1>4, AppendProperties DEF TypeInv
<1>6. /\ Len(heap') = Len(heap) + 1 /\ Len(heap) \in Nat
      /\ DOMAIN heap' = 1..Len(heap) + 1 /\ DOMAIN heap = 1..Len(heap)
      /\ heap'[Len(heap) + 1] = e
      /\ \A i \in 1..Len(heap) : heap'[i] = heap[i]
  BY <1>1, <1>3, <1>4, AppendProperties, LenProperties DEF TypeInv
<1>7. TypeInv'
  BY <1>1, <1>3, <1>5, <1>6 DEF TypeInv, Unwinders
<1>8. Flying'
  BY <1>1, <1>2, <1>4, <1>6 DEF Flying, Calling, Settled
<1>9. unwinder'.at = 1 /\ HandlerOf' = HandlerOf
  BY <1>1 DEF HandlerOf
<1>10. \A f \in Generated : frame[f] = NewFrame
  BY <1>1, <1>2, IndexFacts DEF Calling, Outer
<1>11. Searching'
  BY <1>1, <1>2, <1>8, <1>9, <1>10, IndexFacts DEF Searching, Calling
<1> QED
  BY <1>7, <1>11 DEF UnwindInv

(* The exception under way stays what it is, and so do the answers about it.   *)
LEMMA SameException ==
  ASSUME Flying, UNCHANGED <<heap, argument>>, unwinder'.exception = unwinder.exception
  PROVE  /\ Flying' /\ HandlerOf' = HandlerOf
         /\ \A f, e : handleLsda(f, e)' = handleLsda(f, e)
  BY DEF Flying, HandlerOf, handleLsda, handleActionValue

LEMMA SearchPhaseInv ==
  ASSUME UnwindInv, SearchPhase
  PROVE  UnwindInv'
<1>1. pc = <<"unwinder", "search">> /\ UNCHANGED <<argument, frame, heap, runs, finals, catcher>>
  BY DEF SearchPhase
<1>2. Searching /\ TypeInv
  BY <1>1 DEF UnwindInv, AtMain, Calling, Searching, Cleaning, Returning, InHarness, Landed, Block,
     Generated, Outer, Harness
<1>3. unwinder \in Unwinders /\ unwinder.at \in 1..HandlerOf /\ HandlerOf \in 1..3
  BY <1>2, IndexFacts DEF TypeInv, Searching
<1>4. HandlerFound(Stack[unwinder.at], unwinder.exception) <=> unwinder.at = HandlerOf
  BY <1>2, <1>3, Handler DEF Searching
<1>5. CASE unwinder.at = HandlerOf
  <2>1. pc' = <<"unwinder", "cleanup">>
        /\ unwinder' = [unwinder EXCEPT !.handler = unwinder.at, !.at = 1]
    BY <1>4, <1>5 DEF SearchPhase
  <2>2. /\ unwinder'.exception = unwinder.exception /\ unwinder'.at = 1
        /\ unwinder'.handler = HandlerOf /\ unwinder' \in Unwinders
    BY <1>3, <1>5, <2>1 DEF Unwinders
  <2>3. Flying' /\ HandlerOf' = HandlerOf
    BY <1>1, <1>2, <2>2, SameException DEF Searching
  <2>4. Cleaning'
    BY <1>1, <1>2, <1>3, <2>1, <2>2, <2>3 DEF Searching, Cleaning
  <2> QED
    BY <1>1, <1>2, <2>2, <2>4 DEF UnwindInv, TypeInv
<1>6. CASE unwinder.at # HandlerOf
  <2>1. pc' = pc /\ unwinder' = [unwinder EXCEPT !.at = @ + 1]
    BY <1>4, <1>6 DEF SearchPhase
  <2>2. /\ unwinder'.exception = unwinder.exception /\ unwinder'.at = unwinder.at + 1
        /\ unwinder' \in Unwinders
    BY <1>3, <2>1 DEF Unwinders
  <2>3. Flying' /\ HandlerOf' = HandlerOf
    BY <1>1, <1>2, <2>2, SameException DEF Searching
  <2>4. unwinder'.at \in 1..HandlerOf
    BY <1>3, <1>6, <2>2
  <2>5. Searching'
    BY <1>1, <1>2, <2>1, <2>3, <2>4 DEF Searching
  <2> QED
    BY <1>1, <1>2, <2>2, <2>5 DEF UnwindInv, TypeInv
<1> QED
  BY <1>5, <1>6

LEMMA CleanupPhaseInv ==
  ASSUME UnwindInv, CleanupPhase
  PROVE  UnwindInv'
<1>1. pc = <<"unwinder", "cleanup">> /\ UNCHANGED <<argument, heap, unwinder, runs, finals, catcher>>
  BY DEF CleanupPhase
<1>2. Cleaning /\ TypeInv
  BY <1>1 DEF UnwindInv, AtMain, Calling, Searching, Cleaning, Returning, InHarness, Landed, Block,
     Generated, Outer, Harness
<1>3. unwinder \in Unwinders /\ unwinder.at \in 1..HandlerOf /\ HandlerOf \in 1..3
  BY <1>2, IndexFacts DEF TypeInv, Cleaning
<1>4. /\ Flying' /\ HandlerOf' = HandlerOf
      /\ \A f, e : handleLsda(f, e)' = handleLsda(f, e)
  BY <1>1, <1>2, SameException DEF Cleaning
<1>5. CASE unwinder.at = 3
  <2>1. pc' = <<Harness, "catch">> /\ frame' = frame
    BY <1>5, IndexFacts DEF CleanupPhase
  <2>2. InHarness'
    BY <1>1, <1>2, <1>3, <1>4, <1>5, <2>1 DEF InHarness, Cleaning
  <2> QED
    BY <1>1, <1>2, <2>1, <2>2 DEF UnwindInv, TypeInv
<1>6. CASE unwinder.at \in 1..2
  <2>1. PICK f \in Generated : f = Stack[unwinder.at] /\ Index(f) = unwinder.at /\ f # Harness
    BY <1>6, IndexFacts
  <2> DEFINE result == <<unwinder.exception, handleLsda(f, unwinder.exception)>>
  <2>2. /\ pc' = <<f, "exception">>
        /\ frame' = [frame EXCEPT ![f].caughtResult = result]
    BY <2>1 DEF CleanupPhase
  <2>3. result \in Nat \X Nat
    BY <1>2, Handler DEF TypeInv, Unwinders, Cleaning
  <2>4. frame \in [Generated -> Frames] /\ frame[f] = NewFrame
    BY <1>2, <1>3, <2>1 DEF TypeInv, Cleaning
  <2> HIDE DEF result
  <2>5. /\ frame' \in [Generated -> Frames]
        /\ frame'[f].caughtResult = result
        /\ frame'[f].exceptionCaughtFlag = NotThrown
        /\ \A g \in Generated : g # f => frame'[g] = frame[g]
    <3>1. \A g \in Generated : frame'[g] =
             IF g = f THEN [frame[f] EXCEPT !.caughtResult = result] ELSE frame[g]
      BY <2>2, <2>4
    <3>2. [frame[f] EXCEPT !.caughtResult = result] \in Frames
      BY <2>3, <2>4 DEF Frames
    <3>3. /\ [frame[f] EXCEPT !.caughtResult = result].caughtResult = result
          /\ [frame[f] EXCEPT !.caughtResult = result].exceptionCaughtFlag = NotThrown
      BY <2>4 DEF NewFrame
    <3>4. frame' \in [Generated -> Frames]
      BY <2>2, <2>4, <3>2
    <3> QED
      BY <3>1, <3>3, <3>4
  <2>6. f = Inner => frame'[Outer] = NewFrame
    BY <1>2, <1>3, <2>1, <2>5, IndexFacts DEF Cleaning
  <2>7. result = <<unwinder'.exception, handleLsda(f, unwinder.exception)'>>
    BY <1>1, <1>4 DEF result
  <2>8. Landed(f)'
    BY <1>1, <1>2, <1>3, <1>4, <2>1, <2>2, <2>5, <2>6, <2>7 DEF Landed, Block, Cleaning
  <2> QED
    BY <1>1, <1>2, <2>5, <2>8 DEF UnwindInv, TypeInv
<1> QED
  BY <1>3, <1>5, <1>6

-----------------------------------------------------------------------------
(* At a block that only a landing pad leads to, the exception has landed.      *)
LEMMA AtBlock ==
  ASSUME UnwindInv, NEW f \in Generated, NEW b, pc = <<f, b>>,
         b \in {"exception", "exceptionRoute", "externalException", "catch", "unwindResume"}
  PROVE  Landed(f) /\ TypeInv
  BY DEF UnwindInv, AtMain, Calling, Searching, Cleaning, Returning, InHarness, Landed,
     Generated, Outer, Harness

(* A step from one block of f to another that only touches its flag.           *)
LEMMA NextBlock ==
  ASSUME TypeInv, NEW f \in Generated, Landed(f), NEW b,
         pc[2] \notin {"unwindResume", "end"}, b # "exception",
         pc' = <<f, b>>, UNCHANGED <<argument, heap, unwinder>>,
         frame' \in [Generated -> Frames],
         \A g \in Generated : g # f => frame'[g] = frame[g],
         frame'[f].caughtResult = frame[f].caughtResult,
         frame'[f].exceptionStorage = unwinder.exception,
         finals' = Done(IF b \in {"unwindResume", "end"} THEN Index(f) + 1 ELSE Index(f)),
         Block(f)'
  PROVE  UnwindInv'
<1>1. /\ Flying' /\ HandlerOf' = HandlerOf
      /\ \A g, e : handleLsda(g, e)' = handleLsda(g, e)
  BY SameException DEF Landed
<1>2. f = Inner => frame'[Outer] = NewFrame
  BY IndexFacts DEF Landed
<1>3. TypeInv'
  BY DoneFacts DEF TypeInv
<1>4. pc'[1] = f /\ pc'[2] = b
  OBVIOUS
<1>5. frame[f].caughtResult = <<unwinder.exception, handleLsda(f, unwinder.exception)>>
      /\ Index(f) \in 1..HandlerOf /\ unwinder.at = Index(f) /\ unwinder.handler = HandlerOf
  BY DEF Landed
<1>6. frame'[f].caughtResult = <<unwinder'.exception, handleLsda(f, unwinder.exception)'>>
  BY <1>1, <1>5
<1>7. Landed(f)'
  BY <1>1, <1>2, <1>4, <1>5, <1>6 DEF Landed
<1> QED
  BY <1>3, <1>7 DEF UnwindInv

LEMMA ExceptionInv ==
  ASSUME UnwindInv, NEW f \in Generated, Exception(f)
  PROVE  UnwindInv'
<1>1. pc = <<f, "exception">> /\ UNCHANGED <<argument, heap, unwinder, runs, finals, catcher>>
  BY DEF Exception
<1>2. Landed(f) /\ TypeInv
  BY <1>1, AtBlock
<1> DEFINE e == unwinder.exception
           b == IF heap[e].class = ourBaseExceptionClass THEN "exceptionRoute" ELSE "externalException"
           new == [frame[f] EXCEPT !.exceptionStorage = e, !.exceptionCaughtFlag = Thrown]
<1>3. frame[f].caughtResult[1] = e
  BY <1>2 DEF Landed
<1>4. /\ frame' = [frame EXCEPT ![f].exceptionStorage = e, ![f].exceptionCaughtFlag = Thrown]
      /\ pc' = <<f, b>>
  BY <1>3 DEF Exception
<1>5. frame \in [Generated -> Frames] /\ e \in Nat
  BY <1>2 DEF TypeInv, Unwinders
<1>6. /\ new \in Frames /\ new.exceptionStorage = e /\ new.exceptionCaughtFlag = Thrown
      /\ new.caughtResult = frame[f].caughtResult
  BY <1>5 DEF Frames
<1>7. /\ frame' \in [Generated -> Frames] /\ frame'[f] = new
      /\ \A g \in Generated : g # f => frame'[g] = frame[g]
  <2>1. frame' = [frame EXCEPT ![f] = new]
    BY <1>4, <1>5
  <2> HIDE DEF new
  <2> QED
    BY <1>5, <1>6, <2>1
<1>8. /\ b = "exceptionRoute" => argument # nativeThrowType
      /\ b = "externalException" => argument = nativeThrowType
      /\ b \in {"exceptionRoute", "externalException"}
  BY <1>2 DEF Landed, Flying, foreign, ourBaseExceptionClass
<1> HIDE DEF b, new
<1>9. Block(f)'
  BY <1>1, <1>4, <1>6, <1>7, <1>8 DEF Block
<1>10. finals = Done(Index(f))
  BY <1>1, <1>2 DEF Landed
<1> QED
  BY <1>1, <1>2, <1>4, <1>6, <1>7, <1>8, <1>9, <1>10, NextBlock

LEMMA ExternalExceptionInv ==
  ASSUME UnwindInv, NEW f \in Generated, ExternalException(f)
  PROVE  UnwindInv'
<1>1. /\ pc = <<f, "externalException">> /\ pc' = <<f, "finally">>
      /\ UNCHANGED <<argument, frame, heap, unwinder, runs, finals, catcher>>
  BY DEF ExternalException
<1>2. Landed(f) /\ TypeInv
  BY <1>1, AtBlock
<1>3. HandlerOf' = HandlerOf
  BY <1>1 DEF HandlerOf
<1>4. HandlerOf # Index(f)
  <2>1. argument = nativeThrowType
    BY <1>1, <1>2 DEF Landed, Block
  <2>2. HandlerOf = 3
    BY <2>1 DEF HandlerOf, Lists, TypesToCatch, nativeThrowType, Inner, Outer
  <2> QED
    BY <2>2, IndexFacts
<1>5. Block(f)'
  BY <1>1, <1>2, <1>3, <1>4 DEF Block, Landed
<1> QED
  BY <1>1, <1>2, <1>5, NextBlock DEF TypeInv, Landed

LEMMA ExceptionRouteInv ==
  ASSUME UnwindInv, NEW f \in Generated, ExceptionRoute(f)
  PROVE  UnwindInv'
<1> DEFINE b == IF frame[f].caughtResult[2] \in DOMAIN TypesToCatch[f] THEN "catch" ELSE "finally"
<1>1. /\ pc = <<f, "exceptionRoute">> /\ pc' = <<f, b>>
      /\ UNCHANGED <<argument, frame, heap, unwinder, runs, finals, catcher>>
  BY DEF ExceptionRoute
<1>2. Landed(f) /\ TypeInv
  BY <1>1, AtBlock
<1>3. HandlerOf' = HandlerOf
  BY <1>1 DEF HandlerOf
<1>4. frame[f].caughtResult[2] = handleLsda(f, unwinder.exception)
  BY <1>2 DEF Landed
<1>5. b = IF HandlerOf = Index(f) THEN "catch" ELSE "finally"
  BY <1>2, <1>4, Handler, IndexFacts DEF Landed
<1> HIDE DEF b
<1>6. Block(f)'
  BY <1>1, <1>2, <1>3, <1>5 DEF Block, Landed
<1> QED
  BY <1>1, <1>2, <1>5, <1>6, NextBlock DEF TypeInv, Landed

LEMMA CatchInv ==
  ASSUME UnwindInv, NEW f \in Generated, Catch(f)
  PROVE  UnwindInv'
<1> DEFINE new == [frame[f] EXCEPT !.exceptionCaughtFlag = Caught]
<1>1. /\ pc = <<f, "catch">> /\ pc' = <<f, "finally">> /\ catcher' = f
      /\ frame' = [frame EXCEPT ![f] = new]
      /\ UNCHANGED <<argument, heap, unwinder, runs, finals>>
  BY DEF Catch
<1>2. Landed(f) /\ TypeInv
  BY <1>1, AtBlock
<1>3. HandlerOf' = HandlerOf
  BY <1>1 DEF HandlerOf
<1>4. frame \in [Generated -> Frames]
  BY <1>2 DEF TypeInv
<1>5. /\ new \in Frames /\ new.exceptionStorage = frame[f].exceptionStorage
      /\ new.exceptionCaughtFlag = Caught
      /\ new.caughtResult = frame[f].caughtResult
  BY <1>4 DEF Frames
<1> HIDE DEF new
<1>6. /\ frame' \in [Generated -> Frames] /\ frame'[f] = new
      /\ \A g \in Generated : g # f => frame'[g] = frame[g]
  BY <1>1, <1>4, <1>5
<1>7. Block(f)'
  BY <1>1, <1>2, <1>3, <1>5, <1>6 DEF Block, Landed
<1> QED
  BY <1>1, <1>2, <1>5, <1>6, <1>7, NextBlock DEF Landed

LEMMA FinallyInv ==
  ASSUME UnwindInv, NEW f \in Generated, Finally(f)
  PROVE  UnwindInv'
<1> DEFINE b == IF frame[f].exceptionCaughtFlag = Thrown THEN "unwindResume" ELSE "end"
<1>1. /\ pc = <<f, "finally">> /\ pc' = <<f, b>>
      /\ finals' = [finals EXCEPT ![f] = @ + 1]
      /\ UNCHANGED <<argument, frame, heap, unwinder, runs, catcher>>
  BY DEF Finally
<1>2. TypeInv /\ (Landed(f) \/ Returning)
  BY <1>1 DEF UnwindInv, AtMain, Calling, Searching, Cleaning, Returning, InHarness, Landed,
     Generated, Outer, Harness
<1>3. HandlerOf' = HandlerOf
  BY <1>1 DEF HandlerOf
<1>4. CASE Landed(f)
  <2>1. finals' = Done(Index(f) + 1)
    BY <1>1, <1>4, DoneFacts DEF Landed
  <2>2. \/ HandlerOf # Index(f) /\ frame[f].exceptionCaughtFlag = Thrown
        \/ HandlerOf = Index(f) /\ frame[f].exceptionCaughtFlag = Caught /\ catcher = f
    BY <1>1, <1>4 DEF Landed, Block
  <2>3. b = IF HandlerOf = Index(f) THEN "end" ELSE "unwindResume"
    BY <2>2 DEF Thrown, Caught
  <2> HIDE DEF b
  <2>4. Block(f)'
    BY <1>1, <1>3, <2>2, <2>3 DEF Block
  <2> QED
    BY <1>1, <1>2, <1>4, <2>1, <2>3, <2>4, NextBlock DEF TypeInv, Landed
<1>5. CASE Returning
  <2>1. f = Outer /\ b = "end"
    BY <1>1, <1>5 DEF Returning, NewFrame, Thrown, NotThrown
  <2>2. finals = Done(2)
    BY <1>1, <1>5 DEF Returning
  <2>3. finals' = Done(3)
    BY <1>1, <2>1, <2>2, DoneFacts, IndexFacts
  <2>4. Returning'
    BY <1>1, <1>3, <1>5, <2>1, <2>3 DEF Returning, Settled
  <2> QED
    BY <1>1, <1>2, <2>3, <2>4, DoneFacts DEF UnwindInv, TypeInv
<1> QED
  BY <1>2, <1>4, <1>5

LEMMA UnwindResumeInv ==
  ASSUME UnwindInv, NEW f \in Generated, UnwindResume(f)
  PROVE  UnwindInv'
<1>1. /\ pc = <<f, "unwindResume">> /\ pc' = <<"unwinder", "cleanup">>
      /\ unwinder' = [unwinder EXCEPT !.exception = frame[f].caughtResult[1], !.at = @ + 1]
      /\ UNCHANGED <<argument, frame, heap, runs, finals, catcher>>
  BY DEF UnwindResume
<1>2. Landed(f) /\ TypeInv
  BY <1>1, AtBlock
<1>3. frame[f].caughtResult[1] = unwinder.exception /\ unwinder \in Unwinders
  BY <1>2 DEF Landed, TypeInv
<1>4. /\ unwinder'.exception = unwinder.exception /\ unwinder'.at = Index(f) + 1
      /\ unwinder'.handler = unwinder.handler /\ unwinder' \in Unwinders
  <2>1. Index(f) \in Nat /\ unwinder.at = Index(f)
    BY <1>2, IndexFacts DEF Landed
  <2>2. PICK x \in Nat, y \in Nat : x = unwinder.exception /\ y = Index(f) + 1
    BY <1>3, <2>1 DEF Unwinders
  <2>3. unwinder' = [unwinder EXCEPT !.exception = x, !.at = y]
    BY <1>1, <1>3, <2>1, <2>2
  <2>4. /\ unwinder'.exception = x /\ unwinder'.at = y
        /\ unwinder'.handler = unwinder.handler /\ unwinder' \in Unwinders
    BY <1>3, <2>3 DEF Unwinders
  <2> QED
    BY <2>2, <2>4
<1>5. Flying' /\ HandlerOf' = HandlerOf
  BY <1>1, <1>2, <1>4, SameException DEF Landed
<1>6. HandlerOf # Index(f) /\ Index(f) \in 1..HandlerOf
  BY <1>1, <1>2 DEF Landed, Block
<1>7. finals = Done(Index(f) + 1)
  BY <1>1, <1>2 DEF Landed
<1>8. \A g \in Generated : Index(g) >= Index(f) + 1 => frame[g] = NewFrame
  BY <1>2, IndexFacts DEF Landed
<1>9. Cleaning'
  BY <1>1, <1>2, <1>4, <1>5, <1>6, <1>7, <1>8, IndexFacts DEF Cleaning, Landed
<1> QED
  BY <1>1, <1>2, <1>4, <1>9 DEF UnwindInv, TypeInv

(* Freeing the exception under way settles the run.                            *)
LEMMA Freed ==
  ASSUME TypeInv, Flying, heap' = [heap EXCEPT ![unwinder.exception].frees = @ + 1]
  PROVE  heap' \in Seq(Objects) /\ Settled'
<1> DEFINE e == unwinder.exception
           new == [heap[e] EXCEPT !.frees = 1]
<1>1. /\ heap \in Seq(Objects) /\ Len(heap) \in Nat /\ DOMAIN heap = 1..Len(heap)
      /\ e = Len(heap) /\ e \in DOMAIN heap /\ heap[e].frees = 0
  BY LenProperties DEF TypeInv, Flying
<1>2. heap[e] \in Objects
  BY <1>1, ElementOfSeq
<1>3. new \in Objects /\ new.frees = 1
  BY <1>2 DEF Objects
<1>4. heap' = [heap EXCEPT ![e] = new]
  BY <1>1
<1> HIDE DEF new, e
<1>5. heap' \in Seq(Objects) /\ DOMAIN heap' = DOMAIN heap
      /\ \A i \in DOMAIN heap : heap'[i] = IF i = e THEN new ELSE heap[i]
  BY <1>1, <1>3, <1>4, ExceptSeq
<1>6. \A i \in DOMAIN heap : i # e => heap[i].frees = 1
  BY <1>1 DEF Flying
<1> QED
  BY <1>3, <1>5, <1>6 DEF Settled

LEMMA EndInv ==
  ASSUME UnwindInv, NEW f \in Generated, End(f)
  PROVE  UnwindInv'
<1>1. /\ pc = <<f, "end">> /\ pc' = ReturnsTo(f)
      /\ heap' = deleteOurException(heap, frame[f].exceptionStorage)
      /\ UNCHANGED <<argument, frame, unwinder, runs, finals, catcher>>
  BY DEF End
<1>2. TypeInv /\ (Landed(f) \/ Returning)
  BY <1>1 DEF UnwindInv, AtMain, Calling, Searching, Cleaning, Returning, InHarness, Landed,
     Generated, Outer, Harness
<1>3. HandlerOf' = HandlerOf
  BY <1>1 DEF HandlerOf
<1>4. CASE Landed(f)
  <2>1. /\ Flying /\ HandlerOf = Index(f) /\ unwinder.handler = HandlerOf
        /\ finals = Done(Index(f) + 1) /\ catcher = f
        /\ frame[f].exceptionStorage = unwinder.exception
        /\ f = Inner => frame[Outer] = NewFrame
    BY <1>1, <1>4 DEF Landed, Block
  <2>2. heap[unwinder.exception].class = ourBaseExceptionClass
    <3>1. argument = nativeThrowType => HandlerOf = 3
      BY DEF HandlerOf, Lists, TypesToCatch, nativeThrowType, Inner, Outer
    <3>2. argument # nativeThrowType
      BY <2>1, <3>1, IndexFacts
    <3> QED
      BY <2>1, <3>2 DEF Flying
  <2>3. unwinder.exception # NULL
    BY <2>1 DEF Flying, NULL
  <2>4. heap' = [heap EXCEPT ![unwinder.exception].frees = @ + 1]
    BY <1>1, <2>1, <2>2, <2>3 DEF deleteOurException
  <2>5. heap' \in Seq(Objects) /\ Settled'
    BY <1>2, <2>1, <2>4, Freed
  <2>6. TypeInv'
    BY <1>1, <1>2, <2>5 DEF TypeInv
  <2>7. CASE f = Inner
    <3>1. pc' = <<Outer, "normal">>
      BY <1>1, <2>7 DEF ReturnsTo, Inner, Outer
    <3> QED
      BY <1>1, <1>3, <2>1, <2>5, <2>6, <2>7, <3>1, IndexFacts DEF UnwindInv, Returning
  <2>8. CASE f = Outer
    <3>1. pc' = <<"main", "next">>
      BY <1>1, <2>8 DEF ReturnsTo, Outer
    <3>2. finals' = Done(3) /\ catcher' = Stack[HandlerOf'] /\ unwinder'.handler = HandlerOf'
      BY <1>1, <1>3, <2>1, <2>8, IndexFacts
    <3> QED
      BY <2>5, <2>6, <3>1, <3>2 DEF UnwindInv, AtMain
  <2> QED
    BY <2>7, <2>8, IndexFacts
<1>5. CASE Returning
  <2>1. f = Outer /\ finals = Done(3) /\ catcher = Inner /\ HandlerOf = 1 /\ unwinder.handler = 1
        /\ Settled /\ frame[Outer].exceptionStorage = NULL
    BY <1>1, <1>5 DEF Returning, NewFrame
  <2>2. heap' = heap
    BY <1>1, <2>1 DEF deleteOurException
  <2>3. pc' = <<"main", "next">>
    BY <1>1, <2>1 DEF ReturnsTo, Outer
  <2>4. AtMain'
    BY <1>1, <1>3, <2>1, <2>2, <2>3, IndexFacts DEF AtMain, Settled
  <2> QED
    BY <1>1, <1>2, <2>2, <2>4 DEF UnwindInv, TypeInv
<1> QED
  BY <1>2, <1>4, <1>5

LEMMA NormalInv ==
  ASSUME UnwindInv, NEW f \in Generated, Normal(f)
  PROVE  UnwindInv'
<1>1. /\ pc = <<f, "normal">> /\ pc' = <<f, "finally">>
      /\ UNCHANGED <<argument, frame, heap, unwinder, runs, finals, catcher>>
  BY DEF Normal
<1>2. TypeInv /\ Returning
  BY <1>1 DEF UnwindInv, AtMain, Calling, Searching, Cleaning, Returning, InHarness, Landed, Block,
     Generated, Outer, Harness
<1>3. Returning'
  BY <1>1, <1>2 DEF Returning, Settled, HandlerOf
<1> QED
  BY <1>1, <1>2, <1>3 DEF UnwindInv, TypeInv

LEMMA HarnessCatchInv ==
  ASSUME UnwindInv, HarnessCatch
  PROVE  UnwindInv'
<1>1. /\ pc = <<Harness, "catch">> /\ pc' = <<"main", "next">> /\ catcher' = Harness
      /\ heap' = exception_cleanup(heap, unwinder.exception)
      /\ UNCHANGED <<argument, frame, unwinder, runs, finals>>
  BY DEF HarnessCatch
<1>2. TypeInv /\ InHarness
  BY <1>1 DEF UnwindInv, AtMain, Calling, Searching, Cleaning, Returning, InHarness, Landed, Block,
     Generated, Outer, Harness
<1>3. Flying /\ unwinder.exception # NULL
  BY <1>2 DEF InHarness, Flying, NULL
<1>4. heap' = [heap EXCEPT ![unwinder.exception].frees = @ + 1]
  BY <1>1, <1>3 DEF exception_cleanup, deleteOurException
<1>5. heap' \in Seq(Objects) /\ Settled'
  BY <1>2, <1>3, <1>4, Freed
<1>6. HandlerOf' = HandlerOf
  BY <1>1 DEF HandlerOf
<1>7. AtMain'
  BY <1>1, <1>2, <1>5, <1>6, IndexFacts DEF AtMain, InHarness
<1> QED
  BY <1>1, <1>2, <1>5, <1>7 DEF UnwindInv, TypeInv

LEMMA StutterInv ==
  ASSUME UnwindInv, UNCHANGED vars
  PROVE  UnwindInv'
<1>1. UNCHANGED <<pc, argument, frame, heap, unwinder, runs, finals, catcher>>
  BY DEF vars
<1>2. HandlerOf' = HandlerOf /\ (Settled' <=> Settled) /\ (Flying' <=> Flying)
      /\ (TypeInv' <=> TypeInv)
      /\ \A f, e : handleLsda(f, e)' = handleLsda(f, e)
  BY <1>1 DEF HandlerOf, Settled, Flying, TypeInv, handleLsda, handleActionValue
<1>3. ASSUME NEW f \in Generated, Landed(f)
      PROVE  Landed(f)'
  <2>1. Block(f)'
    BY <1>1, <1>2, <1>3 DEF Landed, Block
  <2> QED
    BY <1>1, <1>2, <1>3, <2>1 DEF Landed
<1> QED
  BY <1>1, <1>2, <1>3 DEF UnwindInv, AtMain, Calling, Searching, Cleaning, Returning, InHarness

-----------------------------------------------------------------------------
(* Where the exception is, at every step of every run.                         *)
THEOREM UnwindInvariant == Spec => []UnwindInv
<1>1. ASSUME UnwindInv, [Next]_vars
      PROVE  UnwindInv'
  BY <1>1, NextRunInv, EndOfArgumentsInv, EntryInv, ThrowInv, SearchPhaseInv, CleanupPhaseInv,
     ExceptionInv, ExternalExceptionInv, ExceptionRouteInv, CatchInv, FinallyInv,
     UnwindResumeInv, EndInv, NormalInv, HarnessCatchInv, StutterInv DEF Next
<1> QED
  BY <1>1, InitInv, PTL DEF Spec

(* The finally block of each generated function is run exactly once in a run,  *)
(* for exceptions of any type and for foreign ones.                            *)
THEOREM FinallyOnceAlways == Spec => []FinallyOnce
<1>1. ASSUME UnwindInv
      PROVE  FinallyOnce
  <2>1. \E k \in 1..3 : finals = Done(k)
    <3>1. AtMain \/ Calling \/ Searching \/ InHarness \/ Returning => finals \in {Done(1), Done(2), Done(3)}
      BY DEF AtMain, Calling, Searching, Returning, InHarness
    <3>2. Cleaning => \E k \in 1..3 : finals = Done(k)
      BY IndexFacts DEF Cleaning
    <3>3. ASSUME NEW f \in Generated, Landed(f)
          PROVE  \E k \in 1..3 : finals = Done(k)
      BY <3>3, IndexFacts DEF Landed
    <3> QED
      BY <1>1, <3>1, <3>2, <3>3 DEF UnwindInv
  <2>2. \A f \in Generated : finals[f] <= 1
    BY <2>1, IndexFacts DEF Done
  <2>3. Ran => finals = Done(3)
    BY <1>1 DEF UnwindInv, AtMain, Calling, Searching, Cleaning, Returning, InHarness, Landed,
       Ran, Generated, Outer, Inner, Harness
  <2>4. \A f \in Generated : Done(3)[f] = 1
    BY IndexFacts DEF Done
  <2> QED
    BY <2>2, <2>3, <2>4 DEF FinallyOnce
<1> QED
  BY <1>1, UnwindInvariant, PTL

(* Each exception is freed exactly once, and not while the unwinder or a       *)
(* generated function that may resume it still reads it.                       *)
THEOREM FreedOnceAlways == Spec => []FreedOnce
<1>1. ASSUME UnwindInv
      PROVE  FreedOnce
  <2>1. TypeInv /\ (Settled \/ Flying)
    BY <1>1 DEF UnwindInv, AtMain, Calling, Searching, Cleaning, Returning, InHarness, Landed
  <2>2. \A e \in DOMAIN heap : heap[e].frees <= 1
    BY <2>1 DEF Settled, Flying
  <2>3. Ran => Settled
    BY <1>1 DEF UnwindInv, AtMain, Calling, Searching, Cleaning, Returning, InHarness, Landed,
       Ran, Generated, Outer, Inner, Harness
  <2>4. pc[1] = "unwinder" => Flying
    BY <1>1 DEF UnwindInv, AtMain, Calling, Searching, Cleaning, Returning, InHarness, Landed,
       Generated, Outer, Inner, Harness
  <2>5. ASSUME NEW f \in Generated, pc[1] = f, frame[f].exceptionCaughtFlag # NotThrown,
               pc[2] # "entry"
        PROVE  heap[frame[f].exceptionStorage].frees = 0
    <3>1. Landed(f)
      <4>1. ~AtMain /\ ~Calling /\ ~Searching /\ ~Cleaning /\ ~InHarness
        BY <2>5 DEF AtMain, Calling, Searching, Cleaning, InHarness, Generated, Harness
      <4>2. ~Returning
        BY <2>5 DEF Returning, NewFrame
      <4> QED
        BY <1>1, <2>5, <4>1, <4>2 DEF UnwindInv, Landed
    <3>2. pc[2] # "exception"
      BY <2>5, <3>1 DEF Landed, Block
    <3> QED
      BY <3>1, <3>2 DEF Landed, Flying
  <2> QED
    BY <2>2, <2>3, <2>4, <2>5 DEF FreedOnce, Settled, Flying
<1> QED
  BY <1>1, UnwindInvariant, PTL

(* The function that catches an exception is the innermost that lists its      *)
(* type, and the harness catches what nobody lists and what is not ours.       *)
THEOREM CaughtWhereListedAlways == Spec => []CaughtWhereListed
<1>1. ASSUME UnwindInv
      PROVE  CaughtWhereListed
  <2>1. Ran => catcher = Stack[HandlerOf]
    BY <1>1 DEF UnwindInv, AtMain, Calling, Searching, Cleaning, Returning, InHarness, Landed,
       Ran, Generated, Outer, Inner, Harness
  <2> QED
    BY <2>1, IndexFacts DEF CaughtWhereListed, HandlerOf, Inner, Outer
<1> QED
  BY <1>1, UnwindInvariant, PTL

(* The cleanup phase ends in the frame the search phase found.                 *)
THEOREM PhasesAlwaysAgree == Spec => []PhasesAgree
<1>1. ASSUME UnwindInv
      PROVE  PhasesAgree
  <2>1. Ran => catcher = Stack[unwinder.handler]
    BY <1>1 DEF UnwindInv, AtMain, Calling, Searching, Cleaning, Returning, InHarness, Landed,
       Ran, Generated, Outer, Inner, Harness
  <2>2. pc = <<"unwinder", "cleanup">> => Cleaning
    BY <1>1 DEF UnwindInv, AtMain, Calling, Searching, Cleaning, Returning, InHarness, Landed,
       Generated, Outer, Inner, Harness
  <2> QED
    BY <2>1, <2>2, IndexFacts DEF PhasesAgree, Cleaning
<1> QED
  BY <1>1, UnwindInvariant, PTL
===============================================================================
