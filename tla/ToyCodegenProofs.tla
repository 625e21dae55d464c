-------------------------- MODULE ToyCodegenProofs --------------------------
(* The code generator of the Kaleidoscope examples, for every version and for  *)
(* expressions and sessions of any size.                                       *)
EXTENDS ToyCodegen, ToyScriptOrder, SequenceTheorems, TLAPS

-----------------------------------------------------------------------------
(* Every version is made of these routines.                                  *)
LEMMA VersionTables ==
    \A v \in DOMAIN Scripts : IF v = "Chapter9" THEN Scripts[v] = Chapter9Table
                                                ELSE Scripts[v] \in Tables
<1> USE DEF Chapter4Expressions, Chapter5Expressions, Chapter8Expressions,
      BuildingAJIT1Expressions, BuildingAJIT2Expressions, BuildingAJIT3Expressions,
      BuildingAJIT4Expressions, MCJITInitialExpressions, MCJITLazyExpressions,
      MCJITCachedExpressions, MCJITCompleteExpressions, ToyJITLazyExpressions,
      ToyJITCachedExpressions
<1> USE DEF Chapter6If, Chapter7If, Chapter8If, BuildingAJIT1If, BuildingAJIT2If, BuildingAJIT3If,
      BuildingAJIT4If, MCJITInitialIf, MCJITLazyIf, MCJITCachedIf, MCJITCompleteIf, ToyJITLazyIf,
      ToyJITCachedIf
<1> USE DEF Chapter6For, Chapter8For, BuildingAJIT1For, BuildingAJIT2For, BuildingAJIT3For,
      BuildingAJIT4For, MCJITInitialFor, MCJITLazyFor, MCJITCachedFor, MCJITCompleteFor,
      ToyJITLazyFor, ToyJITCachedFor
<1> USE DEF Chapter8Var, BuildingAJIT1Var, BuildingAJIT2Var, BuildingAJIT3Var, BuildingAJIT4Var,
      MCJITInitialVar, MCJITLazyVar, MCJITCachedVar, MCJITCompleteVar, ToyJITLazyVar,
      ToyJITCachedVar
<1> USE DEF Chapter4Function, Chapter5Function, Chapter6Function, Chapter8Function,
      BuildingAJIT1Function, BuildingAJIT2Function, BuildingAJIT3Function, BuildingAJIT4Function,
      MCJITLazyFunction, MCJITCachedFunction, MCJITCompleteFunction, ToyJITLazyFunction,
      ToyJITCachedFunction
<1> QED
  BY DEF Scripts, Tables, Chapter9Table

(* So a routine is one of those listed, by its kind.                         *)
LEMMA TableScripts == \A t \in Tables : Sorted(t)
<1> DEFINE Right(e) == \A k \in DOMAIN e :
        /\ k \in {"Number", "Variable", "Binary", "Call", "Unary", "Assign"}
        /\ e[k] \in Plain
<1>1. Right(Chapter3Expressions)
  BY DEF Chapter3Expressions, Plain
<1>2. Right(Chapter6Expressions)
  BY SMTT(30) DEF Chapter6Expressions, Plain, Chapter3Expressions, Chapter4Expressions,
     Chapter5Expressions
<1>3. Right(Chapter7Expressions)
  BY DEF Chapter7Expressions, Chapter6Expressions, Plain, Chapter3Expressions,
     Chapter4Expressions, Chapter5Expressions
<1>4. \A e, f : Right(e) /\ f \in Functions => Sorted(Expressions(e, f))
  BY DEF Sorted, Expressions, KindNames
<1>5. \A t, for : Sorted(t) /\ for \in LoopScripts => Sorted(Loops(t, Chapter5If, for))
  BY DEF Sorted, Loops, KindNames
<1>6. \A t : Sorted(t) => Sorted(Mutable(t, Chapter7Var))
  BY DEF Sorted, Mutable, KindNames, Plain
<1> HIDE DEF Right
<1>5a. Chapter5For \in LoopScripts /\ Chapter7For \in LoopScripts
  BY DEF LoopScripts
<1>6a. Chapter3Function \in Functions /\ Chapter7Function \in Functions /\ MCJITInitialFunction \in Functions
  BY DEF Functions
<1>7. QED
  BY <1>1, <1>2, <1>3, <1>4, <1>5, <1>6, <1>5a, <1>6a DEF Tables

(* The same for chapter 9, whose routines have debug locations.              *)
LEMMA Chapter9Scripts ==
  /\ DOMAIN Chapter9Table \subseteq KindNames \cup {"Function"}
  /\ "Function" \in DOMAIN Chapter9Table
  /\ Chapter9Table["Function"] = Chapter9Function
  /\ \A k \in DOMAIN Chapter9Table :
        /\ k = "If" => Chapter9Table[k] = Chapter9If
        /\ k = "For" => Chapter9Table[k] = Chapter9For
        /\ k \notin {"Function", "If", "For"} => Chapter9Table[k] \in Debugged
<1>1. \A k \in DOMAIN Chapter9Expressions :
        /\ k \in {"Number", "Variable", "Binary", "Call", "Unary", "Assign"}
        /\ Chapter9Expressions[k] \in Debugged
  BY DEF Chapter9Expressions, Debugged
<1>2. Chapter9Var \in Debugged
  BY DEF Debugged
<1>3. QED
  BY <1>1, <1>2 DEF Chapter9Table, Expressions, Loops, Mutable, KindNames

-----------------------------------------------------------------------------
(* The scripts that make blocks, one by one.                                 *)
LEMMA Chapter5IfStatic == Shaped(Chapter5If) /\ Evaluates(Chapter5If) /\ Splits(Chapter5If)
<1> DEFINE s == Chapter5If
<1>1. Shaped(s)
  BY DEF Chapter5If, Shaped, Typed, OneValue, OneBlock, Bare, Registers, BlockRegisters, Ends
<1>2. AssignsOnce(s)
  BY SMTT(30) DEF Chapter5If, AssignsOnce, Assigning, Gens, Sets
<1>3. ReturnsAt(s, 24)
  <2>1. \A j \in 1..(24 - 1) : s[j][1] \in Gens => j + 1 \in 1..(24 - 1) /\ s[j + 1] = <<"check", s[j][2]>>
    BY DEF Chapter5If, Gens
  <2>2. s[24][2] = "const" \/ \E j \in 1..(24 - 1) : s[j][1] \in Sets /\ s[j][2] = s[24][2]
    BY DEF Chapter5If, Sets
  <2> HIDE DEF s
  <2>3. ASSUME NEW j \in 1..(24 - 1), s[j][1] \in Gens
        PROVE  \E i \in 1..(24 - 1) : s[i] = <<"check", s[j][2]>>
    <3>1. j + 1 \in 1..(24 - 1) /\ s[j + 1] = <<"check", s[j][2]>>
      BY <2>1, <2>3
    <3> QED
      BY <3>1
  <2> QED
    BY <2>2, <2>3 DEF ReturnsAt
<1>4. /\ \A pc \in DOMAIN s : s[pc][1] = "at" => pc \in {8, 14, 20}
      /\ \A pc \in DOMAIN s : s[pc][1] \in {"br", "condbr"} => pc \in {7, 11, 17}
      /\ \A pc \in DOMAIN s : s[pc][1] \in {"new", "detached"} => pc \in {4, 5, 6}
      /\ \A pc \in DOMAIN s : s[pc][1] = "here" => pc \in {12, 18}
      /\ \A pc \in DOMAIN s : s[pc][1] = "return" => pc = 24
  BY DEF Chapter5If
<1>5. \A pc \in DOMAIN s : s[pc][1] \notin {"at", "here", "append"} => ~Ended(s, pc)
  BY SMTT(30) DEF Chapter5If, Ended
<1>6. MovesAt(s, 8) /\ MovesAt(s, 14) /\ MovesAt(s, 20)
  BY DEF Chapter5If, MovesAt, Pending, Targeted, Ended, Creates, Before
<1>7. BranchesAt(s, 7) /\ BranchesAt(s, 11) /\ BranchesAt(s, 17)
  BY DEF Chapter5If, BranchesAt, Held, Creates, Before
<1>8. CreatesAt(s, 4) /\ CreatesAt(s, 5) /\ CreatesAt(s, 6)
  BY DEF Chapter5If, CreatesAt, Creates, Before, Targeted
<1>9. KeepsAt(s, 12) /\ KeepsAt(s, 18)
  BY DEF Chapter5If, KeepsAt, Pending, Loose, Creates, Before
<1>10. LeavesAt(s, 24)
  <2>1. \A r : Creates(s, 24, r) => r \in {"ThenBB", "ElseBB", "MergeBB"}
    BY DEF Chapter5If, Creates, Before
  <2>2. \A r \in {"ThenBB", "ElseBB", "MergeBB"} : Before(s, 24, <<"at", r>>)
    BY DEF Chapter5If, Before
  <2>3. \A r : Before(s, 24, <<"detached", r>>) => Before(s, 24, <<"append", r>>)
    BY SMTT(30) DEF Chapter5If, Before
  <2> QED
    BY <2>1, <2>2, <2>3 DEF LeavesAt, Pending, Loose
<1> HIDE DEF s
<1> QED
  <2>1. Evaluates(s)
    BY <1>2, <1>3, <1>4 DEF Evaluates
  <2>2. Splits(s)
    BY SMTT(30), <1>4, <1>5, <1>6, <1>7, <1>8, <1>9, <1>10 DEF Splits
  <2> QED
    BY <1>1, <2>1, <2>2 DEF s

(* The same of the if of chapter 9, which sets the debug location first.       *)
LEMMA Chapter9IfStatic == Shaped(Chapter9If) /\ Evaluates(Chapter9If) /\ Splits(Chapter9If)
<1> DEFINE s == Chapter9If
<1>1. Shaped(s)
  BY DEF Chapter9If, Chapter7If, Chapter6If, Chapter5If, Located, Shaped, Typed, OneValue,
     OneBlock, Bare, Registers, BlockRegisters, Ends
<1>2. AssignsOnce(s)
  <2>1. \A pc \in DOMAIN s : s[pc][1] \in Assigning \cup Sets =>
            <<pc, s[pc][1], s[pc][2]>> \in
              {<<2, "gen", "Cond">>, <<3, "check", "Cond">>, <<4, "inst", "cond">>, <<10, "gen", "Then">>, <<11, "check", "Then">>, <<16, "gen", "Else">>, <<17, "check", "Else">>, <<22, "phi", "PN">>}
    BY SMTT(30) DEF Chapter9If, Chapter7If, Chapter6If, Chapter5If, Located, Assigning, Sets
  <2>2. DOMAIN s = 1..25
    BY DEF Chapter9If, Chapter7If, Chapter6If, Chapter5If, Located
  <2> HIDE DEF s
  <2> QED
    BY <2>1, <2>2 DEF AssignsOnce, Assigning, Gens, Sets
<1>3. ReturnsAt(s, 25)
  <2>1. \A j \in 1..(25 - 1) : s[j][1] \in Gens => j + 1 \in 1..(25 - 1) /\ s[j + 1] = <<"check", s[j][2]>>
    BY DEF Chapter9If, Chapter7If, Chapter6If, Chapter5If, Located, Gens
  <2>2. s[25][2] = "const" \/ \E j \in 1..(25 - 1) : s[j][1] \in Sets /\ s[j][2] = s[25][2]
    BY DEF Chapter9If, Chapter7If, Chapter6If, Chapter5If, Located, Sets
  <2> HIDE DEF s
  <2>3. ASSUME NEW j \in 1..(25 - 1), s[j][1] \in Gens
        PROVE  \E i \in 1..(25 - 1) : s[i] = <<"check", s[j][2]>>
    <3>1. j + 1 \in 1..(25 - 1) /\ s[j + 1] = <<"check", s[j][2]>>
      BY <2>1, <2>3
    <3> QED
      BY <3>1
  <2> QED
    BY <2>2, <2>3 DEF ReturnsAt
<1>4. /\ \A pc \in DOMAIN s : s[pc][1] = "at" => pc \in {9, 15, 21}
      /\ \A pc \in DOMAIN s : s[pc][1] \in {"br", "condbr"} => pc \in {8, 12, 18}
      /\ \A pc \in DOMAIN s : s[pc][1] \in {"new", "detached"} => pc \in {5, 6, 7}
      /\ \A pc \in DOMAIN s : s[pc][1] = "here" => pc \in {13, 19}
      /\ \A pc \in DOMAIN s : s[pc][1] = "return" => pc = 25
  BY SMTT(30) DEF Chapter9If, Chapter7If, Chapter6If, Chapter5If, Located
<1>5. \A pc \in DOMAIN s : s[pc][1] \notin {"at", "here", "append"} => ~Ended(s, pc)
  <2>1. /\ DOMAIN s = 1..25
        /\ s[9][1] = "at" /\ s[15][1] = "at" /\ s[21][1] = "at"
        /\ s[13][1] \in {"here", "append"} /\ s[14][1] \in {"here", "append"} /\ s[19][1] \in {"here", "append"} /\ s[20][1] \in {"here", "append"}
    BY DEF Chapter9If, Chapter7If, Chapter6If, Chapter5If, Located
  <2> HIDE DEF s
  <2> QED
    BY <1>4, <2>1 DEF Ended
<1>6. MovesAt(s, 9) /\ MovesAt(s, 15) /\ MovesAt(s, 21)
  BY SMTT(30) DEF Chapter9If, Chapter7If, Chapter6If, Chapter5If, Located, MovesAt, Pending,
     Targeted, Ended, Creates, Before
<1>7. BranchesAt(s, 8) /\ BranchesAt(s, 12) /\ BranchesAt(s, 18)
  BY DEF Chapter9If, Chapter7If, Chapter6If, Chapter5If, Located, BranchesAt, Held, Creates, Before
<1>8. CreatesAt(s, 5) /\ CreatesAt(s, 6) /\ CreatesAt(s, 7)
  BY SMTT(30) DEF Chapter9If, Chapter7If, Chapter6If, Chapter5If, Located, CreatesAt, Creates,
     Before, Targeted
<1>9. KeepsAt(s, 13) /\ KeepsAt(s, 19)
  BY DEF Chapter9If, Chapter7If, Chapter6If, Chapter5If, Located, KeepsAt, Pending, Loose,
     Creates, Before
<1>10. LeavesAt(s, 25)
  <2>1. \A r : Creates(s, 25, r) => r \in {"ThenBB", "ElseBB", "MergeBB"}
    BY DEF Chapter9If, Chapter7If, Chapter6If, Chapter5If, Located, Creates, Before
  <2>2. \A r \in {"ThenBB", "ElseBB", "MergeBB"} : Before(s, 25, <<"at", r>>)
    BY DEF Chapter9If, Chapter7If, Chapter6If, Chapter5If, Located, Before
  <2>3. \A r : Before(s, 25, <<"detached", r>>) => Before(s, 25, <<"append", r>>)
    BY DEF Chapter9If, Chapter7If, Chapter6If, Chapter5If, Located, Before
  <2> QED
    BY <2>1, <2>2, <2>3 DEF LeavesAt, Pending, Loose
<1> HIDE DEF s
<1> QED
  <2>1. Evaluates(s)
    BY <1>2, <1>3, <1>4 DEF Evaluates
  <2>2. Splits(s)
    BY <1>4, <1>5, <1>6, <1>7, <1>8, <1>9, <1>10 DEF Splits
  <2> QED
    BY <1>1, <2>1, <2>2 DEF s

(* The loop of chapters 5 and 6 carries its variable by a PHI.                 *)
LEMMA Chapter5ForStatic == Shaped(Chapter5For) /\ Evaluates(Chapter5For) /\ Splits(Chapter5For)
<1> DEFINE s == Chapter5For
<1>1. Shaped(s)
  BY DEF Chapter5For, Shaped, Typed, OneValue, OneBlock, Bare, Registers, BlockRegisters, Ends
<1>2. AssignsOnce(s)
  BY SMTT(30) DEF Chapter5For, AssignsOnce, Assigning, Gens, Sets
<1>3. ReturnsAt(s, 24)
  <2>1. \A j \in 1..(24 - 1) : s[j][1] \in Gens => j + 1 \in 1..(24 - 1) /\ s[j + 1] = <<"check", s[j][2]>>
    BY DEF Chapter5For, Gens
  <2>2. s[24][2] = "const" \/ \E j \in 1..(24 - 1) : s[j][1] \in Sets /\ s[j][2] = s[24][2]
    BY DEF Chapter5For, Sets
  <2> HIDE DEF s
  <2>3. ASSUME NEW j \in 1..(24 - 1), s[j][1] \in Gens
        PROVE  \E i \in 1..(24 - 1) : s[i] = <<"check", s[j][2]>>
    <3>1. j + 1 \in 1..(24 - 1) /\ s[j + 1] = <<"check", s[j][2]>>
      BY <2>1, <2>3
    <3> QED
      BY <3>1
  <2> QED
    BY <2>2, <2>3 DEF ReturnsAt
<1>4. /\ \A pc \in DOMAIN s : s[pc][1] = "at" => pc \in {6, 21}
      /\ \A pc \in DOMAIN s : s[pc][1] \in {"br", "condbr"} => pc \in {5, 20}
      /\ \A pc \in DOMAIN s : s[pc][1] \in {"new", "detached"} => pc \in {4, 19}
      /\ \A pc \in DOMAIN s : s[pc][1] = "here" => pc \in {3, 18}
      /\ \A pc \in DOMAIN s : s[pc][1] = "return" => pc = 24
  BY DEF Chapter5For
<1>5. \A pc \in DOMAIN s : s[pc][1] \notin {"at", "here", "append"} => ~Ended(s, pc)
  BY SMTT(30) DEF Chapter5For, Ended
<1>6. MovesAt(s, 6) /\ MovesAt(s, 21)
  BY DEF Chapter5For, MovesAt, Pending, Targeted, Ended, Creates, Before
<1>7. BranchesAt(s, 5) /\ BranchesAt(s, 20)
  BY DEF Chapter5For, BranchesAt, Held, Creates, Before
<1>8. CreatesAt(s, 4) /\ CreatesAt(s, 19)
  BY DEF Chapter5For, CreatesAt, Creates, Before, Targeted
<1>9. KeepsAt(s, 3) /\ KeepsAt(s, 18)
  BY DEF Chapter5For, KeepsAt, Pending, Loose, Creates, Before
<1>10. LeavesAt(s, 24)
  <2>1. \A r : Creates(s, 24, r) => r \in {"LoopBB", "AfterBB"}
    BY DEF Chapter5For, Creates, Before
  <2>2. \A r \in {"LoopBB", "AfterBB"} : Before(s, 24, <<"at", r>>)
    BY DEF Chapter5For, Before
  <2>3. \A r : Before(s, 24, <<"detached", r>>) => Before(s, 24, <<"append", r>>)
    BY DEF Chapter5For, Before
  <2> QED
    BY <2>1, <2>2, <2>3 DEF LeavesAt, Pending, Loose
<1> HIDE DEF s
<1> QED
  <2>1. Evaluates(s)
    BY <1>2, <1>3, <1>4 DEF Evaluates
  <2>2. Splits(s)
    BY SMTT(30), <1>4, <1>5, <1>6, <1>7, <1>8, <1>9, <1>10 DEF Splits
  <2> QED
    BY <1>1, <2>1, <2>2 DEF s

(* From chapter 7 on, the variable of a loop is an alloca.                     *)
LEMMA Chapter7ForStatic == Shaped(Chapter7For) /\ Evaluates(Chapter7For) /\ Splits(Chapter7For)
<1> DEFINE s == Chapter7For
<1>1. Shaped(s)
  BY DEF Chapter7For, Shaped, Typed, OneValue, OneBlock, Bare, Registers, BlockRegisters, Ends
<1>2. AssignsOnce(s)
  BY SMTT(30) DEF Chapter7For, AssignsOnce, Assigning, Gens, Sets
<1>3. ReturnsAt(s, 23)
  <2>1. \A j \in 1..(23 - 1) : s[j][1] \in Gens => j + 1 \in 1..(23 - 1) /\ s[j + 1] = <<"check", s[j][2]>>
    BY DEF Chapter7For, Gens
  <2>2. s[23][2] = "const" \/ \E j \in 1..(23 - 1) : s[j][1] \in Sets /\ s[j][2] = s[23][2]
    BY DEF Chapter7For, Sets
  <2> HIDE DEF s
  <2>3. ASSUME NEW j \in 1..(23 - 1), s[j][1] \in Gens
        PROVE  \E i \in 1..(23 - 1) : s[i] = <<"check", s[j][2]>>
    <3>1. j + 1 \in 1..(23 - 1) /\ s[j + 1] = <<"check", s[j][2]>>
      BY <2>1, <2>3
    <3> QED
      BY <3>1
  <2> QED
    BY <2>2, <2>3 DEF ReturnsAt
<1>4. /\ \A pc \in DOMAIN s : s[pc][1] = "at" => pc \in {7, 21}
      /\ \A pc \in DOMAIN s : s[pc][1] \in {"br", "condbr"} => pc \in {6, 20}
      /\ \A pc \in DOMAIN s : s[pc][1] \in {"new", "detached"} => pc \in {5, 19}
      /\ \A pc \in DOMAIN s : s[pc][1] = "here" => pc \in {}
      /\ \A pc \in DOMAIN s : s[pc][1] = "return" => pc = 23
  BY DEF Chapter7For
<1>5. \A pc \in DOMAIN s : s[pc][1] \notin {"at", "here", "append"} => ~Ended(s, pc)
  BY SMTT(30) DEF Chapter7For, Ended
<1>6. MovesAt(s, 7) /\ MovesAt(s, 21)
  BY DEF Chapter7For, MovesAt, Pending, Targeted, Ended, Creates, Before
<1>7. BranchesAt(s, 6) /\ BranchesAt(s, 20)
  BY DEF Chapter7For, BranchesAt, Held, Creates, Before
<1>8. CreatesAt(s, 5) /\ CreatesAt(s, 19)
  BY DEF Chapter7For, CreatesAt, Creates, Before, Targeted
<1>9. TRUE
  BY DEF Chapter7For, KeepsAt, Pending, Loose, Creates, Before
<1>10. LeavesAt(s, 23)
  <2>1. \A r : Creates(s, 23, r) => r \in {"LoopBB", "AfterBB"}
    BY DEF Chapter7For, Creates, Before
  <2>2. \A r \in {"LoopBB", "AfterBB"} : Before(s, 23, <<"at", r>>)
    BY DEF Chapter7For, Before
  <2>3. \A r : Before(s, 23, <<"detached", r>>) => Before(s, 23, <<"append", r>>)
    BY DEF Chapter7For, Before
  <2> QED
    BY <2>1, <2>2, <2>3 DEF LeavesAt, Pending, Loose
<1> HIDE DEF s
<1> QED
  <2>1. Evaluates(s)
    BY <1>2, <1>3, <1>4 DEF Evaluates
  <2>2. Splits(s)
    BY <1>4, <1>5, <1>6, <1>7, <1>8, <1>9, <1>10 DEF Splits
  <2> QED
    BY <1>1, <2>1, <2>2 DEF s

(* Chapter 9 sets the debug location first.                                    *)
LEMMA Chapter9ForStatic == Shaped(Chapter9For) /\ Evaluates(Chapter9For) /\ Splits(Chapter9For)
<1> DEFINE s == Chapter9For
<1>1. Shaped(s)
  BY DEF Chapter9For, Shaped, Typed, OneValue, OneBlock, Bare, Registers, BlockRegisters, Ends
<1>2. AssignsOnce(s)
  BY SMTT(30) DEF Chapter9For, AssignsOnce, Assigning, Gens, Sets
<1>3. ReturnsAt(s, 24)
  <2>1. \A j \in 1..(24 - 1) : s[j][1] \in Gens => j + 1 \in 1..(24 - 1) /\ s[j + 1] = <<"check", s[j][2]>>
    BY DEF Chapter9For, Gens
  <2>2. s[24][2] = "const" \/ \E j \in 1..(24 - 1) : s[j][1] \in Sets /\ s[j][2] = s[24][2]
    BY DEF Chapter9For, Sets
  <2> HIDE DEF s
  <2>3. ASSUME NEW j \in 1..(24 - 1), s[j][1] \in Gens
        PROVE  \E i \in 1..(24 - 1) : s[i] = <<"check", s[j][2]>>
    <3>1. j + 1 \in 1..(24 - 1) /\ s[j + 1] = <<"check", s[j][2]>>
      BY <2>1, <2>3
    <3> QED
      BY <3>1
  <2> QED
    BY <2>2, <2>3 DEF ReturnsAt
<1>4. /\ \A pc \in DOMAIN s : s[pc][1] = "at" => pc \in {8, 22}
      /\ \A pc \in DOMAIN s : s[pc][1] \in {"br", "condbr"} => pc \in {7, 21}
      /\ \A pc \in DOMAIN s : s[pc][1] \in {"new", "detached"} => pc \in {6, 20}
      /\ \A pc \in DOMAIN s : s[pc][1] = "here" => pc \in {}
      /\ \A pc \in DOMAIN s : s[pc][1] = "return" => pc = 24
  BY DEF Chapter9For
<1>5. \A pc \in DOMAIN s : s[pc][1] \notin {"at", "here", "append"} => ~Ended(s, pc)
  BY SMTT(30) DEF Chapter9For, Ended
<1>6. MovesAt(s, 8) /\ MovesAt(s, 22)
  BY DEF Chapter9For, MovesAt, Pending, Targeted, Ended, Creates, Before
<1>7. BranchesAt(s, 7) /\ BranchesAt(s, 21)
  BY DEF Chapter9For, BranchesAt, Held, Creates, Before
<1>8. CreatesAt(s, 6) /\ CreatesAt(s, 20)
  BY DEF Chapter9For, CreatesAt, Creates, Before, Targeted
<1>9. TRUE
  BY DEF Chapter9For, KeepsAt, Pending, Loose, Creates, Before
<1>10. LeavesAt(s, 24)
  <2>1. \A r : Creates(s, 24, r) => r \in {"LoopBB", "AfterBB"}
    BY DEF Chapter9For, Creates, Before
  <2>2. \A r \in {"LoopBB", "AfterBB"} : Before(s, 24, <<"at", r>>)
    BY DEF Chapter9For, Before
  <2>3. \A r : Before(s, 24, <<"detached", r>>) => Before(s, 24, <<"append", r>>)
    BY DEF Chapter9For, Before
  <2> QED
    BY <2>1, <2>2, <2>3 DEF LeavesAt, Pending, Loose
<1> HIDE DEF s
<1> QED
  <2>1. Evaluates(s)
    BY <1>2, <1>3, <1>4 DEF Evaluates
  <2>2. Splits(s)
    BY <1>4, <1>5, <1>6, <1>7, <1>8, <1>9, <1>10 DEF Splits
  <2> QED
    BY <1>1, <2>1, <2>2 DEF s

-----------------------------------------------------------------------------
(* A script that makes no block has none to lose.                            *)
LEMMA NoBlocksSplits ==
  ASSUME NEW s, \A pc \in DOMAIN s : s[pc][1] \notin BlockOps, Shaped(s)
  PROVE  Splits(s)
<1>1. ASSUME NEW pc \in DOMAIN s, NEW r
      PROVE  ~Creates(s, pc, r) /\ ~Before(s, pc, <<"detached", r>>)
  BY DEF Creates, Before, BlockOps, Shaped
<1>2. \A pc \in DOMAIN s : ~Ended(s, pc)
  BY DEF Ended, BlockOps, Shaped
<1> QED
  BY <1>1, <1>2 DEF Splits, LeavesAt, Pending, Loose, BlockOps

(* Expressions that make no block.                                           *)
LEMMA PlainScripts == \A s \in Plain : Simple(s) /\ NoDebug(s)
<1> USE DEF Simple, NoDebug, Shaped, Evaluates, AssignsOnce, ReturnsAt, Typed, OneValue,
   OneBlock, Bare, Registers,
            BlockRegisters, Ends, Gens, Sets, Assigning, BlockOps, FunctionOps, DebugOps
<1>1. Simple(Chapter3Expressions.Number) /\ NoDebug(Chapter3Expressions.Number)
  BY DEF Chapter3Expressions
<1>2. Simple(Chapter3Expressions.Variable) /\ NoDebug(Chapter3Expressions.Variable)
  BY SMTT(30) DEF Chapter3Expressions
<1>3. Simple(Chapter3Expressions.Binary) /\ NoDebug(Chapter3Expressions.Binary)
  BY SMTT(30) DEF Chapter3Expressions
<1>4. Simple(Chapter3Expressions.Call) /\ NoDebug(Chapter3Expressions.Call)
  BY DEF Chapter3Expressions
<1>5. Simple(Chapter6Expressions.Unary) /\ NoDebug(Chapter6Expressions.Unary)
  BY SMTT(30) DEF Chapter6Expressions
<1>6. Simple(Chapter7Expressions.Variable) /\ NoDebug(Chapter7Expressions.Variable)
  BY SMTT(30) DEF Chapter7Expressions
<1>7. Simple(Chapter7Expressions.Assign) /\ NoDebug(Chapter7Expressions.Assign)
  BY SMTT(30) DEF Chapter7Expressions
<1>8. Simple(Chapter7Var) /\ NoDebug(Chapter7Var)
  BY SMTT(30) DEF Chapter7Var
<1> HIDE DEF Simple, NoDebug, Shaped, Evaluates, AssignsOnce, ReturnsAt, Typed, OneValue, OneBlock, Bare, Registers,
             BlockRegisters, Ends, Gens, Sets, Assigning, BlockOps, FunctionOps, DebugOps
<1> QED
  BY <1>1, <1>2, <1>3, <1>4, <1>5, <1>6, <1>7, <1>8 DEF Plain

(* The same in chapter 9.                                                    *)
LEMMA DebuggedScripts == \A s \in Debugged : Simple(s)
<1> USE DEF Simple, NoDebug, Shaped, Evaluates, AssignsOnce, ReturnsAt, Typed, OneValue,
   OneBlock, Bare, Registers,
            BlockRegisters, Ends, Gens, Sets, Assigning, BlockOps, FunctionOps, DebugOps
<1>1. Simple(Located(Chapter3Expressions.Number))
  BY SMTT(30) DEF Located, Chapter3Expressions
<1>2. Simple(Chapter9Expressions.Variable)
  BY SMTT(30) DEF Chapter9Expressions
<1>3. Simple(Located(Chapter3Expressions.Binary))
  <2> DEFINE s == Located(Chapter3Expressions.Binary)
  <2>1. \A pc \in DOMAIN s : s[pc][1] \notin BlockOps \cup FunctionOps
    BY DEF Located, Chapter3Expressions
  <2>4. Shaped(s)
    <3>1. Len(s) = 7 /\ DOMAIN s = 1..7
      BY DEF Located, Chapter3Expressions
    <3>2. \A pc \in 1..7 : Typed(s[pc])
      BY DEF Located, Chapter3Expressions
    <3>3. \A pc \in 1..7 : s[pc][1] \in Ends <=> pc = 7
      BY DEF Located, Chapter3Expressions
    <3> HIDE DEF s, Typed, Ends
    <3> QED
      BY <3>1, <3>2, <3>3
  <2>2. AssignsOnce(s)
    BY DEF Located, Chapter3Expressions
  <2>3. \A pc \in DOMAIN s : s[pc][1] = "return" => ReturnsAt(s, pc)
    BY SMTT(30) DEF Located, Chapter3Expressions
  <2> QED
    BY <2>1, <2>2, <2>3, <2>4
<1>4. Simple(Located(Chapter3Expressions.Call))
  <2> DEFINE s == Located(Chapter3Expressions.Call)
  <2>1. \A pc \in DOMAIN s : s[pc][1] \notin BlockOps \cup FunctionOps
    BY DEF Located, Chapter3Expressions
  <2>4. Shaped(s)
    <3>1. Len(s) = 8 /\ DOMAIN s = 1..8
      BY DEF Located, Chapter3Expressions
    <3>2. \A pc \in 1..8 : Typed(s[pc])
      BY DEF Located, Chapter3Expressions
    <3>3. \A pc \in 1..8 : s[pc][1] \in Ends <=> pc = 8
      BY DEF Located, Chapter3Expressions
    <3> HIDE DEF s, Typed, Ends
    <3> QED
      BY <3>1, <3>2, <3>3
  <2>2. AssignsOnce(s)
    BY DEF Located, Chapter3Expressions
  <2>3. \A pc \in DOMAIN s : s[pc][1] = "return" => ReturnsAt(s, pc)
    BY SMTT(30) DEF Located, Chapter3Expressions
  <2> QED
    BY <2>1, <2>2, <2>3, <2>4
<1>5. Simple(Chapter9Expressions.Unary)
  BY SMTT(30) DEF Chapter9Expressions
<1>6. Simple(Chapter9Expressions.Assign)
  <2> DEFINE s == Chapter9Expressions.Assign
  <2>1. \A pc \in DOMAIN s : s[pc][1] \notin BlockOps \cup FunctionOps
    BY DEF Located, Chapter9Expressions, Chapter7Expressions
  <2>4. Shaped(s)
    <3>1. Len(s) = 7 /\ DOMAIN s = 1..7
      BY SMTT(30) DEF Located, Chapter9Expressions, Chapter7Expressions
    <3>2. \A pc \in 1..7 : Typed(s[pc])
      BY DEF Located, Chapter9Expressions, Chapter7Expressions
    <3>3. \A pc \in 1..7 : s[pc][1] \in Ends <=> pc = 7
      BY DEF Located, Chapter9Expressions, Chapter7Expressions
    <3> HIDE DEF s, Typed, Ends
    <3> QED
      BY <3>1, <3>2, <3>3
  <2>2. AssignsOnce(s)
    BY DEF Located, Chapter9Expressions, Chapter7Expressions
  <2>3. \A pc \in DOMAIN s : s[pc][1] = "return" => ReturnsAt(s, pc)
    BY SMTT(30) DEF Located, Chapter9Expressions, Chapter7Expressions
  <2> QED
    BY <2>1, <2>2, <2>3, <2>4
<1>7. Simple(Chapter9Var)
  BY DEF Chapter9Var
<1> HIDE DEF Simple, NoDebug, Shaped, Evaluates, AssignsOnce, ReturnsAt, Typed, OneValue, OneBlock, Bare, Registers,
             BlockRegisters, Ends, Gens, Sets, Assigning, BlockOps, FunctionOps, DebugOps
<1>8. /\ Chapter9Expressions.Number = Located(Chapter3Expressions.Number)
      /\ Chapter9Expressions.Binary = Located(Chapter3Expressions.Binary)
      /\ Chapter9Expressions.Call = Located(Chapter3Expressions.Call)
  BY DEF Chapter9Expressions, Chapter7Expressions, Chapter6Expressions, Chapter5Expressions,
         Chapter4Expressions
<1> QED
  BY <1>1, <1>2, <1>3, <1>4, <1>5, <1>6, <1>7, <1>8 DEF Debugged

(* FunctionAST::codegen makes its function and forgets the names first.      *)
LEMMA FunctionScripts == \A s \in Functions : Whole(s) /\ NoDebug(s)
<1> USE DEF Whole, Prologue, Passed, NoDebug, Shaped, Evaluates, AssignsOnce, ReturnsAt, Typed,
   OneValue, OneBlock, Bare, Registers,
            BlockRegisters, Ends, Gens, Sets, Assigning, BlockOps, FunctionOps, DebugOps
<1>1. Whole(Chapter3Function) /\ NoDebug(Chapter3Function)
  BY SMTT(30) DEF Chapter3Function
<1>2. Whole(Chapter7Function) /\ NoDebug(Chapter7Function)
  BY DEF Chapter7Function
<1>3. Whole(MCJITInitialFunction) /\ NoDebug(MCJITInitialFunction)
  BY SMTT(30) DEF MCJITInitialFunction
<1> HIDE DEF Whole, Prologue, Passed, NoDebug, Shaped, Evaluates, AssignsOnce, ReturnsAt, Typed, OneValue, OneBlock, Bare, Registers,
             BlockRegisters, Ends, Gens, Sets, Assigning, BlockOps, FunctionOps, DebugOps
<1> QED
  BY <1>1, <1>2, <1>3 DEF Functions

(* The same in chapter 9.                                                    *)
LEMMA Chapter9FunctionScript == Whole(Chapter9Function)
  BY DEF Chapter9Function, Whole, Prologue, Passed, NoDebug, Shaped, Evaluates, AssignsOnce,
     ReturnsAt, Typed, OneValue, OneBlock, Bare, Registers,
         BlockRegisters, Ends, Gens, Sets, Assigning, BlockOps, FunctionOps, DebugOps

(* if and for do nothing of what only a function does.                       *)
LEMMA SplittingOps ==
  /\ \A s \in Splitting : \A pc \in DOMAIN s : s[pc][1] \notin FunctionOps
  /\ NoDebug(Chapter5If) /\ NoDebug(Chapter5For) /\ NoDebug(Chapter7For)
<1> DEFINE OK(s) == \A pc \in DOMAIN s : s[pc][1] \notin FunctionOps
<1>1. OK(Chapter5If) /\ NoDebug(Chapter5If)
  BY DEF Chapter5If, FunctionOps, NoDebug, DebugOps
<1>2. OK(Chapter5For) /\ NoDebug(Chapter5For)
  BY DEF Chapter5For, FunctionOps, NoDebug, DebugOps
<1>3. OK(Chapter7For) /\ NoDebug(Chapter7For)
  BY DEF Chapter7For, FunctionOps, NoDebug, DebugOps
<1>4. OK(Chapter9If)
  BY SMTT(30) DEF Chapter9If, Chapter7If, Chapter6If, Chapter5If, Located, FunctionOps
<1>5. OK(Chapter9For)
  BY SMTT(30) DEF Chapter9For, FunctionOps
<1> QED
  BY <1>1, <1>2, <1>3, <1>4, <1>5 DEF Splitting, LoopScripts

(* What is assumed of a routine from here on holds of every one.             *)
LEMMA EveryScriptIsSane ==
  \A v \in DOMAIN Scripts : /\ "Function" \in DOMAIN Scripts[v]
                            /\ \A k \in DOMAIN Scripts[v] : Sane(v, k)
<1> SUFFICES ASSUME NEW v \in DOMAIN Scripts
             PROVE  /\ "Function" \in DOMAIN Scripts[v]
                    /\ \A k \in DOMAIN Scripts[v] : Sane(v, k)
  OBVIOUS
<1>1. \A s : Simple(s) => /\ Shaped(s) /\ Evaluates(s) /\ AssignsOnce(s) /\ Splits(s)
                         /\ \A pc \in DOMAIN s : s[pc][1] \notin FunctionOps
  BY NoBlocksSplits DEF Simple, Evaluates
<1>2. \A s : Whole(s) => Shaped(s) /\ AssignsOnce(s) /\ Prologue(s) /\ Splits(s)
  <2> SUFFICES ASSUME NEW s, Whole(s) PROVE Splits(s)
    BY DEF Whole
  <2>1. \A pc \in DOMAIN s : s[pc][1] \notin BlockOps
    BY DEF Whole, Prologue, BlockOps, FunctionOps
  <2> QED
    BY <2>1, NoBlocksSplits DEF Whole
<1>3. \A s \in Splitting : /\ Shaped(s) /\ Evaluates(s) /\ AssignsOnce(s) /\ Splits(s)
                           /\ \A pc \in DOMAIN s : s[pc][1] \notin FunctionOps
  BY Chapter5IfStatic, Chapter5ForStatic, Chapter7ForStatic, Chapter9IfStatic, Chapter9ForStatic,
     SplittingOps DEF Splitting, LoopScripts, Evaluates
<1>4. CASE v # "Chapter9"
  <2>1. Sorted(Scripts[v])
    BY <1>4, VersionTables, TableScripts
  <2>2. \A s \in Splitting \ {Chapter9If, Chapter9For} : NoDebug(s)
    BY SplittingOps DEF Splitting, LoopScripts
  <2>3. ASSUME NEW k \in DOMAIN Scripts[v] PROVE Sane(v, k)
    <3>1. k \in KindNames \cup {"Function"}
      BY <2>1 DEF Sorted
    <3>2. CASE k = "Function"
      <4>1. Scripts[v][k] \in Functions
        BY <2>1, <3>2 DEF Sorted
      <4> QED
        BY <1>2, <1>4, <3>1, <3>2, <4>1, FunctionScripts DEF Sane
    <3>3. CASE k \in {"If", "For"}
      <4>1. Scripts[v][k] \in {Chapter5If, Chapter5For, Chapter7For}
        BY <2>1, <3>3 DEF Sorted, LoopScripts
      <4>2. Scripts[v][k] \in Splitting /\ NoDebug(Scripts[v][k])
        BY <4>1, SplittingOps DEF Splitting, LoopScripts
      <4> QED
        BY <1>3, <1>4, <3>1, <3>3, <4>2 DEF Sane
    <3>4. CASE k \notin {"Function", "If", "For"}
      <4>1. Scripts[v][k] \in Plain
        BY <2>1, <3>4 DEF Sorted
      <4> QED
        BY <1>1, <1>4, <3>1, <3>4, <4>1, PlainScripts DEF Sane
    <3> QED
      BY <3>2, <3>3, <3>4
  <2> QED
    BY <2>1, <2>3 DEF Sorted
<1>5. CASE v = "Chapter9"
  <2>1. Scripts[v] = Chapter9Table
    BY <1>5, VersionTables
  <2>3. ASSUME NEW k \in DOMAIN Scripts[v] PROVE Sane(v, k)
    <3>1. k \in KindNames \cup {"Function"}
      BY <2>1, Chapter9Scripts
    <3>2. CASE k = "Function"
      <4>1. Scripts[v][k] = Chapter9Function
        BY <2>1, <3>2, Chapter9Scripts
      <4> QED
        BY <1>2, <1>5, <3>1, <3>2, <4>1, Chapter9FunctionScript DEF Sane
    <3>3. CASE k \in {"If", "For"}
      <4>1. Scripts[v][k] \in Splitting
        BY <2>1, <3>3, Chapter9Scripts DEF Splitting
      <4> QED
        BY <1>3, <1>5, <3>1, <3>3, <4>1 DEF Sane
    <3>4. CASE k \notin {"Function", "If", "For"}
      <4>1. Scripts[v][k] \in Debugged
        BY <2>1, <3>4, Chapter9Scripts
      <4> QED
        BY <1>1, <1>5, <3>1, <3>4, <4>1, DebuggedScripts DEF Sane
    <3> QED
      BY <3>2, <3>3, <3>4
  <2> QED
    BY <2>1, <2>3, Chapter9Scripts
<1> QED
  BY <1>4, <1>5

-----------------------------------------------------------------------------
(* Types.                                                                      *)
States == {"idle", "generating", "finished", "erased", "undefined"}
ValueType == [fn : Nat, block : Int]
RegsType == [Registers -> ValueType]
BBsType == [BlockRegisters -> Nat]
FrameType == [kind : KindNames \cup {"Function"}, name : Names, pc : Nat \ {0},
              old : ValueType, regs : RegsType, bbs : BBsType]
Terminators == [op : {"open", "br", "ret"}, to : SUBSET Nat]

TypeInv ==
    /\ version \in Versions
    /\ fn \in Nat /\ insert \in Nat
    /\ term \in Seq(Terminators) /\ detached \in SUBSET Nat
    /\ phis \in SUBSET Nat
    /\ incoming \in SUBSET [phi : Int, value : ValueType, from : Nat]
    /\ uses \in SUBSET (ValueType \X Nat)
    /\ scope \in Nat /\ lines \in SUBSET Nat /\ scopes \in Seq(Nat)
    /\ named \in [Names -> ValueType]
    /\ stack \in Seq(FrameType)
    /\ state \in States

(* FunctionAST::codegen is the outermost routine and no other; the others wait *)
(* at a gen for the one above.                                                 *)
Does(f) == Routine(f.kind)[f.pc]
Fits(k) ==
    /\ stack[k].kind \in Kinds
    /\ stack[k].kind = "Function" <=> k = 1
    /\ stack[k].pc \in DOMAIN Routine(stack[k].kind)
    /\ k < Len(stack) => Does(stack[k])[1] \in Gens
StackInv ==
    /\ state \in {"generating", "undefined"} => stack # <<>>
    /\ state \notin {"generating", "undefined"} => stack = <<>>
    /\ \A k \in 1..Len(stack) : Fits(k)

(* What is known of a frame that fits.                                       *)
LEMMA ScriptFacts ==
  ASSUME TypeInv, StackInv, NEW k \in 1..Len(stack)
  PROVE  /\ version \in DOMAIN Scripts /\ "Function" \in Kinds
         /\ stack[k] \in FrameType
         /\ Sane(version, stack[k].kind)
         /\ stack[k].kind \in Kinds
         /\ stack[k].pc \in DOMAIN Routine(stack[k].kind)
         /\ Typed(Does(stack[k]))
         /\ Does(stack[k])[1] \notin Ends => stack[k].pc + 1 \in DOMAIN Routine(stack[k].kind)
<1>1. version \in DOMAIN Scripts
  BY CodegenAssumption DEF TypeInv
<1>2. stack[k] \in FrameType
  BY ElementOfSeq DEF TypeInv
<1>3. Fits(k)
  BY DEF StackInv
<1>4. Sane(version, stack[k].kind)
  BY <1>1, <1>3, EveryScriptIsSane DEF Fits, Kinds
<1>5. Shaped(Routine(stack[k].kind))
  BY <1>4 DEF Sane, Routine
<1>6. Typed(Does(stack[k]))
  BY <1>3, <1>5 DEF Fits, Shaped, Does
<1>7. ASSUME Does(stack[k])[1] \notin Ends PROVE stack[k].pc + 1 \in DOMAIN Routine(stack[k].kind)
  <2> DEFINE s == Routine(stack[k].kind)
             pc == stack[k].pc
  <2>1. pc \in DOMAIN s /\ s[pc][1] \notin Ends
    BY <1>3, <1>7 DEF Fits, Does
  <2>2. pc # Len(s)
    BY <2>1, <1>5 DEF Shaped
  <2>3. DOMAIN s = 1..Len(s) /\ Len(s) \in Nat
    BY <1>5 DEF Shaped
  <2> HIDE DEF s, pc
  <2>4. pc + 1 \in DOMAIN s
    BY <2>1, <2>2, <2>3
  <2> QED
    BY <2>4 DEF s, pc
<1>8. "Function" \in Kinds
  BY <1>1, EveryScriptIsSane DEF Kinds
<1> QED
  BY <1>1, <1>2, <1>3, <1>4, <1>6, <1>7, <1>8 DEF Fits

(* A step that leaves the first n frames and moves the last of them on.        *)
Moves(n, regs, bbs, old) ==
    /\ Len(stack') = n
    /\ \A k \in 1..(n - 1) : stack'[k] = stack[k]
    /\ stack'[n] = Moved(stack[n], regs, bbs, old)
    /\ version' = version /\ state' = state

(* A frame that goes on still fits, if its registers keep their types.       *)
LEMMA MovesKeeps ==
  ASSUME TypeInv, StackInv, NEW n \in 1..Len(stack), state = "generating",
         Does(stack[n])[1] \notin Ends,
         NEW regs \in RegsType, NEW bbs \in BBsType, NEW old \in ValueType,
         stack' = [SubSeq(stack, 1, n) EXCEPT ![n] = Moved(stack[n], regs, bbs, old)],
         version' = version, state' = state
  PROVE  stack' \in Seq(FrameType) /\ StackInv' /\ Moves(n, regs, bbs, old)
<1> DEFINE f == Moved(stack[n], regs, bbs, old)
           t == SubSeq(stack, 1, n)
<1>1. stack[n] \in FrameType
  BY ScriptFacts
<1>2. stack[n].pc \in Nat \ {0} /\ stack[n].kind \in KindNames \cup {"Function"} /\ stack[n].name \in Names
  BY <1>1 DEF FrameType
<1>3. f \in FrameType
  BY <1>2 DEF FrameType, Moved
<1>4. f.kind = stack[n].kind /\ f.pc = stack[n].pc + 1
  BY DEF Moved
<1>5. stack \in Seq(FrameType) /\ Len(stack) \in Nat
  BY LenProperties DEF TypeInv
<1>6. t \in Seq(FrameType) /\ Len(t) = n /\ \A k \in 1..n : t[k] = stack[k]
  <2>1. \A i \in 1..n : stack[i] \in FrameType
    BY <1>5, ElementOfSeq
  <2>2. /\ t \in Seq(FrameType)
        /\ Len(t) = IF 1 <= n THEN n-1+1 ELSE 0
        /\ \A i \in 1 .. n-1+1 : t[i] = stack[1+i-1]
    BY <2>1, SubSeqProperties
  <2>3. n \in Nat /\ n >= 1 /\ n - 1 + 1 = n
    BY <1>5
  <2>4. \A i \in 1..n : 1 + i - 1 = i
    BY <2>3
  <2> HIDE DEF t
  <2> QED
    BY <2>2, <2>3, <2>4
<1> HIDE DEF f, t
<1>7. stack' = [t EXCEPT ![n] = f]
  BY DEF f, t
<1>8. n \in 1..Len(t) /\ n \in Nat /\ n >= 1
  BY <1>5, <1>6
<1>9. stack' \in Seq(FrameType) /\ Len(stack') = n /\ \A k \in 1..n : stack'[k] = IF k = n THEN f ELSE t[k]
  <2>1. /\ [t EXCEPT ![n] = f] \in Seq(FrameType)
        /\ Len([t EXCEPT ![n] = f]) = Len(t)
        /\ \A j \in 1 .. Len(t) : [t EXCEPT ![n] = f][j] = IF j=n THEN f ELSE t[j]
    BY <1>3, <1>6, <1>8, ExceptSeq
  <2> QED
    BY <2>1, <1>6, <1>7
<1>10. stack'[n] = f /\ \A k \in 1..(n - 1) : stack'[k] = stack[k]
  BY <1>6, <1>8, <1>9
<1>11. Moves(n, regs, bbs, old)
  BY <1>9, <1>10 DEF Moves, f
<1>12. \A k \in 1..Len(stack) : Fits(k)
  BY DEF StackInv
<1>13. ASSUME NEW k \in 1..n PROVE Fits(k)'
  <2>1. k \in 1..Len(stack) /\ Fits(k)
    BY <1>12, <1>5
  <2>2. CASE k < n
    <3>1. k < Len(stack) /\ stack'[k] = stack[k]
      BY <2>2, <1>5, <1>10
    <3> QED
      BY SMTT(30), <2>1, <3>1 DEF Fits, Does, Routine, Kinds
  <2>3. CASE k = n
    <3>1. stack'[k].kind = stack[k].kind /\ stack'[k].pc = stack[k].pc + 1 /\ ~(k < Len(stack'))
      BY <1>4, <1>8, <1>9, <2>3
    <3>2. stack[k].pc + 1 \in DOMAIN Routine(stack[k].kind)
      BY ScriptFacts, <2>3
    <3> QED
      BY <2>1, <3>1, <3>2 DEF Fits, Does, Routine, Kinds
  <2> QED
    BY <2>2, <2>3, <1>8
<1>14. stack' # <<>>
  BY <1>8, <1>9
<1> QED
  BY <1>9, <1>11, <1>13, <1>14 DEF StackInv

(* The innermost frame goes on.                                                *)
LEMMA TopFacts ==
  ASSUME TypeInv, StackInv, Running
  PROVE  /\ Len(stack) \in 1..Len(stack) /\ Len(stack) \in Nat
         /\ state = "generating"
         /\ Top \in FrameType
         /\ Op = Does(Top) /\ Typed(Op)
         /\ Sane(version, Top.kind)
         /\ Top.pc \in DOMAIN Routine(Top.kind)
         /\ Top.kind = "Function" <=> Len(stack) = 1
<1>1. stack \in Seq(FrameType) /\ stack # <<>>
  BY DEF TypeInv, Running
<1>2. Len(stack) \in Nat \ {0}
  BY <1>1, EmptySeq
<1>3. Len(stack) \in 1..Len(stack)
  BY <1>2
<1>4. Fits(Len(stack))
  BY <1>3 DEF StackInv
<1> QED
  BY <1>2, <1>3, <1>4, ScriptFacts DEF Running, Top, Op, Does, Fits

(* The innermost frame goes on: in general, unchanged, with a value, with a  *)
(* block.                                                                    *)
LEMMA GoesMoves ==
  ASSUME TypeInv, StackInv, Running, Op[1] \notin Ends,
         NEW regs \in RegsType, NEW bbs \in BBsType, NEW old \in ValueType,
         Goes(regs, bbs, old)
  PROVE  stack' \in Seq(FrameType) /\ StackInv' /\ Moves(Len(stack), regs, bbs, old)
<1>1. Len(stack) \in 1..Len(stack) /\ state = "generating" /\ Does(stack[Len(stack)])[1] \notin Ends
  BY TopFacts DEF Top
<1>2. SubSeq(stack, 1, Len(stack)) = stack
  BY SubSeqFull DEF TypeInv
<1>3. stack' = [SubSeq(stack, 1, Len(stack)) EXCEPT ![Len(stack)] = Moved(stack[Len(stack)], regs, bbs, old)]
  BY <1>2 DEF Goes, Top
<1>4. version' = version /\ state' = state
  BY DEF Goes
<1> QED
  BY <1>1, <1>3, <1>4, MovesKeeps

(* Going on changes no register.                                               *)
LEMMA AdvanceMoves ==
  ASSUME TypeInv, StackInv, Running, Op[1] \notin Ends, Advance
  PROVE  stack' \in Seq(FrameType) /\ StackInv' /\ Moves(Len(stack), Top.regs, Top.bbs, Top.old)
<1>1. Top.regs \in RegsType /\ Top.bbs \in BBsType /\ Top.old \in ValueType
  BY TopFacts DEF FrameType
<1> QED
  BY <1>1, GoesMoves DEF Advance

(* It can change one register,                                                 *)
LEMMA AssignMoves ==
  ASSUME TypeInv, StackInv, Running, Op[1] \notin Ends, NEW v \in ValueType, Assign(v)
  PROVE  /\ stack' \in Seq(FrameType) /\ StackInv'
         /\ Moves(Len(stack), [Top.regs EXCEPT ![Op[2]] = v], Top.bbs, Top.old)
<1>1. Top.regs \in RegsType /\ Top.bbs \in BBsType /\ Top.old \in ValueType
  BY TopFacts DEF FrameType
<1>2. [Top.regs EXCEPT ![Op[2]] = v] \in RegsType
  BY <1>1 DEF RegsType
<1> QED
  BY <1>1, <1>2, GoesMoves DEF Assign

(* or one block.                                                               *)
LEMMA AssignBlockMoves ==
  ASSUME TypeInv, StackInv, Running, Op[1] \notin Ends, NEW b \in Nat, AssignBlock(b)
  PROVE  /\ stack' \in Seq(FrameType) /\ StackInv'
         /\ Moves(Len(stack), Top.regs, [Top.bbs EXCEPT ![Op[2]] = b], Top.old)
<1>1. Top.regs \in RegsType /\ Top.bbs \in BBsType /\ Top.old \in ValueType
  BY TopFacts DEF FrameType
<1>2. [Top.bbs EXCEPT ![Op[2]] = b] \in BBsType
  BY <1>1 DEF BBsType
<1> QED
  BY <1>1, <1>2, GoesMoves DEF AssignBlock

(* Only the routine of a function has its operations, and nothing that returns *)
(* before its end.                                                             *)
LEMMA OpsOfRoutines ==
  ASSUME TypeInv, StackInv, Running
  PROVE  /\ Op[1] \in {"check", "callee", "return"} => Len(stack) # 1
         /\ Op[1] \in FunctionOps => Len(stack) = 1
         /\ Len(stack) = 1 => Op[1] \in FunctionOps \cup {"alloca", "inst", "gen", "locate"}
<1>1. /\ Sane(version, Top.kind) /\ Top.pc \in DOMAIN Routine(Top.kind)
      /\ Top.kind = "Function" <=> Len(stack) = 1
  BY TopFacts
<1>2. CASE Top.kind = "Function"
  <2>1. Op[1] \in FunctionOps \cup {"alloca", "inst", "gen", "locate"}
    BY <1>1, <1>2 DEF Sane, Prologue, Op, Routine
  <2> QED
    BY <1>1, <1>2, <2>1 DEF FunctionOps
<1>3. CASE Top.kind # "Function"
  BY <1>1, <1>3 DEF Sane, Op, Routine
<1> QED
  BY <1>2, <1>3

(* A routine returns to the one below it.                                      *)
Caller == stack[Len(stack) - 1]
(* Its caller goes on, with the value returned.                              *)
LEMMA ReturnMoves ==
  ASSUME TypeInv, StackInv, Running, Op[1] \in {"check", "callee", "return"},
         NEW v \in ValueType, ReturnValue(v)
  PROVE  /\ Len(stack) - 1 \in 1..Len(stack)
         /\ Caller \in FrameType
         /\ Does(Caller)[1] \in Gens /\ Does(Caller)[2] \in Registers
         /\ stack' \in Seq(FrameType) /\ StackInv'
         /\ Moves(Len(stack) - 1, [Caller.regs EXCEPT ![Does(Caller)[2]] = v], Caller.bbs, Caller.old)
<1> DEFINE n == Len(stack) - 1
<1>1. Len(stack) \in Nat /\ Len(stack) \in 1..Len(stack) /\ Len(stack) # 1 /\ state = "generating"
  BY TopFacts, OpsOfRoutines
<1>2. n \in 1..Len(stack) /\ n < Len(stack)
  BY SMTT(30), <1>1
<1>3. Fits(n)
  BY <1>2 DEF StackInv
<1>4. Does(Caller)[1] \in Gens
  BY <1>2, <1>3 DEF Fits, Caller
<1>5. Caller \in FrameType /\ Typed(Does(Caller))
  BY <1>2, ScriptFacts DEF Caller
<1>6. Does(Caller)[2] \in Registers
  BY <1>4, <1>5 DEF Typed, Gens, OneValue, Bare, OneBlock
<1>7. Caller.regs \in RegsType /\ Caller.bbs \in BBsType /\ Caller.old \in ValueType
  BY <1>5 DEF FrameType
<1>8. [Caller.regs EXCEPT ![Does(Caller)[2]] = v] \in RegsType
  BY <1>7 DEF RegsType
<1>9. /\ stack' = [SubSeq(stack, 1, n) EXCEPT ![n] =
                     Moved(stack[n], [Caller.regs EXCEPT ![Does(Caller)[2]] = v], Caller.bbs, Caller.old)]
      /\ version' = version /\ state' = state
  BY DEF ReturnValue, Caller, Does
<1>10. Does(stack[n])[1] \notin Ends
  BY <1>4 DEF Caller, Gens, Ends
<1> HIDE DEF n
<1>11. /\ stack' \in Seq(FrameType) /\ StackInv'
       /\ Moves(n, [Caller.regs EXCEPT ![Does(Caller)[2]] = v], Caller.bbs, Caller.old)
  BY <1>1, <1>2, <1>7, <1>8, <1>9, <1>10, MovesKeeps
<1> QED
  BY <1>2, <1>4, <1>5, <1>6, <1>11 DEF n

(* A routine calls another.                                                    *)
Pushes(kind, name) ==
    /\ Len(stack') = Len(stack) + 1
    /\ \A k \in 1..Len(stack) : stack'[k] = stack[k]
    /\ stack'[Len(stack) + 1] = Frame(kind, name)
    /\ version' = version

(* A frame that begins, and what FunctionAST::codegen begins with.           *)
LEMMA FrameTyped ==
  ASSUME NEW kind \in KindNames \cup {"Function"}, NEW name \in Names
  PROVE  Frame(kind, name) \in FrameType
<1>1. Null \in ValueType /\ Constant \in ValueType
  BY DEF Null, Constant, Value, ValueType
<1>2. [r \in Registers |-> IF r = "const" THEN Constant ELSE Null] \in RegsType
  BY <1>1 DEF RegsType
<1>3. [r \in BlockRegisters |-> 0] \in BBsType
  BY DEF BBsType
<1> QED
  BY <1>1, <1>2, <1>3 DEF Frame, FrameType

(* Every routine has a first operation.                                        *)
LEMMA BeginsAtOne ==
  ASSUME version \in DOMAIN Scripts, NEW kind \in Kinds
  PROVE  kind \in KindNames \cup {"Function"} /\ 1 \in DOMAIN Routine(kind)
<1>1. Sane(version, kind)
  BY EveryScriptIsSane DEF Kinds
<1>2. Shaped(Routine(kind))
  BY <1>1 DEF Sane, Routine
<1>3. Len(Routine(kind)) \in Nat \ {0} /\ DOMAIN Routine(kind) = 1..Len(Routine(kind))
  BY <1>2 DEF Shaped
<1>4. \A l \in Nat \ {0} : 1 \in 1..l
  OBVIOUS
<1> QED
  BY <1>1, <1>3, <1>4 DEF Sane

(* Codegen of a sub-expression begins at its first operation.                *)
LEMMA GeneratePushes ==
  ASSUME TypeInv, StackInv, Generate
  PROVE  /\ Running /\ Op[1] \in Gens
         /\ stack' \in Seq(FrameType) /\ StackInv' /\ state' = state
         /\ \E kind \in Kinds \ {"Function"}, name \in Names : Pushes(kind, name)
<1>1. PICK kind \in Kinds \ {"Function"}, name \in Names : stack' = Append(stack, Frame(kind, name))
  BY DEF Generate
<1>2. Running /\ Op[1] \in Gens
  BY DEF Generate, Doing, Gens
<1>3. Len(stack) \in Nat /\ stack \in Seq(FrameType) /\ state = "generating"
  BY <1>2, TopFacts DEF TypeInv
<1>4. version' = version /\ state' = state
  BY DEF Generate
<1>5. version \in DOMAIN Scripts
  BY CodegenAssumption DEF TypeInv
<1>6. kind \in KindNames \cup {"Function"} /\ 1 \in DOMAIN Routine(kind)
  BY <1>5, BeginsAtOne
<1>7. Frame(kind, name) \in FrameType
  BY <1>6, FrameTyped
<1> DEFINE f == Frame(kind, name)
<1>8. f.kind = kind /\ f.pc = 1
  BY DEF Frame
<1> HIDE DEF f
<1>9. /\ stack' \in Seq(FrameType) /\ Len(stack') = Len(stack) + 1
      /\ \A k \in 1..Len(stack) : stack'[k] = stack[k]
      /\ stack'[Len(stack) + 1] = f
  BY <1>1, <1>3, <1>7, AppendProperties DEF f
<1>10. ASSUME NEW k \in 1..(Len(stack) + 1) PROVE Fits(k)'
  <2>1. CASE k = Len(stack) + 1
    <3>1. stack'[k] = f /\ ~(k < Len(stack')) /\ k # 1
      BY <1>2, <1>3, <1>9, <2>1, TopFacts
    <3> QED
      BY <1>1, <1>4, <1>6, <1>8, <3>1 DEF Fits, Kinds, Routine
  <2>2. CASE k < Len(stack)
    <3>1. k \in 1..Len(stack) /\ stack'[k] = stack[k]
      BY <1>3, <1>9, <2>2
    <3>2. Fits(k)
      BY <3>1 DEF StackInv
    <3> QED
      BY <1>4, <2>2, <3>1, <3>2 DEF Fits, Kinds, Routine, Does
  <2>3. CASE k = Len(stack)
    <3>1. k \in 1..Len(stack) /\ stack'[k] = stack[k] /\ Does(stack[k])[1] \in Gens
      BY <1>2, <1>3, <1>9, <2>3, TopFacts DEF Top
    <3>2. Fits(k)
      BY <3>1 DEF StackInv
    <3> QED
      BY <1>4, <3>1, <3>2 DEF Fits, Kinds, Routine, Does
  <2> QED
    BY <1>3, <2>1, <2>2, <2>3
<1>11. stack' # <<>>
  BY <1>3, <1>9
<1>12. StackInv'
  BY <1>3, <1>4, <1>9, <1>10, <1>11 DEF StackInv
<1>13. Pushes(kind, name)
  BY <1>4, <1>9 DEF Pushes, f
<1> QED
  BY <1>2, <1>4, <1>9, <1>12, <1>13

(* So does FunctionAST::codegen, below nothing.                              *)
LEMMA BeginPushes ==
  ASSUME TypeInv, StackInv, BeginFunction
  PROVE  stack = <<>> /\ stack' \in Seq(FrameType) /\ StackInv' /\ Len(stack') = 1
         /\ stack'[1] = Frame("Function", Argument) /\ version' = version /\ state' = "generating"
<1>1. /\ stack' = <<Frame("Function", Argument)>> /\ version' = version /\ state' = "generating"
      /\ state \in {"idle", "finished", "erased"}
  BY DEF BeginFunction
<1>2. version \in DOMAIN Scripts /\ Argument \in Names
  BY CodegenAssumption DEF TypeInv
<1>3. "Function" \in Kinds
  BY <1>2, EveryScriptIsSane DEF Kinds
<1>4. Frame("Function", Argument) \in FrameType /\ 1 \in DOMAIN Routine("Function")
  BY <1>2, <1>3, FrameTyped, BeginsAtOne
<1> DEFINE f == Frame("Function", Argument)
<1>5. f.kind = "Function" /\ f.pc = 1
  BY DEF Frame
<1> HIDE DEF f
<1>6. stack' = <<f>> /\ f \in FrameType
  BY <1>1, <1>4 DEF f
<1>7. stack' \in Seq(FrameType) /\ Len(stack') = 1 /\ stack'[1] = f
  BY <1>6
<1>8. Fits(1)'
  BY <1>1, <1>3, <1>4, <1>5, <1>7 DEF Fits, Kinds, Routine
<1>9. StackInv'
  BY <1>1, <1>7, <1>8 DEF StackInv
<1>10. stack = <<>>
  BY <1>1 DEF StackInv
<1> QED
  BY <1>1, <1>7, <1>9, <1>10 DEF f

(* The operands of an operation are what it needs.                           *)
LEMMA OperandsTyped ==
  ASSUME TypeInv, StackInv, Running
  PROVE  /\ \A k \in {2, 3, 4} : Op[k] \in Registers => Reg(k) \in ValueType
         /\ \A k \in {2, 3, 4} : Op[k] \in BlockRegisters => Block(k) \in Nat
         /\ Op[1] \in {"check", "return", "ret", "bind", "argument", "lookup", "alloca", "phi", "inst"}
              => Op[2] \in Registers
         /\ Op[1] = "inst" => Op[3] \in Registers /\ Op[4] \in Registers
         /\ Op[1] \in {"new", "detached", "append", "here", "at", "br"} => Op[2] \in BlockRegisters
         /\ Op[1] = "condbr" => Op[2] \in Registers /\ Op[3] \in BlockRegisters /\ Op[4] \in BlockRegisters
         /\ Op[1] = "incoming" => Op[2] \in Registers /\ Op[3] \in Registers /\ Op[4] \in BlockRegisters
         /\ Top.regs \in RegsType /\ Top.bbs \in BBsType /\ Top.old \in ValueType /\ Top.name \in Names
<1>1. Top.regs \in RegsType /\ Top.bbs \in BBsType /\ Top.old \in ValueType /\ Top.name \in Names
  BY TopFacts DEF FrameType
<1>2. Typed(Op)
  BY TopFacts
<1>3. \A k \in {2, 3, 4} : Op[k] \in Registers => Reg(k) \in ValueType
  BY <1>1 DEF Reg, RegsType
<1>4. \A k \in {2, 3, 4} : Op[k] \in BlockRegisters => Block(k) \in Nat
  BY <1>1 DEF Block, BBsType
<1>5. Op[1] \in {"check", "return", "ret", "bind", "argument", "lookup", "alloca", "phi", "inst"}
              => Op[2] \in Registers
  BY <1>2 DEF Typed, Bare, OneValue, OneBlock
<1>6. Op[1] = "inst" => Op[3] \in Registers /\ Op[4] \in Registers
  BY <1>2 DEF Typed, Bare, OneValue, OneBlock
<1>7. Op[1] \in {"new", "detached", "append", "here", "at", "br"} => Op[2] \in BlockRegisters
  BY <1>2 DEF Typed, Bare, OneValue, OneBlock
<1>8. Op[1] = "condbr" => Op[2] \in Registers /\ Op[3] \in BlockRegisters /\ Op[4] \in BlockRegisters
  BY <1>2 DEF Typed, Bare, OneValue, OneBlock
<1>9. Op[1] = "incoming" => Op[2] \in Registers /\ Op[3] \in Registers /\ Op[4] \in BlockRegisters
  BY <1>2 DEF Typed, Bare, OneValue, OneBlock
<1> QED
  BY <1>1, <1>3, <1>4, <1>5, <1>6, <1>7, <1>8, <1>9

(* How each action changes the stack.                                          *)
LEMMA StackSteps ==
  ASSUME TypeInv, StackInv
  PROVE  /\ NoSubExpression => /\ Doing("genopt") /\ stack' \in Seq(FrameType) /\ StackInv'
                               /\ Moves(Len(stack), [Top.regs EXCEPT ![Op[2]] = Constant], Top.bbs, Top.old)
         /\ Check => \/ /\ Doing("check") /\ Reg(2) # Null /\ stack' \in Seq(FrameType) /\ StackInv'
                        /\ Moves(Len(stack), Top.regs, Top.bbs, Top.old)
                     \/ Doing("check") /\ Reg(2) = Null /\ ReturnValue(Null)
         /\ Callee => \/ /\ Doing("callee") /\ stack' \in Seq(FrameType) /\ StackInv'
                         /\ Moves(Len(stack), Top.regs, Top.bbs, Top.old)
                      \/ Doing("callee") /\ ReturnValue(Null)
         /\ Lookup => /\ Doing("lookup") /\ stack' \in Seq(FrameType) /\ StackInv'
                      /\ Moves(Len(stack), [Top.regs EXCEPT ![Op[2]] = named[Top.name]], Top.bbs, Top.old)
         /\ Inst => /\ Doing("inst") /\ stack' \in Seq(FrameType) /\ StackInv'
                    /\ Moves(Len(stack), [Top.regs EXCEPT ![Op[2]] = Value(fn, insert)], Top.bbs, Top.old)
         /\ CreateEntryBlockAlloca =>
                    /\ Doing("alloca") /\ stack' \in Seq(FrameType) /\ StackInv'
                    /\ Moves(Len(stack), [Top.regs EXCEPT ![Op[2]] = EntryAlloca], Top.bbs, Top.old)
         /\ NewBlock => /\ Doing("new") \/ Doing("detached")
                        /\ stack' \in Seq(FrameType) /\ StackInv'
                        /\ Moves(Len(stack), Top.regs, [Top.bbs EXCEPT ![Op[2]] = Len(term) + 1], Top.old)
         /\ GetInsertBlock =>
                    /\ Doing("here") /\ stack' \in Seq(FrameType) /\ StackInv'
                    /\ Moves(Len(stack), Top.regs, [Top.bbs EXCEPT ![Op[2]] = insert], Top.old)
         /\ CreatePHI => /\ Doing("phi") /\ stack' \in Seq(FrameType) /\ StackInv'
                         /\ Moves(Len(stack), [Top.regs EXCEPT ![Op[2]] = Value(fn, insert)], Top.bbs, Top.old)
         /\ Bind => /\ Doing("bind") /\ stack' \in Seq(FrameType) /\ StackInv'
                    /\ Moves(Len(stack), Top.regs, Top.bbs, named[Top.name])
         /\ AppendBlock \/ SetInsertPoint \/ CreateBr \/ CreateCondBr \/ AddIncoming \/ Unbind
              \/ Entry \/ Clear \/ BindArgument \/ PushScope \/ EmitLocation
              => /\ Running /\ Op[1] \notin Ends \cup Gens
                 /\ stack' \in Seq(FrameType) /\ StackInv'
                 /\ Moves(Len(stack), Top.regs, Top.bbs, Top.old)
<1> USE DEF Doing
<1>1. fn \in Nat /\ insert \in Nat /\ Len(term) \in Nat /\ named \in [Names -> ValueType]
  BY LenProperties DEF TypeInv
<1>2. ASSUME NEW b \in Int PROVE Value(fn, b) \in ValueType
  BY <1>1, <1>2 DEF Value, ValueType
<1>3. Constant \in ValueType
  BY DEF Constant, Value, ValueType
<1>4. Running => named[Top.name] \in ValueType
  BY <1>1, OperandsTyped
<1>5. Value(fn, insert) \in ValueType /\ EntryAlloca \in ValueType
  BY <1>1, <1>2, <1>3 DEF EntryAlloca
<1>6. NoSubExpression => /\ Doing("genopt") /\ stack' \in Seq(FrameType) /\ StackInv'
                         /\ Moves(Len(stack), [Top.regs EXCEPT ![Op[2]] = Constant], Top.bbs, Top.old)
  BY <1>3, AssignMoves DEF NoSubExpression, Ends
<1>7. Check => \/ /\ Doing("check") /\ Reg(2) # Null /\ stack' \in Seq(FrameType) /\ StackInv'
                  /\ Moves(Len(stack), Top.regs, Top.bbs, Top.old)
               \/ Doing("check") /\ Reg(2) = Null /\ ReturnValue(Null)
  BY AdvanceMoves DEF Check, Ends
<1>8. Callee => \/ /\ Doing("callee") /\ stack' \in Seq(FrameType) /\ StackInv'
                   /\ Moves(Len(stack), Top.regs, Top.bbs, Top.old)
                \/ Doing("callee") /\ ReturnValue(Null)
  BY AdvanceMoves DEF Callee, Ends
<1>9. Lookup => /\ Doing("lookup") /\ stack' \in Seq(FrameType) /\ StackInv'
                /\ Moves(Len(stack), [Top.regs EXCEPT ![Op[2]] = named[Top.name]], Top.bbs, Top.old)
  BY <1>4, AssignMoves DEF Lookup, Ends
<1>10. Inst => /\ Doing("inst") /\ stack' \in Seq(FrameType) /\ StackInv'
               /\ Moves(Len(stack), [Top.regs EXCEPT ![Op[2]] = Value(fn, insert)], Top.bbs, Top.old)
  BY <1>5, AssignMoves DEF Inst, Ends
<1>11. CreateEntryBlockAlloca =>
                    /\ Doing("alloca") /\ stack' \in Seq(FrameType) /\ StackInv'
                    /\ Moves(Len(stack), [Top.regs EXCEPT ![Op[2]] = EntryAlloca], Top.bbs, Top.old)
  BY <1>5, AssignMoves DEF CreateEntryBlockAlloca, Ends
<1>12. NewBlock => /\ Doing("new") \/ Doing("detached")
                   /\ stack' \in Seq(FrameType) /\ StackInv'
                   /\ Moves(Len(stack), Top.regs, [Top.bbs EXCEPT ![Op[2]] = Len(term) + 1], Top.old)
  BY <1>1, AssignBlockMoves DEF NewBlock, Ends
<1>13. GetInsertBlock =>
                    /\ Doing("here") /\ stack' \in Seq(FrameType) /\ StackInv'
                    /\ Moves(Len(stack), Top.regs, [Top.bbs EXCEPT ![Op[2]] = insert], Top.old)
  BY <1>1, AssignBlockMoves DEF GetInsertBlock, Ends
<1>14. CreatePHI => /\ Doing("phi") /\ stack' \in Seq(FrameType) /\ StackInv'
                    /\ Moves(Len(stack), [Top.regs EXCEPT ![Op[2]] = Value(fn, insert)], Top.bbs, Top.old)
  BY <1>5, AssignMoves DEF CreatePHI, Ends
<1>15. Bind => /\ Doing("bind") /\ stack' \in Seq(FrameType) /\ StackInv'
               /\ Moves(Len(stack), Top.regs, Top.bbs, named[Top.name])
  BY <1>4, GoesMoves, OperandsTyped DEF Bind, Ends
<1>16. AppendBlock \/ SetInsertPoint \/ CreateBr \/ CreateCondBr \/ AddIncoming \/ Unbind
          \/ Entry \/ Clear \/ BindArgument \/ PushScope \/ EmitLocation
       => Running /\ Op[1] \notin Ends \cup Gens /\ Advance
  BY DEF AppendBlock, SetInsertPoint, CreateBr, CreateCondBr, AddIncoming, Unbind, Entry, Clear,
         BindArgument, PushScope, EmitLocation, Ends, Gens
<1> QED
  BY <1>6, <1>7, <1>8, <1>9, <1>10, <1>11, <1>12, <1>13, <1>14, <1>15, <1>16, AdvanceMoves

-----------------------------------------------------------------------------
(* The type invariant.                                                         *)
LEMMA TerminatorSet ==
  ASSUME NEW t \in Seq(Terminators), NEW i \in Nat, NEW b \in Terminators
  PROVE  /\ [t EXCEPT ![i] = b] \in Seq(Terminators)
         /\ Len([t EXCEPT ![i] = b]) = Len(t)
         /\ \A j \in 1..Len(t) : [t EXCEPT ![i] = b][j] = IF j = i THEN b ELSE t[j]
<1>1. CASE i \in 1..Len(t)
  BY <1>1, ExceptSeq
<1>2. CASE i \notin 1..Len(t)
  <2>1. t \in [1..Len(t) -> Terminators]
    BY LenProperties
  <2>2. [t EXCEPT ![i] = b] = t
    BY <1>2, <2>1
  <2> QED
    BY <1>2, <2>2
<1> QED
  BY <1>1, <1>2

(* The types hold at first, and every step keeps them.                       *)
LEMMA TypesStart == Init => TypeInv /\ StackInv
<1> SUFFICES ASSUME Init PROVE TypeInv /\ StackInv
  OBVIOUS
<1> USE DEF Init
<1>1. named \in [Names -> ValueType]
  BY DEF Null, Value, ValueType
<1>2. term \in Seq(Terminators) /\ scopes \in Seq(Nat) /\ stack \in Seq(FrameType) /\ Len(stack) = 0
  BY EmptySeq
<1>3. TypeInv
  BY <1>1, <1>2 DEF TypeInv, States
<1>4. StackInv
  BY <1>2 DEF StackInv
<1> QED
  BY <1>3, <1>4

(* Every step keeps the types, and the calls in order.                         *)
LEMMA TypesKept ==
  ASSUME TypeInv, StackInv, [Next]_vars
  PROVE  TypeInv' /\ StackInv'
<1>t. /\ version \in Versions /\ fn \in Nat /\ insert \in Nat
      /\ term \in Seq(Terminators) /\ detached \in SUBSET Nat
      /\ phis \in SUBSET Nat
      /\ incoming \in SUBSET [phi : Int, value : ValueType, from : Nat]
      /\ uses \in SUBSET (ValueType \X Nat)
      /\ scope \in Nat /\ lines \in SUBSET Nat /\ scopes \in Seq(Nat)
      /\ named \in [Names -> ValueType]
      /\ stack \in Seq(FrameType)
      /\ state \in States
  BY SMTT(30) DEF TypeInv
<1>g. "generating" \in States /\ "finished" \in States /\ "erased" \in States /\ "undefined" \in States
  BY DEF States
<1>o. Open \in Terminators /\ Ret \in Terminators /\ \A S \in SUBSET Nat : Branch(S) \in Terminators
  BY DEF Open, Ret, Branch, Terminators
<1>n. Null \in ValueType
  BY DEF Null, Value, ValueType
<1>v. version' = version
  BY DEF vars, Next, Calls, Builds, Frames, BeginFunction, Generate, NoSubExpression, Check, Callee,
         Return, FinishFunction, AssignToNoVariable, Lookup, Inst, CreateEntryBlockAlloca, NewBlock,
         AppendBlock, GetInsertBlock, SetInsertPoint, CreateBr, CreateCondBr, CreatePHI,
            AddIncoming,
         Bind, Unbind, Entry, Clear, BindArgument, PushScope, EmitLocation, ReturnValue,
         Assign, AssignBlock, Advance, Goes
<1>1. CASE UNCHANGED vars
  BY <1>1, <1>t DEF TypeInv, StackInv, Fits, Does, Routine, Kinds, vars, blocks, values, debug
<1>2. CASE BeginFunction
  BY <1>2, <1>t, <1>g, BeginPushes DEF TypeInv, BeginFunction, blocks, values, debug
<1>3. CASE Generate
  BY <1>3, <1>t, GeneratePushes DEF TypeInv, Generate, blocks, values, debug
<1>4. CASE NoSubExpression
  BY <1>4, <1>t, StackSteps DEF TypeInv, NoSubExpression, Assign, Goes, blocks, values, debug
<1>5. CASE Check
  <2>1. stack' \in Seq(FrameType) /\ StackInv' /\ version' = version /\ state' = state
    BY <1>5, <1>n, StackSteps, ReturnMoves DEF Check, Doing, Moves
  <2> QED
    BY <1>5, <1>t, <2>1 DEF TypeInv, Check, blocks, values, debug
<1>6. CASE Callee
  <2>1. stack' \in Seq(FrameType) /\ StackInv' /\ version' = version /\ state' = state
    BY <1>6, <1>n, StackSteps, ReturnMoves DEF Callee, Doing, Moves
  <2> QED
    BY <1>6, <1>t, <2>1 DEF TypeInv, Callee, blocks, values, debug
<1>7. CASE Return
  <2>1. Reg(2) \in ValueType
    BY <1>7, OperandsTyped DEF Return, Doing
  <2>2. stack' \in Seq(FrameType) /\ StackInv' /\ version' = version /\ state' = state
    BY <1>7, <2>1, ReturnMoves DEF Return, Doing, Moves
  <2> QED
    BY <1>7, <1>t, <2>2 DEF TypeInv, Return, blocks, values, debug
<1>8. CASE Lookup
  BY <1>8, <1>t, StackSteps DEF TypeInv, Lookup, Assign, Goes, blocks, values, debug
<1>9. CASE Inst
  <2>1. Running /\ Reg(3) \in ValueType /\ Reg(4) \in ValueType
    BY <1>9, OperandsTyped DEF Inst, Doing
  <2>2. uses' \in SUBSET (ValueType \X Nat) /\ lines' \in SUBSET Nat
    BY <1>9, <1>t, <2>1 DEF Inst
  <2> QED
    BY <1>9, <1>t, <2>2, StackSteps DEF TypeInv, Inst, Assign, Goes, blocks
<1>10. CASE CreateEntryBlockAlloca
  BY <1>10, <1>t, StackSteps DEF TypeInv, CreateEntryBlockAlloca, Assign, Goes, blocks, values,
     debug
<1>11. CASE NewBlock
  <2>1. term' \in Seq(Terminators) /\ Len(term) + 1 \in Nat
    BY <1>11, <1>t, <1>o, AppendProperties, LenProperties DEF NewBlock
  <2>2. detached' \in SUBSET Nat
    BY <1>11, <1>t, <2>1 DEF NewBlock
  <2> QED
    BY <1>11, <1>t, <2>1, <2>2, StackSteps DEF TypeInv, NewBlock, AssignBlock, Goes, values, debug
<1>12. CASE AppendBlock
  BY <1>12, <1>t, StackSteps DEF TypeInv, AppendBlock, Advance, Goes, values, debug
<1>13. CASE GetInsertBlock
  BY <1>13, <1>t, StackSteps DEF TypeInv, GetInsertBlock, AssignBlock, Goes, blocks, values, debug
<1>14. CASE SetInsertPoint
  <2>1. Block(2) \in Nat
    BY <1>14, OperandsTyped DEF SetInsertPoint, Doing
  <2> QED
    BY <1>14, <1>t, <2>1, StackSteps DEF TypeInv, SetInsertPoint, Advance, Goes, values, debug
<1>15. CASE CreateBr
  <2>1. Block(2) \in Nat
    BY <1>15, OperandsTyped DEF CreateBr, Doing
  <2>2. term' \in Seq(Terminators)
    BY <1>15, <1>t, <1>o, <2>1, TerminatorSet DEF CreateBr
  <2> QED
    BY <1>15, <1>t, <2>2, StackSteps DEF TypeInv, CreateBr, Advance, Goes, values, debug
<1>16. CASE CreateCondBr
  <2>1. Block(3) \in Nat /\ Block(4) \in Nat /\ Reg(2) \in ValueType
    BY <1>16, OperandsTyped DEF CreateCondBr, Doing
  <2>2. term' \in Seq(Terminators)
    BY <1>16, <1>t, <1>o, <2>1, TerminatorSet DEF CreateCondBr
  <2>3. uses' \in SUBSET (ValueType \X Nat)
    BY <1>16, <1>t, <2>1 DEF CreateCondBr
  <2> QED
    BY <1>16, <1>t, <2>2, <2>3, StackSteps DEF TypeInv, CreateCondBr, Advance, Goes, debug
<1>17. CASE CreatePHI
  <2>1. phis' \in SUBSET Nat
    BY <1>17, <1>t DEF CreatePHI
  <2> QED
    BY <1>17, <1>t, <2>1, StackSteps DEF TypeInv, CreatePHI, Assign, Goes, blocks, debug
<1>18. CASE AddIncoming
  <2>1. Reg(2) \in ValueType /\ Reg(3) \in ValueType /\ Block(4) \in Nat
    BY <1>18, OperandsTyped DEF AddIncoming, Doing
  <2>2. Reg(2).block \in Int
    BY <2>1 DEF ValueType
  <2>3. incoming' \in SUBSET [phi : Int, value : ValueType, from : Nat]
    BY <1>18, <1>t, <2>1, <2>2 DEF AddIncoming
  <2> QED
    BY <1>18, <1>t, <2>3, StackSteps DEF TypeInv, AddIncoming, Advance, Goes, blocks, debug
<1>19. CASE Bind
  <2>1. Reg(2) \in ValueType
    BY <1>19, OperandsTyped DEF Bind, Doing
  <2>2. named' \in [Names -> ValueType]
    BY <1>19, <1>t, <2>1 DEF Bind
  <2> QED
    BY <1>19, <1>t, <2>2, StackSteps DEF TypeInv, Bind, Goes, blocks, values, debug
<1>20. CASE Unbind
  <2>1. Top.old \in ValueType
    BY <1>20, OperandsTyped DEF Unbind, Doing
  <2>2. named' \in [Names -> ValueType]
    BY <1>20, <1>t, <2>1 DEF Unbind, Restored
  <2> QED
    BY <1>20, <1>t, <2>2, StackSteps DEF TypeInv, Unbind, Advance, Goes, blocks, values, debug
<1>21. CASE Entry
  <2>1. <<Open>> \in Seq(Terminators)
    BY <1>o
  <2> QED
    BY <1>21, <1>t, <2>1, StackSteps DEF TypeInv, Entry, Advance, Goes
<1>22. CASE Clear
  <2>2. named' \in [Names -> ValueType]
    BY <1>22, <1>n DEF Clear, NoNames
  <2> QED
    BY <1>22, <1>t, <2>2, StackSteps DEF TypeInv, Clear, Advance, Goes, blocks, values, debug
<1>23. CASE BindArgument
  <2>1. Reg(2) \in ValueType
    BY <1>23, OperandsTyped DEF BindArgument, Doing
  <2>2. named' \in [Names -> ValueType]
    BY <1>23, <1>t, <2>1 DEF BindArgument
  <2> QED
    BY <1>23, <1>t, <2>2, StackSteps DEF TypeInv, BindArgument, Advance, Goes, blocks, values, debug
<1>24. CASE PushScope
  <2>1. scopes' \in Seq(Nat)
    BY <1>24, <1>t, AppendProperties DEF PushScope
  <2> QED
    BY <1>24, <1>t, <2>1, StackSteps DEF TypeInv, PushScope, Advance, Goes, blocks, values
<1>26. CASE EmitLocation
  <2>1. scope' \in Nat
    <3>1. scopes # <<>> => Len(scopes) \in 1..Len(scopes)
      BY <1>t, EmptySeq
    <3>2. scopes # <<>> => scopes[Len(scopes)] \in Nat
      BY <1>t, <3>1, ElementOfSeq
    <3> QED
      BY <1>26, <3>2 DEF EmitLocation
  <2> QED
    BY <1>26, <1>t, <2>1, StackSteps DEF TypeInv, EmitLocation, Advance, Goes, blocks, values
<1>27. CASE FinishFunction
  <2>1. Reg(2) \in ValueType
    BY <1>27, OperandsTyped DEF FinishFunction, Doing
  <2>2. term' \in Seq(Terminators)
    BY <1>27, <1>t, <1>o, TerminatorSet DEF FinishFunction
  <2>3. uses' \in SUBSET (ValueType \X Nat)
    BY <1>27, <1>t, <2>1 DEF FinishFunction
  <2>4. stack' = <<>> /\ state' \in {"finished", "erased"}
    BY <1>27 DEF FinishFunction
  <2>5. stack' \in Seq(FrameType) /\ Len(stack') = 0
    BY <2>4, EmptySeq
  <2>6. StackInv'
    BY <2>4, <2>5 DEF StackInv
  <2>7. scopes' \in Seq(Nat)
    <3>1. Len(scopes) \in Nat
      BY <1>t, LenProperties
    <3>2. \A i \in 1..(Len(scopes) - 1) : scopes[i] \in Nat
      BY <1>t, <3>1, ElementOfSeq
    <3>3. SubSeq(scopes, 1, Len(scopes) - 1) \in Seq(Nat)
      BY <3>1, <3>2, SubSeqProperties
    <3> QED
      BY <1>27, <1>t, <3>3 DEF FinishFunction, Popped
  <2> QED
    BY <1>27, <1>t, <1>g, <2>2, <2>3, <2>4, <2>5, <2>6, <2>7 DEF TypeInv, FinishFunction
<1>28. CASE AssignToNoVariable
  <2>1. Running /\ stack' = stack /\ version' = version /\ state' = "undefined"
    BY <1>28 DEF AssignToNoVariable, Doing
  <2>2. StackInv'
    BY <2>1 DEF StackInv, Fits, Does, Routine, Kinds, Running
  <2> QED
    BY <1>28, <1>t, <1>g, <2>2 DEF TypeInv, AssignToNoVariable, blocks, values, debug
<1> QED
  BY <1>1, <1>2, <1>3, <1>4, <1>5, <1>6, <1>7, <1>8, <1>9, <1>10, <1>11, <1>12, <1>13, <1>14, <1>15,
     <1>16, <1>17, <1>18, <1>19, <1>20, <1>21, <1>22, <1>23, <1>24, <1>26, <1>27, <1>28
     DEF Next, Calls, Builds, Frames

-----------------------------------------------------------------------------
(* What a routine has done, when it goes on.                                   *)
LEMMA HistoryMoves ==
  ASSUME NEW s, NEW pc \in Nat \ {0}
  PROVE  /\ \A ops : Passed(s, pc + 1, ops) <=> Passed(s, pc, ops) \/ s[pc][1] \in ops
         /\ \A op : Before(s, pc + 1, op) <=> Before(s, pc, op) \/ s[pc] = op
<1>1. 1..(pc + 1 - 1) = 1..(pc - 1) \cup {pc}
  OBVIOUS
<1> QED
  BY <1>1 DEF Passed, Before

(* The frame of FunctionAST::codegen, which is the first, stays or goes on.    *)
Bottom(ops) ==
    /\ state = "generating" /\ state' = "generating" /\ version' = version
    /\ stack # <<>> /\ stack' # <<>>
    /\ stack'[1].kind = "Function" /\ stack[1].kind = "Function"
    /\ \/ stack'[1] = stack[1]
       \/ stack'[1].pc = stack[1].pc + 1 /\ Does(stack[1])[1] \in ops

(* A step that moves a frame moves the first one by an operation of its own, *)
(* if at all.                                                                *)
LEMMA BottomMoves ==
  ASSUME TypeInv, StackInv, StackInv', stack' \in Seq(FrameType), state = "generating",
         NEW n \in 1..Len(stack), NEW regs, NEW bbs, NEW old, Moves(n, regs, bbs, old)
  PROVE  Bottom({Does(stack[n])[1]})
<1>1. stack # <<>> /\ Len(stack) \in Nat /\ n >= 1 /\ n \in Nat /\ Len(stack') = n
  BY LenProperties DEF TypeInv, StackInv, Moves
<1>2. stack' # <<>>
  BY <1>1, EmptySeq
<1>3. Fits(1)
  BY <1>1 DEF StackInv
<1>4. stack[1].kind = "Function"
  BY <1>3 DEF Fits
<1>5. CASE n = 1
  <2>1. stack'[1] = Moved(stack[1], regs, bbs, old)
    BY <1>5 DEF Moves
  <2> QED
    BY <1>1, <1>2, <1>4, <1>5, <2>1 DEF Bottom, Moves, Moved
<1>6. CASE n # 1
  <2>1. stack'[1] = stack[1]
    BY <1>1, <1>6 DEF Moves
  <2> QED
    BY <1>1, <1>2, <1>4, <2>1 DEF Bottom, Moves
<1> QED
  BY <1>5, <1>6

(* What the steps of each kind do to the first frame.                        *)
LEMMA BottomSteps ==
  ASSUME TypeInv, StackInv, [Next]_vars
  PROVE  \/ stack' = stack /\ state' \in {state, "undefined"} /\ UNCHANGED <<fn, term, insert, values, debug, named>>
         \/ BeginFunction
         \/ FinishFunction
         \/ /\ Generate \/ NoSubExpression \/ Check \/ Callee \/ Return
            /\ Bottom(Gens \cup {"check", "callee"})
         \/ /\ Builds \/ Frames
            /\ Running /\ Bottom({Op[1]})
<1>0. TypeInv' /\ StackInv'
  BY TypesKept
<1>1. CASE UNCHANGED vars \/ AssignToNoVariable
  BY <1>1 DEF vars, AssignToNoVariable, blocks, values, debug
<1>2. CASE Generate
  <2>1. /\ Running /\ stack' \in Seq(FrameType) /\ StackInv' /\ state' = state
        /\ \E kind \in Kinds \ {"Function"}, name \in Names : Pushes(kind, name)
    BY <1>2, GeneratePushes
  <2>2. Len(stack) \in 1..Len(stack) /\ state = "generating" /\ stack # <<>>
    BY <2>1, TopFacts DEF Running
  <2>3. version' = version /\ stack'[1] = stack[1] /\ Len(stack') = Len(stack) + 1
    BY <2>1, <2>2 DEF Pushes
  <2>4. stack' # <<>>
    BY <2>1, <2>2, <2>3, EmptySeq
  <2>5. Fits(1)
    BY <2>2 DEF StackInv
  <2> QED
    BY <1>2, <2>1, <2>2, <2>3, <2>4, <2>5 DEF Bottom, Fits
<1>3. ASSUME NEW ops, Running, Op[1] \in ops, NEW regs, NEW bbs, NEW old, Moves(Len(stack), regs, bbs, old)
      PROVE  Bottom(ops)
  <2>1. Len(stack) \in 1..Len(stack) /\ state = "generating" /\ Op = Does(stack[Len(stack)])
    BY <1>3, TopFacts DEF Top
  <2>2. Bottom({Does(stack[Len(stack)])[1]})
    BY <1>0, <1>3, <2>1, BottomMoves DEF TypeInv
  <2> QED
    BY <1>3, <2>1, <2>2 DEF Bottom
<1>4. ASSUME NEW v \in ValueType, Running, Op[1] \in {"check", "callee", "return"}, ReturnValue(v)
      PROVE  Bottom(Gens)
  <2>1. /\ Len(stack) - 1 \in 1..Len(stack) /\ Does(Caller)[1] \in Gens /\ stack' \in Seq(FrameType)
        /\ Moves(Len(stack) - 1, [Caller.regs EXCEPT ![Does(Caller)[2]] = v], Caller.bbs, Caller.old)
    BY <1>4, ReturnMoves
  <2>2. Bottom({Does(Caller)[1]})
    BY <1>0, <1>4, <2>1, BottomMoves DEF Caller, Running
  <2> QED
    BY <2>1, <2>2 DEF Bottom
<1>5. Null \in ValueType
  BY DEF Null, Value, ValueType
<1>6. CASE NoSubExpression
  <2>1. Bottom(Gens)
    BY <1>6, <1>3, StackSteps DEF Doing, Gens
  <2> QED
    BY <1>6, <2>1 DEF Bottom
<1>7. CASE Check
  <2>1. Bottom({"check"}) \/ Bottom(Gens)
    BY <1>7, <1>3, <1>4, <1>5, StackSteps DEF Doing
  <2> QED
    BY <1>7, <2>1 DEF Bottom
<1>8. CASE Callee
  <2>1. Bottom({"callee"}) \/ Bottom(Gens)
    BY <1>8, <1>3, <1>4, <1>5, StackSteps DEF Doing
  <2> QED
    BY <1>8, <2>1 DEF Bottom
<1>9. CASE Return
  <2>1. Bottom(Gens)
    BY <1>9, <1>4, OperandsTyped DEF Return, Doing
  <2> QED
    BY <1>9, <2>1 DEF Bottom
<1>10. CASE Builds
  <2>1. Running
    BY <1>10, StackSteps DEF Builds, Doing
  <2>2. \E regs, bbs, old : Moves(Len(stack), regs, bbs, old)
    BY <1>10, StackSteps DEF Builds
  <2>3. Bottom({Op[1]})
    BY <1>3, <2>1, <2>2
  <2> QED
    BY <1>10, <2>1, <2>3
<1>11. CASE Frames
  <2>1. Running
    BY <1>11, StackSteps DEF Frames
  <2>2. \E regs, bbs, old : Moves(Len(stack), regs, bbs, old)
    BY <1>11, StackSteps DEF Frames
  <2>3. Bottom({Op[1]})
    BY <1>3, <2>1, <2>2
  <2> QED
    BY <1>11, <2>1, <2>3
<1> QED
  BY <1>1, <1>2, <1>6, <1>7, <1>8, <1>9, <1>10, <1>11 DEF Next, Calls

-----------------------------------------------------------------------------
(* Chapter 9's debug locations.                                                *)
Chapter9Ops ==
    <<"entry", "scope", "unlocate", "clear", "alloca", "inst", "argument", "locate", "gen",
      "ret">>
DebugInv ==
    /\ lines \subseteq {0, fn}
    /\ version # "Chapter9" => scope = 0 /\ scopes = <<>>
    /\ version = "Chapter9" /\ state = "generating" =>
          /\ scopes = IF stack[1].pc \in 3..10 THEN <<fn>> ELSE <<>>
          /\ stack[1].pc > 3 => scope \in {0, fn}
    /\ state \notin {"generating", "undefined"} => scopes = <<>>

(* In chapter 9 the first frame does the operations listed.                  *)
LEMMA Chapter9Bottom ==
  ASSUME TypeInv, StackInv, stack # <<>>
  PROVE  /\ stack[1].pc \in Nat \ {0}
         /\ version = "Chapter9" =>
               /\ stack[1].pc \in 1..10 /\ Does(stack[1])[1] = Chapter9Ops[stack[1].pc]
               /\ stack[1].pc = 10 => Does(stack[1])[3] = "unscope" /\ Does(stack[1])[4] = "unscope"
<1>1. 1 \in 1..Len(stack)
  BY EmptySeq DEF TypeInv
<1>2. Fits(1)
  BY <1>1 DEF StackInv
<1>3. Sane(version, stack[1].kind) /\ stack[1].kind = "Function" /\ stack[1] \in FrameType
  BY <1>1, <1>2, ScriptFacts DEF Fits
<1>4. version = "Chapter9" => Routine(stack[1].kind) = Chapter9Function
  BY <1>3 DEF Sane, Routine
<1>5. /\ DOMAIN Chapter9Function = 1..10
      /\ \A pc \in 1..10 : Chapter9Function[pc][1] = Chapter9Ops[pc]
      /\ Chapter9Function[10][3] = "unscope" /\ Chapter9Function[10][4] = "unscope"
  BY DEF Chapter9Function, Chapter9Ops
<1> QED
  BY <1>2, <1>3, <1>4, <1>5 DEF Fits, Does, FrameType

(* No other version has debug locations.                                     *)
LEMMA NoDebugOps ==
  ASSUME TypeInv, StackInv, Running, version # "Chapter9"
  PROVE  Op[1] \notin DebugOps /\ (Op[1] = "ret" => Op[3] = "keep" /\ Op[4] = "keep")
<1>1. Sane(version, Top.kind) /\ Top.pc \in DOMAIN Routine(Top.kind)
  BY TopFacts
<1>2. NoDebug(Routine(Top.kind))
  BY <1>1 DEF Sane, Routine
<1> QED
  BY <1>1, <1>2 DEF NoDebug, Op

(* Every step keeps locations and scopes in their function.                  *)
LEMMA DebugKept ==
  ASSUME TypeInv, StackInv, DebugInv, [Next]_vars
  PROVE  DebugInv'
<1>d. /\ lines \subseteq {0, fn}
      /\ version # "Chapter9" => scope = 0 /\ scopes = <<>>
      /\ version = "Chapter9" /\ state = "generating" =>
            /\ scopes = IF stack[1].pc \in 3..10 THEN <<fn>> ELSE <<>>
            /\ stack[1].pc > 3 => scope \in {0, fn}
      /\ state \notin {"generating", "undefined"} => scopes = <<>>
  BY DEF DebugInv
<1>s. stack # <<>> => /\ stack[1].pc \in Nat \ {0}
                      /\ version = "Chapter9" =>
                           /\ stack[1].pc \in 1..10 /\ Does(stack[1])[1] = Chapter9Ops[stack[1].pc]
                           /\ stack[1].pc = 10 => Does(stack[1])[3] = "unscope" /\ Does(stack[1])[4] = "unscope"
  BY Chapter9Bottom
<1>c. \A pc \in 1..10 : /\ Chapter9Ops[pc] = "entry" => pc = 1
                        /\ Chapter9Ops[pc] = "scope" => pc = 2
                        /\ Chapter9Ops[pc] = "unlocate" => pc = 3
                        /\ Chapter9Ops[pc] = "inst" => pc = 6
                        /\ Chapter9Ops[pc] \in {"gen", "genopt"} => pc = 9
                        /\ Chapter9Ops[pc] = "ret" => pc = 10
                        /\ pc = 1 => Chapter9Ops[pc] = "entry"
                        /\ pc = 2 => Chapter9Ops[pc] = "scope"
                        /\ pc = 3 => Chapter9Ops[pc] = "unlocate"
                        /\ pc = 10 => Chapter9Ops[pc] = "ret"
  BY DEF Chapter9Ops
<1>o. ASSUME Running
      PROVE  /\ state = "generating" /\ stack # <<>>
             /\ version = "Chapter9" =>
                   \/ Len(stack) = 1 /\ Op = Does(stack[1]) /\ Op[1] = Chapter9Ops[stack[1].pc]
                   \/ Len(stack) # 1 /\ stack[1].pc = 9
             /\ Op[1] \in FunctionOps => Len(stack) = 1
             /\ version # "Chapter9" => Op[1] \notin DebugOps /\ (Op[1] = "ret" => Op[3] = "keep" /\ Op[4] = "keep")
  <2>1. Len(stack) \in Nat \ {0} /\ Op = Does(Top) /\ stack # <<>> /\ state = "generating"
    BY <1>o, TopFacts DEF Running
  <2>2. Len(stack) # 1 => Does(stack[1])[1] \in Gens
    <3>0. 1 \in 1..Len(stack) /\ (Len(stack) # 1 => 1 < Len(stack))
      BY <2>1
    <3>1. Len(stack) # 1 => Fits(1) /\ 1 < Len(stack)
      BY <3>0 DEF StackInv
    <3> QED
      BY <3>1 DEF Fits
  <2>3. Len(stack) = 1 => Op = Does(stack[1])
    BY <2>1 DEF Top
  <2> QED
    BY <1>o, <1>s, <1>c, <2>1, <2>2, <2>3, OpsOfRoutines, NoDebugOps DEF Gens
<1>b. ASSUME NEW ops, Bottom(ops), ops \cap {"entry", "scope", "unlocate", "ret"} = {},
             scopes' = scopes, scope' = scope, fn' = fn, lines' \subseteq {0, fn}
      PROVE  DebugInv'
  <2>1. CASE stack'[1] = stack[1]
    BY <1>b, <1>d, <2>1 DEF DebugInv, Bottom
  <2>2. CASE stack'[1].pc = stack[1].pc + 1 /\ Does(stack[1])[1] \in ops
    <3>1. CASE version = "Chapter9"
      <4>1. stack[1].pc \in 1..10 /\ stack[1].pc \notin {1, 2, 3, 10}
        BY SMTT(30), <1>b, <1>s, <1>c, <2>2, <3>1 DEF Bottom
      <4>2. /\ stack'[1].pc > 3 => stack[1].pc > 3
            /\ stack'[1].pc \in 3..10 <=> stack[1].pc \in 3..10
        BY <2>2, <4>1
      <4> QED
        BY <1>b, <1>d, <3>1, <4>2 DEF DebugInv, Bottom
    <3>2. CASE version # "Chapter9"
      BY <1>b, <1>d, <3>2 DEF DebugInv, Bottom
    <3> QED
      BY <3>1, <3>2
  <2> QED
    BY <1>b, <2>1, <2>2 DEF Bottom
<1>1. CASE stack' = stack /\ state' \in {state, "undefined"} /\ UNCHANGED <<fn, term, insert, values, debug, named>>
  <2>1. version' = version
    BY TypesKept, <1>1 DEF vars, Next, Calls, Builds, Frames, BeginFunction, Generate,
       NoSubExpression, Check, Callee,
         Return, FinishFunction, AssignToNoVariable, Lookup, Inst, CreateEntryBlockAlloca, NewBlock,
         AppendBlock, GetInsertBlock, SetInsertPoint, CreateBr, CreateCondBr, CreatePHI,
            AddIncoming,
         Bind, Unbind, Entry, Clear, BindArgument, PushScope, EmitLocation, ReturnValue,
         Assign, AssignBlock, Advance, Goes
  <2> QED
    BY SMTT(30), <1>1, <1>d, <2>1 DEF DebugInv, debug
<1>2. CASE BeginFunction
  <2>1. stack'[1].pc = 1 /\ version' = version /\ state' = "generating"
    BY <1>2, BeginPushes DEF Frame
  <2>2. scopes = <<>>
    BY <1>2, <1>d DEF BeginFunction
  <2> QED
    BY <1>2, <1>d, <2>1, <2>2 DEF DebugInv, BeginFunction, debug
<1>3. CASE FinishFunction
  <2>1. /\ Running /\ Op[1] = "ret" /\ version' = version /\ state' \in {"finished", "erased"}
        /\ UNCHANGED <<fn, scope, lines>>
        /\ \/ scopes' = IF Op[3] = "unscope" THEN Popped ELSE scopes
           \/ scopes' = IF Op[4] = "unscope" THEN Popped ELSE scopes
    BY <1>3 DEF FinishFunction, Doing
  <2>2. scopes' = <<>>
    <3>1. CASE version = "Chapter9"
      <4>1. stack[1].pc = 10 /\ Op = Does(stack[1])
        BY <1>s, <1>c, <1>o, <2>1, <3>1 DEF FunctionOps
      <4>2. scopes = <<fn>>
        BY <1>d, <1>o, <2>1, <3>1, <4>1
      <4>3. Popped = <<>>
        BY <4>2 DEF Popped
      <4> QED
        BY <1>s, <1>o, <2>1, <3>1, <4>1, <4>3
    <3>2. CASE version # "Chapter9"
      BY <1>d, <1>o, <2>1, <3>2
    <3> QED
      BY <3>1, <3>2
  <2> QED
    BY <1>d, <2>1, <2>2 DEF DebugInv
<1>4. CASE /\ Generate \/ NoSubExpression \/ Check \/ Callee \/ Return
           /\ Bottom(Gens \cup {"check", "callee"})
  <2>1. UNCHANGED <<scope, scopes, fn, lines>>
    BY <1>4 DEF Generate, NoSubExpression, Check, Callee, Return, debug
  <2> QED
    BY <1>4, <1>b, <1>d, <2>1 DEF Gens
<1>5. CASE (Builds \/ Frames) /\ Running /\ Bottom({Op[1]})
  <2>1. CASE Builds /\ ~Inst
    <3>1. UNCHANGED <<scope, scopes, fn, lines>> /\ Op[1] \notin {"entry", "scope", "unlocate", "ret"}
      BY <2>1 DEF Builds, Lookup, CreateEntryBlockAlloca, NewBlock, AppendBlock, GetInsertBlock,
         SetInsertPoint, CreateBr, CreateCondBr, CreatePHI, AddIncoming, Bind, Unbind, debug, Doing
    <3> QED
      BY <1>5, <1>b, <1>d, <3>1
  <2>2. CASE Inst
    <3>1. UNCHANGED <<scope, scopes, fn>> /\ Op[1] = "inst" /\ lines' = lines \cup {scope}
      BY <2>2 DEF Inst, Doing
    <3>2. version = "Chapter9" => stack[1].pc > 3
      BY <1>o, <1>c, <1>s, <1>5, <3>1
    <3>3. lines' \subseteq {0, fn}
      BY <1>d, <1>o, <1>5, <3>1, <3>2
    <3> QED
      BY <1>5, <1>b, <3>1, <3>3
  <2>3. CASE Clear \/ BindArgument
    <3>1. UNCHANGED <<scope, scopes, fn, lines>> /\ Op[1] \in {"clear", "argument"}
      BY <2>3 DEF Clear, BindArgument, debug, Doing
    <3> QED
      BY <1>5, <1>b, <1>d, <3>1
  <2>v. version' = version /\ state' = "generating" /\ state = "generating" /\ stack'[1].pc \in {stack[1].pc, stack[1].pc + 1}
    BY <1>5 DEF Bottom
  <2>m. Len(stack) = 1 /\ Frames => stack'[1].pc = stack[1].pc + 1
    <3>1. Frames => Moves(Len(stack), Top.regs, Top.bbs, Top.old)
      BY StackSteps DEF Frames
    <3> QED
      BY <3>1 DEF Moves, Moved
  <2>4. CASE Entry
    <3>1. scope' = scope /\ scopes' = scopes /\ lines' = {} /\ Op[1] = "entry"
      BY <2>4 DEF Entry, Doing
    <3>2. CASE version = "Chapter9"
      <4>1. stack[1].pc = 1 /\ stack'[1].pc = 2
        BY <1>5, <1>o, <1>s, <1>c, <2>4, <2>m, <3>1, <3>2 DEF FunctionOps, Frames
      <4>2. scopes = <<>>
        BY <1>d, <2>v, <3>2, <4>1
      <4> QED
        BY <2>v, <3>1, <3>2, <4>1, <4>2 DEF DebugInv
    <3> QED
      BY <1>d, <2>v, <3>1, <3>2 DEF DebugInv
  <2>5. CASE PushScope
    <3>1. scope' = scope /\ scopes' = Append(scopes, fn) /\ lines' = lines /\ fn' = fn /\ Op[1] = "scope"
      BY <2>5 DEF PushScope, Doing
    <3>2. version = "Chapter9"
      BY <1>5, <1>o, <3>1 DEF DebugOps
    <3>3. stack[1].pc = 2 /\ stack'[1].pc = 3
      BY SMTT(30), <1>5, <1>o, <1>s, <1>c, <2>5, <2>m, <3>1, <3>2 DEF FunctionOps, Frames
    <3>4. scopes = <<>>
      BY <1>d, <2>v, <3>2, <3>3
    <3>5. scopes' = <<fn>>
      BY <3>1, <3>4
    <3> QED
      BY <1>d, <2>v, <3>1, <3>2, <3>3, <3>5 DEF DebugInv
  <2>7. CASE EmitLocation
    <3>1. /\ scope' = IF Op[1] = "unlocate" \/ scopes = <<>> THEN 0 ELSE scopes[Len(scopes)]
          /\ scopes' = scopes /\ lines' = lines /\ fn' = fn /\ Op[1] \in {"locate", "unlocate"}
      BY <2>7 DEF EmitLocation, Doing
    <3>2. version = "Chapter9"
      BY <1>5, <1>o, <3>1 DEF DebugOps
    <3>3. scope' \in {0, fn}
      BY <1>d, <2>v, <3>1, <3>2
    <3>4. stack'[1].pc \in 3..10 <=> stack[1].pc \in 3..10
      <4>1. CASE Len(stack) = 1
        <5>1. stack'[1].pc = stack[1].pc + 1 /\ stack[1].pc \in 1..10 /\ stack[1].pc \notin {2, 10}
          BY <1>5, <1>o, <1>s, <1>c, <2>7, <2>m, <3>1, <3>2, <4>1 DEF Frames
        <5> QED
          BY <5>1
      <4>2. CASE Len(stack) # 1
        <5>1. stack[1].pc = 9
          BY <1>5, <1>o, <3>2, <4>2
        <5> QED
          BY <2>v, <5>1
      <4> QED
        BY <4>1, <4>2
    <3> QED
      BY <1>d, <2>v, <3>1, <3>2, <3>3, <3>4 DEF DebugInv
  <2> QED
    BY <1>5, <2>1, <2>2, <2>3, <2>4, <2>5, <2>7 DEF Frames
<1> QED
  BY <1>1, <1>2, <1>3, <1>4, <1>5, BottomSteps

-----------------------------------------------------------------------------
(* Values of earlier functions.                                                *)
Own(v) == v.fn \in {0, fn}
FrameOwn(f) == Own(f.old) /\ \A r \in Registers : Own(f.regs[r])
Entered(f) == Passed(Routine(f.kind), f.pc, {"entry"})
Cleared(f) == Passed(Routine(f.kind), f.pc, {"clear"})
Ready(f) == Entered(f) /\ Cleared(f)

OwnInv ==
    /\ OwnOperands
    /\ state = "generating" =>
          /\ \A k \in 1..Len(stack) : FrameOwn(stack[k])
          /\ Ready(stack[1]) => \A n \in Names : Own(named[n])
          /\ ~Ready(stack[1]) =>
                /\ Cleared(stack[1]) => \A n \in Names : named[n].fn = 0
                /\ stack[1].old.fn = 0 /\ \A r \in Registers : stack[1].regs[r].fn = 0

Quiet == {"scope", "unlocate", "locate"}
(* Whatever builds does so in a function that was made, after the names were *)
(* forgotten.                                                                *)
LEMMA ReadyToBuild ==
  ASSUME TypeInv, StackInv, Running
  PROVE  /\ Op[1] \notin Quiet \cup {"entry", "clear"} => Ready(stack[1])
         /\ Op[1] = "entry" => ~Entered(stack[1]) /\ Len(stack) = 1
         /\ Op[1] = "clear" => Len(stack) = 1
         /\ state = "generating" /\ stack # <<>> /\ Len(stack) \in Nat \ {0} /\ stack[1].kind = "Function"
<1>1. stack # <<>> /\ Len(stack) \in Nat \ {0} /\ Op = Does(Top) /\ state = "generating"
  BY TopFacts DEF Running
<1>0. 1 \in 1..Len(stack) /\ (Len(stack) # 1 => 1 < Len(stack))
  BY <1>1
<1>2. Fits(1)
  BY <1>0 DEF StackInv
<1>3. Sane(version, "Function") /\ stack[1].kind = "Function" /\ stack[1].pc \in DOMAIN Routine("Function")
  BY <1>0, <1>2, ScriptFacts DEF Fits
<1>4. Prologue(Routine("Function"))
  BY <1>3 DEF Sane, Routine
<1> DEFINE o == Routine("Function")[stack[1].pc][1]
<1>5. /\ o \in FunctionOps \cup {"alloca", "inst", "gen", "locate"}
      /\ o \in {"alloca", "inst", "argument", "gen", "ret"} => Ready(stack[1])
      /\ o = "entry" => ~Entered(stack[1])
  BY <1>3, <1>4 DEF Prologue, Ready, Entered, Cleared
<1>6. CASE Len(stack) # 1
  <2>1. o \in Gens
    BY <1>0, <1>2, <1>3, <1>6 DEF Fits, Does
  <2>2. Ready(stack[1])
    BY <1>5, <2>1 DEF Gens, FunctionOps
  <2>3. Op[1] \notin {"entry", "clear"}
    BY <1>6, OpsOfRoutines DEF FunctionOps
  <2> QED
    BY <1>1, <1>3, <2>2, <2>3
<1>7. CASE Len(stack) = 1
  <2>1. Op[1] = o
    BY <1>1, <1>3, <1>7 DEF Top, Does
  <2> QED
    BY <1>1, <1>3, <1>5, <1>7, <2>1 DEF FunctionOps, Quiet
<1> QED
  BY <1>6, <1>7

(* A function that has been made, or names that were forgotten, stay so.     *)
LEMMA BottomReady ==
  ASSUME TypeInv, StackInv, NEW ops, Bottom(ops)
  PROVE  /\ Entered(stack[1]) => Entered(stack[1])'
         /\ Cleared(stack[1]) => Cleared(stack[1])'
         /\ "entry" \notin ops => (Entered(stack[1])' => Entered(stack[1]))
         /\ "clear" \notin ops => (Cleared(stack[1])' => Cleared(stack[1]))
<1>1. stack[1].pc \in Nat \ {0}
  BY Chapter9Bottom DEF Bottom
<1>2. Routine("Function")' = Routine("Function") /\ stack[1].kind = "Function" /\ stack'[1].kind = "Function"
  BY DEF Bottom, Routine
<1>3. Does(stack[1]) = Routine("Function")[stack[1].pc]
  BY <1>2 DEF Does
<1> DEFINE s == Routine("Function")
           pc == stack[1].pc
<1>4. /\ Passed(s, pc + 1, {"entry"}) <=> Passed(s, pc, {"entry"}) \/ s[pc][1] = "entry"
      /\ Passed(s, pc + 1, {"clear"}) <=> Passed(s, pc, {"clear"}) \/ s[pc][1] = "clear"
  BY <1>1, HistoryMoves
<1>5. CASE stack'[1] = stack[1]
  BY <1>2, <1>5 DEF Entered, Cleared
<1>6. CASE stack'[1].pc = stack[1].pc + 1 /\ Does(stack[1])[1] \in ops
  BY <1>2, <1>3, <1>4, <1>6 DEF Entered, Cleared
<1> QED
  BY <1>5, <1>6 DEF Bottom

(* The frames keep to values of the function when one that does goes on.     *)
LEMMA OwnMoves ==
  ASSUME TypeInv, StackInv, NEW n \in 1..Len(stack), NEW regs, NEW bbs, NEW old, Moves(n, regs, bbs, old),
         fn' = fn, \A k \in 1..Len(stack) : FrameOwn(stack[k]),
         \A r \in Registers : Own(regs[r]), Own(old)
  PROVE  \A k \in 1..Len(stack') : FrameOwn(stack[k])'
<1>1. Len(stack) \in Nat /\ Len(stack') = n
  BY LenProperties DEF TypeInv, Moves
<1>2. \A k \in 1..n : k \in 1..Len(stack) /\ (k = n \/ k \in 1..(n - 1))
  BY <1>1
<1>3. ASSUME NEW k \in 1..(n - 1), k \in 1..Len(stack) PROVE FrameOwn(stack[k])'
  <2>1. stack'[k] = stack[k]
    BY <1>3 DEF Moves
  <2> QED
    BY <1>3, <2>1 DEF FrameOwn, Own
<1>4. FrameOwn(stack[n])'
  BY DEF Moves, Moved, FrameOwn, Own
<1> QED
  BY <1>1, <1>2, <1>3, <1>4

(* No step brings a value of an earlier function back.                       *)
LEMMA OwnKept ==
  ASSUME TypeInv, StackInv, OwnInv, [Next]_vars
  PROVE  OwnInv'
<1>t. TypeInv' /\ StackInv'
  BY TypesKept
<1>u. /\ \A u \in uses : Own(u[1])
      /\ \A i \in incoming : Own(i.value)
  BY DEF OwnInv, OwnOperands, Own
<1>f. state = "generating" =>
          /\ \A k \in 1..Len(stack) : FrameOwn(stack[k])
          /\ Ready(stack[1]) => \A n \in Names : Own(named[n])
          /\ ~Ready(stack[1]) =>
                /\ Cleared(stack[1]) => \A n \in Names : named[n].fn = 0
                /\ stack[1].old.fn = 0 /\ \A r \in Registers : stack[1].regs[r].fn = 0
  BY DEF OwnInv
<1>n. Null.fn = 0 /\ Constant.fn = 0 /\ Null \in ValueType /\ \A b : Value(fn, b).fn = fn
  BY DEF Null, Constant, Value, ValueType
<1>k. Running => Len(stack) \in 1..Len(stack)
  BY TopFacts
(* A step of the function that has its block and its names.                    *)
<1>r. ASSUME Running, Op[1] \notin Quiet \cup {"entry", "clear"}, NEW ops, Bottom(ops), fn' = fn,
             \A u \in uses' : Own(u[1]), \A i \in incoming' : Own(i.value),
             \A n \in Names : Own(named'[n]),
             \A k \in 1..Len(stack') : FrameOwn(stack[k])'
      PROVE  OwnInv'
  <2>1. Ready(stack[1])'
    BY <1>r, ReadyToBuild, BottomReady DEF Ready
  <2>2. OwnOperands'
    BY <1>r DEF OwnOperands, Own
  <2>3. \A n \in Names : Own(named[n])'
    BY <1>r DEF Own
  <2> QED
    BY <1>r, <2>1, <2>2, <2>3 DEF OwnInv
<1>o. ASSUME Running
      PROVE  /\ \A k \in 1..Len(stack) : FrameOwn(stack[k])
             /\ \A r \in Registers : Own(Top.regs[r])
             /\ Own(Top.old)
             /\ Op[1] \notin Quiet \cup {"entry", "clear"} => \A n \in Names : Own(named[n])
  BY <1>o, <1>f, <1>k, ReadyToBuild DEF Top, FrameOwn
<1>a. ASSUME Running, NEW v, Own(v)
      PROVE  \A r \in Registers : Own([Top.regs EXCEPT ![Op[2]] = v][r])
  <2>1. Top.regs \in RegsType
    BY <1>a, OperandsTyped
  <2>2. \A r \in Registers : [Top.regs EXCEPT ![Op[2]] = v][r] \in {v, Top.regs[r]}
    BY <2>1 DEF RegsType
  <2> QED
    BY <1>a, <1>o, <2>2
<1>1. CASE stack' = stack /\ state' \in {state, "undefined"} /\ UNCHANGED <<fn, term, insert, values, debug, named>>
  <2>1. version' = version
    BY <1>1 DEF vars, Next, Calls, Builds, Frames, BeginFunction, Generate, NoSubExpression,
       Check, Callee,
         Return, FinishFunction, AssignToNoVariable, Lookup, Inst, CreateEntryBlockAlloca, NewBlock,
         AppendBlock, GetInsertBlock, SetInsertPoint, CreateBr, CreateCondBr, CreatePHI,
            AddIncoming,
         Bind, Unbind, Entry, Clear, BindArgument, PushScope, EmitLocation, ReturnValue,
         Assign, AssignBlock, Advance, Goes
  <2>2. OwnOperands'
    BY <1>1, <1>u DEF OwnOperands, Own, values
  <2> QED
    BY SMTT(30), <1>1, <1>f, <2>1, <2>2 DEF OwnInv, FrameOwn, Own, Ready, Entered, Cleared, Routine
<1>2. CASE BeginFunction
  <2>1. UNCHANGED <<fn, uses, incoming, named>>
    BY <1>2 DEF BeginFunction, values
  <2>2. Len(stack') = 1 /\ stack'[1] = Frame("Function", Argument) /\ version' = version
    BY <1>2, BeginPushes
  <2>3. stack'[1].pc = 1 /\ stack'[1].old = Null /\ \A r \in Registers : stack'[1].regs[r] \in {Null, Constant}
    BY <2>2 DEF Frame
  <2>4. FrameOwn(stack[1])' /\ stack'[1].old.fn = 0 /\ \A r \in Registers : stack'[1].regs[r].fn = 0
    BY <2>3, <1>n DEF FrameOwn, Own
  <2>5. ~Cleared(stack[1])'
    <3>1. \A s : ~Passed(s, 1, {"clear"})
      BY DEF Passed
    <3> QED
      BY <2>3, <3>1 DEF Cleared
  <2>6. OwnOperands'
    BY <2>1, <1>u DEF OwnOperands, Own
  <2> QED
    BY <2>2, <2>4, <2>5, <2>6 DEF OwnInv, Ready
<1>3. CASE FinishFunction
  <2>1. Running /\ Op[1] = "ret" /\ state' # "generating" /\ incoming' = incoming /\ fn' = fn
        /\ uses' \subseteq uses \cup {<<Reg(2), insert>>}
    BY <1>3 DEF FinishFunction, Doing
  <2>2. Own(Reg(2))
    BY <1>o, <2>1, OperandsTyped DEF Reg
  <2>3. \A u \in uses' : Own(u[1])
    BY <1>u, <2>1, <2>2
  <2>4. OwnOperands'
    BY <1>u, <2>1, <2>3 DEF OwnOperands, Own
  <2> QED
    BY <2>1, <2>4 DEF OwnInv
<1>4. CASE /\ Generate \/ NoSubExpression \/ Check \/ Callee \/ Return
           /\ Bottom(Gens \cup {"check", "callee"})
  <2>1. UNCHANGED <<fn, uses, incoming, named>>
    BY <1>4 DEF Generate, NoSubExpression, Check, Callee, Return, values
  <2>2. Running /\ Op[1] \notin Quiet \cup {"entry", "clear"}
    BY <1>4 DEF Generate, NoSubExpression, Check, Callee, Return, Doing, Quiet
  <2>3. \A k \in 1..Len(stack') : FrameOwn(stack[k])'
    <3>1. ASSUME NEW v, Own(v), v \in ValueType, Op[1] \in {"check", "callee", "return"}, ReturnValue(v)
          PROVE  \A k \in 1..Len(stack') : FrameOwn(stack[k])'
      <4>1. /\ Len(stack) - 1 \in 1..Len(stack) /\ Caller \in FrameType
            /\ Moves(Len(stack) - 1, [Caller.regs EXCEPT ![Does(Caller)[2]] = v], Caller.bbs, Caller.old)
        BY <2>2, <3>1, ReturnMoves
      <4>2. FrameOwn(Caller)
        BY <1>o, <2>2, <4>1 DEF Caller
      <4>3. Caller.regs \in RegsType
        BY <4>1 DEF FrameType
      <4>4. \A r \in Registers : [Caller.regs EXCEPT ![Does(Caller)[2]] = v][r] \in {v, Caller.regs[r]}
        BY <4>3 DEF RegsType
      <4>5. \A r \in Registers : Own([Caller.regs EXCEPT ![Does(Caller)[2]] = v][r])
        BY <3>1, <4>2, <4>4 DEF FrameOwn
      <4> QED
        BY <1>o, <2>1, <2>2, <4>1, <4>2, <4>5, OwnMoves DEF FrameOwn
    <3>2. ASSUME Moves(Len(stack), Top.regs, Top.bbs, Top.old)
          PROVE  \A k \in 1..Len(stack') : FrameOwn(stack[k])'
      BY <1>k, <1>o, <2>1, <2>2, <3>2, OwnMoves
    <3>3. Own(Null) /\ Own(Constant)
      BY <1>n DEF Own
    <3>4. CASE Generate
      <4>1. PICK kind \in Kinds \ {"Function"}, name \in Names : Pushes(kind, name)
        BY <3>4, GeneratePushes
      <4>2. Frame(kind, name).old = Null /\ \A r \in Registers : Frame(kind, name).regs[r] \in {Null, Constant}
        BY DEF Frame
      <4>3. FrameOwn(Frame(kind, name))'
        BY <1>n, <4>2 DEF FrameOwn, Own
      <4>4. ASSUME NEW k \in 1..Len(stack) PROVE FrameOwn(stack[k])'
        <5>1. stack'[k] = stack[k] /\ FrameOwn(stack[k])
          BY <1>o, <2>2, <4>1 DEF Pushes
        <5> QED
          BY <2>1, <5>1 DEF FrameOwn, Own
      <4>5. Len(stack) \in Nat /\ Len(stack') = Len(stack) + 1 /\ stack'[Len(stack) + 1] = Frame(kind, name)
        BY <2>2, <4>1, TopFacts DEF Pushes
      <4>6. \A k \in 1..(Len(stack) + 1) : k \in 1..Len(stack) \/ k = Len(stack) + 1
        BY <4>5
      <4>7. ASSUME NEW k, k = Len(stack) + 1 PROVE FrameOwn(stack[k])'
        BY <4>3, <4>5, <4>7 DEF FrameOwn, Own, Frame
      <4> QED
        BY <4>4, <4>5, <4>6, <4>7
    <3>5. CASE NoSubExpression
      <4>1. Moves(Len(stack), [Top.regs EXCEPT ![Op[2]] = Constant], Top.bbs, Top.old)
        BY <3>5, StackSteps
      <4> QED
        BY <1>a, <1>k, <1>o, <2>1, <2>2, <3>3, <4>1, OwnMoves
    <3>6. CASE Check
      BY <1>n, <3>1, <3>2, <3>3, <3>6, StackSteps DEF Doing
    <3>7. CASE Callee
      BY <1>n, <3>1, <3>2, <3>3, <3>7, StackSteps DEF Doing
    <3>8. CASE Return
      <4>1. Op[1] = "return" /\ ReturnValue(Reg(2)) /\ Running
        BY <3>8 DEF Return, Doing
      <4>2. Op[2] \in Registers /\ Reg(2) \in ValueType
        BY <4>1, OperandsTyped
      <4>3. Own(Reg(2))
        BY <1>o, <4>1, <4>2 DEF Reg
      <4> QED
        BY <3>1, <4>1, <4>2, <4>3
    <3> QED
      BY <1>4, <3>4, <3>5, <3>6, <3>7, <3>8
  <2> QED
    BY <1>4, <1>o, <1>r, <1>u, <2>1, <2>2, <2>3 DEF Own
<1>5. CASE Builds /\ Running /\ Bottom({Op[1]})
  <2>1. fn' = fn /\ Op[1] \notin Quiet \cup {"entry", "clear"}
    BY <1>5 DEF Builds, Lookup, Inst, CreateEntryBlockAlloca, NewBlock, AppendBlock, GetInsertBlock,
       SetInsertPoint, CreateBr, CreateCondBr, CreatePHI, AddIncoming, Bind, Unbind, Doing, Quiet
  <2>2. Own(Value(fn, insert)) /\ Own(EntryAlloca) /\ Own(named[Top.name]) /\ \A n \in Names : Own(named[n])
    BY <1>5, <1>n, <1>o, <2>1, OperandsTyped DEF Own, EntryAlloca
  <2>3. \A k \in 1..Len(stack') : FrameOwn(stack[k])'
    <3>1. \E regs, bbs, old : /\ Moves(Len(stack), regs, bbs, old)
                              /\ \A r \in Registers : Own(regs[r])
                              /\ Own(old)
      <4>1. CASE Lookup
        BY <1>5, <1>a, <1>o, <2>2, <4>1, StackSteps
      <4>2. CASE Inst \/ CreatePHI
        BY <1>5, <1>a, <1>o, <2>2, <4>2, StackSteps
      <4>3. CASE CreateEntryBlockAlloca
        BY <1>5, <1>a, <1>o, <2>2, <4>3, StackSteps
      <4>4. CASE NewBlock \/ GetInsertBlock
        BY <1>5, <1>o, <4>4, StackSteps
      <4>5. CASE Bind
        BY <1>5, <1>o, <2>2, <4>5, StackSteps
      <4>6. CASE AppendBlock \/ SetInsertPoint \/ CreateBr \/ CreateCondBr \/ AddIncoming \/ Unbind
        BY <1>5, <1>o, <4>6, StackSteps
      <4> QED
        BY <1>5, <4>1, <4>2, <4>3, <4>4, <4>5, <4>6 DEF Builds
    <3> QED
      BY <1>5, <1>k, <1>o, <2>1, <3>1, OwnMoves
  <2>4. \A n \in Names : Own(named'[n])
    <3>1. CASE Bind
      <4>1. named' = [named EXCEPT ![Top.name] = Reg(2)] /\ Op[1] = "bind"
        BY <3>1 DEF Bind, Doing
      <4>2. Own(Reg(2))
        BY <1>5, <1>o, <4>1, OperandsTyped DEF Reg
      <4>3. named \in [Names -> ValueType]
        BY DEF TypeInv
      <4> QED
        BY <2>2, <4>1, <4>2, <4>3
    <3>2. CASE Unbind
      <4>1. named' = [named EXCEPT ![Top.name] = Top.old]
        BY <3>2 DEF Unbind, Restored
      <4>2. Own(Top.old)
        BY <1>5, <1>o
      <4>3. named \in [Names -> ValueType]
        BY DEF TypeInv
      <4> QED
        BY <2>2, <4>1, <4>2, <4>3
    <3>3. CASE ~Bind /\ ~Unbind
      <4>1. named' = named
        BY <1>5, <3>3 DEF Builds, Lookup, Inst, CreateEntryBlockAlloca, NewBlock, AppendBlock,
           GetInsertBlock,
           SetInsertPoint, CreateBr, CreateCondBr, CreatePHI, AddIncoming
      <4> QED
        BY <2>2, <4>1
    <3> QED
      BY <3>1, <3>2, <3>3
  <2>5. \A u \in uses' : Own(u[1])
    <3>1. CASE Inst
      <4>1. uses' = uses \cup {<<Reg(3), insert>>, <<Reg(4), insert>>} /\ Op[1] = "inst"
        BY <3>1 DEF Inst, Doing
      <4>2. Own(Reg(3)) /\ Own(Reg(4))
        BY <1>5, <1>o, <4>1, OperandsTyped DEF Reg
      <4> QED
        BY <1>u, <4>1, <4>2
    <3>2. CASE CreateCondBr
      <4>1. uses' = uses \cup {<<Reg(2), insert>>} /\ Op[1] = "condbr"
        BY <3>2 DEF CreateCondBr, Doing
      <4>2. Own(Reg(2))
        BY <1>5, <1>o, <4>1, OperandsTyped DEF Reg
      <4> QED
        BY <1>u, <4>1, <4>2
    <3>3. CASE ~Inst /\ ~CreateCondBr
      <4>1. uses' = uses
        BY <1>5, <3>3 DEF Builds, Lookup, CreateEntryBlockAlloca, NewBlock, AppendBlock,
           GetInsertBlock,
           SetInsertPoint, CreateBr, CreatePHI, AddIncoming, Bind, Unbind, values
      <4> QED
        BY <1>u, <4>1
    <3> QED
      BY <3>1, <3>2, <3>3
  <2>6. \A i \in incoming' : Own(i.value)
    <3>1. CASE AddIncoming
      <4>1. incoming' = incoming \cup {[phi |-> Reg(2).block, value |-> Reg(3), from |-> Block(4)]}
            /\ Op[1] = "incoming"
        BY <3>1 DEF AddIncoming, Doing
      <4>2. Own(Reg(3))
        BY <1>5, <1>o, <4>1, OperandsTyped DEF Reg
      <4> QED
        BY <1>u, <4>1, <4>2
    <3>2. CASE ~AddIncoming
      <4>1. incoming' = incoming
        BY <1>5, <3>2 DEF Builds, Lookup, Inst, CreateEntryBlockAlloca, NewBlock, AppendBlock,
           GetInsertBlock,
           SetInsertPoint, CreateBr, CreateCondBr, CreatePHI, Bind, Unbind, values
      <4> QED
        BY <1>u, <4>1
    <3> QED
      BY <3>1, <3>2
  <2> QED
    BY <1>5, <1>r, <2>1, <2>3, <2>4, <2>5, <2>6
<1>6. CASE Frames /\ Running /\ Bottom({Op[1]})
  <2>1. Moves(Len(stack), Top.regs, Top.bbs, Top.old)
    BY <1>6, StackSteps DEF Frames
  <2>2. CASE BindArgument
    <3>1. fn' = fn /\ Op[1] = "argument" /\ UNCHANGED <<uses, incoming>> /\ named' = [named EXCEPT ![Argument] = Reg(2)]
      BY <2>2 DEF BindArgument, Doing, values
    <3>2. Op[1] \notin Quiet \cup {"entry", "clear"}
      BY <3>1 DEF Quiet
    <3>3. Own(Reg(2))
      BY <1>6, <1>o, <3>1, OperandsTyped DEF Reg
    <3>4. named \in [Names -> ValueType]
      BY DEF TypeInv
    <3>5. \A n \in Names : Own(named'[n])
      BY <1>6, <1>o, <3>1, <3>2, <3>3, <3>4
    <3>6. \A k \in 1..Len(stack') : FrameOwn(stack[k])'
      BY <1>6, <1>k, <1>o, <2>1, <3>1, OwnMoves
    <3> QED
      BY <1>6, <1>r, <1>u, <3>1, <3>2, <3>5, <3>6
  <2>3. CASE PushScope \/ EmitLocation
    <3>1. UNCHANGED <<fn, uses, incoming, named>> /\ Op[1] \in Quiet
      BY <2>3 DEF PushScope, EmitLocation, Doing, values, Quiet
    <3>2. \A k \in 1..Len(stack') : FrameOwn(stack[k])'
      BY <1>6, <1>k, <1>o, <2>1, <3>1, OwnMoves
    <3>3. /\ Entered(stack[1])' <=> Entered(stack[1])
          /\ Cleared(stack[1])' <=> Cleared(stack[1])
      BY <1>6, <3>1, BottomReady DEF Quiet
    <3>4. OwnOperands'
      BY <1>u, <3>1 DEF OwnOperands, Own
    <3>5. stack'[1].regs = stack[1].regs /\ stack'[1].old = stack[1].old
      <4>1. CASE Len(stack) = 1
        BY <2>1, <4>1 DEF Moves, Moved, Top
      <4>2. CASE Len(stack) # 1
        <5>1. Len(stack) \in Nat \ {0, 1}
          BY <1>6, <4>2, ReadyToBuild
        <5>2. 1 \in 1..(Len(stack) - 1)
          BY SMTT(30), <5>1
        <5> QED
          BY <2>1, <5>2 DEF Moves
      <4> QED
        BY <4>1, <4>2
    <3>6. state = "generating"
      BY <1>6 DEF Bottom
    <3> QED
      BY <1>f, <3>1, <3>2, <3>3, <3>4, <3>5, <3>6 DEF OwnInv, Ready, Own
  <2>4. CASE Entry
    <3>1. uses' = {} /\ incoming' = {} /\ fn' = fn + 1 /\ named' = named /\ Op[1] = "entry"
      BY <2>4 DEF Entry, Doing
    <3>2. Len(stack) = 1 /\ ~Entered(stack[1]) /\ state = "generating"
      BY <1>6, <3>1, ReadyToBuild
    <3>3. Len(stack') = 1 /\ stack'[1].regs = stack[1].regs /\ stack'[1].old = stack[1].old
      BY <2>1, <3>2 DEF Moves, Moved, Top
    <3>4. Cleared(stack[1])' <=> Cleared(stack[1])
      BY <1>6, <3>1, BottomReady
    <3>5. /\ Cleared(stack[1]) => \A n \in Names : named[n].fn = 0
          /\ stack[1].old.fn = 0 /\ \A r \in Registers : stack[1].regs[r].fn = 0
      BY <1>f, <3>2 DEF Ready
    <3>6. OwnOperands'
      BY <3>1 DEF OwnOperands
    <3>7. \A k \in 1..Len(stack') : FrameOwn(stack[k])'
      BY <3>3, <3>5 DEF FrameOwn, Own
    <3>8. Cleared(stack[1])' => \A n \in Names : named'[n].fn = 0
      BY <3>1, <3>4, <3>5
    <3> QED
      BY <3>3, <3>5, <3>6, <3>7, <3>8 DEF OwnInv, Ready, Own
  <2>5. CASE Clear
    <3>1. UNCHANGED <<uses, incoming, fn>> /\ named' = NoNames /\ Op[1] = "clear"
      BY <2>5 DEF Clear, Doing, values
    <3>2. Len(stack) = 1 /\ state = "generating"
      BY <1>6, <3>1, ReadyToBuild
    <3>3. Len(stack') = 1 /\ stack'[1].regs = stack[1].regs /\ stack'[1].old = stack[1].old
      BY <2>1, <3>2 DEF Moves, Moved, Top
    <3>4. \A n \in Names : named'[n].fn = 0
      BY <1>n, <3>1 DEF NoNames
    <3>5. OwnOperands'
      BY <1>u, <3>1 DEF OwnOperands, Own
    <3>6. \A k \in 1..Len(stack') : FrameOwn(stack[k])'
      BY <1>6, <1>k, <1>o, <2>1, <3>1, OwnMoves
    <3>7. Ready(stack[1]) => Ready(stack[1])'
      BY <1>6, BottomReady DEF Ready
    <3> QED
      BY <1>f, <3>2, <3>3, <3>4, <3>5, <3>6, <3>7 DEF OwnInv, Own
  <2> QED
    BY <1>6, <2>2, <2>3, <2>4, <2>5 DEF Frames
<1> QED
  BY <1>1, <1>2, <1>3, <1>4, <1>5, <1>6, BottomSteps

-----------------------------------------------------------------------------
(* Null values.  A routine whose sub-expression failed has a null register that*)
(* it has not tested yet, and never forgets it; what it has tested or computed *)
(* is not null.                                                                *)
DoomedAt(s, pc, regs) == \E j \in 1..(pc - 1) : s[j][1] \in Gens /\ regs[s[j][2]] = Null
CheckedAt(s, pc, regs) ==
    /\ regs["const"] = Constant
    /\ \A j \in 1..(pc - 1) : s[j][1] \in Sets => regs[s[j][2]] # Null

(* What an operation does to the registers that are null.                    *)
LEMMA NullRegisters ==
  ASSUME NEW s, Shaped(s), AssignsOnce(s), NEW pc \in DOMAIN s, NEW regs \in RegsType, NEW v
  PROVE  /\ DoomedAt(s, pc, regs) => DoomedAt(s, pc + 1, regs)
         /\ s[pc][1] \in Assigning =>
               (DoomedAt(s, pc, regs) => DoomedAt(s, pc + 1, [regs EXCEPT ![s[pc][2]] = v]))
         /\ s[pc][1] \in Gens => DoomedAt(s, pc + 1, [regs EXCEPT ![s[pc][2]] = Null])
         /\ CheckedAt(s, pc, regs) /\ s[pc][1] \notin Sets => CheckedAt(s, pc + 1, regs)
         /\ CheckedAt(s, pc, regs) /\ regs[s[pc][2]] # Null => CheckedAt(s, pc + 1, regs)
         /\ CheckedAt(s, pc, regs) /\ s[pc][1] \in Assigning /\ (s[pc][1] \in Sets => v # Null)
               => CheckedAt(s, pc + 1, [regs EXCEPT ![s[pc][2]] = v])
<1>1. DOMAIN s = 1..Len(s) /\ Len(s) \in Nat /\ pc \in Nat /\ pc >= 1 /\ pc <= Len(s)
  BY DEF Shaped
<1>2. 1..(pc + 1 - 1) = 1..(pc - 1) \cup {pc} /\ 1..(pc - 1) \subseteq DOMAIN s
  BY <1>1
<1>3. \A j \in DOMAIN s : s[j][1] \in Gens \cup Sets \cup Assigning => s[j][2] \in Registers
  BY DEF Shaped, Typed, Gens, Sets, Assigning, OneValue, Bare, OneBlock
<1>4. DOMAIN regs = Registers
  BY DEF RegsType
<1>5. ASSUME s[pc][1] \in Assigning
      PROVE  /\ s[pc][2] # "const" /\ s[pc][2] \in Registers
             /\ \A j \in 1..(pc - 1) :
                  /\ s[j][1] \in Gens => s[j][2] # s[pc][2]
                  /\ s[j][1] \in Sets /\ s[pc][1] \in {"gen", "genopt", "lookup"} => s[j][2] # s[pc][2]
  BY <1>3, <1>5 DEF AssignsOnce
<1>6. DoomedAt(s, pc, regs) => DoomedAt(s, pc + 1, regs)
  BY <1>2 DEF DoomedAt
<1>7. ASSUME s[pc][1] \in Assigning, DoomedAt(s, pc, regs)
      PROVE  DoomedAt(s, pc + 1, [regs EXCEPT ![s[pc][2]] = v])
  <2>1. PICK j \in 1..(pc - 1) : s[j][1] \in Gens /\ regs[s[j][2]] = Null
    BY <1>7 DEF DoomedAt
  <2>2. s[j][2] # s[pc][2] /\ s[j][2] \in Registers
    BY <1>2, <1>3, <1>5, <1>7, <2>1
  <2>3. [regs EXCEPT ![s[pc][2]] = v][s[j][2]] = Null
    BY <1>4, <2>1, <2>2
  <2> QED
    BY <1>2, <2>1, <2>3 DEF DoomedAt
<1>8. ASSUME s[pc][1] \in Gens
      PROVE  DoomedAt(s, pc + 1, [regs EXCEPT ![s[pc][2]] = Null])
  <2>1. [regs EXCEPT ![s[pc][2]] = Null][s[pc][2]] = Null
    BY <1>3, <1>4, <1>8
  <2> QED
    BY <1>2, <1>8, <2>1 DEF DoomedAt
<1>9. CheckedAt(s, pc, regs) /\ s[pc][1] \notin Sets => CheckedAt(s, pc + 1, regs)
  BY <1>2 DEF CheckedAt
<1>10. CheckedAt(s, pc, regs) /\ regs[s[pc][2]] # Null => CheckedAt(s, pc + 1, regs)
  BY <1>2 DEF CheckedAt
<1>11. ASSUME CheckedAt(s, pc, regs), s[pc][1] \in Assigning, s[pc][1] \in Sets => v # Null
       PROVE  CheckedAt(s, pc + 1, [regs EXCEPT ![s[pc][2]] = v])
  <2> DEFINE new == [regs EXCEPT ![s[pc][2]] = v]
  <2>1. new["const"] = Constant
    BY <1>4, <1>5, <1>11 DEF CheckedAt, Registers
  <2>2. ASSUME NEW j \in 1..(pc - 1), s[j][1] \in Sets PROVE new[s[j][2]] # Null
    <3>1. s[j][2] \in Registers /\ regs[s[j][2]] # Null
      BY <1>2, <1>3, <1>11, <2>2 DEF CheckedAt
    <3>2. CASE s[j][2] = s[pc][2]
      <4>1. s[pc][1] \in Sets
        BY <1>5, <1>11, <2>2, <3>2 DEF Assigning, Sets
      <4> QED
        BY <1>4, <1>5, <1>11, <3>1, <3>2, <4>1
    <3>3. CASE s[j][2] # s[pc][2]
      BY <1>4, <1>5, <3>1, <3>3
    <3> QED
      BY <3>2, <3>3
  <2>3. s[pc][1] \in Sets => new[s[pc][2]] # Null
    BY <1>4, <1>5, <1>11
  <2> HIDE DEF new
  <2>4. ASSUME NEW j \in 1..(pc + 1 - 1), s[j][1] \in Sets PROVE new[s[j][2]] # Null
    <3>1. j = pc \/ j \in 1..(pc - 1)
      BY <1>2
    <3> QED
      BY <2>2, <2>3, <2>4, <3>1
  <2>5. CheckedAt(s, pc + 1, new)
    BY <1>1, <1>2, <2>1, <2>4 DEF CheckedAt
  <2> QED
    BY <2>5 DEF new
<1> QED
  BY <1>6, <1>7, <1>8, <1>9, <1>10, <1>11

DoomedFrame(f) == DoomedAt(Routine(f.kind), f.pc, f.regs)
CheckedFrame(f) == CheckedAt(Routine(f.kind), f.pc, f.regs)
Doomed == \E k \in 1..Len(stack) : DoomedFrame(stack[k])
CheckedInv == \A k \in 1..Len(stack) : CheckedFrame(stack[k])

(* A step that moves frame n, for what is true of a frame.                     *)
LEMMA FramesMove ==
  ASSUME TypeInv, StackInv, NEW n \in 1..Len(stack), NEW regs, NEW bbs, NEW old, Moves(n, regs, bbs, old)
  PROVE  /\ CheckedInv /\ CheckedAt(Routine(stack[n].kind), stack[n].pc + 1, regs) => CheckedInv'
         /\ DoomedAt(Routine(stack[n].kind), stack[n].pc + 1, regs) => Doomed'
         /\ \A k \in 1..Len(stack) : k < n /\ DoomedFrame(stack[k]) => Doomed'
<1>1. Len(stack) \in Nat /\ Len(stack') = n
  BY LenProperties DEF TypeInv, Moves
<1>2. \A k \in 1..n : k \in 1..Len(stack) /\ (k = n \/ k \in 1..(n - 1))
  BY <1>1
<1>2a. n \in 1..n
  BY <1>1
<1>3. ASSUME NEW k \in 1..(n - 1)
      PROVE  (CheckedFrame(stack[k])' <=> CheckedFrame(stack[k])) /\ (DoomedFrame(stack[k])' <=> DoomedFrame(stack[k]))
  <2>1. stack'[k] = stack[k] /\ version' = version
    BY <1>3 DEF Moves
  <2> QED
    BY <2>1 DEF CheckedFrame, DoomedFrame, Routine
<1>4. /\ CheckedFrame(stack[n])' <=> CheckedAt(Routine(stack[n].kind), stack[n].pc + 1, regs)
      /\ DoomedFrame(stack[n])' <=> DoomedAt(Routine(stack[n].kind), stack[n].pc + 1, regs)
  BY DEF Moves, Moved, CheckedFrame, DoomedFrame, Routine
<1>5. CheckedInv /\ CheckedAt(Routine(stack[n].kind), stack[n].pc + 1, regs) => CheckedInv'
  BY <1>1, <1>2, <1>3, <1>4 DEF CheckedInv
<1>6. DoomedAt(Routine(stack[n].kind), stack[n].pc + 1, regs) => Doomed'
  BY <1>1, <1>2a, <1>4 DEF Doomed
<1>7. ASSUME NEW k \in 1..Len(stack), k < n, DoomedFrame(stack[k]) PROVE Doomed'
  <2>1. k \in 1..(n - 1) /\ k \in 1..n
    BY <1>1, <1>7
  <2>2. DoomedFrame(stack[k])'
    BY <1>3, <1>7, <2>1
  <2> QED
    BY <1>1, <2>1, <2>2 DEF Doomed
<1> QED
  BY <1>5, <1>6, <1>7

(* The script of a frame.                                                    *)
LEMMA FrameScript ==
  ASSUME TypeInv, StackInv, NEW k \in 1..Len(stack)
  PROVE  LET s == Routine(stack[k].kind) IN
         /\ Shaped(s) /\ AssignsOnce(s) /\ Splits(s)
         /\ stack[k].pc \in DOMAIN s /\ stack[k].pc \in Nat \ {0}
         /\ stack[k].regs \in RegsType /\ stack[k].bbs \in BBsType
         /\ Does(stack[k]) = s[stack[k].pc]
         /\ stack[k].kind # "Function" => Evaluates(s)
         /\ stack[k].kind = "Function" => Prologue(s)
<1>1. Sane(version, stack[k].kind) /\ stack[k] \in FrameType /\ stack[k].pc \in DOMAIN Routine(stack[k].kind)
  BY ScriptFacts
<1> QED
  BY <1>1 DEF Sane, Routine, FrameType, Does

(* How a step that does not begin or end a function changes the frames.        *)
LEMMA CheckedKept ==
  ASSUME TypeInv, StackInv, CheckedInv, [Next]_vars
  PROVE  /\ CheckedInv'
         /\ state = "generating" /\ state' = "generating" /\ Doomed => Doomed'
         /\ state' = "generating" /\ Len(stack') < Len(stack) /\ ~Doomed' => Return
<1>n. Null \in ValueType /\ Constant # Null
  BY DEF Null, Constant, Value, ValueType
<1>k. Running => Len(stack) \in 1..Len(stack) /\ Len(stack) \in Nat
  BY TopFacts
<1>s. ASSUME Running
      PROVE  /\ Shaped(Routine(Top.kind)) /\ AssignsOnce(Routine(Top.kind)) /\ Top.pc \in DOMAIN Routine(Top.kind)
             /\ Top.regs \in RegsType /\ Op = Routine(Top.kind)[Top.pc]
             /\ CheckedAt(Routine(Top.kind), Top.pc, Top.regs)
  BY <1>s, <1>k, FrameScript DEF Top, Op, CheckedInv, CheckedFrame
(* The innermost routine goes on.                                              *)
<1>g. ASSUME Running, NEW regs, NEW bbs, NEW old, Moves(Len(stack), regs, bbs, old),
             \/ regs = Top.regs /\ (Op[1] \notin Sets \/ Reg(2) # Null)
             \/ \E v : /\ Op[1] \in Assigning /\ regs = [Top.regs EXCEPT ![Op[2]] = v]
                       /\ Op[1] \in Sets => v # Null
      PROVE  CheckedInv' /\ (Doomed => Doomed') /\ ~(Len(stack') < Len(stack))
  <2> DEFINE s == Routine(Top.kind)
             pc == Top.pc
  <2>1. CheckedAt(s, pc + 1, regs)
    <3>1. CASE regs = Top.regs /\ (Op[1] \notin Sets \/ Reg(2) # Null)
      BY <1>g, <1>s, <3>1, NullRegisters DEF Reg
    <3>2. CASE \E v : /\ Op[1] \in Assigning /\ regs = [Top.regs EXCEPT ![Op[2]] = v]
                      /\ Op[1] \in Sets => v # Null
      <4>1. PICK v : /\ Op[1] \in Assigning /\ regs = [Top.regs EXCEPT ![Op[2]] = v]
                     /\ Op[1] \in Sets => v # Null
        BY <3>2
      <4>2. CheckedAt(s, pc, Top.regs) /\ s[pc][1] \in Assigning /\ (s[pc][1] \in Sets => v # Null)
               => CheckedAt(s, pc + 1, [Top.regs EXCEPT ![s[pc][2]] = v])
        BY <1>g, <1>s, NullRegisters
      <4> QED
        BY <1>g, <1>s, <4>1, <4>2
    <3> QED
      BY <1>g, <3>1, <3>2
  <2>2. DoomedAt(s, pc, Top.regs) => DoomedAt(s, pc + 1, regs)
    <3>1. CASE regs = Top.regs
      BY <1>g, <1>s, <3>1, NullRegisters
    <3>2. CASE \E v : Op[1] \in Assigning /\ regs = [Top.regs EXCEPT ![Op[2]] = v]
      <4>1. PICK v : Op[1] \in Assigning /\ regs = [Top.regs EXCEPT ![Op[2]] = v]
        BY <3>2
      <4>2. s[pc][1] \in Assigning =>
               (DoomedAt(s, pc, Top.regs) => DoomedAt(s, pc + 1, [Top.regs EXCEPT ![s[pc][2]] = v]))
        BY <1>g, <1>s, NullRegisters
      <4> QED
        BY <1>g, <1>s, <4>1, <4>2
    <3> QED
      BY <1>g, <3>1, <3>2
  <2> HIDE DEF s, pc
  <2>3. CheckedInv'
    BY <1>g, <1>k, <2>1, FramesMove DEF Top, s, pc
  <2>4. ASSUME Doomed PROVE Doomed'
    <3>1. PICK k \in 1..Len(stack) : DoomedFrame(stack[k])
      BY <2>4 DEF Doomed
    <3>2. CASE k < Len(stack)
      BY <1>g, <1>k, <3>1, <3>2, FramesMove
    <3>3. CASE k = Len(stack)
      <4>1. DoomedAt(s, pc, Top.regs)
        BY <3>1, <3>3 DEF DoomedFrame, s, pc, Top
      <4>2. DoomedAt(s, pc + 1, regs)
        BY <2>2, <4>1
      <4> QED
        BY <1>g, <1>k, <4>2, FramesMove DEF Top, s, pc
    <3> QED
      BY <1>g, <1>k, <3>2, <3>3
  <2>5. Len(stack') = Len(stack)
    BY <1>g DEF Moves
  <2> QED
    BY <1>g, <1>k, <2>3, <2>4, <2>5
(* The innermost routine returns.                                              *)
<1>r. ASSUME Running, Op[1] \in {"check", "callee", "return"}, NEW v \in ValueType, ReturnValue(v),
             v = Null \/ Op[1] = "return"
      PROVE  CheckedInv' /\ (Doomed => Doomed') /\ (v = Null => Doomed')
  <2> DEFINE n == Len(stack) - 1
             s == Routine(Caller.kind)
             pc == Caller.pc
             new == [Caller.regs EXCEPT ![Does(Caller)[2]] = v]
  <2>1. /\ n \in 1..Len(stack) /\ Does(Caller)[1] \in Gens
        /\ Moves(n, new, Caller.bbs, Caller.old)
    BY <1>r, ReturnMoves
  <2>2. /\ Shaped(s) /\ AssignsOnce(s) /\ pc \in DOMAIN s /\ Caller.regs \in RegsType /\ Does(Caller) = s[pc]
        /\ CheckedAt(s, pc, Caller.regs)
    BY <2>1, FrameScript DEF Caller, CheckedInv, CheckedFrame
  <2>3. s[pc][1] \in Gens /\ s[pc][1] \in Assigning /\ s[pc][1] \notin Sets
    BY <2>1, <2>2 DEF Gens, Assigning, Sets
  <2>4. CheckedAt(s, pc + 1, new) /\ (DoomedAt(s, pc, Caller.regs) => DoomedAt(s, pc + 1, new))
        /\ (v = Null => DoomedAt(s, pc + 1, new))
    BY <2>2, <2>3, NullRegisters
  <2> HIDE DEF s, pc, new
  <2>5. CheckedInv' /\ (v = Null => Doomed')
    BY <2>1, <2>4, FramesMove DEF Caller, s, pc
  <2>6. ASSUME Doomed, v # Null PROVE Doomed'
    <3>1. PICK k \in 1..Len(stack) : DoomedFrame(stack[k])
      BY <2>6 DEF Doomed
    <3>2. CASE k < n
      BY <2>1, <3>1, <3>2, FramesMove
    <3>3. CASE k = n
      <4>1. DoomedAt(s, pc, Caller.regs)
        BY <3>1, <3>3 DEF DoomedFrame, s, pc, Caller
      <4> QED
        BY <2>1, <2>4, <4>1, FramesMove DEF Caller, s, pc
    <3>4. CASE k = Len(stack)
      <4> DEFINE t == Routine(Top.kind)
      <4>1. Top.kind # "Function"
        <5>1. Top.kind = "Function" <=> Len(stack) = 1
          BY <1>r, TopFacts
        <5>2. Len(stack) # 1
          BY <1>r, OpsOfRoutines
        <5> QED
          BY <5>1, <5>2
      <4>2. Evaluates(t)
        BY <1>k, <1>r, <4>1, FrameScript DEF Top
      <4>3. ReturnsAt(t, Top.pc)
        BY <1>r, <1>s, <2>6, <4>2 DEF Evaluates
      <4>4. PICK j \in 1..(Top.pc - 1) : t[j][1] \in Gens /\ Top.regs[t[j][2]] = Null
        BY <3>1, <3>4 DEF DoomedFrame, DoomedAt, Top
      <4>5. PICK i \in 1..(Top.pc - 1) : t[i] = <<"check", t[j][2]>>
        BY <4>3, <4>4 DEF ReturnsAt
      <4>6. t[i][1] \in Sets /\ t[i][2] = t[j][2]
        BY <4>5 DEF Sets
      <4> QED
        BY <1>r, <1>s, <4>4, <4>6 DEF CheckedAt
    <3> QED
      BY <1>k, <1>r, <3>2, <3>3, <3>4
  <2> QED
    BY <2>5, <2>6
<1>v. \A b \in Nat : Value(fn, b) # Null
  BY DEF Value, Null
<1>b. fn \in Nat /\ insert \in Nat /\ 1 \in Nat
  BY DEF TypeInv
<1>1. CASE stack' = stack /\ version' = version
  BY <1>1 DEF CheckedInv, CheckedFrame, Doomed, DoomedFrame, Routine
<1>2. CASE BeginFunction
  <2>1. stack = <<>> /\ Len(stack') = 1 /\ stack'[1] = Frame("Function", Argument) /\ state # "generating"
    BY <1>2, BeginPushes DEF BeginFunction
  <2>2. Frame("Function", Argument).pc = 1 /\ Frame("Function", Argument).regs["const"] = Constant
    BY DEF Frame, Registers
  <2>3. CheckedFrame(stack[1])'
    BY <2>1, <2>2 DEF CheckedFrame, CheckedAt
  <2>4. ~(Len(stack') < Len(stack))
    BY <2>1, EmptySeq
  <2> QED
    BY <2>1, <2>3, <2>4 DEF CheckedInv
<1>3. CASE FinishFunction
  <2>1. stack' = <<>> /\ state' # "generating"
    BY <1>3 DEF FinishFunction
  <2> QED
    BY <2>1, EmptySeq DEF CheckedInv
<1>4. CASE Generate
  <2>1. Running
    BY <1>4, GeneratePushes
  <2>2. PICK kind \in Kinds \ {"Function"}, name \in Names : Pushes(kind, name)
    BY <1>4, GeneratePushes
  <2>3. Frame(kind, name).pc = 1 /\ Frame(kind, name).regs["const"] = Constant
    BY DEF Frame, Registers
  <2>4. ASSUME NEW k, k = Len(stack) + 1 PROVE CheckedFrame(stack[k])'
    BY <2>2, <2>3, <2>4 DEF CheckedFrame, CheckedAt, Pushes
  <2>5. ASSUME NEW k \in 1..Len(stack)
        PROVE  (CheckedFrame(stack[k])' <=> CheckedFrame(stack[k])) /\ (DoomedFrame(stack[k])' <=> DoomedFrame(stack[k]))
    <3>1. stack'[k] = stack[k] /\ version' = version
      BY <2>2 DEF Pushes
    <3> QED
      BY <3>1 DEF CheckedFrame, DoomedFrame, Routine
  <2>6. Len(stack') = Len(stack) + 1 /\ \A k \in 1..(Len(stack) + 1) : k \in 1..Len(stack) \/ k = Len(stack) + 1
    BY <1>k, <2>1, <2>2 DEF Pushes
  <2>7. \A k \in 1..Len(stack) : k \in 1..(Len(stack) + 1)
    BY <1>k, <2>1
  <2>8. CheckedInv'
    BY <2>4, <2>5, <2>6 DEF CheckedInv
  <2>9. Doomed => Doomed'
    BY <2>5, <2>6, <2>7 DEF Doomed
  <2> QED
    BY <1>k, <2>1, <2>6, <2>8, <2>9
<1>5. CASE NoSubExpression
  BY <1>5, <1>g, <1>n, StackSteps DEF Doing, Assigning, Sets
<1>6. CASE Check
  BY <1>6, <1>g, <1>r, <1>n, StackSteps DEF Doing
<1>7. CASE Callee
  BY <1>7, <1>g, <1>r, <1>n, StackSteps DEF Doing, Sets
<1>8. CASE Return
  <2>1. Op[1] = "return" /\ ReturnValue(Reg(2)) /\ Running
    BY <1>8 DEF Return, Doing
  <2>2. Reg(2) \in ValueType
    BY <2>1, OperandsTyped
  <2> QED
    BY <1>8, <1>r, <2>1, <2>2
<1>9. CASE Lookup
  BY <1>9, <1>g, StackSteps DEF Doing, Assigning, Sets
<1>10. CASE Inst \/ CreatePHI
  <2>1. /\ Running /\ Op[1] \in Assigning
        /\ Moves(Len(stack), [Top.regs EXCEPT ![Op[2]] = Value(fn, insert)], Top.bbs, Top.old)
    BY <1>10, StackSteps DEF Doing, Assigning
  <2>2. Value(fn, insert) # Null
    BY <1>b, <1>v
  <2> QED
    BY <1>g, <2>1, <2>2
<1>11. CASE CreateEntryBlockAlloca
  <2>1. /\ Running /\ Op[1] \in Assigning
        /\ Moves(Len(stack), [Top.regs EXCEPT ![Op[2]] = EntryAlloca], Top.bbs, Top.old)
    BY <1>11, StackSteps DEF Doing, Assigning
  <2>2. EntryAlloca # Null
    BY <1>b, <1>v DEF EntryAlloca, Constant, Null, Value
  <2> QED
    BY <1>g, <2>1, <2>2
<1>12. CASE NewBlock \/ GetInsertBlock \/ Bind
  BY <1>12, <1>g, StackSteps DEF Doing, Sets
<1>13. CASE AppendBlock \/ SetInsertPoint \/ CreateBr \/ CreateCondBr \/ AddIncoming \/ Unbind \/ Frames
  <2>1. Op[1] \notin Sets
    BY <1>13 DEF AppendBlock, SetInsertPoint, CreateBr, CreateCondBr, AddIncoming, Unbind, Frames,
       Entry, Clear, BindArgument, PushScope, EmitLocation, Doing, Sets
  <2>2. Running /\ Moves(Len(stack), Top.regs, Top.bbs, Top.old)
    BY <1>13, StackSteps DEF Frames
  <2> QED
    BY <1>g, <2>1, <2>2
<1>14. CASE UNCHANGED vars \/ AssignToNoVariable
  BY <1>1, <1>14 DEF vars, AssignToNoVariable
<1> QED
  BY <1>2, <1>3, <1>4, <1>5, <1>6, <1>7, <1>8, <1>9, <1>10, <1>11, <1>12, <1>13, <1>14
     DEF Next, Calls, Builds

-----------------------------------------------------------------------------
(* The blocks of a frame: those it has made and not begun yet, those that are  *)
(* in no function yet, those its registers still name, those it has branched   *)
(* to; and whether it has ended the block it is in.                            *)
IsPending(f, r) == Pending(Routine(f.kind), f.pc, r)
IsLoose(f, r) == Loose(Routine(f.kind), f.pc, r)
IsHeld(f, r) == Held(Routine(f.kind), f.pc, r)
IsTargeted(f, r) == Targeted(Routine(f.kind), f.pc, r)
HasEnded(f) == Ended(Routine(f.kind), f.pc)

PendingAt(b) == \E k \in 1..Len(stack), r \in BlockRegisters :
    IsPending(stack[k], r) /\ stack[k].bbs[r] = b
LooseAt(b) == \E k \in 1..Len(stack), r \in BlockRegisters :
    IsLoose(stack[k], r) /\ stack[k].bbs[r] = b

Branches == \A b \in Blocks : term[b].to \subseteq Blocks \ {1} /\ term[b] # Ret
HeldBlocks ==
    /\ \A k \in 1..Len(stack), r \in BlockRegisters :
          IsHeld(stack[k], r) => stack[k].bbs[r] \in Blocks \ {1}
    /\ \A k, l \in 1..Len(stack), r, q \in BlockRegisters :
          IsHeld(stack[k], r) /\ IsHeld(stack[l], q) /\ stack[k].bbs[r] = stack[l].bbs[q]
             => k = l /\ r = q
PendingBlocks == \A k \in 1..Len(stack), r \in BlockRegisters :
    IsPending(stack[k], r) =>
        /\ IsHeld(stack[k], r)
        /\ stack[k].bbs[r] # insert
        /\ term[stack[k].bbs[r]] = Open
        /\ IsTargeted(stack[k], r) => \E b \in Blocks : stack[k].bbs[r] \in Successors(b)
InsertBlock == HasEnded(Top) <=> term[insert] # Open
Covered ==
    /\ \A b \in Blocks : term[b] = Open => b = insert \/ PendingAt(b)
    /\ \A b \in detached : LooseAt(b)
    /\ \A S \in SUBSET Blocks : 1 \in S /\ Closed(S, {}) => \A b \in Blocks : b \in S \/ PendingAt(b)
Concluded ==
    /\ detached = {}
    /\ \A b \in Blocks : term[b] # Open
    /\ \A S \in SUBSET Blocks : 1 \in S /\ Closed(S, {}) => S = Blocks
    /\ \E b \in Blocks : \A c \in Blocks : term[c] = Ret <=> c = b
    /\ Predecessors(1) = {}

Building == state = "generating" /\ Entered(stack[1])
BlockInv ==
    /\ term # <<>> => insert \in Blocks
    /\ Building => /\ term # <<>>
                   /\ Branches /\ HeldBlocks /\ PendingBlocks /\ InsertBlock
                   /\ ~Doomed => Covered
    /\ Finished => Concluded

(* What a routine has done with its blocks, when it goes on.                   *)
LEMMA ShapeHistory ==
  ASSUME NEW s, NEW pc \in Nat \ {0}, NEW r
  PROVE  /\ Creates(s, pc + 1, r) <=> Creates(s, pc, r) \/ s[pc] = <<"new", r>> \/ s[pc] = <<"detached", r>>
         /\ Targeted(s, pc + 1, r) <=> \/ Targeted(s, pc, r) \/ s[pc] = <<"br", r>>
                                       \/ s[pc][1] = "condbr" /\ r \in {s[pc][3], s[pc][4]}
         /\ Ended(s, pc + 1) <=> s[pc][1] \in {"br", "condbr"} \/ (Ended(s, pc) /\ s[pc][1] # "at")
<1>1. 1..(pc + 1 - 1) = 1..(pc - 1) \cup {pc}
  OBVIOUS
<1>2. Creates(s, pc + 1, r) <=> Creates(s, pc, r) \/ s[pc] = <<"new", r>> \/ s[pc] = <<"detached", r>>
  BY HistoryMoves DEF Creates
<1>3. Targeted(s, pc + 1, r) <=> \/ Targeted(s, pc, r) \/ s[pc] = <<"br", r>>
                                 \/ s[pc][1] = "condbr" /\ r \in {s[pc][3], s[pc][4]}
  BY <1>1 DEF Targeted
<1>4. Ended(s, pc + 1) => s[pc][1] \in {"br", "condbr"} \/ (Ended(s, pc) /\ s[pc][1] # "at")
  <2> SUFFICES ASSUME Ended(s, pc + 1), s[pc][1] \notin {"br", "condbr"}
               PROVE  Ended(s, pc) /\ s[pc][1] # "at"
    OBVIOUS
  <2>1. PICK j \in 1..(pc + 1 - 1) : /\ s[j][1] \in {"br", "condbr"}
                                     /\ \A i \in (j + 1)..(pc + 1 - 1) : s[i][1] # "at"
    BY DEF Ended
  <2>2. j \in 1..(pc - 1)
    BY <1>1, <2>1
  <2>3. pc \in (j + 1)..(pc + 1 - 1) /\ \A i \in (j + 1)..(pc - 1) : i \in (j + 1)..(pc + 1 - 1)
    BY <2>2
  <2> QED
    BY <2>1, <2>2, <2>3 DEF Ended
<1>5. s[pc][1] \in {"br", "condbr"} => Ended(s, pc + 1)
  <2>1. pc \in 1..(pc + 1 - 1) /\ (pc + 1)..(pc + 1 - 1) = {}
    OBVIOUS
  <2> QED
    BY <2>1 DEF Ended
<1>6. Ended(s, pc) /\ s[pc][1] # "at" => Ended(s, pc + 1)
  <2> SUFFICES ASSUME Ended(s, pc), s[pc][1] # "at" PROVE Ended(s, pc + 1)
    OBVIOUS
  <2>1. PICK j \in 1..(pc - 1) : /\ s[j][1] \in {"br", "condbr"}
                                 /\ \A i \in (j + 1)..(pc - 1) : s[i][1] # "at"
    BY DEF Ended
  <2>2. j \in 1..(pc + 1 - 1) /\ \A i \in (j + 1)..(pc + 1 - 1) : i = pc \/ i \in (j + 1)..(pc - 1)
    OBVIOUS
  <2> QED
    BY <2>1, <2>2 DEF Ended
<1> QED
  BY <1>2, <1>3, <1>4, <1>5, <1>6

(* Other operations do nothing to the blocks of a routine.                   *)
LEMMA ShapeUnchanged ==
  ASSUME NEW s, NEW pc \in Nat \ {0}, s[pc][1] \notin Shaping
  PROVE  /\ \A r : /\ Pending(s, pc + 1, r) <=> Pending(s, pc, r)
                   /\ Loose(s, pc + 1, r) <=> Loose(s, pc, r)
                   /\ Held(s, pc + 1, r) <=> Held(s, pc, r)
                   /\ Targeted(s, pc + 1, r) <=> Targeted(s, pc, r)
         /\ Ended(s, pc + 1) <=> Ended(s, pc)
<1>1. \A r : \A o \in Shaping : s[pc] # <<o, r>>
  OBVIOUS
<1>2. \A r : \A o \in Shaping : Before(s, pc + 1, <<o, r>>) <=> Before(s, pc, <<o, r>>)
  BY <1>1, HistoryMoves
<1>3. s[pc][1] \notin {"br", "condbr", "at"}
  BY DEF Shaping
<1>4. \A r : /\ Before(s, pc + 1, <<"new", r>>) <=> Before(s, pc, <<"new", r>>)
             /\ Before(s, pc + 1, <<"detached", r>>) <=> Before(s, pc, <<"detached", r>>)
             /\ Before(s, pc + 1, <<"append", r>>) <=> Before(s, pc, <<"append", r>>)
             /\ Before(s, pc + 1, <<"here", r>>) <=> Before(s, pc, <<"here", r>>)
             /\ Before(s, pc + 1, <<"at", r>>) <=> Before(s, pc, <<"at", r>>)
  BY <1>2 DEF Shaping
<1>5. \A r : Targeted(s, pc + 1, r) <=> Targeted(s, pc, r)
  BY <1>3, ShapeHistory
<1>6. Ended(s, pc + 1) <=> Ended(s, pc)
  BY <1>3, ShapeHistory
<1> QED
  BY <1>4, <1>5, <1>6 DEF Pending, Loose, Held, Creates

(* A routine that begins has no blocks.                                      *)
LEMMA NothingBefore ==
  ASSUME NEW s, NEW r
  PROVE  /\ ~Pending(s, 1, r) /\ ~Loose(s, 1, r) /\ ~Held(s, 1, r) /\ ~Targeted(s, 1, r)
         /\ ~Ended(s, 1)
<1>1. 1..(1 - 1) = {}
  OBVIOUS
<1> QED
  BY <1>1 DEF Pending, Loose, Held, Targeted, Ended, Creates, Before

(* A frame that keeps its blocks; one that has none; one that owes none.       *)
Same(k) ==
    /\ stack'[k].bbs = stack[k].bbs
    /\ \A r \in BlockRegisters : /\ IsPending(stack[k], r)' <=> IsPending(stack[k], r)
                                 /\ IsLoose(stack[k], r)' <=> IsLoose(stack[k], r)
                                 /\ IsHeld(stack[k], r)' <=> IsHeld(stack[k], r)
                                 /\ IsTargeted(stack[k], r)' <=> IsTargeted(stack[k], r)
NoBlocks(f) == \A r \in BlockRegisters : ~IsPending(f, r) /\ ~IsLoose(f, r) /\ ~IsHeld(f, r)
OwesNone(f) == \A r \in BlockRegisters : ~IsPending(f, r) /\ ~IsLoose(f, r)

(* A step that leaves the function alone, and the frames with the blocks     *)
(* they owe.                                                                 *)
LEMMA BlocksStay ==
  ASSUME BlockInv, state = "generating", state' = "generating", Len(stack) \in Nat, Len(stack') \in Nat,
         UNCHANGED <<term, insert, detached>>,
         Entered(stack[1])' => Entered(stack[1]),
         \A k \in 1..Len(stack') : \/ k \in 1..Len(stack) /\ Same(k)
                                   \/ NoBlocks(stack[k])',
         HasEnded(Top)' <=> HasEnded(Top),
         Doomed => Doomed',
         ~Doomed' => \A k \in 1..Len(stack) : \/ k \in 1..Len(stack') /\ Same(k)
                                              \/ OwesNone(stack[k])
  PROVE  BlockInv'
<1>1. Blocks' = Blocks /\ \A b : Successors(b)' = Successors(b)
  BY DEF Blocks, Successors
<1>2. CASE ~Building'
  BY <1>1, <1>2 DEF BlockInv, Finished
<1>3. CASE Building'
  <2>1. Building
    BY <1>3 DEF Building
  <2>2. term # <<>> /\ insert \in Blocks /\ Branches /\ HeldBlocks /\ PendingBlocks /\ InsertBlock /\ (~Doomed => Covered)
    BY <2>1 DEF BlockInv
  <2>3. Branches'
    BY <1>1, <2>2 DEF Branches
  <2>4. \A k \in 1..Len(stack'), r \in BlockRegisters :
            /\ IsHeld(stack[k], r)' => k \in 1..Len(stack) /\ IsHeld(stack[k], r) /\ stack'[k].bbs = stack[k].bbs
            /\ IsPending(stack[k], r)' => k \in 1..Len(stack) /\ IsPending(stack[k], r) /\ Same(k)
    BY DEF Same, NoBlocks
  <2>5. HeldBlocks'
    BY SMTT(30), <1>1, <2>2, <2>4 DEF HeldBlocks
  <2>6. PendingBlocks'
    BY <1>1, <2>2, <2>4 DEF PendingBlocks, Same
  <2>7. InsertBlock'
    BY <2>2 DEF InsertBlock
  <2>8. ASSUME ~Doomed' PROVE Covered'
    <3>1. Covered
      BY <2>2, <2>8
    <3>2. ASSUME NEW b, PendingAt(b) PROVE PendingAt(b)'
      <4>1. PICK k \in 1..Len(stack), r \in BlockRegisters : IsPending(stack[k], r) /\ stack[k].bbs[r] = b
        BY <3>2 DEF PendingAt
      <4>2. k \in 1..Len(stack') /\ Same(k)
        BY <2>8, <4>1 DEF OwesNone
      <4> QED
        BY <4>1, <4>2 DEF Same, PendingAt
    <3>3. ASSUME NEW b, LooseAt(b) PROVE LooseAt(b)'
      <4>1. PICK k \in 1..Len(stack), r \in BlockRegisters : IsLoose(stack[k], r) /\ stack[k].bbs[r] = b
        BY <3>3 DEF LooseAt
      <4>2. k \in 1..Len(stack') /\ Same(k)
        BY <2>8, <4>1 DEF OwesNone
      <4> QED
        BY <4>1, <4>2 DEF Same, LooseAt
    <3>4. \A b \in Blocks' : term'[b] = Open => b = insert' \/ PendingAt(b)'
      BY <1>1, <3>1, <3>2 DEF Covered
    <3>5. \A b \in detached' : LooseAt(b)'
      BY <3>1, <3>3 DEF Covered
    <3>6. \A S \in SUBSET Blocks' : 1 \in S /\ Closed(S, {})' => \A b \in Blocks' : b \in S \/ PendingAt(b)'
      <4>1. \A S : Closed(S, {})' <=> Closed(S, {})
        BY <1>1 DEF Closed
      <4> QED
        BY <1>1, <3>1, <3>2, <4>1 DEF Covered
    <3> QED
      BY <3>4, <3>5, <3>6 DEF Covered
  <2>9. ~Finished'
    BY DEF Finished
  <2> QED
    BY <1>1, <2>2, <2>3, <2>5, <2>6, <2>7, <2>8, <2>9 DEF BlockInv
<1> QED
  BY <1>2, <1>3

(* A frame that goes on by another operation keeps its blocks.               *)
LEMMA MovesSame ==
  ASSUME TypeInv, StackInv, NEW n \in 1..Len(stack), NEW regs, NEW old,
         Moves(n, regs, stack[n].bbs, old), Does(stack[n])[1] \notin Shaping
  PROVE  /\ Len(stack') = n /\ \A k \in 1..n : k \in 1..Len(stack) /\ Same(k)
         /\ HasEnded(Top)' <=> HasEnded(stack[n])
<1>1. Len(stack) \in Nat /\ Len(stack') = n /\ version' = version
  BY LenProperties DEF TypeInv, Moves
<1>2. \A k \in 1..n : k \in 1..Len(stack) /\ (k = n \/ k \in 1..(n - 1))
  BY <1>1
<1>3. ASSUME NEW k \in 1..(n - 1) PROVE Same(k)
  <2>1. stack'[k] = stack[k]
    BY <1>3 DEF Moves
  <2> QED
    BY <1>1, <2>1 DEF Same, IsPending, IsLoose, IsHeld, IsTargeted, Routine
<1> DEFINE s == Routine(stack[n].kind)
           pc == stack[n].pc
<1>4. stack'[n].bbs = stack[n].bbs /\ stack'[n].pc = pc + 1 /\ Routine(stack[n].kind)' = s
  BY <1>1 DEF Moves, Moved, Routine
<1>5. pc \in Nat \ {0} /\ s[pc][1] \notin Shaping
  BY FrameScript
<1>6. /\ \A r : /\ Pending(s, pc + 1, r) <=> Pending(s, pc, r)
                /\ Loose(s, pc + 1, r) <=> Loose(s, pc, r)
                /\ Held(s, pc + 1, r) <=> Held(s, pc, r)
                /\ Targeted(s, pc + 1, r) <=> Targeted(s, pc, r)
      /\ Ended(s, pc + 1) <=> Ended(s, pc)
  BY <1>5, ShapeUnchanged
<1> HIDE DEF s, pc
<1>7. Same(n)
  BY <1>4, <1>6 DEF Same, IsPending, IsLoose, IsHeld, IsTargeted, s, pc
<1>8. HasEnded(stack[n])' <=> HasEnded(stack[n])
  BY <1>4, <1>6 DEF HasEnded, s, pc
<1>9. HasEnded(Top)' <=> HasEnded(stack[n])'
  BY <1>1 DEF Top
<1> QED
  BY <1>1, <1>2, <1>3, <1>7, <1>8, <1>9

(* The innermost routine, and the operation it is at.                        *)
LEMMA TopScript ==
  ASSUME TypeInv, StackInv, Running
  PROVE  LET s == Routine(Top.kind) IN
         /\ Len(stack) \in 1..Len(stack) /\ Len(stack) \in Nat \ {0} /\ state = "generating"
         /\ Top = stack[Len(stack)]
         /\ Op = s[Top.pc] /\ Op = Does(stack[Len(stack)])
         /\ Top.pc \in DOMAIN s /\ Top.pc \in Nat \ {0}
         /\ Shaped(s) /\ Splits(s) /\ Typed(Op)
         /\ Op[1] \in OneBlock => Op = <<Op[1], Op[2]>> /\ Op[2] \in BlockRegisters
         /\ Top.bbs \in BBsType
         /\ Op[1] \notin {"at", "here", "append"} => ~HasEnded(Top)
<1>1. /\ Len(stack) \in 1..Len(stack) /\ Len(stack) \in Nat /\ state = "generating"
      /\ Op = Does(Top) /\ Typed(Op)
  BY TopFacts
<1>2. /\ Shaped(Routine(Top.kind)) /\ Splits(Routine(Top.kind))
      /\ Top.pc \in DOMAIN Routine(Top.kind) /\ Top.pc \in Nat \ {0} /\ Top.bbs \in BBsType
  BY <1>1, FrameScript DEF Top
<1>3. Op[1] \in OneBlock => Op = <<Op[1], Op[2]>> /\ Op[2] \in BlockRegisters
  BY <1>1 DEF Typed, Bare, OneValue, OneBlock
<1>4. Op[1] \notin {"at", "here", "append"} => ~HasEnded(Top)
  BY <1>1, <1>2 DEF Splits, HasEnded, Does
<1> QED
  BY <1>1, <1>2, <1>3, <1>4 DEF Top, Does

(* The steps that leave the blocks alone.                                      *)
LEMMA QuietSteps ==
  ASSUME TypeInv, StackInv, CheckedInv, BlockInv, [Next]_vars, state = "generating", state' = "generating",
         Running, Op[1] \notin Shaping \cup {"entry"}, NEW ops, Bottom(ops), "entry" \notin ops,
         UNCHANGED <<term, insert, detached>>,
         \/ \E regs, old : Moves(Len(stack), regs, Top.bbs, old)
         \/ \E v \in ValueType : Op[1] \in {"check", "callee", "return"} /\ ReturnValue(v)
         \/ Generate
  PROVE  BlockInv'
<1>1. CheckedInv' /\ (Doomed => Doomed') /\ (Len(stack') < Len(stack) /\ ~Doomed' => Return)
  BY CheckedKept
<1>2. Entered(stack[1])' => Entered(stack[1])
  BY BottomReady
<1>3. /\ Len(stack) \in 1..Len(stack) /\ Len(stack) \in Nat \ {0}
      /\ Op = Does(stack[Len(stack)]) /\ Top = stack[Len(stack)]
      /\ ~HasEnded(Top)
  BY TopScript DEF Shaping
<1>4. Len(stack') \in Nat
  BY TypesKept, LenProperties DEF TypeInv
<1>5. CASE \E regs, old : Moves(Len(stack), regs, Top.bbs, old)
  <2>1. /\ Len(stack') = Len(stack) /\ \A k \in 1..Len(stack) : Same(k)
        /\ HasEnded(Top)' <=> HasEnded(Top)
    BY <1>3, <1>5, MovesSame
  <2> QED
    BY <1>1, <1>2, <1>3, <1>4, <2>1, BlocksStay
<1>6. CASE \E v \in ValueType : Op[1] \in {"check", "callee", "return"} /\ ReturnValue(v)
  <2>1. PICK v \in ValueType : Op[1] \in {"check", "callee", "return"} /\ ReturnValue(v)
    BY <1>6
  <2>2. /\ Len(stack) - 1 \in 1..Len(stack) /\ Does(Caller)[1] \in Gens
        /\ Moves(Len(stack) - 1, [Caller.regs EXCEPT ![Does(Caller)[2]] = v], Caller.bbs, Caller.old)
    BY <2>1, ReturnMoves
  <2>3. /\ Len(stack') = Len(stack) - 1 /\ \A k \in 1..(Len(stack) - 1) : k \in 1..Len(stack) /\ Same(k)
        /\ HasEnded(Top)' <=> HasEnded(Caller)
    BY <2>2, MovesSame DEF Caller, Gens, Shaping
  <2>4. ~HasEnded(Caller)
    <3>1. Splits(Routine(Caller.kind)) /\ Caller.pc \in DOMAIN Routine(Caller.kind) /\ Does(Caller) = Routine(Caller.kind)[Caller.pc]
      BY <2>2, FrameScript DEF Caller
    <3> QED
      BY <2>2, <3>1 DEF Splits, HasEnded, Gens
  <2>5. ASSUME ~Doomed' PROVE OwesNone(stack[Len(stack)])
    <3>1. Op[1] = "return"
      BY <1>1, <1>3, <2>3, <2>5 DEF Return, Doing
    <3>2. LeavesAt(Routine(Top.kind), Top.pc)
      BY <3>1, TopScript DEF Splits
    <3> QED
      BY <1>3, <3>2 DEF LeavesAt, OwesNone, IsPending, IsLoose
  <2>6. \A k \in 1..Len(stack) : k \in 1..(Len(stack) - 1) \/ k = Len(stack)
    BY <1>3
  <2> QED
    BY <1>1, <1>2, <1>3, <1>4, <2>3, <2>4, <2>5, <2>6, BlocksStay
<1>7. CASE Generate
  <2>1. PICK kind \in Kinds \ {"Function"}, name \in Names : Pushes(kind, name)
    BY <1>7, GeneratePushes
  <2>2. ASSUME NEW k \in 1..Len(stack) PROVE Same(k)
    <3>1. stack'[k] = stack[k] /\ version' = version
      BY <2>1 DEF Pushes
    <3> QED
      BY <3>1 DEF Same, IsPending, IsLoose, IsHeld, IsTargeted, Routine
  <2>3. ASSUME NEW k, k = Len(stack) + 1 PROVE NoBlocks(stack[k])' /\ ~HasEnded(stack[k])'
    <3>1. stack'[k].pc = 1
      BY <2>1, <2>3 DEF Pushes, Frame
    <3> QED
      BY <3>1, NothingBefore DEF NoBlocks, IsPending, IsLoose, IsHeld, HasEnded
  <2>4. Len(stack') = Len(stack) + 1 /\ \A k \in 1..(Len(stack) + 1) : k \in 1..Len(stack) \/ k = Len(stack) + 1
    BY <1>3, <2>1 DEF Pushes
  <2>5. ~HasEnded(Top)'
    BY <2>3, <2>4 DEF Top
  <2>6. \A k \in 1..Len(stack) : k \in 1..(Len(stack) + 1)
    BY <1>3
  <2> QED
    BY <1>1, <1>2, <1>3, <1>4, <2>2, <2>3, <2>4, <2>5, <2>6, BlocksStay
<1> QED
  BY <1>5, <1>6, <1>7

-----------------------------------------------------------------------------
(* A function begins with one block, which is its own.                         *)
LEMMA PrologueHistory ==
  ASSUME NEW s, Prologue(s), Shaped(s), NEW pc \in DOMAIN s
  PROVE  /\ \A r : ~Pending(s, pc, r) /\ ~Loose(s, pc, r) /\ ~Held(s, pc, r)
         /\ ~Ended(s, pc)
<1>1. \A j \in 1..(pc - 1) : j \in DOMAIN s
  BY DEF Shaped
<1>2. \A j \in 1..(pc - 1) : s[j][1] \notin {"new", "detached", "br", "condbr"}
  BY <1>1 DEF Prologue, FunctionOps
<1>3. \A r : ~Before(s, pc, <<"new", r>>) /\ ~Before(s, pc, <<"detached", r>>)
  BY <1>2 DEF Before
<1>4. ~Ended(s, pc)
  BY <1>2 DEF Ended
<1> QED
  BY <1>3, <1>4 DEF Pending, Loose, Held, Creates

(* FunctionAST::codegen has no blocks but the entry.                         *)
LEMMA NoBlocksInFunctions ==
  ASSUME TypeInv, StackInv, NEW k \in 1..Len(stack), stack[k].kind = "Function"
  PROVE  /\ NoBlocks(stack[k]) /\ ~HasEnded(stack[k])
         /\ Prologue(Routine("Function")) /\ Shaped(Routine("Function"))
<1>1. /\ Prologue(Routine("Function")) /\ Shaped(Routine("Function"))
      /\ stack[k].pc \in DOMAIN Routine("Function")
  BY FrameScript
<1> QED
  BY <1>1, PrologueHistory DEF NoBlocks, IsPending, IsLoose, IsHeld, HasEnded

(* The entry block is the only one of a function that begins.                *)
LEMMA EntryBlock ==
  ASSUME TypeInv, StackInv, Entry
  PROVE  BlockInv'
<1>1. Running /\ Op[1] = "entry" /\ term' = <<Open>> /\ detached' = {} /\ insert' = 1
  BY DEF Entry, Doing
<1>2. Len(stack) = 1 /\ state = "generating"
  BY <1>1, ReadyToBuild
<1>3. /\ TypeInv' /\ StackInv' /\ Moves(Len(stack), Top.regs, Top.bbs, Top.old)
  <2>1. [Next]_vars
    BY DEF Next, Frames
  <2> QED
    BY <2>1, TypesKept, StackSteps
<1>4. Len(stack') = 1 /\ state' = "generating"
  BY <1>2, <1>3 DEF Moves
<1>5. stack'[1].kind = "Function" /\ stack'[1].pc \in DOMAIN Routine("Function")
      /\ Routine("Function")' = Routine("Function")
  <2>1. Fits(1)'
    BY <1>3, <1>4 DEF StackInv
  <2> QED
    BY <1>3, <2>1 DEF Fits, Moves, Routine
<1>6. NoBlocks(stack[1])' /\ ~HasEnded(stack[1])'
  <2>1. stack[1].kind = "Function" /\ 1 \in 1..Len(stack)
    BY <1>1, <1>2, ReadyToBuild
  <2>2. Prologue(Routine("Function")) /\ Shaped(Routine("Function"))
    BY <2>1, NoBlocksInFunctions
  <2> QED
    BY <1>5, <2>2, PrologueHistory DEF NoBlocks, IsPending, IsLoose, IsHeld, HasEnded
<1>7. Blocks' = {1} /\ term'[1] = Open /\ Open # Ret /\ Open.to = {} /\ term' # <<>>
  <2>1. Open # Ret /\ Open.to = {}
    BY DEF Open, Ret
  <2>2. \A o : Len(<<o>>) = 1 /\ <<o>>[1] = o /\ <<o>> # <<>>
    OBVIOUS
  <2>3. 1..1 = {1}
    OBVIOUS
  <2> QED
    BY <1>1, <2>1, <2>2, <2>3 DEF Blocks
<1>8. ~HasEnded(Top)'
  BY <1>4, <1>6 DEF Top
<1>9. Branches'
  BY <1>7 DEF Branches
<1>10. HeldBlocks' /\ PendingBlocks'
  BY <1>4, <1>6 DEF HeldBlocks, PendingBlocks, NoBlocks
<1>11. InsertBlock'
  BY <1>1, <1>7, <1>8 DEF InsertBlock
<1>12. Covered'
  BY <1>1, <1>7 DEF Covered
<1> QED
  BY <1>1, <1>4, <1>7, <1>9, <1>10, <1>11, <1>12 DEF BlockInv, Finished

(* A function that is kept has had all its blocks begun and ended.             *)
LEMMA FunctionConcluded ==
  ASSUME TypeInv, StackInv, CheckedInv, BlockInv, FinishFunction
  PROVE  BlockInv'
<1>1. /\ Running /\ Op[1] = "ret" /\ stack' = <<>> /\ UNCHANGED <<detached, insert>>
      /\ IF Reg(2) # Null THEN term' = [term EXCEPT ![insert] = Ret] /\ state' = "finished"
                          ELSE state' = "erased" /\ term' = term
  BY DEF FinishFunction, Doing
<1>2. Ready(stack[1]) /\ Len(stack) = 1 /\ state = "generating"
  BY <1>1, ReadyToBuild, OpsOfRoutines DEF Quiet, FunctionOps
<1>3. Building
  BY <1>2 DEF Building, Ready
<1>4. term # <<>> /\ insert \in Blocks /\ Branches /\ HeldBlocks /\ PendingBlocks /\ InsertBlock /\ (~Doomed => Covered)
  BY <1>3 DEF BlockInv
<1>5. 1 \in 1..Len(stack) /\ Top = stack[1] /\ stack[1].kind = "Function"
  BY <1>1, <1>2, ReadyToBuild DEF Top
<1>6. NoBlocks(stack[1]) /\ ~HasEnded(stack[1])
  BY <1>5, NoBlocksInFunctions
<1>7. CASE Reg(2) = Null
  BY <1>1, <1>4, <1>7 DEF BlockInv, Building, Finished, Blocks
<1>8. CASE Reg(2) # Null
  <2>1. ~Doomed
    <3>1. /\ Prologue(Routine(Top.kind)) /\ Top.pc \in DOMAIN Routine(Top.kind) /\ Op = Routine(Top.kind)[Top.pc]
      BY <1>1, <1>5, FrameScript, TopFacts
    <3>2. \A j \in 1..(Top.pc - 1) : Routine(Top.kind)[j][1] \in Gens => Routine(Top.kind)[j][2] = Op[2]
      BY <1>1, <3>1 DEF Prologue
    <3>3. ~DoomedFrame(Top)
      BY <1>8, <3>2 DEF DoomedFrame, DoomedAt, Reg
    <3> QED
      BY <1>2, <1>5, <3>3 DEF Doomed
  <2>2. \A b : ~PendingAt(b) /\ ~LooseAt(b)
    BY <1>2, <1>6 DEF PendingAt, LooseAt, NoBlocks
  <2>3. /\ \A b \in Blocks : term[b] = Open => b = insert
        /\ detached = {}
        /\ \A S \in SUBSET Blocks : 1 \in S /\ Closed(S, {}) => Blocks \subseteq S
    BY <1>4, <2>1, <2>2 DEF Covered
  <2>4. Blocks' = Blocks /\ \A b \in Blocks : term'[b] = IF b = insert THEN Ret ELSE term[b]
    <3>1. Ret \in Terminators /\ insert \in Nat /\ term \in Seq(Terminators)
      BY DEF TypeInv, Ret, Terminators
    <3> QED
      BY <1>1, <1>8, <3>1, TerminatorSet DEF Blocks
  <2>5. term[insert] = Open
    BY <1>4, <1>5, <1>6 DEF InsertBlock
  <2>6. Open.to = {} /\ Ret.to = {} /\ Ret # Open
    BY DEF Open, Ret
  <2>7. \A b \in Blocks : Successors(b)' = Successors(b)
    BY <1>4, <2>4, <2>5, <2>6 DEF Successors
  <2>8. \A b \in Blocks' : term'[b] # Open
    BY <2>3, <2>4, <2>6
  <2>9. \A S \in SUBSET Blocks' : 1 \in S /\ Closed(S, {})' => S = Blocks'
    <3>1. \A S \in SUBSET Blocks : Closed(S, {})' => Closed(S, {})
      BY <2>7 DEF Closed
    <3> QED
      BY <2>3, <2>4, <3>1
  <2>10. \A c \in Blocks' : term'[c] = Ret <=> c = insert
    BY <1>4, <2>4 DEF Branches
  <2>11. Predecessors(1)' = {}
    <3>1. ASSUME NEW p \in Blocks PROVE 1 \notin Successors(p)'
      BY <1>4, <2>7 DEF Branches, Successors
    <3> QED
      BY <2>4, <3>1 DEF Predecessors
  <2>12. Concluded'
    BY <1>1, <1>4, <2>3, <2>4, <2>8, <2>9, <2>10, <2>11 DEF Concluded
  <2> QED
    BY <1>1, <1>4, <1>8, <2>4, <2>12 DEF BlockInv, Building
<1> QED
  BY <1>7, <1>8

(* What each operation on blocks does to the history of its routine.           *)
LEMMA OpBefore ==
  ASSUME NEW s, NEW pc \in Nat \ {0}, NEW o, NEW q, s[pc] = <<o, q>>
  PROVE  \A p, r : Before(s, pc + 1, <<p, r>>) <=> Before(s, pc, <<p, r>>) \/ (p = o /\ r = q)
<1>1. \A p, r : s[pc] = <<p, r>> <=> p = o /\ r = q
  OBVIOUS
<1> QED
  BY <1>1, HistoryMoves

(* A block that is made is pending.                                          *)
LEMMA CreatesHistory ==
  ASSUME NEW s, NEW pc \in Nat \ {0}, NEW o \in {"new", "detached"}, NEW q, s[pc] = <<o, q>>, CreatesAt(s, pc)
  PROVE  /\ ~Pending(s, pc, q) /\ ~Held(s, pc, q) /\ ~Loose(s, pc, q) /\ ~Targeted(s, pc, q)
         /\ \A r : /\ Pending(s, pc + 1, r) <=> Pending(s, pc, r) \/ r = q
                   /\ Held(s, pc + 1, r) <=> Held(s, pc, r) \/ r = q
                   /\ Loose(s, pc + 1, r) <=> Loose(s, pc, r) \/ (o = "detached" /\ r = q)
                   /\ Targeted(s, pc + 1, r) <=> Targeted(s, pc, r)
         /\ Ended(s, pc + 1) <=> Ended(s, pc)
<1>1. \A p, r : Before(s, pc + 1, <<p, r>>) <=> Before(s, pc, <<p, r>>) \/ (p = o /\ r = q)
  BY OpBefore
<1>2. /\ ~Creates(s, pc, q)
      /\ ~Before(s, pc, <<"at", q>>) /\ ~Before(s, pc, <<"here", q>>)
      /\ ~Before(s, pc, <<"append", q>>)
      /\ ~Targeted(s, pc, q)
  BY DEF CreatesAt
<1>3. s[pc][1] \notin {"br", "condbr", "at"} /\ \A r : s[pc] # <<"br", r>>
  OBVIOUS
<1>4. /\ \A r : Targeted(s, pc + 1, r) <=> Targeted(s, pc, r)
      /\ Ended(s, pc + 1) <=> Ended(s, pc)
  BY <1>3, ShapeHistory
<1>5. \A r : Pending(s, pc + 1, r) <=> Pending(s, pc, r) \/ r = q
  BY <1>1, <1>2 DEF Pending, Creates
<1>6. \A r : Held(s, pc + 1, r) <=> Held(s, pc, r) \/ r = q
  BY <1>1, <1>2 DEF Held, Creates
<1>7. \A r : Loose(s, pc + 1, r) <=> Loose(s, pc, r) \/ (o = "detached" /\ r = q)
  BY <1>1, <1>2 DEF Loose, Creates
<1>8. ~Pending(s, pc, q) /\ ~Held(s, pc, q) /\ ~Loose(s, pc, q) /\ ~Targeted(s, pc, q)
  BY <1>2 DEF Pending, Held, Loose, Creates
<1> QED
  BY <1>4, <1>5, <1>6, <1>7, <1>8

(* A block that is put into the function, named, begun or branched to.       *)
LEMMA MovesHistory ==
  ASSUME NEW s, NEW pc \in Nat \ {0}, NEW o \in {"append", "here", "at", "br"}, NEW q, s[pc] = <<o, q>>
  PROVE  /\ \A r : /\ Pending(s, pc + 1, r) <=> Pending(s, pc, r) /\ (o = "at" => r # q)
                   /\ Held(s, pc + 1, r) <=> Held(s, pc, r) /\ (o = "here" => r # q)
                   /\ Loose(s, pc + 1, r) <=> Loose(s, pc, r) /\ (o = "append" => r # q)
                   /\ Targeted(s, pc + 1, r) <=> Targeted(s, pc, r) \/ (o = "br" /\ r = q)
         /\ Ended(s, pc + 1) <=> (o = "br") \/ (o # "at" /\ Ended(s, pc))
<1>1. \A p, r : Before(s, pc + 1, <<p, r>>) <=> Before(s, pc, <<p, r>>) \/ (p = o /\ r = q)
  <2>1. \A p, r : s[pc] = <<p, r>> <=> p = o /\ r = q
    OBVIOUS
  <2> QED
    BY <2>1, HistoryMoves
<1>2. s[pc][1] = o /\ \A r : s[pc] = <<"br", r>> <=> o = "br" /\ r = q
  OBVIOUS
<1>3. \A r : Targeted(s, pc + 1, r) <=> Targeted(s, pc, r) \/ (o = "br" /\ r = q)
  BY <1>2, ShapeHistory
<1>4. Ended(s, pc + 1) <=> (o = "br") \/ (o # "at" /\ Ended(s, pc))
  BY <1>2, ShapeHistory
<1>5. \A r : Pending(s, pc + 1, r) <=> Pending(s, pc, r) /\ (o = "at" => r # q)
  BY <1>1 DEF Pending, Creates
<1>6. \A r : Held(s, pc + 1, r) <=> Held(s, pc, r) /\ (o = "here" => r # q)
  BY <1>1 DEF Held, Creates
<1>7. \A r : Loose(s, pc + 1, r) <=> Loose(s, pc, r) /\ (o = "append" => r # q)
  BY <1>1 DEF Loose
<1> QED
  BY <1>3, <1>4, <1>5, <1>6, <1>7

(* Two blocks that are branched to.                                          *)
LEMMA CondBrHistory ==
  ASSUME NEW s, NEW pc \in Nat \ {0}, s[pc][1] = "condbr"
  PROVE  /\ \A r : /\ Pending(s, pc + 1, r) <=> Pending(s, pc, r)
                   /\ Held(s, pc + 1, r) <=> Held(s, pc, r)
                   /\ Loose(s, pc + 1, r) <=> Loose(s, pc, r)
                   /\ Targeted(s, pc + 1, r) <=> Targeted(s, pc, r) \/ r \in {s[pc][3], s[pc][4]}
         /\ Ended(s, pc + 1)
<1>1. \A r : \A o \in Shaping \ {"condbr"} : s[pc] # <<o, r>>
  OBVIOUS
<1>2. \A r : \A o \in Shaping \ {"condbr"} : Before(s, pc + 1, <<o, r>>) <=> Before(s, pc, <<o, r>>)
  BY <1>1, HistoryMoves
<1>3. \A r : /\ Before(s, pc + 1, <<"new", r>>) <=> Before(s, pc, <<"new", r>>)
             /\ Before(s, pc + 1, <<"detached", r>>) <=> Before(s, pc, <<"detached", r>>)
             /\ Before(s, pc + 1, <<"append", r>>) <=> Before(s, pc, <<"append", r>>)
             /\ Before(s, pc + 1, <<"here", r>>) <=> Before(s, pc, <<"here", r>>)
             /\ Before(s, pc + 1, <<"at", r>>) <=> Before(s, pc, <<"at", r>>)
  BY <1>2 DEF Shaping
<1>4. \A r : Targeted(s, pc + 1, r) <=> Targeted(s, pc, r) \/ r \in {s[pc][3], s[pc][4]}
  <2>1. \A r : s[pc] # <<"br", r>>
    OBVIOUS
  <2> QED
    BY <2>1, ShapeHistory
<1>5. Ended(s, pc + 1)
  BY ShapeHistory
<1> QED
  BY <1>3, <1>4, <1>5 DEF Pending, Loose, Held, Creates

(* The frames when the innermost one does an operation on blocks.              *)
Script == Routine(Top.kind)
(* Only the innermost frame changes.                                         *)
LEMMA TopMoves ==
  ASSUME TypeInv, StackInv, Running, NEW regs, NEW bbs, NEW old, Moves(Len(stack), regs, bbs, old)
  PROVE  /\ Len(stack') = Len(stack) /\ Len(stack) \in Nat
         /\ \A k \in 1..Len(stack) : k # Len(stack) => Same(k)
         /\ \A k \in 1..Len(stack) : k = Len(stack) =>
              /\ stack[k] = Top /\ stack'[k].bbs = bbs
              /\ \A r : /\ IsPending(stack[k], r)' <=> Pending(Script, Top.pc + 1, r)
                        /\ IsLoose(stack[k], r)' <=> Loose(Script, Top.pc + 1, r)
                        /\ IsHeld(stack[k], r)' <=> Held(Script, Top.pc + 1, r)
                        /\ IsTargeted(stack[k], r)' <=> Targeted(Script, Top.pc + 1, r)
                        /\ IsPending(stack[k], r) <=> Pending(Script, Top.pc, r)
                        /\ IsLoose(stack[k], r) <=> Loose(Script, Top.pc, r)
                        /\ IsHeld(stack[k], r) <=> Held(Script, Top.pc, r)
                        /\ IsTargeted(stack[k], r) <=> Targeted(Script, Top.pc, r)
         /\ HasEnded(Top)' <=> Ended(Script, Top.pc + 1)
         /\ HasEnded(Top) <=> Ended(Script, Top.pc)
<1>1. Len(stack) \in Nat /\ Len(stack') = Len(stack) /\ version' = version
  BY LenProperties DEF TypeInv, Moves
<1>2. ASSUME NEW k \in 1..Len(stack), k # Len(stack) PROVE Same(k)
  <2>1. k \in 1..(Len(stack) - 1)
    BY <1>1, <1>2
  <2>2. stack'[k] = stack[k]
    BY <2>1 DEF Moves
  <2> QED
    BY <1>1, <2>2 DEF Same, IsPending, IsLoose, IsHeld, IsTargeted, Routine
<1>3. ASSUME NEW k \in 1..Len(stack), k = Len(stack)
      PROVE  stack[k] = Top /\ stack'[k].bbs = bbs /\ stack'[k].pc = Top.pc + 1
             /\ Routine(stack[k].kind)' = Script
  BY <1>1, <1>3 DEF Moves, Moved, Top, Script, Routine
<1>4. Top'.pc = Top.pc + 1 /\ Routine(Top.kind)' = Script
  BY <1>1 DEF Moves, Moved, Top, Script, Routine
<1>5. /\ HasEnded(Top)' <=> Ended(Script, Top.pc + 1)
      /\ HasEnded(Top) <=> Ended(Script, Top.pc)
  BY <1>4 DEF HasEnded, Script
<1>6. ASSUME NEW k \in 1..Len(stack), k = Len(stack), NEW r
      PROVE  /\ IsPending(stack[k], r)' <=> Pending(Script, Top.pc + 1, r)
             /\ IsLoose(stack[k], r)' <=> Loose(Script, Top.pc + 1, r)
             /\ IsHeld(stack[k], r)' <=> Held(Script, Top.pc + 1, r)
             /\ IsTargeted(stack[k], r)' <=> Targeted(Script, Top.pc + 1, r)
             /\ IsPending(stack[k], r) <=> Pending(Script, Top.pc, r)
             /\ IsLoose(stack[k], r) <=> Loose(Script, Top.pc, r)
             /\ IsHeld(stack[k], r) <=> Held(Script, Top.pc, r)
             /\ IsTargeted(stack[k], r) <=> Targeted(Script, Top.pc, r)
  BY <1>3, <1>6 DEF IsPending, IsLoose, IsHeld, IsTargeted, Script
<1> QED
  BY <1>1, <1>2, <1>3, <1>5, <1>6

(* The invariant, opened for a step that builds.                               *)
LEMMA BuildingFacts ==
  ASSUME TypeInv, StackInv, BlockInv, Running, Op[1] \in Shaping
  PROVE  /\ Building /\ term # <<>> /\ insert \in Blocks /\ Branches /\ HeldBlocks /\ PendingBlocks
         /\ InsertBlock /\ (~Doomed => Covered) /\ Len(term) \in Nat \ {0}
         /\ state = "generating" /\ 1 \in Blocks
<1>1. Ready(stack[1]) /\ state = "generating"
  BY ReadyToBuild DEF Shaping, Quiet
<1>2. Building
  BY <1>1 DEF Building, Ready
<1>3. term # <<>>
  BY <1>2 DEF BlockInv
<1>4. Len(term) \in Nat \ {0}
  BY <1>3, EmptySeq DEF TypeInv
<1>5. 1 \in Blocks
  BY <1>4 DEF Blocks
<1> QED
  BY <1>1, <1>2, <1>4, <1>5 DEF BlockInv

(* BasicBlock::Create: the block is open, and its maker owes it.             *)
LEMMA NewBlockKeeps ==
  ASSUME TypeInv, StackInv, CheckedInv, BlockInv, NewBlock
  PROVE  BlockInv'
<1>0. PICK m, q, b : m = Len(stack) /\ q = Op[2] /\ b = Len(term) + 1
  OBVIOUS
<1>1. /\ Running /\ Op[1] \in {"new", "detached"} /\ UNCHANGED <<fn, insert>>
      /\ term' = Append(term, Open)
      /\ detached' = IF Op[1] = "new" THEN detached ELSE detached \cup {b}
  BY <1>0 DEF NewBlock, Doing
<1>2. Moves(m, Top.regs, [Top.bbs EXCEPT ![q] = b], Top.old)
  BY <1>0, StackSteps
<1>3. /\ Op = <<Op[1], q>> /\ q \in BlockRegisters /\ Top.bbs \in BBsType
      /\ Op = Script[Top.pc] /\ Top.pc \in Nat \ {0} /\ CreatesAt(Script, Top.pc)
      /\ m \in 1..m /\ m \in Nat \ {0}
  BY <1>0, <1>1, TopScript DEF OneBlock, Splits, Script
<1>4. /\ ~Pending(Script, Top.pc, q) /\ ~Held(Script, Top.pc, q) /\ ~Loose(Script, Top.pc, q)
      /\ ~Targeted(Script, Top.pc, q)
      /\ \A r : /\ Pending(Script, Top.pc + 1, r) <=> Pending(Script, Top.pc, r) \/ r = q
                /\ Held(Script, Top.pc + 1, r) <=> Held(Script, Top.pc, r) \/ r = q
                /\ Loose(Script, Top.pc + 1, r) <=> Loose(Script, Top.pc, r) \/ (Op[1] = "detached" /\ r = q)
                /\ Targeted(Script, Top.pc + 1, r) <=> Targeted(Script, Top.pc, r)
      /\ Ended(Script, Top.pc + 1) <=> Ended(Script, Top.pc)
  <2>1. Script[Top.pc] = <<Op[1], q>>
    BY <1>3
  <2> QED
    BY <1>1, <1>3, <2>1, CreatesHistory
<1>5. /\ Building /\ term # <<>> /\ insert \in Blocks /\ Branches /\ HeldBlocks /\ PendingBlocks
      /\ InsertBlock /\ (~Doomed => Covered) /\ Len(term) \in Nat \ {0}
      /\ state = "generating" /\ 1 \in Blocks
  BY <1>1, BuildingFacts DEF Shaping
<1>6. /\ Blocks' = Blocks \cup {b} /\ b \notin Blocks /\ b # 1 /\ b \in Blocks' /\ Len(term') = Len(term) + 1
      /\ \A c \in Blocks : term'[c] = term[c]
      /\ term'[b] = Open /\ Open.to = {} /\ Open # Ret
  <2>1. term \in Seq(Terminators) /\ Open \in Terminators /\ Open.to = {} /\ Open # Ret
    BY DEF TypeInv, Open, Ret, Terminators
  <2>2. /\ Len(term') = Len(term) + 1 /\ \A c \in 1..Len(term) : term'[c] = term[c]
        /\ term'[Len(term) + 1] = Open
    BY <1>1, <2>1, AppendProperties
  <2>3. 1..(Len(term) + 1) = 1..Len(term) \cup {b} /\ b \notin 1..Len(term) /\ b # 1
    BY <1>0, <1>5
  <2> QED
    BY <1>0, <2>1, <2>2, <2>3 DEF Blocks
<1>7. [Top.bbs EXCEPT ![q] = b][q] = b /\ \A r \in BlockRegisters \ {q} : [Top.bbs EXCEPT ![q] = b][r] = Top.bbs[r]
  BY <1>3 DEF BBsType
<1>t. ASSUME NEW k \in 1..m, k = m
      PROVE  /\ stack[k] = Top /\ stack'[k].bbs = [Top.bbs EXCEPT ![q] = b]
             /\ \A r : /\ IsPending(stack[k], r)' <=> Pending(Script, Top.pc + 1, r)
                       /\ IsLoose(stack[k], r)' <=> Loose(Script, Top.pc + 1, r)
                       /\ IsHeld(stack[k], r)' <=> Held(Script, Top.pc + 1, r)
                       /\ IsTargeted(stack[k], r)' <=> Targeted(Script, Top.pc + 1, r)
                       /\ IsPending(stack[k], r) <=> Pending(Script, Top.pc, r)
                       /\ IsLoose(stack[k], r) <=> Loose(Script, Top.pc, r)
                       /\ IsHeld(stack[k], r) <=> Held(Script, Top.pc, r)
                       /\ IsTargeted(stack[k], r) <=> Targeted(Script, Top.pc, r)
  BY <1>0, <1>1, <1>2, <1>t, TopMoves
<1>8. Len(stack') = m /\ Len(stack) = m /\ (HasEnded(Top)' <=> HasEnded(Top))
  BY <1>0, <1>1, <1>2, <1>4, TopMoves
<1>9. ASSUME NEW k \in 1..m, NEW r \in BlockRegisters, ~(k = m /\ r = q)
      PROVE  /\ stack'[k].bbs[r] = stack[k].bbs[r]
             /\ IsPending(stack[k], r)' <=> IsPending(stack[k], r)
             /\ IsLoose(stack[k], r)' <=> IsLoose(stack[k], r)
             /\ IsHeld(stack[k], r)' <=> IsHeld(stack[k], r)
             /\ IsTargeted(stack[k], r)' <=> IsTargeted(stack[k], r)
  <2>1. CASE k # m
    <3>1. Same(k)
      BY <1>0, <1>1, <1>2, <2>1, TopMoves
    <3> QED
      BY <3>1 DEF Same
  <2>2. CASE k = m
    <3>1. stack[k] = Top /\ stack'[k].bbs = [Top.bbs EXCEPT ![q] = b] /\ r # q
      BY <1>9, <1>t, <2>2
    <3> QED
      BY <1>4, <1>7, <1>t, <2>2, <3>1
  <2> QED
    BY <2>1, <2>2
<1>10. ASSUME NEW k \in 1..m, k = m
       PROVE  /\ stack'[k].bbs[q] = b
              /\ IsPending(stack[k], q)' /\ IsHeld(stack[k], q)' /\ ~IsTargeted(stack[k], q)'
              /\ IsLoose(stack[k], q)' <=> Op[1] = "detached"
              /\ ~IsPending(stack[k], q) /\ ~IsHeld(stack[k], q) /\ ~IsLoose(stack[k], q)
  BY <1>4, <1>7, <1>10, <1>t
<1>11. m \in 1..m /\ insert' = insert /\ Len(stack') = m /\ Len(stack) = m
  BY <1>0, <1>1, <1>3, <1>8
<1>12. \A c \in Blocks : Successors(c)' = Successors(c) /\ Successors(c) \subseteq Blocks \ {1}
  BY <1>5, <1>6 DEF Successors, Branches
<1>13. Successors(b)' = {}
  BY <1>6 DEF Successors
<1>14. Branches'
  <2>1. \A c \in Blocks' : term'[c].to \subseteq Blocks' \ {1} /\ term'[c] # Ret
    BY <1>5, <1>6 DEF Branches
  <2> QED
    BY <2>1 DEF Branches
<1>15. HeldBlocks'
  <2>1. ASSUME NEW k \in 1..m, NEW r \in BlockRegisters, IsHeld(stack[k], r)'
        PROVE  /\ stack'[k].bbs[r] \in Blocks' \ {1}
               /\ ~(k = m /\ r = q) => IsHeld(stack[k], r) /\ stack'[k].bbs[r] \in Blocks
                                      /\ stack'[k].bbs[r] = stack[k].bbs[r]
               /\ k = m /\ r = q => stack'[k].bbs[r] = b
    <3>1. CASE k = m /\ r = q
      BY <1>6, <1>10, <3>1
    <3>2. CASE ~(k = m /\ r = q)
      <4>1. IsHeld(stack[k], r) /\ stack'[k].bbs[r] = stack[k].bbs[r]
        BY <1>9, <2>1, <3>2
      <4>2. stack[k].bbs[r] \in Blocks \ {1}
        BY <1>5, <1>11, <4>1 DEF HeldBlocks
      <4> QED
        BY <1>6, <3>2, <4>1, <4>2
    <3> QED
      BY <3>1, <3>2
  <2>2. ASSUME NEW k \in 1..m, NEW l \in 1..m, NEW r \in BlockRegisters, NEW t \in BlockRegisters,
               IsHeld(stack[k], r)', IsHeld(stack[l], t)', stack'[k].bbs[r] = stack'[l].bbs[t]
        PROVE  k = l /\ r = t
    <3>1. CASE (k = m /\ r = q) \/ (l = m /\ t = q)
      BY <1>6, <2>1, <2>2, <3>1
    <3>2. CASE ~(k = m /\ r = q) /\ ~(l = m /\ t = q)
      <4>1. IsHeld(stack[k], r) /\ IsHeld(stack[l], t) /\ stack[k].bbs[r] = stack[l].bbs[t]
        BY <2>1, <2>2, <3>2
      <4> QED
        BY <1>5, <1>11, <4>1 DEF HeldBlocks
    <3> QED
      BY <3>1, <3>2
  <2> QED
    BY <1>11, <2>1, <2>2 DEF HeldBlocks
<1>16. PendingBlocks'
  <2>1. ASSUME NEW k \in 1..m, NEW r \in BlockRegisters, IsPending(stack[k], r)'
        PROVE  /\ IsHeld(stack[k], r)'
               /\ stack'[k].bbs[r] # insert'
               /\ term'[stack'[k].bbs[r]] = Open
               /\ IsTargeted(stack[k], r)' => \E c \in Blocks' : stack'[k].bbs[r] \in Successors(c)'
    <3>1. CASE k = m /\ r = q
      BY <1>5, <1>6, <1>10, <1>11, <3>1
    <3>2. CASE ~(k = m /\ r = q)
      <4>1. /\ IsPending(stack[k], r) /\ stack'[k].bbs[r] = stack[k].bbs[r]
            /\ IsHeld(stack[k], r)' <=> IsHeld(stack[k], r)
            /\ IsTargeted(stack[k], r)' <=> IsTargeted(stack[k], r)
        BY <1>9, <2>1, <3>2
      <4>2. /\ IsHeld(stack[k], r)
            /\ stack[k].bbs[r] # insert
            /\ term[stack[k].bbs[r]] = Open
            /\ IsTargeted(stack[k], r) => \E c \in Blocks : stack[k].bbs[r] \in Successors(c)
        BY <1>5, <1>11, <4>1 DEF PendingBlocks
      <4>3. stack[k].bbs[r] \in Blocks
        BY <1>5, <1>11, <4>2 DEF HeldBlocks
      <4> QED
        BY <1>6, <1>11, <1>12, <4>1, <4>2, <4>3
    <3> QED
      BY <3>1, <3>2
  <2> QED
    BY <1>11, <2>1 DEF PendingBlocks
<1>17. InsertBlock'
  BY <1>5, <1>6, <1>8, <1>11 DEF InsertBlock
<1>18. ASSUME ~Doomed' PROVE Covered'
  <2>1. Covered
    <3>1. Doomed => Doomed'
      <4>1. [Next]_vars /\ state' = "generating"
        BY <1>2, <1>5 DEF Next, Builds, Moves
      <4> QED
        BY <1>5, <4>1, CheckedKept
    <3> QED
      BY <1>5, <1>18, <3>1
  <2>2. PendingAt(b)'
    BY <1>0, <1>10, <1>11, <1>3 DEF PendingAt
  <2>3. ASSUME NEW c, PendingAt(c) PROVE PendingAt(c)'
    <3>1. PICK k \in 1..m, r \in BlockRegisters : IsPending(stack[k], r) /\ stack[k].bbs[r] = c
      BY <1>11, <2>3 DEF PendingAt
    <3>2. ~(k = m /\ r = q)
      BY <1>10, <3>1
    <3> QED
      BY <1>9, <1>11, <3>1, <3>2 DEF PendingAt
  <2>4. ASSUME NEW c, LooseAt(c) PROVE LooseAt(c)'
    <3>1. PICK k \in 1..m, r \in BlockRegisters : IsLoose(stack[k], r) /\ stack[k].bbs[r] = c
      BY <1>11, <2>4 DEF LooseAt
    <3>2. ~(k = m /\ r = q)
      BY <1>10, <3>1
    <3> QED
      BY <1>9, <1>11, <3>1, <3>2 DEF LooseAt
  <2>5. \A c \in Blocks' : term'[c] = Open => c = insert' \/ PendingAt(c)'
    BY <1>6, <1>11, <2>1, <2>2, <2>3 DEF Covered
  <2>6. \A c \in detached' : LooseAt(c)'
    <3>1. Op[1] = "detached" => LooseAt(b)'
      BY <1>3, <1>10, <1>11 DEF LooseAt
    <3> QED
      BY <1>1, <2>1, <2>4, <3>1 DEF Covered
  <2>7. ASSUME NEW S \in SUBSET Blocks', 1 \in S, Closed(S, {})', NEW c \in Blocks'
        PROVE  c \in S \/ PendingAt(c)'
    <3>1. S \ {b} \in SUBSET Blocks /\ 1 \in S \ {b}
      BY <1>6, <2>7
    <3>2. Closed(S \ {b}, {})
      BY <1>6, <1>12, <2>7, <3>1 DEF Closed
    <3>3. \A d \in Blocks : d \in S \/ PendingAt(d)
      BY <2>1, <3>1, <3>2 DEF Covered
    <3> QED
      BY <1>6, <2>2, <2>3, <3>3
  <2> QED
    BY <2>5, <2>6, <2>7 DEF Covered
<1>19. ~Finished' /\ (term' # <<>>) /\ insert' \in Blocks'
  <2>1. state' = state
    BY <1>2 DEF Moves
  <2>2. term' \in Seq(Terminators) /\ Len(term') # 0
    BY <1>5, <1>6, TypesKept DEF TypeInv, Next, Builds
  <2> QED
    BY <1>5, <1>6, <1>11, <2>1, <2>2, EmptySeq DEF Finished
<1> QED
  BY <1>14, <1>15, <1>16, <1>17, <1>18, <1>19 DEF BlockInv

(* A step that makes no block.  It may begin one that is pending, or end the   *)
(* one the insertion point is in.                                              *)
LEMMA BlocksMove ==
  ASSUME BlockInv, Building, state' = "generating", Len(stack') = Len(stack), Len(stack) \in Nat,
         Blocks' = Blocks, insert' \in Blocks, term' # <<>>,
         \A k \in 1..Len(stack), r \in BlockRegisters : IsHeld(stack[k], r)' =>
             IsHeld(stack[k], r) /\ stack'[k].bbs[r] = stack[k].bbs[r],
         \A k \in 1..Len(stack), r \in BlockRegisters : IsPending(stack[k], r)' =>
             /\ IsPending(stack[k], r) /\ stack'[k].bbs[r] = stack[k].bbs[r]
             /\ stack[k].bbs[r] # insert' /\ IsHeld(stack[k], r)'
             /\ IsTargeted(stack[k], r)' => \/ IsTargeted(stack[k], r)
                                            \/ stack[k].bbs[r] \in term'[insert].to,
         HasEnded(Top)' <=> term'[insert'] # Open,
         \A b \in Blocks : \/ term'[b] = term[b]
                           \/ /\ b = insert /\ term[b] = Open /\ term'[b] # Open /\ term'[b] # Ret
                              /\ term'[b].to \subseteq Blocks \ {1},
         Doomed => Doomed',
         \A b : PendingAt(b) => PendingAt(b)' \/ b = insert',
         \A b \in detached' : b \in detached /\ (LooseAt(b) => LooseAt(b)'),
         \/ insert' = insert
         \/ term[insert] # Open /\ \E c \in Blocks : insert' \in Successors(c)
  PROVE  BlockInv'
<1>1. /\ term # <<>> /\ insert \in Blocks /\ Branches /\ HeldBlocks /\ PendingBlocks
      /\ InsertBlock /\ (~Doomed => Covered)
  BY DEF BlockInv
<1>2. Open.to = {} /\ Open # Ret
  BY DEF Open, Ret
<1>3. \A b \in Blocks : Successors(b) \subseteq Successors(b)'
  BY <1>2 DEF Successors
<1>4. \A b \in Blocks : term'[b] = Open => term[b] = Open
  OBVIOUS
<1>5. Branches'
  BY <1>1 DEF Branches
<1>6. HeldBlocks'
  BY <1>1 DEF HeldBlocks
<1>7. PendingBlocks'
  <2>1. ASSUME NEW k \in 1..Len(stack), NEW r \in BlockRegisters, IsPending(stack[k], r)'
        PROVE  /\ IsHeld(stack[k], r)'
               /\ stack'[k].bbs[r] # insert'
               /\ term'[stack'[k].bbs[r]] = Open
               /\ IsTargeted(stack[k], r)' => \E c \in Blocks : stack'[k].bbs[r] \in Successors(c)'
    <3>1. /\ IsPending(stack[k], r) /\ stack'[k].bbs[r] = stack[k].bbs[r]
          /\ stack[k].bbs[r] # insert' /\ IsHeld(stack[k], r)'
          /\ IsTargeted(stack[k], r)' => IsTargeted(stack[k], r) \/ stack[k].bbs[r] \in term'[insert].to
      BY <2>1
    <3>2. /\ IsHeld(stack[k], r) /\ stack[k].bbs[r] # insert /\ term[stack[k].bbs[r]] = Open
          /\ IsTargeted(stack[k], r) => \E c \in Blocks : stack[k].bbs[r] \in Successors(c)
      BY <1>1, <3>1 DEF PendingBlocks
    <3>3. stack[k].bbs[r] \in Blocks
      BY <1>1, <3>2 DEF HeldBlocks
    <3>4. term'[stack[k].bbs[r]] = Open
      BY <3>2, <3>3
    <3>5. PICK i \in Blocks : i = insert
      BY <1>1
    <3>6. stack[k].bbs[r] \in term'[insert].to => stack[k].bbs[r] \in Successors(i)'
      BY <3>5 DEF Successors
    <3> QED
      BY <1>3, <3>1, <3>2, <3>4, <3>5, <3>6
  <2> QED
    BY <2>1 DEF PendingBlocks
<1>8. InsertBlock'
  BY DEF InsertBlock
<1>9. ASSUME ~Doomed' PROVE Covered'
  <2>1. Covered
    BY <1>1, <1>9
  <2>2. \A b \in Blocks' : term'[b] = Open => b = insert' \/ PendingAt(b)'
    BY <1>1, <1>4, <2>1 DEF Covered
  <2>3. \A b \in detached' : LooseAt(b)'
    BY <2>1 DEF Covered
  <2>4. ASSUME NEW S \in SUBSET Blocks', 1 \in S, Closed(S, {})', NEW b \in Blocks'
        PROVE  b \in S \/ PendingAt(b)'
    <3>1. Closed(S, {})
      BY <1>3, <2>4 DEF Closed
    <3>2. \A c \in Blocks : c \in S \/ PendingAt(c)
      BY <2>1, <2>4, <3>1 DEF Covered
    <3>3. ASSUME NEW c \in Blocks, insert' \in Successors(c) PROVE insert' \in S
      <4>1. ~PendingAt(c)
        BY <1>1, <1>2, <3>3 DEF PendingAt, PendingBlocks, Successors
      <4> QED
        BY <3>1, <3>2, <3>3, <4>1 DEF Closed
    <3>4. ~PendingAt(insert)
      BY <1>1 DEF PendingAt, PendingBlocks
    <3> QED
      BY <2>4, <3>2, <3>3, <3>4
  <2> QED
    BY <2>2, <2>3, <2>4 DEF Covered
<1>10. ~Finished'
  BY DEF Finished
<1> QED
  BY <1>5, <1>6, <1>7, <1>8, <1>9, <1>10 DEF BlockInv

(* The registers of the routine that does an operation on one block.           *)
LEMMA OneBlockMoves ==
  ASSUME TypeInv, StackInv, Running, Op[1] \in {"append", "here", "at", "br"}, NEW bbs,
         Moves(Len(stack), Top.regs, bbs, Top.old),
         \A r \in BlockRegisters : r # Op[2] => bbs[r] = Top.bbs[r],
         NEW k \in 1..Len(stack), NEW r \in BlockRegisters
  PROVE  /\ ~(k = Len(stack) /\ r = Op[2]) =>
              /\ stack'[k].bbs[r] = stack[k].bbs[r]
              /\ IsPending(stack[k], r)' <=> IsPending(stack[k], r)
              /\ IsLoose(stack[k], r)' <=> IsLoose(stack[k], r)
              /\ IsHeld(stack[k], r)' <=> IsHeld(stack[k], r)
              /\ IsTargeted(stack[k], r)' <=> IsTargeted(stack[k], r)
         /\ k = Len(stack) /\ r = Op[2] =>
              /\ stack[k].bbs[r] = Block(2) /\ stack'[k].bbs[r] = bbs[r]
              /\ IsPending(stack[k], r)' <=> IsPending(stack[k], r) /\ Op[1] # "at"
              /\ IsLoose(stack[k], r)' <=> IsLoose(stack[k], r) /\ Op[1] # "append"
              /\ IsHeld(stack[k], r)' <=> IsHeld(stack[k], r) /\ Op[1] # "here"
              /\ IsTargeted(stack[k], r)' <=> IsTargeted(stack[k], r) \/ Op[1] = "br"
<1>0. PICK m, q, o : m = Len(stack) /\ q = Op[2] /\ o = Op[1]
  OBVIOUS
<1>1. Script[Top.pc] = <<o, q>> /\ Top.pc \in Nat \ {0} /\ o \in {"append", "here", "at", "br"}
  BY <1>0, TopScript DEF OneBlock, Script
<1>2. /\ Pending(Script, Top.pc + 1, r) <=> Pending(Script, Top.pc, r) /\ (o = "at" => r # q)
      /\ Held(Script, Top.pc + 1, r) <=> Held(Script, Top.pc, r) /\ (o = "here" => r # q)
      /\ Loose(Script, Top.pc + 1, r) <=> Loose(Script, Top.pc, r) /\ (o = "append" => r # q)
      /\ Targeted(Script, Top.pc + 1, r) <=> Targeted(Script, Top.pc, r) \/ (o = "br" /\ r = q)
  BY <1>1, MovesHistory
<1>3. k # m => Same(k)
  BY <1>0, TopMoves
<1>4. k = m => /\ stack[k] = Top /\ stack'[k].bbs = bbs
               /\ IsPending(stack[k], r)' <=> Pending(Script, Top.pc + 1, r)
               /\ IsLoose(stack[k], r)' <=> Loose(Script, Top.pc + 1, r)
               /\ IsHeld(stack[k], r)' <=> Held(Script, Top.pc + 1, r)
               /\ IsTargeted(stack[k], r)' <=> Targeted(Script, Top.pc + 1, r)
               /\ IsPending(stack[k], r) <=> Pending(Script, Top.pc, r)
               /\ IsLoose(stack[k], r) <=> Loose(Script, Top.pc, r)
               /\ IsHeld(stack[k], r) <=> Held(Script, Top.pc, r)
               /\ IsTargeted(stack[k], r) <=> Targeted(Script, Top.pc, r)
  BY <1>0, TopMoves
<1>5. CASE k # m
  BY <1>0, <1>3, <1>5 DEF Same
<1>6. CASE k = m /\ r # q
  BY <1>0, <1>2, <1>4, <1>6
<1>7. CASE k = m /\ r = q
  <2>1. k = m /\ stack[k].bbs[r] = Block(2) /\ stack'[k].bbs[r] = bbs[r]
    BY <1>0, <1>4, <1>7 DEF Block
  <2> QED
    BY <1>0, <1>2, <1>4, <1>7, <2>1
<1> QED
  BY <1>5, <1>6, <1>7

(* The other operations on blocks.                                           *)
LEMMA BuildsOnBlocks ==
  ASSUME TypeInv, StackInv, CheckedInv, BlockInv,
         AppendBlock \/ GetInsertBlock \/ SetInsertPoint \/ CreateBr \/ CreateCondBr
  PROVE  /\ Running /\ Op[1] \in Shaping /\ Building /\ state' = "generating" /\ (Doomed => Doomed')
         /\ insert \in Blocks /\ Branches /\ HeldBlocks /\ PendingBlocks /\ InsertBlock
         /\ term # <<>> /\ Len(stack) \in Nat /\ Len(stack) \in 1..Len(stack)
<1>1. Running /\ Op[1] \in Shaping
  BY DEF AppendBlock, GetInsertBlock, SetInsertPoint, CreateBr, CreateCondBr, Doing, Shaping
<1>2. /\ Building /\ insert \in Blocks /\ Branches /\ HeldBlocks /\ PendingBlocks /\ InsertBlock
      /\ term # <<>> /\ state = "generating"
  BY <1>1, BuildingFacts
<1>3. [Next]_vars /\ state' = "generating"
  BY <1>2 DEF Next, Builds, AppendBlock, GetInsertBlock, SetInsertPoint, CreateBr, CreateCondBr,
              AssignBlock, Advance, Goes
<1>4. Doomed => Doomed'
  BY <1>2, <1>3, CheckedKept
<1> QED
  BY <1>1, <1>2, <1>3, <1>4, TopScript

(* A block put into the function is no longer loose.                         *)
LEMMA AppendBlockKeeps ==
  ASSUME TypeInv, StackInv, CheckedInv, BlockInv, AppendBlock
  PROVE  BlockInv'
<1>1. /\ Running /\ Op[1] = "append" /\ UNCHANGED <<term, insert>> /\ detached' = detached \ {Block(2)}
      /\ Moves(Len(stack), Top.regs, Top.bbs, Top.old)
  BY StackSteps DEF AppendBlock, Doing
<1>2. /\ Building /\ state' = "generating" /\ (Doomed => Doomed')
      /\ insert \in Blocks /\ PendingBlocks /\ InsertBlock
      /\ term # <<>> /\ Len(stack) \in Nat /\ Len(stack') = Len(stack)
  BY <1>1, BuildsOnBlocks DEF Moves
<1>3. HasEnded(Top)' <=> HasEnded(Top)
  <2>1. Top.pc \in Nat \ {0} /\ Script[Top.pc][1] = "append"
    BY <1>1, TopScript DEF Script
  <2>2. Ended(Script, Top.pc + 1) <=> Ended(Script, Top.pc)
    BY <2>1, ShapeHistory
  <2> QED
    BY <1>1, <2>2, TopMoves
<1>4. ASSUME NEW k \in 1..Len(stack), NEW r \in BlockRegisters
      PROVE  /\ stack'[k].bbs[r] = stack[k].bbs[r]
             /\ IsPending(stack[k], r)' <=> IsPending(stack[k], r)
             /\ IsLoose(stack[k], r) => IsLoose(stack[k], r)' \/ stack[k].bbs[r] = Block(2)
             /\ IsHeld(stack[k], r)' <=> IsHeld(stack[k], r)
             /\ IsTargeted(stack[k], r)' <=> IsTargeted(stack[k], r)
  <2>1. CASE ~(k = Len(stack) /\ r = Op[2])
    BY <1>1, <2>1, OneBlockMoves
  <2>2. CASE k = Len(stack) /\ r = Op[2]
    <3>1. stack[k].bbs[r] = Block(2) /\ stack'[k].bbs[r] = Top.bbs[r] /\ Block(2) = Top.bbs[r]
      BY <1>1, <2>2, OneBlockMoves DEF Block
    <3>2. /\ IsPending(stack[k], r)' <=> IsPending(stack[k], r)
          /\ IsHeld(stack[k], r)' <=> IsHeld(stack[k], r)
          /\ IsTargeted(stack[k], r)' <=> IsTargeted(stack[k], r)
      BY <1>1, <2>2, OneBlockMoves
    <3> QED
      BY <3>1, <3>2
  <2> QED
    BY <2>1, <2>2
<1>5. ASSUME NEW b PROVE PendingAt(b) => PendingAt(b)'
  BY <1>2, <1>4 DEF PendingAt
<1>6. ASSUME NEW b, b # Block(2) PROVE LooseAt(b) => LooseAt(b)'
  BY <1>2, <1>4, <1>6 DEF LooseAt
<1>7. \A k \in 1..Len(stack), r \in BlockRegisters : IsPending(stack[k], r) =>
          stack[k].bbs[r] # insert /\ IsHeld(stack[k], r)
  BY <1>2 DEF PendingBlocks
<1>8. Blocks' = Blocks /\ insert' \in Blocks /\ term' # <<>> /\ (HasEnded(Top)' <=> term'[insert'] # Open)
  BY <1>1, <1>2, <1>3 DEF Blocks, InsertBlock
<1> QED
  BY <1>1, <1>2, <1>4, <1>5, <1>6, <1>7, <1>8, BlocksMove

(* A register set to the block of the insertion point owes nothing.          *)
LEMMA GetInsertBlockKeeps ==
  ASSUME TypeInv, StackInv, CheckedInv, BlockInv, GetInsertBlock
  PROVE  BlockInv'
<1>0. PICK bbs : bbs = [Top.bbs EXCEPT ![Op[2]] = insert]
  OBVIOUS
<1>1. /\ Running /\ Op[1] = "here" /\ UNCHANGED <<term, detached, insert>>
      /\ Moves(Len(stack), Top.regs, bbs, Top.old)
  BY <1>0, StackSteps DEF GetInsertBlock, Doing, blocks
<1>2. /\ Building /\ state' = "generating" /\ (Doomed => Doomed')
      /\ insert \in Blocks /\ PendingBlocks /\ InsertBlock
      /\ term # <<>> /\ Len(stack) \in Nat /\ Len(stack') = Len(stack)
  BY <1>1, BuildsOnBlocks DEF Moves
<1>3. \A r \in BlockRegisters : r # Op[2] => bbs[r] = Top.bbs[r]
  BY <1>0, <1>1, TopScript DEF BBsType
<1>4. HasEnded(Top)' <=> HasEnded(Top)
  <2>1. Top.pc \in Nat \ {0} /\ Script[Top.pc][1] = "here"
    BY <1>1, TopScript DEF Script
  <2>2. Ended(Script, Top.pc + 1) <=> Ended(Script, Top.pc)
    BY <2>1, ShapeHistory
  <2> QED
    BY <1>1, <2>2, TopMoves
(* The register is of a block that has been begun.                             *)
<1>5. ASSUME NEW k \in 1..Len(stack), k = Len(stack)
      PROVE  ~IsPending(stack[k], Op[2]) /\ ~IsLoose(stack[k], Op[2])
  <2>1. KeepsAt(Script, Top.pc) /\ Script[Top.pc] = Op
    BY <1>1, TopScript DEF Splits, Script
  <2> QED
    BY <1>5, <2>1 DEF KeepsAt, IsPending, IsLoose, Script, Top
<1>6. ASSUME NEW k \in 1..Len(stack), NEW r \in BlockRegisters
      PROVE  /\ IsPending(stack[k], r)' <=> IsPending(stack[k], r)
             /\ IsLoose(stack[k], r)' <=> IsLoose(stack[k], r)
             /\ IsHeld(stack[k], r)' => IsHeld(stack[k], r) /\ stack'[k].bbs[r] = stack[k].bbs[r]
             /\ IsPending(stack[k], r) \/ IsLoose(stack[k], r) => stack'[k].bbs[r] = stack[k].bbs[r]
             /\ IsPending(stack[k], r) => (IsHeld(stack[k], r)' <=> IsHeld(stack[k], r))
             /\ IsTargeted(stack[k], r)' <=> IsTargeted(stack[k], r)
  <2>1. CASE ~(k = Len(stack) /\ r = Op[2])
    BY <1>1, <1>3, <2>1, OneBlockMoves
  <2>2. CASE k = Len(stack) /\ r = Op[2]
    <3>1. /\ IsPending(stack[k], r)' <=> IsPending(stack[k], r)
          /\ IsLoose(stack[k], r)' <=> IsLoose(stack[k], r)
          /\ ~IsHeld(stack[k], r)'
          /\ IsTargeted(stack[k], r)' <=> IsTargeted(stack[k], r)
      BY <1>1, <1>3, <2>2, OneBlockMoves
    <3> QED
      BY <1>5, <2>2, <3>1
  <2> QED
    BY <2>1, <2>2
<1>7. ASSUME NEW b PROVE (PendingAt(b) => PendingAt(b)') /\ (LooseAt(b) => LooseAt(b)')
  BY <1>2, <1>6 DEF PendingAt, LooseAt
<1>8. \A k \in 1..Len(stack), r \in BlockRegisters : IsPending(stack[k], r) =>
          stack[k].bbs[r] # insert /\ IsHeld(stack[k], r)
  BY <1>2 DEF PendingBlocks
<1>9. Blocks' = Blocks /\ insert' \in Blocks /\ term' # <<>> /\ (HasEnded(Top)' <=> term'[insert'] # Open)
  BY <1>1, <1>2, <1>4 DEF Blocks, InsertBlock
<1> QED
  BY <1>1, <1>2, <1>6, <1>7, <1>8, <1>9, BlocksMove

(* A pending block begins: it is open, can be reached, and the last one is   *)
(* ended.                                                                    *)
LEMMA SetInsertPointKeeps ==
  ASSUME TypeInv, StackInv, CheckedInv, BlockInv, SetInsertPoint
  PROVE  BlockInv'
<1>1. /\ Running /\ Op[1] = "at" /\ UNCHANGED <<term, detached>> /\ insert' = Block(2)
      /\ Moves(Len(stack), Top.regs, Top.bbs, Top.old)
  BY StackSteps DEF SetInsertPoint, Doing
<1>2. /\ Building /\ state' = "generating" /\ (Doomed => Doomed')
      /\ insert \in Blocks /\ PendingBlocks /\ HeldBlocks /\ InsertBlock
      /\ term # <<>> /\ Len(stack) \in Nat /\ Len(stack') = Len(stack)
  BY <1>1, BuildsOnBlocks DEF Moves
<1>0. PICK m, q : m = Len(stack) /\ q = Op[2]
  OBVIOUS
<1>3. /\ Op = <<Op[1], q>> /\ q \in BlockRegisters /\ Top.pc \in Nat \ {0} /\ Script[Top.pc] = Op
      /\ m \in 1..m /\ stack[m] = Top /\ MovesAt(Script, Top.pc)
  BY <1>0, <1>1, TopScript DEF OneBlock, Script, Splits
<1>4. IsPending(stack[m], q) /\ IsTargeted(stack[m], q) /\ HasEnded(Top) /\ stack[m].bbs[q] = Block(2)
  BY <1>0, <1>3 DEF MovesAt, IsPending, IsTargeted, HasEnded, Script, Block
<1>5. /\ IsHeld(stack[m], q) /\ term[Block(2)] = Open /\ Block(2) \in Blocks
      /\ \E c \in Blocks : Block(2) \in Successors(c)
  <2>1. m \in 1..Len(stack)
    BY <1>0, <1>3
  <2>2. /\ IsHeld(stack[m], q) /\ term[Block(2)] = Open
        /\ \E c \in Blocks : Block(2) \in Successors(c)
    BY <1>2, <1>3, <1>4, <2>1 DEF PendingBlocks
  <2> QED
    BY <1>2, <1>3, <1>4, <2>1, <2>2 DEF HeldBlocks
<1>6. ~HasEnded(Top)'
  <2>1. Script[Top.pc][1] = "at"
    BY <1>1, <1>3
  <2>2. ~Ended(Script, Top.pc + 1)
    BY <1>3, <2>1, ShapeHistory
  <2> QED
    BY <1>1, <2>2, TopMoves
<1>7. ASSUME NEW k \in 1..Len(stack), NEW r \in BlockRegisters
      PROVE  /\ stack'[k].bbs[r] = stack[k].bbs[r]
             /\ IsPending(stack[k], r)' <=> IsPending(stack[k], r) /\ ~(k = m /\ r = q)
             /\ IsLoose(stack[k], r)' <=> IsLoose(stack[k], r)
             /\ IsHeld(stack[k], r)' <=> IsHeld(stack[k], r)
             /\ IsTargeted(stack[k], r)' <=> IsTargeted(stack[k], r)
  <2>1. CASE ~(k = m /\ r = q)
    BY <1>0, <1>1, <2>1, OneBlockMoves
  <2>2. CASE k = m /\ r = q
    <3>1. stack[k].bbs[r] = Block(2) /\ stack'[k].bbs[r] = Top.bbs[r] /\ Block(2) = Top.bbs[r]
      BY <1>0, <1>1, <2>2, OneBlockMoves DEF Block
    <3>2. /\ ~IsPending(stack[k], r)'
          /\ IsLoose(stack[k], r)' <=> IsLoose(stack[k], r)
          /\ IsHeld(stack[k], r)' <=> IsHeld(stack[k], r)
          /\ IsTargeted(stack[k], r)' <=> IsTargeted(stack[k], r)
      BY <1>0, <1>1, <2>2, OneBlockMoves
    <3> QED
      BY <2>2, <3>1, <3>2
  <2> QED
    BY <2>1, <2>2
<1>8. ASSUME NEW b PROVE (PendingAt(b) => PendingAt(b)' \/ b = insert') /\ (LooseAt(b) => LooseAt(b)')
  <2>1. LooseAt(b) => LooseAt(b)'
    BY <1>2, <1>7 DEF LooseAt
  <2>2. PendingAt(b) => PendingAt(b)' \/ b = insert'
    <3> SUFFICES ASSUME PendingAt(b), b # insert' PROVE PendingAt(b)'
      OBVIOUS
    <3>1. PICK k \in 1..Len(stack), r \in BlockRegisters : IsPending(stack[k], r) /\ stack[k].bbs[r] = b
      BY DEF PendingAt
    <3>2. ~(k = m /\ r = q)
      BY <1>1, <1>4, <3>1
    <3> QED
      BY <1>2, <1>7, <3>1, <3>2 DEF PendingAt
  <2> QED
    BY <2>1, <2>2
<1>9. ASSUME NEW k \in 1..Len(stack), NEW r \in BlockRegisters, IsPending(stack[k], r)'
      PROVE  stack[k].bbs[r] # insert' /\ IsHeld(stack[k], r)'
  <2>1. IsPending(stack[k], r) /\ ~(k = m /\ r = q)
    BY <1>7, <1>9
  <2>2. IsHeld(stack[k], r)
    BY <1>2, <2>1 DEF PendingBlocks
  <2>3. m \in 1..Len(stack)
    BY <1>0, <1>3
  <2>4. stack[k].bbs[r] # stack[m].bbs[q]
    BY <1>2, <1>3, <1>5, <2>1, <2>2, <2>3 DEF HeldBlocks
  <2> QED
    BY <1>1, <1>4, <1>7, <2>2, <2>4
<1>10. Blocks' = Blocks /\ insert' \in Blocks /\ term' # <<>> /\ (HasEnded(Top)' <=> term'[insert'] # Open)
  BY <1>1, <1>2, <1>5, <1>6 DEF Blocks
<1>11. term[insert] # Open /\ \E c \in Blocks : insert' \in Successors(c)
  BY <1>1, <1>2, <1>4, <1>5 DEF InsertBlock
<1> QED
  BY <1>1, <1>2, <1>7, <1>8, <1>9, <1>10, <1>11, BlocksMove

(* A branch ends the block of the insertion point, which was open.             *)
LEMMA BranchesKeep ==
  ASSUME TypeInv, StackInv, CheckedInv, BlockInv, CreateBr \/ CreateCondBr,
         NEW T, T \subseteq Blocks \ {1}, term' = [term EXCEPT ![insert] = Branch(T)],
         UNCHANGED <<detached, insert>>, Moves(Len(stack), Top.regs, Top.bbs, Top.old),
         \A k \in 1..Len(stack), r \in BlockRegisters :
             /\ stack'[k].bbs[r] = stack[k].bbs[r]
             /\ IsPending(stack[k], r)' <=> IsPending(stack[k], r)
             /\ IsLoose(stack[k], r)' <=> IsLoose(stack[k], r)
             /\ IsHeld(stack[k], r)' <=> IsHeld(stack[k], r)
             /\ IsTargeted(stack[k], r)' => IsTargeted(stack[k], r) \/ stack[k].bbs[r] \in T,
         Op[1] \in {"br", "condbr"}, HasEnded(Top)'
  PROVE  BlockInv'
<1>1. /\ Building /\ state' = "generating" /\ (Doomed => Doomed') /\ Running
      /\ insert \in Blocks /\ PendingBlocks /\ HeldBlocks /\ InsertBlock
      /\ term # <<>> /\ Len(stack) \in Nat /\ Len(stack') = Len(stack)
  BY BuildsOnBlocks DEF Moves
<1>2. Branch(T).to = T /\ Branch(T) # Open /\ Branch(T) # Ret /\ Branch(T) \in Terminators
  BY DEF Branch, Open, Ret, Terminators, Blocks
<1>3. /\ Len(term') = Len(term) /\ term' \in Seq(Terminators)
      /\ \A b \in Blocks : term'[b] = IF b = insert THEN Branch(T) ELSE term[b]
  BY <1>2, TerminatorSet DEF TypeInv, Blocks
<1>4. Blocks' = Blocks /\ insert' \in Blocks /\ term' # <<>>
  <2>1. Len(term) # 0
    BY <1>1, EmptySeq DEF TypeInv
  <2> QED
    BY <1>1, <1>3, <2>1, EmptySeq DEF Blocks
<1>5. term[insert] = Open
  <2>1. ~HasEnded(Top)
    BY <1>1, TopScript
  <2> QED
    BY <1>1, <2>1 DEF InsertBlock
<1>6. term'[insert] = Branch(T)
  BY <1>1, <1>3
<1>7. \A b : (PendingAt(b) => PendingAt(b)') /\ (LooseAt(b) => LooseAt(b)')
  BY <1>1 DEF PendingAt, LooseAt
<1>8. \A k \in 1..Len(stack), r \in BlockRegisters : IsPending(stack[k], r) =>
          stack[k].bbs[r] # insert /\ IsHeld(stack[k], r)
  BY <1>1 DEF PendingBlocks
<1>9. HasEnded(Top)' <=> term'[insert'] # Open
  BY <1>2, <1>6
<1>10. \A b \in Blocks : \/ term'[b] = term[b]
                         \/ /\ b = insert /\ term[b] = Open /\ term'[b] # Open /\ term'[b] # Ret
                            /\ term'[b].to \subseteq Blocks \ {1}
  BY <1>2, <1>3, <1>5
<1>11. \A k \in 1..Len(stack), r \in BlockRegisters : IsPending(stack[k], r)' =>
          /\ IsPending(stack[k], r) /\ stack'[k].bbs[r] = stack[k].bbs[r]
          /\ stack[k].bbs[r] # insert' /\ IsHeld(stack[k], r)'
          /\ IsTargeted(stack[k], r)' => \/ IsTargeted(stack[k], r)
                                         \/ stack[k].bbs[r] \in term'[insert].to
  BY <1>2, <1>6, <1>8
<1> QED
  BY <1>1, <1>4, <1>7, <1>9, <1>10, <1>11, BlocksMove

(* CreateBr: the block ends, and its target can be reached.                  *)
LEMMA CreateBrKeeps ==
  ASSUME TypeInv, StackInv, CheckedInv, BlockInv, CreateBr
  PROVE  BlockInv'
<1>1. /\ Running /\ Op[1] = "br" /\ UNCHANGED <<detached, insert>>
      /\ term' = [term EXCEPT ![insert] = Branch({Block(2)})]
      /\ Moves(Len(stack), Top.regs, Top.bbs, Top.old)
  BY StackSteps DEF CreateBr, Doing
<1>2. HeldBlocks
  BY BuildsOnBlocks
<1>0. PICK m, q : m = Len(stack) /\ q = Op[2]
  OBVIOUS
<1>3. /\ q \in BlockRegisters /\ Top.pc \in Nat \ {0} /\ Script[Top.pc] = Op
      /\ m \in 1..Len(stack) /\ stack[m] = Top /\ BranchesAt(Script, Top.pc)
  BY <1>0, <1>1, TopScript DEF OneBlock, Script, Splits
<1>4. Block(2) \in Blocks \ {1}
  <2>1. IsHeld(stack[m], q) /\ stack[m].bbs[q] = Block(2)
    BY <1>0, <1>1, <1>3 DEF BranchesAt, IsHeld, Script, Block
  <2> QED
    BY <1>2, <1>3, <2>1 DEF HeldBlocks
<1>5. HasEnded(Top)'
  <2>1. Script[Top.pc][1] = "br"
    BY <1>1, <1>3
  <2>2. Ended(Script, Top.pc + 1)
    BY <1>3, <2>1, ShapeHistory
  <2> QED
    BY <1>1, <2>2, TopMoves
<1>6. ASSUME NEW k \in 1..Len(stack), NEW r \in BlockRegisters
      PROVE  /\ stack'[k].bbs[r] = stack[k].bbs[r]
             /\ IsPending(stack[k], r)' <=> IsPending(stack[k], r)
             /\ IsLoose(stack[k], r)' <=> IsLoose(stack[k], r)
             /\ IsHeld(stack[k], r)' <=> IsHeld(stack[k], r)
             /\ IsTargeted(stack[k], r)' => IsTargeted(stack[k], r) \/ stack[k].bbs[r] \in {Block(2)}
  <2>1. CASE ~(k = m /\ r = q)
    BY <1>0, <1>1, <2>1, OneBlockMoves
  <2>2. CASE k = m /\ r = q
    <3>1. stack[k].bbs[r] = Block(2) /\ stack'[k].bbs[r] = Top.bbs[r] /\ Block(2) = Top.bbs[r]
      BY <1>0, <1>1, <2>2, OneBlockMoves DEF Block
    <3>2. /\ IsPending(stack[k], r)' <=> IsPending(stack[k], r)
          /\ IsLoose(stack[k], r)' <=> IsLoose(stack[k], r)
          /\ IsHeld(stack[k], r)' <=> IsHeld(stack[k], r)
      BY <1>0, <1>1, <2>2, OneBlockMoves
    <3> QED
      BY <2>2, <3>1, <3>2
  <2> QED
    BY <2>1, <2>2
<1>7. {Block(2)} \subseteq Blocks \ {1}
  BY <1>4
<1> QED
  BY <1>1, <1>5, <1>6, <1>7, BranchesKeep

(* CreateCondBr: the same, for two targets.                                  *)
LEMMA CreateCondBrKeeps ==
  ASSUME TypeInv, StackInv, CheckedInv, BlockInv, CreateCondBr
  PROVE  BlockInv'
<1>1. /\ Running /\ Op[1] = "condbr" /\ UNCHANGED <<detached, insert>>
      /\ term' = [term EXCEPT ![insert] = Branch({Block(3), Block(4)})]
      /\ Moves(Len(stack), Top.regs, Top.bbs, Top.old)
  BY StackSteps DEF CreateCondBr, Doing
<1>2. HeldBlocks
  BY BuildsOnBlocks
<1>0. PICK m, p, q : m = Len(stack) /\ p = Op[3] /\ q = Op[4]
  OBVIOUS
<1>3. /\ p \in BlockRegisters /\ q \in BlockRegisters /\ Top.pc \in Nat \ {0} /\ Script[Top.pc] = Op
      /\ m \in 1..Len(stack) /\ stack[m] = Top /\ BranchesAt(Script, Top.pc)
  BY <1>0, <1>1, TopScript, OperandsTyped DEF Script, Splits
<1>4. {Block(3), Block(4)} \subseteq Blocks \ {1}
  <2>1. /\ IsHeld(stack[m], p) /\ stack[m].bbs[p] = Block(3)
        /\ IsHeld(stack[m], q) /\ stack[m].bbs[q] = Block(4)
    BY <1>0, <1>1, <1>3 DEF BranchesAt, IsHeld, Script, Block
  <2> QED
    BY <1>2, <1>3, <2>1 DEF HeldBlocks
<1>h. /\ \A r : /\ Pending(Script, Top.pc + 1, r) <=> Pending(Script, Top.pc, r)
                /\ Held(Script, Top.pc + 1, r) <=> Held(Script, Top.pc, r)
                /\ Loose(Script, Top.pc + 1, r) <=> Loose(Script, Top.pc, r)
                /\ Targeted(Script, Top.pc + 1, r) <=> Targeted(Script, Top.pc, r) \/ r \in {p, q}
      /\ Ended(Script, Top.pc + 1)
  <2>1. Script[Top.pc][1] = "condbr" /\ Script[Top.pc][3] = p /\ Script[Top.pc][4] = q
    BY <1>0, <1>1, <1>3
  <2> QED
    BY <1>3, <2>1, CondBrHistory
<1>5. HasEnded(Top)'
  BY <1>1, <1>h, TopMoves
<1>6. ASSUME NEW k \in 1..Len(stack), NEW r \in BlockRegisters
      PROVE  /\ stack'[k].bbs[r] = stack[k].bbs[r]
             /\ IsPending(stack[k], r)' <=> IsPending(stack[k], r)
             /\ IsLoose(stack[k], r)' <=> IsLoose(stack[k], r)
             /\ IsHeld(stack[k], r)' <=> IsHeld(stack[k], r)
             /\ IsTargeted(stack[k], r)' => IsTargeted(stack[k], r) \/ stack[k].bbs[r] \in {Block(3), Block(4)}
  <2>1. CASE k # m
    <3>1. Same(k)
      BY <1>0, <1>1, <2>1, TopMoves
    <3> QED
      BY <3>1 DEF Same
  <2>2. CASE k = m
    <3>1. /\ stack[k] = Top /\ stack'[k].bbs = Top.bbs
          /\ IsPending(stack[k], r)' <=> Pending(Script, Top.pc + 1, r)
          /\ IsLoose(stack[k], r)' <=> Loose(Script, Top.pc + 1, r)
          /\ IsHeld(stack[k], r)' <=> Held(Script, Top.pc + 1, r)
          /\ IsTargeted(stack[k], r)' <=> Targeted(Script, Top.pc + 1, r)
          /\ IsPending(stack[k], r) <=> Pending(Script, Top.pc, r)
          /\ IsLoose(stack[k], r) <=> Loose(Script, Top.pc, r)
          /\ IsHeld(stack[k], r) <=> Held(Script, Top.pc, r)
          /\ IsTargeted(stack[k], r) <=> Targeted(Script, Top.pc, r)
      BY <1>0, <1>1, <2>2, TopMoves
    <3>2. r \in {p, q} => stack[k].bbs[r] \in {Block(3), Block(4)}
      BY <1>0, <3>1 DEF Block
    <3> QED
      BY <1>h, <3>1, <3>2
  <2> QED
    BY <2>1, <2>2
<1> QED
  BY <1>1, <1>4, <1>5, <1>6, BranchesKeep

(* Every step keeps the function well formed as far as it is built.          *)
LEMMA BlockKept ==
  ASSUME TypeInv, StackInv, CheckedInv, BlockInv, [Next]_vars
  PROVE  BlockInv'
<1>b. ASSUME Running
      PROVE  \/ BeginFunction \/ FinishFunction \/ AssignToNoVariable \/ UNCHANGED vars \/ stack' = stack
             \/ Bottom(Gens \cup {"check", "callee"})
             \/ Bottom({Op[1]})
  BY BottomSteps
<1>q. ASSUME Running, Op[1] \notin Shaping \cup {"entry"}, state' = "generating",
             Bottom(Gens \cup {"check", "callee"}) \/ Bottom({Op[1]}),
             UNCHANGED <<term, insert, detached>>,
             \/ \E regs, old : Moves(Len(stack), regs, Top.bbs, old)
             \/ \E v \in ValueType : Op[1] \in {"check", "callee", "return"} /\ ReturnValue(v)
             \/ Generate
      PROVE  BlockInv'
  <2>1. PICK ops : Bottom(ops) /\ "entry" \notin ops
    <3>1. "entry" \notin Gens \cup {"check", "callee"}
      BY DEF Gens
    <3>2. "entry" \notin {Op[1]}
      BY <1>q
    <3> QED
      BY <1>q, <3>1, <3>2
  <2>2. state = "generating"
    BY <1>q DEF Running
  <2> QED
    BY <1>q, <2>1, <2>2, QuietSteps
<1>n. Null \in ValueType
  BY DEF Null, Value, ValueType
<1>1. CASE UNCHANGED vars
  <2>1. /\ stack' = stack /\ version' = version /\ state' = state
        /\ UNCHANGED <<term, insert, detached>>
    BY <1>1 DEF vars, blocks
  <2> QED
    BY SMTT(30), <2>1 DEF BlockInv, Building, Entered, Finished, Branches, HeldBlocks,
       PendingBlocks, InsertBlock,
         Covered, Concluded, Doomed, DoomedFrame, PendingAt, LooseAt, IsPending, IsLoose, IsHeld,
         IsTargeted, HasEnded, Top, Routine, Blocks, Successors, Predecessors, Closed
<1>2. CASE AssignToNoVariable
  <2>1. state' = "undefined" /\ UNCHANGED <<term, insert, detached>>
    BY <1>2 DEF AssignToNoVariable, blocks
  <2> QED
    BY <2>1 DEF BlockInv, Building, Finished, Blocks
<1>3. CASE BeginFunction
  <2>1. Len(stack') = 1 /\ stack'[1] = Frame("Function", Argument) /\ version' = version
    BY <1>3, BeginPushes
  <2>2. UNCHANGED <<term, insert, detached>> /\ state' = "generating"
    BY <1>3 DEF BeginFunction, blocks
  <2>3. ~Entered(stack[1])'
    <3>1. \A s : ~Passed(s, 1, {"entry"})
      BY DEF Passed
    <3> QED
      BY <2>1, <3>1 DEF Entered, Frame
  <2> QED
    BY <2>2, <2>3 DEF BlockInv, Building, Finished, Blocks
<1>4. CASE FinishFunction
  BY <1>4, FunctionConcluded
<1>5. CASE NewBlock
  BY <1>5, NewBlockKeeps
<1>6. CASE AppendBlock \/ GetInsertBlock \/ SetInsertPoint \/ CreateBr \/ CreateCondBr
  BY <1>6, AppendBlockKeeps, GetInsertBlockKeeps, SetInsertPointKeeps, CreateBrKeeps,
     CreateCondBrKeeps
<1>7. CASE Entry
  BY <1>7, EntryBlock
<1>8. CASE Generate \/ NoSubExpression \/ Check \/ Callee \/ Return
  <2>1. UNCHANGED <<term, insert, detached>>
    BY <1>8 DEF Generate, NoSubExpression, Check, Callee, Return, blocks
  <2>2. Running /\ Op[1] \notin Shaping \cup {"entry"}
    BY <1>8 DEF Generate, NoSubExpression, Check, Callee, Return, Doing, Shaping
  <2>3. state' = "generating"
    BY <1>8, <2>2 DEF Generate, NoSubExpression, Check, Callee, Return, Running, ReturnValue,
       Assign, Advance, Goes
  <2>4. Bottom(Gens \cup {"check", "callee"}) \/ Bottom({Op[1]})
    <3>1. ~BeginFunction /\ ~FinishFunction
      BY <1>8, <2>3 DEF FinishFunction, BeginFunction, Generate, NoSubExpression, Check,
         Callee, Return, Doing, Running
    <3>2. stack' # stack
      <4>1. Len(stack) \in 1..Len(stack) /\ stack[Len(stack)].pc \in Nat
        BY <2>2, TopScript
      <4>2. CASE \E regs, bbs, old : Moves(Len(stack), regs, bbs, old)
        BY <4>1, <4>2 DEF Moves, Moved
      <4>3. CASE \E regs, bbs, old : Moves(Len(stack) - 1, regs, bbs, old)
        BY <4>1, <4>3 DEF Moves
      <4>4. CASE Generate
        BY <4>1, <4>4, GeneratePushes DEF Pushes
      <4>5. Reg(2) \in ValueType \/ ~Return
        BY <2>2, OperandsTyped DEF Return, Doing
      <4> QED
        BY <1>8, <1>n, <4>2, <4>3, <4>4, <4>5, StackSteps, ReturnMoves DEF Return, Doing
    <3> QED
      BY <3>1, <3>2, BottomSteps
  <2>5. \/ \E regs, old : Moves(Len(stack), regs, Top.bbs, old)
        \/ \E v \in ValueType : Op[1] \in {"check", "callee", "return"} /\ ReturnValue(v)
        \/ Generate
    <3>1. Return => Op[1] = "return" /\ ReturnValue(Reg(2)) /\ Reg(2) \in ValueType
      BY OperandsTyped DEF Return, Doing
    <3> QED
      BY <1>8, <1>n, <3>1, StackSteps DEF Doing
  <2> QED
    BY <1>q, <2>1, <2>2, <2>3, <2>4, <2>5
<1>9. CASE \/ Lookup \/ Inst \/ CreateEntryBlockAlloca \/ CreatePHI \/ AddIncoming \/ Bind \/ Unbind
           \/ Clear \/ BindArgument \/ PushScope \/ EmitLocation
  <2>1. UNCHANGED <<term, insert, detached>>
    BY <1>9 DEF Lookup, Inst, CreateEntryBlockAlloca, CreatePHI, AddIncoming, Bind, Unbind,
                Clear, BindArgument, PushScope, EmitLocation, blocks
  <2>2. Running /\ Op[1] \notin Shaping \cup {"entry"}
    BY <1>9 DEF Lookup, Inst, CreateEntryBlockAlloca, CreatePHI, AddIncoming, Bind, Unbind,
                Clear, BindArgument, PushScope, EmitLocation, Doing, Shaping
  <2>3. \E regs, old : Moves(Len(stack), regs, Top.bbs, old)
    BY <1>9, StackSteps
  <2>4. state' = "generating"
    BY <2>2, <2>3 DEF Moves, Running
  <2>5. Bottom(Gens \cup {"check", "callee"}) \/ Bottom({Op[1]})
    <3>1. ~BeginFunction /\ ~FinishFunction
      BY <2>2, <2>4 DEF FinishFunction, BeginFunction, Doing, Running
    <3>2. stack' # stack
      BY <2>2, <2>3, TopScript DEF Moves, Moved
    <3> QED
      BY <3>1, <3>2, BottomSteps
  <2> QED
    BY <1>q, <2>1, <2>2, <2>3, <2>4, <2>5
<1> QED
  BY <1>1, <1>2, <1>3, <1>4, <1>5, <1>6, <1>7, <1>8, <1>9 DEF Next, Calls, Builds, Frames

-----------------------------------------------------------------------------
(* The inductive invariant.                                                    *)
CodegenInv == TypeInv /\ StackInv /\ DebugInv /\ OwnInv /\ CheckedInv /\ BlockInv

(* The invariant holds in every state of every version, for expressions and  *)
(* sessions of any size: types, calls, debug scopes, own values, tested nulls *)
(* and blocks.                                                               *)
THEOREM CodegenInvariant == Spec => []CodegenInv
<1>1. Init => CodegenInv
  <2> SUFFICES ASSUME Init PROVE CodegenInv
    OBVIOUS
  <2>1. TypeInv /\ StackInv
    BY TypesStart
  <2>2. /\ fn = 0 /\ insert = 0 /\ term = <<>> /\ detached = {} /\ incoming = {} /\ uses = {}
        /\ scope = 0 /\ lines = {} /\ scopes = <<>> /\ stack = <<>> /\ state = "idle"
    BY DEF Init
  <2>3. DebugInv
    BY <2>2 DEF DebugInv
  <2>4. OwnInv
    BY <2>2 DEF OwnInv, OwnOperands
  <2>5. CheckedInv
    BY <2>2, EmptySeq DEF CheckedInv
  <2>6. BlockInv
    BY <2>2 DEF BlockInv, Building, Finished
  <2> QED
    BY <2>1, <2>3, <2>4, <2>5, <2>6 DEF CodegenInv
<1>2. CodegenInv /\ [Next]_vars => CodegenInv'
  BY TypesKept, DebugKept, OwnKept, CheckedKept, BlockKept DEF CodegenInv
<1> QED
  BY <1>1, <1>2, PTL DEF Spec

(* Operands are values of the body they are used in, or there before it.       *)
THEOREM OwnOperandsHold == Spec => []OwnOperands
<1>1. CodegenInv => OwnOperands
  BY DEF CodegenInv, OwnInv
<1> QED
  BY <1>1, CodegenInvariant, PTL

(* Debug locations are in the scope of their own body, which both endings of   *)
(* FunctionAST::codegen pop.                                                   *)
THEOREM ScopesMatchHolds == Spec => []ScopesMatch
<1>1. CodegenInv => ScopesMatch
  BY DEF CodegenInv, DebugInv, ScopesMatch
<1> QED
  BY <1>1, CodegenInvariant, PTL

(* The control flow graph of every body is well formed, an appended one's too. *)
THEOREM WellFormedHolds == Spec => []WellFormed
<1>1. CodegenInv => WellFormed
  <2> SUFFICES ASSUME CodegenInv PROVE WellFormed
    OBVIOUS
  <2>1. TypeInv /\ StackInv /\ BlockInv
    BY DEF CodegenInv
  <2>2. ASSUME Running, Op[1] \in Emits \/ Op[1] = "ret" PROVE term[insert] = Open
    <3>1. Op[1] \notin Quiet \cup {"entry", "clear"} /\ Op[1] \notin {"at", "here", "append"}
      BY <2>2 DEF Emits, Quiet
    <3>2. Ready(stack[1]) /\ state = "generating"
      BY <2>1, <2>2, <3>1, ReadyToBuild
    <3>3. InsertBlock
      BY <2>1, <3>2 DEF BlockInv, Building, Ready
    <3>4. ~HasEnded(Top)
      BY <2>1, <2>2, <3>1, TopScript
    <3> QED
      BY <3>3, <3>4 DEF InsertBlock
  <2> QED
    BY <2>1, <2>2 DEF WellFormed, BlockInv, Concluded
<1> QED
  BY <1>1, CodegenInvariant, PTL

-----------------------------------------------------------------------------
(* The places of if and of the for of chapters 5 and 6, which make PHI nodes:  *)
(* what is done there.                                                         *)
LEMMA IfTable ==
  ASSUME NEW p \in 1..24
  PROVE  LET o == Chapter5If[p] IN
         /\ o[1] \in {"gen", "check", "inst", "new", "detached", "condbr", "at", "br", "here",
                      "append", "phi", "incoming", "return"}
         /\ o[1] = "gen" => p \in {1, 9, 15} /\ o[2] # "PN"
         /\ o[1] = "check" => p \in {2, 10, 16}
         /\ o[1] = "inst" => p = 3 /\ o[2] # "PN"
         /\ o[1] = "new" => p = 4 /\ o = <<"new", "ThenBB">>
         /\ o[1] = "detached" => \/ p = 5 /\ o = <<"detached", "ElseBB">>
                                 \/ p = 6 /\ o = <<"detached", "MergeBB">>
         /\ o[1] = "condbr" => p = 7 /\ o = <<"condbr", "cond", "ThenBB", "ElseBB">>
         /\ o[1] = "at" => \/ p = 8 /\ o = <<"at", "ThenBB">>
                           \/ p = 14 /\ o = <<"at", "ElseBB">>
                           \/ p = 20 /\ o = <<"at", "MergeBB">>
         /\ o[1] = "br" => p \in {11, 17} /\ o = <<"br", "MergeBB">>
         /\ o[1] = "here" => \/ p = 12 /\ o = <<"here", "ThenBB">>
                             \/ p = 18 /\ o = <<"here", "ElseBB">>
         /\ o[1] = "append" => p \in {13, 19}
         /\ o[1] = "phi" => p = 21 /\ o = <<"phi", "PN">>
         /\ o[1] = "incoming" => \/ p = 22 /\ o = <<"incoming", "PN", "Then", "ThenBB">>
                                 \/ p = 23 /\ o = <<"incoming", "PN", "Else", "ElseBB">>
         /\ o[1] = "return" => p = 24
BY SMTT(60) DEF Chapter5If

(* The loop of chapters 5 and 6.                                               *)
LEMMA ForTable ==
  ASSUME NEW p \in 1..24
  PROVE  LET o == Chapter5For[p] IN
         /\ o[1] \in {"gen", "genopt", "check", "inst", "new", "condbr", "at", "br", "here", "bind",
                      "unbind", "phi", "incoming", "return"}
         /\ o[1] \in Gens => p \in {1, 10, 12, 15} /\ o[2] # "Variable"
         /\ o[1] = "check" => p \in {2, 11, 13, 16}
         /\ o[1] = "inst" => p \in {14, 17} /\ o[2] # "Variable"
         /\ o[1] = "new" => \/ p = 4 /\ o = <<"new", "LoopBB">>
                            \/ p = 19 /\ o = <<"new", "AfterBB">>
         /\ o[1] = "condbr" => p = 20 /\ o = <<"condbr", "EndCond", "LoopBB", "AfterBB">>
         /\ o[1] = "at" => \/ p = 6 /\ o = <<"at", "LoopBB">>
                           \/ p = 21 /\ o = <<"at", "AfterBB">>
         /\ o[1] = "br" => p = 5 /\ o = <<"br", "LoopBB">>
         /\ o[1] = "here" => \/ p = 3 /\ o = <<"here", "PreheaderBB">>
                             \/ p = 18 /\ o = <<"here", "LoopEndBB">>
         /\ o[1] \in {"bind", "unbind"} => p \in {9, 23}
         /\ o[1] = "phi" => p = 7 /\ o = <<"phi", "Variable">>
         /\ o[1] = "incoming" => \/ p = 8 /\ o = <<"incoming", "Variable", "Start", "PreheaderBB">>
                                 \/ p = 22 /\ o = <<"incoming", "Variable", "NextVar", "LoopEndBB">>
         /\ o[1] = "return" => p = 24
BY SMTT(60) DEF Chapter5For, Gens

IfPlace(f) == f.pc - (IF version = "Chapter9" THEN 1 ELSE 0)
IsFor(f) == f.kind = "For" /\ Routine("For") = Chapter5For

(* Where a frame of such a routine is, and that no other routine has a PHI.    *)
LEMMA PhiScripts ==
  ASSUME TypeInv, StackInv, NEW k \in 1..Len(stack)
  PROVE  LET f == stack[k]
             p == IfPlace(f)
         IN  /\ f.kind = "If" =>
                  /\ p \in 0..24
                  /\ p # 0 => Does(f) = Chapter5If[p]
                  /\ p = 0 => Does(f) = <<"locate">>
                  /\ p >= 7 => IsHeld(f, "MergeBB")
             /\ IsFor(f) =>
                  /\ f.pc \in 1..24
                  /\ Does(f) = Chapter5For[f.pc]
                  /\ f.pc >= 5 => IsHeld(f, "LoopBB")
             /\ Does(f)[1] \in {"phi", "incoming"} => f.kind = "If" \/ IsFor(f)
<1>1. version \in DOMAIN Scripts
  BY CodegenAssumption DEF TypeInv
<1>2. stack[k].kind \in DOMAIN Scripts[version] /\ stack[k].pc \in DOMAIN Routine(stack[k].kind)
  BY DEF StackInv, Fits, Kinds
<1>3. stack[k].kind = "If" => Routine("If") = IF version = "Chapter9" THEN Chapter9If ELSE Chapter5If
  BY <1>1, <1>2, VersionTables, TableScripts, Chapter9Scripts DEF Sorted, Routine
<1>4. stack[k].kind = "For" => Routine("For") \in {Chapter5For, Chapter7For, Chapter9For}
  BY <1>1, <1>2, VersionTables, TableScripts, Chapter9Scripts DEF Sorted, Routine, LoopScripts
<1>5. stack[k].kind \notin {"If", "For", "Function"} => Routine(stack[k].kind) \in Plain \cup Debugged
  BY <1>1, <1>2, VersionTables, TableScripts, Chapter9Scripts DEF Sorted, Routine
<1>6. DOMAIN Chapter5If = 1..24 /\ DOMAIN Chapter5For = 1..24 /\ DOMAIN Chapter9If = 1..25
  BY DEF Chapter5If, Chapter5For, Chapter9If, Chapter7If, Chapter6If, Located
<1>7. Chapter9If[1] = <<"locate">> /\ \A j \in 1..24 : Chapter9If[j + 1] = Chapter5If[j]
  BY SMTT(60) DEF Chapter5If, Chapter9If, Chapter7If, Chapter6If, Located
<1>8. Chapter5If[6] = <<"detached", "MergeBB">> /\ Chapter5For[4] = <<"new", "LoopBB">>
  BY DEF Chapter5If, Chapter5For
<1>9. /\ \A j \in 1..24 : Chapter5If[j] # <<"here", "MergeBB">>
      /\ \A j \in 1..24 : Chapter5For[j] # <<"here", "LoopBB">>
  <2>1. ASSUME NEW j \in 1..24, Chapter5If[j] = <<"here", "MergeBB">> PROVE FALSE
    <3>1. Chapter5If[j][1] = "here" /\ Chapter5If[j][2] = "MergeBB"
      BY <2>1
    <3>2. Chapter5If[j] = <<"here", "ThenBB">> \/ Chapter5If[j] = <<"here", "ElseBB">>
      BY <3>1, IfTable
    <3> QED
      BY <3>1, <3>2
  <2>2. ASSUME NEW j \in 1..24, Chapter5For[j] = <<"here", "LoopBB">> PROVE FALSE
    <3>1. Chapter5For[j][1] = "here" /\ Chapter5For[j][2] = "LoopBB"
      BY <2>2
    <3>2. Chapter5For[j] = <<"here", "PreheaderBB">> \/ Chapter5For[j] = <<"here", "LoopEndBB">>
      BY <3>1, ForTable
    <3> QED
      BY <3>1, <3>2
  <2> QED
    BY <2>1, <2>2
<1>10. CASE stack[k].kind = "If"
  <2>1. PICK s : s = Routine("If")
    OBVIOUS
  <2>2. PICK off \in {0, 1} : /\ off = IF version = "Chapter9" THEN 1 ELSE 0
                              /\ DOMAIN s = 1..(24 + off) /\ (off = 1 => s[1] = <<"locate">>)
                              /\ \A j \in 1..24 : s[j + off] = Chapter5If[j]
    <3>1. CASE version = "Chapter9"
      <4>1. s = Chapter9If
        BY <1>3, <1>10, <2>1, <3>1
      <4>2. \A j \in 1..24 : s[j + 1] = Chapter5If[j]
        BY <1>7, <4>1
      <4>3. DOMAIN s = 1..(24 + 1) /\ s[1] = <<"locate">>
        BY <1>6, <1>7, <4>1
      <4> QED
        BY <3>1, <4>2, <4>3
    <3>2. CASE version # "Chapter9"
      <4>1. s = Chapter5If
        BY <1>3, <1>10, <2>1, <3>2
      <4>2. \A j \in 1..24 : j + 0 = j
        OBVIOUS
      <4>3. 1..(24 + 0) = 1..24
        OBVIOUS
      <4> QED
        BY <1>6, <3>2, <4>1, <4>2, <4>3
    <3> QED
      BY <3>1, <3>2
  <2>3. PICK p : p = IfPlace(stack[k])
    OBVIOUS
  <2>4. stack[k].pc \in 1..(24 + off) /\ Does(stack[k]) = s[stack[k].pc]
    BY <1>2, <1>10, <2>1, <2>2 DEF Does
  <2>5. p = stack[k].pc - off
    BY <2>2, <2>3 DEF IfPlace
  <2>6. p \in 0..24 /\ stack[k].pc = p + off /\ stack[k].pc \in Nat
    <3>1. \A pc, o : pc \in 1..(24 + o) /\ o \in {0, 1} => pc - o \in 0..24 /\ pc = (pc - o) + o /\ pc \in Nat
      OBVIOUS
    <3> QED
      BY <2>4, <2>5, <3>1
  <2>7. (p # 0 => Does(stack[k]) = Chapter5If[p]) /\ (p = 0 => Does(stack[k]) = <<"locate">>)
    <3>1. p # 0 => p \in 1..24
      BY <2>6
    <3>2. p = 0 => off = 1
      BY <2>4, <2>6
    <3>3. Does(stack[k]) = s[p + off]
      BY <2>4, <2>6
    <3>4. CASE p # 0
      <4>1. s[p + off] = Chapter5If[p]
        BY <2>2, <3>1, <3>4
      <4> QED
        BY <3>3, <3>4, <4>1
    <3>5. CASE p = 0
      <4>1. p + off = 1 /\ s[1] = <<"locate">>
        BY <2>2, <3>2, <3>5
      <4> QED
        BY <3>3, <3>5, <4>1
    <3> QED
      BY <3>4, <3>5
  <2>8. ASSUME p >= 7 PROVE IsHeld(stack[k], "MergeBB")
    <3>1. 6 + off \in 1..(stack[k].pc - 1)
      BY <2>6, <2>8
    <3>2. s[6 + off] = <<"detached", "MergeBB">>
      <4>1. 6 \in 1..24
        OBVIOUS
      <4> QED
        BY <1>8, <2>2, <4>1
    <3>3. ASSUME NEW j \in 1..(stack[k].pc - 1) PROVE s[j] # <<"here", "MergeBB">>
      <4>1. CASE j = off
        <5>1. s[j] = <<"locate">>
          BY <2>2, <4>1
        <5>2. <<"locate">>[1] # <<"here", "MergeBB">>[1]
          OBVIOUS
        <5> QED
          BY <5>1, <5>2
      <4>2. CASE j # off
        <5>1. j - off \in 1..24 /\ (j - off) + off = j
          BY <2>6, <4>2
        <5> QED
          BY <1>9, <2>2, <5>1
      <4> QED
        BY <4>1, <4>2
    <3> QED
      BY <1>10, <2>1, <3>1, <3>2, <3>3 DEF IsHeld, Held, Creates, Before
  <2> QED
    BY <1>10, <2>3, <2>6, <2>7, <2>8 DEF IsFor
<1>11. CASE IsFor(stack[k])
  <2>1. Routine(stack[k].kind) = Chapter5For /\ stack[k].kind = "For" /\ stack[k].pc \in 1..24
        /\ Does(stack[k]) = Chapter5For[stack[k].pc]
    BY <1>2, <1>6, <1>11 DEF IsFor, Does
  <2>2. ASSUME stack[k].pc >= 5 PROVE IsHeld(stack[k], "LoopBB")
    <3>1. 4 \in 1..(stack[k].pc - 1) /\ \A j \in 1..(stack[k].pc - 1) : j \in 1..24
      <4>1. \A pc \in 1..24 : pc >= 5 => 4 \in 1..(pc - 1) /\ \A j \in 1..(pc - 1) : j \in 1..24
        OBVIOUS
      <4> QED
        BY <2>1, <2>2, <4>1
    <3> QED
      BY <1>8, <1>9, <2>1, <3>1 DEF IsHeld, Held, Creates, Before
  <2> QED
    BY <2>1, <2>2, <1>11
<1>12. ASSUME stack[k].kind # "If", ~IsFor(stack[k])
       PROVE  Does(stack[k])[1] \notin {"phi", "incoming"}
  <2>1. CASE stack[k].kind = "Function"
    <3>1. Prologue(Routine(stack[k].kind)) /\ Does(stack[k]) = Routine(stack[k].kind)[stack[k].pc]
      BY <2>1, FrameScript
    <3> QED
      BY <1>2, <3>1 DEF Prologue, FunctionOps
  <2>2. CASE stack[k].kind = "For"
    <3>1. Routine(stack[k].kind) \in {Chapter7For, Chapter9For}
      BY <1>4, <1>12, <2>2 DEF IsFor
    <3>2. \A j \in DOMAIN Chapter7For : Chapter7For[j][1] \notin {"phi", "incoming"}
      BY SMTT(60) DEF Chapter7For
    <3>3. \A j \in DOMAIN Chapter9For : Chapter9For[j][1] \notin {"phi", "incoming"}
      BY SMTT(60) DEF Chapter9For
    <3> QED
      BY <1>2, <3>1, <3>2, <3>3 DEF Does
  <2>3. CASE stack[k].kind \notin {"If", "For", "Function"}
    BY <1>2, <1>5, <2>3, PlainScripts, DebuggedScripts DEF Simple, BlockOps, Does
  <2> QED
    BY <1>12, <2>1, <2>2, <2>3
<1> QED
  BY <1>10, <1>11, <1>12 DEF IsFor

(* The blocks a block's PHI has values for, and whether those are the blocks   *)
(* that branch to it.                                                          *)
Sources(b) == {i.from : i \in {j \in incoming : j.phi = b}}
Matched(b) == Sources(b) = Predecessors(b)

(* At place p of an if: its blocks, and the block of its PHI.                  *)
IfNow(p, m, t, e, pn) ==
    /\ p \in 7..11 => Predecessors(m) = {}
    /\ p = 12 => Predecessors(m) = {insert}
    /\ p \in 13..17 => Predecessors(m) = {t}
    /\ p = 18 => Predecessors(m) = {t, insert} /\ t # insert
    /\ p >= 19 => Predecessors(m) = {t, e} /\ t # e
    /\ p = 21 => insert = m
    /\ p >= 22 => m \in phis /\ pn = m
    /\ p = 22 => Sources(m) = {}
    /\ p = 23 => Sources(m) = {t}
    /\ p = 24 => Sources(m) = {t, e}
(* The same of a for.                                                          *)
ForNow(p, l, b, e, variable) ==
    /\ p \in 4..5 => insert = b
    /\ p = 5 => Predecessors(l) = {}
    /\ p \in 6..20 => Predecessors(l) = {b}
    /\ p \in 19..20 => insert = e
    /\ p >= 21 => Predecessors(l) = {b, e} /\ b # e
    /\ p = 7 => insert = l
    /\ p >= 8 => l \in phis /\ variable = l
    /\ p = 8 => Sources(l) = {}
    /\ p \in 9..22 => Sources(l) = {b}
    /\ p >= 23 => Sources(l) = {b, e}
IfPhi(f) == IfNow(IfPlace(f), f.bbs["MergeBB"], f.bbs["ThenBB"], f.bbs["ElseBB"], f.regs["PN"].block)
ForPhi(f) == ForNow(f.pc, f.bbs["LoopBB"], f.bbs["PreheaderBB"], f.bbs["LoopEndBB"], f.regs["Variable"].block)
PhiFrame(f) == (f.kind = "If" => IfPhi(f)) /\ (IsFor(f) => ForPhi(f))
PhiFrames == \A k \in 1..Len(stack) : PhiFrame(stack[k])

(* The block whose PHI a frame is still giving values to.                      *)
HasPhi(f, r) == \/ f.kind = "If" /\ IfPlace(f) >= 22 /\ r = "MergeBB"
                \/ IsFor(f) /\ f.pc >= 8 /\ r = "LoopBB"
Owned(b) == \E k \in 1..Len(stack), r \in BlockRegisters : HasPhi(stack[k], r) /\ stack[k].bbs[r] = b
HeldPhis == \A k \in 1..Len(stack), r \in BlockRegisters :
    IsHeld(stack[k], r) /\ stack[k].bbs[r] \in phis => HasPhi(stack[k], r)
OneEach == \A i, j \in incoming : i.phi = j.phi /\ i.from = j.from => i = j
PhiBlocks ==
    /\ phis \subseteq Blocks
    /\ \A i \in incoming : i.phi \in phis
    /\ OneEach
    /\ HeldPhis
    /\ \A b \in phis : Matched(b) \/ Owned(b)
PhiInv == /\ Building => PhiBlocks /\ PhiFrames
          /\ Finished => PhisMatch

Settled(b) == Predecessors(b)' = Predecessors(b) /\ Sources(b)' = Sources(b)

(* What a frame that goes on is next to do.                                    *)
LEMMA PhiMoves ==
  ASSUME TypeInv, StackInv, NEW n \in 1..Len(stack), NEW regs, NEW bbs, NEW old, Moves(n, regs, bbs, old)
  PROVE  /\ Len(stack') = n /\ version' = version
         /\ \A k \in 1..(n - 1) : stack'[k] = stack[k]
         /\ stack'[n].kind = stack[n].kind /\ stack'[n].pc = stack[n].pc + 1
         /\ stack'[n].bbs = bbs /\ stack'[n].regs = regs
         /\ stack[n].pc \in Nat \ {0}
         /\ IfPlace(stack[n])' = IfPlace(stack[n]) + 1 /\ IfPlace(stack[n]) \in Int
         /\ IsFor(stack[n])' <=> IsFor(stack[n])
         /\ \A k \in 1..n, r \in BlockRegisters : HasPhi(stack[k], r) => HasPhi(stack[k], r)'
<1>1. /\ Len(stack') = n /\ version' = version
      /\ \A k \in 1..(n - 1) : stack'[k] = stack[k]
      /\ stack'[n].kind = stack[n].kind /\ stack'[n].pc = stack[n].pc + 1
      /\ stack'[n].bbs = bbs /\ stack'[n].regs = regs
  BY DEF Moves, Moved
<1>2. stack[n].pc \in Nat \ {0}
  BY FrameScript
<1>3. IfPlace(stack[n])' = IfPlace(stack[n]) + 1 /\ IfPlace(stack[n]) \in Int
  BY <1>1, <1>2 DEF IfPlace
<1>4. IsFor(stack[n])' <=> IsFor(stack[n])
  BY <1>1 DEF IsFor, Routine
<1>5. ASSUME NEW k \in 1..n, NEW r \in BlockRegisters, HasPhi(stack[k], r) PROVE HasPhi(stack[k], r)'
  <2>1. CASE k = n
    BY <1>1, <1>2, <1>3, <1>4, <1>5, <2>1 DEF HasPhi
  <2>2. CASE k # n
    <3>1. stack'[k] = stack[k]
      BY <1>1, <2>2
    <3>2. (IsFor(stack[k])' <=> IsFor(stack[k])) /\ IfPlace(stack[k])' = IfPlace(stack[k])
      BY <1>1, <3>1 DEF IsFor, IfPlace, Routine
    <3> QED
      BY <1>5, <3>1, <3>2 DEF HasPhi
  <2> QED
    BY <2>1, <2>2
<1> QED
  BY <1>1, <1>2, <1>3, <1>4, <1>5

(* The frames below wait for a value: what is done above does not touch the    *)
(* blocks they hold.                                                           *)
LEMMA PhiBelow ==
  ASSUME TypeInv, StackInv, NEW k \in 1..Len(stack), Does(stack[k])[1] \in Gens,
         stack'[k] = stack[k], version' = version, phis \subseteq phis',
         \A r \in BlockRegisters : \A b : IsHeld(stack[k], r) /\ b = stack[k].bbs[r] => Settled(b),
         PhiFrame(stack[k])
  PROVE  PhiFrame(stack[k])'
<1>1. (IsFor(stack[k])' <=> IsFor(stack[k])) /\ IfPlace(stack[k])' = IfPlace(stack[k])
  BY DEF IsFor, IfPlace, Routine
<1>2. ASSUME stack[k].kind = "If" PROVE IfPhi(stack[k])'
  <2>1. PICK m : m = stack[k].bbs["MergeBB"]
    OBVIOUS
  <2>2. IfPlace(stack[k]) \in {1, 9, 15}
    <3>1. PICK p : p = IfPlace(stack[k])
      OBVIOUS
    <3>2. p \in 0..24 /\ (p # 0 => Does(stack[k]) = Chapter5If[p]) /\ (p = 0 => Does(stack[k]) = <<"locate">>)
      BY <1>2, <3>1, PhiScripts
    <3>3. p # 0
      BY <3>2 DEF Gens
    <3>4. p \in 1..24
      BY <3>2, <3>3
    <3> QED
      BY <3>1, <3>2, <3>3, <3>4, IfTable DEF Gens
  <2>3. CASE IfPlace(stack[k]) = 1
    BY <1>1, <2>3 DEF IfPhi, IfNow
  <2>4. CASE IfPlace(stack[k]) \in {9, 15}
    <3>1. IsHeld(stack[k], "MergeBB")
      BY <1>2, <2>4, PhiScripts
    <3>2. Predecessors(m)' = Predecessors(m)
      BY <2>1, <3>1 DEF Settled, BlockRegisters
    <3>3. IfPhi(stack[k])
      BY <1>2 DEF PhiFrame
    <3> QED
      BY <1>1, <2>1, <2>4, <3>2, <3>3 DEF IfPhi, IfNow
  <2> QED
    BY <2>2, <2>3, <2>4
<1>3. ASSUME IsFor(stack[k]) PROVE ForPhi(stack[k])'
  <2>1. PICK l : l = stack[k].bbs["LoopBB"]
    OBVIOUS
  <2>2. stack[k].pc \in {1, 10, 12, 15}
    BY <1>3, PhiScripts, ForTable
  <2>3. CASE stack[k].pc = 1
    BY <2>3 DEF ForPhi, ForNow
  <2>4. CASE stack[k].pc \in {10, 12, 15}
    <3>1. IsHeld(stack[k], "LoopBB")
      BY <1>3, <2>4, PhiScripts
    <3>2. Predecessors(l)' = Predecessors(l) /\ Sources(l)' = Sources(l)
      BY <2>1, <3>1 DEF Settled, BlockRegisters
    <3>3. ForPhi(stack[k])
      BY <1>3 DEF PhiFrame
    <3> QED
      BY <2>1, <2>4, <3>2, <3>3 DEF ForPhi, ForNow
  <2> QED
    BY <2>2, <2>3, <2>4
<1> QED
  BY <1>1, <1>2, <1>3 DEF PhiFrame

(* What has to be shown of the next state of a frame.                          *)
LEMMA IfPhiNext ==
  ASSUME NEW k, NEW o, NEW p \in Int, NEW m, NEW t, NEW e, NEW P, NEW S,
         o = IF version' = "Chapter9" THEN 1 ELSE 0, stack'[k].pc - o = p,
         stack'[k].bbs["MergeBB"] = m, stack'[k].bbs["ThenBB"] = t, stack'[k].bbs["ElseBB"] = e,
         Predecessors(m)' = P, Sources(m)' = S,
         p \in 7..11 => P = {}, p = 12 => P = {insert'}, p \in 13..17 => P = {t},
         p = 18 => P = {t, insert'} /\ t # insert', p >= 19 => P = {t, e} /\ t # e,
         p = 21 => insert' = m, p >= 22 => m \in phis' /\ stack'[k].regs["PN"].block = m,
         p = 22 => S = {}, p = 23 => S = {t}, p = 24 => S = {t, e}
  PROVE  IfPhi(stack[k])'
BY DEF IfPhi, IfNow, IfPlace
(* A loop that is one place further.                                           *)
LEMMA ForPhiNext ==
  ASSUME NEW k, NEW p \in Int, NEW l, NEW b, NEW e, NEW P, NEW S,
         stack'[k].pc = p,
         stack'[k].bbs["LoopBB"] = l, stack'[k].bbs["PreheaderBB"] = b, stack'[k].bbs["LoopEndBB"] = e,
         Predecessors(l)' = P, Sources(l)' = S,
         p \in 4..5 => insert' = b, p = 5 => P = {}, p \in 6..20 => P = {b},
         p \in 19..20 => insert' = e, p >= 21 => P = {b, e} /\ b # e,
         p = 7 => insert' = l, p >= 8 => l \in phis' /\ stack'[k].regs["Variable"].block = l,
         p = 8 => S = {}, p \in 9..22 => S = {b}, p >= 23 => S = {b, e}
  PROVE  ForPhi(stack[k])'
BY DEF ForPhi, ForNow

(* A frame that goes on without touching the blocks or what the PHIs are given.*)
LEMMA PhiQuiet ==
  ASSUME TypeInv, StackInv, NEW n \in 1..Len(stack), NEW regs, NEW old,
         Moves(n, regs, stack[n].bbs, old), Does(stack[n])[1] \notin PhiShaping \cup {"return"},
         \A r \in Registers : r # Does(stack[n])[2] => regs[r] = stack[n].regs[r],
         Does(stack[n])[1] \in {"check", "bind", "unbind"} => regs = stack[n].regs,
         UNCHANGED <<term, insert, phis, incoming>>, PhiFrame(stack[n])
  PROVE  PhiFrame(stack[n])'
<1>1. /\ stack'[n].kind = stack[n].kind /\ stack'[n].pc = stack[n].pc + 1
      /\ stack'[n].bbs = stack[n].bbs /\ stack'[n].regs = regs
      /\ IfPlace(stack[n])' = IfPlace(stack[n]) + 1
      /\ IsFor(stack[n])' <=> IsFor(stack[n])
  BY PhiMoves
<1>s. \A b : Settled(b)
  BY DEF Settled, Predecessors, Sources, Blocks, Successors
<1>2. ASSUME stack[n].kind = "If" PROVE IfPhi(stack[n])'
  <2>1. PICK m : m = stack[n].bbs["MergeBB"]
    OBVIOUS
  <2>2. PICK p : p = IfPlace(stack[n])
    OBVIOUS
  <2>3. p \in {0, 1, 2, 3, 9, 10, 15, 16}
    <3>1. p \in 0..24 /\ (p # 0 => Does(stack[n]) = Chapter5If[p])
      BY <1>2, <2>2, PhiScripts
    <3>2. CASE p # 0
      <4>1. p \in 1..24 /\ Does(stack[n]) = Chapter5If[p]
        BY <3>1, <3>2
      <4>2. PICK o : o = Chapter5If[p]
        OBVIOUS
      <4>3. o[1] \in {"gen", "check", "inst"}
        BY <4>1, <4>2, IfTable DEF PhiShaping, Shaping
      <4> QED
        BY <4>1, <4>2, <4>3, IfTable
    <3> QED
      BY <3>2
  <2>4. IfPhi(stack[n]) /\ Predecessors(m)' = Predecessors(m) /\ Sources(m)' = Sources(m)
    BY <1>2, <1>s DEF PhiFrame, Settled
  <2>5. PICK t, e, P, S : /\ t = stack[n].bbs["ThenBB"] /\ e = stack[n].bbs["ElseBB"]
                          /\ P = Predecessors(m) /\ S = Sources(m)
    OBVIOUS
  <2>6. /\ p \in {9, 10} => P = {}
        /\ p \in {15, 16} => P = {t}
    BY <2>1, <2>2, <2>4, <2>5 DEF IfPhi, IfNow
  <2>7. IfPlace(stack[n])' = p + 1 /\ stack'[n].bbs = stack[n].bbs
    BY <1>1, <2>2
  <2>8. PICK q : q = p + 1
    OBVIOUS
  <2>o. PICK o : o = IF version' = "Chapter9" THEN 1 ELSE 0
    OBVIOUS
  <2>9. /\ stack'[n].pc - o = q
        /\ stack'[n].bbs["MergeBB"] = m /\ stack'[n].bbs["ThenBB"] = t /\ stack'[n].bbs["ElseBB"] = e
        /\ Predecessors(m)' = P /\ Sources(m)' = S
    BY <2>1, <2>4, <2>5, <2>7, <2>8, <2>o DEF IfPlace
  <2>10. q \in Int /\ q \in {1, 2, 3, 4, 10, 11, 16, 17}
    BY <2>3, <2>8
  <2>11. CASE q \in 1..4
    BY <2>9, <2>10, <2>11, <2>o, IfPhiNext
  <2>12. CASE q \in 10..11
    <3>1. P = {}
      BY <2>3, <2>6, <2>8, <2>12
    <3> QED
      BY <2>9, <2>10, <2>12, <2>o, <3>1 DEF IfPhi, IfNow, IfPlace
  <2>13. CASE q \in 16..17
    <3>1. P = {t}
      BY <2>3, <2>6, <2>8, <2>13
    <3> QED
      BY <2>9, <2>10, <2>13, <2>o, <3>1 DEF IfPhi, IfNow, IfPlace
  <2> QED
    BY <2>10, <2>11, <2>12, <2>13
<1>3. ASSUME IsFor(stack[n]) PROVE ForPhi(stack[n])'
  <2>1. PICK l : l = stack[n].bbs["LoopBB"]
    OBVIOUS
  <2>2. PICK p : p = stack[n].pc
    OBVIOUS
  <2>3. p \in {1, 2, 9, 10, 11, 12, 13, 14, 15, 16, 17, 23} /\ (p >= 9 => regs["Variable"] = stack[n].regs["Variable"])
    <3>1. p \in 1..24 /\ Does(stack[n]) = Chapter5For[p]
      BY <1>3, <2>2, PhiScripts
    <3>2. PICK o : o = Chapter5For[p]
      OBVIOUS
    <3>3. o[1] \in {"gen", "genopt", "check", "inst", "bind", "unbind"}
      BY <3>1, <3>2, ForTable DEF PhiShaping, Shaping
    <3>4. p \in {1, 2, 9, 10, 11, 12, 13, 14, 15, 16, 17, 23}
      BY <3>1, <3>2, <3>3, ForTable DEF Gens
    <3>5. o[1] \in {"check", "bind", "unbind"} \/ o[2] # "Variable"
      BY <3>1, <3>2, <3>3, ForTable DEF Gens
    <3> QED
      BY <3>1, <3>2, <3>4, <3>5 DEF Registers
  <2>4. ForPhi(stack[n]) /\ Predecessors(l)' = Predecessors(l) /\ Sources(l)' = Sources(l)
    BY <1>3, <1>s DEF PhiFrame, Settled
  <2>5. PICK b, e, P, S : /\ b = stack[n].bbs["PreheaderBB"] /\ e = stack[n].bbs["LoopEndBB"]
                          /\ P = Predecessors(l) /\ S = Sources(l)
    OBVIOUS
  <2>6. /\ p \in 9..17 => P = {b} /\ S = {b}
        /\ p = 23 => P = {b, e} /\ b # e /\ S = {b, e}
        /\ p >= 9 => l \in phis /\ stack[n].regs["Variable"].block = l
    <3>1. CASE p \in 9..17
      BY <2>1, <2>2, <2>4, <2>5, <3>1 DEF ForPhi, ForNow
    <3>2. CASE p = 23
      BY <2>1, <2>2, <2>4, <2>5, <3>2 DEF ForPhi, ForNow
    <3> QED
      BY <2>3, <3>1, <3>2
  <2>7. phis' = phis /\ stack'[n].pc = p + 1 /\ stack'[n].bbs = stack[n].bbs /\ stack'[n].regs = regs
    BY <1>1, <2>2
  <2>8. PICK q : q = p + 1
    OBVIOUS
  <2>9. /\ stack'[n].pc = q
        /\ stack'[n].bbs["LoopBB"] = l /\ stack'[n].bbs["PreheaderBB"] = b /\ stack'[n].bbs["LoopEndBB"] = e
        /\ Predecessors(l)' = P /\ Sources(l)' = S
        /\ p >= 9 => l \in phis' /\ stack'[n].regs["Variable"].block = l
    BY <2>1, <2>3, <2>4, <2>5, <2>6, <2>7, <2>8 DEF Registers
  <2>10. q \in Int /\ q \in {2, 3, 10, 11, 12, 13, 14, 15, 16, 17, 18, 24}
    BY <2>3, <2>8
  <2>11. CASE q \in {2, 3}
    BY <2>9, <2>10, <2>11, ForPhiNext
  <2>12. CASE q \in 10..18
    <3>1. p \in 9..17
      BY <2>3, <2>8, <2>12
    <3>2. P = {b} /\ S = {b} /\ l \in phis' /\ stack'[n].regs["Variable"].block = l
      BY <2>6, <2>9, <3>1
    <3>3. PICK v : v = stack'[n].regs["Variable"].block
      OBVIOUS
    <3>4. /\ Predecessors(l)' = {b} /\ Sources(l)' = {b} /\ l \in phis' /\ v = l
      BY <2>9, <3>2, <3>3
    <3>5. ForNow(q, l, b, e, v)'
      BY <2>12, <3>4 DEF ForNow
    <3> QED
      BY <2>9, <3>3, <3>5 DEF ForPhi
  <2>13. CASE q = 24
    <3>1. p = 23
      BY <2>3, <2>8, <2>13
    <3>2. P = {b, e} /\ b # e /\ S = {b, e} /\ l \in phis' /\ stack'[n].regs["Variable"].block = l
      BY <2>6, <2>9, <3>1
    <3> QED
      BY <2>9, <2>10, <2>13, <3>2, ForPhiNext
  <2> QED
    BY <2>10, <2>11, <2>12, <2>13
<1> QED
  BY <1>1, <1>2, <1>3 DEF PhiFrame

(* What a step that makes no PHI and gives none a value has to leave alone.    *)
LEMMA PhiBlocksStay ==
  ASSUME PhiBlocks, UNCHANGED <<phis, incoming>>, Blocks \subseteq Blocks',
         Len(stack) \in Nat, Len(stack') \in Nat,
         \A k \in 1..Len(stack'), r \in BlockRegisters :
             IsHeld(stack[k], r)' => \/ stack'[k].bbs[r] \notin phis
                                     \/ /\ k \in 1..Len(stack) /\ IsHeld(stack[k], r)
                                        /\ stack'[k].bbs[r] = stack[k].bbs[r],
         \A k \in 1..Len(stack), r \in BlockRegisters : HasPhi(stack[k], r) =>
             \/ k \in 1..Len(stack') /\ HasPhi(stack[k], r)' /\ stack'[k].bbs[r] = stack[k].bbs[r]
             \/ k \notin 1..Len(stack') /\ \A b : b = stack[k].bbs[r] => Matched(b) /\ Matched(b)',
         \A b \in phis : Owned(b) \/ (Matched(b) => Matched(b)')
  PROVE  PhiBlocks'
<1>1. phis' \subseteq Blocks' /\ (\A i \in incoming' : i.phi \in phis') /\ OneEach'
  BY DEF PhiBlocks, OneEach
<1>2. HeldPhis'
  <2>1. SUFFICES ASSUME NEW k \in 1..Len(stack'), NEW r \in BlockRegisters,
                        IsHeld(stack[k], r)', stack'[k].bbs[r] \in phis
                 PROVE  HasPhi(stack[k], r)'
    BY DEF HeldPhis
  <2>2. k \in 1..Len(stack) /\ IsHeld(stack[k], r) /\ stack'[k].bbs[r] = stack[k].bbs[r]
    BY <2>1
  <2>3. HasPhi(stack[k], r)
    BY <2>1, <2>2 DEF PhiBlocks, HeldPhis
  <2> QED
    BY <2>2, <2>3
<1>3. ASSUME NEW b \in phis PROVE (Matched(b) \/ Owned(b))'
  <2>1. CASE Owned(b)
    <3>1. PICK k \in 1..Len(stack), r \in BlockRegisters : HasPhi(stack[k], r) /\ stack[k].bbs[r] = b
      BY <2>1 DEF Owned
    <3>2. CASE k \in 1..Len(stack')
      <4>1. HasPhi(stack[k], r)' /\ stack'[k].bbs[r] = b
        BY <3>1, <3>2
      <4> QED
        BY <3>2, <4>1 DEF Owned
    <3>3. CASE k \notin 1..Len(stack')
      BY <3>1, <3>3
    <3> QED
      BY <3>2, <3>3
  <2>2. CASE ~Owned(b)
    BY <2>2 DEF PhiBlocks
  <2> QED
    BY <2>1, <2>2
<1> QED
  BY <1>1, <1>2, <1>3 DEF PhiBlocks

(* Where a routine can return, its PHI has what it needs.                      *)
LEMMA PhiPopped ==
  ASSUME TypeInv, StackInv, NEW k \in 1..Len(stack), Does(stack[k])[1] \in {"check", "callee", "return"},
         PhiFrame(stack[k]), NEW r, HasPhi(stack[k], r)
  PROVE  Matched(stack[k].bbs[r])
<1>1. CASE stack[k].kind = "If" /\ IfPlace(stack[k]) >= 22 /\ r = "MergeBB"
  <2>1. PICK p : p = IfPlace(stack[k])
    OBVIOUS
  <2>2. p \in 1..24 /\ Does(stack[k]) = Chapter5If[p]
    <3>1. p \in 0..24 /\ (p # 0 => Does(stack[k]) = Chapter5If[p])
      BY <1>1, <2>1, PhiScripts
    <3> QED
      BY <1>1, <2>1, <3>1
  <2>3. PICK o : o = Chapter5If[p]
    OBVIOUS
  <2>4. p = 24
    <3>1. o[1] \in {"check", "callee", "return"}
      BY <2>2, <2>3
    <3>2. o[1] # "callee" /\ (o[1] = "check" => p \in {2, 10, 16}) /\ (o[1] = "return" => p = 24)
      BY <2>2, <2>3, IfTable
    <3> QED
      BY <1>1, <2>1, <3>1, <3>2
  <2>5. IfPhi(stack[k])
    BY <1>1 DEF PhiFrame
  <2>6. PICK m, t, e : m = stack[k].bbs["MergeBB"] /\ t = stack[k].bbs["ThenBB"] /\ e = stack[k].bbs["ElseBB"]
    OBVIOUS
  <2>7. Predecessors(m) = {t, e} /\ Sources(m) = {t, e}
    BY <2>1, <2>4, <2>5, <2>6 DEF IfPhi, IfNow
  <2> QED
    BY <1>1, <2>6, <2>7 DEF Matched
<1>2. CASE IsFor(stack[k]) /\ stack[k].pc >= 8 /\ r = "LoopBB"
  <2>1. PICK p : p = stack[k].pc
    OBVIOUS
  <2>2. p \in 1..24 /\ Does(stack[k]) = Chapter5For[p]
    BY <1>2, <2>1, PhiScripts
  <2>3. PICK o : o = Chapter5For[p]
    OBVIOUS
  <2>4. p \in {11, 13, 16, 24}
    <3>1. o[1] \in {"check", "callee", "return"}
      BY <2>2, <2>3
    <3>2. /\ o[1] # "callee" /\ (o[1] = "check" => p \in {2, 11, 13, 16}) /\ (o[1] = "return" => p = 24)
      BY <2>2, <2>3, ForTable
    <3> QED
      BY <1>2, <2>1, <3>1, <3>2
  <2>5. ForPhi(stack[k])
    BY <1>2 DEF PhiFrame
  <2>6. PICK l, b, e : l = stack[k].bbs["LoopBB"] /\ b = stack[k].bbs["PreheaderBB"] /\ e = stack[k].bbs["LoopEndBB"]
    OBVIOUS
  <2>7. CASE p = 24
    <3>1. Predecessors(l) = {b, e} /\ Sources(l) = {b, e}
      BY <2>1, <2>5, <2>6, <2>7 DEF ForPhi, ForNow
    <3> QED
      BY <1>2, <2>6, <3>1 DEF Matched
  <2>8. CASE p \in {11, 13, 16}
    <3>1. Predecessors(l) = {b} /\ Sources(l) = {b}
      BY <2>1, <2>5, <2>6, <2>8 DEF ForPhi, ForNow
    <3> QED
      BY <1>2, <2>6, <3>1 DEF Matched
  <2> QED
    BY <2>4, <2>7, <2>8
<1> QED
  BY <1>1, <1>2 DEF HasPhi

(* Nothing that is not about blocks touches a PHI.                             *)
LEMMA PhiQuietMoves ==
  ASSUME TypeInv, StackInv, PhiBlocks, PhiFrames, NEW n \in 1..Len(stack),
         \A k \in 1..Len(stack) : k > n => Does(stack[k])[1] \in {"check", "callee", "return"},
         NEW regs, NEW old, Moves(n, regs, stack[n].bbs, old),
         Does(stack[n])[1] \notin PhiShaping \cup {"return"},
         \A r \in Registers : r # Does(stack[n])[2] => regs[r] = stack[n].regs[r],
         Does(stack[n])[1] \in {"check", "bind", "unbind"} => regs = stack[n].regs,
         UNCHANGED <<term, insert, phis, incoming>>
  PROVE  PhiBlocks' /\ PhiFrames'
<1>1. Len(stack) \in Nat /\ n \in Nat
  <2>1. Len(stack) \in Nat
    BY DEF TypeInv
  <2> QED
    BY <2>1
<1>2. /\ Len(stack') = n /\ version' = version
      /\ \A k \in 1..(n - 1) : stack'[k] = stack[k]
      /\ stack'[n].bbs = stack[n].bbs
      /\ \A k \in 1..n, r \in BlockRegisters : HasPhi(stack[k], r) => HasPhi(stack[k], r)'
  BY PhiMoves
<1>3. \A k \in 1..n : k \in 1..Len(stack) /\ Same(k)
  BY MovesSame DEF PhiShaping
<1>s. \A b : Settled(b) /\ (Matched(b) <=> Matched(b)')
  <2>1. \A b : Settled(b)
    BY DEF Settled, Predecessors, Sources, Blocks, Successors
  <2>2. \A b : Settled(b) => (Matched(b) <=> Matched(b)')
    BY DEF Settled, Matched
  <2> QED
    BY <2>1, <2>2
<1>4. PhiFrames'
  <2> SUFFICES ASSUME NEW k \in 1..n PROVE PhiFrame(stack[k])'
    BY <1>2 DEF PhiFrames
  <2>0. k \in 1..Len(stack) /\ PhiFrame(stack[k])
    BY <1>3 DEF PhiFrames
  <2>1. CASE k = n
    BY <2>0, <2>1, PhiQuiet
  <2>2. CASE k # n
    <3>1. k \in 1..(n - 1) /\ k < Len(stack)
      BY <1>1, <2>2
    <3>2. Does(stack[k])[1] \in Gens
      BY <2>0, <3>1 DEF StackInv, Fits
    <3> QED
      BY <1>2, <1>s, <2>0, <3>1, <3>2, PhiBelow
  <2> QED
    BY <2>1, <2>2
<1>5. PhiBlocks'
  <2>1. \A k \in 1..Len(stack'), r \in BlockRegisters :
             IsHeld(stack[k], r)' => /\ k \in 1..Len(stack) /\ IsHeld(stack[k], r)
                                     /\ stack'[k].bbs[r] = stack[k].bbs[r]
    BY <1>2, <1>3 DEF Same
  <2>2. ASSUME NEW k \in 1..Len(stack), NEW r \in BlockRegisters, HasPhi(stack[k], r)
        PROVE  \/ k \in 1..Len(stack') /\ HasPhi(stack[k], r)' /\ stack'[k].bbs[r] = stack[k].bbs[r]
               \/ k \notin 1..Len(stack') /\ \A b : b = stack[k].bbs[r] => Matched(b) /\ Matched(b)'
    <3>1. CASE k > n
      <4>1. Matched(stack[k].bbs[r])
        BY <2>2, <3>1, PhiPopped DEF PhiFrames
      <4> QED
        BY <1>1, <1>2, <1>s, <3>1, <4>1
    <3>2. CASE k = n
      BY <1>1, <1>2, <2>2, <3>2
    <3>3. CASE k \in 1..(n - 1)
      BY <1>1, <1>2, <2>2, <3>3
    <3> QED
      BY <1>1, <3>1, <3>2, <3>3
  <2>3. Blocks \subseteq Blocks' /\ Len(stack') \in Nat
    BY <1>1, <1>2 DEF Blocks
  <2> QED
    BY <1>1, <1>s, <2>1, <2>2, <2>3, PhiBlocksStay
<1> QED
  BY <1>4, <1>5

(* The innermost frame before and after its step.                              *)
LEMMA TopIf ==
  ASSUME TypeInv, StackInv, Running, PhiFrames, Top.kind = "If", Op[1] # "locate"
  PROVE  \E p, m, t, e, v :
            /\ p \in 1..24 /\ m = Top.bbs["MergeBB"] /\ t = Top.bbs["ThenBB"] /\ e = Top.bbs["ElseBB"]
            /\ v = Top.regs["PN"].block /\ IfPlace(Top) = p /\ Op = Chapter5If[p]
            /\ IfNow(p, m, t, e, v) /\ (p >= 7 => IsHeld(Top, "MergeBB"))
<1>1. Top = stack[Len(stack)] /\ Op = Does(Top) /\ Len(stack) \in 1..Len(stack)
  BY TopScript
<1>2. PICK p : p = IfPlace(Top)
  OBVIOUS
<1>3. p \in 0..24 /\ (p # 0 => Op = Chapter5If[p]) /\ (p = 0 => Op = <<"locate">>)
      /\ (p >= 7 => IsHeld(Top, "MergeBB"))
  BY <1>1, <1>2, PhiScripts
<1>4. p \in 1..24
  BY <1>3
<1>5. IfNow(p, Top.bbs["MergeBB"], Top.bbs["ThenBB"], Top.bbs["ElseBB"], Top.regs["PN"].block)
  BY <1>1, <1>2 DEF PhiFrames, PhiFrame, IfPhi
<1> QED
  BY <1>2, <1>3, <1>4, <1>5

(* The loop at whose end the innermost routine may be.                         *)
LEMMA TopFor ==
  ASSUME TypeInv, StackInv, Running, PhiFrames, IsFor(Top)
  PROVE  \E p, l, b, e, v :
            /\ p \in 1..24 /\ l = Top.bbs["LoopBB"] /\ b = Top.bbs["PreheaderBB"] /\ e = Top.bbs["LoopEndBB"]
            /\ v = Top.regs["Variable"].block /\ Top.pc = p /\ Op = Chapter5For[p]
            /\ ForNow(p, l, b, e, v) /\ (p >= 5 => IsHeld(Top, "LoopBB"))
<1>1. Top = stack[Len(stack)] /\ Op = Does(Top) /\ Len(stack) \in 1..Len(stack)
  BY TopScript
<1>2. PICK p : p = Top.pc
  OBVIOUS
<1>3. p \in 1..24 /\ Op = Chapter5For[p] /\ (p >= 5 => IsHeld(Top, "LoopBB"))
  BY <1>1, <1>2, PhiScripts
<1>4. ForNow(p, Top.bbs["LoopBB"], Top.bbs["PreheaderBB"], Top.bbs["LoopEndBB"], Top.regs["Variable"].block)
  BY <1>1, <1>2 DEF PhiFrames, PhiFrame, ForPhi
<1> QED
  BY <1>2, <1>3, <1>4

(* It goes one place further.                                                  *)
LEMMA TopNext ==
  ASSUME TypeInv, StackInv, Running, NEW regs, NEW bbs, NEW old, Moves(Len(stack), regs, bbs, old),
         Top.kind = "If" => \E q, m, t, e, v :
            /\ m = bbs["MergeBB"] /\ t = bbs["ThenBB"] /\ e = bbs["ElseBB"]
            /\ v = regs["PN"].block /\ q = IfPlace(Top) + 1 /\ IfNow(q, m, t, e, v)',
         IsFor(Top) => \E q, l, b, e, v :
            /\ l = bbs["LoopBB"] /\ b = bbs["PreheaderBB"] /\ e = bbs["LoopEndBB"]
            /\ v = regs["Variable"].block /\ q = Top.pc + 1 /\ ForNow(q, l, b, e, v)'
  PROVE  \A k : k = Len(stack) => PhiFrame(stack[k])'
<1> SUFFICES ASSUME NEW k, k = Len(stack) PROVE PhiFrame(stack[k])'
  OBVIOUS
<1>1. k \in 1..Len(stack) /\ Top = stack[k]
  BY TopScript
<1>2. /\ stack'[k].kind = Top.kind /\ stack'[k].pc = Top.pc + 1
      /\ stack'[k].bbs = bbs /\ stack'[k].regs = regs
      /\ IfPlace(stack[k])' = IfPlace(stack[k]) + 1
      /\ IsFor(stack[k])' <=> IsFor(stack[k])
  BY <1>1, PhiMoves
<1>3. ASSUME Top.kind = "If" PROVE IfPhi(stack[k])'
  <2>1. PICK q, m, t, e, v :
            /\ m = bbs["MergeBB"] /\ t = bbs["ThenBB"] /\ e = bbs["ElseBB"]
            /\ v = regs["PN"].block /\ q = IfPlace(Top) + 1 /\ IfNow(q, m, t, e, v)'
    BY <1>3
  <2>2. q = IfPlace(stack[k])'
    BY <1>1, <1>2, <2>1
  <2> QED
    BY <1>2, <2>1, <2>2 DEF IfPhi
<1>4. ASSUME IsFor(Top) PROVE ForPhi(stack[k])'
  <2>1. PICK q, l, b, e, v :
            /\ l = bbs["LoopBB"] /\ b = bbs["PreheaderBB"] /\ e = bbs["LoopEndBB"]
            /\ v = regs["Variable"].block /\ q = Top.pc + 1 /\ ForNow(q, l, b, e, v)'
    BY <1>4
  <2> QED
    BY <1>2, <2>1 DEF ForPhi
<1> QED
  BY <1>1, <1>2, <1>3, <1>4 DEF PhiFrame

(* All frames after a step of the innermost.                                   *)
LEMMA PhiFramesMove ==
  ASSUME TypeInv, StackInv, Running, PhiFrames, NEW regs, NEW bbs, NEW old, Moves(Len(stack), regs, bbs, old),
         phis \subseteq phis',
         \A k \in 1..Len(stack), r \in BlockRegisters : \A b :
             k # Len(stack) /\ IsHeld(stack[k], r) /\ b = stack[k].bbs[r] => Settled(b),
         \A k : k = Len(stack) => PhiFrame(stack[k])'
  PROVE  PhiFrames'
<1>1. Len(stack) \in 1..Len(stack) /\ Len(stack) \in Nat
  BY TopScript
<1>2. /\ Len(stack') = Len(stack) /\ version' = version
      /\ \A k \in 1..(Len(stack) - 1) : stack'[k] = stack[k]
  BY <1>1, PhiMoves
<1>3. ASSUME NEW k \in 1..Len(stack), k # Len(stack) PROVE PhiFrame(stack[k])'
  <2>1. stack'[k] = stack[k] /\ Does(stack[k])[1] \in Gens
    BY <1>1, <1>2, <1>3 DEF StackInv, Fits
  <2> QED
    BY <1>2, <1>3, <2>1, PhiBelow DEF PhiFrames
<1> QED
  BY <1>2, <1>3 DEF PhiFrames

(* What a branch does to the predecessors.                                     *)
LEMMA BranchPredecessors ==
  ASSUME TypeInv, insert \in Blocks, term[insert] = Open, NEW T, term' = [term EXCEPT ![insert] = Branch(T)]
  PROVE  /\ \A b : b \in T => Predecessors(b)' = Predecessors(b) \cup {insert}
         /\ \A b : b \notin T => Predecessors(b)' = Predecessors(b)
         /\ \A b : insert \notin Predecessors(b)
         /\ Blocks' = Blocks
<1>1. Blocks' = Blocks /\ Blocks = 1..Len(term)
  <2>1. Len(term') = Len(term)
    BY DEF TypeInv
  <2> QED
    BY <2>1 DEF Blocks
<1>2. \A p \in Blocks : term'[p] = IF p = insert THEN Branch(T) ELSE term[p]
  BY <1>1 DEF TypeInv
<1>3. term[insert].to = {} /\ term'[insert].to = T
  BY <1>2 DEF Open, Branch
<1> QED
  BY <1>1, <1>2, <1>3 DEF Predecessors, Successors

(* No step makes a block held again, but that which creates it.                *)
LEMMA HeldStay ==
  ASSUME TypeInv, StackInv, Running, Op[1] \in PhiShaping \ {"new", "detached"},
         NEW regs, NEW bbs, NEW old, Moves(Len(stack), regs, bbs, old),
         \A r \in BlockRegisters : r # Op[2] \/ Op[1] # "here" => bbs[r] = Top.bbs[r]
  PROVE  \A k \in 1..Len(stack), r \in BlockRegisters : IsHeld(stack[k], r)' =>
             IsHeld(stack[k], r) /\ stack'[k].bbs[r] = stack[k].bbs[r]
<1> SUFFICES ASSUME NEW k \in 1..Len(stack), NEW r \in BlockRegisters, IsHeld(stack[k], r)'
             PROVE  IsHeld(stack[k], r) /\ stack'[k].bbs[r] = stack[k].bbs[r]
  OBVIOUS
<1>1. CASE k # Len(stack)
  <2>1. Same(k)
    BY <1>1, TopMoves
  <2> QED
    BY <2>1 DEF Same
<1>2. CASE k = Len(stack)
  <2>1. /\ stack[k] = Top /\ stack'[k].bbs = bbs
        /\ IsHeld(stack[k], r)' <=> Held(Script, Top.pc + 1, r)
        /\ IsHeld(stack[k], r) <=> Held(Script, Top.pc, r)
    BY <1>2, TopMoves
  <2>2. Held(Script, Top.pc + 1, r)
    BY <2>1
  <2>3. Top.pc \in Nat \ {0} /\ Script[Top.pc] = Op /\ (Op[1] \in OneBlock => Op = <<Op[1], Op[2]>>)
    BY TopScript DEF Script
  <2>4. CASE Op[1] \in {"append", "here", "at", "br"}
    <3>1. PICK o, q : o = Op[1] /\ q = Op[2] /\ Script[Top.pc] = <<o, q>>
      BY <2>3, <2>4 DEF OneBlock
    <3>2. Held(Script, Top.pc, r) /\ (o = "here" => r # q)
      BY <2>2, <2>3, <2>4, <3>1, MovesHistory
    <3> QED
      BY <2>1, <3>1, <3>2
  <2>5. CASE Op[1] = "condbr"
    <3>1. Held(Script, Top.pc, r)
      BY <2>2, <2>3, <2>5, CondBrHistory
    <3> QED
      BY <2>1, <2>5, <3>1
  <2>6. CASE Op[1] \in {"phi", "incoming"}
    <3>1. Script[Top.pc][1] \notin Shaping
      BY <2>3, <2>6 DEF Shaping
    <3>2. Held(Script, Top.pc, r)
      BY <2>2, <2>3, <3>1, ShapeUnchanged
    <3> QED
      BY <2>1, <2>6, <3>2
  <2> QED
    BY <2>4, <2>5, <2>6 DEF PhiShaping, Shaping
<1> QED
  BY <1>1, <1>2

(* Where blocks and PHIs are made, the function is being built.                *)
LEMMA PhiBuilding ==
  ASSUME TypeInv, StackInv, BlockInv, PhiInv, Running, Op[1] \in PhiShaping
  PROVE  /\ Building /\ PhiBlocks /\ PhiFrames /\ insert \in Blocks
         /\ Branches /\ HeldBlocks /\ InsertBlock
         /\ Op[1] \notin {"at", "here", "append"} => term[insert] = Open
<1>1. Op[1] \notin Quiet \cup {"entry", "clear"}
  BY DEF PhiShaping, Shaping, Quiet
<1>2. Building
  BY <1>1, ReadyToBuild DEF Building, Ready
<1>3. Op[1] \notin {"at", "here", "append"} => ~HasEnded(Top)
  BY TopScript
<1> QED
  BY <1>2, <1>3 DEF BlockInv, PhiInv, InsertBlock

(* The block of a PHI stays in its register.                                   *)
LEMMA PhiRegister ==
  ASSUME TypeInv, StackInv, Running, PhiFrames, NEW r, HasPhi(Top, r), Op[1] \in {"new", "detached", "here"}
  PROVE  r # Op[2]
<1>1. CASE Top.kind = "If" /\ IfPlace(Top) >= 22 /\ r = "MergeBB"
  <2>1. PICK p \in 1..24 : IfPlace(Top) = p /\ Op = Chapter5If[p]
    BY <1>1, TopIf
  <2>2. PICK o : o = Chapter5If[p]
    OBVIOUS
  <2>3. (o[1] = "new" => p = 4) /\ (o[1] = "detached" => p \in {5, 6}) /\ (o[1] = "here" => p \in {12, 18})
    BY <2>2, IfTable
  <2> QED
    BY <1>1, <2>1, <2>2, <2>3
<1>2. CASE IsFor(Top) /\ Top.pc >= 8 /\ r = "LoopBB"
  <2>1. PICK p \in 1..24 : Top.pc = p /\ Op = Chapter5For[p]
    BY <1>2, TopFor
  <2>2. PICK o : o = Chapter5For[p]
    OBVIOUS
  <2>3. /\ o[1] = "new" => p = 4 \/ o[2] = "AfterBB"
        /\ o[1] # "detached" /\ (o[1] = "here" => p = 3 \/ o[2] = "LoopEndBB")
    BY <2>2, ForTable
  <2> QED
    BY <1>2, <2>1, <2>2, <2>3
<1> QED
  BY <1>1, <1>2 DEF HasPhi

(* A step of the innermost frame that moves the insertion point, or branches   *)
(* to blocks that the frame holds.                                             *)
LEMMA PhiShapes ==
  ASSUME TypeInv, StackInv, PhiBlocks, PhiFrames, HeldBlocks, Running,
         Op[1] \in {"append", "here", "at", "br", "condbr"},
         NEW regs, NEW bbs, NEW old, Moves(Len(stack), regs, bbs, old),
         \A r \in BlockRegisters : r # Op[2] \/ Op[1] # "here" => bbs[r] = Top.bbs[r],
         UNCHANGED <<phis, incoming>>, Blocks' = Blocks,
         \A b : Settled(b) \/ \E r \in BlockRegisters : IsHeld(Top, r) /\ Top.bbs[r] = b,
         \A k : k = Len(stack) => PhiFrame(stack[k])'
  PROVE  PhiBlocks' /\ PhiFrames'
<1>1. Len(stack) \in 1..Len(stack) /\ Len(stack) \in Nat /\ Top = stack[Len(stack)]
  BY TopScript
<1>2. PhiFrames'
  <2>1. ASSUME NEW k \in 1..Len(stack), NEW r \in BlockRegisters, NEW b,
               k # Len(stack), IsHeld(stack[k], r), b = stack[k].bbs[r]
        PROVE  Settled(b)
    <3>1. SUFFICES ASSUME NEW q \in BlockRegisters, IsHeld(Top, q), Top.bbs[q] = b PROVE FALSE
      OBVIOUS
    <3>2. IsHeld(stack[Len(stack)], q) /\ stack[Len(stack)].bbs[q] = stack[k].bbs[r]
      BY <1>1, <2>1, <3>1
    <3> QED
      BY <1>1, <2>1, <3>2 DEF HeldBlocks
  <2> QED
    BY <2>1, PhiFramesMove
<1>3. PhiBlocks'
  <2>1. /\ Len(stack') = Len(stack) /\ stack'[Len(stack)].bbs = bbs
        /\ \A k \in 1..(Len(stack) - 1) : stack'[k] = stack[k]
        /\ \A k \in 1..Len(stack), r \in BlockRegisters : HasPhi(stack[k], r) => HasPhi(stack[k], r)'
    <3>1. PICK n : n = Len(stack)
      OBVIOUS
    <3>2. n \in 1..Len(stack) /\ Moves(n, regs, bbs, old)
      BY <1>1, <3>1
    <3>3. /\ Len(stack') = n /\ stack'[n].bbs = bbs
          /\ \A k \in 1..(n - 1) : stack'[k] = stack[k]
          /\ \A k \in 1..n, r \in BlockRegisters : HasPhi(stack[k], r) => HasPhi(stack[k], r)'
      BY <3>2, PhiMoves
    <3> QED
      BY <3>1, <3>3
  <2>2. \A k \in 1..Len(stack), r \in BlockRegisters : IsHeld(stack[k], r)' =>
             IsHeld(stack[k], r) /\ stack'[k].bbs[r] = stack[k].bbs[r]
    BY HeldStay DEF PhiShaping, Shaping
  <2>3. ASSUME NEW k \in 1..Len(stack), NEW r \in BlockRegisters, HasPhi(stack[k], r)
        PROVE  HasPhi(stack[k], r)' /\ stack'[k].bbs[r] = stack[k].bbs[r]
    <3>1. CASE k = Len(stack)
      <4>1. r # Op[2] \/ Op[1] # "here"
        <5>1. HasPhi(Top, r)
          BY <1>1, <2>3, <3>1
        <5> QED
          BY <5>1, PhiRegister
      <4> QED
        BY <1>1, <2>1, <2>3, <3>1, <4>1
    <3>2. CASE k # Len(stack)
      <4>1. k \in 1..(Len(stack) - 1)
        BY <1>1, <3>2
      <4>2. stack'[k] = stack[k]
        BY <2>1, <4>1
      <4> QED
        BY <2>1, <2>3, <4>2
    <3> QED
      BY <3>1, <3>2
  <2>4. ASSUME NEW b \in phis PROVE Owned(b) \/ (Matched(b) => Matched(b)')
    <3>1. CASE Settled(b)
      BY <3>1 DEF Settled, Matched
    <3>2. CASE ~Settled(b)
      <4>1. PICK r \in BlockRegisters : IsHeld(Top, r) /\ Top.bbs[r] = b
        BY <3>2
      <4> QED
        BY <1>1, <4>1 DEF PhiBlocks, HeldPhis, Owned
    <3> QED
      BY <3>1, <3>2
  <2> QED
    BY <1>1, <2>1, <2>2, <2>3, <2>4, PhiBlocksStay
<1> QED
  BY <1>2, <1>3

(* AppendBlock, GetInsertBlock and SetInsertPoint leave all branches alone.    *)
LEMMA AllSettled ==
  ASSUME UNCHANGED <<term, incoming>> PROVE (\A b : Settled(b)) /\ Blocks' = Blocks
BY DEF Settled, Predecessors, Sources, Blocks, Successors

(* A block that is appended changes no branch.                                 *)
LEMMA PhiAppend ==
  ASSUME TypeInv, StackInv, BlockInv, PhiInv, AppendBlock
  PROVE  PhiBlocks' /\ PhiFrames'
<1>1. /\ Running /\ Op[1] = "append" /\ UNCHANGED <<term, insert, phis, incoming>>
      /\ Moves(Len(stack), Top.regs, Top.bbs, Top.old)
  BY StackSteps DEF AppendBlock, Doing, values
<1>2. PhiBlocks /\ PhiFrames /\ HeldBlocks
  BY <1>1, PhiBuilding DEF PhiShaping, Shaping
<1>3. (\A b : Settled(b)) /\ Blocks' = Blocks
  BY <1>1, AllSettled
<1>4. ASSUME Top.kind = "If"
      PROVE  \E q, m, t, e, v :
            /\ m = Top.bbs["MergeBB"] /\ t = Top.bbs["ThenBB"] /\ e = Top.bbs["ElseBB"]
            /\ v = Top.regs["PN"].block /\ q = IfPlace(Top) + 1 /\ IfNow(q, m, t, e, v)'
  <2>1. PICK p, m, t, e, v :
            /\ p \in 1..24 /\ m = Top.bbs["MergeBB"] /\ t = Top.bbs["ThenBB"] /\ e = Top.bbs["ElseBB"]
            /\ v = Top.regs["PN"].block /\ IfPlace(Top) = p /\ Op = Chapter5If[p]
            /\ IfNow(p, m, t, e, v)
    BY <1>1, <1>2, <1>4, TopIf
  <2>2. p \in {13, 19}
    BY <1>1, <2>1, IfTable
  <2>3. PICK q : q = p + 1
    OBVIOUS
  <2>4. Predecessors(m)' = Predecessors(m)
    BY <1>3 DEF Settled
  <2>5. IfNow(q, m, t, e, v)'
    BY <2>1, <2>2, <2>3, <2>4 DEF IfNow
  <2> QED
    BY <2>1, <2>3, <2>5
<1>5. ~IsFor(Top)
  <2>1. SUFFICES ASSUME IsFor(Top) PROVE FALSE
    OBVIOUS
  <2>2. PICK p \in 1..24 : Op = Chapter5For[p]
    BY <1>1, <1>2, <2>1, TopFor
  <2> QED
    BY <1>1, <2>2, ForTable
<1>6. \A k : k = Len(stack) => PhiFrame(stack[k])'
  BY <1>1, <1>4, <1>5, TopNext
<1> QED
  BY <1>1, <1>2, <1>3, <1>6, PhiShapes

(* GetInsertBlock: the register has the block that branched.                   *)
LEMMA PhiHere ==
  ASSUME TypeInv, StackInv, BlockInv, PhiInv, GetInsertBlock
  PROVE  PhiBlocks' /\ PhiFrames'
<1>0. PICK bbs : bbs = [Top.bbs EXCEPT ![Op[2]] = insert]
  OBVIOUS
<1>1. /\ Running /\ Op[1] = "here" /\ UNCHANGED <<term, insert, phis, incoming>>
      /\ Moves(Len(stack), Top.regs, bbs, Top.old)
  BY <1>0, StackSteps DEF GetInsertBlock, Doing, values, blocks
<1>2. PhiBlocks /\ PhiFrames /\ HeldBlocks
  BY <1>1, PhiBuilding DEF PhiShaping, Shaping
<1>3. (\A b : Settled(b)) /\ Blocks' = Blocks
  BY <1>1, AllSettled
<1>b. \A r \in BlockRegisters : bbs[r] = IF r = Op[2] THEN insert ELSE Top.bbs[r]
  BY <1>0, TopScript, <1>1 DEF BBsType
<1>4. ASSUME Top.kind = "If"
      PROVE  \E q, m, t, e, v :
            /\ m = bbs["MergeBB"] /\ t = bbs["ThenBB"] /\ e = bbs["ElseBB"]
            /\ v = Top.regs["PN"].block /\ q = IfPlace(Top) + 1 /\ IfNow(q, m, t, e, v)'
  <2>1. PICK p, m, t, e, v :
            /\ p \in 1..24 /\ m = Top.bbs["MergeBB"] /\ t = Top.bbs["ThenBB"] /\ e = Top.bbs["ElseBB"]
            /\ v = Top.regs["PN"].block /\ IfPlace(Top) = p /\ Op = Chapter5If[p]
            /\ IfNow(p, m, t, e, v)
    BY <1>1, <1>2, <1>4, TopIf
  <2>2. (p = 12 /\ Op[2] = "ThenBB") \/ (p = 18 /\ Op[2] = "ElseBB")
    <3>1. Chapter5If[p][1] = "here"
      BY <1>1, <2>1
    <3>2. (p = 12 /\ Chapter5If[p] = <<"here", "ThenBB">>) \/ (p = 18 /\ Chapter5If[p] = <<"here", "ElseBB">>)
      BY <2>1, <3>1, IfTable, Zenon
    <3> QED
      BY <2>1, <3>2
  <2>3. PICK q, t2, e2 : q = p + 1 /\ t2 = bbs["ThenBB"] /\ e2 = bbs["ElseBB"]
    OBVIOUS
  <2>4. Predecessors(m)' = Predecessors(m) /\ insert' = insert
    BY <1>1, <1>3 DEF Settled
  <2>5. m = bbs["MergeBB"]
    BY <1>b, <2>1, <2>2 DEF BlockRegisters
  <2>6. CASE p = 12
    <3>1. q = 13 /\ t2 = insert
      BY <1>b, <2>2, <2>3, <2>6 DEF BlockRegisters
    <3>2. Predecessors(m)' = {t2}
      BY <2>1, <2>4, <2>6, <3>1 DEF IfNow
    <3>3. IfNow(q, m, t2, e2, v)'
      BY <3>1, <3>2 DEF IfNow
    <3> QED
      BY <2>1, <2>3, <2>5, <3>3
  <2>7. CASE p = 18
    <3>1. q = 19 /\ t2 = t /\ e2 = insert
      BY <1>b, <2>1, <2>2, <2>3, <2>7 DEF BlockRegisters
    <3>2. Predecessors(m)' = {t2, e2} /\ t2 # e2
      BY <2>1, <2>4, <2>7, <3>1 DEF IfNow
    <3>3. IfNow(q, m, t2, e2, v)'
      BY <3>1, <3>2 DEF IfNow
    <3> QED
      BY <2>1, <2>3, <2>5, <3>3
  <2> QED
    BY <2>2, <2>6, <2>7
<1>5. ASSUME IsFor(Top)
      PROVE  \E q, l, b, e, v :
            /\ l = bbs["LoopBB"] /\ b = bbs["PreheaderBB"] /\ e = bbs["LoopEndBB"]
            /\ v = Top.regs["Variable"].block /\ q = Top.pc + 1 /\ ForNow(q, l, b, e, v)'
  <2>1. PICK p, l, b, e, v :
            /\ p \in 1..24 /\ l = Top.bbs["LoopBB"] /\ b = Top.bbs["PreheaderBB"] /\ e = Top.bbs["LoopEndBB"]
            /\ v = Top.regs["Variable"].block /\ Top.pc = p /\ Op = Chapter5For[p]
            /\ ForNow(p, l, b, e, v)
    BY <1>1, <1>2, <1>5, TopFor
  <2>2. (p = 3 /\ Op[2] = "PreheaderBB") \/ (p = 18 /\ Op[2] = "LoopEndBB")
    <3>1. Chapter5For[p][1] = "here"
      BY <1>1, <2>1
    <3>2. (p = 3 /\ Chapter5For[p] = <<"here", "PreheaderBB">>) \/ (p = 18 /\ Chapter5For[p] = <<"here", "LoopEndBB">>)
      BY <2>1, <3>1, ForTable, Zenon
    <3> QED
      BY <2>1, <3>2
  <2>3. PICK q, b2, e2 : q = p + 1 /\ b2 = bbs["PreheaderBB"] /\ e2 = bbs["LoopEndBB"]
    OBVIOUS
  <2>4. /\ Predecessors(l)' = Predecessors(l) /\ Sources(l)' = Sources(l)
        /\ insert' = insert /\ phis' = phis
    BY <1>1, <1>3 DEF Settled
  <2>5. l = bbs["LoopBB"]
    BY <1>b, <2>1, <2>2 DEF BlockRegisters
  <2>6. CASE p = 3
    <3>1. q = 4 /\ b2 = insert
      BY <1>b, <2>2, <2>3, <2>6 DEF BlockRegisters
    <3>2. ForNow(q, l, b2, e2, v)'
      BY <2>4, <3>1 DEF ForNow
    <3> QED
      BY <2>1, <2>3, <2>5, <3>2
  <2>7. CASE p = 18
    <3>1. q = 19 /\ b2 = b /\ e2 = insert
      BY <1>b, <2>1, <2>2, <2>3, <2>7 DEF BlockRegisters
    <3>2. Predecessors(l)' = {b2} /\ Sources(l)' = {b2} /\ l \in phis' /\ v = l
      BY <2>1, <2>4, <2>7, <3>1 DEF ForNow
    <3>3. ForNow(q, l, b2, e2, v)'
      BY <2>4, <3>1, <3>2 DEF ForNow
    <3> QED
      BY <2>1, <2>3, <2>5, <3>3
  <2> QED
    BY <2>2, <2>6, <2>7
<1>6. \A k : k = Len(stack) => PhiFrame(stack[k])'
  BY <1>1, <1>2, <1>4, <1>5, TopNext
<1> QED
  <2>1. \A r \in BlockRegisters : r # Op[2] \/ Op[1] # "here" => bbs[r] = Top.bbs[r]
    BY <1>0, <1>1, TopScript DEF BBsType
  <2> QED
    BY <1>1, <1>2, <1>3, <1>6, <2>1, PhiShapes

(* SetInsertPoint: the block of the PHI becomes the insertion point.           *)
LEMMA PhiAt ==
  ASSUME TypeInv, StackInv, BlockInv, PhiInv, SetInsertPoint
  PROVE  PhiBlocks' /\ PhiFrames'
<1>1. /\ Running /\ Op[1] = "at" /\ UNCHANGED <<term, phis, incoming>> /\ insert' = Top.bbs[Op[2]]
      /\ Moves(Len(stack), Top.regs, Top.bbs, Top.old)
  BY StackSteps DEF SetInsertPoint, Doing, values, Block
<1>2. PhiBlocks /\ PhiFrames /\ HeldBlocks
  BY <1>1, PhiBuilding DEF PhiShaping, Shaping
<1>3. (\A b : Settled(b)) /\ Blocks' = Blocks
  BY <1>1, AllSettled
<1>4. ASSUME Top.kind = "If"
      PROVE  \E q, m, t, e, v :
            /\ m = Top.bbs["MergeBB"] /\ t = Top.bbs["ThenBB"] /\ e = Top.bbs["ElseBB"]
            /\ v = Top.regs["PN"].block /\ q = IfPlace(Top) + 1 /\ IfNow(q, m, t, e, v)'
  <2>1. PICK p, m, t, e, v :
            /\ p \in 1..24 /\ m = Top.bbs["MergeBB"] /\ t = Top.bbs["ThenBB"] /\ e = Top.bbs["ElseBB"]
            /\ v = Top.regs["PN"].block /\ IfPlace(Top) = p /\ Op = Chapter5If[p]
            /\ IfNow(p, m, t, e, v)
    BY <1>1, <1>2, <1>4, TopIf
  <2>2. p \in {8, 14} \/ (p = 20 /\ Op[2] = "MergeBB")
    <3>1. Chapter5If[p][1] = "at"
      BY <1>1, <2>1
    <3>2. (p \in {8, 14}) \/ (p = 20 /\ Chapter5If[p] = <<"at", "MergeBB">>)
      BY <2>1, <3>1, IfTable, Zenon
    <3> QED
      BY <2>1, <3>2
  <2>3. PICK q : q = p + 1
    OBVIOUS
  <2>4. Predecessors(m)' = Predecessors(m)
    BY <1>1, <1>3 DEF Settled
  <2>5. IfNow(q, m, t, e, v)'
    <3>1. CASE p = 8
      BY <2>1, <2>3, <2>4, <3>1 DEF IfNow
    <3>2. CASE p = 14
      BY <2>1, <2>3, <2>4, <3>2 DEF IfNow
    <3>3. CASE p = 20
      <4>1. insert' = m /\ q = 21
        BY <1>1, <2>1, <2>2, <2>3, <3>3
      <4> QED
        BY <2>1, <2>4, <3>3, <4>1 DEF IfNow
    <3> QED
      BY <2>2, <3>1, <3>2, <3>3
  <2> QED
    BY <2>1, <2>3, <2>5
<1>5. ASSUME IsFor(Top)
      PROVE  \E q, l, b, e, v :
            /\ l = Top.bbs["LoopBB"] /\ b = Top.bbs["PreheaderBB"] /\ e = Top.bbs["LoopEndBB"]
            /\ v = Top.regs["Variable"].block /\ q = Top.pc + 1 /\ ForNow(q, l, b, e, v)'
  <2>1. PICK p, l, b, e, v :
            /\ p \in 1..24 /\ l = Top.bbs["LoopBB"] /\ b = Top.bbs["PreheaderBB"] /\ e = Top.bbs["LoopEndBB"]
            /\ v = Top.regs["Variable"].block /\ Top.pc = p /\ Op = Chapter5For[p]
            /\ ForNow(p, l, b, e, v)
    BY <1>1, <1>2, <1>5, TopFor
  <2>2. (p = 6 /\ Op[2] = "LoopBB") \/ (p = 21)
    <3>1. Chapter5For[p][1] = "at"
      BY <1>1, <2>1
    <3>2. (p = 6 /\ Chapter5For[p] = <<"at", "LoopBB">>) \/ (p = 21)
      BY <2>1, <3>1, ForTable, Zenon
    <3> QED
      BY <2>1, <3>2
  <2>3. PICK q : q = p + 1
    OBVIOUS
  <2>4. Predecessors(l)' = Predecessors(l) /\ Sources(l)' = Sources(l) /\ phis' = phis
    BY <1>1, <1>3 DEF Settled
  <2>5. ForNow(q, l, b, e, v)'
    <3>1. CASE p = 6
      <4>1. insert' = l /\ q = 7
        BY <1>1, <2>1, <2>2, <2>3, <3>1
      <4> QED
        BY <2>1, <2>4, <3>1, <4>1 DEF ForNow
    <3>2. CASE p = 21
      BY <2>1, <2>3, <2>4, <3>2 DEF ForNow
    <3> QED
      BY <2>2, <3>1, <3>2
  <2> QED
    BY <2>1, <2>3, <2>5
<1>6. \A k : k = Len(stack) => PhiFrame(stack[k])'
  BY <1>1, <1>2, <1>4, <1>5, TopNext
<1> QED
  BY <1>1, <1>2, <1>3, <1>6, PhiShapes

(* CreateBr: the target of the branch has one predecessor more.                *)
LEMMA PhiBr ==
  ASSUME TypeInv, StackInv, BlockInv, PhiInv, CreateBr
  PROVE  PhiBlocks' /\ PhiFrames'
<1>0. PICK c, T : c = Top.bbs[Op[2]] /\ T = {c}
  OBVIOUS
<1>1. /\ Running /\ Op[1] = "br" /\ UNCHANGED <<insert, phis, incoming>>
      /\ term' = [term EXCEPT ![insert] = Branch(T)]
      /\ Moves(Len(stack), Top.regs, Top.bbs, Top.old)
  BY <1>0, StackSteps DEF CreateBr, Doing, values, Block
<1>2. PhiBlocks /\ PhiFrames /\ HeldBlocks /\ insert \in Blocks /\ term[insert] = Open
  BY <1>1, PhiBuilding DEF PhiShaping, Shaping
<1>3. /\ \A b : b \in T => Predecessors(b)' = Predecessors(b) \cup {insert}
      /\ \A b : b \notin T => Predecessors(b)' = Predecessors(b)
      /\ \A b : insert \notin Predecessors(b)
      /\ Blocks' = Blocks
  BY <1>1, <1>2, BranchPredecessors
<1>s. \A b : Sources(b)' = Sources(b)
  BY <1>1 DEF Sources
<1>h. Op[2] \in BlockRegisters /\ IsHeld(Top, Op[2])
  <2>1. PICK q : q = Op[2]
    OBVIOUS
  <2>2. /\ q \in BlockRegisters /\ Top.pc \in DOMAIN Script /\ Script[Top.pc] = Op
        /\ Splits(Script)
    BY <1>1, <2>1, TopScript DEF OneBlock, Script
  <2> QED
    BY <1>1, <2>1, <2>2 DEF Splits, BranchesAt, IsHeld, Script
<1>4. ASSUME Top.kind = "If"
      PROVE  \E q, m, t, e, v :
            /\ m = Top.bbs["MergeBB"] /\ t = Top.bbs["ThenBB"] /\ e = Top.bbs["ElseBB"]
            /\ v = Top.regs["PN"].block /\ q = IfPlace(Top) + 1 /\ IfNow(q, m, t, e, v)'
  <2>1. PICK p, m, t, e, v :
            /\ p \in 1..24 /\ m = Top.bbs["MergeBB"] /\ t = Top.bbs["ThenBB"] /\ e = Top.bbs["ElseBB"]
            /\ v = Top.regs["PN"].block /\ IfPlace(Top) = p /\ Op = Chapter5If[p]
            /\ IfNow(p, m, t, e, v)
    BY <1>1, <1>2, <1>4, TopIf
  <2>2. p \in {11, 17} /\ Op[2] = "MergeBB"
    <3>1. Chapter5If[p][1] = "br"
      BY <1>1, <2>1
    <3>2. p \in {11, 17} /\ Chapter5If[p] = <<"br", "MergeBB">>
      BY <2>1, <3>1, IfTable
    <3> QED
      BY <2>1, <3>2
  <2>3. PICK q : q = p + 1
    OBVIOUS
  <2>4. Predecessors(m)' = Predecessors(m) \cup {insert} /\ insert \notin Predecessors(m)
    BY <1>0, <1>3, <2>1, <2>2
  <2>5. IfNow(q, m, t, e, v)'
    <3>1. CASE p = 11
      <4>1. Predecessors(m)' = {insert'} /\ q = 12
        BY <1>1, <2>1, <2>3, <2>4, <3>1 DEF IfNow
      <4> QED
        BY <4>1 DEF IfNow
    <3>2. CASE p = 17
      <4>1. Predecessors(m) = {t}
        BY <2>1, <3>2 DEF IfNow
      <4>2. Predecessors(m)' = {t, insert'} /\ t # insert' /\ q = 18
        BY <1>1, <2>3, <2>4, <3>2, <4>1
      <4> QED
        BY <4>2 DEF IfNow
    <3> QED
      BY <2>2, <3>1, <3>2
  <2> QED
    BY <2>1, <2>3, <2>5
<1>5. ASSUME IsFor(Top)
      PROVE  \E q, l, b, e, v :
            /\ l = Top.bbs["LoopBB"] /\ b = Top.bbs["PreheaderBB"] /\ e = Top.bbs["LoopEndBB"]
            /\ v = Top.regs["Variable"].block /\ q = Top.pc + 1 /\ ForNow(q, l, b, e, v)'
  <2>1. PICK p, l, b, e, v :
            /\ p \in 1..24 /\ l = Top.bbs["LoopBB"] /\ b = Top.bbs["PreheaderBB"] /\ e = Top.bbs["LoopEndBB"]
            /\ v = Top.regs["Variable"].block /\ Top.pc = p /\ Op = Chapter5For[p]
            /\ ForNow(p, l, b, e, v)
    BY <1>1, <1>2, <1>5, TopFor
  <2>2. p = 5 /\ Op[2] = "LoopBB"
    <3>1. Chapter5For[p][1] = "br"
      BY <1>1, <2>1
    <3>2. p = 5 /\ Chapter5For[p] = <<"br", "LoopBB">>
      BY <2>1, <3>1, ForTable
    <3> QED
      BY <2>1, <3>2
  <2>3. PICK q : q = p + 1
    OBVIOUS
  <2>4. Predecessors(l)' = Predecessors(l) \cup {insert}
    BY <1>0, <1>3, <2>1, <2>2
  <2>5. Predecessors(l) = {} /\ insert = b
    BY <2>1, <2>2 DEF ForNow
  <2>6. Predecessors(l)' = {b} /\ q = 6
    BY <2>2, <2>3, <2>4, <2>5
  <2>7. ForNow(q, l, b, e, v)'
    BY <2>6 DEF ForNow
  <2> QED
    BY <2>1, <2>3, <2>7
<1>6. \A k : k = Len(stack) => PhiFrame(stack[k])'
  BY <1>1, <1>2, <1>4, <1>5, TopNext
<1>7. \A b : Settled(b) \/ \E r \in BlockRegisters : IsHeld(Top, r) /\ Top.bbs[r] = b
  <2> SUFFICES ASSUME NEW b, b \in T PROVE \E r \in BlockRegisters : IsHeld(Top, r) /\ Top.bbs[r] = b
    BY <1>3, <1>s DEF Settled
  <2> QED
    BY <1>0, <1>h
<1> QED
  BY <1>1, <1>2, <1>3, <1>6, <1>7, PhiShapes

(* CreateCondBr: a loop's block has its second predecessor; an if's blocks are *)
(* not the one of its PHI.                                                     *)
LEMMA PhiCondBr ==
  ASSUME TypeInv, StackInv, BlockInv, PhiInv, CreateCondBr
  PROVE  PhiBlocks' /\ PhiFrames'
<1>0. PICK c, d, T : c = Top.bbs[Op[3]] /\ d = Top.bbs[Op[4]] /\ T = {c, d}
  OBVIOUS
<1>1. /\ Running /\ Op[1] = "condbr" /\ UNCHANGED <<insert, phis, incoming>>
      /\ term' = [term EXCEPT ![insert] = Branch(T)]
      /\ Moves(Len(stack), Top.regs, Top.bbs, Top.old)
  BY <1>0, StackSteps DEF CreateCondBr, Doing, Block
<1>2. /\ PhiBlocks /\ PhiFrames /\ HeldBlocks /\ insert \in Blocks /\ term[insert] = Open
  BY <1>1, PhiBuilding DEF PhiShaping, Shaping
<1>3. /\ \A b : b \in T => Predecessors(b)' = Predecessors(b) \cup {insert}
      /\ \A b : b \notin T => Predecessors(b)' = Predecessors(b)
      /\ \A b : insert \notin Predecessors(b)
      /\ Blocks' = Blocks
  BY <1>1, <1>2, BranchPredecessors
<1>s. \A b : Sources(b)' = Sources(b)
  BY <1>1 DEF Sources
<1>h. /\ Op[3] \in BlockRegisters /\ IsHeld(Top, Op[3])
      /\ Op[4] \in BlockRegisters /\ IsHeld(Top, Op[4])
  <2>1. PICK p, q : p = Op[3] /\ q = Op[4]
    OBVIOUS
  <2>2. /\ p \in BlockRegisters /\ q \in BlockRegisters
    BY <1>1, <2>1, OperandsTyped
  <2>3. Top.pc \in DOMAIN Script /\ Script[Top.pc] = Op /\ Splits(Script)
    BY <1>1, TopScript DEF Script
  <2> QED
    BY <1>1, <2>1, <2>2, <2>3 DEF Splits, BranchesAt, IsHeld, Script
<1>4. ASSUME Top.kind = "If"
      PROVE  \E q, m, t, e, v :
            /\ m = Top.bbs["MergeBB"] /\ t = Top.bbs["ThenBB"] /\ e = Top.bbs["ElseBB"]
            /\ v = Top.regs["PN"].block /\ q = IfPlace(Top) + 1 /\ IfNow(q, m, t, e, v)'
  <2>1. PICK p, m, t, e, v :
            /\ p \in 1..24 /\ m = Top.bbs["MergeBB"] /\ t = Top.bbs["ThenBB"] /\ e = Top.bbs["ElseBB"]
            /\ v = Top.regs["PN"].block /\ IfPlace(Top) = p /\ Op = Chapter5If[p]
            /\ IfNow(p, m, t, e, v) /\ (p >= 7 => IsHeld(Top, "MergeBB"))
    BY <1>1, <1>2, <1>4, TopIf
  <2>2. p = 7 /\ Op[3] = "ThenBB" /\ Op[4] = "ElseBB"
    <3>1. Chapter5If[p][1] = "condbr"
      BY <1>1, <2>1
    <3>2. p = 7 /\ Chapter5If[p] = <<"condbr", "cond", "ThenBB", "ElseBB">>
      BY <2>1, <3>1, IfTable
    <3> QED
      BY <2>1, <3>2
  <2>3. PICK q : q = p + 1
    OBVIOUS
  <2>4. m \notin T
    <3>1. IsHeld(Top, "MergeBB") /\ IsHeld(Top, "ThenBB") /\ IsHeld(Top, "ElseBB")
      BY <1>h, <2>1, <2>2
    <3>2. Top = stack[Len(stack)] /\ Len(stack) \in 1..Len(stack)
      BY <1>1, TopScript
    <3>3. Top.bbs["MergeBB"] # Top.bbs["ThenBB"] /\ Top.bbs["MergeBB"] # Top.bbs["ElseBB"]
      BY <1>2, <3>1, <3>2 DEF HeldBlocks, BlockRegisters
    <3> QED
      BY <1>0, <2>1, <2>2, <3>3
  <2>5. Predecessors(m)' = {} /\ q = 8
    <3>1. Predecessors(m)' = Predecessors(m)
      BY <1>3, <2>4
    <3>2. Predecessors(m) = {}
      BY <2>1, <2>2 DEF IfNow
    <3> QED
      BY <2>2, <2>3, <3>1, <3>2
  <2>6. IfNow(q, m, t, e, v)'
    BY <2>5 DEF IfNow
  <2> QED
    BY <2>1, <2>3, <2>6
<1>5. ASSUME IsFor(Top)
      PROVE  \E q, l, b, e, v :
            /\ l = Top.bbs["LoopBB"] /\ b = Top.bbs["PreheaderBB"] /\ e = Top.bbs["LoopEndBB"]
            /\ v = Top.regs["Variable"].block /\ q = Top.pc + 1 /\ ForNow(q, l, b, e, v)'
  <2>1. PICK p, l, b, e, v :
            /\ p \in 1..24 /\ l = Top.bbs["LoopBB"] /\ b = Top.bbs["PreheaderBB"] /\ e = Top.bbs["LoopEndBB"]
            /\ v = Top.regs["Variable"].block /\ Top.pc = p /\ Op = Chapter5For[p]
            /\ ForNow(p, l, b, e, v)
    BY <1>1, <1>2, <1>5, TopFor
  <2>2. p = 20 /\ Op[3] = "LoopBB"
    <3>1. Chapter5For[p][1] = "condbr"
      BY <1>1, <2>1
    <3>2. p = 20 /\ Chapter5For[p] = <<"condbr", "EndCond", "LoopBB", "AfterBB">>
      BY <2>1, <3>1, ForTable
    <3> QED
      BY <2>1, <3>2
  <2>3. PICK q : q = p + 1
    OBVIOUS
  <2>4. Predecessors(l)' = Predecessors(l) \cup {insert} /\ insert \notin Predecessors(l)
    BY <1>0, <1>3, <2>1, <2>2
  <2>5. Predecessors(l) = {b} /\ insert = e /\ l \in phis /\ v = l /\ Sources(l) = {b}
    BY <2>1, <2>2 DEF ForNow
  <2>6. Predecessors(l)' = {b, e} /\ b # e /\ q = 21 /\ Sources(l)' = {b} /\ l \in phis' /\ v = l
    BY <1>1, <1>s, <2>2, <2>3, <2>4, <2>5
  <2>7. ForNow(q, l, b, e, v)'
    BY <2>6 DEF ForNow
  <2> QED
    BY <2>1, <2>3, <2>7
<1>6. \A k : k = Len(stack) => PhiFrame(stack[k])'
  BY <1>1, <1>2, <1>4, <1>5, TopNext
<1>7. \A b : Settled(b) \/ \E r \in BlockRegisters : IsHeld(Top, r) /\ Top.bbs[r] = b
  <2> SUFFICES ASSUME NEW b, b \in T PROVE \E r \in BlockRegisters : IsHeld(Top, r) /\ Top.bbs[r] = b
    BY <1>3, <1>s DEF Settled
  <2> QED
    BY <1>0, <1>h
<1> QED
  BY <1>1, <1>2, <1>3, <1>6, <1>7, PhiShapes

(* A step of the innermost frame that adds to no branch keeps the PHIs of the  *)
(* other blocks.                                                               *)
LEMMA PhiTopMoves ==
  ASSUME TypeInv, StackInv, Running, PhiFrames, NEW regs, NEW bbs, NEW old, Moves(Len(stack), regs, bbs, old),
         \A r \in BlockRegisters : r # Op[2] \/ Op[1] \notin {"new", "detached", "here"} => bbs[r] = Top.bbs[r]
  PROVE  /\ Len(stack') = Len(stack) /\ Len(stack) \in Nat
         /\ \A k \in 1..Len(stack), r \in BlockRegisters : HasPhi(stack[k], r) =>
               HasPhi(stack[k], r)' /\ stack'[k].bbs[r] = stack[k].bbs[r]
<1>1. Len(stack) \in 1..Len(stack) /\ Len(stack) \in Nat /\ Top = stack[Len(stack)]
  BY TopScript
<1>2. PICK n : n = Len(stack)
  OBVIOUS
<1>3. n \in 1..Len(stack) /\ Moves(n, regs, bbs, old)
  BY <1>1, <1>2
<1>4. /\ Len(stack') = n /\ stack'[n].bbs = bbs
      /\ \A k \in 1..(n - 1) : stack'[k] = stack[k]
      /\ \A k \in 1..n, r \in BlockRegisters : HasPhi(stack[k], r) => HasPhi(stack[k], r)'
  BY <1>3, PhiMoves
<1>5. ASSUME NEW k \in 1..Len(stack), NEW r \in BlockRegisters, HasPhi(stack[k], r)
      PROVE  stack'[k].bbs[r] = stack[k].bbs[r]
  <2>1. CASE k = n
    <3>1. HasPhi(Top, r)
      BY <1>1, <1>2, <1>5, <2>1
    <3>2. r # Op[2] \/ Op[1] \notin {"new", "detached", "here"}
      BY <3>1, PhiRegister
    <3> QED
      BY <1>1, <1>2, <1>4, <2>1, <3>2
  <2>2. CASE k # n
    <3>1. k \in 1..(n - 1)
      BY <1>1, <1>2, <2>2
    <3> QED
      BY <1>4, <3>1
  <2> QED
    BY <2>1, <2>2
<1> QED
  BY <1>1, <1>2, <1>4, <1>5

(* NewBlock: nothing branches to the new block, and no PHI is in it.           *)
LEMMA PhiNew ==
  ASSUME TypeInv, StackInv, BlockInv, PhiInv, NewBlock
  PROVE  PhiBlocks' /\ PhiFrames'
<1>0. PICK n, q, b, bbs : n = Len(stack) /\ q = Op[2] /\ b = Len(term) + 1 /\ bbs = [Top.bbs EXCEPT ![q] = b]
  OBVIOUS
<1>1. /\ Running /\ Op[1] \in {"new", "detached"} /\ UNCHANGED <<insert, phis, incoming>>
      /\ term' = Append(term, Open)
      /\ Moves(Len(stack), Top.regs, bbs, Top.old)
  BY <1>0, StackSteps DEF NewBlock, Doing, values
<1>2. PhiBlocks /\ PhiFrames /\ HeldBlocks /\ Branches /\ insert \in Blocks
  BY <1>1, PhiBuilding DEF PhiShaping, Shaping
<1>3. /\ Op = <<Op[1], q>> /\ q \in BlockRegisters /\ Top.bbs \in BBsType
      /\ Op = Script[Top.pc] /\ Top.pc \in Nat \ {0} /\ CreatesAt(Script, Top.pc)
      /\ n \in 1..Len(stack) /\ n \in Nat \ {0}
  BY <1>0, <1>1, TopScript DEF OneBlock, Splits, Script
<1>4. \A r : Held(Script, Top.pc + 1, r) <=> Held(Script, Top.pc, r) \/ r = q
  <2>1. Script[Top.pc] = <<Op[1], q>>
    BY <1>3
  <2> QED
    BY <1>1, <1>3, <2>1, CreatesHistory
<1>5. /\ Blocks' = Blocks \cup {b} /\ b \notin Blocks
      /\ \A c \in Blocks : term'[c] = term[c]
      /\ term'[b].to = {} /\ \A c \in Blocks : term[c].to \subseteq Blocks
  <2>1. term \in Seq(Terminators) /\ Open \in Terminators /\ Open.to = {} /\ Len(term) \in Nat
    BY DEF TypeInv, Open, Terminators
  <2>2. /\ Len(term') = Len(term) + 1 /\ \A c \in 1..Len(term) : term'[c] = term[c]
        /\ term'[Len(term) + 1] = Open
    BY <1>1, <2>1, AppendProperties
  <2>3. 1..(Len(term) + 1) = 1..Len(term) \cup {b} /\ b \notin 1..Len(term)
    BY <1>0, <2>1
  <2> QED
    BY <1>0, <1>2, <2>1, <2>2, <2>3 DEF Blocks, Branches
<1>6. \A c : Settled(c)
  BY <1>1, <1>5 DEF Settled, Predecessors, Sources, Successors
<1>7. Predecessors(b)' = {}
  BY <1>5 DEF Predecessors, Successors
<1>b. \A r \in BlockRegisters : bbs[r] = IF r = q THEN b ELSE Top.bbs[r]
  BY <1>0, <1>3 DEF BBsType
<1>8. ASSUME Top.kind = "If"
      PROVE  \E p, m, t, e, v :
            /\ m = bbs["MergeBB"] /\ t = bbs["ThenBB"] /\ e = bbs["ElseBB"]
            /\ v = Top.regs["PN"].block /\ p = IfPlace(Top) + 1 /\ IfNow(p, m, t, e, v)'
  <2>1. PICK p : p \in 1..24 /\ IfPlace(Top) = p /\ Op = Chapter5If[p]
    BY <1>1, <1>2, <1>8, TopIf
  <2>2. p \in {4, 5} \/ (p = 6 /\ q = "MergeBB")
    <3>1. Chapter5If[p][1] \in {"new", "detached"}
      BY <1>1, <2>1
    <3>2. p \in {4, 5} \/ (p = 6 /\ Chapter5If[p] = <<"detached", "MergeBB">>)
      BY <2>1, <3>1, IfTable
    <3> QED
      BY <1>0, <2>1, <3>2
  <2>3. PICK p2, m, t, e, v :
            /\ m = bbs["MergeBB"] /\ t = bbs["ThenBB"] /\ e = bbs["ElseBB"]
            /\ v = Top.regs["PN"].block /\ p2 = p + 1
    OBVIOUS
  <2>4. IfNow(p2, m, t, e, v)'
    <3>1. CASE p \in {4, 5}
      BY <2>3, <3>1 DEF IfNow
    <3>2. CASE p = 6
      <4>1. Predecessors(m)' = {} /\ p2 = 7
        BY <1>7, <1>b, <2>2, <2>3, <3>2 DEF BlockRegisters
      <4> QED
        BY <4>1 DEF IfNow
    <3> QED
      BY <2>2, <3>1, <3>2
  <2> QED
    BY <2>1, <2>3, <2>4
<1>9. ASSUME IsFor(Top)
      PROVE  \E p, l, c, e, v :
            /\ l = bbs["LoopBB"] /\ c = bbs["PreheaderBB"] /\ e = bbs["LoopEndBB"]
            /\ v = Top.regs["Variable"].block /\ p = Top.pc + 1 /\ ForNow(p, l, c, e, v)'
  <2>1. PICK p, l, c, e, v :
            /\ p \in 1..24 /\ l = Top.bbs["LoopBB"] /\ c = Top.bbs["PreheaderBB"] /\ e = Top.bbs["LoopEndBB"]
            /\ v = Top.regs["Variable"].block /\ Top.pc = p /\ Op = Chapter5For[p]
            /\ ForNow(p, l, c, e, v)
    BY <1>1, <1>2, <1>9, TopFor
  <2>2. (p = 4 /\ q = "LoopBB") \/ (p = 19 /\ q = "AfterBB")
    <3>1. Chapter5For[p][1] = "new"
      BY <1>1, <2>1, ForTable
    <3>2. (p = 4 /\ Chapter5For[p] = <<"new", "LoopBB">>) \/ (p = 19 /\ Chapter5For[p] = <<"new", "AfterBB">>)
      BY <2>1, <3>1, ForTable, Zenon
    <3> QED
      BY <1>0, <2>1, <3>2
  <2>3. PICK p2, l2 : p2 = p + 1 /\ l2 = bbs["LoopBB"]
    OBVIOUS
  <2>4. c = bbs["PreheaderBB"] /\ e = bbs["LoopEndBB"]
    BY <1>b, <2>1, <2>2 DEF BlockRegisters
  <2>5. CASE p = 4
    <3>1. Predecessors(l2)' = {} /\ p2 = 5 /\ insert' = c
      <4>1. l2 = b
        BY <1>b, <2>2, <2>3, <2>5 DEF BlockRegisters
      <4>2. insert = c
        BY <2>1, <2>5 DEF ForNow
      <4> QED
        BY <1>1, <1>7, <2>3, <2>5, <4>1, <4>2
    <3>2. ForNow(p2, l2, c, e, v)'
      BY <3>1 DEF ForNow
    <3> QED
      BY <2>1, <2>3, <2>4, <3>2
  <2>6. CASE p = 19
    <3>1. l2 = l
      BY <1>b, <2>1, <2>2, <2>3, <2>6 DEF BlockRegisters
    <3>2. Predecessors(l) = {c} /\ insert = e /\ l \in phis /\ v = l /\ Sources(l) = {c}
      BY <2>1, <2>6 DEF ForNow
    <3>3. /\ Predecessors(l2)' = {c} /\ insert' = e /\ l2 \in phis' /\ v = l2 /\ Sources(l2)' = {c}
          /\ p2 = 20
      BY <1>1, <1>6, <2>3, <2>6, <3>1, <3>2 DEF Settled
    <3>4. ForNow(p2, l2, c, e, v)'
      BY <3>3 DEF ForNow
    <3> QED
      BY <2>1, <2>3, <2>4, <3>4
  <2> QED
    BY <2>2, <2>5, <2>6
<1>10. \A k : k = Len(stack) => PhiFrame(stack[k])'
  BY <1>1, <1>2, <1>8, <1>9, TopNext
<1>11. PhiFrames'
  BY <1>1, <1>2, <1>6, <1>10, PhiFramesMove
<1>12. PhiBlocks'
  <2>1. \A r \in BlockRegisters : r # Op[2] \/ Op[1] \notin {"new", "detached", "here"} => bbs[r] = Top.bbs[r]
    BY <1>0, <1>1, TopScript DEF BBsType
  <2>2. /\ Len(stack') = Len(stack) /\ Len(stack) \in Nat
        /\ \A k \in 1..Len(stack), r \in BlockRegisters : HasPhi(stack[k], r) =>
               HasPhi(stack[k], r)' /\ stack'[k].bbs[r] = stack[k].bbs[r]
    BY <1>1, <1>2, <2>1, PhiTopMoves
  <2>3. ASSUME NEW k \in 1..Len(stack), NEW r \in BlockRegisters, IsHeld(stack[k], r)'
        PROVE  \/ stack'[k].bbs[r] \notin phis
               \/ IsHeld(stack[k], r) /\ stack'[k].bbs[r] = stack[k].bbs[r]
    <3>1. CASE k # n
      <4>1. Same(k)
        BY <1>0, <1>1, <3>1, TopMoves
      <4> QED
        BY <2>3, <4>1 DEF Same
    <3>2. CASE k = n
      <4>1. /\ stack[k] = Top /\ stack'[k].bbs = bbs
            /\ IsHeld(stack[k], r)' <=> Held(Script, Top.pc + 1, r)
            /\ IsHeld(stack[k], r) <=> Held(Script, Top.pc, r)
        BY <1>0, <1>1, <3>2, TopMoves
      <4>2. b \notin phis
        BY <1>2, <1>5 DEF PhiBlocks
      <4> QED
        BY <1>4, <1>b, <2>3, <4>1, <4>2
    <3> QED
      BY <3>1, <3>2
  <2>4. \A c : Matched(c) => Matched(c)'
    BY <1>6 DEF Settled, Matched
  <2> QED
    BY <1>1, <1>2, <1>5, <2>2, <2>3, <2>4, PhiBlocksStay
<1> QED
  BY <1>11, <1>12

(* CreatePHI: it is in a block that the frame holds, which has none, and from  *)
(* which nothing has been taken.                                               *)
LEMMA PhiPhi ==
  ASSUME TypeInv, StackInv, BlockInv, PhiInv, CreatePHI
  PROVE  PhiBlocks' /\ PhiFrames'
<1>0. PICK n, q, regs : n = Len(stack) /\ q = Op[2] /\ regs = [Top.regs EXCEPT ![q] = Value(fn, insert)]
  OBVIOUS
<1>1. /\ Running /\ Op[1] = "phi" /\ UNCHANGED <<term, insert, incoming>> /\ phis' = phis \cup {insert}
      /\ Moves(Len(stack), regs, Top.bbs, Top.old)
  BY <1>0, StackSteps DEF CreatePHI, Doing, blocks
<1>2. PhiBlocks /\ PhiFrames /\ HeldBlocks /\ insert \in Blocks
  BY <1>1, PhiBuilding DEF PhiShaping, Shaping
<1>3. (\A b : Settled(b)) /\ Blocks' = Blocks
  BY <1>1, AllSettled
<1>n. n \in 1..Len(stack) /\ Top = stack[n] /\ Top.regs \in RegsType
  BY <1>0, <1>1, TopScript, OperandsTyped
<1>r. q \in Registers => regs[q].block = insert
  <2>1. Value(fn, insert).block = insert
    BY DEF Value
  <2> QED
    BY <1>0, <1>n, <2>1 DEF RegsType
<1>m. /\ \A k \in 1..Len(stack), r \in BlockRegisters : HasPhi(stack[k], r) =>
             HasPhi(stack[k], r)' /\ stack'[k].bbs[r] = stack[k].bbs[r]
      /\ Len(stack') = Len(stack) /\ Len(stack) \in Nat
  BY <1>1, <1>2, PhiTopMoves
<1>k. /\ stack'[n].kind = Top.kind /\ stack'[n].pc = Top.pc + 1 /\ stack'[n].bbs = Top.bbs
      /\ IfPlace(stack[n])' = IfPlace(Top) + 1 /\ (IsFor(stack[n])' <=> IsFor(Top))
  <2>1. Moves(n, regs, Top.bbs, Top.old)
    BY <1>0, <1>1
  <2> QED
    BY <1>n, <2>1, PhiMoves
<1>e. \A b : b \notin phis => Sources(b) = {}
  BY <1>2 DEF PhiBlocks, Sources
<1>4. ASSUME Top.kind = "If"
      PROVE  /\ \E p, m, t, e, v :
                  /\ m = Top.bbs["MergeBB"] /\ t = Top.bbs["ThenBB"] /\ e = Top.bbs["ElseBB"]
                  /\ v = regs["PN"].block /\ p = IfPlace(Top) + 1 /\ IfNow(p, m, t, e, v)'
             /\ \E r \in BlockRegisters : IsHeld(Top, r) /\ Top.bbs[r] = insert /\ HasPhi(stack[n], r)'
             /\ insert \notin phis
  <2>1. PICK p, m, t, e, v :
            /\ p \in 1..24 /\ m = Top.bbs["MergeBB"] /\ t = Top.bbs["ThenBB"] /\ e = Top.bbs["ElseBB"]
            /\ v = Top.regs["PN"].block /\ IfPlace(Top) = p /\ Op = Chapter5If[p]
            /\ IfNow(p, m, t, e, v) /\ (p >= 7 => IsHeld(Top, "MergeBB"))
    BY <1>1, <1>2, <1>4, TopIf
  <2>2. p = 21 /\ q = "PN"
    <3>1. Chapter5If[p][1] = "phi"
      BY <1>1, <2>1
    <3>2. p = 21 /\ Chapter5If[p] = <<"phi", "PN">>
      BY <2>1, <3>1, IfTable
    <3> QED
      BY <1>0, <2>1, <3>2
  <2>3. insert = m /\ Predecessors(m) = {t, e} /\ t # e
    BY <2>1, <2>2 DEF IfNow
  <2>4. IsHeld(Top, "MergeBB") /\ Top.bbs["MergeBB"] = insert /\ "MergeBB" \in BlockRegisters
    BY <2>1, <2>2, <2>3 DEF BlockRegisters
  <2>5. insert \notin phis
    <3>1. ~HasPhi(Top, "MergeBB")
      BY <1>4, <2>1, <2>2 DEF HasPhi, IsFor
    <3> QED
      BY <1>2, <1>n, <2>4, <3>1 DEF PhiBlocks, HeldPhis
  <2>6. HasPhi(stack[n], "MergeBB")'
    <3>1. stack'[n].kind = "If" /\ IfPlace(stack[n])' = 22
      BY <1>4, <1>k, <2>1, <2>2
    <3> QED
      BY <3>1 DEF HasPhi
  <2>7. PICK p2, v2 : p2 = p + 1 /\ v2 = regs["PN"].block
    OBVIOUS
  <2>8. v2 = m /\ m \in phis' /\ Predecessors(m)' = {t, e} /\ Sources(m)' = {} /\ p2 = 22
    BY <1>1, <1>3, <1>e, <1>r, <2>2, <2>3, <2>5, <2>7 DEF Settled, Registers
  <2>9. IfNow(p2, m, t, e, v2)'
    BY <2>3, <2>8 DEF IfNow
  <2> QED
    BY <2>1, <2>4, <2>5, <2>6, <2>7, <2>9
<1>5. ASSUME IsFor(Top)
      PROVE  /\ \E p, l, b, e, v :
                  /\ l = Top.bbs["LoopBB"] /\ b = Top.bbs["PreheaderBB"] /\ e = Top.bbs["LoopEndBB"]
                  /\ v = regs["Variable"].block /\ p = Top.pc + 1 /\ ForNow(p, l, b, e, v)'
             /\ \E r \in BlockRegisters : IsHeld(Top, r) /\ Top.bbs[r] = insert /\ HasPhi(stack[n], r)'
             /\ insert \notin phis
  <2>1. PICK p, l, b, e, v :
            /\ p \in 1..24 /\ l = Top.bbs["LoopBB"] /\ b = Top.bbs["PreheaderBB"] /\ e = Top.bbs["LoopEndBB"]
            /\ v = Top.regs["Variable"].block /\ Top.pc = p /\ Op = Chapter5For[p]
            /\ ForNow(p, l, b, e, v) /\ (p >= 5 => IsHeld(Top, "LoopBB"))
    BY <1>1, <1>2, <1>5, TopFor
  <2>2. p = 7 /\ q = "Variable"
    <3>1. Chapter5For[p][1] = "phi"
      BY <1>1, <2>1
    <3>2. p = 7 /\ Chapter5For[p] = <<"phi", "Variable">>
      BY <2>1, <3>1, ForTable
    <3> QED
      BY <1>0, <2>1, <3>2
  <2>3. insert = l /\ Predecessors(l) = {b}
    BY <2>1, <2>2 DEF ForNow
  <2>4. IsHeld(Top, "LoopBB") /\ Top.bbs["LoopBB"] = insert /\ "LoopBB" \in BlockRegisters
    BY <2>1, <2>2, <2>3 DEF BlockRegisters
  <2>5. insert \notin phis
    <3>1. ~HasPhi(Top, "LoopBB")
      BY <1>5, <2>1, <2>2 DEF HasPhi, IsFor
    <3> QED
      BY <1>2, <1>n, <2>4, <3>1 DEF PhiBlocks, HeldPhis
  <2>6. HasPhi(stack[n], "LoopBB")'
    <3>1. IsFor(stack[n])' /\ stack'[n].pc = 8
      BY <1>5, <1>k, <2>1, <2>2
    <3> QED
      BY <3>1 DEF HasPhi
  <2>7. PICK p2, v2 : p2 = p + 1 /\ v2 = regs["Variable"].block
    OBVIOUS
  <2>8. v2 = l /\ l \in phis' /\ Predecessors(l)' = {b} /\ Sources(l)' = {} /\ p2 = 8
    BY <1>1, <1>3, <1>e, <1>r, <2>2, <2>3, <2>5, <2>7 DEF Settled, Registers
  <2>9. ForNow(p2, l, b, e, v2)'
    BY <2>3, <2>8 DEF ForNow
  <2> QED
    BY <2>1, <2>4, <2>5, <2>6, <2>7, <2>9
<1>6. PhiFrames'
  <2>1. \A k : k = Len(stack) => PhiFrame(stack[k])'
    BY <1>1, <1>4, <1>5, TopNext
  <2> QED
    BY <1>1, <1>2, <1>3, <2>1, PhiFramesMove
<1>7. PICK r \in BlockRegisters : IsHeld(Top, r) /\ Top.bbs[r] = insert /\ HasPhi(stack[n], r)'
  <2>1. Top.kind = "If" \/ IsFor(Top)
    BY <1>0, <1>1, <1>n, PhiScripts, TopScript
  <2> QED
    BY <1>4, <1>5, <2>1
<1>8. HeldPhis'
  <2>1. SUFFICES ASSUME NEW k \in 1..Len(stack), NEW s \in BlockRegisters,
                        IsHeld(stack[k], s)', stack'[k].bbs[s] \in phis \cup {insert}
                 PROVE  HasPhi(stack[k], s)'
    BY <1>1, <1>m DEF HeldPhis
  <2>2. IsHeld(stack[k], s) /\ stack'[k].bbs[s] = stack[k].bbs[s]
    BY <1>1, <2>1, HeldStay DEF PhiShaping, Shaping
  <2>3. CASE stack[k].bbs[s] \in phis
    BY <1>2, <1>m, <2>2, <2>3 DEF PhiBlocks, HeldPhis
  <2>4. CASE stack[k].bbs[s] = insert
    <3>1. k = n /\ s = r
      <4>1. IsHeld(stack[n], r) /\ stack[n].bbs[r] = stack[k].bbs[s]
        BY <1>7, <1>n, <2>4
      <4> QED
        BY <1>2, <1>n, <2>2, <4>1 DEF HeldBlocks
    <3> QED
      BY <1>7, <3>1
  <2> QED
    BY <2>1, <2>2, <2>3, <2>4
<1>9. ASSUME NEW b \in phis' PROVE (Matched(b) \/ Owned(b))'
  <2>1. CASE b \in phis /\ Matched(b)
    BY <1>3, <2>1 DEF Settled, Matched
  <2>2. CASE b \in phis /\ Owned(b)
    BY <1>m, <2>2 DEF Owned
  <2>3. CASE b = insert
    <3>1. stack'[n].bbs[r] = b
      BY <1>7, <1>k, <2>3
    <3> QED
      BY <1>7, <1>m, <1>n, <3>1 DEF Owned
  <2> QED
    BY <1>1, <1>2, <2>1, <2>2, <2>3 DEF PhiBlocks
<1>10. phis' \subseteq Blocks' /\ (\A i \in incoming' : i.phi \in phis') /\ OneEach'
  BY <1>1, <1>2, <1>3 DEF PhiBlocks, OneEach
<1> QED
  BY <1>6, <1>8, <1>9, <1>10 DEF PhiBlocks

(* addIncoming: one more of the predecessors has its value.                    *)
LEMMA PhiIncoming ==
  ASSUME TypeInv, StackInv, BlockInv, PhiInv, AddIncoming
  PROVE  PhiBlocks' /\ PhiFrames'
<1>0. PICK n, i, v, c, d : /\ n = Len(stack) /\ v = Reg(2).block /\ c = Block(4) /\ d = Reg(3)
                           /\ i = [phi |-> v, value |-> d, from |-> c]
  OBVIOUS
<1>1. /\ Running /\ Op[1] = "incoming" /\ UNCHANGED <<term, insert, phis>> /\ incoming' = incoming \cup {i}
      /\ Moves(Len(stack), Top.regs, Top.bbs, Top.old)
  BY <1>0, StackSteps DEF AddIncoming, Doing, blocks
<1>2. PhiBlocks /\ PhiFrames /\ HeldBlocks
  BY <1>1, PhiBuilding DEF PhiShaping, Shaping
<1>n. n \in 1..Len(stack) /\ Top = stack[n]
  BY <1>0, <1>1, TopScript
<1>i. i.phi = v /\ i.from = c
  BY <1>0
<1>s. /\ \A b : Predecessors(b)' = Predecessors(b)
      /\ Sources(v)' = Sources(v) \cup {c}
      /\ \A b : b # v => Sources(b)' = Sources(b)
      /\ Blocks' = Blocks
  <2>1. Blocks' = Blocks /\ \A b : Predecessors(b)' = Predecessors(b)
    BY <1>1 DEF Predecessors, Blocks, Successors
  <2>2. Sources(v)' = Sources(v) \cup {c}
    BY <1>1, <1>i DEF Sources
  <2>3. \A b : b # v => Sources(b)' = Sources(b)
    BY <1>1, <1>i DEF Sources
  <2> QED
    BY <2>1, <2>2, <2>3
<1>m. /\ \A k \in 1..Len(stack), r \in BlockRegisters : HasPhi(stack[k], r) =>
             HasPhi(stack[k], r)' /\ stack'[k].bbs[r] = stack[k].bbs[r]
      /\ Len(stack') = Len(stack) /\ Len(stack) \in Nat
  BY <1>1, <1>2, PhiTopMoves
<1>4. ASSUME Top.kind = "If"
      PROVE  /\ \E p, m, t, e, w :
                  /\ m = Top.bbs["MergeBB"] /\ t = Top.bbs["ThenBB"] /\ e = Top.bbs["ElseBB"]
                  /\ w = Top.regs["PN"].block /\ p = IfPlace(Top) + 1 /\ IfNow(p, m, t, e, w)'
             /\ \E r \in BlockRegisters : IsHeld(Top, r) /\ Top.bbs[r] = v /\ HasPhi(stack[n], r)
             /\ v \in phis /\ c \notin Sources(v)
  <2>1. PICK p, m, t, e, w :
            /\ p \in 1..24 /\ m = Top.bbs["MergeBB"] /\ t = Top.bbs["ThenBB"] /\ e = Top.bbs["ElseBB"]
            /\ w = Top.regs["PN"].block /\ IfPlace(Top) = p /\ Op = Chapter5If[p]
            /\ IfNow(p, m, t, e, w) /\ (p >= 7 => IsHeld(Top, "MergeBB"))
    BY <1>1, <1>2, <1>4, TopIf
  <2>2. Op[2] = "PN" /\ ((p = 22 /\ Op[4] = "ThenBB") \/ (p = 23 /\ Op[4] = "ElseBB"))
    <3>1. Chapter5If[p][1] = "incoming"
      BY <1>1, <2>1
    <3>2. \/ p = 22 /\ Chapter5If[p] = <<"incoming", "PN", "Then", "ThenBB">>
          \/ p = 23 /\ Chapter5If[p] = <<"incoming", "PN", "Else", "ElseBB">>
      BY <2>1, <3>1, IfTable
    <3> QED
      BY <2>1, <3>2
  <2>3. p \in {22, 23} /\ w = m /\ m \in phis /\ v = m /\ Predecessors(m) = {t, e} /\ t # e
    <3>1. p \in {22, 23} /\ v = w
      BY <1>0, <2>1, <2>2 DEF Reg
    <3> QED
      BY <2>1, <3>1 DEF IfNow
  <2>4. IsHeld(Top, "MergeBB") /\ Top.bbs["MergeBB"] = v /\ "MergeBB" \in BlockRegisters
    BY <2>1, <2>3 DEF BlockRegisters
  <2>5. HasPhi(stack[n], "MergeBB")
    BY <1>4, <1>n, <2>1, <2>3 DEF HasPhi
  <2>7. PICK p2 : p2 = p + 1
    OBVIOUS
  <2>8. CASE p = 22
    <3>1. c = t /\ Sources(m) = {}
      BY <1>0, <2>1, <2>2, <2>8 DEF Block, IfNow
    <3>2. /\ w = m /\ m \in phis' /\ Predecessors(m)' = {t, e} /\ t # e /\ Sources(m)' = {t} /\ p2 = 23
          /\ c \notin Sources(v)
      BY <1>1, <1>s, <2>3, <2>7, <2>8, <3>1
    <3>3. IfNow(p2, m, t, e, w)'
      BY <3>2 DEF IfNow
    <3> QED
      BY <2>1, <2>3, <2>4, <2>5, <2>7, <3>2, <3>3
  <2>9. CASE p = 23
    <3>1. c = e /\ Sources(m) = {t}
      BY <1>0, <2>1, <2>2, <2>9 DEF Block, IfNow
    <3>2. /\ w = m /\ m \in phis' /\ Predecessors(m)' = {t, e} /\ t # e /\ Sources(m)' = {t, e} /\ p2 = 24
          /\ c \notin Sources(v)
      BY <1>1, <1>s, <2>3, <2>7, <2>9, <3>1
    <3>3. IfNow(p2, m, t, e, w)'
      BY <3>2 DEF IfNow
    <3> QED
      BY <2>1, <2>3, <2>4, <2>5, <2>7, <3>2, <3>3
  <2> QED
    BY <2>2, <2>8, <2>9
<1>5. ASSUME IsFor(Top)
      PROVE  /\ \E p, l, b, e, w :
                  /\ l = Top.bbs["LoopBB"] /\ b = Top.bbs["PreheaderBB"] /\ e = Top.bbs["LoopEndBB"]
                  /\ w = Top.regs["Variable"].block /\ p = Top.pc + 1 /\ ForNow(p, l, b, e, w)'
             /\ \E r \in BlockRegisters : IsHeld(Top, r) /\ Top.bbs[r] = v /\ HasPhi(stack[n], r)
             /\ v \in phis /\ c \notin Sources(v)
  <2>1. PICK p, l, b, e, w :
            /\ p \in 1..24 /\ l = Top.bbs["LoopBB"] /\ b = Top.bbs["PreheaderBB"] /\ e = Top.bbs["LoopEndBB"]
            /\ w = Top.regs["Variable"].block /\ Top.pc = p /\ Op = Chapter5For[p]
            /\ ForNow(p, l, b, e, w) /\ (p >= 5 => IsHeld(Top, "LoopBB"))
    BY <1>1, <1>2, <1>5, TopFor
  <2>2. Op[2] = "Variable" /\ ((p = 8 /\ Op[4] = "PreheaderBB") \/ (p = 22 /\ Op[4] = "LoopEndBB"))
    <3>1. Chapter5For[p][1] = "incoming"
      BY <1>1, <2>1
    <3>2. \/ p = 8 /\ Chapter5For[p] = <<"incoming", "Variable", "Start", "PreheaderBB">>
          \/ p = 22 /\ Chapter5For[p] = <<"incoming", "Variable", "NextVar", "LoopEndBB">>
      BY <2>1, <3>1, ForTable
    <3> QED
      BY <2>1, <3>2
  <2>3. p \in {8, 22} /\ w = l /\ l \in phis /\ v = l
    <3>1. p \in {8, 22} /\ v = w
      BY <1>0, <2>1, <2>2 DEF Reg
    <3> QED
      BY <2>1, <3>1 DEF ForNow
  <2>4. IsHeld(Top, "LoopBB") /\ Top.bbs["LoopBB"] = v /\ "LoopBB" \in BlockRegisters
    BY <2>1, <2>3 DEF BlockRegisters
  <2>5. HasPhi(stack[n], "LoopBB")
    BY <1>5, <1>n, <2>1, <2>3 DEF HasPhi
  <2>7. PICK p2 : p2 = p + 1
    OBVIOUS
  <2>8. CASE p = 8
    <3>1. c = b /\ Sources(l) = {} /\ Predecessors(l) = {b}
      BY <1>0, <2>1, <2>2, <2>8 DEF Block, ForNow
    <3>2. /\ w = l /\ l \in phis' /\ Predecessors(l)' = {b} /\ Sources(l)' = {b} /\ p2 = 9
          /\ c \notin Sources(v)
      BY <1>1, <1>s, <2>3, <2>7, <2>8, <3>1
    <3>3. ForNow(p2, l, b, e, w)'
      BY <3>2 DEF ForNow
    <3> QED
      BY <2>1, <2>3, <2>4, <2>5, <2>7, <3>2, <3>3
  <2>9. CASE p = 22
    <3>1. c = e /\ Sources(l) = {b} /\ Predecessors(l) = {b, e} /\ b # e
      BY <1>0, <2>1, <2>2, <2>9 DEF Block, ForNow
    <3>2. /\ w = l /\ l \in phis' /\ Predecessors(l)' = {b, e} /\ b # e /\ Sources(l)' = {b, e} /\ p2 = 23
          /\ c \notin Sources(v)
      BY <1>1, <1>s, <2>3, <2>7, <2>9, <3>1
    <3>3. ForNow(p2, l, b, e, w)'
      BY <3>2 DEF ForNow
    <3> QED
      BY <2>1, <2>3, <2>4, <2>5, <2>7, <3>2, <3>3
  <2> QED
    BY <2>2, <2>8, <2>9
<1>6. \A k : k = Len(stack) => PhiFrame(stack[k])'
  BY <1>1, <1>4, <1>5, TopNext
<1>7. /\ \E r \in BlockRegisters : IsHeld(Top, r) /\ Top.bbs[r] = v /\ HasPhi(stack[n], r)
      /\ v \in phis /\ c \notin Sources(v)
  <2>1. Top.kind = "If" \/ IsFor(Top)
    BY <1>0, <1>1, <1>n, PhiScripts, TopScript
  <2> QED
    BY <1>4, <1>5, <2>1
<1>8. PICK r \in BlockRegisters : IsHeld(Top, r) /\ Top.bbs[r] = v /\ HasPhi(stack[n], r)
  BY <1>7
<1>9. PhiFrames'
  <2>1. ASSUME NEW k \in 1..Len(stack), NEW s \in BlockRegisters, NEW b,
               k # Len(stack), IsHeld(stack[k], s), b = stack[k].bbs[s]
        PROVE  Settled(b)
    <3>1. SUFFICES ASSUME b = v PROVE FALSE
      BY <1>s DEF Settled
    <3>2. IsHeld(stack[n], r) /\ stack[n].bbs[r] = stack[k].bbs[s]
      BY <1>8, <1>n, <2>1, <3>1
    <3> QED
      BY <1>0, <1>2, <1>n, <2>1, <3>2 DEF HeldBlocks
  <2>2. \A k \in 1..Len(stack), s \in BlockRegisters : \A b :
             k # Len(stack) /\ IsHeld(stack[k], s) /\ b = stack[k].bbs[s] => Settled(b)
    BY <2>1
  <2> QED
    BY <1>1, <1>2, <1>6, <2>2, PhiFramesMove
<1>10. HeldPhis'
  <2>1. SUFFICES ASSUME NEW k \in 1..Len(stack), NEW s \in BlockRegisters,
                        IsHeld(stack[k], s)', stack'[k].bbs[s] \in phis
                 PROVE  HasPhi(stack[k], s)'
    BY <1>1, <1>m DEF HeldPhis
  <2>2. IsHeld(stack[k], s) /\ stack'[k].bbs[s] = stack[k].bbs[s]
    BY <1>1, <2>1, HeldStay DEF PhiShaping, Shaping
  <2> QED
    BY <1>2, <1>m, <2>1, <2>2 DEF PhiBlocks, HeldPhis
<1>11. ASSUME NEW b \in phis PROVE (Matched(b) \/ Owned(b))'
  <2>1. CASE b # v /\ Matched(b)
    BY <1>s, <2>1 DEF Matched
  <2>2. CASE b # v /\ Owned(b)
    BY <1>m, <2>2 DEF Owned
  <2>3. CASE b = v
    BY <1>8, <1>m, <1>n, <2>3 DEF Owned
  <2> QED
    BY <1>2, <2>1, <2>2, <2>3 DEF PhiBlocks
<1>12. OneEach'
  <2>1. \A j \in incoming : ~(j.phi = v /\ j.from = c)
    BY <1>7 DEF Sources
  <2> QED
    BY <1>1, <1>2, <1>i, <2>1 DEF PhiBlocks, OneEach
<1>13. phis' \subseteq Blocks' /\ (\A j \in incoming' : j.phi \in phis')
  BY <1>1, <1>2, <1>7, <1>i, <1>s DEF PhiBlocks
<1> QED
  BY <1>1, <1>9, <1>10, <1>11, <1>12, <1>13 DEF PhiBlocks

(* The operations that are not about blocks go on with at most one register    *)
(* changed, that which they assign.                                            *)
LEMMA PhiGoesOn ==
  ASSUME TypeInv, StackInv, PhiBlocks, PhiFrames, Running, Op[1] \notin PhiShaping \cup {"return"},
         NEW regs, NEW old, Moves(Len(stack), regs, Top.bbs, old),
         \/ regs = Top.regs
         \/ /\ Op[1] \notin {"check", "bind", "unbind"}
            /\ \E v : regs = [Top.regs EXCEPT ![Op[2]] = v],
         UNCHANGED <<term, insert, phis, incoming>>
  PROVE  PhiBlocks' /\ PhiFrames'
<1>1. PICK n : n = Len(stack)
  OBVIOUS
<1>2. /\ n \in 1..Len(stack) /\ n \in Nat /\ Top = stack[n] /\ Op = Does(stack[n])
  BY <1>1, TopScript
<1>3. Moves(n, regs, stack[n].bbs, old)
  BY <1>1, <1>2
<1>4. \A r \in Registers : r # Does(stack[n])[2] => regs[r] = stack[n].regs[r]
  <2>1. Top.regs \in RegsType
    BY OperandsTyped
  <2> QED
    BY <1>2, <2>1 DEF RegsType
<1>5. \A k \in 1..Len(stack) : k > n => Does(stack[k])[1] \in {"check", "callee", "return"}
  BY <1>1, <1>2
<1>6. /\ Does(stack[n])[1] \notin PhiShaping \cup {"return"}
      /\ Does(stack[n])[1] \in {"check", "bind", "unbind"} => regs = stack[n].regs
  BY <1>2
<1> QED
  BY <1>2, <1>3, <1>4, <1>5, <1>6, PhiQuietMoves

(* A value is returned to the frame that waits for it.                         *)
LEMMA PhiReturns ==
  ASSUME TypeInv, StackInv, PhiBlocks, PhiFrames, Running, Op[1] \in {"check", "callee", "return"},
         NEW v \in ValueType, ReturnValue(v), UNCHANGED <<term, insert, phis, incoming>>
  PROVE  PhiBlocks' /\ PhiFrames'
<1>1. PICK n, regs : n = Len(stack) - 1 /\ regs = [Caller.regs EXCEPT ![Does(Caller)[2]] = v]
  OBVIOUS
<1>2. /\ n \in 1..Len(stack) /\ Caller = stack[n] /\ Caller \in FrameType
      /\ Does(Caller)[1] \in Gens /\ Moves(n, regs, Caller.bbs, Caller.old)
  BY <1>1, ReturnMoves DEF Caller
<1>3. Does(stack[n])[1] \notin PhiShaping \cup {"return", "check", "bind", "unbind"}
  BY <1>2 DEF Gens, PhiShaping, Shaping
<1>4. \A r \in Registers : r # Does(stack[n])[2] => regs[r] = stack[n].regs[r]
  BY <1>1, <1>2 DEF FrameType, RegsType
<1>5. \A k \in 1..Len(stack) : k > n => Does(stack[k])[1] \in {"check", "callee", "return"}
  <2>1. Len(stack) \in Nat /\ Does(stack[Len(stack)])[1] \in {"check", "callee", "return"}
    BY TopScript
  <2>2. \A k \in 1..Len(stack) : k > n => k = Len(stack)
    BY <1>1, <2>1
  <2> QED
    BY <2>1, <2>2
<1> QED
  BY <1>2, <1>3, <1>4, <1>5, PhiQuietMoves

(* A frame that begins has no blocks; the others wait.                         *)
LEMMA PhiGenerates ==
  ASSUME TypeInv, StackInv, PhiBlocks, PhiFrames, Generate
  PROVE  PhiBlocks' /\ PhiFrames'
<1>1. /\ Running /\ Op[1] \in Gens
      /\ UNCHANGED <<term, insert, phis, incoming>>
  BY GeneratePushes DEF Generate, blocks, values
<1>2. PICK kind \in Kinds \ {"Function"}, name \in Names : Pushes(kind, name)
  BY GeneratePushes
<1>3. /\ Len(stack) \in Nat /\ Len(stack') = Len(stack) + 1
      /\ \A k \in 1..Len(stack) : stack'[k] = stack[k]
      /\ stack'[Len(stack) + 1] = Frame(kind, name) /\ version' = version
  BY <1>1, <1>2, TopScript DEF Pushes
<1>4. \A k \in 1..Len(stack') : k \in 1..Len(stack) \/ k = Len(stack) + 1
  BY <1>3
<1>5. (\A b : Settled(b)) /\ Blocks' = Blocks
  BY <1>1, AllSettled
<1>6. ASSUME NEW k \in 1..Len(stack)
      PROVE  /\ IfPlace(stack[k])' = IfPlace(stack[k]) /\ (IsFor(stack[k])' <=> IsFor(stack[k]))
             /\ \A r \in BlockRegisters : /\ IsHeld(stack[k], r)' <=> IsHeld(stack[k], r)
                                          /\ HasPhi(stack[k], r)' <=> HasPhi(stack[k], r)
  <2>1. stack'[k] = stack[k] /\ version' = version
    BY <1>3
  <2>2. IfPlace(stack[k])' = IfPlace(stack[k]) /\ (IsFor(stack[k])' <=> IsFor(stack[k]))
    BY <2>1 DEF IfPlace, IsFor, Routine
  <2>3. \A r \in BlockRegisters : IsHeld(stack[k], r)' <=> IsHeld(stack[k], r)
    BY <2>1 DEF IsHeld, Routine
  <2> QED
    BY <2>1, <2>2, <2>3 DEF HasPhi
<1>7. ASSUME NEW k, k = Len(stack) + 1
      PROVE  PhiFrame(stack[k])' /\ \A r \in BlockRegisters : ~IsHeld(stack[k], r)'
  <2>1. stack'[k].pc = 1
    BY <1>3, <1>7 DEF Frame
  <2>2. \A r \in BlockRegisters : ~IsHeld(stack[k], r)'
    BY <2>1, NothingBefore DEF IsHeld
  <2>3. PICK p : p = IfPlace(stack[k])'
    OBVIOUS
  <2>4. p \in {0, 1}
    BY <2>1, <2>3 DEF IfPlace
  <2>5. \A m, t, e, v : IfNow(p, m, t, e, v)'
    BY <2>4 DEF IfNow
  <2>6. IfPhi(stack[k])'
    BY <2>3, <2>5 DEF IfPhi
  <2>7. \A l, b, e, v : ForNow(1, l, b, e, v)'
    BY DEF ForNow
  <2>8. ForPhi(stack[k])'
    BY <2>1, <2>7 DEF ForPhi
  <2> QED
    BY <2>2, <2>6, <2>8 DEF PhiFrame
<1>8. PhiFrames'
  <2>1. ASSUME NEW k \in 1..Len(stack) PROVE PhiFrame(stack[k])'
    <3>1. Does(stack[k])[1] \in Gens
      <4>1. CASE k = Len(stack)
        BY <1>1, <4>1, TopScript
      <4>2. CASE k # Len(stack)
        <5>1. k < Len(stack)
          BY <1>3, <4>2
        <5> QED
          BY <5>1 DEF StackInv, Fits
      <4> QED
        BY <4>1, <4>2
    <3> QED
      BY <1>1, <1>3, <1>5, <3>1, PhiBelow DEF PhiFrames
  <2> QED
    BY <1>4, <1>7, <2>1 DEF PhiFrames
<1>9. PhiBlocks'
  <2>1. Len(stack') \in Nat /\ \A k \in 1..Len(stack) : k \in 1..Len(stack')
    BY <1>3
  <2>2. \A k \in 1..Len(stack'), r \in BlockRegisters : IsHeld(stack[k], r)' =>
             k \in 1..Len(stack) /\ IsHeld(stack[k], r) /\ stack'[k].bbs[r] = stack[k].bbs[r]
    BY <1>3, <1>4, <1>6, <1>7
  <2>3. \A k \in 1..Len(stack), r \in BlockRegisters : HasPhi(stack[k], r) =>
             k \in 1..Len(stack') /\ HasPhi(stack[k], r)' /\ stack'[k].bbs[r] = stack[k].bbs[r]
    BY <1>3, <1>6, <2>1
  <2>4. \A b : Matched(b) => Matched(b)'
    BY <1>5 DEF Settled, Matched
  <2> QED
    BY <1>1, <1>3, <1>5, <2>1, <2>2, <2>3, <2>4, PhiBlocksStay
<1> QED
  BY <1>8, <1>9

(* A function begins without PHIs.                                             *)
LEMMA PhiEntry ==
  ASSUME TypeInv, StackInv, Entry
  PROVE  PhiBlocks' /\ PhiFrames'
<1>1. /\ Running /\ Op[1] = "entry" /\ phis' = {} /\ incoming' = {}
      /\ Moves(Len(stack), Top.regs, Top.bbs, Top.old)
  BY StackSteps DEF Entry, Doing
<1>2. Len(stack) = 1 /\ stack[1].kind = "Function"
  BY <1>1, ReadyToBuild
<1>3. Len(stack') = 1 /\ stack'[1].kind = "Function"
  BY <1>1, <1>2 DEF Moves, Moved
<1>4. PhiFrames'
  <2>1. \A k \in 1..Len(stack') : k = 1
    BY <1>3
  <2>2. PhiFrame(stack[1])'
    BY <1>3 DEF PhiFrame, IsFor
  <2> QED
    BY <2>1, <2>2 DEF PhiFrames
<1>5. PhiBlocks'
  BY <1>1 DEF PhiBlocks, OneEach, HeldPhis
<1> QED
  BY <1>4, <1>5

(* A function that is finished has no frame left that owes a value.            *)
LEMMA PhiFinish ==
  ASSUME TypeInv, StackInv, BlockInv, PhiInv, FinishFunction
  PROVE  PhiInv'
<1>1. /\ Running /\ Op[1] = "ret" /\ UNCHANGED <<insert, phis, incoming>>
      /\ \/ term' = [term EXCEPT ![insert] = Ret] /\ state' = "finished"
         \/ state' = "erased"
  BY DEF FinishFunction, Doing
<1>2. Ready(stack[1]) /\ Len(stack) = 1 /\ state = "generating" /\ stack[1].kind = "Function"
  BY <1>1, ReadyToBuild, OpsOfRoutines DEF Quiet, FunctionOps
<1>3. Building
  BY <1>2 DEF Building, Ready
<1>4. term # <<>> /\ insert \in Blocks /\ InsertBlock /\ PhiBlocks
  BY <1>3 DEF BlockInv, PhiInv
<1>5. term[insert] = Open
  <2>1. ~HasEnded(Top)
    BY <1>1, TopScript
  <2> QED
    BY <1>4, <2>1 DEF InsertBlock
<1>6. CASE state' = "erased"
  BY <1>6 DEF PhiInv, Building, Finished
<1>7. CASE term' = [term EXCEPT ![insert] = Ret] /\ state' = "finished"
  <2>1. Blocks' = Blocks /\ \A b \in Blocks : term'[b] = IF b = insert THEN Ret ELSE term[b]
    <3>1. Ret \in Terminators /\ insert \in Nat /\ term \in Seq(Terminators)
      BY DEF TypeInv, Ret, Terminators
    <3> QED
      BY <1>7, <3>1, TerminatorSet DEF Blocks
  <2>2. \A b \in Blocks : Successors(b)' = Successors(b)
    <3>1. Open.to = Ret.to
      BY DEF Open, Ret
    <3> QED
      BY <1>4, <1>5, <2>1, <3>1 DEF Successors
  <2>3. \A b : Predecessors(b)' = Predecessors(b)
    BY <2>1, <2>2 DEF Predecessors
  <2>4. \A b \in phis : Matched(b)
    <3>1. \A k \in 1..Len(stack), r \in BlockRegisters : ~HasPhi(stack[k], r)
      <4>1. \A k \in 1..Len(stack) : k = 1
        BY <1>2
      <4> QED
        BY <1>2, <4>1 DEF HasPhi, IsFor
    <3> QED
      BY <1>4, <3>1 DEF PhiBlocks, Owned
  <2>5. ASSUME NEW b \in phis
        PROVE  /\ \A p \in Predecessors(b)' : \E i \in incoming : i.phi = b /\ i.from = p
               /\ \A i, j \in incoming :
                     i.phi = b /\ j.phi = b => i.from \in Predecessors(b)' /\ (i.from = j.from => i = j)
    <3>1. Sources(b) = Predecessors(b)'
      BY <2>3, <2>4 DEF Matched
    <3>2. \A p \in Predecessors(b)' : \E i \in incoming : i.phi = b /\ i.from = p
      BY <3>1 DEF Sources
    <3>3. \A i \in incoming : i.phi = b => i.from \in Predecessors(b)'
      BY <3>1 DEF Sources
    <3>4. OneEach
      BY <1>4 DEF PhiBlocks
    <3> QED
      BY <3>2, <3>3, <3>4 DEF OneEach
  <2>6. PhisMatch'
    BY <1>1, <2>5 DEF PhisMatch
  <2> QED
    BY <1>7, <2>6 DEF PhiInv, Building
<1> QED
  BY <1>1, <1>6, <1>7

(* Every step gives PHIs the values of their predecessors.                     *)
LEMMA PhiKept ==
  ASSUME TypeInv, StackInv, BlockInv, PhiInv, [Next]_vars
  PROVE  PhiInv'
<1>q. ASSUME state' = "generating", PhiBlocks' /\ PhiFrames' PROVE PhiInv'
  BY <1>q DEF PhiInv, Finished
<1>p. ASSUME state' = "generating", ~Building' PROVE PhiInv'
  BY <1>p DEF PhiInv, Finished
<1>n. Null \in ValueType
  BY DEF Null, Value, ValueType
<1>1. CASE UNCHANGED vars
  <2>1. /\ stack' = stack /\ version' = version /\ state' = state
        /\ UNCHANGED <<term, insert, phis, incoming>>
    BY <1>1 DEF vars, blocks, values
  <2>2. Blocks' = Blocks /\ \A b : Predecessors(b)' = Predecessors(b) /\ Sources(b)' = Sources(b)
    BY <2>1 DEF Predecessors, Sources, Blocks, Successors
  <2>3. \A k : IfPlace(stack[k])' = IfPlace(stack[k]) /\ (IsFor(stack[k])' <=> IsFor(stack[k]))
    BY <2>1 DEF IfPlace, IsFor, Routine
  <2>4. \A k, r : /\ IsHeld(stack[k], r)' <=> IsHeld(stack[k], r)
                  /\ HasPhi(stack[k], r)' <=> HasPhi(stack[k], r)
    BY <2>1, <2>3 DEF IsHeld, HasPhi, Routine
  <2>5. PhiFrames => PhiFrames'
    <3>1. \A p, m, t, e, v : IfNow(p, m, t, e, v)' <=> IfNow(p, m, t, e, v)
      BY <2>1, <2>2 DEF IfNow
    <3>2. \A p, l, b, e, v : ForNow(p, l, b, e, v)' <=> ForNow(p, l, b, e, v)
      BY <2>1, <2>2 DEF ForNow
    <3> QED
      BY <2>1, <2>3, <3>1, <3>2 DEF PhiFrames, PhiFrame, IfPhi, ForPhi
  <2>6. PhiBlocks => PhiBlocks'
    BY <2>1, <2>2, <2>4 DEF PhiBlocks, OneEach, HeldPhis, Matched, Owned
  <2>7. (Building' => Building) /\ (Finished' => Finished) /\ (PhisMatch => PhisMatch')
    BY <2>1, <2>2 DEF Building, Entered, Finished, PhisMatch, Routine
  <2> QED
    BY <2>5, <2>6, <2>7 DEF PhiInv
<1>2. CASE AssignToNoVariable
  BY <1>2 DEF AssignToNoVariable, PhiInv, Building, Finished
<1>3. CASE BeginFunction
  <2>1. Len(stack') = 1 /\ stack'[1] = Frame("Function", Argument) /\ state' = "generating"
    BY <1>3, BeginPushes
  <2>2. ~Entered(stack[1])'
    <3>1. \A s : ~Passed(s, 1, {"entry"})
      BY DEF Passed
    <3> QED
      BY <2>1, <3>1 DEF Entered, Frame
  <2> QED
    BY <1>p, <2>1, <2>2 DEF Building
<1>4. CASE FinishFunction
  BY <1>4, PhiFinish
<1>5. CASE \/ NewBlock \/ AppendBlock \/ GetInsertBlock \/ SetInsertPoint \/ CreateBr \/ CreateCondBr
           \/ CreatePHI \/ AddIncoming
  <2>1. state' = "generating"
    BY <1>5, StackSteps DEF Moves, Doing, Running
  <2> QED
    BY <1>5, <1>q, <2>1, PhiNew, PhiAppend, PhiHere, PhiAt, PhiBr, PhiCondBr, PhiPhi, PhiIncoming
<1>6. CASE Entry
  <2>1. state' = "generating"
    BY <1>6, StackSteps DEF Moves, Entry, Doing, Running
  <2> QED
    BY <1>6, <1>q, <2>1, PhiEntry
<1>7. CASE \/ Generate \/ NoSubExpression \/ Check \/ Callee \/ Return
           \/ Lookup \/ Inst \/ CreateEntryBlockAlloca \/ Bind \/ Unbind
           \/ Clear \/ BindArgument \/ PushScope \/ EmitLocation
  <2>1. UNCHANGED <<term, insert, phis, incoming>>
    BY <1>7 DEF Generate, NoSubExpression, Check, Callee, Return, Lookup, Inst, CreateEntryBlockAlloca,
       Bind, Unbind, Clear, BindArgument, PushScope, EmitLocation, blocks, values
  <2>2. Running /\ Op[1] \notin PhiShaping \cup {"entry"} /\ (Op[1] = "return" => Return) /\ state = "generating"
    BY <1>7 DEF Generate, NoSubExpression, Check, Callee, Return, Lookup, Inst, CreateEntryBlockAlloca,
       Bind, Unbind, Clear, BindArgument, PushScope, EmitLocation, Doing, PhiShaping, Shaping,
       Running
  <2>3. \/ Generate
        \/ \E v \in ValueType : Op[1] \in {"check", "callee", "return"} /\ ReturnValue(v)
        \/ \E regs, old : /\ Moves(Len(stack), regs, Top.bbs, old) /\ Op[1] # "return"
                          /\ \/ regs = Top.regs
                             \/ /\ Op[1] \notin {"check", "bind", "unbind"}
                                /\ \E v : regs = [Top.regs EXCEPT ![Op[2]] = v]
    <3>1. CASE Generate
      BY <3>1
    <3>2. CASE Return
      BY <2>2, <3>2, OperandsTyped DEF Return, Doing
    <3>3. CASE Check \/ Callee
      BY <1>n, <3>3, StackSteps DEF Doing
    <3>4. CASE NoSubExpression \/ Lookup \/ Inst \/ CreateEntryBlockAlloca
      BY <3>4, StackSteps DEF Doing
    <3>5. CASE \/ Bind \/ Unbind \/ Clear \/ BindArgument \/ PushScope \/ EmitLocation
      BY <3>5, StackSteps DEF Doing, Unbind, Clear, BindArgument, PushScope, EmitLocation
    <3> QED
      BY <1>7, <3>1, <3>2, <3>3, <3>4, <3>5
  <2>4. state' = "generating"
    BY <2>2, <2>3, GeneratePushes DEF Moves, ReturnValue
  <2>5. Building' => Building
    <3>1. ~BeginFunction /\ ~FinishFunction
      BY <2>2, <2>4 DEF FinishFunction, BeginFunction, Doing, Running
    <3>2. stack' = stack \/ Bottom(Gens \cup {"check", "callee"}) \/ Bottom({Op[1]})
      BY <3>1, BottomSteps
    <3>3. CASE stack' = stack
      <4>1. version' = version
        BY <2>2, <2>3, <3>3, GeneratePushes DEF Moves, ReturnValue, Pushes
      <4> QED
        BY <2>2, <3>3, <4>1 DEF Building, Entered, Routine
    <3>4. CASE Bottom(Gens \cup {"check", "callee"}) \/ Bottom({Op[1]})
      <4>1. PICK ops : Bottom(ops) /\ "entry" \notin ops
        <5>1. "entry" \notin Gens \cup {"check", "callee"} /\ "entry" \notin {Op[1]}
          BY <2>2 DEF Gens
        <5> QED
          BY <3>4, <5>1
      <4> QED
        BY <2>2, <4>1, BottomReady DEF Building
    <3> QED
      BY <3>2, <3>3, <3>4
  <2>6. ASSUME Building PROVE PhiBlocks' /\ PhiFrames'
    <3>1. PhiBlocks /\ PhiFrames
      BY <2>6 DEF PhiInv
    <3>2. CASE Generate
      BY <3>1, <3>2, PhiGenerates
    <3>3. CASE \E v \in ValueType : Op[1] \in {"check", "callee", "return"} /\ ReturnValue(v)
      BY <2>1, <2>2, <3>1, <3>3, PhiReturns
    <3>4. CASE \E regs, old : /\ Moves(Len(stack), regs, Top.bbs, old) /\ Op[1] # "return"
                              /\ \/ regs = Top.regs
                                 \/ /\ Op[1] \notin {"check", "bind", "unbind"}
                                    /\ \E v : regs = [Top.regs EXCEPT ![Op[2]] = v]
      BY <2>1, <2>2, <3>1, <3>4, PhiGoesOn
    <3> QED
      BY <2>3, <3>2, <3>3, <3>4
  <2> QED
    BY <1>p, <1>q, <2>4, <2>5, <2>6
<1> QED
  BY <1>1, <1>2, <1>3, <1>4, <1>5, <1>6, <1>7 DEF Next, Calls, Builds, Frames

(* A PHI has one value for every predecessor of its block.                     *)
THEOREM PhisMatchHolds == Spec => []PhisMatch
<1>1. Init => PhiInv
  BY DEF Init, PhiInv, Building, Finished
<1>2. CodegenInv /\ PhiInv /\ [Next]_vars => PhiInv'
  BY PhiKept DEF CodegenInv
<1>3. PhiInv => PhisMatch
  BY DEF PhiInv, PhisMatch
<1> QED
  BY <1>1, <1>2, <1>3, CodegenInvariant, PTL DEF Spec

-----------------------------------------------------------------------------
(* A script that makes no block and has no PHI.                                *)
LEMMA BlocklessPlaces ==
  ASSUME NEW s, Shaped(s), \A pc \in DOMAIN s : s[pc][1] \notin BlockOps, NEW pc \in DOMAIN s
  PROVE  PlacesAt(s, pc) /\ \A v, b : ~Placed(s, pc, v, b)
  BY DEF PlacesAt, Placed, BlockOps

(* The routines without blocks use what they computed, and bind and unbind once. *)
LEMMA ExpressionOrder == \A s \in Blockless : Computes(s)
<1> USE DEF Computes, UsesAt, BindsAt, Rooted, Current, Solid, Binds, Passed, Assigning, Gens, Sets
<1>1. Computes(Chapter3Expressions.Number)
  BY SMTT(30) DEF Chapter3Expressions
<1>1a. Computes(Chapter3Expressions.Variable)
  BY SMTT(30) DEF Chapter3Expressions
<1>2. Computes(Chapter3Expressions.Binary)
  BY SMTT(30) DEF Chapter3Expressions
<1>3. Computes(Chapter3Expressions.Call)
  BY SMTT(30) DEF Chapter3Expressions
<1>4. Computes(Chapter6Expressions.Unary)
  BY SMTT(30) DEF Chapter6Expressions
<1>5. Computes(Chapter7Expressions.Variable)
  BY SMTT(30) DEF Chapter7Expressions
<1>6. Computes(Chapter7Expressions.Assign)
  BY SMTT(30) DEF Chapter7Expressions
<1>7. Computes(Chapter7Var)
  BY SMTT(30) DEF Chapter7Var
<1>8. Computes(Chapter9Expressions.Unary)
  BY SMTT(30) DEF Chapter9Expressions
<1>9. Computes(Chapter9Var)
  BY SMTT(30) DEF Chapter9Var
<1>10. Computes(Located(Chapter3Expressions.Number))
  BY SMTT(30) DEF Located, Chapter3Expressions
<1>11. Computes(Chapter9Expressions.Variable)
  BY SMTT(30) DEF Chapter9Expressions
<1>12. Computes(Located(Chapter3Expressions.Binary))
  BY SMTT(60) DEF Located, Chapter3Expressions
<1>13. Computes(Located(Chapter3Expressions.Call))
  BY SMTT(60) DEF Located, Chapter3Expressions
<1>14. Computes(Located(Chapter7Expressions.Assign))
  BY SMTT(60) DEF Located, Chapter7Expressions
<1> HIDE DEF Computes, UsesAt, BindsAt, Rooted, Current, Solid, Binds, Passed, Assigning, Gens, Sets
<1>15. /\ Chapter9Expressions.Number = Located(Chapter3Expressions.Number)
       /\ Chapter9Expressions.Binary = Located(Chapter3Expressions.Binary)
       /\ Chapter9Expressions.Call = Located(Chapter3Expressions.Call)
       /\ Chapter9Expressions.Assign = Located(Chapter7Expressions.Assign)
  BY DEF Chapter9Expressions, Chapter7Expressions, Chapter6Expressions, Chapter5Expressions,
         Chapter4Expressions
<1> QED
  BY <1>1, <1>1a, <1>2, <1>3, <1>4, <1>5, <1>6, <1>7, <1>8, <1>9, <1>10, <1>11, <1>12, <1>13,
     <1>14, <1>15
     DEF Blockless, Plain, Debugged

(* FunctionAST::codegen, which computes nothing before its entry block.        *)
LEMMA FunctionOrder == \A s \in AllFunctions : Computes(s) /\ \A pc \in DOMAIN s : EntersAt(s, pc)
<1> USE DEF Computes, UsesAt, BindsAt, EntersAt, Rooted, Current, Solid, Binds, Passed, Assigning, Gens, Sets
<1>1. Computes(Chapter3Function) /\ \A pc \in DOMAIN Chapter3Function : EntersAt(Chapter3Function, pc)
  BY SMTT(30) DEF Chapter3Function
<1>2. Computes(Chapter7Function) /\ \A pc \in DOMAIN Chapter7Function : EntersAt(Chapter7Function, pc)
  BY SMTT(30) DEF Chapter7Function
<1>3. Computes(MCJITInitialFunction) /\ \A pc \in DOMAIN MCJITInitialFunction : EntersAt(MCJITInitialFunction, pc)
  BY SMTT(30) DEF MCJITInitialFunction
<1>4. Computes(Chapter9Function)
  BY SMTT(60) DEF Chapter9Function
<1>5. \A pc \in DOMAIN Chapter9Function : EntersAt(Chapter9Function, pc)
  BY SMTT(60) DEF Chapter9Function
<1> HIDE DEF Computes, UsesAt, BindsAt, EntersAt, Rooted, Current, Solid, Binds, Passed, Assigning, Gens, Sets
<1> QED
  BY <1>1, <1>2, <1>3, <1>4, <1>5 DEF AllFunctions, Functions

UseOps == {"inst", "condbr", "bind", "argument", "return", "ret", "incoming"}
(* The loop of chapters 5 and 6.                                               *)
LEMMA Chapter5ForComputes == Computes(Chapter5For)
<1> DEFINE s == Chapter5For
<1>1. \A pc \in DOMAIN s : s[pc][1] \in UseOps => pc \in {8, 9, 14, 17, 20, 22, 24}
  BY DEF Chapter5For, UseOps
<1>2. UsesAt(s, 8) /\ UsesAt(s, 9)
  BY SMTT(30) DEF Chapter5For, UsesAt, Current, Rooted, Solid, Before, Assigning, Gens, Sets
<1>3. UsesAt(s, 14)
  BY SMTT(30) DEF Chapter5For, UsesAt, Current, Rooted, Solid, Before, Assigning, Gens, Sets
<1>4. UsesAt(s, 17)
  BY SMTT(30) DEF Chapter5For, UsesAt, Current, Rooted, Solid, Before, Assigning, Gens, Sets
<1>5. UsesAt(s, 20)
  BY SMTT(30) DEF Chapter5For, UsesAt, Current, Rooted, Solid, Before, Assigning, Gens, Sets
<1>6. UsesAt(s, 22) /\ UsesAt(s, 24)
  BY SMTT(30) DEF Chapter5For, UsesAt, Current, Rooted, Solid, Before, Assigning, Gens, Sets
<1>7. \A pc \in DOMAIN s : BindsAt(s, pc)
  BY SMTT(30) DEF Chapter5For, BindsAt, Binds, Passed
<1>8. \A pc \in DOMAIN s : s[pc][1] \in Assigning => ~Rooted(s, pc, s[pc][2])
  BY SMTT(30) DEF Chapter5For, Rooted, Assigning
<1> HIDE DEF s
<1>9. \A pc \in DOMAIN s : UsesAt(s, pc)
  <2>1. \A pc \in DOMAIN s : s[pc][1] \notin UseOps => UsesAt(s, pc)
    BY DEF UsesAt, UseOps
  <2> QED
    BY <1>1, <1>2, <1>3, <1>4, <1>5, <1>6, <2>1
<1> QED
  BY <1>7, <1>8, <1>9 DEF Computes, s

(* The loop of chapters 7 and 8.                                               *)
LEMMA Chapter7ForComputes == Computes(Chapter7For)
<1> DEFINE s == Chapter7For
<1>1. \A pc \in DOMAIN s : s[pc][1] \in UseOps => pc \in {4, 8, 15, 16, 17, 18, 20, 23}
  BY SMTT(30) DEF Chapter7For, UseOps
<1>2. UsesAt(s, 4)
  BY SMTT(30) DEF Chapter7For, UsesAt, Current, Rooted, Solid, Before, Assigning, Gens, Sets
<1>3. UsesAt(s, 8)
  BY SMTT(30) DEF Chapter7For, UsesAt, Current, Rooted, Solid, Before, Assigning, Gens, Sets
<1>4. UsesAt(s, 15)
  BY SMTT(30) DEF Chapter7For, UsesAt, Current, Rooted, Solid, Before, Assigning, Gens, Sets
<1>5. UsesAt(s, 16)
  BY SMTT(30) DEF Chapter7For, UsesAt, Current, Rooted, Solid, Before, Assigning, Gens, Sets
<1>6. UsesAt(s, 17)
  BY SMTT(30) DEF Chapter7For, UsesAt, Current, Rooted, Solid, Before, Assigning, Gens, Sets
<1>7. UsesAt(s, 18)
  BY SMTT(30) DEF Chapter7For, UsesAt, Current, Rooted, Solid, Before, Assigning, Gens, Sets
<1>8. UsesAt(s, 20)
  BY SMTT(30) DEF Chapter7For, UsesAt, Current, Rooted, Solid, Before, Assigning, Gens, Sets
<1>9. UsesAt(s, 23)
  BY SMTT(30) DEF Chapter7For, UsesAt, Current, Rooted, Solid, Before, Assigning, Gens, Sets
<1>10. \A pc \in DOMAIN s : BindsAt(s, pc)
  BY SMTT(30) DEF Chapter7For, BindsAt, Binds, Passed
<1>11. \A pc \in DOMAIN s : s[pc][1] \in Assigning => ~Rooted(s, pc, s[pc][2])
  BY SMTT(30) DEF Chapter7For, Rooted, Assigning
<1> HIDE DEF s
<1>12. \A pc \in DOMAIN s : UsesAt(s, pc)
  <2>1. \A pc \in DOMAIN s : s[pc][1] \notin UseOps => UsesAt(s, pc)
    BY DEF UsesAt, UseOps
  <2> QED
    BY <1>1, <1>2, <1>3, <1>4, <1>5, <1>6, <1>7, <1>8, <1>9, <2>1
<1> QED
  BY <1>10, <1>11, <1>12 DEF Computes, s

(* The loop of chapter 9.                                                      *)
LEMMA Chapter9ForComputes == Computes(Chapter9For)
<1> DEFINE s == Chapter9For
<1>1. \A pc \in DOMAIN s : s[pc][1] \in UseOps => pc \in {5, 9, 16, 17, 18, 19, 21, 24}
  BY SMTT(30) DEF Chapter9For, UseOps
<1>2. UsesAt(s, 5)
  BY SMTT(30) DEF Chapter9For, UsesAt, Current, Rooted, Solid, Before, Assigning, Gens, Sets
<1>3. UsesAt(s, 9)
  BY SMTT(30) DEF Chapter9For, UsesAt, Current, Rooted, Solid, Before, Assigning, Gens, Sets
<1>4. UsesAt(s, 16)
  BY SMTT(30) DEF Chapter9For, UsesAt, Current, Rooted, Solid, Before, Assigning, Gens, Sets
<1>5. UsesAt(s, 17)
  BY SMTT(30) DEF Chapter9For, UsesAt, Current, Rooted, Solid, Before, Assigning, Gens, Sets
<1>6. UsesAt(s, 18)
  BY SMTT(30) DEF Chapter9For, UsesAt, Current, Rooted, Solid, Before, Assigning, Gens, Sets
<1>7. UsesAt(s, 19)
  BY SMTT(30) DEF Chapter9For, UsesAt, Current, Rooted, Solid, Before, Assigning, Gens, Sets
<1>8. UsesAt(s, 21)
  BY SMTT(30) DEF Chapter9For, UsesAt, Current, Rooted, Solid, Before, Assigning, Gens, Sets
<1>9. UsesAt(s, 24)
  BY SMTT(30) DEF Chapter9For, UsesAt, Current, Rooted, Solid, Before, Assigning, Gens, Sets
<1>10. \A pc \in DOMAIN s : BindsAt(s, pc)
  BY SMTT(30) DEF Chapter9For, BindsAt, Binds, Passed
<1>11. \A pc \in DOMAIN s : s[pc][1] \in Assigning => ~Rooted(s, pc, s[pc][2])
  BY SMTT(30) DEF Chapter9For, Rooted, Assigning
<1> HIDE DEF s
<1>12. \A pc \in DOMAIN s : UsesAt(s, pc)
  <2>1. \A pc \in DOMAIN s : s[pc][1] \notin UseOps => UsesAt(s, pc)
    BY DEF UsesAt, UseOps
  <2> QED
    BY <1>1, <1>2, <1>3, <1>4, <1>5, <1>6, <1>7, <1>8, <1>9, <2>1
<1> QED
  BY <1>10, <1>11, <1>12 DEF Computes, s

(* The ifs and the loops.                                                      *)
LEMMA SplittingOrder == \A s \in Splitting : Computes(s)
<1>1. Computes(Chapter5If)
  BY SMTT(60) DEF Chapter5If, Computes, UsesAt, BindsAt, Before, Rooted, Current, Solid, Binds,
     Passed, Assigning, Gens, Sets
<1>2. Computes(Chapter9If)
  BY SMTT(60) DEF Chapter9If, Chapter7If, Chapter6If, Chapter5If, Located, Computes, UsesAt,
     BindsAt, Before,
     Rooted, Current, Solid, Binds, Passed, Assigning, Gens, Sets
<1> QED
  BY <1>1, <1>2, Chapter5ForComputes, Chapter7ForComputes, Chapter9ForComputes DEF Splitting,
     LoopScripts

(* Where an if makes, names and enters its blocks, and whether names are bound. *)
LEMMA Chapter5IfPlaces ==
  \A pc \in DOMAIN Chapter5If : PlacesAt(Chapter5If, pc) /\ AssignsAt(Chapter5If, pc)
<1> DEFINE s == Chapter5If
<1>1. \A pc \in DOMAIN s : s[pc][1] \in {"at", "new", "detached", "here"} => pc \in {4, 5, 6, 8, 12, 14, 18, 20}
  BY SMTT(30) DEF Chapter5If
<1>a. DOMAIN s = 1..24
  BY DEF Chapter5If
<1>2. \A pc \in DOMAIN s : \A v, b : Placed(s, pc, v, b) =>
        (v = "Then" /\ b = "ThenBB" /\ pc > 12) \/ (v = "Else" /\ b = "ElseBB" /\ pc > 18)
  BY SMTT(30) DEF Chapter5If, Placed, Before
<1>3. \A pc \in DOMAIN s : s[pc][1] \in Assigning =>
        (s[pc][2] = "Then" => pc <= 9) /\ (s[pc][2] = "Else" => pc <= 15)
  BY SMTT(30) DEF Chapter5If, Assigning
<1>4. PlacesAt(s, 4)
  BY SMTT(30) DEF Chapter5If, PlacesAt, Binds, Passed, Fresh, Making, Aimed, Aims, Held, Creates,
     Pending, Before, Placed, Current, Rooted, Assigning
<1>5. PlacesAt(s, 5)
  BY SMTT(30) DEF Chapter5If, PlacesAt, Binds, Passed, Fresh, Making, Aimed, Aims, Held, Creates,
     Pending, Before, Placed, Current, Rooted, Assigning
<1>6. PlacesAt(s, 6)
  BY SMTT(30) DEF Chapter5If, PlacesAt, Binds, Passed, Fresh, Making, Aimed, Aims, Held, Creates,
     Pending, Before, Placed, Current, Rooted, Assigning
<1>7. PlacesAt(s, 8)
  BY SMTT(30) DEF Chapter5If, PlacesAt, Binds, Passed, Fresh, Making, Aimed, Aims, Held, Creates,
     Pending, Before, Placed, Current, Rooted, Assigning
<1>8. PlacesAt(s, 12)
  BY SMTT(30) DEF Chapter5If, PlacesAt, Binds, Passed, Fresh, Making, Aimed, Aims, Held, Creates,
     Pending, Before, Placed, Current, Rooted, Assigning
<1>9. PlacesAt(s, 14)
  BY SMTT(30) DEF Chapter5If, PlacesAt, Binds, Passed, Fresh, Making, Aimed, Aims, Held, Creates,
     Pending, Before, Placed, Current, Rooted, Assigning
<1>10. PlacesAt(s, 18)
  BY SMTT(30) DEF Chapter5If, PlacesAt, Binds, Passed, Fresh, Making, Aimed, Aims, Held, Creates,
     Pending, Before, Placed, Current, Rooted, Assigning
<1>11. PlacesAt(s, 20)
  BY SMTT(30) DEF Chapter5If, PlacesAt, Binds, Passed, Fresh, Making, Aimed, Aims, Held, Creates,
     Pending, Before, Placed, Current, Rooted, Assigning
<1>12. \A pc \in DOMAIN s : s[pc][1] \in Assigning => ~Rooted(s, pc, s[pc][2])
  BY SplittingOrder DEF Computes, Splitting, LoopScripts
<1> HIDE DEF s
<1>13. \A pc \in DOMAIN s : PlacesAt(s, pc)
  <2>1. \A pc \in DOMAIN s : s[pc][1] \notin {"at", "new", "detached", "here"} => PlacesAt(s, pc)
    BY DEF PlacesAt
  <2> QED
    BY <1>1, <1>4, <1>5, <1>6, <1>7, <1>8, <1>9, <1>10, <1>11, <2>1
<1>14. \A pc \in DOMAIN s : AssignsAt(s, pc)
  BY <1>a, <1>2, <1>3, <1>12 DEF AssignsAt
<1> QED
  BY <1>13, <1>14 DEF s

(* The same a place later, after the debug location.                           *)
LEMMA Chapter9IfPlaces ==
  \A pc \in DOMAIN Chapter9If : PlacesAt(Chapter9If, pc) /\ AssignsAt(Chapter9If, pc)
<1> DEFINE s == Chapter9If
<1>1. \A pc \in DOMAIN s : s[pc][1] \in {"at", "new", "detached", "here"} => pc \in {5, 6, 7, 9, 13, 15, 19, 21}
  BY SMTT(30) DEF Chapter9If, Chapter7If, Chapter6If, Chapter5If, Located
<1>2. \A pc \in DOMAIN s : \A v, b : Placed(s, pc, v, b) =>
        (v = "Then" /\ b = "ThenBB" /\ pc > 13) \/ (v = "Else" /\ b = "ElseBB" /\ pc > 19)
  BY SMTT(30) DEF Chapter9If, Chapter7If, Chapter6If, Chapter5If, Located, Placed, Before
<1>3. \A pc \in DOMAIN s : s[pc][1] \in Assigning =>
        (s[pc][2] = "Then" => pc <= 10) /\ (s[pc][2] = "Else" => pc <= 16)
  BY SMTT(30) DEF Chapter9If, Chapter7If, Chapter6If, Chapter5If, Located, Assigning
<1>4. PlacesAt(s, 5)
  BY SMTT(30) DEF Chapter9If, Chapter7If, Chapter6If, Chapter5If, Located, PlacesAt, Binds,
     Passed, Fresh, Making, Aimed, Aims, Held, Creates, Pending, Before, Placed, Current, Rooted,
     Assigning
<1>5. PlacesAt(s, 6)
  BY SMTT(30) DEF Chapter9If, Chapter7If, Chapter6If, Chapter5If, Located, PlacesAt, Binds,
     Passed, Fresh, Making, Aimed, Aims, Held, Creates, Pending, Before, Placed, Current, Rooted,
     Assigning
<1>6. PlacesAt(s, 7)
  BY SMTT(30) DEF Chapter9If, Chapter7If, Chapter6If, Chapter5If, Located, PlacesAt, Binds,
     Passed, Fresh, Making, Aimed, Aims, Held, Creates, Pending, Before, Placed, Current, Rooted,
     Assigning
<1>7. PlacesAt(s, 9)
  BY SMTT(30) DEF Chapter9If, Chapter7If, Chapter6If, Chapter5If, Located, PlacesAt, Binds,
     Passed, Fresh, Making, Aimed, Aims, Held, Creates, Pending, Before, Placed, Current, Rooted,
     Assigning
<1>a. /\ DOMAIN s = 1..25 /\ Len(s) = 25
      /\ s[13] = <<"here", "ThenBB">> /\ s[19] = <<"here", "ElseBB">>
      /\ s[15] = <<"at", "ElseBB">> /\ s[21] = <<"at", "MergeBB">>
  BY SMTT(30) DEF Chapter9If, Chapter7If, Chapter6If, Chapter5If, Located
<1>b. Current(s, 13, "Then") /\ Current(s, 19, "Else")
  BY SMTT(30) DEF Chapter9If, Chapter7If, Chapter6If, Chapter5If, Located, Current, Assigning
<1>c. \A j \in 1..25 : s[j][1] # "bind"
  BY SMTT(30) DEF Chapter9If, Chapter7If, Chapter6If, Chapter5If, Located
<1>d. \A j \in 15..25 : \A r : Aims(s[j], r) => r = "MergeBB" /\ j < 21
  BY SMTT(30) DEF Chapter9If, Chapter7If, Chapter6If, Chapter5If, Located, Aims
<1>e. Pending(s, 15, "MergeBB")
  BY SMTT(30) DEF Chapter9If, Chapter7If, Chapter6If, Chapter5If, Located, Pending, Creates, Before
<1> HIDE DEF s
<1>f. \A pc \in DOMAIN s : ~Binds(s, pc)
  BY <1>a, <1>c DEF Binds, Passed
<1>8. PlacesAt(s, 13)
  BY <1>2, <1>a, <1>b DEF PlacesAt
<1>9. PlacesAt(s, 15)
  BY <1>a, <1>d, <1>e, <1>f DEF PlacesAt, Aimed
<1>10. PlacesAt(s, 19)
  BY <1>2, <1>a, <1>b DEF PlacesAt
<1>11. PlacesAt(s, 21)
  BY <1>a, <1>d, <1>f DEF PlacesAt, Aimed
<1>12. \A pc \in DOMAIN s : s[pc][1] \in Assigning => ~Rooted(s, pc, s[pc][2])
  BY SplittingOrder DEF Computes, Splitting, LoopScripts, s
<1>13. \A pc \in DOMAIN s : PlacesAt(s, pc)
  <2>1. \A pc \in DOMAIN s : s[pc][1] \notin {"at", "new", "detached", "here"} => PlacesAt(s, pc)
    BY DEF PlacesAt
  <2> QED
    BY <1>1, <1>4, <1>5, <1>6, <1>7, <1>8, <1>9, <1>10, <1>11, <2>1
<1>14. \A pc \in DOMAIN s : AssignsAt(s, pc)
  BY <1>a, <1>2, <1>3, <1>12 DEF AssignsAt
<1> QED
  BY <1>13, <1>14 DEF s

(* Where the loop of chapters 5 and 6 does.                                    *)
LEMMA Chapter5ForPlaces ==
  \A pc \in DOMAIN Chapter5For : PlacesAt(Chapter5For, pc) /\ AssignsAt(Chapter5For, pc)
<1> DEFINE s == Chapter5For
<1>1. \A pc \in DOMAIN s : s[pc][1] \in {"at", "new", "detached", "here"} => pc \in {3, 4, 6, 18, 19, 21}
  BY SMTT(30) DEF Chapter5For
<1>a. DOMAIN s = 1..24
  BY DEF Chapter5For
<1>2. \A pc \in DOMAIN s : \A v, b : Placed(s, pc, v, b) =>
        (v = "Start" /\ b = "PreheaderBB" /\ pc > 3) \/ (v = "NextVar" /\ b = "LoopEndBB" /\ pc > 18)
  BY SMTT(30) DEF Chapter5For, Placed, Before
<1>3. \A pc \in DOMAIN s : s[pc][1] \in Assigning =>
        (s[pc][2] = "Start" => pc <= 1) /\ (s[pc][2] = "NextVar" => pc <= 14)
  BY SMTT(30) DEF Chapter5For, Assigning
<1>4. PlacesAt(s, 3)
  BY SMTT(30) DEF Chapter5For, PlacesAt, Binds, Passed, Fresh, Making, Aimed, Aims, Held, Creates,
     Pending, Before, Placed, Current, Rooted, Assigning
<1>5. PlacesAt(s, 4)
  BY SMTT(30) DEF Chapter5For, PlacesAt, Binds, Passed, Fresh, Making, Aimed, Aims, Held, Creates,
     Pending, Before, Placed, Current, Rooted, Assigning
<1>6. PlacesAt(s, 6)
  BY SMTT(30) DEF Chapter5For, PlacesAt, Binds, Passed, Fresh, Making, Aimed, Aims, Held, Creates,
     Pending, Before, Placed, Current, Rooted, Assigning
<1>7. PlacesAt(s, 18)
  BY SMTT(30) DEF Chapter5For, PlacesAt, Binds, Passed, Fresh, Making, Aimed, Aims, Held, Creates,
     Pending, Before, Placed, Current, Rooted, Assigning
<1>8. PlacesAt(s, 19)
  BY SMTT(30) DEF Chapter5For, PlacesAt, Binds, Passed, Fresh, Making, Aimed, Aims, Held, Creates,
     Pending, Before, Placed, Current, Rooted, Assigning
<1>9. PlacesAt(s, 21)
  BY SMTT(30) DEF Chapter5For, PlacesAt, Binds, Passed, Fresh, Making, Aimed, Aims, Held, Creates,
     Pending, Before, Placed, Current, Rooted, Assigning
<1>10. \A pc \in DOMAIN s : s[pc][1] \in Assigning => ~Rooted(s, pc, s[pc][2])
  BY SplittingOrder DEF Computes, Splitting, LoopScripts
<1> HIDE DEF s
<1>11. \A pc \in DOMAIN s : PlacesAt(s, pc)
  <2>1. \A pc \in DOMAIN s : s[pc][1] \notin {"at", "new", "detached", "here"} => PlacesAt(s, pc)
    BY DEF PlacesAt
  <2> QED
    BY <1>1, <1>4, <1>5, <1>6, <1>7, <1>8, <1>9, <2>1
<1>12. \A pc \in DOMAIN s : AssignsAt(s, pc)
  BY <1>a, <1>2, <1>3, <1>10 DEF AssignsAt
<1> QED
  BY <1>11, <1>12 DEF s

(* Where the loop of chapters 7 and 8 does.                                    *)
LEMMA Chapter7ForPlaces ==
  \A pc \in DOMAIN Chapter7For : PlacesAt(Chapter7For, pc) /\ AssignsAt(Chapter7For, pc)
<1> DEFINE s == Chapter7For
<1>1. \A pc \in DOMAIN s : s[pc][1] \in {"at", "new", "detached", "here"} => pc \in {5, 7, 19, 21}
  BY SMTT(30) DEF Chapter7For
<1>2. \A pc \in DOMAIN s : \A v, b : ~Placed(s, pc, v, b)
  BY SMTT(30) DEF Chapter7For, Placed, Before
<1>4. PlacesAt(s, 5)
  BY SMTT(30) DEF Chapter7For, PlacesAt, Binds, Passed, Fresh, Making, Aimed, Aims, Held, Creates,
     Pending, Before, Placed, Current, Rooted, Assigning
<1>5. PlacesAt(s, 7)
  BY SMTT(30) DEF Chapter7For, PlacesAt, Binds, Passed, Fresh, Making, Aimed, Aims, Held, Creates,
     Pending, Before, Placed, Current, Rooted, Assigning
<1>6. PlacesAt(s, 19)
  BY SMTT(30) DEF Chapter7For, PlacesAt, Binds, Passed, Fresh, Making, Aimed, Aims, Held, Creates,
     Pending, Before, Placed, Current, Rooted, Assigning
<1>7. PlacesAt(s, 21)
  BY SMTT(30) DEF Chapter7For, PlacesAt, Binds, Passed, Fresh, Making, Aimed, Aims, Held, Creates,
     Pending, Before, Placed, Current, Rooted, Assigning
<1>8. \A pc \in DOMAIN s : s[pc][1] \in Assigning => ~Rooted(s, pc, s[pc][2])
  BY SplittingOrder DEF Computes, Splitting, LoopScripts
<1> HIDE DEF s
<1>9. \A pc \in DOMAIN s : PlacesAt(s, pc)
  <2>1. \A pc \in DOMAIN s : s[pc][1] \notin {"at", "new", "detached", "here"} => PlacesAt(s, pc)
    BY DEF PlacesAt
  <2> QED
    BY <1>1, <1>4, <1>5, <1>6, <1>7, <2>1
<1>10. \A pc \in DOMAIN s : AssignsAt(s, pc)
  BY <1>2, <1>8 DEF AssignsAt
<1> QED
  BY <1>9, <1>10 DEF s

(* Where the loop of chapter 9 does.                                           *)
LEMMA Chapter9ForPlaces ==
  \A pc \in DOMAIN Chapter9For : PlacesAt(Chapter9For, pc) /\ AssignsAt(Chapter9For, pc)
<1> DEFINE s == Chapter9For
<1>1. \A pc \in DOMAIN s : s[pc][1] \in {"at", "new", "detached", "here"} => pc \in {6, 8, 20, 22}
  BY SMTT(30) DEF Chapter9For
<1>2. \A pc \in DOMAIN s : \A v, b : ~Placed(s, pc, v, b)
  BY SMTT(30) DEF Chapter9For, Placed, Before
<1>4. PlacesAt(s, 6)
  BY SMTT(30) DEF Chapter9For, PlacesAt, Binds, Passed, Fresh, Making, Aimed, Aims, Held, Creates,
     Pending, Before, Placed, Current, Rooted, Assigning
<1>5. PlacesAt(s, 8)
  BY SMTT(30) DEF Chapter9For, PlacesAt, Binds, Passed, Fresh, Making, Aimed, Aims, Held, Creates,
     Pending, Before, Placed, Current, Rooted, Assigning
<1>6. PlacesAt(s, 20)
  BY SMTT(30) DEF Chapter9For, PlacesAt, Binds, Passed, Fresh, Making, Aimed, Aims, Held, Creates,
     Pending, Before, Placed, Current, Rooted, Assigning
<1>7. PlacesAt(s, 22)
  BY SMTT(30) DEF Chapter9For, PlacesAt, Binds, Passed, Fresh, Making, Aimed, Aims, Held, Creates,
     Pending, Before, Placed, Current, Rooted, Assigning
<1>8. \A pc \in DOMAIN s : s[pc][1] \in Assigning => ~Rooted(s, pc, s[pc][2])
  BY SplittingOrder DEF Computes, Splitting, LoopScripts
<1> HIDE DEF s
<1>9. \A pc \in DOMAIN s : PlacesAt(s, pc)
  <2>1. \A pc \in DOMAIN s : s[pc][1] \notin {"at", "new", "detached", "here"} => PlacesAt(s, pc)
    BY DEF PlacesAt
  <2> QED
    BY <1>1, <1>4, <1>5, <1>6, <1>7, <2>1
<1>10. \A pc \in DOMAIN s : AssignsAt(s, pc)
  BY <1>2, <1>8 DEF AssignsAt
<1> QED
  BY <1>9, <1>10 DEF s

(* All routines are ordered.                                                   *)
LEMMA AllScriptsOrdered == \A s \in AllScripts : Ordered(s)
<1>1. ASSUME NEW s, Shaped(s), \A pc \in DOMAIN s : s[pc][1] \notin BlockOps, Computes(s),
             \A pc \in DOMAIN s : EntersAt(s, pc)
      PROVE  Ordered(s)
  <2> SUFFICES ASSUME NEW pc \in DOMAIN s
               PROVE  UsesAt(s, pc) /\ AssignsAt(s, pc) /\ BindsAt(s, pc) /\ EntersAt(s, pc) /\ PlacesAt(s, pc)
    BY DEF Ordered
  <2>1. PlacesAt(s, pc) /\ \A v, b : ~Placed(s, pc, v, b)
    BY <1>1, BlocklessPlaces
  <2> QED
    BY <1>1, <2>1 DEF AssignsAt, Computes
<1>2. ASSUME NEW s \in Blockless PROVE Ordered(s)
  <2>1. Simple(s) /\ Computes(s)
    BY <1>2, PlainScripts, DebuggedScripts, ExpressionOrder DEF Blockless
  <2>2. Shaped(s) /\ \A pc \in DOMAIN s : s[pc][1] \notin BlockOps /\ s[pc][1] # "entry"
    BY <2>1 DEF Simple, FunctionOps
  <2> QED
    BY <1>1, <2>1, <2>2 DEF EntersAt
<1>3. ASSUME NEW s \in AllFunctions PROVE Ordered(s)
  <2>1. Whole(s) /\ Computes(s) /\ \A pc \in DOMAIN s : EntersAt(s, pc)
    BY <1>3, FunctionScripts, Chapter9FunctionScript, FunctionOrder DEF AllFunctions
  <2>2. Shaped(s) /\ \A pc \in DOMAIN s : s[pc][1] \notin BlockOps
    BY <2>1 DEF Whole, Prologue, BlockOps, FunctionOps
  <2> QED
    BY <1>1, <2>1, <2>2
<1>4. ASSUME NEW s \in Splitting PROVE Ordered(s)
  <2>1. Computes(s) /\ \A pc \in DOMAIN s : s[pc][1] # "entry"
    BY <1>4, SplittingOrder, SplittingOps DEF FunctionOps
  <2>2. \A pc \in DOMAIN s : PlacesAt(s, pc) /\ AssignsAt(s, pc)
    BY <1>4, Chapter5IfPlaces, Chapter9IfPlaces, Chapter5ForPlaces, Chapter7ForPlaces,
       Chapter9ForPlaces
       DEF Splitting, LoopScripts
  <2> QED
    BY <2>1, <2>2 DEF Ordered, Computes, EntersAt
<1> QED
  BY <1>2, <1>3, <1>4 DEF AllScripts

(* Whatever version runs.                                                      *)
LEMMA EveryScriptIsOrdered ==
  \A v \in DOMAIN Scripts : \A k \in DOMAIN Scripts[v] : Ordered(Scripts[v][k])
<1> SUFFICES ASSUME NEW v \in DOMAIN Scripts, NEW k \in DOMAIN Scripts[v]
             PROVE  Scripts[v][k] \in AllScripts
  BY AllScriptsOrdered
<1>1. CASE v # "Chapter9"
  <2>1. Sorted(Scripts[v])
    BY <1>1, VersionTables, TableScripts
  <2> QED
    BY <2>1 DEF Sorted, AllScripts, AllFunctions, Blockless, Splitting
<1>2. CASE v = "Chapter9"
  <2>1. Scripts[v] = Chapter9Table
    BY <1>2, VersionTables
  <2> QED
    BY <2>1, Chapter9Scripts DEF AllScripts, AllFunctions, Blockless, Splitting
<1> QED
  BY <1>1, <1>2

-----------------------------------------------------------------------------
(* What a routine has done, when it goes on.                                   *)
LEMMA OrderHistory ==
  ASSUME NEW s, Shaped(s), NEW pc \in Nat \ {0}
  PROVE  /\ \A r : Rooted(s, pc + 1, r) => Rooted(s, pc, r) \/ (s[pc][1] = "alloca" /\ s[pc][2] = r)
         /\ \A r : Current(s, pc + 1, r) =>
               \/ s[pc][1] \in Assigning /\ s[pc][2] = r
               \/ Current(s, pc, r) /\ (s[pc][1] = "at" => Rooted(s, pc, r))
         /\ \A r : Fresh(s, pc + 1, r) =>
               s[pc][1] \in Making /\ (Fresh(s, pc, r) \/ s[pc] = <<"new", r>> \/ s[pc] = <<"detached", r>>)
         /\ \A r : Pending(s, pc + 1, r) =>
               s[pc] # <<"at", r>> /\ (Pending(s, pc, r) \/ s[pc] = <<"new", r>> \/ s[pc] = <<"detached", r>>)
         /\ \A r : Aimed(s, pc + 1, r) =>
               s[pc] # <<"here", r>> /\ (Aimed(s, pc, r) \/ s[pc] = <<"new", r>> \/ s[pc] = <<"detached", r>>)
         /\ \A v, r : Placed(s, pc + 1, v, r) => Placed(s, pc, v, r) \/ s[pc] = <<"here", r>>
         /\ Binds(s, pc + 1) => Binds(s, pc) \/ s[pc][1] = "bind"
         /\ Binds(s, pc) => Binds(s, pc + 1) \/ s[pc][1] = "unbind"
         /\ s[pc][1] = "unbind" => ~Binds(s, pc + 1)
         /\ s[pc][1] = "bind" /\ ~Passed(s, pc, {"unbind"}) => Binds(s, pc + 1)
<1>1. 1..(pc + 1 - 1) = 1..(pc - 1) \cup {pc}
  OBVIOUS
<1>2. \A r : Rooted(s, pc + 1, r) => Rooted(s, pc, r) \/ (s[pc][1] = "alloca" /\ s[pc][2] = r)
  BY <1>1 DEF Rooted
<1>3. ASSUME NEW r, Current(s, pc + 1, r), ~(s[pc][1] \in Assigning /\ s[pc][2] = r)
      PROVE  Current(s, pc, r) /\ (s[pc][1] = "at" => Rooted(s, pc, r))
  <2>1. CASE Rooted(s, pc + 1, r)
    BY <1>2, <1>3, <2>1 DEF Current, Assigning
  <2>2. CASE ~Rooted(s, pc + 1, r)
    <3>1. PICK j \in 1..(pc + 1 - 1) : /\ s[j][1] \in Assigning /\ s[j][2] = r
                                       /\ \A i \in j..(pc + 1 - 1) : s[i][1] # "at"
      BY <1>3, <2>2 DEF Current
    <3>2. j \in 1..(pc - 1)
      BY <1>1, <1>3, <3>1
    <3>3. pc \in j..(pc + 1 - 1) /\ \A i \in j..(pc - 1) : i \in j..(pc + 1 - 1)
      BY <3>2
    <3> QED
      BY <3>1, <3>2, <3>3 DEF Current
  <2> QED
    BY <2>1, <2>2
<1>4. ASSUME NEW r, Fresh(s, pc + 1, r)
      PROVE  s[pc][1] \in Making /\ (Fresh(s, pc, r) \/ s[pc] = <<"new", r>> \/ s[pc] = <<"detached", r>>)
  <2>1. PICK j \in 1..(pc + 1 - 1) : /\ s[j] = <<"new", r>> \/ s[j] = <<"detached", r>>
                                     /\ \A i \in j..(pc + 1 - 1) : s[i][1] \in Making
    BY <1>4 DEF Fresh
  <2>2. pc \in j..(pc + 1 - 1) /\ \A i \in j..(pc - 1) : i \in j..(pc + 1 - 1)
    BY <2>1
  <2> QED
    BY <1>1, <2>1, <2>2 DEF Fresh
<1>5. \A op : Before(s, pc + 1, op) <=> Before(s, pc, op) \/ s[pc] = op
  BY HistoryMoves
<1>6. \A r : Pending(s, pc + 1, r) =>
               s[pc] # <<"at", r>> /\ (Pending(s, pc, r) \/ s[pc] = <<"new", r>> \/ s[pc] = <<"detached", r>>)
  BY <1>5 DEF Pending, Creates
<1>7. ASSUME NEW r, Aimed(s, pc + 1, r)
      PROVE  s[pc] # <<"here", r>> /\ (Aimed(s, pc, r) \/ s[pc] = <<"new", r>> \/ s[pc] = <<"detached", r>>)
  <2>1. s[pc] # <<"here", r>> /\ (Held(s, pc, r) \/ s[pc] = <<"new", r>> \/ s[pc] = <<"detached", r>>)
    BY <1>5, <1>7 DEF Aimed, Held, Creates
  <2>2. PICK j \in (pc + 1)..Len(s) : Aims(s[j], r)
    BY <1>7 DEF Aimed
  <2>3. \E i \in pc..Len(s) : Aims(s[i], r)
    <3>1. j \in pc..Len(s)
      BY <2>2 DEF Shaped
    <3> QED
      BY <2>2, <3>1
  <2> QED
    BY <2>1, <2>3 DEF Aimed
<1>8. \A v, r : Placed(s, pc + 1, v, r) => Placed(s, pc, v, r) \/ s[pc] = <<"here", r>>
  BY <1>5 DEF Placed
<1>9. \A ops : Passed(s, pc + 1, ops) <=> Passed(s, pc, ops) \/ s[pc][1] \in ops
  BY HistoryMoves
<1>10. /\ Binds(s, pc + 1) => Binds(s, pc) \/ s[pc][1] = "bind"
       /\ Binds(s, pc) => Binds(s, pc + 1) \/ s[pc][1] = "unbind"
       /\ s[pc][1] = "unbind" => ~Binds(s, pc + 1)
       /\ s[pc][1] = "bind" /\ ~Passed(s, pc, {"unbind"}) => Binds(s, pc + 1)
  BY <1>9 DEF Binds
<1> QED
  BY <1>2, <1>3, <1>4, <1>6, <1>7, <1>8, <1>10

(* A routine that begins.                                                      *)
LEMMA NothingOrdered ==
  ASSUME NEW s
  PROVE  /\ \A r : Rooted(s, 1, r) \/ Current(s, 1, r) => r = "const"
         /\ \A r : ~Fresh(s, 1, r) /\ ~Pending(s, 1, r) /\ ~Aimed(s, 1, r)
         /\ \A v, r : ~Placed(s, 1, v, r)
         /\ ~Binds(s, 1)
<1>1. 1..(1 - 1) = {}
  OBVIOUS
<1> QED
  BY <1>1 DEF Rooted, Current, Fresh, Pending, Aimed, Held, Creates, Placed, Before, Binds, Passed

(* D says of every block which blocks are known to dominate it.  A routine     *)
(* began where low dominated, and hi dominates where the routine above it      *)
(* began or, if there is none, the insertion point.                            *)
Available(v, S) == v = Null \/ v.block \in S \cup {0}
Known(s, pc, r) == Creates(s, pc, r) \/ Before(s, pc, <<"here", r>>)
ValuesAt(hi, s, pc, regs) ==
    /\ \A r \in Registers : Rooted(s, pc, r) => regs[r].block \in {0, 1}
    /\ \A r \in Registers : Current(s, pc, r) => Available(regs[r], hi)
BlocksAt(D, low, hi, s, pc, bbs) ==
    /\ \A r \in BlockRegisters : Known(s, pc, r) => bbs[r] \in DOMAIN D
    /\ \A r \in BlockRegisters : Pending(s, pc, r) => low \subseteq D[bbs[r]]
    /\ \A r, q \in BlockRegisters : Pending(s, pc, r) /\ Pending(s, pc, q) =>
          D[bbs[r]] \subseteq D[bbs[q]] \cup {bbs[r]}
    /\ \A r \in BlockRegisters : Fresh(s, pc, r) => hi \subseteq D[bbs[r]] /\ D[bbs[r]] \subseteq hi \cup {bbs[r]}
    /\ \A r \in BlockRegisters : Aimed(s, pc, r) => D[bbs[r]] \subseteq hi \cup {bbs[r]}
PlacedAt(D, s, pc, regs, bbs) ==
    \A v \in Registers, r \in BlockRegisters : Placed(s, pc, v, r) => Available(regs[v], D[bbs[r]])
Orderly(D, low, hi, s, pc, regs, bbs) ==
    /\ low \subseteq hi
    /\ ValuesAt(hi, s, pc, regs)
    /\ BlocksAt(D, low, hi, s, pc, bbs)
    /\ PlacedAt(D, s, pc, regs, bbs)

(* A block that is known was made or named before.                             *)
LEMMA KnownHistory ==
  ASSUME NEW s, NEW pc \in Nat \ {0}
  PROVE  /\ \A r : Known(s, pc + 1, r) => \/ Known(s, pc, r) \/ s[pc] = <<"new", r>> \/ s[pc] = <<"detached", r>>
                                          \/ s[pc] = <<"here", r>>
         /\ \A r : Pending(s, pc, r) \/ Fresh(s, pc, r) \/ Aimed(s, pc, r) => Known(s, pc, r)
         /\ \A v, r : Placed(s, pc, v, r) => Known(s, pc, r)
<1>1. \A op : Before(s, pc + 1, op) <=> Before(s, pc, op) \/ s[pc] = op
  BY HistoryMoves
<1>2. \A r : Known(s, pc + 1, r) => \/ Known(s, pc, r) \/ s[pc] = <<"new", r>> \/ s[pc] = <<"detached", r>>
                                    \/ s[pc] = <<"here", r>>
  BY <1>1 DEF Known, Creates
<1>3. \A r : Pending(s, pc, r) \/ Aimed(s, pc, r) => Known(s, pc, r)
  BY DEF Known, Pending, Aimed, Held
<1>4. \A r : Fresh(s, pc, r) => Known(s, pc, r)
  BY DEF Known, Fresh, Creates, Before
<1>5. \A v, r : Placed(s, pc, v, r) => Known(s, pc, r)
  BY DEF Known, Placed
<1> QED
  BY <1>2, <1>3, <1>4, <1>5

(* An operation that neither assigns nor makes, names or enters a block.       *)
LEMMA OrderlyQuiet ==
  ASSUME NEW s, Shaped(s), NEW pc \in DOMAIN s, NEW D, NEW low, NEW hi, NEW regs, NEW bbs,
         Orderly(D, low, hi, s, pc, regs, bbs),
         s[pc][1] \notin Assigning \cup {"new", "detached", "at", "here"}
  PROVE  Orderly(D, low, hi, s, pc + 1, regs, bbs)
<1>1. pc \in Nat \ {0}
  BY DEF Shaped
<1>2. \A r : s[pc] # <<"new", r>> /\ s[pc] # <<"detached", r>> /\ s[pc] # <<"here", r>>
  OBVIOUS
<1>3. s[pc][1] # "alloca"
  BY DEF Assigning
<1>4. ValuesAt(hi, s, pc + 1, regs)
  BY <1>1, <1>3, OrderHistory DEF Orderly, ValuesAt
<1>5. BlocksAt(D, low, hi, s, pc + 1, bbs)
  <2>1. \A r : /\ Known(s, pc + 1, r) => Known(s, pc, r)
               /\ Pending(s, pc + 1, r) => Pending(s, pc, r)
               /\ Fresh(s, pc + 1, r) => Fresh(s, pc, r)
               /\ Aimed(s, pc + 1, r) => Aimed(s, pc, r)
    BY <1>1, <1>2, OrderHistory, KnownHistory
  <2> QED
    BY <2>1 DEF Orderly, BlocksAt
<1>6. PlacedAt(D, s, pc + 1, regs, bbs)
  BY <1>1, <1>2, OrderHistory DEF Orderly, PlacedAt
<1> QED
  BY <1>4, <1>5, <1>6 DEF Orderly

(* An operation that assigns a value; when it is the value of a sub-expression *)
(* the insertion point may have moved down.                                    *)
LEMMA OrderlyAssigns ==
  ASSUME NEW s, Shaped(s), NEW pc \in DOMAIN s, AssignsAt(s, pc), NEW D, NEW low, NEW hi,
         NEW regs \in RegsType, NEW bbs,
         Orderly(D, low, hi, s, pc, regs, bbs), s[pc][1] \in Assigning,
         NEW new, hi \subseteq new, NEW v, Available(v, new),
         s[pc][1] = "alloca" => v.block \in {0, 1}
  PROVE  Orderly(D, low, new, s, pc + 1, [regs EXCEPT ![s[pc][2]] = v], bbs)
<1>1. pc \in Nat \ {0}
  BY DEF Shaped
<1>2. \A r : s[pc] # <<"new", r>> /\ s[pc] # <<"detached", r>> /\ s[pc] # <<"here", r>>
  BY DEF Assigning
<1>3. s[pc][1] # "at" /\ s[pc][1] \notin Making
  BY DEF Assigning, Making
<1>4. PICK after : after = [regs EXCEPT ![s[pc][2]] = v]
  OBVIOUS
<1>5. \A r \in Registers : after[r] = IF r = s[pc][2] THEN v ELSE regs[r]
  BY <1>4 DEF RegsType
<1>6. \A w : Available(w, hi) => Available(w, new)
  BY DEF Available
<1>7. ValuesAt(new, s, pc + 1, after)
  <2>1. ASSUME NEW r \in Registers, Rooted(s, pc + 1, r) PROVE after[r].block \in {0, 1}
    BY <1>1, <1>5, <2>1, OrderHistory DEF Orderly, ValuesAt, AssignsAt
  <2>2. ASSUME NEW r \in Registers, Current(s, pc + 1, r) PROVE Available(after[r], new)
    BY <1>1, <1>5, <1>6, <2>2, OrderHistory DEF Orderly, ValuesAt
  <2> QED
    BY <2>1, <2>2 DEF ValuesAt
<1>8. BlocksAt(D, low, new, s, pc + 1, bbs)
  <2>1. \A r : /\ Known(s, pc + 1, r) => Known(s, pc, r)
               /\ Pending(s, pc + 1, r) => Pending(s, pc, r)
               /\ ~Fresh(s, pc + 1, r)
               /\ Aimed(s, pc + 1, r) => Aimed(s, pc, r)
    BY <1>1, <1>2, <1>3, OrderHistory, KnownHistory
  <2>2. BlocksAt(D, low, hi, s, pc, bbs)
    BY DEF Orderly
  <2>3. \A r \in BlockRegisters : Aimed(s, pc + 1, r) => D[bbs[r]] \subseteq new \cup {bbs[r]}
    BY <2>1, <2>2 DEF BlocksAt
  <2> QED
    BY <2>1, <2>2, <2>3 DEF BlocksAt
<1>9. PlacedAt(D, s, pc + 1, after, bbs)
  <2>1. \A w, r : Placed(s, pc + 1, w, r) => Placed(s, pc, w, r)
    <3>1. \A w, r : Placed(s, pc + 1, w, r) => Placed(s, pc, w, r) \/ s[pc] = <<"here", r>>
      BY <1>1, OrderHistory
    <3> QED
      BY <1>2, <3>1
  <2>2. \A r \in BlockRegisters : ~Placed(s, pc, s[pc][2], r)
    BY DEF AssignsAt
  <2> QED
    BY <1>5, <2>1, <2>2 DEF Orderly, PlacedAt
<1> QED
  BY <1>4, <1>7, <1>8, <1>9 DEF Orderly

(* A block that is made is dominated by what dominates the insertion point.    *)
LEMMA OrderlyMakes ==
  ASSUME NEW s, Shaped(s), NEW pc \in DOMAIN s, PlacesAt(s, pc), NEW D, NEW low, NEW hi, NEW regs,
         NEW bbs \in BBsType,
         Orderly(D, low, hi, s, pc, regs, bbs), NEW q \in BlockRegisters,
         s[pc] = <<"new", q>> \/ s[pc] = <<"detached", q>>,
         ~Known(s, pc, q), NEW m \in DOMAIN D, \A r \in BlockRegisters : Known(s, pc, r) => bbs[r] # m,
         D[m] = hi \cup {m}
  PROVE  Orderly(D, low, hi, s, pc + 1, regs, [bbs EXCEPT ![q] = m])
<1>1. pc \in Nat \ {0}
  BY DEF Shaped
<1>2. PICK after : after = [bbs EXCEPT ![q] = m]
  OBVIOUS
<1>3. \A r \in BlockRegisters : after[r] = IF r = q THEN m ELSE bbs[r]
  BY <1>2 DEF BBsType
<1>4. s[pc][1] \notin Assigning /\ s[pc][1] # "at" /\ s[pc][2] = q /\ s[pc][1] \in {"new", "detached"}
  BY DEF Assigning
<1>5. \A r : s[pc] = <<"new", r>> \/ s[pc] = <<"detached", r>> => r = q
  OBVIOUS
<1>6. \A r : s[pc] # <<"here", r>>
  OBVIOUS
<1>7. ValuesAt(hi, s, pc + 1, regs)
  BY <1>1, <1>4, OrderHistory DEF Orderly, ValuesAt, Assigning
<1>8. \A r : /\ Known(s, pc + 1, r) => Known(s, pc, r) \/ r = q
             /\ Pending(s, pc + 1, r) => Pending(s, pc, r) \/ r = q
             /\ Fresh(s, pc + 1, r) => Fresh(s, pc, r) \/ r = q
             /\ Aimed(s, pc + 1, r) => Aimed(s, pc, r) \/ r = q
  BY <1>1, <1>5, <1>6, OrderHistory, KnownHistory
<1>9. \A r : Pending(s, pc, r) \/ Fresh(s, pc, r) \/ Aimed(s, pc, r) => r # q
  BY <1>1, KnownHistory
<1>10. \A r \in BlockRegisters : Pending(s, pc, r) =>
          hi \subseteq D[bbs[r]] /\ D[bbs[r]] \subseteq hi \cup {bbs[r]}
  BY <1>4 DEF Orderly, BlocksAt, PlacesAt
<1>11. BlocksAt(D, low, hi, s, pc + 1, after)
  <2>1. \A r \in BlockRegisters : Known(s, pc + 1, r) => after[r] \in DOMAIN D
    BY <1>3, <1>8 DEF Orderly, BlocksAt
  <2>2. \A r \in BlockRegisters : Pending(s, pc + 1, r) => low \subseteq D[after[r]]
    BY <1>3, <1>8 DEF Orderly, BlocksAt
  <2>3. ASSUME NEW r \in BlockRegisters, NEW p \in BlockRegisters, Pending(s, pc + 1, r), Pending(s, pc + 1, p)
        PROVE  D[after[r]] \subseteq D[after[p]] \cup {after[r]}
    <3>1. ASSUME NEW x \in BlockRegisters, Pending(s, pc + 1, x)
          PROVE  hi \subseteq D[after[x]] /\ D[after[x]] \subseteq hi \cup {after[x]}
      BY <1>3, <1>8, <1>10, <3>1
    <3> QED
      BY <2>3, <3>1
  <2>4. \A r \in BlockRegisters : Fresh(s, pc + 1, r) => hi \subseteq D[after[r]] /\ D[after[r]] \subseteq hi \cup {after[r]}
    BY <1>3, <1>8 DEF Orderly, BlocksAt
  <2>5. \A r \in BlockRegisters : Aimed(s, pc + 1, r) => D[after[r]] \subseteq hi \cup {after[r]}
    BY <1>3, <1>8 DEF Orderly, BlocksAt
  <2> QED
    BY <2>1, <2>2, <2>3, <2>4, <2>5 DEF BlocksAt
<1>12. PlacedAt(D, s, pc + 1, regs, after)
  <2>1. \A v, r : Placed(s, pc + 1, v, r) => Placed(s, pc, v, r) /\ r # q
    BY <1>1, <1>6, OrderHistory, KnownHistory
  <2> QED
    BY <1>3, <2>1 DEF Orderly, PlacedAt
<1> QED
  BY <1>2, <1>7, <1>11, <1>12 DEF Orderly

(* The block of the insertion point is named.                                  *)
LEMMA OrderlyNames ==
  ASSUME NEW s, Shaped(s), NEW pc \in DOMAIN s, PlacesAt(s, pc), NEW D, NEW low, NEW hi, NEW regs,
         NEW bbs \in BBsType,
         Orderly(D, low, hi, s, pc, regs, bbs), NEW q \in BlockRegisters, s[pc] = <<"here", q>>,
         ~Pending(s, pc, q), NEW m \in DOMAIN D, D[m] = hi
  PROVE  Orderly(D, low, hi, s, pc + 1, regs, [bbs EXCEPT ![q] = m])
<1>1. pc \in Nat \ {0}
  BY DEF Shaped
<1>2. PICK after : after = [bbs EXCEPT ![q] = m]
  OBVIOUS
<1>3. \A r \in BlockRegisters : after[r] = IF r = q THEN m ELSE bbs[r]
  BY <1>2 DEF BBsType
<1>4. s[pc][1] \notin Assigning /\ s[pc][1] # "at" /\ s[pc][2] = q /\ s[pc][1] = "here" /\ s[pc][1] \notin Making
  BY DEF Assigning, Making
<1>5. \A r : s[pc] # <<"new", r>> /\ s[pc] # <<"detached", r>> /\ (s[pc] = <<"here", r>> => r = q)
  OBVIOUS
<1>6. ValuesAt(hi, s, pc + 1, regs)
  BY <1>1, <1>4, OrderHistory DEF Orderly, ValuesAt, Assigning
<1>7. \A r : /\ Known(s, pc + 1, r) => Known(s, pc, r) \/ r = q
             /\ Pending(s, pc + 1, r) => Pending(s, pc, r) /\ r # q
             /\ ~Fresh(s, pc + 1, r)
             /\ Aimed(s, pc + 1, r) => Aimed(s, pc, r) /\ r # q
  <2>1. \A r : Known(s, pc + 1, r) => Known(s, pc, r) \/ r = q
    BY <1>1, <1>5, KnownHistory
  <2>2. \A r : /\ Pending(s, pc + 1, r) => Pending(s, pc, r)
               /\ ~Fresh(s, pc + 1, r)
               /\ Aimed(s, pc + 1, r) => Aimed(s, pc, r) /\ s[pc] # <<"here", r>>
    BY <1>1, <1>4, <1>5, OrderHistory
  <2> QED
    BY <2>1, <2>2
<1>8. BlocksAt(D, low, hi, s, pc + 1, after)
  <2>1. BlocksAt(D, low, hi, s, pc, bbs)
    BY DEF Orderly
  <2>2. \A r \in BlockRegisters : Known(s, pc + 1, r) => after[r] \in DOMAIN D
    BY <1>3, <1>7, <2>1 DEF BlocksAt
  <2>3. \A r \in BlockRegisters : Pending(s, pc + 1, r) => Pending(s, pc, r) /\ after[r] = bbs[r]
    BY <1>3, <1>7
  <2>4. \A r \in BlockRegisters : Aimed(s, pc + 1, r) => D[after[r]] \subseteq hi \cup {after[r]}
    BY <1>3, <1>7, <2>1 DEF BlocksAt
  <2>5. \A r \in BlockRegisters : Pending(s, pc + 1, r) => low \subseteq D[after[r]]
    BY <2>1, <2>3 DEF BlocksAt
  <2>6. \A r, p \in BlockRegisters : Pending(s, pc + 1, r) /\ Pending(s, pc + 1, p) =>
           D[after[r]] \subseteq D[after[p]] \cup {after[r]}
    BY <2>1, <2>3 DEF BlocksAt
  <2> QED
    BY <1>7, <2>2, <2>4, <2>5, <2>6 DEF BlocksAt
<1>9. PlacedAt(D, s, pc + 1, regs, after)
  <2>1. ASSUME NEW v \in Registers, NEW r \in BlockRegisters, Placed(s, pc + 1, v, r)
        PROVE  Available(regs[v], D[after[r]])
    <3>1. CASE r = q
      <4>1. Current(s, pc, v)
        BY <1>4, <2>1, <3>1 DEF PlacesAt
      <4> QED
        BY <1>3, <3>1, <4>1 DEF Orderly, ValuesAt
    <3>2. CASE r # q
      BY <1>1, <1>3, <1>5, <2>1, <3>2, OrderHistory DEF Orderly, PlacedAt
    <3> QED
      BY <3>1, <3>2
  <2> QED
    BY <2>1 DEF PlacedAt
<1> QED
  BY <1>2, <1>6, <1>8, <1>9 DEF Orderly

(* The insertion point moves to a block that was made before.                  *)
LEMMA OrderlyEnters ==
  ASSUME NEW s, Shaped(s), NEW pc \in DOMAIN s, PlacesAt(s, pc), NEW D, NEW low, NEW hi, NEW regs,
         NEW bbs,
         Orderly(D, low, hi, s, pc, regs, bbs), NEW q \in BlockRegisters, s[pc] = <<"at", q>>,
         Pending(s, pc, q), 1 \in D[bbs[q]]
  PROVE  Orderly(D, low, D[bbs[q]], s, pc + 1, regs, bbs)
<1>1. pc \in Nat \ {0}
  BY DEF Shaped
<1>2. s[pc][1] \notin Assigning /\ s[pc][2] = q /\ s[pc][1] = "at" /\ s[pc][1] \notin Making
  BY DEF Assigning, Making
<1>3. \A r : s[pc] # <<"new", r>> /\ s[pc] # <<"detached", r>> /\ s[pc] # <<"here", r>>
  OBVIOUS
<1>4. ValuesAt(D[bbs[q]], s, pc + 1, regs)
  <2>1. ASSUME NEW r \in Registers, Rooted(s, pc + 1, r) PROVE regs[r].block \in {0, 1}
    BY <1>1, <1>2, <2>1, OrderHistory DEF Orderly, ValuesAt
  <2>2. ASSUME NEW r \in Registers, Current(s, pc + 1, r) PROVE Available(regs[r], D[bbs[q]])
    <3>1. regs[r].block \in {0, 1}
      BY <1>1, <1>2, <2>2, OrderHistory DEF Orderly, ValuesAt
    <3> QED
      BY <3>1 DEF Available
  <2> QED
    BY <2>1, <2>2 DEF ValuesAt
<1>5. \A r : /\ Known(s, pc + 1, r) => Known(s, pc, r)
             /\ Pending(s, pc + 1, r) => Pending(s, pc, r)
             /\ ~Fresh(s, pc + 1, r)
             /\ Aimed(s, pc + 1, r) => Aimed(s, pc, r)
  BY <1>1, <1>2, <1>3, OrderHistory, KnownHistory
<1>6. \A r \in BlockRegisters : Aimed(s, pc + 1, r) => r = q \/ Pending(s, pc, r)
  BY <1>2, <1>5 DEF PlacesAt
<1>7. BlocksAt(D, low, D[bbs[q]], s, pc + 1, bbs)
  <2>1. \A r \in BlockRegisters : Aimed(s, pc + 1, r) => D[bbs[r]] \subseteq D[bbs[q]] \cup {bbs[r]}
    BY <1>6 DEF Orderly, BlocksAt
  <2> QED
    BY <1>5, <2>1 DEF Orderly, BlocksAt
<1>8. PlacedAt(D, s, pc + 1, regs, bbs)
  BY <1>1, <1>3, OrderHistory DEF Orderly, PlacedAt
<1>9. low \subseteq D[bbs[q]]
  BY DEF Orderly, BlocksAt
<1> QED
  BY <1>4, <1>7, <1>8, <1>9 DEF Orderly

(* A frame that begins; one that waits, when blocks are made above it.         *)
LEMMA OrderlyBegins ==
  ASSUME NEW s, NEW D, NEW low, NEW regs, regs["const"] = Constant, NEW bbs
  PROVE  Orderly(D, low, low, s, 1, regs, bbs)
<1>1. Constant.block = 0
  BY DEF Constant, Value
<1>2. \A r : ~Known(s, 1, r)
  BY DEF Known, Creates, Before
<1>3. ValuesAt(low, s, 1, regs)
  BY <1>1, NothingOrdered DEF ValuesAt, Available
<1>4. BlocksAt(D, low, low, s, 1, bbs)
  BY <1>2, NothingOrdered DEF BlocksAt
<1>5. PlacedAt(D, s, 1, regs, bbs)
  BY NothingOrdered DEF PlacedAt
<1> QED
  BY <1>3, <1>4, <1>5 DEF Orderly

Extends(E, D) == DOMAIN D \subseteq DOMAIN E /\ \A b \in DOMAIN D : E[b] = D[b]
(* A new block takes nothing from what is known of the others.                 *)
LEMMA OrderlyExtends ==
  ASSUME NEW s, NEW pc \in Nat \ {0}, NEW D, NEW E, Extends(E, D), NEW low, NEW hi, NEW regs,
         NEW bbs,
         Orderly(D, low, hi, s, pc, regs, bbs)
  PROVE  Orderly(E, low, hi, s, pc, regs, bbs)
<1>1. \A r \in BlockRegisters : Known(s, pc, r) => bbs[r] \in DOMAIN E /\ E[bbs[r]] = D[bbs[r]]
  BY DEF Orderly, BlocksAt, Extends
<1>2. \A r \in BlockRegisters : Pending(s, pc, r) \/ Fresh(s, pc, r) \/ Aimed(s, pc, r) => E[bbs[r]] = D[bbs[r]]
  BY <1>1, KnownHistory
<1>3. \A v \in Registers, r \in BlockRegisters : Placed(s, pc, v, r) => E[bbs[r]] = D[bbs[r]]
  BY <1>1, KnownHistory
<1>4. BlocksAt(E, low, hi, s, pc, bbs)
  <2>1. BlocksAt(D, low, hi, s, pc, bbs)
    BY DEF Orderly
  <2>2. \A r \in BlockRegisters : Known(s, pc, r) => bbs[r] \in DOMAIN E
    BY <1>1
  <2>3. \A r \in BlockRegisters : Pending(s, pc, r) => low \subseteq E[bbs[r]]
    BY <1>2, <2>1 DEF BlocksAt
  <2>4. \A r, q \in BlockRegisters : Pending(s, pc, r) /\ Pending(s, pc, q) =>
           E[bbs[r]] \subseteq E[bbs[q]] \cup {bbs[r]}
    BY <1>2, <2>1 DEF BlocksAt
  <2>5. \A r \in BlockRegisters : Fresh(s, pc, r) => hi \subseteq E[bbs[r]] /\ E[bbs[r]] \subseteq hi \cup {bbs[r]}
    BY <1>2, <2>1 DEF BlocksAt
  <2>6. \A r \in BlockRegisters : Aimed(s, pc, r) => E[bbs[r]] \subseteq hi \cup {bbs[r]}
    BY <1>2, <2>1 DEF BlocksAt
  <2> QED
    BY <2>2, <2>3, <2>4, <2>5, <2>6 DEF BlocksAt
<1>5. PlacedAt(E, s, pc, regs, bbs)
  BY <1>3 DEF Orderly, PlacedAt
<1> QED
  BY <1>4, <1>5 DEF Orderly

-----------------------------------------------------------------------------
(* D is a table of dominators of the function's blocks.  The routine of frame  *)
(* k began where B[k] dominated and N[k] was bound, and its sub-expressions    *)
(* have left the insertion point and the names at that of frame k + 1.         *)
Depth(D, B, k) == IF k = Len(stack) THEN D[insert] ELSE B[k + 1]
Visible(N, k) == IF k = Len(stack) THEN named ELSE N[k + 1]
IsBinding(f) == Binds(Routine(f.kind), f.pc)

DomTable(D) ==
    /\ DOMAIN D = Blocks /\ D[1] = {1}
    /\ \A b \in Blocks : b \in D[b] /\ 1 \in D[b]
    /\ \A b \in Blocks : \A c \in Successors(b) : D[c] \subseteq D[b] \cup {c}
DomUses(D) ==
    /\ \A u \in uses : u[2] \in Blocks /\ u[1].block \in D[u[2]] \cup {0}
    /\ \A i \in incoming : i.from \in Blocks /\ i.value.block \in D[i.from] \cup {0}
DomFrame(D, B, k) ==
    Orderly(D, B[k], Depth(D, B, k), Routine(stack[k].kind), stack[k].pc, stack[k].regs, stack[k].bbs)
DomNames(D, B, N, k) ==
    /\ Cleared(stack[1]) => \A x \in Names : Available(Visible(N, k)[x], Depth(D, B, k))
    /\ k # 1 => /\ IsBinding(stack[k]) => stack[k].old = N[k][stack[k].name]
                /\ \A x \in Names : (IsBinding(stack[k]) /\ x = stack[k].name) \/ Visible(N, k)[x] = N[k][x]
DomState(D, B, N) ==
    /\ DomTable(D) /\ DomUses(D)
    /\ \A k \in 1..Len(stack) : DomFrame(D, B, k) /\ DomNames(D, B, N, k)
DomInv ==
    /\ Building /\ ~Doomed => \E D, B, N : DomState(D, B, N)
    /\ state = "generating" /\ Cleared(stack[1]) /\ ~Entered(stack[1]) => \A x \in Names : named[x] = Null
    /\ OperandsDominate

(* Frame n goes on, and those below it wait as before.                         *)
LEMMA DomMoves ==
  ASSUME TypeInv, StackInv, NEW n \in 1..Len(stack), NEW regs, NEW bbs, NEW old,
         Moves(n, regs, bbs, old),
         NEW D, NEW B, NEW N, DomState(D, B, N), NEW E, Extends(E, D),
         Orderly(E, B[n], E[insert'], Routine(stack[n].kind), stack[n].pc + 1, regs, bbs),
         DomTable(E)', DomUses(E)',
         Cleared(stack[1])' => \A x \in Names : Available(named'[x], E[insert']),
         n # 1 => /\ Binds(Routine(stack[n].kind), stack[n].pc + 1) => old = N[n][stack[n].name]
                  /\ \A x \in Names : \/ Binds(Routine(stack[n].kind), stack[n].pc + 1) /\ x = stack[n].name
                                      \/ named'[x] = N[n][x]
  PROVE  DomState(E, B, N)'
<1>1. Len(stack) \in Nat /\ Len(stack') = n /\ n \in Nat /\ n <= Len(stack) /\ version' = version
  BY LenProperties DEF TypeInv, Moves
<1>2. ASSUME NEW k \in 1..n, k # n
      PROVE  DomFrame(E, B, k)' /\ DomNames(E, B, N, k)'
  <2>1. k \in 1..(n - 1) /\ k \in 1..Len(stack) /\ k # Len(stack) /\ 1 \in 1..(n - 1)
    BY <1>1, <1>2
  <2>2. stack'[k] = stack[k] /\ stack'[1] = stack[1] /\ \A kind : Routine(kind)' = Routine(kind)
    BY <1>1, <2>1 DEF Moves, Routine
  <2>3. /\ Depth(D, B, k) = B[k + 1] /\ Depth(E, B, k)' = B[k + 1]
        /\ Visible(N, k) = N[k + 1] /\ Visible(N, k)' = N[k + 1]
    BY <1>1, <1>2, <2>1 DEF Depth, Visible
  <2>4. DomFrame(D, B, k) /\ DomNames(D, B, N, k)
    BY <2>1 DEF DomState
  <2>5. stack[k].pc \in Nat \ {0}
    BY <2>1, FrameScript
  <2>6. Orderly(D, B[k], B[k + 1], Routine(stack[k].kind), stack[k].pc, stack[k].regs, stack[k].bbs)
    BY <2>3, <2>4 DEF DomFrame
  <2>7. Orderly(E, B[k], B[k + 1], Routine(stack[k].kind), stack[k].pc, stack[k].regs, stack[k].bbs)
    BY <2>5, <2>6, OrderlyExtends
  <2>8. DomFrame(E, B, k)'
    BY <2>2, <2>3, <2>7 DEF DomFrame
  <2>9. /\ Cleared(stack[1])' <=> Cleared(stack[1])
        /\ IsBinding(stack[k])' <=> IsBinding(stack[k])
    BY <2>2 DEF Cleared, IsBinding
  <2>10. DomNames(E, B, N, k)'
    BY <2>2, <2>3, <2>4, <2>9 DEF DomNames
  <2> QED
    BY <2>8, <2>10
<1>3. /\ stack'[n].kind = stack[n].kind /\ stack'[n].name = stack[n].name /\ stack'[n].pc = stack[n].pc + 1
      /\ stack'[n].regs = regs /\ stack'[n].bbs = bbs /\ stack'[n].old = old
      /\ Routine(stack[n].kind)' = Routine(stack[n].kind)
  BY <1>1 DEF Moves, Moved, Routine
<1>4. Depth(E, B, n)' = E[insert'] /\ Visible(N, n)' = named'
  BY <1>1 DEF Depth, Visible
<1>5. DomFrame(E, B, n)'
  BY <1>3, <1>4 DEF DomFrame
<1>6. DomNames(E, B, N, n)'
  BY <1>3, <1>4 DEF DomNames, IsBinding
<1>7. \A k \in 1..Len(stack') : DomFrame(E, B, k)' /\ DomNames(E, B, N, k)'
  BY <1>1, <1>2, <1>5, <1>6
<1> QED
  BY <1>7 DEF DomState

(* The innermost routine, where it is.                                         *)
LEMMA TopOrder ==
  ASSUME TypeInv, StackInv, Running
  PROVE  /\ Shaped(Script) /\ Top.pc \in DOMAIN Script /\ Op = Script[Top.pc]
         /\ UsesAt(Script, Top.pc) /\ AssignsAt(Script, Top.pc) /\ BindsAt(Script, Top.pc)
         /\ EntersAt(Script, Top.pc) /\ PlacesAt(Script, Top.pc)
         /\ Top.pc \in Nat \ {0} /\ Top.regs \in RegsType /\ Top.bbs \in BBsType
         /\ Len(stack) \in 1..Len(stack) /\ Len(stack) \in Nat \ {0} /\ Top = stack[Len(stack)]
         /\ Splits(Script)
<1>1. Len(stack) \in 1..Len(stack) /\ Top = stack[Len(stack)] /\ Len(stack) \in Nat \ {0}
  BY TopScript
<1>2. version \in DOMAIN Scripts /\ Top.kind \in DOMAIN Scripts[version]
  BY <1>1, ScriptFacts DEF Kinds
<1>3. Ordered(Script)
  BY <1>2, EveryScriptIsOrdered DEF Script, Routine
<1>4. Shaped(Script) /\ Top.pc \in DOMAIN Script /\ Op = Script[Top.pc] /\ Top.pc \in Nat \ {0} /\ Splits(Script)
  BY TopScript DEF Script
<1> QED
  BY <1>1, <1>3, <1>4, OperandsTyped DEF Ordered

(* What an open invariant says of the innermost routine.                       *)
LEMMA TopDom ==
  ASSUME TypeInv, StackInv, BlockInv, Running, Building, NEW D, NEW B, NEW N, DomState(D, B, N)
  PROVE  /\ DomTable(D) /\ DomUses(D) /\ insert \in Blocks /\ Len(term) \in Nat \ {0}
         /\ Orderly(D, B[Len(stack)], D[insert], Script, Top.pc, Top.regs, Top.bbs)
         /\ Cleared(stack[1]) => \A x \in Names : Available(named[x], D[insert])
         /\ Len(stack) # 1 => /\ Binds(Script, Top.pc) => Top.old = N[Len(stack)][Top.name]
                              /\ \A x \in Names : \/ Binds(Script, Top.pc) /\ x = Top.name
                                                  \/ named[x] = N[Len(stack)][x]
<1>1. Len(stack) \in 1..Len(stack) /\ Top = stack[Len(stack)]
  BY TopScript
<1>2. DomFrame(D, B, Len(stack)) /\ DomNames(D, B, N, Len(stack)) /\ DomTable(D) /\ DomUses(D)
  BY <1>1 DEF DomState
<1>3. Depth(D, B, Len(stack)) = D[insert] /\ Visible(N, Len(stack)) = named
  BY DEF Depth, Visible
<1>4. insert \in Blocks /\ term # <<>>
  BY DEF BlockInv
<1>5. Len(term) \in Nat \ {0}
  BY <1>4, EmptySeq DEF TypeInv
<1> QED
  BY <1>1, <1>2, <1>3, <1>4, <1>5 DEF DomFrame, DomNames, IsBinding, Script

(* What was bound when the innermost routine began is available where it did.  *)
LEMMA NamesBelow ==
  ASSUME TypeInv, StackInv, Running, NEW D, NEW B, NEW N, DomState(D, B, N), Len(stack) # 1,
         Cleared(stack[1])
  PROVE  \A x \in Names : Available(N[Len(stack)][x], B[Len(stack)])
<1>1. PICK k : k = Len(stack) - 1
  OBVIOUS
<1>2. Len(stack) \in Nat \ {0}
  BY TopScript
<1>3. k \in 1..Len(stack) /\ k # Len(stack) /\ k + 1 = Len(stack)
  BY <1>1, <1>2
<1>4. DomNames(D, B, N, k)
  BY <1>3 DEF DomState
<1> QED
  BY <1>3, <1>4 DEF DomNames, Depth, Visible

(* The innermost routine goes on and binds no name.                            *)
LEMMA DomGoes ==
  ASSUME TypeInv, StackInv, BlockInv, Running, Building, NEW D, NEW B, NEW N, DomState(D, B, N),
         NEW regs, NEW bbs, Moves(Len(stack), regs, bbs, Top.old),
         named' = named, Op[1] \notin {"bind", "unbind", "clear"},
         NEW E, Extends(E, D), DomTable(E)', DomUses(E)',
         Orderly(E, B[Len(stack)], E[insert'], Script, Top.pc + 1, regs, bbs),
         Cleared(stack[1]) => \A x \in Names : Available(named[x], E[insert'])
  PROVE  DomState(E, B, N)'
<1>1. PICK n : n = Len(stack)
  OBVIOUS
<1>2. n \in 1..Len(stack) /\ Top = stack[n] /\ Op = Script[Top.pc] /\ Top.pc \in Nat \ {0} /\ Script = Routine(stack[n].kind)
  BY <1>1, TopOrder DEF Script
<1>3. Moves(n, regs, bbs, Top.old)
  BY <1>1
<1>4. \A ops : Passed(Script, Top.pc + 1, ops) <=> Passed(Script, Top.pc, ops) \/ Op[1] \in ops
  BY <1>2, HistoryMoves
<1>5. Binds(Script, Top.pc + 1) <=> Binds(Script, Top.pc)
  BY <1>4 DEF Binds
<1>6. Cleared(stack[1])' => Cleared(stack[1])
  <2>1. version' = version
    BY <1>3 DEF Moves
  <2>2. CASE n = 1
    <3>1. stack'[1].kind = Top.kind /\ stack'[1].pc = Top.pc + 1
      BY <1>2, <1>3, <2>2 DEF Moves, Moved
    <3> QED
      BY <1>2, <1>4, <2>1, <2>2, <3>1 DEF Cleared, Script, Routine
  <2>3. CASE n # 1
    <3>1. 1 \in 1..(n - 1)
      BY <1>2, <2>3
    <3>2. stack'[1] = stack[1]
      BY <1>3, <3>1 DEF Moves
    <3> QED
      BY <2>1, <3>2 DEF Cleared, Routine
  <2> QED
    BY <2>2, <2>3
<1>7. Cleared(stack[1])' => \A x \in Names : Available(named'[x], E[insert'])
  BY <1>6
<1>8. n # 1 => /\ Binds(Script, Top.pc + 1) => Top.old = N[n][Top.name]
               /\ \A x \in Names : (Binds(Script, Top.pc + 1) /\ x = Top.name) \/ named'[x] = N[n][x]
  BY <1>1, <1>5, TopDom
<1>9. Orderly(E, B[n], E[insert'], Script, Top.pc + 1, regs, bbs)
  BY <1>1
<1> QED
  BY <1>2, <1>3, <1>7, <1>8, <1>9, DomMoves

(* It leaves the function and its own registers as they are.                   *)
LEMMA DomQuiet ==
  ASSUME TypeInv, StackInv, BlockInv, Running, Building, NEW D, NEW B, NEW N, DomState(D, B, N),
         Moves(Len(stack), Top.regs, Top.bbs, Top.old), UNCHANGED <<term, insert, named, uses, incoming>>,
         Op[1] \notin Assigning \cup {"new", "detached", "at", "here", "bind", "unbind", "clear"}
  PROVE  DomState(D, B, N)'
<1>1. /\ DomTable(D) /\ DomUses(D)
      /\ Orderly(D, B[Len(stack)], D[insert], Script, Top.pc, Top.regs, Top.bbs)
      /\ Cleared(stack[1]) => \A x \in Names : Available(named[x], D[insert])
  BY TopDom
<1>2. Orderly(D, B[Len(stack)], D[insert], Script, Top.pc + 1, Top.regs, Top.bbs)
  BY <1>1, TopOrder, OrderlyQuiet
<1>3. DomTable(D)' /\ DomUses(D)'
  BY <1>1 DEF DomTable, DomUses, Blocks, Successors
<1>4. Extends(D, D)
  BY DEF Extends
<1> QED
  BY <1>1, <1>2, <1>3, <1>4, DomGoes

(* It assigns a value that is available.                                       *)
LEMMA DomAssigns ==
  ASSUME TypeInv, StackInv, BlockInv, Running, Building, NEW D, NEW B, NEW N, DomState(D, B, N),
         NEW v,
         Moves(Len(stack), [Top.regs EXCEPT ![Op[2]] = v], Top.bbs, Top.old), UNCHANGED <<term, insert, named, incoming>>,
         Op[1] \in Assigning, Available(v, D[insert]), Op[1] = "alloca" => v.block \in {0, 1}, DomUses(D)'
  PROVE  DomState(D, B, N)'
<1>1. /\ DomTable(D)
      /\ Orderly(D, B[Len(stack)], D[insert], Script, Top.pc, Top.regs, Top.bbs)
      /\ Cleared(stack[1]) => \A x \in Names : Available(named[x], D[insert])
  BY TopDom
<1>2. /\ Shaped(Script) /\ Top.pc \in DOMAIN Script /\ Op = Script[Top.pc] /\ AssignsAt(Script, Top.pc)
      /\ Top.regs \in RegsType
  BY TopOrder
<1>3. Orderly(D, B[Len(stack)], D[insert], Script, Top.pc + 1, [Top.regs EXCEPT ![Op[2]] = v], Top.bbs)
  <2>1. D[insert] \subseteq D[insert]
    OBVIOUS
  <2> QED
    BY <1>1, <1>2, <2>1, OrderlyAssigns
<1>4. DomTable(D)'
  BY <1>1 DEF DomTable, Blocks, Successors
<1>5. Extends(D, D)
  BY DEF Extends
<1>6. Op[1] \notin {"bind", "unbind", "clear"}
  BY DEF Assigning
<1> QED
  BY <1>1, <1>3, <1>4, <1>5, <1>6, DomGoes

(* What an operation uses is there, once nothing has failed.                   *)
LEMMA SolidRegisters ==
  ASSUME TypeInv, StackInv, CheckedInv, Running, ~Doomed, NEW r, Solid(Script, Top.pc, r)
  PROVE  Top.regs[r] # Null
<1>1. Len(stack) \in 1..Len(stack) /\ Top = stack[Len(stack)]
  BY TopOrder
<1>2. CheckedAt(Script, Top.pc, Top.regs) /\ ~DoomedAt(Script, Top.pc, Top.regs)
  BY <1>1 DEF CheckedInv, CheckedFrame, Doomed, DoomedFrame, Script
<1>3. Constant # Null
  BY DEF Constant, Null, Value
<1> QED
  BY <1>2, <1>3 DEF Solid, CheckedAt, DoomedAt

(* And available where they are used.                                          *)
LEMMA SolidOperands ==
  ASSUME TypeInv, StackInv, CheckedInv, BlockInv, Running, ~Doomed, Building,
         NEW D, NEW B, NEW N, DomState(D, B, N),
         NEW r \in Registers, Current(Script, Top.pc, r), Solid(Script, Top.pc, r)
  PROVE  Top.regs[r].block \in D[insert] \cup {0}
<1>1. Available(Top.regs[r], D[insert])
  BY TopDom DEF Orderly, ValuesAt
<1> QED
  BY <1>1, SolidRegisters DEF Available

(* An instruction is computed where the insertion point is.                    *)
LEMMA DomInst ==
  ASSUME TypeInv, StackInv, CheckedInv, BlockInv, Inst, ~Doomed, Building,
         NEW D, NEW B, NEW N, DomState(D, B, N)
  PROVE  DomState(D, B, N)'
<1>1. /\ Running /\ Op[1] = "inst" /\ UNCHANGED <<term, insert, named, incoming>>
      /\ uses' = uses \cup {<<Reg(3), insert>>, <<Reg(4), insert>>}
      /\ Moves(Len(stack), [Top.regs EXCEPT ![Op[2]] = Value(fn, insert)], Top.bbs, Top.old)
  BY StackSteps DEF Inst, Doing, blocks
<1>2. DomTable(D) /\ DomUses(D) /\ insert \in Blocks
  BY <1>1, TopDom
<1>3. /\ Current(Script, Top.pc, Op[3]) /\ Solid(Script, Top.pc, Op[3])
      /\ Current(Script, Top.pc, Op[4]) /\ Solid(Script, Top.pc, Op[4])
      /\ Op[3] \in Registers /\ Op[4] \in Registers
  BY <1>1, TopOrder, OperandsTyped DEF UsesAt
<1>4. Reg(3).block \in D[insert] \cup {0} /\ Reg(4).block \in D[insert] \cup {0}
  BY <1>1, <1>3, SolidOperands DEF Reg
<1>5. Blocks' = Blocks
  BY <1>1 DEF Blocks
<1>6. DomUses(D)'
  BY <1>1, <1>2, <1>4, <1>5 DEF DomUses
<1>7. Available(Value(fn, insert), D[insert])
  BY <1>2 DEF Available, Value, DomTable
<1> QED
  BY <1>1, <1>6, <1>7, DomAssigns DEF Assigning

(* The other values: a constant, a variable's, an alloca, a PHI.               *)
LEMMA DomValues ==
  ASSUME TypeInv, StackInv, BlockInv,
         NoSubExpression \/ Lookup \/ CreateEntryBlockAlloca \/ CreatePHI, Building,
         NEW D, NEW B, NEW N, DomState(D, B, N)
  PROVE  DomState(D, B, N)'
<1>1. /\ Running /\ Op[1] \in Assigning /\ UNCHANGED <<term, insert, named, uses, incoming>>
      /\ Op[1] = "lookup" => Lookup
  BY StackSteps DEF NoSubExpression, Lookup, CreateEntryBlockAlloca, CreatePHI, Doing, blocks,
     values, Assigning
<1>2. /\ DomTable(D) /\ DomUses(D) /\ insert \in Blocks
      /\ Cleared(stack[1]) => \A x \in Names : Available(named[x], D[insert])
  BY <1>1, TopDom
<1>3. DomUses(D)'
  BY <1>1, <1>2 DEF DomUses, Blocks
<1>4. Cleared(stack[1]) /\ Top.name \in Names
  BY <1>1, ReadyToBuild, OperandsTyped DEF Ready, Quiet, Assigning
<1>5. PICK v : /\ Moves(Len(stack), [Top.regs EXCEPT ![Op[2]] = v], Top.bbs, Top.old)
               /\ \/ v = Constant /\ Op[1] = "genopt"
                  \/ v = named[Top.name] /\ Op[1] = "lookup"
                  \/ v = EntryAlloca
                  \/ v = Value(fn, insert) /\ Op[1] = "phi"
  BY StackSteps DEF Doing
<1>6. Available(v, D[insert])
  <2>1. 1 \in D[insert] /\ insert \in D[insert]
    BY <1>2 DEF DomTable
  <2> QED
    BY <1>2, <1>4, <1>5, <2>1 DEF Available, Value, Constant, EntryAlloca
<1>7. Op[1] = "alloca" => v.block \in {0, 1}
  BY <1>5 DEF Value, Constant, EntryAlloca
<1> QED
  BY <1>1, <1>3, <1>5, <1>6, <1>7, DomAssigns

(* A new block is dominated by the one the insertion point is in.              *)
LEMMA DomNew ==
  ASSUME TypeInv, StackInv, BlockInv, NewBlock, Building, NEW D, NEW B, NEW N, DomState(D, B, N)
  PROVE  \E E : DomState(E, B, N)'
<1>1. PICK m : m = Len(term) + 1
  OBVIOUS
<1>2. PICK E : E = [b \in 1..m |-> IF b = m THEN D[insert] \cup {m} ELSE D[b]]
  OBVIOUS
<1>3. /\ Running /\ Op[1] \in {"new", "detached"} /\ UNCHANGED <<insert, named, uses, incoming>>
      /\ term' = Append(term, Open)
      /\ Moves(Len(stack), Top.regs, [Top.bbs EXCEPT ![Op[2]] = m], Top.old)
  BY <1>1, StackSteps DEF NewBlock, Doing, values
<1>4. /\ DomTable(D) /\ DomUses(D) /\ insert \in Blocks /\ Len(term) \in Nat \ {0}
      /\ Orderly(D, B[Len(stack)], D[insert], Script, Top.pc, Top.regs, Top.bbs)
      /\ Cleared(stack[1]) => \A x \in Names : Available(named[x], D[insert])
  BY <1>3, TopDom
<1>5. Branches
  BY <1>3, BuildingFacts DEF Shaping
<1>6. /\ Blocks = 1..(m - 1) /\ Blocks' = 1..m /\ m \in Nat /\ m # 1 /\ m \notin Blocks /\ m \in Blocks'
      /\ Blocks \subseteq Blocks' /\ 1 \in Blocks
      /\ \A b \in Blocks : term'[b] = term[b]
      /\ term'[m] = Open
  <2>1. Open \in Terminators /\ term \in Seq(Terminators)
    BY DEF TypeInv, Open, Terminators
  <2>2. Len(term') = m /\ term'[m] = Open /\ \A b \in 1..Len(term) : term'[b] = term[b]
    BY <1>1, <1>3, <2>1, AppendProperties
  <2> QED
    BY <1>1, <1>4, <2>2 DEF Blocks
<1>7. \A b \in Blocks' : b \in Blocks \/ b = m
  BY <1>6
<1>8. Extends(E, D) /\ DOMAIN E = Blocks' /\ E[m] = D[insert] \cup {m} /\ E[insert] = D[insert]
  BY <1>2, <1>4, <1>6 DEF Extends, DomTable
<1>9. DomTable(E)'
  <2>1. \A b \in Blocks : E[b] = D[b]
    BY <1>4, <1>8 DEF Extends, DomTable
  <2>2. \A b \in Blocks : Successors(b)' = Successors(b) /\ Successors(b) \subseteq Blocks
    BY <1>5, <1>6 DEF Successors, Branches
  <2>3. Successors(m)' = {}
    BY <1>6 DEF Successors, Open
  <2>4. E[1] = {1}
    BY <1>4, <1>6, <2>1 DEF DomTable
  <2>5. \A b \in Blocks' : b \in E[b] /\ 1 \in E[b]
    BY <1>4, <1>7, <1>8, <2>1 DEF DomTable
  <2>6. \A b \in Blocks' : \A c \in Successors(b)' : E[c] \subseteq E[b] \cup {c}
    BY <1>4, <1>7, <2>1, <2>2, <2>3 DEF DomTable
  <2> QED
    BY <1>8, <2>4, <2>5, <2>6 DEF DomTable
<1>10. DomUses(E)'
  <2>1. \A b \in Blocks : b \in Blocks' /\ E[b] = D[b]
    BY <1>4, <1>6, <1>8 DEF Extends, DomTable
  <2> QED
    BY <1>3, <1>4, <2>1 DEF DomUses
<1>11. /\ Shaped(Script) /\ Top.pc \in DOMAIN Script /\ Op = Script[Top.pc] /\ PlacesAt(Script, Top.pc)
       /\ Top.pc \in Nat \ {0} /\ Top.bbs \in BBsType /\ Op[2] \in BlockRegisters
       /\ Op = <<Op[1], Op[2]>> /\ CreatesAt(Script, Top.pc)
  BY <1>3, TopOrder, TopScript DEF OneBlock, Splits
<1>12. Orderly(E, B[Len(stack)], E[insert], Script, Top.pc, Top.regs, Top.bbs)
  BY <1>4, <1>8, <1>11, OrderlyExtends
<1>13. Orderly(E, B[Len(stack)], E[insert], Script, Top.pc + 1, Top.regs, [Top.bbs EXCEPT ![Op[2]] = m])
  <2>1. ~Known(Script, Top.pc, Op[2])
    BY <1>11 DEF Known, CreatesAt
  <2>2. \A r \in BlockRegisters : Known(Script, Top.pc, r) => Top.bbs[r] # m
    BY <1>4, <1>6 DEF Orderly, BlocksAt, DomTable
  <2>3. Script[Top.pc] = <<"new", Op[2]>> \/ Script[Top.pc] = <<"detached", Op[2]>>
    BY <1>3, <1>11
  <2>4. m \in DOMAIN E /\ E[m] = E[insert] \cup {m}
    BY <1>6, <1>8
  <2> QED
    BY <1>11, <1>12, <2>1, <2>2, <2>3, <2>4, OrderlyMakes
<1>14. DomState(E, B, N)'
  BY <1>3, <1>4, <1>8, <1>9, <1>10, <1>13, DomGoes
<1> QED
  BY <1>14

(* The name of the block the insertion point is in.                            *)
LEMMA DomHere ==
  ASSUME TypeInv, StackInv, BlockInv, GetInsertBlock, Building, NEW D, NEW B, NEW N,
         DomState(D, B, N)
  PROVE  DomState(D, B, N)'
<1>1. /\ Running /\ Op[1] = "here" /\ UNCHANGED <<term, insert, named, uses, incoming>>
      /\ Moves(Len(stack), Top.regs, [Top.bbs EXCEPT ![Op[2]] = insert], Top.old)
  BY StackSteps DEF GetInsertBlock, Doing, blocks, values
<1>2. /\ DomTable(D) /\ DomUses(D) /\ insert \in Blocks
      /\ Orderly(D, B[Len(stack)], D[insert], Script, Top.pc, Top.regs, Top.bbs)
      /\ Cleared(stack[1]) => \A x \in Names : Available(named[x], D[insert])
  BY <1>1, TopDom
<1>3. /\ Shaped(Script) /\ Top.pc \in DOMAIN Script /\ Script[Top.pc] = <<"here", Op[2]>> /\ PlacesAt(Script, Top.pc)
      /\ Top.bbs \in BBsType /\ Op[2] \in BlockRegisters /\ ~Pending(Script, Top.pc, Op[2])
  BY <1>1, TopOrder, TopScript DEF OneBlock, Splits, KeepsAt
<1>4. Orderly(D, B[Len(stack)], D[insert], Script, Top.pc + 1, Top.regs, [Top.bbs EXCEPT ![Op[2]] = insert])
  <2>1. insert \in DOMAIN D
    BY <1>2 DEF DomTable
  <2>2. D[insert] = D[insert]
    OBVIOUS
  <2> QED
    BY <1>2, <1>3, <2>1, <2>2, OrderlyNames
<1>5. DomTable(D)' /\ DomUses(D)' /\ Extends(D, D)
  BY <1>1, <1>2 DEF DomTable, DomUses, Blocks, Successors, Extends
<1> QED
  BY <1>1, <1>2, <1>4, <1>5, DomGoes

(* What was bound when the insertion point last was in the block that is       *)
(* entered is available there, and what was bound since was forgotten, or the  *)
(* block was made for the code that binds it.                                  *)
LEMMA DomAt ==
  ASSUME TypeInv, StackInv, BlockInv, SetInsertPoint, Building, NEW D, NEW B, NEW N,
         DomState(D, B, N)
  PROVE  DomState(D, B, N)'
<1>1. /\ Running /\ Op[1] = "at" /\ UNCHANGED <<term, named, uses, incoming>> /\ insert' = Block(2)
      /\ Moves(Len(stack), Top.regs, Top.bbs, Top.old)
  BY StackSteps DEF SetInsertPoint, Doing, values
<1>2. /\ DomTable(D) /\ DomUses(D) /\ insert \in Blocks
      /\ Orderly(D, B[Len(stack)], D[insert], Script, Top.pc, Top.regs, Top.bbs)
      /\ Cleared(stack[1]) => \A x \in Names : Available(named[x], D[insert])
      /\ Len(stack) # 1 => \A x \in Names : \/ Binds(Script, Top.pc) /\ x = Top.name
                                            \/ named[x] = N[Len(stack)][x]
  BY <1>1, TopDom
<1>3. /\ Shaped(Script) /\ Top.pc \in DOMAIN Script /\ Script[Top.pc] = <<"at", Op[2]>> /\ PlacesAt(Script, Top.pc)
      /\ Top.pc \in Nat \ {0} /\ Op[2] \in BlockRegisters /\ Pending(Script, Top.pc, Op[2]) /\ Len(stack) # 1
  BY <1>1, TopOrder, TopScript, OpsOfRoutines DEF OneBlock, Splits, MovesAt, FunctionOps
<1>4. insert' = Top.bbs[Op[2]]
  BY <1>1 DEF Block
<1>5. Known(Script, Top.pc, Op[2])
  BY <1>3, KnownHistory
<1>6. insert' \in DOMAIN D /\ 1 \in D[insert'] /\ B[Len(stack)] \subseteq D[insert']
  BY <1>2, <1>3, <1>4, <1>5 DEF Orderly, BlocksAt, DomTable
<1>7. Orderly(D, B[Len(stack)], D[insert'], Script, Top.pc + 1, Top.regs, Top.bbs)
  BY <1>2, <1>3, <1>4, <1>6, OrderlyEnters
<1>8. DomTable(D)' /\ DomUses(D)' /\ Extends(D, D)
  BY <1>1, <1>2 DEF DomTable, DomUses, Blocks, Successors, Extends
<1>9. ASSUME Cleared(stack[1]), NEW x \in Names PROVE Available(named[x], D[insert'])
  <2>1. CASE Binds(Script, Top.pc)
    <3>1. Fresh(Script, Top.pc, Op[2])
      BY <1>3, <2>1 DEF PlacesAt
    <3>2. D[insert] \subseteq D[insert']
      BY <1>2, <1>3, <1>4, <3>1 DEF Orderly, BlocksAt
    <3> QED
      BY <1>2, <1>9, <3>2 DEF Available
  <2>2. CASE ~Binds(Script, Top.pc)
    <3>1. named[x] = N[Len(stack)][x]
      BY <1>2, <1>3, <2>2
    <3>2. Available(N[Len(stack)][x], B[Len(stack)])
      BY <1>1, <1>3, <1>9, NamesBelow
    <3> QED
      BY <1>6, <3>1, <3>2 DEF Available
  <2> QED
    BY <2>1, <2>2
<1>10. Op[1] \notin {"bind", "unbind", "clear"}
  BY <1>1
<1> QED
  BY <1>1, <1>7, <1>8, <1>9, <1>10, DomGoes

(* A block that is branched to is dominated by what dominates the branch, but  *)
(* for itself.                                                                 *)
LEMMA DomBranches ==
  ASSUME TypeInv, StackInv, BlockInv, Running, Building, NEW D, NEW B, NEW N, DomState(D, B, N),
         Op[1] \in {"br", "condbr"}, NEW targets, \A r \in targets : r \in BlockRegisters /\ Aims(Op, r),
         term' = [term EXCEPT ![insert] = Branch({Top.bbs[r] : r \in targets})],
         UNCHANGED <<insert, named, incoming>>, Moves(Len(stack), Top.regs, Top.bbs, Top.old),
         DomUses(D)'
  PROVE  DomState(D, B, N)'
<1>1. /\ DomTable(D) /\ insert \in Blocks
      /\ Orderly(D, B[Len(stack)], D[insert], Script, Top.pc, Top.regs, Top.bbs)
      /\ Cleared(stack[1]) => \A x \in Names : Available(named[x], D[insert])
  BY TopDom
<1>2. /\ Shaped(Script) /\ Top.pc \in DOMAIN Script /\ Op = Script[Top.pc] /\ Top.pc \in Nat \ {0} /\ Splits(Script)
      /\ Top.bbs \in BBsType
  BY TopOrder
<1>3. ASSUME NEW r \in targets PROVE D[Top.bbs[r]] \subseteq D[insert] \cup {Top.bbs[r]} /\ Top.bbs[r] \in Nat
  <2>1. BranchesAt(Script, Top.pc)
    BY <1>2 DEF Splits
  <2>2. Held(Script, Top.pc, r)
    BY <1>2, <2>1 DEF BranchesAt, Aims
  <2>3. Top.pc \in Top.pc..Len(Script)
    BY <1>2 DEF Shaped
  <2>4. Aimed(Script, Top.pc, r)
    BY <1>2, <2>2, <2>3 DEF Aimed
  <2> QED
    BY <1>1, <1>2, <2>4 DEF Orderly, BlocksAt, BBsType
<1>4. PICK to : to = {Top.bbs[r] : r \in targets}
  OBVIOUS
<1>5. Blocks' = Blocks /\ \A b \in Blocks : term'[b] = IF b = insert THEN Branch(to) ELSE term[b]
  <2>1. Branch(to) \in Terminators
    BY <1>3, <1>4 DEF Branch, Terminators
  <2>2. insert \in Nat /\ term \in Seq(Terminators)
    BY DEF TypeInv
  <2> QED
    BY <1>4, <2>1, <2>2, TerminatorSet DEF Blocks
<1>6. DomTable(D)'
  <2>1. \A b \in Blocks : Successors(b)' = IF b = insert THEN to ELSE Successors(b)
    <3>1. Branch(to).to = to
      BY DEF Branch
    <3>2. \A b \in Blocks : b = insert => Successors(b)' = to
      BY <1>5, <3>1 DEF Successors
    <3>3. \A b \in Blocks : b # insert => Successors(b)' = Successors(b)
      BY <1>5 DEF Successors
    <3> QED
      BY <3>2, <3>3
  <2>2. \A c \in to : D[c] \subseteq D[insert] \cup {c}
    BY <1>3, <1>4
  <2>3. ASSUME NEW b \in Blocks, NEW c \in Successors(b)' PROVE D[c] \subseteq D[b] \cup {c}
    <3>1. CASE b = insert
      BY <2>1, <2>2, <2>3, <3>1
    <3>2. CASE b # insert
      <4>1. c \in Successors(b)
        BY <2>1, <2>3, <3>2
      <4> QED
        BY <1>1, <4>1 DEF DomTable
    <3> QED
      BY <3>1, <3>2
  <2> QED
    BY <1>1, <1>5, <2>3 DEF DomTable
<1>7. Orderly(D, B[Len(stack)], D[insert], Script, Top.pc + 1, Top.regs, Top.bbs)
  BY <1>1, <1>2, OrderlyQuiet DEF Assigning
<1>8. Extends(D, D) /\ Op[1] \notin {"bind", "unbind", "clear"}
  BY DEF Extends
<1> QED
  BY <1>1, <1>6, <1>7, <1>8, DomGoes

(* A branch to one block,                                                      *)
LEMMA DomBr ==
  ASSUME TypeInv, StackInv, BlockInv, CreateBr, Building, NEW D, NEW B, NEW N, DomState(D, B, N)
  PROVE  DomState(D, B, N)'
<1>1. /\ Running /\ Op[1] = "br" /\ UNCHANGED <<insert, named, uses, incoming>>
      /\ term' = [term EXCEPT ![insert] = Branch({Block(2)})]
      /\ Moves(Len(stack), Top.regs, Top.bbs, Top.old)
  BY StackSteps DEF CreateBr, Doing, values
<1>2. Op = <<"br", Op[2]>> /\ Op[2] \in BlockRegisters
  BY <1>1, TopScript DEF OneBlock
<1>3. PICK targets : targets = {Op[2]}
  OBVIOUS
<1>4. \A r \in targets : r \in BlockRegisters /\ Aims(Op, r)
  BY <1>2, <1>3 DEF Aims
<1>5. {Top.bbs[r] : r \in targets} = {Block(2)}
  BY <1>3 DEF Block
<1>6. DomUses(D)'
  <2>1. DomUses(D) /\ insert \in Nat /\ term \in Seq(Terminators) /\ Block(2) \in Nat
    BY <1>1, TopDom, OperandsTyped, <1>2 DEF TypeInv
  <2>2. Branch({Block(2)}) \in Terminators
    BY <2>1 DEF Branch, Terminators
  <2>3. Blocks' = Blocks
    BY <1>1, <2>1, <2>2, TerminatorSet DEF Blocks
  <2> QED
    BY <1>1, <2>1, <2>3 DEF DomUses
<1> QED
  BY <1>1, <1>4, <1>5, <1>6, DomBranches

(* or to two, by a condition that is available.                                *)
LEMMA DomCondBr ==
  ASSUME TypeInv, StackInv, CheckedInv, BlockInv, CreateCondBr, ~Doomed, Building,
         NEW D, NEW B, NEW N, DomState(D, B, N)
  PROVE  DomState(D, B, N)'
<1>1. /\ Running /\ Op[1] = "condbr" /\ UNCHANGED <<insert, named, incoming>>
      /\ term' = [term EXCEPT ![insert] = Branch({Block(3), Block(4)})]
      /\ uses' = uses \cup {<<Reg(2), insert>>}
      /\ Moves(Len(stack), Top.regs, Top.bbs, Top.old)
  BY StackSteps DEF CreateCondBr, Doing
<1>2. /\ Op[2] \in Registers /\ Op[3] \in BlockRegisters /\ Op[4] \in BlockRegisters
      /\ Current(Script, Top.pc, Op[2]) /\ Solid(Script, Top.pc, Op[2])
  BY <1>1, TopOrder, OperandsTyped DEF UsesAt
<1>3. PICK targets : targets = {Op[3], Op[4]}
  OBVIOUS
<1>4. \A r \in targets : r \in BlockRegisters /\ Aims(Op, r)
  BY <1>1, <1>2, <1>3 DEF Aims
<1>5. {Top.bbs[r] : r \in targets} = {Block(3), Block(4)}
  BY <1>3 DEF Block
<1>6. Reg(2).block \in D[insert] \cup {0}
  BY <1>1, <1>2, SolidOperands DEF Reg
<1>7. DomUses(D)'
  <2>1. DomUses(D) /\ insert \in Blocks /\ insert \in Nat /\ term \in Seq(Terminators) /\ Block(3) \in Nat /\ Block(4) \in Nat
    BY <1>1, <1>2, TopDom, OperandsTyped DEF TypeInv
  <2>2. Branch({Block(3), Block(4)}) \in Terminators
    BY <2>1 DEF Branch, Terminators
  <2>3. Blocks' = Blocks
    BY <1>1, <2>1, <2>2, TerminatorSet DEF Blocks
  <2> QED
    BY <1>1, <1>6, <2>1, <2>3 DEF DomUses
<1> QED
  BY <1>1, <1>4, <1>5, <1>7, DomBranches

(* The value of a PHI was there when the predecessor was where code went.      *)
LEMMA DomIncoming ==
  ASSUME TypeInv, StackInv, CheckedInv, BlockInv, AddIncoming, ~Doomed, Building,
         NEW D, NEW B, NEW N, DomState(D, B, N)
  PROVE  DomState(D, B, N)'
<1>1. /\ Running /\ Op[1] = "incoming" /\ UNCHANGED <<term, insert, named, uses>>
      /\ incoming' = incoming \cup {[phi |-> Reg(2).block, value |-> Reg(3), from |-> Block(4)]}
      /\ Moves(Len(stack), Top.regs, Top.bbs, Top.old)
  BY StackSteps DEF AddIncoming, Doing, blocks
<1>2. /\ DomTable(D) /\ DomUses(D)
      /\ Orderly(D, B[Len(stack)], D[insert], Script, Top.pc, Top.regs, Top.bbs)
      /\ Cleared(stack[1]) => \A x \in Names : Available(named[x], D[insert])
  BY <1>1, TopDom
<1>3. /\ Op[3] \in Registers /\ Op[4] \in BlockRegisters /\ Op = Script[Top.pc] /\ Top.pc \in DOMAIN Script
      /\ Shaped(Script) /\ Top.pc \in Nat \ {0}
      /\ Before(Script, Top.pc, <<"here", Op[4]>>) /\ Solid(Script, Top.pc, Op[3])
  BY <1>1, TopOrder, OperandsTyped DEF UsesAt
<1>4. Placed(Script, Top.pc, Op[3], Op[4])
  BY <1>1, <1>3 DEF Placed
<1>5. Block(4) \in Blocks
  BY <1>2, <1>3 DEF Orderly, BlocksAt, Known, DomTable, Block
<1>6. Reg(3).block \in D[Block(4)] \cup {0}
  <2>1. Reg(3) # Null
    BY <1>1, <1>3, SolidRegisters DEF Reg
  <2>2. Available(Reg(3), D[Block(4)])
    BY <1>2, <1>3, <1>4 DEF Orderly, PlacedAt, Reg, Block
  <2> QED
    BY <2>1, <2>2 DEF Available
<1>7. DomTable(D)' /\ DomUses(D)'
  <2>1. Blocks' = Blocks /\ \A b : Successors(b)' = Successors(b)
    BY <1>1 DEF Blocks, Successors
  <2> QED
    BY <1>1, <1>2, <1>5, <1>6, <2>1 DEF DomTable, DomUses
<1>8. Orderly(D, B[Len(stack)], D[insert], Script, Top.pc + 1, Top.regs, Top.bbs)
  BY <1>1, <1>2, <1>3, OrderlyQuiet DEF Assigning
<1>9. Extends(D, D)
  BY DEF Extends
<1> QED
  BY <1>1, <1>2, <1>7, <1>8, <1>9, DomGoes

(* A name is bound to a value that is there, and what it hid is kept to be     *)
(* bound again.                                                                *)
LEMMA DomBind ==
  ASSUME TypeInv, StackInv, BlockInv, Bind \/ Unbind, Building, NEW D, NEW B, NEW N,
         DomState(D, B, N)
  PROVE  DomState(D, B, N)'
<1>1. /\ Running /\ Op[1] \in {"bind", "unbind"} /\ UNCHANGED <<term, insert, uses, incoming>>
      /\ Op[1] = "bind" => named' = [named EXCEPT ![Top.name] = Reg(2)]
      /\ Op[1] = "unbind" => named' = [named EXCEPT ![Top.name] = Top.old]
  BY DEF Bind, Unbind, Restored, Doing, blocks, values
<1>2. PICK old : /\ Moves(Len(stack), Top.regs, Top.bbs, old)
                 /\ Op[1] = "bind" => old = named[Top.name]
                 /\ Op[1] = "unbind" => old = Top.old
  BY StackSteps DEF Bind, Unbind, Doing
<1>3. PICK n : n = Len(stack)
  OBVIOUS
<1>4. /\ DomTable(D) /\ DomUses(D)
      /\ Orderly(D, B[n], D[insert], Script, Top.pc, Top.regs, Top.bbs)
      /\ Cleared(stack[1]) => \A x \in Names : Available(named[x], D[insert])
      /\ n # 1 => /\ Binds(Script, Top.pc) => Top.old = N[n][Top.name]
                  /\ \A x \in Names : (Binds(Script, Top.pc) /\ x = Top.name) \/ named[x] = N[n][x]
  BY <1>1, <1>3, TopDom
<1>5. /\ Op = Script[Top.pc] /\ Top.pc \in DOMAIN Script /\ Shaped(Script) /\ Top.pc \in Nat \ {0}
      /\ n \in 1..Len(stack) /\ Top = stack[n] /\ Script = Routine(stack[n].kind)
      /\ BindsAt(Script, Top.pc) /\ UsesAt(Script, Top.pc)
  BY <1>1, <1>3, TopOrder DEF Script
<1>6. n # 1 /\ Cleared(stack[1]) /\ Top.name \in Names /\ named \in [Names -> ValueType]
      /\ (Op[1] = "bind" => Op[2] \in Registers)
  BY <1>1, <1>3, OpsOfRoutines, ReadyToBuild, OperandsTyped DEF FunctionOps, Ready, Quiet, TypeInv
<1>7. \A x \in Names : Available(N[n][x], D[insert])
  <2>1. \A x \in Names : Available(N[n][x], B[n])
    BY <1>1, <1>3, <1>6, NamesBelow
  <2> QED
    BY <1>4, <2>1 DEF Orderly, Available
<1>8. \A x \in Names : named'[x] = IF x # Top.name THEN named[x] ELSE IF Op[1] = "bind" THEN Reg(2) ELSE Top.old
  BY <1>1, <1>6
<1>9. Op[1] = "bind" => Available(Reg(2), D[insert])
  BY <1>4, <1>5, <1>6 DEF UsesAt, Orderly, ValuesAt, Reg
<1>10. Op[1] = "unbind" => Binds(Script, Top.pc) /\ ~Binds(Script, Top.pc + 1) /\ Top.old = N[n][Top.name]
  BY <1>4, <1>5, <1>6, OrderHistory DEF BindsAt
<1>11. Op[1] = "bind" => ~Binds(Script, Top.pc) /\ Binds(Script, Top.pc + 1)
  BY <1>5, OrderHistory DEF BindsAt, Binds
<1>12. \A x \in Names : Available(named'[x], D[insert])
  BY <1>1, <1>4, <1>6, <1>7, <1>8, <1>9, <1>10
<1>13. /\ Binds(Script, Top.pc + 1) => old = N[n][Top.name]
       /\ \A x \in Names : (Binds(Script, Top.pc + 1) /\ x = Top.name) \/ named'[x] = N[n][x]
  BY <1>1, <1>2, <1>4, <1>6, <1>8, <1>10, <1>11
<1>14. Orderly(D, B[n], D[insert], Script, Top.pc + 1, Top.regs, Top.bbs)
  BY <1>1, <1>4, <1>5, OrderlyQuiet DEF Assigning
<1>15. DomTable(D)' /\ DomUses(D)' /\ Extends(D, D)
  BY <1>1, <1>4 DEF DomTable, DomUses, Blocks, Successors, Extends
<1>16. Moves(n, Top.regs, Top.bbs, old)
  BY <1>2, <1>3
<1> QED
  BY <1>1, <1>5, <1>12, <1>13, <1>14, <1>15, <1>16, DomMoves

(* FunctionAST::codegen forgets the names and binds the argument.              *)
LEMMA DomArguments ==
  ASSUME TypeInv, StackInv, BlockInv, Clear \/ BindArgument, Building, NEW D, NEW B, NEW N,
         DomState(D, B, N)
  PROVE  DomState(D, B, N)'
<1>1. /\ Running /\ Op[1] \in {"clear", "argument"} /\ UNCHANGED <<term, insert, uses, incoming>>
      /\ Op[1] = "clear" => named' = NoNames
      /\ Op[1] = "argument" => named' = [named EXCEPT ![Argument] = Reg(2)]
      /\ Moves(Len(stack), Top.regs, Top.bbs, Top.old)
  BY StackSteps DEF Clear, BindArgument, Doing, blocks, values
<1>2. Len(stack) = 1 /\ (Op[1] = "argument" => Cleared(stack[1]) /\ Op[2] \in Registers)
  BY <1>1, ReadyToBuild, OpsOfRoutines, OperandsTyped DEF FunctionOps, Quiet, Ready
<1>3. /\ DomTable(D) /\ DomUses(D)
      /\ Orderly(D, B[1], D[insert], Script, Top.pc, Top.regs, Top.bbs)
      /\ Cleared(stack[1]) => \A x \in Names : Available(named[x], D[insert])
  BY <1>1, <1>2, TopDom
<1>4. /\ Op = Script[Top.pc] /\ Top.pc \in DOMAIN Script /\ Shaped(Script) /\ UsesAt(Script, Top.pc)
      /\ 1 \in 1..Len(stack) /\ Top = stack[1] /\ Script = Routine(stack[1].kind)
  BY <1>1, <1>2, TopOrder DEF Script
<1>5. \A x \in Names : Available(named'[x], D[insert])
  <2>1. CASE Op[1] = "clear"
    BY <1>1, <2>1 DEF NoNames, Available
  <2>2. CASE Op[1] = "argument"
    <3>1. Available(Reg(2), D[insert])
      BY <1>2, <1>3, <1>4, <2>2 DEF UsesAt, Orderly, ValuesAt, Reg
    <3>2. \A x \in Names : named'[x] = IF x = Argument THEN Reg(2) ELSE named[x]
      BY <1>1, <2>2 DEF TypeInv
    <3> QED
      BY <1>2, <1>3, <2>2, <3>1, <3>2
  <2> QED
    BY <1>1, <2>1, <2>2
<1>6. Orderly(D, B[1], D[insert], Script, Top.pc + 1, Top.regs, Top.bbs)
  BY <1>1, <1>3, <1>4, OrderlyQuiet DEF Assigning
<1>7. DomTable(D)' /\ DomUses(D)' /\ Extends(D, D)
  BY <1>1, <1>3 DEF DomTable, DomUses, Blocks, Successors, Extends
<1> QED
  BY <1>1, <1>2, <1>4, <1>5, <1>6, <1>7, DomMoves

(* A routine returns a value that is available where it left the insertion     *)
(* point, and the names as its caller had them.                                *)
LEMMA DomReturns ==
  ASSUME TypeInv, StackInv, BlockInv, Return, Building, NEW D, NEW B, NEW N, DomState(D, B, N)
  PROVE  DomState(D, B, N)'
<1>1. /\ Running /\ Op[1] = "return" /\ UNCHANGED <<term, insert, named, uses, incoming>> /\ ReturnValue(Reg(2))
  BY DEF Return, Doing, blocks, values
<1>2. PICK n, v : n = Len(stack) - 1 /\ v = Reg(2)
  OBVIOUS
<1>3. /\ n \in 1..Len(stack) /\ n # Len(stack) /\ n + 1 = Len(stack) /\ Caller = stack[n]
      /\ Does(Caller)[1] \in Gens
      /\ Moves(n, [Caller.regs EXCEPT ![Does(Caller)[2]] = v], Caller.bbs, Caller.old)
      /\ Op[2] \in Registers
  <2>1. Reg(2) \in ValueType /\ Op[2] \in Registers
    BY <1>1, OperandsTyped
  <2>2. Len(stack) \in Nat
    BY <1>1, TopOrder
  <2> QED
    BY <1>1, <1>2, <2>1, <2>2, ReturnMoves DEF Caller
<1>4. /\ DomTable(D) /\ DomUses(D)
      /\ Orderly(D, B[n + 1], D[insert], Script, Top.pc, Top.regs, Top.bbs)
      /\ Cleared(stack[1]) => \A x \in Names : Available(named[x], D[insert])
      /\ \A x \in Names : (Binds(Script, Top.pc) /\ x = Top.name) \/ named[x] = N[n + 1][x]
  <2>1. Len(stack) # 1
    BY <1>1, OpsOfRoutines
  <2> QED
    BY <1>1, <1>3, <2>1, TopDom
<1>5. Current(Script, Top.pc, Op[2]) /\ ~Binds(Script, Top.pc)
  BY <1>1, TopOrder DEF UsesAt, BindsAt
<1>6. Available(v, D[insert])
  BY <1>2, <1>3, <1>4, <1>5 DEF Orderly, ValuesAt, Reg
<1>7. DomFrame(D, B, n) /\ DomNames(D, B, N, n) /\ Depth(D, B, n) = B[n + 1] /\ Visible(N, n) = N[n + 1]
  BY <1>3 DEF DomState, Depth, Visible
<1> DEFINE s == Routine(stack[n].kind)
           pc == stack[n].pc
<1>8. /\ Shaped(s) /\ pc \in DOMAIN s /\ pc \in Nat \ {0} /\ AssignsAt(s, pc) /\ Does(Caller) = s[pc]
      /\ Caller.regs \in RegsType
  <2>1. version \in DOMAIN Scripts /\ stack[n].kind \in DOMAIN Scripts[version]
    BY <1>3, ScriptFacts DEF Kinds
  <2>2. Ordered(s)
    BY <2>1, EveryScriptIsOrdered DEF Routine
  <2> QED
    BY <1>3, <2>2, FrameScript DEF Ordered
<1>9. /\ Orderly(D, B[n], B[n + 1], s, pc, Caller.regs, Caller.bbs)
      /\ n # 1 => /\ Binds(s, pc) => Caller.old = N[n][Caller.name]
                  /\ \A x \in Names : (Binds(s, pc) /\ x = Caller.name) \/ N[n + 1][x] = N[n][x]
  BY <1>3, <1>7 DEF DomFrame, DomNames, IsBinding
<1> HIDE DEF s, pc
<1>10. Binds(s, pc + 1) <=> Binds(s, pc)
  BY <1>3, <1>8, HistoryMoves DEF Binds, Gens
<1>11. Orderly(D, B[n], D[insert], s, pc + 1, [Caller.regs EXCEPT ![Does(Caller)[2]] = v], Caller.bbs)
  <2>1. B[n + 1] \subseteq D[insert]
    BY <1>4 DEF Orderly
  <2>2. s[pc][1] \in Assigning /\ s[pc][1] # "alloca"
    BY <1>3, <1>8 DEF Gens, Assigning
  <2> QED
    BY <1>6, <1>8, <1>9, <2>1, <2>2, OrderlyAssigns
<1>12. DomTable(D)' /\ DomUses(D)' /\ Extends(D, D)
  BY <1>1, <1>4 DEF DomTable, DomUses, Blocks, Successors, Extends
<1>13. \A x \in Names : Available(named'[x], D[insert'])
  <2>1. Cleared(stack[1])
    BY <1>1, ReadyToBuild DEF Ready, Quiet
  <2> QED
    BY <1>1, <1>4, <2>1
<1>14. n # 1 => /\ Binds(s, pc + 1) => Caller.old = N[n][Caller.name]
                /\ \A x \in Names : (Binds(s, pc + 1) /\ x = Caller.name) \/ named'[x] = N[n][x]
  BY <1>1, <1>4, <1>5, <1>9, <1>10
<1> QED
  BY <1>1, <1>3, <1>11, <1>12, <1>13, <1>14, DomMoves DEF s, pc

(* A routine is called where the insertion point is.                           *)
LEMMA DomGenerates ==
  ASSUME TypeInv, StackInv, BlockInv, Generate, Building, NEW D, NEW B, NEW N, DomState(D, B, N)
  PROVE  \E C, M : DomState(D, C, M)'
<1>1. Running /\ Op[1] \in Gens /\ UNCHANGED <<term, insert, named, uses, incoming>>
  BY GeneratePushes DEF Generate, blocks, values
<1>2. PICK n : n = Len(stack)
  OBVIOUS
<1>3. PICK C : C = [k \in Nat |-> IF k = n + 1 THEN D[insert] ELSE B[k]]
  OBVIOUS
<1>4. PICK M : M = [k \in Nat |-> IF k = n + 1 THEN named ELSE N[k]]
  OBVIOUS
<1>5. PICK kind \in Kinds \ {"Function"}, name \in Names : Pushes(kind, name)
  BY GeneratePushes
<1>6. /\ n \in Nat \ {0} /\ n \in 1..n /\ Len(stack') = n + 1 /\ version' = version
      /\ \A k \in 1..n : stack'[k] = stack[k]
      /\ stack'[n + 1] = Frame(kind, name)
  BY <1>1, <1>2, <1>5, TopOrder DEF Pushes
<1>7. /\ C[n + 1] = D[insert] /\ M[n + 1] = named
      /\ \A k \in 1..n : C[k] = B[k] /\ M[k] = N[k] /\ (k # n => C[k + 1] = B[k + 1] /\ M[k + 1] = N[k + 1])
  BY <1>3, <1>4, <1>6
<1>8. /\ DomTable(D) /\ DomUses(D)
      /\ Cleared(stack[1]) => \A x \in Names : Available(named[x], D[insert])
  BY <1>1, TopDom
<1>9. Cleared(stack[1])' <=> Cleared(stack[1])
  <2>1. stack'[1] = stack[1]
    BY <1>6
  <2> QED
    BY <1>6, <2>1 DEF Cleared, Routine
<1>10. ASSUME NEW k \in 1..n PROVE DomFrame(D, C, k)' /\ DomNames(D, C, M, k)'
  <2>1. DomFrame(D, B, k) /\ DomNames(D, B, N, k)
    BY <1>2, <1>10 DEF DomState
  <2>2. k # n + 1 /\ stack'[k] = stack[k] /\ (IsBinding(stack[k])' <=> IsBinding(stack[k]))
        /\ Routine(stack[k].kind)' = Routine(stack[k].kind)
    BY <1>6 DEF IsBinding, Routine
  <2>3. Depth(D, C, k)' = Depth(D, B, k) /\ Visible(M, k)' = Visible(N, k)
    <3>1. Depth(D, C, k)' = C[k + 1] /\ Visible(M, k)' = M[k + 1]
      BY <1>6, <2>2 DEF Depth, Visible
    <3> QED
      BY <1>2, <1>7, <3>1 DEF Depth, Visible
  <2>4. DomFrame(D, C, k)'
    BY <1>7, <2>1, <2>2, <2>3 DEF DomFrame
  <2>5. DomNames(D, C, M, k)'
    BY <1>7, <1>9, <2>1, <2>2, <2>3 DEF DomNames
  <2> QED
    BY <2>4, <2>5
<1>11. DomFrame(D, C, n + 1)' /\ DomNames(D, C, M, n + 1)'
  <2>1. Depth(D, C, n + 1)' = D[insert] /\ Visible(M, n + 1)' = named
    BY <1>1, <1>6 DEF Depth, Visible
  <2>2. stack'[n + 1].pc = 1 /\ stack'[n + 1].regs["const"] = Constant
    BY <1>6 DEF Frame, Registers
  <2>3. DomFrame(D, C, n + 1)'
    BY <1>7, <2>1, <2>2, OrderlyBegins DEF DomFrame
  <2>4. ~IsBinding(stack[n + 1])'
    BY <2>2, NothingOrdered DEF IsBinding
  <2>5. DomNames(D, C, M, n + 1)'
    BY <1>7, <1>8, <1>9, <2>1, <2>4 DEF DomNames
  <2> QED
    BY <2>3, <2>5
<1>12. DomTable(D)' /\ DomUses(D)'
  BY <1>1, <1>8 DEF DomTable, DomUses, Blocks, Successors
<1>13. \A k \in 1..Len(stack') : k \in 1..n \/ k = n + 1
  BY <1>6
<1>14. DomState(D, C, M)'
  BY <1>10, <1>11, <1>12, <1>13 DEF DomState
<1> QED
  BY <1>14

(* A function begins with its entry block, where only constants are computed.  *)
LEMMA DomEntry ==
  ASSUME TypeInv, StackInv, CheckedInv, DomInv, Entry
  PROVE  \E D, B, N : DomState(D, B, N)'
<1>1. /\ Running /\ Op[1] = "entry" /\ term' = <<Open>> /\ insert' = 1 /\ incoming' = {} /\ uses' = {} /\ named' = named
      /\ Moves(Len(stack), Top.regs, Top.bbs, Top.old)
  BY StackSteps DEF Entry, Doing
<1>2. Len(stack) = 1 /\ stack[1].kind = "Function" /\ ~Entered(stack[1]) /\ state = "generating"
  BY <1>1, ReadyToBuild
<1>3. PICK D : D = [b \in {1} |-> {1}]
  OBVIOUS
<1>4. PICK B : B = [k \in {1} |-> {1}]
  OBVIOUS
<1> DEFINE s == Routine("Function")
           pc == stack[1].pc
<1>5. /\ Shaped(s) /\ pc \in DOMAIN s /\ pc \in Nat \ {0} /\ s[pc][1] = "entry" /\ EntersAt(s, pc) /\ Prologue(s)
      /\ Top = stack[1] /\ 1 \in 1..Len(stack)
  <2>1. Top = stack[1] /\ 1 \in 1..Len(stack)
    BY <1>1, <1>2, TopOrder
  <2>2. Script = s
    BY <1>2, <2>1 DEF Script
  <2> QED
    BY <1>1, <1>2, <2>1, <2>2, TopOrder, NoBlocksInFunctions
<1>6. /\ Len(stack') = 1 /\ stack'[1].kind = "Function" /\ stack'[1].pc = pc + 1
      /\ stack'[1].regs = Top.regs /\ stack'[1].bbs = Top.bbs /\ version' = version
  BY <1>1, <1>2, <1>5 DEF Moves, Moved
<1>7. Routine(stack[1].kind)' = s
  BY <1>6 DEF Routine
<1> HIDE DEF s, pc
<1>8. Blocks' = {1} /\ Successors(1)' = {}
  <2>1. \A o : Len(<<o>>) = 1 /\ <<o>>[1] = o
    OBVIOUS
  <2>2. 1..1 = {1} /\ Open.to = {}
    BY DEF Open
  <2> QED
    BY <1>1, <2>1, <2>2 DEF Blocks, Successors
<1>9. DomTable(D)' /\ DomUses(D)'
  BY <1>1, <1>3, <1>8 DEF DomTable, DomUses
<1>10. \A r \in Registers : Current(s, pc + 1, r) \/ Rooted(s, pc + 1, r) => r = "const"
  <2>1. \A r \in Registers : Rooted(s, pc + 1, r) => Current(s, pc + 1, r)
    BY DEF Current
  <2>2. \A r \in Registers : Current(s, pc + 1, r) => Current(s, pc, r)
    BY <1>5, OrderHistory DEF Assigning
  <2> QED
    BY <1>5, <2>1, <2>2 DEF EntersAt
<1>11. Top.regs["const"] = Constant /\ Constant.block = 0
  BY <1>5 DEF CheckedInv, CheckedFrame, CheckedAt, Constant, Value
<1>12. \A r : ~Known(s, pc + 1, r)
  <2>1. \A j \in 1..((pc + 1) - 1) : j \in DOMAIN s
    BY <1>5 DEF Shaped
  <2>2. \A j \in 1..((pc + 1) - 1) : s[j][1] \notin {"new", "detached", "here"}
    BY <1>5, <2>1 DEF Prologue, FunctionOps
  <2>3. \A r : /\ ~Before(s, pc + 1, <<"new", r>>) /\ ~Before(s, pc + 1, <<"detached", r>>)
               /\ ~Before(s, pc + 1, <<"here", r>>)
    <3>1. \A op, r : <<op, r>>[1] = op
      OBVIOUS
    <3>2. ASSUME NEW o \in {"new", "detached", "here"}, NEW r PROVE ~Before(s, pc + 1, <<o, r>>)
      BY <2>2, <3>1 DEF Before
    <3> QED
      BY <3>2
  <2> QED
    BY <2>3 DEF Known, Creates
<1>13. Orderly(D, {1}, {1}, s, pc + 1, Top.regs, Top.bbs)
  <2>1. ValuesAt({1}, s, pc + 1, Top.regs)
    BY <1>10, <1>11 DEF ValuesAt, Available
  <2>2. \A r : ~Pending(s, pc + 1, r) /\ ~Fresh(s, pc + 1, r) /\ ~Aimed(s, pc + 1, r)
    BY <1>5, <1>12, KnownHistory
  <2>3. \A v, r : ~Placed(s, pc + 1, v, r)
    BY <1>5, <1>12, KnownHistory
  <2>4. BlocksAt(D, {1}, {1}, s, pc + 1, Top.bbs)
    BY <1>12, <2>2 DEF BlocksAt
  <2>5. PlacedAt(D, s, pc + 1, Top.regs, Top.bbs)
    BY <2>3 DEF PlacedAt
  <2> QED
    BY <2>1, <2>4, <2>5 DEF Orderly
<1>14. DomFrame(D, B, 1)'
  BY <1>1, <1>3, <1>4, <1>6, <1>7, <1>13 DEF DomFrame, Depth
<1>15. \A N : DomNames(D, B, N, 1)'
  <2>1. Cleared(stack[1])' => Cleared(stack[1])
    <3>1. Passed(s, pc + 1, {"clear"}) => Passed(s, pc, {"clear"})
      BY <1>5, HistoryMoves
    <3> QED
      BY <1>2, <1>6, <1>7, <3>1 DEF Cleared, s, pc
  <2>2. Cleared(stack[1]) => \A x \in Names : named[x] = Null
    BY <1>2 DEF DomInv
  <2> QED
    BY <1>1, <1>6, <2>1, <2>2 DEF DomNames, Visible, Available
<1>16. \A k \in 1..Len(stack') : k = 1
  BY <1>6
<1>17. \A N : DomState(D, B, N)'
  BY <1>9, <1>14, <1>15, <1>16 DEF DomState
<1> QED
  BY <1>17

(* What the table says of dominance is so.                                     *)
LEMMA TableDominates ==
  ASSUME NEW D, DomTable(D), \A b \in Blocks : Successors(b) \subseteq Blocks,
         NEW b \in Blocks, NEW d \in D[b] \cup {0}
  PROVE  Dominates(d, b)
<1>1. CASE d \in {0, b}
  BY <1>1 DEF Dominates
<1>2. CASE d \notin {0, b}
  <2>1. PICK S : S = {x \in Blocks : d \notin D[x]}
    OBVIOUS
  <2>2. S \in SUBSET (Blocks \ {b})
    BY <1>2, <2>1
  <2>3. 1 \in S \cup {d}
    <3>1. 1 \in Blocks
      BY <1>2 DEF Blocks
    <3> QED
      BY <2>1, <3>1 DEF DomTable
  <2>4. Closed(S, {d})
    BY <2>1 DEF Closed, DomTable
  <2> QED
    BY <2>2, <2>3, <2>4 DEF Dominates
<1> QED
  BY <1>1, <1>2

(* A function that is kept.                                                    *)
LEMMA DomFinish ==
  ASSUME TypeInv, StackInv, CheckedInv, BlockInv, DomInv, FinishFunction
  PROVE  DomInv'
<1>1. /\ Running /\ Op[1] = "ret" /\ UNCHANGED <<insert, incoming>>
      /\ \/ Reg(2) # Null /\ term' = [term EXCEPT ![insert] = Ret] /\ uses' = uses \cup {<<Reg(2), insert>>} /\ state' = "finished"
         \/ state' = "erased"
  BY DEF FinishFunction, Doing
<1>2. Ready(stack[1]) /\ Len(stack) = 1 /\ state = "generating" /\ stack[1].kind = "Function"
  BY <1>1, ReadyToBuild, OpsOfRoutines DEF Quiet, FunctionOps
<1>3. Building
  BY <1>2 DEF Building, Ready
<1>4. term # <<>> /\ insert \in Blocks /\ InsertBlock /\ Branches
  BY <1>3 DEF BlockInv
<1>5. 1 \in 1..Len(stack) /\ Top = stack[1]
  BY <1>1, <1>2, TopOrder
<1>6. CASE state' = "erased"
  BY <1>6 DEF DomInv, Building, Finished, OperandsDominate
<1>7. CASE /\ Reg(2) # Null /\ term' = [term EXCEPT ![insert] = Ret] /\ uses' = uses \cup {<<Reg(2), insert>>}
           /\ state' = "finished"
  <2>1. ~Doomed
    <3>1. /\ Prologue(Routine(Top.kind)) /\ Top.pc \in DOMAIN Routine(Top.kind) /\ Op = Routine(Top.kind)[Top.pc]
      BY <1>1, <1>2, <1>5, FrameScript, TopFacts
    <3>2. \A j \in 1..(Top.pc - 1) : Routine(Top.kind)[j][1] \in Gens => Routine(Top.kind)[j][2] = Op[2]
      BY <1>1, <3>1 DEF Prologue
    <3>3. ~DoomedFrame(Top)
      BY <1>7, <3>2 DEF DoomedFrame, DoomedAt, Reg
    <3> QED
      BY <1>2, <1>5, <3>3 DEF Doomed
  <2>2. PICK D, B, N : DomState(D, B, N)
    BY <1>3, <2>1 DEF DomInv
  <2>3. /\ DomTable(D) /\ DomUses(D)
        /\ Orderly(D, B[Len(stack)], D[insert], Script, Top.pc, Top.regs, Top.bbs)
    BY <1>1, <1>3, <2>2, TopDom
  <2>4. Reg(2).block \in D[insert] \cup {0}
    <3>1. Current(Script, Top.pc, Op[2]) /\ Op[2] \in Registers
      BY <1>1, TopOrder, OperandsTyped DEF UsesAt
    <3>2. Available(Reg(2), D[insert])
      BY <2>3, <3>1 DEF Orderly, ValuesAt, Reg
    <3> QED
      BY <1>7, <3>2 DEF Available
  <2>5. \A b \in Blocks : Successors(b) \subseteq Blocks
    BY <1>4 DEF Branches, Successors
  <2>6. \A b \in Blocks : \A d \in D[b] \cup {0} : Dominates(d, b)
    BY <2>3, <2>5, TableDominates
  <2>7. Blocks' = Blocks /\ \A b \in Blocks : term'[b] = IF b = insert THEN Ret ELSE term[b]
    <3>1. Ret \in Terminators /\ insert \in Nat /\ term \in Seq(Terminators)
      BY DEF TypeInv, Ret, Terminators
    <3> QED
      BY <1>7, <3>1, TerminatorSet DEF Blocks
  <2>8. \A b \in Blocks : Successors(b)' = Successors(b)
    <3>1. term[insert] = Open
      <4>1. ~HasEnded(Top)
        BY <1>1, TopScript
      <4> QED
        BY <1>4, <4>1 DEF InsertBlock
    <3>2. Open.to = Ret.to
      BY DEF Open, Ret
    <3> QED
      BY <1>4, <2>7, <3>1, <3>2 DEF Successors
  <2>9. ASSUME NEW d, NEW b, Dominates(d, b) PROVE Dominates(d, b)'
    <3>1. ASSUME NEW S \in SUBSET (Blocks \ {b}), Closed(S, {d}) PROVE Closed(S, {d})'
      BY <2>8, <3>1 DEF Closed
    <3> QED
      BY <2>7, <2>9, <3>1 DEF Dominates
  <2>10. \A u \in uses' : Dominates(u[1].block, u[2])'
    <3>1. ASSUME NEW u \in uses' PROVE u[2] \in Blocks /\ u[1].block \in D[u[2]] \cup {0}
      <4>1. CASE u \in uses
        BY <2>3, <4>1 DEF DomUses
      <4>2. CASE u = <<Reg(2), insert>>
        BY <1>4, <2>4, <4>2
      <4> QED
        BY <1>7, <3>1, <4>1, <4>2
    <3> QED
      BY <2>6, <2>9, <3>1
  <2>11. \A i \in incoming' : Dominates(i.value.block, i.from)'
    BY <1>1, <2>3, <2>6, <2>9 DEF DomUses
  <2>12. OperandsDominate'
    BY <2>10, <2>11 DEF OperandsDominate
  <2> QED
    BY <1>7, <2>12 DEF DomInv, Building
<1> QED
  BY <1>1, <1>6, <1>7

(* The examples do not change while they run.                                  *)
LEMMA VersionKept ==
  ASSUME [Next]_vars
  PROVE  version' = version
<1>1. CASE UNCHANGED vars
  BY <1>1 DEF vars
<1>2. CASE Calls
  BY <1>2 DEF Calls, BeginFunction, Generate, NoSubExpression, Check, Callee, Return,
     FinishFunction,
     AssignToNoVariable, ReturnValue, Assign, Advance, Goes
<1>3. CASE Builds
  BY <1>3 DEF Builds, Lookup, Inst, CreateEntryBlockAlloca, NewBlock, AppendBlock, GetInsertBlock,
     SetInsertPoint, CreateBr, CreateCondBr, CreatePHI, AddIncoming, Bind, Unbind,
     Assign, AssignBlock, Advance, Goes
<1>4. CASE Frames
  BY <1>4 DEF Frames, Entry, Clear, BindArgument, PushScope, EmitLocation, Advance, Goes
<1> QED
  BY <1>1, <1>2, <1>3, <1>4 DEF Next

(* Names that were forgotten before the function was made stay so until it is. *)
LEMMA ForgottenKept ==
  ASSUME TypeInv, StackInv, DomInv, [Next]_vars,
         state' = "generating", Cleared(stack[1])', ~Entered(stack[1])', NEW x \in Names
  PROVE  named'[x] = Null
<1>1. ASSUME state = "generating", Cleared(stack[1]), ~Entered(stack[1]) PROVE named[x] = Null
  BY <1>1 DEF DomInv
<1>2. CASE stack' = stack /\ state' \in {state, "undefined"} /\ named' = named
  <2>1. Cleared(stack[1]) /\ ~Entered(stack[1])
    BY <1>2, VersionKept DEF Cleared, Entered, Routine
  <2> QED
    BY <1>1, <1>2, <2>1
<1>3. CASE BeginFunction
  <2>1. stack'[1] = Frame("Function", Argument)
    BY <1>3, BeginPushes
  <2>2. \A s : ~Passed(s, 1, {"clear"})
    BY DEF Passed
  <2> QED
    BY <2>1, <2>2 DEF Cleared, Frame
<1>4. CASE FinishFunction
  BY <1>4 DEF FinishFunction
<1>5. CASE (Generate \/ NoSubExpression \/ Check \/ Callee \/ Return) /\ Bottom(Gens \cup {"check", "callee"})
  <2>1. "clear" \notin Gens \cup {"check", "callee"}
    BY DEF Gens
  <2>2. Cleared(stack[1]) /\ ~Entered(stack[1]) /\ state = "generating"
    BY <1>5, <2>1, BottomReady DEF Bottom
  <2>3. named' = named
    BY <1>5 DEF Generate, NoSubExpression, Check, Callee, Return
  <2> QED
    BY <1>1, <2>2, <2>3
<1>6. CASE (Builds \/ Frames) /\ Running /\ Bottom({Op[1]})
  <2>1. CASE Op[1] = "clear"
    <3>1. Clear
      BY <1>6, <2>1 DEF Builds, Frames, Lookup, Inst, CreateEntryBlockAlloca, NewBlock,
         AppendBlock, GetInsertBlock,
         SetInsertPoint, CreateBr, CreateCondBr, CreatePHI, AddIncoming, Bind, Unbind,
         Entry, BindArgument, PushScope, EmitLocation, Doing
    <3> QED
      BY <3>1 DEF Clear, NoNames
  <2>2. CASE Op[1] # "clear"
    <3>1. Cleared(stack[1]) /\ ~Entered(stack[1]) /\ state = "generating"
      <4>1. "clear" \notin {Op[1]}
        BY <2>2
      <4>2. state = "generating"
        BY <1>6 DEF Bottom
      <4> QED
        BY <1>6, <4>1, <4>2, BottomReady
    <3>2. Op[1] \in Quiet \cup {"entry"}
      BY <1>6, <2>2, <3>1, ReadyToBuild DEF Ready
    <3>3. ~Bind /\ ~Unbind /\ ~BindArgument /\ ~Clear
      BY <3>2 DEF Bind, Unbind, BindArgument, Clear, Doing, Quiet
    <3>4. named' = named
      BY <1>6, <3>3 DEF Builds, Frames, Lookup, Inst, CreateEntryBlockAlloca, NewBlock,
         AppendBlock, GetInsertBlock,
         SetInsertPoint, CreateBr, CreateCondBr, CreatePHI, AddIncoming, Entry, PushScope,
         EmitLocation
    <3> QED
      BY <1>1, <3>1, <3>4
  <2> QED
    BY <2>1, <2>2
<1> QED
  BY <1>2, <1>3, <1>4, <1>5, <1>6, BottomSteps

(* A routine that returns null has failed, and its caller with it.             *)
LEMMA DomTests ==
  ASSUME TypeInv, StackInv, CheckedInv, BlockInv, [Next]_vars, Check \/ Callee, ~Doomed', Building,
         NEW D, NEW B, NEW N, DomState(D, B, N)
  PROVE  DomState(D, B, N)'
<1>1. /\ Running /\ Op[1] \in {"check", "callee"} /\ UNCHANGED <<term, insert, named, uses, incoming>>
  BY DEF Check, Callee, Doing, blocks, values
<1>2. CASE Moves(Len(stack), Top.regs, Top.bbs, Top.old)
  <2>1. Op[1] \notin Assigning \cup {"new", "detached", "at", "here", "bind", "unbind", "clear"}
    BY <1>1 DEF Assigning
  <2> QED
    BY <1>1, <1>2, <2>1, DomQuiet
<1>3. CASE ReturnValue(Null)
  <2>1. Null \in ValueType /\ Len(stack) \in Nat
    BY <1>1, TopScript DEF Null, Value, ValueType
  <2>2. Len(stack') = Len(stack) - 1 /\ state' = "generating"
    BY <1>1, <1>3, <2>1, ReturnMoves DEF Moves, Running
  <2>3. Len(stack') < Len(stack)
    BY <2>1, <2>2
  <2>4. Return
    BY <2>2, <2>3, CheckedKept
  <2> QED
    BY <1>1, <2>4 DEF Return, Doing
<1> QED
  BY <1>2, <1>3, StackSteps

(* Every step computes operands before it uses them.                           *)
LEMMA DomKept ==
  ASSUME TypeInv, StackInv, CheckedInv, BlockInv, DomInv, [Next]_vars
  PROVE  DomInv'
<1>q. ASSUME state' = "generating", Building' /\ ~Doomed' => \E D, B, N : DomState(D, B, N)' PROVE DomInv'
  BY <1>q, ForgottenKept DEF DomInv, OperandsDominate, Finished
<1>1. CASE UNCHANGED vars
  <2>1. /\ stack' = stack /\ version' = version /\ state' = state
        /\ UNCHANGED <<term, insert, named, uses, incoming>>
    BY <1>1 DEF vars, blocks, values
  <2>2. \A D : (DomTable(D) => DomTable(D)') /\ (DomUses(D) => DomUses(D)')
    BY <2>1 DEF DomTable, DomUses, Blocks, Successors
  <2>3. ASSUME NEW D, NEW B, NEW N, DomState(D, B, N) PROVE DomState(D, B, N)'
    <3>1. \A k : Depth(D, B, k)' = Depth(D, B, k) /\ Visible(N, k)' = Visible(N, k)
      BY <2>1 DEF Depth, Visible
    <3>2. \A kind : Routine(kind)' = Routine(kind)
      BY <2>1 DEF Routine
    <3>3. \A k : DomFrame(D, B, k) => DomFrame(D, B, k)'
      BY <2>1, <3>1, <3>2 DEF DomFrame
    <3>4. \A k : DomNames(D, B, N, k) => DomNames(D, B, N, k)'
      BY <2>1, <3>1, <3>2 DEF DomNames, Cleared, IsBinding
    <3> QED
      BY <2>1, <2>2, <2>3, <3>3, <3>4 DEF DomState
  <2>4. (Building' => Building) /\ (Doomed => Doomed') /\ (OperandsDominate => OperandsDominate')
    BY <2>1 DEF Building, Entered, Routine, Doomed, DoomedFrame, OperandsDominate, Finished,
       Dominates, Closed, Blocks, Successors
  <2>5. Cleared(stack[1])' /\ ~Entered(stack[1])' => Cleared(stack[1]) /\ ~Entered(stack[1])
    BY <2>1 DEF Cleared, Entered, Routine
  <2> QED
    BY <2>1, <2>3, <2>4, <2>5 DEF DomInv
<1>2. CASE AssignToNoVariable
  BY <1>2 DEF AssignToNoVariable, DomInv, Building, OperandsDominate, Finished
<1>3. CASE BeginFunction
  <2>1. Len(stack') = 1 /\ stack'[1] = Frame("Function", Argument) /\ state' = "generating"
    BY <1>3, BeginPushes
  <2>2. ~Entered(stack[1])'
    <3>1. \A s : ~Passed(s, 1, {"entry"})
      BY DEF Passed
    <3> QED
      BY <2>1, <3>1 DEF Entered, Frame
  <2> QED
    BY <1>q, <2>1, <2>2 DEF Building
<1>4. CASE FinishFunction
  BY <1>4, DomFinish
<1>5. CASE Entry
  <2>1. state' = "generating"
    BY <1>5, StackSteps DEF Moves, Entry, Doing, Running
  <2> QED
    BY <1>5, <1>q, <2>1, DomEntry
<1>6. CASE \/ Generate \/ NoSubExpression \/ Check \/ Callee \/ Return \/ Builds
           \/ Clear \/ BindArgument \/ PushScope \/ EmitLocation
  <2>1. Running /\ Op[1] # "entry" /\ state = "generating"
    BY <1>6 DEF Generate, NoSubExpression, Check, Callee, Return, Builds, Lookup, Inst,
       CreateEntryBlockAlloca,
       NewBlock, AppendBlock, GetInsertBlock, SetInsertPoint, CreateBr, CreateCondBr, CreatePHI,
       AddIncoming,
       Bind, Unbind, Clear, BindArgument, PushScope, EmitLocation, Doing, Running
  <2>2. state' = "generating"
    <3>1. state' = state
      BY <1>6 DEF Generate, NoSubExpression, Check, Callee, Return, Builds, Lookup, Inst,
         CreateEntryBlockAlloca,
         NewBlock, AppendBlock, GetInsertBlock, SetInsertPoint, CreateBr, CreateCondBr, CreatePHI,
         AddIncoming,
         Bind, Unbind, Clear, BindArgument, PushScope, EmitLocation,
         ReturnValue, Assign, AssignBlock, Advance, Goes
    <3> QED
      BY <2>1, <3>1
  <2>3. Building' => Building
    <3>1. ~BeginFunction /\ ~FinishFunction
      BY <2>1, <2>2 DEF BeginFunction, FinishFunction
    <3>2. CASE stack' = stack
      BY <2>1, <3>2, VersionKept DEF Building, Entered, Routine
    <3>3. ASSUME NEW ops, Bottom(ops), "entry" \notin ops PROVE Building' => Building
      BY <2>1, <3>3, BottomReady DEF Building
    <3>4. "entry" \notin Gens \cup {"check", "callee"} /\ "entry" \notin {Op[1]}
      BY <2>1 DEF Gens
    <3> QED
      BY <3>1, <3>2, <3>3, <3>4, BottomSteps
  <2>4. ASSUME Building, ~Doomed' PROVE \E D, B, N : DomState(D, B, N)'
    <3>1. ~Doomed
      BY <2>1, <2>2, <2>4, CheckedKept
    <3>2. PICK D, B, N : DomState(D, B, N)
      BY <2>4, <3>1 DEF DomInv
    <3>3. CASE Generate
      BY <2>4, <3>2, <3>3, DomGenerates
    <3>4. CASE Check \/ Callee
      BY <2>4, <3>2, <3>4, DomTests
    <3>5. CASE Return
      BY <2>4, <3>2, <3>5, DomReturns
    <3>6. CASE NoSubExpression \/ Lookup \/ CreateEntryBlockAlloca \/ CreatePHI
      BY <2>4, <3>2, <3>6, DomValues
    <3>7. CASE Inst
      BY <2>4, <3>1, <3>2, <3>7, DomInst
    <3>8. CASE NewBlock
      BY <2>4, <3>2, <3>8, DomNew
    <3>9. CASE GetInsertBlock
      BY <2>4, <3>2, <3>9, DomHere
    <3>10. CASE SetInsertPoint
      BY <2>4, <3>2, <3>10, DomAt
    <3>11. CASE CreateBr
      BY <2>4, <3>2, <3>11, DomBr
    <3>12. CASE CreateCondBr
      BY <2>4, <3>1, <3>2, <3>12, DomCondBr
    <3>13. CASE AddIncoming
      BY <2>4, <3>1, <3>2, <3>13, DomIncoming
    <3>14. CASE Bind \/ Unbind
      BY <2>4, <3>2, <3>14, DomBind
    <3>15. CASE Clear \/ BindArgument
      BY <2>4, <3>2, <3>15, DomArguments
    <3>16. CASE AppendBlock \/ PushScope \/ EmitLocation
      <4>1. Moves(Len(stack), Top.regs, Top.bbs, Top.old)
        BY <3>16, StackSteps
      <4>2. UNCHANGED <<term, insert, named, uses, incoming>>
        BY <3>16 DEF AppendBlock, PushScope, EmitLocation, blocks, values
      <4>3. Op[1] \notin Assigning \cup {"new", "detached", "at", "here", "bind", "unbind", "clear"}
        BY <3>16 DEF AppendBlock, PushScope, EmitLocation, Doing, Assigning
      <4> QED
        BY <2>1, <2>4, <3>2, <4>1, <4>2, <4>3, DomQuiet
    <3> QED
      BY <1>6, <3>3, <3>4, <3>5, <3>6, <3>7, <3>8, <3>9, <3>10, <3>11, <3>12, <3>13, <3>14, <3>15,
         <3>16
         DEF Builds
  <2> QED
    BY <1>q, <2>2, <2>3, <2>4
<1> QED
  BY <1>1, <1>2, <1>3, <1>4, <1>5, <1>6 DEF Next, Calls, Frames

(* Every operand of a finished function is computed before it is used, on      *)
(* every path: its block dominates that of its use (the scripts of ifs and     *)
(* loops nested in any way, which split blocks and move the insertion point).  *)
THEOREM OperandsDominateHolds == Spec => []OperandsDominate
<1>1. Init => DomInv
  BY DEF Init, DomInv, Building, OperandsDominate, Finished
<1>2. CodegenInv /\ DomInv /\ [Next]_vars => DomInv'
  BY DomKept DEF CodegenInv
<1>3. DomInv => OperandsDominate
  BY DEF DomInv
<1> QED
  BY <1>1, <1>2, <1>3, CodegenInvariant, PTL DEF Spec
=============================================================================
