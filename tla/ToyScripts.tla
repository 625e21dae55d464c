----------------------------- MODULE ToyScripts ------------------------------
(* What the codegen routines of every version of the Kaleidoscope example do   *)
(* with the IR builder, as data: a routine is a sequence of operations on      *)
(* registers, which are the routine's local variables.  ToyCodegen executes    *)
(* them; chapters that repeat a routine repeat its script.                     *)
(*                                                                             *)
(*   gen r         r := codegen of the sub-expression r, null if it fails      *)
(*   genopt r      the same if the sub-expression is there, else a constant    *)
(*   check r       return null if r is null                                    *)
(*   callee        return null if the function called is unknown               *)
(*   lookup r      r := NamedValues[name]                                      *)
(*   inst r a b    r := an instruction at the insertion point, using a and b   *)
(*   alloca r      r := an alloca at the start of the entry block              *)
(*   new b         b := a block appended to the function                       *)
(*   detached b    b := a block that is in no function yet                     *)
(*   append b      append b to the function                                    *)
(*   here b        b := the block of the insertion point                       *)
(*   at b          move the insertion point to the end of b                    *)
(*   br b          unconditional branch                                        *)
(*   condbr v b c  conditional branch on v                                     *)
(*   phi r         r := a PHI node at the insertion point                      *)
(*   incoming r v b  add v for the predecessor b to the PHI r                  *)
(*   bind r        remember NamedValues[name] and set it to r                  *)
(*   unbind        restore what bind remembered                                *)
(*   locate        give what follows the scope on top of the debug scopes      *)
(*   unlocate      give what follows no location                               *)
(*   scope         push the debug scope of the function                        *)
(*   entry, clear, argument r, ret r s f   of FunctionAST::codegen: make the   *)
(*                 entry block of a body, forget all names, bind the argument; *)
(*                 return r from the function and do s or, if r is null, erase *)
(*                 the function and do f: "unscope" pops the debug scope       *)
(*   return r      return r                                                    *)
EXTENDS Sequences

(* The registers that hold values, and those that hold blocks.                 *)
Registers ==
    {"const", "V", "A", "L", "R", "tmp", "arg1", "arg2", "Cond", "cond", "Then", "Else",
     "PN", "Start", "Variable", "Body", "Step", "NextVar", "End", "EndCond", "Alloca",
     "CurVar", "Init", "store"}
BlockRegisters ==
    {"ThenBB", "ElseBB", "MergeBB", "PreheaderBB", "LoopBB", "LoopEndBB", "AfterBB"}

-----------------------------------------------------------------------------
(* Numbers, variables, operators and calls.                                    *)
Chapter3Expressions ==
    [ Number   |-> << <<"return", "const">> >>,
      Variable |-> << <<"lookup", "V">>, <<"check", "V">>, <<"return", "V">> >>,
      Binary   |-> << <<"gen", "L">>, <<"gen", "R">>, <<"check", "L">>, <<"check", "R">>,
                      <<"inst", "tmp", "L", "R">>, <<"return", "tmp">> >>,
      Call     |-> << <<"callee">>, <<"gen", "arg1">>, <<"check", "arg1">>,
                      <<"gen", "arg2">>, <<"check", "arg2">>,
                      <<"inst", "tmp", "arg1", "arg2">>, <<"return", "tmp">> >> ]

Chapter4Expressions == Chapter3Expressions
Chapter5Expressions == Chapter4Expressions

Chapter6Expressions ==
    [ Number |-> Chapter5Expressions.Number, Variable |-> Chapter5Expressions.Variable,
      Binary |-> Chapter5Expressions.Binary, Call |-> Chapter5Expressions.Call,
      Unary |-> << <<"gen", "V">>, <<"check", "V">>, <<"callee">>,
                   <<"inst", "tmp", "V", "V">>, <<"return", "tmp">> >> ]

Chapter7Expressions ==
    [ Number |-> Chapter6Expressions.Number, Binary |-> Chapter6Expressions.Binary,
      Call |-> Chapter6Expressions.Call, Unary |-> Chapter6Expressions.Unary,
      Variable |-> << <<"lookup", "A">>, <<"check", "A">>,
                      <<"inst", "tmp", "A", "A">>, <<"return", "tmp">> >>,
      Assign |-> << <<"gen", "V">>, <<"check", "V">>, <<"lookup", "A">>, <<"check", "A">>,
                    <<"inst", "store", "V", "A">>, <<"return", "V">> >> ]

Chapter8Expressions == Chapter7Expressions

Located(script) == << <<"locate">> >> \o script

Chapter9Expressions ==
    [ Number |-> Located(Chapter7Expressions.Number),
      Variable |-> << <<"lookup", "A">>, <<"check", "A">>, <<"locate">>,
                      <<"inst", "tmp", "A", "A">>, <<"return", "tmp">> >>,
      Binary |-> Located(Chapter7Expressions.Binary),
      Assign |-> Located(Chapter7Expressions.Assign),
      Call |-> Located(Chapter7Expressions.Call),
      Unary |-> << <<"gen", "V">>, <<"check", "V">>, <<"callee">>, <<"locate">>,
                   <<"inst", "tmp", "V", "V">>, <<"return", "tmp">> >> ]

BuildingAJIT1Expressions == Chapter7Expressions
BuildingAJIT2Expressions == BuildingAJIT1Expressions
BuildingAJIT3Expressions == BuildingAJIT2Expressions
BuildingAJIT4Expressions == BuildingAJIT3Expressions
MCJITInitialExpressions == Chapter7Expressions
MCJITLazyExpressions == MCJITInitialExpressions
MCJITCachedExpressions == MCJITLazyExpressions
MCJITCompleteExpressions == MCJITCachedExpressions
ToyJITLazyExpressions == Chapter7Expressions
ToyJITCachedExpressions == ToyJITLazyExpressions

-----------------------------------------------------------------------------
(* Mistaken Chapter5If: the else block is never put into the function, or the  *)
(* PHI is for the blocks the branches began in.                                *)
Chapter5IfDetached ==
    << <<"gen", "Cond">>, <<"check", "Cond">>, <<"inst", "cond", "Cond", "Cond">>,
       <<"new", "ThenBB">>, <<"detached", "ElseBB">>, <<"detached", "MergeBB">>,
       <<"condbr", "cond", "ThenBB", "ElseBB">>, <<"at", "ThenBB">>,
       <<"gen", "Then">>, <<"check", "Then">>, <<"br", "MergeBB">>, <<"here", "ThenBB">>,
       <<"at", "ElseBB">>,
       <<"gen", "Else">>, <<"check", "Else">>, <<"br", "MergeBB">>, <<"here", "ElseBB">>,
       <<"append", "MergeBB">>, <<"at", "MergeBB">>, <<"phi", "PN">>,
       <<"incoming", "PN", "Then", "ThenBB">>, <<"incoming", "PN", "Else", "ElseBB">>,
       <<"return", "PN">> >>
Chapter5IfStale ==
    << <<"gen", "Cond">>, <<"check", "Cond">>, <<"inst", "cond", "Cond", "Cond">>,
       <<"new", "ThenBB">>, <<"detached", "ElseBB">>, <<"detached", "MergeBB">>,
       <<"condbr", "cond", "ThenBB", "ElseBB">>, <<"at", "ThenBB">>,
       <<"gen", "Then">>, <<"check", "Then">>, <<"br", "MergeBB">>,
       <<"append", "ElseBB">>, <<"at", "ElseBB">>,
       <<"gen", "Else">>, <<"check", "Else">>, <<"br", "MergeBB">>,
       <<"append", "MergeBB">>, <<"at", "MergeBB">>, <<"phi", "PN">>,
       <<"incoming", "PN", "Then", "ThenBB">>, <<"incoming", "PN", "Else", "ElseBB">>,
       <<"return", "PN">> >>

(* if: the value is a PHI of what both branches end with.                      *)
Chapter5If ==
    << <<"gen", "Cond">>, <<"check", "Cond">>, <<"inst", "cond", "Cond", "Cond">>,
       <<"new", "ThenBB">>, <<"detached", "ElseBB">>, <<"detached", "MergeBB">>,
       <<"condbr", "cond", "ThenBB", "ElseBB">>, <<"at", "ThenBB">>,
       <<"gen", "Then">>, <<"check", "Then">>, <<"br", "MergeBB">>, <<"here", "ThenBB">>,
       <<"append", "ElseBB">>, <<"at", "ElseBB">>,
       <<"gen", "Else">>, <<"check", "Else">>, <<"br", "MergeBB">>, <<"here", "ElseBB">>,
       <<"append", "MergeBB">>, <<"at", "MergeBB">>, <<"phi", "PN">>,
       <<"incoming", "PN", "Then", "ThenBB">>, <<"incoming", "PN", "Else", "ElseBB">>,
       <<"return", "PN">> >>

Chapter6If == Chapter5If
Chapter7If == Chapter6If
Chapter8If == Chapter7If
Chapter9If == Located(Chapter7If)
BuildingAJIT1If == Chapter7If
BuildingAJIT2If == BuildingAJIT1If
BuildingAJIT3If == BuildingAJIT2If
BuildingAJIT4If == BuildingAJIT3If
MCJITInitialIf == Chapter7If
MCJITLazyIf == MCJITInitialIf
MCJITCachedIf == MCJITLazyIf
MCJITCompleteIf == MCJITCachedIf
ToyJITLazyIf == Chapter7If
ToyJITCachedIf == ToyJITLazyIf

-----------------------------------------------------------------------------
(* for: chapters 5 and 6 keep the variable in a PHI, later ones in an alloca.  *)
Chapter5For ==
    << <<"gen", "Start">>, <<"check", "Start">>, <<"here", "PreheaderBB">>,
       <<"new", "LoopBB">>, <<"br", "LoopBB">>, <<"at", "LoopBB">>, <<"phi", "Variable">>,
       <<"incoming", "Variable", "Start", "PreheaderBB">>, <<"bind", "Variable">>,
       <<"gen", "Body">>, <<"check", "Body">>, <<"genopt", "Step">>, <<"check", "Step">>,
       <<"inst", "NextVar", "Variable", "Step">>, <<"gen", "End">>, <<"check", "End">>,
       <<"inst", "EndCond", "End", "End">>, <<"here", "LoopEndBB">>, <<"new", "AfterBB">>,
       <<"condbr", "EndCond", "LoopBB", "AfterBB">>, <<"at", "AfterBB">>,
       <<"incoming", "Variable", "NextVar", "LoopEndBB">>, <<"unbind">>, <<"return", "const">> >>

Chapter6For == Chapter5For

Chapter7For ==
    << <<"alloca", "Alloca">>, <<"gen", "Start">>, <<"check", "Start">>,
       <<"inst", "store", "Start", "Alloca">>, <<"new", "LoopBB">>, <<"br", "LoopBB">>,
       <<"at", "LoopBB">>, <<"bind", "Alloca">>, <<"gen", "Body">>, <<"check", "Body">>,
       <<"genopt", "Step">>, <<"check", "Step">>, <<"gen", "End">>, <<"check", "End">>,
       <<"inst", "CurVar", "Alloca", "Alloca">>, <<"inst", "NextVar", "CurVar", "Step">>,
       <<"inst", "store", "NextVar", "Alloca">>, <<"inst", "EndCond", "End", "End">>,
       <<"new", "AfterBB">>, <<"condbr", "EndCond", "LoopBB", "AfterBB">>, <<"at", "AfterBB">>,
       <<"unbind">>, <<"return", "const">> >>

Chapter8For == Chapter7For

Chapter9For ==
    << <<"alloca", "Alloca">>, <<"locate">>, <<"gen", "Start">>, <<"check", "Start">>,
       <<"inst", "store", "Start", "Alloca">>, <<"new", "LoopBB">>, <<"br", "LoopBB">>,
       <<"at", "LoopBB">>, <<"bind", "Alloca">>, <<"gen", "Body">>, <<"check", "Body">>,
       <<"genopt", "Step">>, <<"check", "Step">>, <<"gen", "End">>, <<"check", "End">>,
       <<"inst", "CurVar", "Alloca", "Alloca">>, <<"inst", "NextVar", "CurVar", "Step">>,
       <<"inst", "store", "NextVar", "Alloca">>, <<"inst", "EndCond", "End", "End">>,
       <<"new", "AfterBB">>, <<"condbr", "EndCond", "LoopBB", "AfterBB">>, <<"at", "AfterBB">>,
       <<"unbind">>, <<"return", "const">> >>

BuildingAJIT1For == Chapter7For
BuildingAJIT2For == BuildingAJIT1For
BuildingAJIT3For == BuildingAJIT2For
BuildingAJIT4For == BuildingAJIT3For
MCJITInitialFor == Chapter7For
MCJITLazyFor == MCJITInitialFor
MCJITCachedFor == MCJITLazyFor
MCJITCompleteFor == MCJITCachedFor
ToyJITLazyFor == Chapter7For
ToyJITCachedFor == ToyJITLazyFor

-----------------------------------------------------------------------------
(* var, with one variable.                                                     *)
Chapter7Var ==
    << <<"gen", "Init">>, <<"check", "Init">>, <<"alloca", "Alloca">>,
       <<"inst", "store", "Init", "Alloca">>, <<"bind", "Alloca">>,
       <<"gen", "Body">>, <<"check", "Body">>, <<"unbind">>, <<"return", "Body">> >>

Chapter8Var == Chapter7Var

Chapter9Var ==
    << <<"gen", "Init">>, <<"check", "Init">>, <<"alloca", "Alloca">>,
       <<"inst", "store", "Init", "Alloca">>, <<"bind", "Alloca">>, <<"locate">>,
       <<"gen", "Body">>, <<"check", "Body">>, <<"unbind">>, <<"return", "Body">> >>

BuildingAJIT1Var == Chapter7Var
BuildingAJIT2Var == BuildingAJIT1Var
BuildingAJIT3Var == BuildingAJIT2Var
BuildingAJIT4Var == BuildingAJIT3Var
MCJITInitialVar == Chapter7Var
MCJITLazyVar == MCJITInitialVar
MCJITCachedVar == MCJITLazyVar
MCJITCompleteVar == MCJITCachedVar
ToyJITLazyVar == Chapter7Var
ToyJITCachedVar == ToyJITLazyVar

-----------------------------------------------------------------------------
(* FunctionAST::codegen, with one argument.  Chapter 9 opens a debug-info      *)
(* scope; MCJIT clears the names before it makes the function.                 *)
Chapter3Function ==
    << <<"entry">>, <<"clear">>, <<"argument", "const">>, <<"gen", "Body">>, <<"ret", "Body", "keep", "keep">> >>

Chapter4Function == Chapter3Function
Chapter5Function == Chapter4Function
Chapter6Function == Chapter5Function

Chapter7Function ==
    << <<"entry">>, <<"clear">>, <<"alloca", "Alloca">>, <<"inst", "store", "const", "Alloca">>,
       <<"argument", "Alloca">>, <<"gen", "Body">>, <<"ret", "Body", "keep", "keep">> >>

Chapter8Function == Chapter7Function

(* Mistaken Chapter9Function: the scope of a body that failed is not popped.   *)
Chapter9FunctionUnpopped ==
    << <<"entry">>, <<"scope">>, <<"unlocate">>, <<"clear">>, <<"alloca", "Alloca">>,
       <<"inst", "store", "const", "Alloca">>, <<"argument", "Alloca">>, <<"locate">>,
       <<"gen", "Body">>, <<"ret", "Body", "unscope", "keep">> >>

Chapter9Function ==
    << <<"entry">>, <<"scope">>, <<"unlocate">>, <<"clear">>, <<"alloca", "Alloca">>,
       <<"inst", "store", "const", "Alloca">>, <<"argument", "Alloca">>, <<"locate">>,
       <<"gen", "Body">>, <<"ret", "Body", "unscope", "unscope">> >>

BuildingAJIT1Function == Chapter8Function
BuildingAJIT2Function == BuildingAJIT1Function
BuildingAJIT3Function == BuildingAJIT2Function
BuildingAJIT4Function == BuildingAJIT3Function

MCJITInitialFunction ==
    << <<"clear">>, <<"entry">>, <<"alloca", "Alloca">>, <<"inst", "store", "const", "Alloca">>,
       <<"argument", "Alloca">>, <<"gen", "Body">>, <<"ret", "Body", "keep", "keep">> >>

MCJITLazyFunction == MCJITInitialFunction
MCJITCachedFunction == MCJITLazyFunction
MCJITCompleteFunction == MCJITCachedFunction
ToyJITLazyFunction == MCJITInitialFunction
ToyJITCachedFunction == ToyJITLazyFunction

-----------------------------------------------------------------------------
(* The versions that generate everything into one module.                      *)
OneModule == {"Chapter3", "Chapter8", "Chapter9"}

(* The routines of a version by the kind of node.                              *)
Expressions(expressions, function) ==
    [k \in DOMAIN expressions \cup {"Function"} |->
        IF k = "Function" THEN function ELSE expressions[k]]

Loops(scripts, ifScript, for) ==
    [k \in DOMAIN scripts \cup {"If", "For"} |->
        CASE k = "If" -> ifScript [] k = "For" -> for [] OTHER -> scripts[k]]

Mutable(scripts, var) ==
    [k \in DOMAIN scripts \cup {"Var"} |-> IF k = "Var" THEN var ELSE scripts[k]]

Scripts ==
  [ Chapter3 |->
        Expressions(Chapter3Expressions, Chapter3Function),
    Chapter4 |->
        Expressions(Chapter4Expressions, Chapter4Function),
    Chapter5 |->
        Loops(Expressions(Chapter5Expressions, Chapter5Function),
            Chapter5If, Chapter5For),
    Chapter6 |->
        Loops(Expressions(Chapter6Expressions, Chapter6Function),
            Chapter6If, Chapter6For),
    Chapter7 |->
        Mutable(Loops(Expressions(Chapter7Expressions, Chapter7Function),
            Chapter7If, Chapter7For), Chapter7Var),
    Chapter8 |->
        Mutable(Loops(Expressions(Chapter8Expressions, Chapter8Function),
            Chapter8If, Chapter8For), Chapter8Var),
    Chapter9 |->
        Mutable(Loops(Expressions(Chapter9Expressions, Chapter9Function),
            Chapter9If, Chapter9For), Chapter9Var),
    BuildingAJIT1 |->
        Mutable(Loops(Expressions(BuildingAJIT1Expressions, BuildingAJIT1Function),
            BuildingAJIT1If, BuildingAJIT1For), BuildingAJIT1Var),
    BuildingAJIT2 |->
        Mutable(Loops(Expressions(BuildingAJIT2Expressions, BuildingAJIT2Function),
            BuildingAJIT2If, BuildingAJIT2For), BuildingAJIT2Var),
    BuildingAJIT3 |->
        Mutable(Loops(Expressions(BuildingAJIT3Expressions, BuildingAJIT3Function),
            BuildingAJIT3If, BuildingAJIT3For), BuildingAJIT3Var),
    BuildingAJIT4 |->
        Mutable(Loops(Expressions(BuildingAJIT4Expressions, BuildingAJIT4Function),
            BuildingAJIT4If, BuildingAJIT4For), BuildingAJIT4Var),
    MCJITInitial |->
        Mutable(Loops(Expressions(MCJITInitialExpressions, MCJITInitialFunction),
            MCJITInitialIf, MCJITInitialFor), MCJITInitialVar),
    MCJITLazy |->
        Mutable(Loops(Expressions(MCJITLazyExpressions, MCJITLazyFunction),
            MCJITLazyIf, MCJITLazyFor), MCJITLazyVar),
    MCJITCached |->
        Mutable(Loops(Expressions(MCJITCachedExpressions, MCJITCachedFunction),
            MCJITCachedIf, MCJITCachedFor), MCJITCachedVar),
    MCJITComplete |->
        Mutable(Loops(Expressions(MCJITCompleteExpressions, MCJITCompleteFunction),
            MCJITCompleteIf, MCJITCompleteFor), MCJITCompleteVar),
    ToyJITLazy |->
        Mutable(Loops(Expressions(ToyJITLazyExpressions, ToyJITLazyFunction),
            ToyJITLazyIf, ToyJITLazyFor), ToyJITLazyVar),
    ToyJITCached |->
        Mutable(Loops(Expressions(ToyJITCachedExpressions, ToyJITCachedFunction),
            ToyJITCachedIf, ToyJITCachedFor), ToyJITCachedVar) ]
=============================================================================
