----------------------------- MODULE ToyVersions -----------------------------
(* The language of every version of the Kaleidoscope example, as data: what    *)
(* each toy.cpp's lexer, parser and operator table know.  A later chapter      *)
(* extends an earlier one or repeats it, and is written here the same way; the *)
(* one parser that reads these tables is ToyGrammar.                           *)
(*                                                                             *)
(* A parsing routine is a transition network: <<state, label, state>> means    *)
(* that in the first state the routine consumes a token, or calls the routine  *)
(* the label names, and goes on in the second.  A state whose name begins with *)
(* a capital returns the node of that name; "Variable" also has an edge, which *)
(* is preferred.  AnyChar stands for every token that is a plain character.    *)
EXTENDS Integers

AnyChar == "char"
Comma == ","

-----------------------------------------------------------------------------
(* Keywords.  Every other word lexes as an identifier.                         *)
Chapter2Keywords == {"def", "extern"}
Chapter3Keywords == Chapter2Keywords
Chapter4Keywords == Chapter3Keywords
Chapter5Keywords == Chapter4Keywords \cup {"if", "then", "else", "for", "in"}
Chapter6Keywords == Chapter5Keywords \cup {"binary", "unary"}
Chapter7Keywords == Chapter6Keywords \cup {"var"}
Chapter8Keywords == Chapter7Keywords
Chapter9Keywords == Chapter8Keywords
BuildingAJIT1Keywords == Chapter7Keywords
BuildingAJIT2Keywords == BuildingAJIT1Keywords
BuildingAJIT3Keywords == BuildingAJIT2Keywords
BuildingAJIT4Keywords == BuildingAJIT3Keywords
MCJITInitialKeywords == Chapter7Keywords
MCJITLazyKeywords == MCJITInitialKeywords
MCJITCachedKeywords == MCJITLazyKeywords
MCJITCompleteKeywords == MCJITCachedKeywords
ToyJITLazyKeywords == Chapter7Keywords
ToyJITCachedKeywords == ToyJITLazyKeywords

-----------------------------------------------------------------------------
(* ParsePrimary and the routine of each form it chooses from.                  *)
Chapter2Forms ==
    { <<"primary", "number", "Number">>,
      <<"primary", "(", "paren">>, <<"paren", "expression", "parenEnd">>,
      <<"parenEnd", ")", "Paren">>,
      <<"primary", "identifier", "Variable">>, <<"Variable", "(", "args">>,
      <<"args", ")", "Call">>, <<"args", "expression", "arg">>,
      <<"arg", ")", "Call">>, <<"arg", Comma, "nextArg">>,
      <<"nextArg", "expression", "arg">> }

IfForm ==
    { <<"primary", "if", "cond">>, <<"cond", "expression", "afterCond">>,
      <<"afterCond", "then", "thenPart">>, <<"thenPart", "expression", "afterThen">>,
      <<"afterThen", "else", "elsePart">>, <<"elsePart", "expression", "If">> }

ForForm ==
    { <<"primary", "for", "forName">>, <<"forName", "identifier", "forAssign">>,
      <<"forAssign", "=", "start">>, <<"start", "expression", "afterStart">>,
      <<"afterStart", Comma, "end">>, <<"end", "expression", "afterEnd">>,
      <<"afterEnd", Comma, "step">>, <<"step", "expression", "afterStep">>,
      <<"afterEnd", "in", "forBody">>, <<"afterStep", "in", "forBody">>,
      <<"forBody", "expression", "For">> }

VarForm ==
    { <<"primary", "var", "varName">>, <<"varName", "identifier", "varInit">>,
      <<"varInit", "=", "init">>, <<"init", "expression", "afterInit">>,
      <<"varInit", Comma, "varName">>, <<"afterInit", Comma, "varName">>,
      <<"varInit", "in", "varBody">>, <<"afterInit", "in", "varBody">>,
      <<"varBody", "expression", "Var">> }

Chapter3Forms == Chapter2Forms
Chapter4Forms == Chapter3Forms
Chapter5Forms == Chapter4Forms \cup IfForm \cup ForForm
Chapter6Forms == Chapter5Forms
Chapter7Forms == Chapter6Forms \cup VarForm
Chapter8Forms == Chapter7Forms
Chapter9Forms == Chapter8Forms
BuildingAJIT1Forms == Chapter7Forms
BuildingAJIT2Forms == BuildingAJIT1Forms
BuildingAJIT3Forms == BuildingAJIT2Forms
BuildingAJIT4Forms == BuildingAJIT3Forms
MCJITInitialForms == Chapter7Forms
MCJITLazyForms == MCJITInitialForms
MCJITCachedForms == MCJITLazyForms
MCJITCompleteForms == MCJITCachedForms
ToyJITLazyForms == Chapter7Forms
ToyJITCachedForms == ToyJITLazyForms

-----------------------------------------------------------------------------
(* What an operand of a binary operator is: a primary, or, from chapter 6 on, *)
(* any number of unary operators before one.                                   *)
Chapter2Operand == "primary"
Chapter3Operand == Chapter2Operand
Chapter4Operand == Chapter3Operand
Chapter5Operand == Chapter4Operand
Chapter6Operand == "unary"
Chapter7Operand == Chapter6Operand
Chapter8Operand == Chapter7Operand
Chapter9Operand == Chapter8Operand
BuildingAJIT1Operand == Chapter7Operand
BuildingAJIT2Operand == BuildingAJIT1Operand
BuildingAJIT3Operand == BuildingAJIT2Operand
BuildingAJIT4Operand == BuildingAJIT3Operand
MCJITInitialOperand == Chapter7Operand
MCJITLazyOperand == MCJITInitialOperand
MCJITCachedOperand == MCJITLazyOperand
MCJITCompleteOperand == MCJITCachedOperand
ToyJITLazyOperand == Chapter7Operand
ToyJITCachedOperand == ToyJITLazyOperand

-----------------------------------------------------------------------------
(* ParsePrototype, ParseDefinition, ParseTopLevelExpr and ParseExtern.         *)
Chapter2Items ==
    { <<"prototype", "identifier", "name">>, <<"name", "(", "params">>,
      <<"params", "identifier", "params">>, <<"params", ")", "Prototype">>,
      <<"definition", "def", "header">>, <<"header", "prototype", "body">>,
      <<"body", "expression", "Definition">>,
      <<"toplevel", "expression", "TopLevel">>,
      <<"external", "extern", "declared">>, <<"declared", "prototype", "Extern">> }

OperatorPrototypes ==
    { <<"prototype", "unary", "unaryName">>, <<"unaryName", AnyChar, "name">>,
      <<"prototype", "binary", "binaryName">>, <<"binaryName", AnyChar, "precedence">>,
      <<"precedence", "number", "name">>, <<"precedence", "(", "params">> }

Chapter3Items == Chapter2Items
Chapter4Items == Chapter3Items
Chapter5Items == Chapter4Items
Chapter6Items == Chapter5Items \cup OperatorPrototypes
Chapter7Items == Chapter6Items
Chapter8Items == Chapter7Items
Chapter9Items == Chapter8Items
BuildingAJIT1Items == Chapter7Items
BuildingAJIT2Items == BuildingAJIT1Items
BuildingAJIT3Items == BuildingAJIT2Items
BuildingAJIT4Items == BuildingAJIT3Items
MCJITInitialItems == Chapter7Items
MCJITLazyItems == MCJITInitialItems
MCJITCachedItems == MCJITLazyItems
MCJITCompleteItems == MCJITCachedItems
ToyJITLazyItems == Chapter7Items
ToyJITCachedItems == ToyJITLazyItems

-----------------------------------------------------------------------------
(* The operators main installs.  Chapter 8 does not install the assignment.    *)
Put(f, k, v) == [x \in DOMAIN f \cup {k} |-> IF x = k THEN v ELSE f[x]]

Chapter2Standard ==
    [c \in {"<", "+", "-", "*"} |-> CASE c = "<" -> 10 [] c = "*" -> 40 [] OTHER -> 20]
Chapter3Standard == Chapter2Standard
Chapter4Standard == Chapter3Standard
Chapter5Standard == Chapter4Standard
Chapter6Standard == Chapter5Standard
Chapter7Standard == Put(Chapter6Standard, "=", 2)
Chapter8Standard == Chapter6Standard
Chapter9Standard == Chapter7Standard
BuildingAJIT1Standard == Chapter7Standard
BuildingAJIT2Standard == BuildingAJIT1Standard
BuildingAJIT3Standard == BuildingAJIT2Standard
BuildingAJIT4Standard == BuildingAJIT3Standard
MCJITInitialStandard == Put(Chapter7Standard, "/", 40)
MCJITLazyStandard == MCJITInitialStandard
MCJITCachedStandard == MCJITLazyStandard
MCJITCompleteStandard == MCJITCachedStandard
ToyJITLazyStandard == MCJITInitialStandard
ToyJITCachedStandard == ToyJITLazyStandard

-----------------------------------------------------------------------------
(* What the code generation of a definition does to the operator table: no     *)
(* operators yet ("none"), install and erase again on failure ("erase"), the   *)
(* same with a failure that reads the prototype it has moved away ("crash"),   *)
(* the same unless the open module has the function ("reject", and "lookup"    *)
(* where that function is looked up by a name it does not have), or nothing    *)
(* before the operator's own first call ("late").                              *)
Chapter3Install == "none"
Chapter4Install == Chapter3Install
Chapter5Install == Chapter4Install
Chapter6Install == "erase"
Chapter7Install == Chapter6Install
Chapter8Install == Chapter7Install
Chapter9Install == "crash"
BuildingAJIT1Install == Chapter7Install
BuildingAJIT2Install == BuildingAJIT1Install
BuildingAJIT3Install == BuildingAJIT2Install
BuildingAJIT4Install == "late"
MCJITInitialInstall == "lookup"
MCJITLazyInstall == MCJITInitialInstall
MCJITCachedInstall == MCJITLazyInstall
MCJITCompleteInstall == "reject"
ToyJITLazyInstall == "reject"
ToyJITCachedInstall == ToyJITLazyInstall

-----------------------------------------------------------------------------
(* Only chapter 9 remembers where a node is.  "first" is the location of its   *)
(* first token, "operator" that of its operator, and "current" the default     *)
(* argument of ExprAST's constructor: the current token when the node is made. *)
(* Parentheses make no node of their own.                                      *)
NodeNames == {"Number", "Variable", "Call", "Paren", "If", "For", "Var", "Unary", "Binary"}

Chapter9Locations ==
    [n \in NodeNames |-> IF n \in {"Number", "Variable", "Call", "If"} THEN "first"
                         ELSE IF n = "Binary" THEN "operator"
                         ELSE IF n = "Paren" THEN "inner" ELSE "current"]

NoLocations == [n \in NodeNames |-> "none"]

-----------------------------------------------------------------------------
Version(keywords, forms, operand, items, standard, install, locations) ==
    [keywords |-> keywords, net |-> forms \cup items, operand |-> operand,
     standard |-> standard, install |-> install, locations |-> locations]

Grammar ==
  [ Chapter2 |-> Version(Chapter2Keywords, Chapter2Forms, Chapter2Operand,
                         Chapter2Items, Chapter2Standard, "none", NoLocations),
    Chapter3 |-> Version(Chapter3Keywords, Chapter3Forms, Chapter3Operand,
                         Chapter3Items, Chapter3Standard, Chapter3Install, NoLocations),
    Chapter4 |-> Version(Chapter4Keywords, Chapter4Forms, Chapter4Operand,
                         Chapter4Items, Chapter4Standard, Chapter4Install, NoLocations),
    Chapter5 |-> Version(Chapter5Keywords, Chapter5Forms, Chapter5Operand,
                         Chapter5Items, Chapter5Standard, Chapter5Install, NoLocations),
    Chapter6 |-> Version(Chapter6Keywords, Chapter6Forms, Chapter6Operand,
                         Chapter6Items, Chapter6Standard, Chapter6Install, NoLocations),
    Chapter7 |-> Version(Chapter7Keywords, Chapter7Forms, Chapter7Operand,
                         Chapter7Items, Chapter7Standard, Chapter7Install, NoLocations),
    Chapter8 |-> Version(Chapter8Keywords, Chapter8Forms, Chapter8Operand,
                         Chapter8Items, Chapter8Standard, Chapter8Install, NoLocations),
    Chapter9 |-> Version(Chapter9Keywords, Chapter9Forms, Chapter9Operand,
                         Chapter9Items, Chapter9Standard, Chapter9Install, Chapter9Locations),
    BuildingAJIT1 |->
        Version(BuildingAJIT1Keywords, BuildingAJIT1Forms, BuildingAJIT1Operand,
                BuildingAJIT1Items, BuildingAJIT1Standard, BuildingAJIT1Install, NoLocations),
    BuildingAJIT2 |->
        Version(BuildingAJIT2Keywords, BuildingAJIT2Forms, BuildingAJIT2Operand,
                BuildingAJIT2Items, BuildingAJIT2Standard, BuildingAJIT2Install, NoLocations),
    BuildingAJIT3 |->
        Version(BuildingAJIT3Keywords, BuildingAJIT3Forms, BuildingAJIT3Operand,
                BuildingAJIT3Items, BuildingAJIT3Standard, BuildingAJIT3Install, NoLocations),
    BuildingAJIT4 |->
        Version(BuildingAJIT4Keywords, BuildingAJIT4Forms, BuildingAJIT4Operand,
                BuildingAJIT4Items, BuildingAJIT4Standard, BuildingAJIT4Install, NoLocations),
    MCJITInitial |->
        Version(MCJITInitialKeywords, MCJITInitialForms, MCJITInitialOperand,
                MCJITInitialItems, MCJITInitialStandard, MCJITInitialInstall, NoLocations),
    MCJITLazy |->
        Version(MCJITLazyKeywords, MCJITLazyForms, MCJITLazyOperand,
                MCJITLazyItems, MCJITLazyStandard, MCJITLazyInstall, NoLocations),
    MCJITCached |->
        Version(MCJITCachedKeywords, MCJITCachedForms, MCJITCachedOperand,
                MCJITCachedItems, MCJITCachedStandard, MCJITCachedInstall, NoLocations),
    MCJITComplete |->
        Version(MCJITCompleteKeywords, MCJITCompleteForms, MCJITCompleteOperand,
                MCJITCompleteItems, MCJITCompleteStandard, MCJITCompleteInstall, NoLocations),
    ToyJITLazy |->
        Version(ToyJITLazyKeywords, ToyJITLazyForms, ToyJITLazyOperand,
                ToyJITLazyItems, ToyJITLazyStandard, ToyJITLazyInstall, NoLocations),
    ToyJITCached |->
        Version(ToyJITCachedKeywords, ToyJITCachedForms, ToyJITCachedOperand,
                ToyJITCachedItems, ToyJITCachedStandard, ToyJITCachedInstall, NoLocations) ]
=============================================================================
