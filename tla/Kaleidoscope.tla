---------------------------- MODULE Kaleidoscope ----------------------------
(***************************************************************************)
(* A Kaleidoscope session (examples/Kaleidoscope/Chapter7/toy.cpp with     *)
(* include/KaleidoscopeJIT.h): definitions, externs and expressions typed  *)
(* one after the other, each generated into TheModule and handed to a JIT  *)
(* that keeps the definitions and forgets the expressions.                 *)
(*                                                                         *)
(* A function's body is abstracted to the calls its code makes; whether it *)
(* fails for another reason (an unknown variable) is the user's choice.    *)
(* The function of a binary operator, "binary" + Op, goes by its operator. *)
(***************************************************************************)
EXTENDS Naturals, FiniteSets

CONSTANTS
  Functions,        (* the identifiers functions are given                   *)
  ProcessSymbols,   (* those the process itself defines, of one argument     *)
  StandardOps,      (* the binary operators main installs                    *)
  OtherOps,         (* the other characters                                  *)
  Anon,             (* __anon_expr                                           *)
  Users,            (* the disciplines considered: see MayDefine and MayCall *)
  Careless,         (* bound on the names a user without any types           *)
  MaxArity,         (* bound on the arguments of a prototype                 *)
  MaxCalls          (* bound on the distinct calls of a body                 *)

Ops   == StandardOps \cup OtherOps
Names == Functions \cup Ops \cup {Anon}

ASSUME NamesAssumption ==
  /\ ProcessSymbols \subseteq Functions
  /\ Functions \cap Ops = {} /\ Anon \notin Functions \cup Ops
  /\ StandardOps \cap OtherOps = {}
ASSUME BoundsAssumption ==
  MaxArity \in Nat /\ MaxCalls \in Nat
ASSUME UsersAssumption == Users \subseteq {"careless", "trusting", "careful"}

VARIABLES
  user,             (* the discipline the user keeps to                      *)
  pc,               (* where the main loop is                                *)
  FunctionProtos,   (* name -> number of arguments of its last prototype     *)
  BinopPrecedence,  (* the operators that have a precedence                  *)
  TheModule,        (* name -> the function of that name in the open module  *)
  current,          (* the function being generated                          *)
  MainJD            (* name -> what the JIT holds under that symbol          *)

vars == <<user, pc, FunctionProtos, BinopPrecedence, TheModule, current, MainJD>>

Put(f, name, value) ==
  [m \in DOMAIN f \cup {name} |-> IF m = name THEN value ELSE f[m]]
Without(f, names) == [m \in DOMAIN f \ names |-> f[m]]
Empty == [m \in {} |-> 0]

Declaration(arity) == [arity |-> arity, body |-> FALSE]
Definition(arity)  == [arity |-> arity, body |-> TRUE]
NoFunction == [name |-> Anon, calls |-> {}, ops |-> {}]

(* What a user with a discipline types: no name is defined again once a    *)
(* definition of it succeeded, or if the process has it, and the externs   *)
(* are the functions of the process.  A definition that failed may be      *)
(* typed again, in any form.  A careful user does not call a function      *)
(* while its definition has failed; a trusting user does, as if the error  *)
(* had removed it.                                                         *)
Keeps == user # "careless"
MayDefine(name) ==
  IF Keeps THEN name \notin DOMAIN MainJD \cup ProcessSymbols
           ELSE name \in Careless
MayDeclare(name, arity) ==
  IF Keeps THEN name \in ProcessSymbols /\ arity = 1
           ELSE name \in Careless
Failed == DOMAIN FunctionProtos \
            (DOMAIN MainJD \cup ProcessSymbols \cup {current.name})
MayCall(callee) == user = "careful" => callee \notin Failed

-----------------------------------------------------------------------------
Init ==
  /\ user \in Users
  /\ pc = "prompt"
  /\ FunctionProtos = Empty /\ BinopPrecedence = StandardOps
  /\ TheModule = Empty /\ current = NoFunction
  /\ MainJD = Empty

(* TheModule after getFunction(name), which found the function exactly if  *)
(* the result has the name: in the module, or declared from its prototype. *)
GetFunction(name, protos) ==
  IF name \in DOMAIN TheModule \/ name \notin DOMAIN protos
  THEN TheModule
  ELSE Put(TheModule, name, Declaration(protos[name]))

(* FunctionAST::codegen up to the body: the prototype is recorded, an      *)
(* operator gets its precedence, the function in the module gets a body.   *)
(* The body was parsed before, with the operators known then.              *)
BeginFunction(name, arity) ==
  /\ pc = "prompt"
  /\ FunctionProtos' = Put(FunctionProtos, name, arity)
  /\ LET module == GetFunction(name, FunctionProtos')
     IN  TheModule' = Put(module, name, Definition(module[name].arity))
  /\ BinopPrecedence' = BinopPrecedence \cup ({name} \cap Ops)
  /\ current' = [name |-> name, calls |-> {}, ops |-> BinopPrecedence]
  /\ pc' = "body"
  /\ UNCHANGED MainJD

(* The prototype of a binary operator has two arguments.                   *)
PrototypeOK(name, arity) ==
  /\ name \in Functions \cup Ops /\ arity \in 0..MaxArity
  /\ name \in Ops => arity = 2

HandleDefinition(name, arity) ==
  /\ PrototypeOK(name, arity) /\ MayDefine(name)
  /\ BeginFunction(name, arity)

HandleTopLevelExpression == BeginFunction(Anon, 0)

(* A declaration whose name the module already has is renamed by LLVM: the *)
(* first one stays what getFunction finds.                                 *)
HandleExtern(name, arity) ==
  /\ pc = "prompt"
  /\ PrototypeOK(name, arity) /\ MayDeclare(name, arity)
  /\ TheModule' = IF name \in DOMAIN TheModule THEN TheModule
                  ELSE Put(TheModule, name, Declaration(arity))
  /\ FunctionProtos' = Put(FunctionProtos, name, arity)
  /\ UNCHANGED <<pc, BinopPrecedence, current, MainJD>>

-----------------------------------------------------------------------------
(* Mistaken RemoveFunction: the prototype is erased instead of the         *)
(* precedence, or the function stays in the module.                        *)
RemovePrototype(module) ==
  /\ TheModule' = Without(module, {current.name})
  /\ FunctionProtos' = Without(FunctionProtos, {current.name})
  /\ UNCHANGED BinopPrecedence
RemoveNothing(module) ==
  /\ TheModule' = module
  /\ BinopPrecedence' = BinopPrecedence \ {current.name}
  /\ UNCHANGED FunctionProtos

(* The error path of FunctionAST::codegen.  What is still generated after  *)
(* an error (a right operand) can only declare functions in the module, as *)
(* the calls before the error do.                                          *)
RemoveFunction(module) ==
  /\ TheModule' = Without(module, {current.name})
  /\ BinopPrecedence' = BinopPrecedence \ {current.name}
  /\ UNCHANGED FunctionProtos

AbandonFunction(module) ==
  /\ RemoveFunction(module)
  /\ current' = NoFunction
  /\ pc' = "prompt"
  /\ UNCHANGED MainJD

Emit(module, callee, args) ==
  /\ TheModule' = module
  /\ current' = [current EXCEPT !.calls = @ \cup {<<callee, args>>}]
  /\ Cardinality(current'.calls) <= MaxCalls
  /\ UNCHANGED <<pc, FunctionProtos, BinopPrecedence, MainJD>>

(* Mistaken CallAccepted: the arguments are not counted.                   *)
CallUncounted(module, callee, args) == callee \in DOMAIN module

(* The checks of CallExprAST::codegen.                                     *)
CallAccepted(module, callee, args) ==
  callee \in DOMAIN module /\ module[callee].arity = args

CallExpr(callee, args) ==
  /\ pc = "body" /\ MayCall(callee)
  /\ LET module == GetFunction(callee, FunctionProtos)
     IN  IF CallAccepted(module, callee, args)
         THEN Emit(module, callee, args)
         ELSE AbandonFunction(module)

(* A standard operator is an instruction; any other is a call to the       *)
(* function that is asserted to exist.                                     *)
BinaryExpr(op) ==
  /\ pc = "body" /\ op \in current.ops \ StandardOps
  /\ LET module == GetFunction(op, FunctionProtos)
     IN  IF op \in DOMAIN module
         THEN Emit(module, op, 2)
         ELSE /\ pc' = "asserted"
              /\ UNCHANGED <<FunctionProtos, BinopPrecedence, TheModule,
                             current, MainJD>>

BodyFails ==
  /\ pc = "body"
  /\ AbandonFunction(TheModule)

(* The body is complete; the passes of TheFPM may remove some calls.       *)
FinishFunction ==
  /\ pc = "body"
  /\ \E kept \in SUBSET current.calls :
       current' = [current EXCEPT !.calls = kept]
  /\ pc' = "add"
  /\ UNCHANGED <<FunctionProtos, BinopPrecedence, TheModule, MainJD>>

-----------------------------------------------------------------------------
Defined == {m \in DOMAIN TheModule : TheModule[m].body}

(* addModule: the symbols the module defines must be new to the JIT; then  *)
(* InitializeModuleAndManagers opens an empty module.                      *)
AddModule ==
  /\ pc = "add"
  /\ IF Defined \cap DOMAIN MainJD # {}
     THEN pc' = "exited" /\ UNCHANGED <<TheModule, current, MainJD>>
     ELSE /\ MainJD' = [m \in DOMAIN MainJD \cup Defined |->
                          IF m \in DOMAIN MainJD THEN MainJD[m]
                          ELSE [arity |-> TheModule[m].arity,
                                calls |-> current.calls]]
          /\ TheModule' = Empty
          /\ current' = NoFunction
          /\ pc' = IF current.name = Anon THEN "lookup" ELSE "prompt"
  /\ UNCHANGED <<FunctionProtos, BinopPrecedence>>

(* The symbols a lookup of __anon_expr materialises: those its code and    *)
(* the code of the functions it calls refer to.                            *)
Callees(m) == {c[1] : c \in MainJD[m].calls}
Closed(S)  == \A m \in S \cap DOMAIN MainJD : Callees(m) \subseteq S
Needed     == {m \in Names : \A S \in SUBSET Names :
                               Anon \in S /\ Closed(S) => m \in S}

(* The generator adds to the JIT the symbols it finds in the process; a    *)
(* symbol nobody defines fails the lookup, and ExitOnErr ends the session. *)
Lookup ==
  /\ pc = "lookup"
  /\ IF Needed \subseteq DOMAIN MainJD \cup ProcessSymbols
     THEN /\ pc' = "run"
          /\ MainJD' = [m \in DOMAIN MainJD \cup Needed |->
                          IF m \in DOMAIN MainJD THEN MainJD[m]
                          ELSE [arity |-> 1, calls |-> {}]]
     ELSE pc' = "exited" /\ UNCHANGED MainJD
  /\ UNCHANGED <<FunctionProtos, BinopPrecedence, TheModule, current>>

(* Mistaken RemoveExpression: nothing is removed, or all that the          *)
(* expression needed is.                                                   *)
KeepExpression ==
  /\ pc = "run"
  /\ pc' = "prompt"
  /\ UNCHANGED <<FunctionProtos, BinopPrecedence, TheModule, current, MainJD>>
RemoveReachable ==
  /\ pc = "run"
  /\ MainJD' = Without(MainJD, Needed)
  /\ pc' = "prompt"
  /\ UNCHANGED <<FunctionProtos, BinopPrecedence, TheModule, current>>

(* The expression has been called; RT->remove() takes its module away.     *)
RemoveExpression ==
  /\ pc = "run"
  /\ MainJD' = Without(MainJD, {Anon})
  /\ pc' = "prompt"
  /\ UNCHANGED <<FunctionProtos, BinopPrecedence, TheModule, current>>

EndOfInput ==
  /\ pc = "prompt"
  /\ pc' = "ended"
  /\ UNCHANGED <<FunctionProtos, BinopPrecedence, TheModule, current, MainJD>>

Next ==
  /\ \/ \E name \in Functions \cup Ops, arity \in 0..MaxArity :
          HandleDefinition(name, arity) \/ HandleExtern(name, arity)
     \/ HandleTopLevelExpression
     \/ \E callee \in Functions, args \in 0..MaxArity : CallExpr(callee, args)
     \/ \E op \in Ops : BinaryExpr(op)
     \/ BodyFails \/ FinishFunction
     \/ AddModule \/ Lookup \/ RemoveExpression
     \/ EndOfInput
  /\ UNCHANGED user

Spec == Init /\ [][Next]_vars

-----------------------------------------------------------------------------
(* Type invariant of the session.                                          *)
Maps(f, R) == DOMAIN f \subseteq Names /\ \A m \in DOMAIN f : f[m] \in R
Calls == (Functions \cup Ops) \X Nat
TypeOK ==
  /\ pc \in {"prompt", "body", "add", "lookup", "run",
             "asserted", "exited", "ended"}
  /\ Maps(FunctionProtos, Nat)
  /\ BinopPrecedence \in SUBSET Ops
  /\ Maps(TheModule, [arity : Nat, body : BOOLEAN])
  /\ current \in [name : Names, calls : SUBSET Calls, ops : SUBSET Ops]
  /\ Maps(MainJD, [arity : Nat, calls : SUBSET Calls])

(* "binary operator not found!" never fails: an operator the parser takes  *)
(* for one still has its prototype when its code is generated, whatever    *)
(* failed or was redefined in between.                                     *)
OperatorsResolve == pc # "asserted"

(* The module handed to the JIT defines the function just generated and    *)
(* nothing else: a failed body leaves no half-built function behind for a  *)
(* later definition to be appended to.                                     *)
OneDefinition ==
  Defined = IF pc \in {"body", "add", "asserted"} THEN {current.name}
            ELSE IF pc = "exited" THEN Defined \cap {current.name}
            ELSE {}

(* Every expression is compiled under the same symbol; at the prompt no    *)
(* trace of the previous one is left in the module or in the JIT.          *)
ExpressionsAreForgotten ==
  pc = "prompt" => Anon \notin DOMAIN MainJD \cup DOMAIN TheModule

(* The JIT never loses or replaces a function: neither a failed definition *)
(* of the same name nor the removal of an expression touches it.           *)
DefinitionsStay ==
  [][\A m \in DOMAIN MainJD \ {Anon} :
       m \in DOMAIN MainJD' /\ MainJD'[m] = MainJD[m]]_vars

(* While an expression runs, each call made by the code it can reach       *)
(* passes as many arguments as the function called was compiled with; and  *)
(* what a careful user may count on, whatever fails before it succeeds.    *)
ArgumentsAgree ==
  pc = "run" =>
    \A m \in Needed \cap DOMAIN MainJD : \A c \in MainJD[m].calls :
      c[1] \in DOMAIN MainJD => MainJD[c[1]].arity = c[2]
ArgumentsMatch == user = "careful" => ArgumentsAgree

(* What carries these: operators with a precedence have their prototype,   *)
(* everything in the module has one, and the expression's symbol is only   *)
(* about while it is generated, looked up and run.                         *)
Generating == pc \in {"body", "add"}
SessionInv ==
  /\ TypeOK /\ OneDefinition
  /\ (BinopPrecedence \cup current.ops) \ StandardOps \subseteq DOMAIN FunctionProtos
  /\ DOMAIN TheModule \subseteq DOMAIN FunctionProtos
  /\ Anon \in DOMAIN TheModule => Anon \in Defined
  /\ pc # "exited" => (Anon \in DOMAIN MainJD <=> pc \in {"lookup", "run"})
  /\ pc # "asserted"

(* A careful user's session: what has been finished, or is the process's,  *)
(* has one prototype for good, which every declaration, every compiled     *)
(* function and every call agree with; nothing else is called or declared, *)
(* but for the function being generated, by itself.  A failed definition   *)
(* leaves a prototype nobody uses.                                         *)
Settled == DOMAIN MainJD \cup ProcessSymbols
Usable  == Settled \cup (IF Generating THEN {current.name} ELSE {})
AgreeWithProtos(calls) ==
  \A c \in calls : c[1] \in DOMAIN FunctionProtos \ {Anon} /\ FunctionProtos[c[1]] = c[2]
CarefulInv ==
  /\ pc # "exited"
  /\ Generating => current.name \notin Settled
  /\ DOMAIN MainJD \subseteq DOMAIN FunctionProtos
  /\ DOMAIN TheModule \subseteq Usable
  /\ (BinopPrecedence \cup current.ops) \ StandardOps \subseteq Usable
  /\ AgreeWithProtos(current.calls) /\ \A c \in current.calls : c[1] \in Usable
  /\ \A m \in DOMAIN MainJD :
       /\ MainJD[m].arity = FunctionProtos[m]
       /\ AgreeWithProtos(MainJD[m].calls) /\ \A c \in MainJD[m].calls : c[1] \in Settled
  /\ \A m \in DOMAIN TheModule : TheModule[m].arity = FunctionProtos[m]
  /\ \A m \in DOMAIN FunctionProtos :
       (m \in Ops => FunctionProtos[m] = 2) /\
       (m \in ProcessSymbols => FunctionProtos[m] = 1)

(* How a session of a user who defines each name once is lost, though any  *)
(* of the definitions may fail and be typed again in another form: never   *)
(* by a symbol defined twice, and never if no failed function is called.   *)
(* Only the prototype that a failed definition leaves behind lets through  *)
(* a call, from the expression or from code it reaches, to a function that *)
(* nobody has defined since.                                               *)
SessionSurvives ==
  Keeps /\ pc = "exited" => user = "trusting" /\ Needed \cap Failed # {}

(* What carries it: symbols are new when they are added, and whatever is   *)
(* called has a prototype.                                                 *)
HasPrototypes(calls) == \A c \in calls : c[1] \in DOMAIN FunctionProtos
KeepsInv ==
  /\ Generating => current.name \notin Settled
  /\ pc \in {"lookup", "run"} => current.name = Anon
  /\ HasPrototypes(current.calls)
  /\ \A m \in DOMAIN MainJD : HasPrototypes(MainJD[m].calls)
  /\ pc = "exited" => Needed \cap Failed # {}
=============================================================================
