--------------------------- MODULE Chapter7Proofs ---------------------------
(* Proofs about chapter 7 of the Kaleidoscope tutorial: first what a session   *)
(* keeps, for any names, arities and bodies, and for a careful user; then      *)
(* what happens to its symbol table, for any names, depth and number of        *)
(* allocas, whatever fails.                                                    *)
EXTENDS Kaleidoscope, Scoping, SequenceTheorems, TLAPS

-----------------------------------------------------------------------------
(* A session (Kaleidoscope).                                                  *)
(* What the map helpers return.                                            *)
LEMMA PutFacts ==
  ASSUME NEW f, NEW name, NEW value
  PROVE  /\ DOMAIN Put(f, name, value) = DOMAIN f \cup {name}
         /\ Put(f, name, value)[name] = value
         /\ \A m \in DOMAIN f \ {name} : Put(f, name, value)[m] = f[m]
  BY DEF Put

LEMMA PutMaps ==
  ASSUME NEW f, NEW name \in Names, NEW R, NEW value \in R, Maps(f, R)
  PROVE  Maps(Put(f, name, value), R)
  BY DEF Put, Maps

LEMMA WithoutFacts ==
  ASSUME NEW f, NEW names
  PROVE  /\ DOMAIN Without(f, names) = DOMAIN f \ names
         /\ \A m \in DOMAIN f \ names : Without(f, names)[m] = f[m]
  BY DEF Without

(* getFunction adds at most a declaration of the function asked for.       *)
LEMMA GetFunctionFacts ==
  ASSUME TypeOK, NEW name \in Names, NEW protos, Maps(protos, Nat)
  PROVE  LET module == GetFunction(name, protos)
         IN  /\ DOMAIN TheModule \subseteq DOMAIN module
             /\ DOMAIN module \subseteq
                  DOMAIN TheModule \cup ({name} \cap DOMAIN protos)
             /\ name \in DOMAIN protos => name \in DOMAIN module
             /\ \A m \in DOMAIN TheModule : module[m] = TheModule[m]
             /\ \A m \in DOMAIN module \ DOMAIN TheModule :
                  module[m] = Declaration(protos[m])
             /\ Maps(module, [arity : Nat, body : BOOLEAN])
<1> DEFINE R == [arity : Nat, body : BOOLEAN]
<1>1. CASE name \in DOMAIN TheModule \/ name \notin DOMAIN protos
  BY <1>1 DEF GetFunction, TypeOK
<1>2. CASE name \notin DOMAIN TheModule /\ name \in DOMAIN protos
  <2>1. GetFunction(name, protos)
          = Put(TheModule, name, Declaration(protos[name]))
    BY <1>2 DEF GetFunction
  <2>2. Declaration(protos[name]) \in R
    BY <1>2 DEF Declaration, Maps
  <2>3. Maps(GetFunction(name, protos), R)
    BY <2>1, <2>2 DEF TypeOK, Put, Maps
  <2>4. QED
    BY <1>2, <2>1, <2>3 DEF Put
<1>3. QED
  BY <1>1, <1>2

-----------------------------------------------------------------------------
(* A definition or an expression is begun.                                 *)
LEMMA BeginKeepsSessionInv ==
  ASSUME SessionInv, NEW name \in Names, NEW arity \in Nat,
         BeginFunction(name, arity)
  PROVE  SessionInv'
<1> DEFINE module == GetFunction(name, FunctionProtos')
           R      == [arity : Nat, body : BOOLEAN]
<1>1. /\ pc = "prompt" /\ pc' = "body" /\ MainJD' = MainJD
      /\ FunctionProtos' = Put(FunctionProtos, name, arity)
      /\ TheModule' = Put(module, name, Definition(module[name].arity))
      /\ BinopPrecedence' = BinopPrecedence \cup ({name} \cap Ops)
      /\ current' = [name |-> name, calls |-> {}, ops |-> BinopPrecedence]
  BY DEF BeginFunction
<1>2. DOMAIN FunctionProtos' = DOMAIN FunctionProtos \cup {name}
      /\ Maps(FunctionProtos', Nat)
  BY <1>1, PutFacts, PutMaps DEF SessionInv, TypeOK
<1>3. /\ name \in DOMAIN module
      /\ DOMAIN module \subseteq DOMAIN TheModule \cup {name}
      /\ \A m \in DOMAIN TheModule : module[m] = TheModule[m]
      /\ Maps(module, R)
  BY <1>2, GetFunctionFacts DEF SessionInv
<1>4. module[name] \in R
  BY <1>3 DEF Maps
<1>5. Definition(module[name].arity) \in R
      /\ Definition(module[name].arity).body = TRUE
  BY <1>4 DEF Definition
<1>6. /\ Maps(TheModule', R)
      /\ DOMAIN TheModule' = DOMAIN module
      /\ TheModule'[name].body = TRUE
      /\ \A m \in DOMAIN module \ {name} :
           m \in DOMAIN TheModule /\ TheModule'[m] = TheModule[m]
  <2>1. DOMAIN TheModule' = DOMAIN module
    BY <1>1, <1>3 DEF Put
  <2>2. TheModule'[name] = Definition(module[name].arity)
    BY <1>1, <1>3 DEF Put
  <2>3. \A m \in DOMAIN module \ {name} : TheModule'[m] = module[m]
    BY <1>1, <1>3 DEF Put
  <2>4. Maps(TheModule', R)
    <3>1. \A m \in DOMAIN module : m \in Names /\ module[m] \in R
      BY <1>3 DEF Maps
    <3>2. \A m \in DOMAIN module : TheModule'[m] \in R
      BY <1>5, <2>2, <2>3, <3>1
    <3>3. QED
      BY <2>1, <3>1, <3>2 DEF Maps
  <2>5. QED
    BY <1>3, <1>5, <2>1, <2>2, <2>3, <2>4
<1>7. TypeOK'
  BY <1>1, <1>2, <1>6 DEF SessionInv, TypeOK, Calls
<1>8. \A m \in DOMAIN TheModule : TheModule[m].body = FALSE
  <2>1. Defined = {}
    BY <1>1 DEF SessionInv, OneDefinition
  <2>2. QED
    BY <2>1 DEF Defined, SessionInv, TypeOK, Maps
<1>9. Defined' = {name}
  BY <1>3, <1>6, <1>8 DEF Defined
<1>10. QED
  BY <1>1, <1>2, <1>3, <1>6, <1>7, <1>9
     DEF SessionInv, OneDefinition, TypeOK

(* A function is abandoned, after some more declarations.                  *)
LEMMA AbandonKeepsSessionInv ==
  ASSUME SessionInv, pc = "body", NEW STATE module, AbandonFunction(module),
         Maps(module, [arity : Nat, body : BOOLEAN]),
         DOMAIN module \subseteq DOMAIN FunctionProtos,
         Anon \in DOMAIN module => Anon \in DOMAIN TheModule,
         \A m \in DOMAIN module :
           module[m].body => m \in Defined
  PROVE  SessionInv'
<1> DEFINE R == [arity : Nat, body : BOOLEAN]
<1>1. /\ TheModule' = Without(module, {current.name})
      /\ BinopPrecedence' = BinopPrecedence \ {current.name}
      /\ UNCHANGED <<FunctionProtos, MainJD>>
      /\ current' = NoFunction /\ pc' = "prompt"
  BY DEF AbandonFunction, RemoveFunction
<1>2. /\ DOMAIN TheModule' = DOMAIN module \ {current.name}
      /\ \A m \in DOMAIN TheModule' : TheModule'[m] = module[m]
  BY <1>1, WithoutFacts DEF Without
<1>3. Defined = {current.name}
  BY DEF SessionInv, OneDefinition
<1>4. Defined' = {}
  BY <1>2, <1>3 DEF Defined
<1>5. TypeOK'
  BY <1>1, <1>2, NamesAssumption
     DEF SessionInv, TypeOK, Maps, NoFunction, Names
<1>6. Anon \notin DOMAIN MainJD
  BY DEF SessionInv
<1>7. Anon \notin DOMAIN TheModule'
  BY <1>2, <1>3 DEF SessionInv
<1>8. QED
  BY <1>1, <1>2, <1>4, <1>5, <1>6, <1>7
     DEF SessionInv, OneDefinition, NoFunction

(* What generating a call to a function finds or declares.                 *)
LEMMA CalleeFacts ==
  ASSUME SessionInv, NEW callee \in Functions \cup Ops
  PROVE  LET module == GetFunction(callee, FunctionProtos)
         IN  /\ Maps(module, [arity : Nat, body : BOOLEAN])
             /\ DOMAIN TheModule \subseteq DOMAIN module
             /\ DOMAIN module \subseteq DOMAIN FunctionProtos
             /\ callee \in DOMAIN FunctionProtos => callee \in DOMAIN module
             /\ Anon \in DOMAIN module => Anon \in DOMAIN TheModule
             /\ \A m \in DOMAIN module : module[m].body <=> m \in Defined
             /\ \A m \in DOMAIN TheModule : module[m] = TheModule[m]
             /\ \A m \in DOMAIN module \ DOMAIN TheModule :
                  module[m] = Declaration(FunctionProtos[m])
<1> DEFINE module == GetFunction(callee, FunctionProtos)
<1>1. /\ callee \in Names /\ callee # Anon
      /\ TypeOK /\ Maps(FunctionProtos, Nat)
  BY NamesAssumption DEF Names, SessionInv, TypeOK
<1>2. /\ DOMAIN TheModule \subseteq DOMAIN module
      /\ DOMAIN module \subseteq
           DOMAIN TheModule \cup ({callee} \cap DOMAIN FunctionProtos)
      /\ callee \in DOMAIN FunctionProtos => callee \in DOMAIN module
      /\ \A m \in DOMAIN TheModule : module[m] = TheModule[m]
      /\ \A m \in DOMAIN module \ DOMAIN TheModule :
           module[m] = Declaration(FunctionProtos[m])
      /\ Maps(module, [arity : Nat, body : BOOLEAN])
  BY <1>1, GetFunctionFacts
<1>3. \A m \in DOMAIN module : module[m].body <=> m \in Defined
  BY <1>2 DEF Defined, Declaration
<1>4. QED
  BY <1>1, <1>2, <1>3 DEF SessionInv

LEMMA EmitKeepsSessionInv ==
  ASSUME SessionInv, pc = "body", NEW callee \in Functions \cup Ops,
         NEW args \in Nat,
         Emit(GetFunction(callee, FunctionProtos), callee, args)
  PROVE  SessionInv'
<1> DEFINE module == GetFunction(callee, FunctionProtos)
<1>1. /\ TheModule' = module
      /\ current' = [current EXCEPT !.calls = @ \cup {<<callee, args>>}]
      /\ UNCHANGED <<pc, FunctionProtos, BinopPrecedence, MainJD>>
  BY DEF Emit
<1>2. <<callee, args>> \in Calls
  BY DEF Calls
<1>3. /\ current' \in [name : Names, calls : SUBSET Calls, ops : SUBSET Ops]
      /\ current'.name = current.name /\ current'.ops = current.ops
  BY <1>1, <1>2 DEF SessionInv, TypeOK
<1>4. TypeOK'
  BY <1>1, <1>3, CalleeFacts DEF SessionInv, TypeOK, Calls
<1>5. Defined' = Defined
  BY <1>1, CalleeFacts DEF Defined
<1>6. QED
  BY <1>1, <1>3, <1>4, <1>5, CalleeFacts DEF SessionInv, OneDefinition

LEMMA ExternKeepsSessionInv ==
  ASSUME SessionInv, NEW name \in Functions \cup Ops, NEW arity \in Nat,
         HandleExtern(name, arity)
  PROVE  SessionInv'
<1>1. /\ pc = "prompt" /\ name \in Names /\ name # Anon
      /\ FunctionProtos' = Put(FunctionProtos, name, arity)
      /\ TheModule' = IF name \in DOMAIN TheModule THEN TheModule
                      ELSE Put(TheModule, name, Declaration(arity))
      /\ UNCHANGED <<pc, BinopPrecedence, current, MainJD>>
  BY NamesAssumption DEF HandleExtern, Names
<1>2. /\ DOMAIN FunctionProtos' = DOMAIN FunctionProtos \cup {name}
      /\ Maps(FunctionProtos', Nat)
  BY <1>1 DEF SessionInv, TypeOK, Maps, Put
<1>3. Declaration(arity) \in [arity : Nat, body : BOOLEAN]
      /\ Declaration(arity).body = FALSE
  BY DEF Declaration
<1>4. /\ DOMAIN TheModule' = DOMAIN TheModule \cup {name}
      /\ Maps(TheModule', [arity : Nat, body : BOOLEAN])
      /\ \A m \in DOMAIN TheModule' :
           \/ TheModule'[m] = Declaration(arity)
           \/ m \in DOMAIN TheModule /\ TheModule'[m] = TheModule[m]
  BY <1>1, <1>3 DEF SessionInv, TypeOK, Maps, Put
<1>5. Defined = {}
  BY <1>1 DEF SessionInv, OneDefinition
<1>6. Defined' = {}
  BY <1>3, <1>4, <1>5 DEF Defined
<1>7. TypeOK'
  BY <1>1, <1>2, <1>4 DEF SessionInv, TypeOK, Calls
<1>8. QED
  BY <1>1, <1>2, <1>4, <1>5, <1>6, <1>7 DEF SessionInv, OneDefinition

LEMMA AddKeepsSessionInv ==
  ASSUME SessionInv, AddModule PROVE SessionInv'
<1>1. pc = "add" /\ Defined = {current.name}
      /\ UNCHANGED <<FunctionProtos, BinopPrecedence>>
  BY DEF AddModule, SessionInv, OneDefinition
<1>2. CASE Defined \cap DOMAIN MainJD # {}
  <2>1. pc' = "exited" /\ UNCHANGED <<TheModule, current, MainJD>>
    BY <1>2 DEF AddModule
  <2>2. Defined' = Defined
    BY <2>1 DEF Defined
  <2>3. QED
    BY <1>1, <2>1, <2>2 DEF SessionInv, OneDefinition, TypeOK, Maps, Calls
<1>3. CASE Defined \cap DOMAIN MainJD = {}
  <2>1. /\ MainJD' = [m \in DOMAIN MainJD \cup Defined |->
                        IF m \in DOMAIN MainJD THEN MainJD[m]
                        ELSE [arity |-> TheModule[m].arity,
                              calls |-> current.calls]]
        /\ TheModule' = Empty /\ current' = NoFunction
        /\ pc' = IF current.name = Anon THEN "lookup" ELSE "prompt"
    BY <1>3 DEF AddModule
  <2>2. DOMAIN TheModule' = {} /\ Defined' = {}
    BY <2>1 DEF Empty, Defined
  <2>3. \A m \in Defined :
          m \in Names /\ [arity |-> TheModule[m].arity, calls |-> current.calls]
                           \in [arity : Nat, calls : SUBSET Calls]
    BY DEF SessionInv, TypeOK, Maps, Defined
  <2>4. /\ Maps(MainJD', [arity : Nat, calls : SUBSET Calls])
        /\ DOMAIN MainJD' = DOMAIN MainJD \cup {current.name}
    BY <1>1, <2>1, <2>3 DEF SessionInv, TypeOK, Maps
  <2>5. NoFunction \in [name : Names, calls : SUBSET Calls, ops : SUBSET Ops]
    BY DEF NoFunction, Names
  <2>6. TypeOK'
    BY <1>1, <2>1, <2>2, <2>4, <2>5 DEF SessionInv, TypeOK, Maps, Calls
  <2>7. Anon \in DOMAIN MainJD' <=> pc' = "lookup"
    BY <1>1, <2>1, <2>4 DEF SessionInv
  <2>8. QED
    BY <1>1, <2>1, <2>2, <2>6, <2>7 DEF SessionInv, OneDefinition, NoFunction
<1>4. QED
  BY <1>2, <1>3

LEMMA LookupKeepsSessionInv ==
  ASSUME SessionInv, Lookup PROVE SessionInv'
<1>1. /\ pc = "lookup"
      /\ UNCHANGED <<FunctionProtos, BinopPrecedence, TheModule, current>>
  BY DEF Lookup
<1>2. Defined = {} /\ Defined' = {}
  BY <1>1 DEF SessionInv, OneDefinition, Defined
<1>3. CASE pc' = "exited" /\ UNCHANGED MainJD
  BY <1>1, <1>2, <1>3 DEF SessionInv, OneDefinition, TypeOK, Maps, Calls
<1>4. CASE /\ pc' = "run"
           /\ MainJD' = [m \in DOMAIN MainJD \cup Needed |->
                           IF m \in DOMAIN MainJD THEN MainJD[m]
                           ELSE [arity |-> 1, calls |-> {}]]
  <2>1. Needed \subseteq Names
    BY DEF Needed
  <2>2. [arity |-> 1, calls |-> {}] \in [arity : Nat, calls : SUBSET Calls]
    OBVIOUS
  <2>3. Maps(MainJD', [arity : Nat, calls : SUBSET Calls])
    BY <1>4, <2>1, <2>2 DEF SessionInv, TypeOK, Maps
  <2>4. Anon \in DOMAIN MainJD'
    BY <1>1, <1>4 DEF SessionInv
  <2>5. TypeOK'
    BY <1>1, <1>4, <2>3 DEF SessionInv, TypeOK, Calls, Maps
  <2>6. QED
    BY <1>1, <1>2, <1>4, <2>4, <2>5 DEF SessionInv, OneDefinition
<1>5. QED
  BY <1>3, <1>4 DEF Lookup

LEMMA RemoveKeepsSessionInv ==
  ASSUME SessionInv, RemoveExpression PROVE SessionInv'
<1>1. /\ pc = "run" /\ pc' = "prompt"
      /\ MainJD' = Without(MainJD, {Anon})
      /\ UNCHANGED <<FunctionProtos, BinopPrecedence, TheModule, current>>
  BY DEF RemoveExpression
<1>2. Defined = {} /\ Defined' = {}
  BY <1>1 DEF SessionInv, OneDefinition, Defined
<1>3. /\ DOMAIN MainJD' = DOMAIN MainJD \ {Anon}
      /\ Maps(MainJD', [arity : Nat, calls : SUBSET Calls])
  BY <1>1 DEF SessionInv, TypeOK, Maps, Without
<1>4. TypeOK'
  BY <1>1, <1>3 DEF SessionInv, TypeOK, Calls, Maps
<1>5. QED
  BY <1>1, <1>2, <1>3, <1>4 DEF SessionInv, OneDefinition

LEMMA SessionInvStep ==
  ASSUME SessionInv, [Next]_vars PROVE SessionInv'
<1>1. ASSUME NEW name \in Functions \cup Ops, NEW arity \in 0..MaxArity,
             HandleDefinition(name, arity)
      PROVE  SessionInv'
  BY <1>1, BoundsAssumption, BeginKeepsSessionInv DEF HandleDefinition, Names
<1>2. ASSUME NEW name \in Functions \cup Ops, NEW arity \in 0..MaxArity,
             HandleExtern(name, arity)
      PROVE  SessionInv'
  BY <1>2, BoundsAssumption, ExternKeepsSessionInv
<1>3. CASE HandleTopLevelExpression
  BY <1>3, BeginKeepsSessionInv DEF HandleTopLevelExpression, Names
<1>4. ASSUME NEW callee \in Functions, NEW args \in 0..MaxArity,
             CallExpr(callee, args)
      PROVE  SessionInv'
  <2> DEFINE module == GetFunction(callee, FunctionProtos)
  <2>1. pc = "body" /\ args \in Nat /\ callee \in Functions \cup Ops
    BY <1>4, BoundsAssumption DEF CallExpr
  <2>2. CASE Emit(module, callee, args)
    BY <2>1, <2>2, EmitKeepsSessionInv
  <2>3. CASE AbandonFunction(module)
    BY <2>1, <2>3, CalleeFacts, AbandonKeepsSessionInv
  <2>4. QED
    BY <1>4, <2>2, <2>3 DEF CallExpr
<1>5. ASSUME NEW op \in Ops, BinaryExpr(op) PROVE SessionInv'
  <2> DEFINE module == GetFunction(op, FunctionProtos)
  <2>1. pc = "body" /\ op \in DOMAIN FunctionProtos
    BY <1>5 DEF BinaryExpr, SessionInv
  <2>2. op \in DOMAIN module
    BY <2>1, CalleeFacts
  <2>3. Emit(module, op, 2)
    BY <1>5, <2>2 DEF BinaryExpr
  <2>4. QED
    BY <2>1, <2>3, EmitKeepsSessionInv
<1>6. CASE BodyFails
  <2>1. pc = "body" /\ AbandonFunction(TheModule)
    BY <1>6 DEF BodyFails
  <2>2. \A m \in DOMAIN TheModule : TheModule[m].body => m \in Defined
    BY DEF Defined
  <2>3. QED
    BY <2>1, <2>2, AbandonKeepsSessionInv DEF SessionInv, TypeOK
<1>7. CASE FinishFunction
  <2>1. PICK kept \in SUBSET current.calls :
          current' = [current EXCEPT !.calls = kept]
    BY <1>7 DEF FinishFunction
  <2>2. /\ pc = "body" /\ pc' = "add"
        /\ UNCHANGED <<FunctionProtos, BinopPrecedence, TheModule, MainJD>>
    BY <1>7 DEF FinishFunction
  <2>3. /\ current' \in [name : Names, calls : SUBSET Calls, ops : SUBSET Ops]
        /\ current'.name = current.name /\ current'.ops = current.ops
    BY <2>1 DEF SessionInv, TypeOK
  <2>4. Defined' = Defined
    BY <2>2 DEF Defined
  <2>5. QED
    BY <2>2, <2>3, <2>4 DEF SessionInv, OneDefinition, TypeOK, Maps, Calls
<1>8. CASE EndOfInput
  <2>1. Defined' = Defined
    BY <1>8 DEF EndOfInput, Defined
  <2>2. QED
    BY <1>8, <2>1 DEF EndOfInput, SessionInv, OneDefinition, TypeOK, Maps, Calls
<1>9. CASE UNCHANGED vars
  <2>1. Defined' = Defined
    BY <1>9 DEF vars, Defined
  <2>2. QED
    BY <1>9, <2>1 DEF vars, SessionInv, OneDefinition, TypeOK, Maps, Calls
<1>10. QED
  BY <1>1, <1>2, <1>3, <1>4, <1>5, <1>6, <1>7, <1>8, <1>9,
     AddKeepsSessionInv, LookupKeepsSessionInv, RemoveKeepsSessionInv
     DEF Next

LEMMA SessionInvInit == Init => SessionInv
<1> SUFFICES ASSUME Init PROVE SessionInv
  OBVIOUS
<1>1. Defined = {} /\ DOMAIN TheModule = {}
  BY DEF Init, Defined, Empty
<1>2. NoFunction \in [name : Names, calls : SUBSET Calls, ops : SUBSET Ops]
  BY DEF NoFunction, Names
<1>3. QED
  BY <1>1, <1>2
     DEF Init, SessionInv, TypeOK, OneDefinition, Maps, Empty, Ops, NoFunction

(* Types, one definition per module, prototypes for every operator that    *)
(* has a precedence: in any session.                                       *)
THEOREM SessionInvariant == Spec => []SessionInv
  BY SessionInvInit, SessionInvStep, PTL DEF Spec

(* "binary operator not found!" never fails.                               *)
THEOREM OperatorsAlwaysResolve == Spec => []OperatorsResolve
<1>1. SessionInv => OperatorsResolve
  BY DEF SessionInv, OperatorsResolve
<1>2. QED
  BY <1>1, SessionInvariant, PTL

(* A module given to the JIT holds the one function just generated.        *)
THEOREM OneDefinitionPerModule == Spec => []OneDefinition
<1>1. SessionInv => OneDefinition
  BY DEF SessionInv
<1>2. QED
  BY <1>1, SessionInvariant, PTL

(* No trace of an expression is left at the prompt.                        *)
THEOREM ExpressionsAreAlwaysForgotten == Spec => []ExpressionsAreForgotten
<1>1. SessionInv => ExpressionsAreForgotten
  BY DEF SessionInv, OneDefinition, ExpressionsAreForgotten
<1>2. QED
  BY <1>1, SessionInvariant, PTL

-----------------------------------------------------------------------------
(* The careful user's session, action by action.                           *)
LEMMA BeginKeepsCarefulInv ==
  ASSUME SessionInv, CarefulInv, NEW name \in Names, NEW arity \in Nat,
         name \notin Settled,
         name \in Ops => arity = 2,
         BeginFunction(name, arity)
  PROVE  CarefulInv'
<1> DEFINE module == GetFunction(name, FunctionProtos')
<1>1. /\ pc = "prompt" /\ pc' = "body" /\ MainJD' = MainJD
      /\ FunctionProtos' = Put(FunctionProtos, name, arity)
      /\ TheModule' = Put(module, name, Definition(module[name].arity))
      /\ BinopPrecedence' = BinopPrecedence \cup ({name} \cap Ops)
      /\ current' = [name |-> name, calls |-> {}, ops |-> BinopPrecedence]
  BY DEF BeginFunction
<1>2. /\ DOMAIN FunctionProtos' = DOMAIN FunctionProtos \cup {name}
      /\ FunctionProtos'[name] = arity
      /\ \A m \in DOMAIN FunctionProtos \ {name} :
           FunctionProtos'[m] = FunctionProtos[m]
  BY <1>1 DEF Put
<1>3. Settled' = Settled /\ Usable = Settled /\ Usable' = Settled \cup {name}
  BY <1>1 DEF Settled, Usable, Generating
<1>4. name \notin DOMAIN TheModule /\ name \notin DOMAIN MainJD /\ name \notin ProcessSymbols
  BY <1>3 DEF CarefulInv, Settled
<1>5. module = Put(TheModule, name, Declaration(arity))
  BY <1>2, <1>4 DEF GetFunction
<1>6. /\ DOMAIN TheModule' = DOMAIN TheModule \cup {name}
      /\ TheModule'[name].arity = arity
      /\ \A m \in DOMAIN TheModule : TheModule'[m] = TheModule[m]
  BY <1>1, <1>4, <1>5 DEF Put, Declaration, Definition
<1>7. ASSUME NEW m \in DOMAIN MainJD
      PROVE  /\ MainJD[m].arity = FunctionProtos'[m]
             /\ AgreeWithProtos(MainJD[m].calls)'
             /\ \A c \in MainJD[m].calls : c[1] \in Settled
  <2>1. /\ AgreeWithProtos(MainJD[m].calls)
        /\ \A c \in MainJD[m].calls : c[1] \in Settled
        /\ MainJD[m].arity = FunctionProtos[m] /\ m \in DOMAIN FunctionProtos
    BY DEF CarefulInv
  <2>2. \A c \in MainJD[m].calls : c[1] # name
    BY <2>1
  <2>3. QED
    BY <1>1, <1>2, <1>4, <2>1, <2>2 DEF AgreeWithProtos
<1>8. \A m \in DOMAIN TheModule' : TheModule'[m].arity = FunctionProtos'[m]
  BY <1>2, <1>4, <1>6 DEF CarefulInv, SessionInv
<1>9. \A m \in DOMAIN FunctionProtos' :
        (m \in Ops => FunctionProtos'[m] = 2) /\
        (m \in ProcessSymbols => FunctionProtos'[m] = 1)
  BY <1>2, <1>4 DEF CarefulInv
<1>10. AgreeWithProtos(current.calls)' /\ current.calls' = {}
  BY <1>1 DEF AgreeWithProtos
<1>11. /\ DOMAIN TheModule' \subseteq Usable'
       /\ (BinopPrecedence' \cup current'.ops) \ StandardOps \subseteq Usable'
  BY <1>1, <1>3, <1>6 DEF CarefulInv
<1>12. DOMAIN MainJD' \subseteq DOMAIN FunctionProtos'
  BY <1>1, <1>2 DEF CarefulInv
<1>13. \A m \in DOMAIN MainJD' :
         /\ MainJD'[m].arity = FunctionProtos'[m]
         /\ AgreeWithProtos(MainJD[m].calls)'
         /\ \A c \in MainJD'[m].calls : c[1] \in Settled'
  BY <1>1, <1>3, <1>7
<1>14. pc' # "exited" /\ (Generating' => current'.name \notin Settled')
  BY <1>1, <1>3
<1>15. QED
  BY <1>8, <1>9, <1>10, <1>11, <1>12, <1>13, <1>14 DEF CarefulInv

LEMMA EmitKeepsCarefulInv ==
  ASSUME SessionInv, CarefulInv, pc = "body",
         NEW callee \in Functions \cup Ops, NEW args,
         callee \in DOMAIN FunctionProtos \cap Usable, FunctionProtos[callee] = args,
         Emit(GetFunction(callee, FunctionProtos), callee, args)
  PROVE  CarefulInv'
<1>1. /\ TheModule' = GetFunction(callee, FunctionProtos)
      /\ current' = [current EXCEPT !.calls = @ \cup {<<callee, args>>}]
      /\ UNCHANGED <<pc, FunctionProtos, BinopPrecedence, MainJD>>
  BY DEF Emit
<1>2. /\ current'.name = current.name /\ current'.ops = current.ops
      /\ current'.calls = current.calls \cup {<<callee, args>>}
  BY <1>1 DEF SessionInv, TypeOK
<1>3. callee # Anon
  BY NamesAssumption
<1>4. Settled' = Settled /\ Usable' = Usable /\ (Generating' <=> Generating)
  BY <1>1, <1>2 DEF Settled, Usable, Generating
<1>5. /\ AgreeWithProtos(current.calls)'
      /\ \A c \in current'.calls : c[1] \in Usable'
  BY <1>1, <1>2, <1>3, <1>4 DEF CarefulInv, AgreeWithProtos
<1>6. \A m \in DOMAIN TheModule' : TheModule'[m].arity = FunctionProtos'[m]
  BY <1>1, CalleeFacts DEF CarefulInv, Declaration
<1>7. DOMAIN TheModule' \subseteq DOMAIN TheModule \cup {callee}
  BY <1>1 DEF GetFunction, Put
<1>8. \A m \in DOMAIN MainJD' :
        /\ MainJD'[m].arity = FunctionProtos'[m]
        /\ AgreeWithProtos(MainJD[m].calls)'
        /\ \A c \in MainJD'[m].calls : c[1] \in Settled'
  BY <1>1, <1>4 DEF CarefulInv, AgreeWithProtos
<1>9. QED
  BY <1>1, <1>2, <1>4, <1>5, <1>6, <1>7, <1>8 DEF CarefulInv

LEMMA AbandonKeepsCarefulInv ==
  ASSUME SessionInv, CarefulInv, pc = "body",
         NEW STATE module, AbandonFunction(module),
         DOMAIN module \subseteq Usable,
         \A m \in DOMAIN module : module[m].arity = FunctionProtos[m]
  PROVE  CarefulInv'
<1>1. /\ TheModule' = Without(module, {current.name})
      /\ BinopPrecedence' = BinopPrecedence \ {current.name}
      /\ UNCHANGED <<FunctionProtos, MainJD>>
      /\ current' = NoFunction /\ pc' = "prompt"
  BY DEF AbandonFunction, RemoveFunction
<1>2. /\ Settled' = Settled /\ Usable' = Settled /\ ~Generating'
      /\ Usable = Settled \cup {current.name}
  BY <1>1 DEF Settled, Usable, Generating
<1>3. /\ \A m \in DOMAIN TheModule' : TheModule'[m].arity = FunctionProtos'[m]
      /\ DOMAIN TheModule' \subseteq Usable'
  BY <1>1, <1>2 DEF Without
<1>4. /\ AgreeWithProtos(current.calls)'
      /\ \A c \in current'.calls : c[1] \in Usable'
  BY <1>1 DEF NoFunction, AgreeWithProtos
<1>5. \A m \in DOMAIN MainJD' :
        /\ MainJD'[m].arity = FunctionProtos'[m]
        /\ AgreeWithProtos(MainJD[m].calls)'
        /\ \A c \in MainJD'[m].calls : c[1] \in Settled'
  BY <1>1, <1>2 DEF CarefulInv, AgreeWithProtos
<1>6. (BinopPrecedence' \cup current'.ops) \ StandardOps \subseteq Usable'
  BY <1>1, <1>2 DEF CarefulInv, NoFunction
<1>7. QED
  BY <1>1, <1>2, <1>3, <1>4, <1>5, <1>6 DEF CarefulInv

LEMMA ExternKeepsCarefulInv ==
  ASSUME SessionInv, CarefulInv, NEW name \in ProcessSymbols,
         HandleExtern(name, 1)
  PROVE  CarefulInv'
<1>1. /\ pc = "prompt"
      /\ FunctionProtos' = Put(FunctionProtos, name, 1)
      /\ TheModule' = IF name \in DOMAIN TheModule THEN TheModule
                      ELSE Put(TheModule, name, Declaration(1))
      /\ UNCHANGED <<pc, BinopPrecedence, current, MainJD>>
  BY DEF HandleExtern
<1>2. /\ DOMAIN FunctionProtos' = DOMAIN FunctionProtos \cup {name}
      /\ FunctionProtos'[name] = 1
      /\ \A m \in DOMAIN FunctionProtos : FunctionProtos'[m] = FunctionProtos[m]
  BY <1>1 DEF Put, CarefulInv
<1>3. name \in Functions /\ name \notin Ops /\ name # Anon
  BY NamesAssumption
<1>4. \A m \in DOMAIN TheModule' : TheModule'[m].arity = FunctionProtos'[m]
  BY <1>1, <1>2 DEF CarefulInv, SessionInv, Put, Declaration
<1>5. /\ Settled' = Settled /\ Usable' = Usable /\ ~Generating'
      /\ name \in Usable
  BY <1>1 DEF Settled, Usable, Generating
<1>6. DOMAIN TheModule' \subseteq Usable'
  BY <1>1, <1>5 DEF CarefulInv, Put
<1>7. /\ AgreeWithProtos(current.calls)'
      /\ \A c \in current'.calls : c[1] \in Usable'
  BY <1>1, <1>2, <1>5 DEF CarefulInv, AgreeWithProtos
<1>8. \A m \in DOMAIN MainJD' :
        /\ MainJD'[m].arity = FunctionProtos'[m]
        /\ AgreeWithProtos(MainJD[m].calls)'
        /\ \A c \in MainJD'[m].calls : c[1] \in Settled'
  BY <1>1, <1>2, <1>5 DEF CarefulInv, AgreeWithProtos
<1>9. \A m \in DOMAIN FunctionProtos' :
        (m \in Ops => FunctionProtos'[m] = 2) /\
        (m \in ProcessSymbols => FunctionProtos'[m] = 1)
  BY <1>2, <1>3 DEF CarefulInv
<1>10. QED
  BY <1>1, <1>2, <1>4, <1>5, <1>6, <1>7, <1>8, <1>9 DEF CarefulInv

LEMMA AddKeepsCarefulInv ==
  ASSUME SessionInv, CarefulInv, AddModule PROVE CarefulInv'
<1>1. /\ pc = "add" /\ Defined = {current.name} /\ Generating
      /\ UNCHANGED <<FunctionProtos, BinopPrecedence>>
  BY DEF AddModule, SessionInv, OneDefinition, Generating
<1>2. Defined \cap DOMAIN MainJD = {}
  BY <1>1 DEF CarefulInv, Settled
<1>3. /\ MainJD' = [m \in DOMAIN MainJD \cup Defined |->
                      IF m \in DOMAIN MainJD THEN MainJD[m]
                      ELSE [arity |-> TheModule[m].arity,
                            calls |-> current.calls]]
      /\ TheModule' = Empty /\ current' = NoFunction
      /\ pc' = IF current.name = Anon THEN "lookup" ELSE "prompt"
  BY <1>2 DEF AddModule
<1>4. /\ current.name \in DOMAIN TheModule
      /\ current.name \in DOMAIN FunctionProtos
  BY <1>1 DEF Defined, SessionInv
<1>5. DOMAIN MainJD' = DOMAIN MainJD \cup {current.name}
  BY <1>1, <1>3
<1>6. Usable = Settled \cup {current.name} /\ Settled' = Usable /\ Usable' = Usable
      /\ ~Generating'
  BY <1>1, <1>3, <1>5 DEF Settled, Usable, Generating
<1>7. \A m \in DOMAIN MainJD' :
        /\ MainJD'[m].arity = FunctionProtos'[m]
        /\ AgreeWithProtos(MainJD'[m].calls)
        /\ \A c \in MainJD'[m].calls : c[1] \in Settled'
  <2>1. ASSUME NEW m \in DOMAIN MainJD
        PROVE  /\ MainJD'[m] = MainJD[m]
               /\ MainJD[m].arity = FunctionProtos[m]
               /\ AgreeWithProtos(MainJD[m].calls)
               /\ \A c \in MainJD[m].calls : c[1] \in Usable
    BY <1>3, <1>6 DEF CarefulInv
  <2>2. MainJD'[current.name] = [arity |-> TheModule[current.name].arity,
                                 calls |-> current.calls]
    BY <1>1, <1>2, <1>3, <1>5
  <2>3. /\ TheModule[current.name].arity = FunctionProtos[current.name]
        /\ AgreeWithProtos(current.calls)
        /\ \A c \in current.calls : c[1] \in Usable
    BY <1>4 DEF CarefulInv
  <2>4. QED
    BY <1>1, <1>5, <1>6, <2>1, <2>2, <2>3
<1>8. \A m \in DOMAIN MainJD' : AgreeWithProtos(MainJD[m].calls)'
  BY <1>1, <1>7 DEF AgreeWithProtos
<1>9. /\ AgreeWithProtos(current.calls)' /\ DOMAIN TheModule' = {}
      /\ current'.calls = {} /\ current'.ops = {}
  BY <1>3 DEF AgreeWithProtos, NoFunction, Empty
<1>10. DOMAIN MainJD' \subseteq DOMAIN FunctionProtos'
  BY <1>1, <1>4, <1>5 DEF CarefulInv
<1>11. (BinopPrecedence' \cup current'.ops) \ StandardOps \subseteq Usable'
  BY <1>1, <1>6, <1>9 DEF CarefulInv
<1>12. pc' # "exited"
  BY <1>3
<1>13. QED
  BY <1>1, <1>6, <1>7, <1>8, <1>9, <1>10, <1>11, <1>12 DEF CarefulInv

(* All that an expression's code needs is settled, for a careful user.     *)
LEMMA NeededIsSettled ==
  ASSUME SessionInv, CarefulInv, pc = "lookup"
  PROVE  Needed \subseteq Settled /\ Needed \subseteq {Anon} \cup DOMAIN FunctionProtos
<1> DEFINE S == Settled \cap ({Anon} \cup DOMAIN FunctionProtos)
<1>1. S \in SUBSET Names
  BY DEF Names, SessionInv, TypeOK, Maps
<1>2. \A m \in DOMAIN MainJD : \A c \in MainJD[m].calls :
        c[1] \in Settled /\ c[1] \in DOMAIN FunctionProtos
  BY DEF CarefulInv, AgreeWithProtos
<1>3. Closed(S)
  BY <1>2 DEF Closed, Callees
<1>4. Anon \in S
  BY DEF SessionInv, Settled
<1>5. QED
  BY <1>1, <1>3, <1>4 DEF Needed

LEMMA LookupKeepsCarefulInv ==
  ASSUME SessionInv, CarefulInv, Lookup PROVE CarefulInv'
<1>1. /\ pc = "lookup"
      /\ UNCHANGED <<FunctionProtos, BinopPrecedence, TheModule, current>>
      /\ Anon \in DOMAIN MainJD
  BY DEF Lookup, SessionInv
<1>2. /\ pc' = "run"
      /\ MainJD' = [m \in DOMAIN MainJD \cup Needed |->
                      IF m \in DOMAIN MainJD THEN MainJD[m]
                      ELSE [arity |-> 1, calls |-> {}]]
  BY <1>1, NeededIsSettled DEF Lookup, Settled
<1>3. \A m \in Needed \ DOMAIN MainJD :
        m \in DOMAIN FunctionProtos /\ FunctionProtos[m] = 1
  BY <1>1, NeededIsSettled DEF CarefulInv, Settled
<1>4. DOMAIN MainJD' = DOMAIN MainJD \cup Needed
  BY <1>2
<1>5. Settled' = Settled /\ Usable = Settled /\ Usable' = Settled /\ ~Generating'
  BY <1>1, <1>2, <1>4, NeededIsSettled DEF Settled, Usable, Generating
<1>6. AgreeWithProtos({})
  BY DEF AgreeWithProtos
<1>7. \A m \in DOMAIN MainJD' :
        /\ MainJD'[m].arity = FunctionProtos'[m]
        /\ AgreeWithProtos(MainJD'[m].calls)
        /\ \A c \in MainJD'[m].calls : c[1] \in Settled'
  BY <1>1, <1>2, <1>3, <1>5, <1>6 DEF CarefulInv
<1>8. \A m \in DOMAIN MainJD' : AgreeWithProtos(MainJD[m].calls)'
  BY <1>1, <1>7 DEF AgreeWithProtos
<1>9. AgreeWithProtos(current.calls)'
  BY <1>1 DEF AgreeWithProtos, CarefulInv
<1>10. DOMAIN MainJD' \subseteq DOMAIN FunctionProtos'
  BY <1>1, <1>3, <1>4 DEF CarefulInv
<1>11. QED
  BY <1>1, <1>2, <1>5, <1>7, <1>8, <1>9, <1>10 DEF CarefulInv

LEMMA RemoveKeepsCarefulInv ==
  ASSUME SessionInv, CarefulInv, RemoveExpression PROVE CarefulInv'
<1>1. /\ pc = "run" /\ pc' = "prompt"
      /\ MainJD' = Without(MainJD, {Anon})
      /\ UNCHANGED <<FunctionProtos, BinopPrecedence, TheModule, current>>
  BY DEF RemoveExpression
<1>2. /\ DOMAIN MainJD' = DOMAIN MainJD \ {Anon}
      /\ \A m \in DOMAIN MainJD' : MainJD'[m] = MainJD[m]
  BY <1>1 DEF Without
<1>3. /\ Settled \ {Anon} \subseteq Settled' /\ Settled' = Usable'
      /\ Usable = Settled /\ ~Generating'
  BY <1>1, <1>2 DEF Settled, Usable, Generating
<1>4. \A m \in DOMAIN MainJD' :
        /\ MainJD'[m].arity = FunctionProtos[m]
        /\ AgreeWithProtos(MainJD'[m].calls)
        /\ \A c \in MainJD'[m].calls : c[1] \in Settled
  BY <1>2 DEF CarefulInv
<1>5. \A m \in DOMAIN MainJD' :
        /\ AgreeWithProtos(MainJD[m].calls)'
        /\ \A c \in MainJD'[m].calls : c[1] \in Settled'
  BY <1>1, <1>3, <1>4 DEF AgreeWithProtos
<1>6. /\ AgreeWithProtos(current.calls)'
      /\ \A c \in current'.calls : c[1] \in Usable'
  BY <1>1, <1>3 DEF AgreeWithProtos, CarefulInv
<1>7. DOMAIN TheModule' \subseteq Usable'
  <2>1. Anon \notin DOMAIN TheModule
    BY <1>1 DEF SessionInv, OneDefinition
  <2>2. QED
    BY <1>1, <1>3, <2>1 DEF CarefulInv
<1>8. (BinopPrecedence' \cup current'.ops) \ StandardOps \subseteq Usable'
  <2>1. Anon \notin BinopPrecedence \cup current.ops
    BY NamesAssumption DEF SessionInv, TypeOK
  <2>2. QED
    BY <1>1, <1>3, <2>1 DEF CarefulInv
<1>9. QED
  BY <1>1, <1>2, <1>3, <1>4, <1>5, <1>6, <1>7, <1>8 DEF CarefulInv

LEMMA CarefulInvStep ==
  ASSUME user = "careful", SessionInv, CarefulInv, [Next]_vars PROVE CarefulInv'
<1>1. ASSUME NEW name \in Functions \cup Ops, NEW arity \in 0..MaxArity,
             HandleDefinition(name, arity)
      PROVE  CarefulInv'
  <2>1. /\ name \in Names /\ arity \in Nat /\ (name \in Ops => arity = 2)
        /\ name \notin Settled
        /\ BeginFunction(name, arity)
    BY <1>1, BoundsAssumption
       DEF HandleDefinition, Names, PrototypeOK, MayDefine, Keeps, Settled
  <2>2. QED
    BY <2>1, BeginKeepsCarefulInv
<1>2. ASSUME NEW name \in Functions \cup Ops, NEW arity \in 0..MaxArity,
             HandleExtern(name, arity)
      PROVE  CarefulInv'
  <2>1. name \in ProcessSymbols /\ arity = 1
    BY <1>2 DEF HandleExtern, MayDeclare, Keeps
  <2>2. QED
    BY <1>2, <2>1, ExternKeepsCarefulInv
<1>3. CASE HandleTopLevelExpression
  <2>1. Anon \notin Settled /\ Anon \in Names /\ Anon \notin Ops
    BY <1>3, NamesAssumption
       DEF HandleTopLevelExpression, BeginFunction, SessionInv, Settled, Names
  <2>2. QED
    BY <1>3, <2>1, BeginKeepsCarefulInv DEF HandleTopLevelExpression
<1>4. ASSUME NEW callee \in Functions, NEW args \in 0..MaxArity,
             CallExpr(callee, args)
      PROVE  CarefulInv'
  <2> DEFINE module == GetFunction(callee, FunctionProtos)
  <2>1. pc = "body" /\ callee \in Functions \cup Ops /\ callee \notin Failed
    BY <1>4 DEF CallExpr, MayCall
  <2>2. /\ DOMAIN module \subseteq DOMAIN FunctionProtos
        /\ \A m \in DOMAIN module : module[m].arity = FunctionProtos[m]
    BY <2>1, CalleeFacts DEF CarefulInv, Declaration
  <2>3. callee \in DOMAIN FunctionProtos => callee \in Usable
    BY <2>1 DEF Failed, Usable, Settled, Generating
  <2>4. DOMAIN module \subseteq Usable
    BY <2>3 DEF GetFunction, Put, CarefulInv
  <2>5. CASE CallAccepted(module, callee, args)
    <3>1. /\ callee \in DOMAIN FunctionProtos
          /\ FunctionProtos[callee] = args
      BY <2>2, <2>5 DEF CallAccepted
    <3>2. Emit(module, callee, args)
      BY <1>4, <2>5 DEF CallExpr
    <3>3. QED
      BY <2>1, <2>3, <3>1, <3>2, EmitKeepsCarefulInv
  <2>6. CASE ~CallAccepted(module, callee, args)
    <3>1. AbandonFunction(module)
      BY <1>4, <2>6 DEF CallExpr
    <3>2. QED
      BY <2>1, <2>2, <2>4, <3>1, AbandonKeepsCarefulInv
  <2>7. QED
    BY <2>5, <2>6
<1>5. ASSUME NEW op \in Ops, BinaryExpr(op) PROVE CarefulInv'
  <2> DEFINE module == GetFunction(op, FunctionProtos)
  <2>1. pc = "body" /\ op \in DOMAIN FunctionProtos /\ op \in Usable
    BY <1>5 DEF BinaryExpr, SessionInv, CarefulInv
  <2>2. op \in DOMAIN module /\ FunctionProtos[op] = 2
    BY <2>1, CalleeFacts DEF CarefulInv
  <2>3. Emit(module, op, 2)
    BY <1>5, <2>2 DEF BinaryExpr
  <2>4. QED
    BY <2>1, <2>2, <2>3, EmitKeepsCarefulInv
<1>6. CASE BodyFails
  <2>1. pc = "body" /\ AbandonFunction(TheModule)
    BY <1>6 DEF BodyFails
  <2>2. /\ DOMAIN TheModule \subseteq Usable
        /\ \A m \in DOMAIN TheModule : TheModule[m].arity = FunctionProtos[m]
    BY DEF CarefulInv
  <2>3. QED
    BY <2>1, <2>2, AbandonKeepsCarefulInv
<1>7. CASE FinishFunction
  <2>1. PICK kept \in SUBSET current.calls :
          current' = [current EXCEPT !.calls = kept]
    BY <1>7 DEF FinishFunction
  <2>2. /\ pc = "body" /\ pc' = "add"
        /\ UNCHANGED <<FunctionProtos, BinopPrecedence, TheModule, MainJD>>
    BY <1>7 DEF FinishFunction
  <2>3. current'.name = current.name /\ current'.calls = kept /\ current'.ops = current.ops
    BY <2>1 DEF SessionInv, TypeOK
  <2>4. Settled' = Settled /\ Usable' = Usable /\ (Generating' <=> Generating)
    BY <2>2, <2>3 DEF Settled, Usable, Generating
  <2>5. /\ AgreeWithProtos(current.calls)'
        /\ \A c \in current'.calls : c[1] \in Usable'
    BY <2>2, <2>3, <2>4 DEF CarefulInv, AgreeWithProtos
  <2>6. QED
    BY <2>2, <2>3, <2>4, <2>5 DEF CarefulInv, AgreeWithProtos
<1>8. CASE EndOfInput \/ UNCHANGED vars
  <2>1. /\ UNCHANGED <<FunctionProtos, BinopPrecedence, TheModule, current, MainJD>>
        /\ pc' = pc \/ (pc = "prompt" /\ pc' = "ended")
    BY <1>8 DEF EndOfInput, vars
  <2>2. Settled' = Settled /\ Usable' = Usable /\ (Generating' <=> Generating)
    BY <2>1 DEF Settled, Usable, Generating
  <2>3. QED
    BY <2>1, <2>2 DEF CarefulInv, AgreeWithProtos
<1>9. QED
  BY <1>1, <1>2, <1>3, <1>4, <1>5, <1>6, <1>7, <1>8,
     AddKeepsCarefulInv, LookupKeepsCarefulInv, RemoveKeepsCarefulInv
     DEF Next

-----------------------------------------------------------------------------
(* The session of a user who defines each name once, action by action.     *)
LEMMA BeginKeepsKeepsInv ==
  ASSUME SessionInv, KeepsInv, NEW name \in Names, NEW arity \in Nat,
         name \notin Settled, BeginFunction(name, arity)
  PROVE  KeepsInv'
<1>1. /\ pc' = "body" /\ MainJD' = MainJD
      /\ FunctionProtos' = Put(FunctionProtos, name, arity)
      /\ current'.name = name /\ current'.calls = {}
  BY DEF BeginFunction
<1>2. DOMAIN FunctionProtos \subseteq DOMAIN FunctionProtos'
  BY <1>1 DEF Put
<1>3. QED
  BY <1>1, <1>2 DEF KeepsInv, HasPrototypes, Settled

LEMMA EmitKeepsKeepsInv ==
  ASSUME SessionInv, KeepsInv, pc = "body", NEW callee \in DOMAIN FunctionProtos,
         NEW args, NEW module, Emit(module, callee, args)
  PROVE  KeepsInv'
<1>1. /\ UNCHANGED <<pc, FunctionProtos, MainJD>>
      /\ current' = [current EXCEPT !.calls = @ \cup {<<callee, args>>}]
  BY DEF Emit
<1>2. /\ current'.name = current.name
      /\ current'.calls = current.calls \cup {<<callee, args>>}
  BY <1>1 DEF SessionInv, TypeOK
<1>3. QED
  BY <1>1, <1>2 DEF KeepsInv, HasPrototypes, Settled, Generating

LEMMA AbandonKeepsKeepsInv ==
  ASSUME KeepsInv, NEW module, AbandonFunction(module)
  PROVE  KeepsInv'
BY DEF AbandonFunction, RemoveFunction, NoFunction, KeepsInv, HasPrototypes, Generating

LEMMA AddKeepsKeepsInv ==
  ASSUME SessionInv, KeepsInv, AddModule PROVE KeepsInv'
<1>1. pc = "add" /\ Defined = {current.name} /\ Generating
  BY DEF AddModule, SessionInv, OneDefinition, Generating
<1>2. Defined \cap DOMAIN MainJD = {}
  BY <1>1 DEF KeepsInv, Settled
<1>3. /\ MainJD' = [m \in DOMAIN MainJD \cup Defined |->
                      IF m \in DOMAIN MainJD THEN MainJD[m]
                      ELSE [arity |-> TheModule[m].arity,
                            calls |-> current.calls]]
      /\ current' = NoFunction /\ FunctionProtos' = FunctionProtos
      /\ pc' = IF current.name = Anon THEN "lookup" ELSE "prompt"
  BY <1>2 DEF AddModule
<1>4. \A m \in DOMAIN MainJD' : HasPrototypes(MainJD'[m].calls)
  BY <1>3 DEF KeepsInv
<1>5. QED
  BY <1>3, <1>4 DEF KeepsInv, HasPrototypes, NoFunction, Generating

(* All that an expression's code needs has a prototype.                    *)
LEMMA NeededHasPrototypes ==
  ASSUME SessionInv, KeepsInv, pc = "lookup"
  PROVE  Needed \subseteq {Anon} \cup DOMAIN FunctionProtos
<1> DEFINE S == {Anon} \cup DOMAIN FunctionProtos
<1>1. S \in SUBSET Names
  BY DEF Names, SessionInv, TypeOK, Maps
<1>2. Closed(S)
  BY DEF Closed, Callees, KeepsInv, HasPrototypes
<1>3. QED
  BY <1>1, <1>2 DEF Needed

LEMMA LookupKeepsKeepsInv ==
  ASSUME SessionInv, KeepsInv, Lookup PROVE KeepsInv'
<1>1. /\ pc = "lookup" /\ current.name = Anon /\ Anon \in DOMAIN MainJD
      /\ UNCHANGED <<FunctionProtos, current>>
  BY DEF Lookup, SessionInv, KeepsInv
<1>2. CASE Needed \subseteq DOMAIN MainJD \cup ProcessSymbols
  <2>1. /\ pc' = "run"
        /\ MainJD' = [m \in DOMAIN MainJD \cup Needed |->
                        IF m \in DOMAIN MainJD THEN MainJD[m]
                        ELSE [arity |-> 1, calls |-> {}]]
    BY <1>2 DEF Lookup
  <2>2. \A m \in DOMAIN MainJD' : HasPrototypes(MainJD'[m].calls)
    BY <2>1 DEF KeepsInv, HasPrototypes
  <2>3. QED
    BY <1>1, <2>1, <2>2 DEF KeepsInv, HasPrototypes, Generating
<1>3. CASE ~(Needed \subseteq DOMAIN MainJD \cup ProcessSymbols)
  <2>1. pc' = "exited" /\ MainJD' = MainJD
    BY <1>3 DEF Lookup
  <2>2. PICK m \in Needed : m \notin DOMAIN MainJD \cup ProcessSymbols
    BY <1>3
  <2>3. m \in DOMAIN FunctionProtos \ {Anon}
    BY <1>1, <2>2, NeededHasPrototypes
  <2>4. m \in Failed
    BY <1>1, <2>2, <2>3 DEF Failed
  <2>5. Needed' = Needed /\ Failed' = Failed
    BY <1>1, <2>1 DEF Needed, Closed, Callees, Failed
  <2>6. QED
    BY <1>1, <2>1, <2>2, <2>4, <2>5 DEF KeepsInv, HasPrototypes, Generating
<1>4. QED
  BY <1>2, <1>3

LEMMA KeepsInvStep ==
  ASSUME Keeps, SessionInv, KeepsInv, [Next]_vars PROVE KeepsInv'
<1>1. ASSUME NEW name \in Functions \cup Ops, NEW arity \in 0..MaxArity,
             HandleDefinition(name, arity)
      PROVE  KeepsInv'
  <2>1. /\ name \in Names /\ arity \in Nat /\ name \notin Settled
        /\ BeginFunction(name, arity)
    BY <1>1, BoundsAssumption DEF HandleDefinition, Names, MayDefine, Settled
  <2>2. QED
    BY <2>1, BeginKeepsKeepsInv
<1>2. ASSUME NEW name \in Functions \cup Ops, NEW arity \in 0..MaxArity,
             HandleExtern(name, arity)
      PROVE  KeepsInv'
  <2>1. /\ pc = "prompt" /\ UNCHANGED <<pc, current, MainJD>>
        /\ DOMAIN FunctionProtos \subseteq DOMAIN FunctionProtos'
    BY <1>2 DEF HandleExtern, Put
  <2>2. QED
    BY <2>1 DEF KeepsInv, HasPrototypes, Generating
<1>3. CASE HandleTopLevelExpression
  <2>1. Anon \notin Settled /\ Anon \in Names
    BY <1>3, NamesAssumption
       DEF HandleTopLevelExpression, BeginFunction, SessionInv, Settled, Names
  <2>2. QED
    BY <1>3, <2>1, BeginKeepsKeepsInv DEF HandleTopLevelExpression
<1>4. ASSUME NEW callee \in Functions, NEW args \in 0..MaxArity,
             CallExpr(callee, args)
      PROVE  KeepsInv'
  <2> DEFINE module == GetFunction(callee, FunctionProtos)
  <2>1. CASE CallAccepted(module, callee, args)
    <3>1. callee \in DOMAIN FunctionProtos
      BY <2>1, CalleeFacts DEF CallAccepted
    <3>2. pc = "body" /\ Emit(module, callee, args)
      BY <1>4, <2>1 DEF CallExpr
    <3>3. QED
      BY <3>1, <3>2, EmitKeepsKeepsInv
  <2>2. CASE ~CallAccepted(module, callee, args)
    BY <1>4, <2>2, AbandonKeepsKeepsInv DEF CallExpr
  <2>3. QED
    BY <2>1, <2>2
<1>5. ASSUME NEW op \in Ops, BinaryExpr(op) PROVE KeepsInv'
  <2> DEFINE module == GetFunction(op, FunctionProtos)
  <2>1. pc = "body" /\ op \in DOMAIN FunctionProtos
    BY <1>5 DEF BinaryExpr, SessionInv
  <2>2. Emit(module, op, 2)
    BY <1>5, <2>1, CalleeFacts DEF BinaryExpr
  <2>3. QED
    BY <2>1, <2>2, EmitKeepsKeepsInv
<1>6. CASE BodyFails
  BY <1>6, AbandonKeepsKeepsInv DEF BodyFails
<1>7. CASE FinishFunction
  <2>1. PICK kept \in SUBSET current.calls :
          current' = [current EXCEPT !.calls = kept]
    BY <1>7 DEF FinishFunction
  <2>2. /\ pc = "body" /\ pc' = "add" /\ UNCHANGED <<FunctionProtos, MainJD>>
    BY <1>7 DEF FinishFunction
  <2>3. current'.name = current.name /\ current'.calls = kept
    BY <2>1 DEF SessionInv, TypeOK
  <2>4. QED
    BY <2>2, <2>3 DEF KeepsInv, HasPrototypes, Settled, Generating
<1>8. CASE RemoveExpression
  BY <1>8 DEF RemoveExpression, Without, KeepsInv, HasPrototypes, Generating
<1>9. CASE EndOfInput \/ UNCHANGED vars
  <2>1. /\ UNCHANGED <<FunctionProtos, current, MainJD>>
        /\ pc' = pc \/ (pc = "prompt" /\ pc' = "ended")
    BY <1>9 DEF EndOfInput, vars
  <2>2. Needed' = Needed /\ Failed' = Failed /\ Settled' = Settled
    BY <2>1 DEF Needed, Closed, Callees, Failed, Settled
  <2>3. QED
    BY <2>1, <2>2 DEF KeepsInv, HasPrototypes, Generating
<1>10. QED
  BY <1>1, <1>2, <1>3, <1>4, <1>5, <1>6, <1>7, <1>8, <1>9,
     AddKeepsKeepsInv, LookupKeepsKeepsInv DEF Next

(* The discipline is kept for good or not at all.                          *)
DisciplineInv ==
  /\ SessionInv /\ user \in Users
  /\ Keeps => KeepsInv
  /\ user = "careful" => CarefulInv

LEMMA DisciplineInvariant == Spec => []DisciplineInv
<1>1. Init => DisciplineInv
  <2>1. Init => CarefulInv
    BY DEF Init, CarefulInv, Generating, Usable, Settled, Empty, NoFunction,
           AgreeWithProtos
  <2>2. Init => KeepsInv
    BY DEF Init, KeepsInv, HasPrototypes, Generating, Empty, NoFunction
  <2>3. QED
    BY <2>1, <2>2, SessionInvInit DEF DisciplineInv, Init
<1>2. DisciplineInv /\ [Next]_vars => DisciplineInv'
  <2> SUFFICES ASSUME DisciplineInv, [Next]_vars PROVE DisciplineInv'
    OBVIOUS
  <2>1. SessionInv'
    BY SessionInvStep DEF DisciplineInv
  <2>2. user' = user
    BY DEF Next, vars
  <2>3. ASSUME user' = "careful" PROVE CarefulInv'
    BY <2>2, <2>3, CarefulInvStep DEF DisciplineInv
  <2>4. ASSUME Keeps' PROVE KeepsInv'
    BY <2>2, <2>4, KeepsInvStep DEF DisciplineInv, Keeps
  <2>5. QED
    BY <2>1, <2>2, <2>3, <2>4 DEF DisciplineInv
<1>3. QED
  BY <1>1, <1>2, PTL DEF Spec

(* A user who does not define a name again once he has it, and declares    *)
(* only functions of the process, loses the session in one way only: by    *)
(* calling a function whose definition has failed.  Whatever else fails,   *)
(* one who does not call such a function never loses it.                   *)
THEOREM DisciplinedSessionSurvives == Spec => []SessionSurvives
<1>1. DisciplineInv => SessionSurvives
  BY UsersAssumption
     DEF DisciplineInv, Keeps, CarefulInv, KeepsInv, SessionSurvives
<1>2. QED
  BY <1>1, DisciplineInvariant, PTL

(* No code of a careful user passes the wrong number of arguments.         *)
THEOREM CarefulArgumentsMatch == Spec => []ArgumentsMatch
<1>1. CarefulInv => ArgumentsAgree
  BY DEF CarefulInv, ArgumentsAgree, AgreeWithProtos
<1>2. DisciplineInv => ArgumentsMatch
  BY <1>1 DEF DisciplineInv, ArgumentsMatch
<1>3. QED
  BY <1>2, DisciplineInvariant, PTL

-----------------------------------------------------------------------------
(* No step touches what the JIT holds, but for the expression.             *)
LEMMA StepKeepsDefinitions ==
  ASSUME [Next]_vars, NEW m \in DOMAIN MainJD \ {Anon}
  PROVE  m \in DOMAIN MainJD' /\ MainJD'[m] = MainJD[m]
<1>1. CASE UNCHANGED MainJD
  BY <1>1
<1>2. CASE AddModule
  BY <1>1, <1>2 DEF AddModule
<1>3. CASE Lookup
  BY <1>1, <1>3 DEF Lookup
<1>4. CASE RemoveExpression
  BY <1>4 DEF RemoveExpression, Without
<1>5. ASSUME NEW callee, NEW args, CallExpr(callee, args) PROVE UNCHANGED MainJD
  BY <1>5 DEF CallExpr, Emit, AbandonFunction
<1>6. QED
  BY <1>1, <1>2, <1>3, <1>4, <1>5
     DEF Next, vars, HandleDefinition, HandleExtern, HandleTopLevelExpression, BeginFunction,
         BinaryExpr, Emit, BodyFails, AbandonFunction, FinishFunction, EndOfInput

(* Once the JIT has a function it keeps it: neither a failed definition of *)
(* the same name nor the removal of an expression takes it away.           *)
THEOREM DefinitionsAlwaysStay == Spec => DefinitionsStay
<1>1. [Next]_vars => [\A m \in DOMAIN MainJD \ {Anon} :
                        m \in DOMAIN MainJD' /\ MainJD'[m] = MainJD[m]]_vars
  BY StepKeepsDefinitions
<1>2. QED
  BY <1>1, PTL DEF Spec, DefinitionsStay

-----------------------------------------------------------------------------
(* The symbol table (Scoping).                                                *)
(* A list of names of ScopingNext is a sequence of names.                         *)
LEMMA NameListsAreSequences ==
  ASSUME NEW names \in NameLists
  PROVE  names \in Seq(Vars)
  BY ScopingAssumption DEF NameLists

(* Binding the arguments gives a table.                                    *)
LEMMA ArgTableType ==
  ASSUME NEW params \in Seq(Vars), NEW from \in Nat
  PROVE  ArgTable(params, from) \in Tables
<1>1. SUFFICES ASSUME NEW v \in Vars, \E k \in DOMAIN params : params[k] = v
               PROVE  from + (CHOOSE k \in DOMAIN params : params[k] = v) \in Nat
  BY DEF ArgTable, Tables
<1>2. (CHOOSE k \in DOMAIN params : params[k] = v) \in DOMAIN params
  BY <1>1
<1>3. DOMAIN params \subseteq Nat
  BY DOMAIN params = 1..Len(params), LenProperties
<1> QED
  BY <1>2, <1>3

(* The innermost frame of a non-empty stack.                               *)
LEMMA TopIsFrame ==
  ASSUME NEW STATE stack, stack \in Seq(Frame), stack # <<>>
  PROVE  /\ Len(stack) \in Nat /\ Len(stack) >= 1
         /\ stack[Len(stack)] \in Frame
<1>1. Len(stack) \in Nat /\ Len(stack) # 0
  BY EmptySeq, LenProperties
<1> QED
  BY <1>1, ElementOfSeq

(* The for or var expression that is done puts back the table it began     *)
(* with, up to the names listed twice, if it has bound all of its names    *)
(* and none of its parts has failed.                                       *)
LEMMA RestoredIsBefore ==
  ASSUME NEW STATE frame, frame \in Frame, NEW STATE table, table \in Tables,
         FrameOK(frame, table, FALSE), Len(frame.old) = Len(frame.names)
  PROVE  /\ Restored(table, frame) \in Tables
         /\ \A v \in Vars \ repeated : Restored(table, frame)[v] = frame.before[v]
<1> DEFINE last(v) == {k \in 1..Bound(frame) :
                          frame.names[k] = v /\
                          \A j \in k + 1 .. Bound(frame) : frame.names[j] # v}
<1>1. /\ frame.names \in Seq(Vars) /\ frame.old \in Seq(Nat)
      /\ frame.before \in [Vars -> Nat] /\ Bound(frame) \in Nat
      /\ DOMAIN frame.names = 1..Bound(frame) /\ Bound(frame) = Len(frame.old)
  BY LenProperties DEF Frame, Tables, Bound
<1>2. Restored(table, frame)
        = [v \in Vars |-> IF last(v) = {} THEN table[v]
                         ELSE frame.old[CHOOSE k \in last(v) : TRUE]]
  BY DEF Restored
<1>3. ASSUME NEW v \in Vars, last(v) # {}
      PROVE  /\ (CHOOSE k \in last(v) : TRUE) \in last(v)
             /\ (CHOOSE k \in last(v) : TRUE) \in 1..Bound(frame)
             /\ frame.names[CHOOSE k \in last(v) : TRUE] = v
  <2>1. (CHOOSE k \in last(v) : TRUE) \in last(v)
    BY <1>3
  <2> QED
    BY <2>1
<1>4. ASSUME NEW v \in Vars \ repeated
      PROVE  (IF last(v) = {} THEN table[v] ELSE frame.old[CHOOSE k \in last(v) : TRUE])
               = frame.before[v]
  <2>1. CASE last(v) = {}
    <3>1. ASSUME NEW k \in 1..Bound(frame), frame.names[k] = v PROVE FALSE
      <4>1. v \notin ListedTwice(frame.names)
        BY DEF FrameOK
      <4>2. \A j \in k + 1 .. Bound(frame) : frame.names[j] # v
        <5> SUFFICES ASSUME NEW j \in k + 1 .. Bound(frame), frame.names[j] = v PROVE FALSE
          OBVIOUS
        <5>1. j \in DOMAIN frame.names /\ k \in DOMAIN frame.names /\ j # k
          BY <1>1
        <5> QED
          BY <3>1, <4>1, <5>1 DEF ListedTwice
      <4> QED
        BY <2>1, <3>1, <4>2
    <3> QED
      BY <2>1, <3>1 DEF FrameOK
  <2>2. CASE last(v) # {}
    <3> DEFINE k == CHOOSE k \in last(v) : TRUE
    <3>1. k \in 1..Bound(frame) /\ frame.names[k] = v
      BY <1>3, <2>2
    <3> HIDE DEF k
    <3>2. frame.old[k] = frame.before[v]
      BY <3>1 DEF FrameOK
    <3> QED
      BY <3>2, <2>2 DEF k
  <2> QED
    BY <2>1, <2>2
<1>5. ASSUME NEW v \in Vars
      PROVE  (IF last(v) = {} THEN table[v] ELSE frame.old[CHOOSE k \in last(v) : TRUE]) \in Nat
  <2>1. CASE last(v) = {}
    BY <2>1 DEF Tables
  <2>2. CASE last(v) # {}
    BY <1>1, <1>3, <2>2, ElementOfSeq
  <2> QED
    BY <2>1, <2>2
<1> HIDE DEF last
<1> QED
  BY <1>2, <1>4, <1>5 DEF Tables

-----------------------------------------------------------------------------
(* The table that the expression at the top of a stack leaves to the one   *)
(* below it.                                                               *)
LEMMA TableAfterType ==
  ASSUME TablesOK, NEW k \in 0..Len(frames)
  PROVE  TableAfter(k) \in Tables
<1>1. Len(frames) \in Nat /\ frames \in Seq(Frame)
  BY LenProperties DEF TablesOK
<1>2. CASE k = Len(frames)
  BY <1>2 DEF TableAfter, TablesOK
<1>3. CASE k # Len(frames)
  <2>1. k + 1 \in 1..Len(frames)
    BY <1>1, <1>3
  <2>2. frames[k + 1] \in Frame
    BY <1>1, <2>1, ElementOfSeq
  <2> QED
    BY <1>3, <2>2 DEF TableAfter, Frame
<1> QED
  BY <1>2, <1>3

(* Initially nothing is bound and nothing is being generated.              *)
LEMMA InitScopeInv == ScopingInit => ScopeInv
<1> SUFFICES ASSUME ScopingInit PROVE ScopeInv
  OBVIOUS
<1>1. TablesOK
  BY EmptySeq DEF ScopingInit, TablesOK, Tables
<1>2. Len(frames) = 0
  BY EmptySeq DEF ScopingInit
<1> QED
  BY <1>1, <1>2 DEF ScopingInit, ScopeInv

(* BeginBody: the table holds the arguments and nothing else.          *)
LEMMA BeginFunctionInv ==
  ASSUME ScopeInv, NEW params \in NameLists, BeginBody(params)
  PROVE  ScopeInv'
<1> USE DEF BeginBody, BeginWith
<1>1. params \in Seq(Vars) /\ Len(params) \in Nat
  BY NameListsAreSequences, LenProperties
<1>2. frames = <<>> /\ Len(frames) = 0 /\ frames' = frames
  BY EmptySeq DEF ScopeInv
<1>3. TablesOK'
  BY <1>1, <1>2, ArgTableType DEF ScopeInv, TablesOK
<1>4. TableAfter(0)' = ArgTable(arguments, first)'
  BY <1>2 DEF TableAfter, ArgTable, BeginWith
<1> QED
  BY <1>2, <1>3, <1>4 DEF ScopeInv

(* FinishBody and AbandonBody: nothing is being generated any more.      *)
LEMMA EndFunctionInv ==
  ASSUME ScopeInv, EndBody
  PROVE  ScopeInv'
<1>1. /\ generating' = FALSE /\ frames = <<>> /\ frames' = <<>> /\ failed' = {}
      /\ UNCHANGED <<arguments, first, allocas, NamedValues, repeated>>
  BY DEF EndBody
<1>2. TablesOK'
  BY <1>1, EmptySeq DEF ScopeInv, TablesOK
<1>3. Len(frames') = 0
  BY <1>1, EmptySeq
<1> QED
  BY <1>1, <1>2, <1>3 DEF ScopeInv

(* OperandFails: less is said of the part it is in.                        *)
LEMMA OperandFailsInv ==
  ASSUME ScopeInv, OperandFails
  PROVE  ScopeInv'
<1>1. /\ generating /\ failed' = failed \cup {Len(frames)}
      /\ UNCHANGED <<generating, arguments, first, allocas, NamedValues, frames, repeated>>
  BY DEF OperandFails, Here
<1>2. Len(frames) \in Nat
  BY LenProperties DEF ScopeInv, TablesOK
<1>3. TablesOK'
  <2>1. Len(frames) \in 0..Len(frames)
    BY <1>2
  <2>2. failed' \subseteq 0..Len(frames)
    BY <1>1, <2>1 DEF ScopeInv, TablesOK
  <2> QED
    BY <1>1, <2>2 DEF ScopeInv, TablesOK
<1>4. \A k \in 0..Len(frames) : TableAfter(k)' = TableAfter(k)
  BY <1>1 DEF TableAfter
<1>5. ASSUME NEW k \in 1..Len(frames)
      PROVE  FrameOK(frames[k], TableAfter(k), k \in failed)'
  <2>1. FrameOK(frames[k], TableAfter(k), k \in failed)
    BY DEF ScopeInv
  <2>2. TableAfter(k)' = TableAfter(k)
    BY <1>4
  <2> QED
    BY <2>1, <2>2, <1>1 DEF FrameOK, ListedTwice, Bound
<1>6. 0 \notin failed' =>
        \A v \in Vars \ repeated : TableAfter(0)[v] = ArgTable(arguments, first)[v]
  BY <1>1 DEF ScopeInv
<1>7. TableAfter(0)' = TableAfter(0)
  BY <1>2, <1>4
<1> QED
  BY <1>1, <1>3, <1>5, <1>6, <1>7 DEF ScopeInv, ArgTable

(* What is left of a stack without its innermost frame, over the table     *)
(* that frame leaves.                                                      *)
LEMMA PoppedStack ==
  ASSUME ScopeInv, frames # <<>>, frames' = Pop(frames),
         NEW depth \in Nat, depth = Len(frames)
  PROVE  /\ frames' \in Seq(Frame) /\ depth >= 1 /\ Len(frames') = depth - 1
         /\ \A k \in 1..(depth - 1) : frames'[k] = frames[k]
         /\ \A k \in 0..(depth - 2) : TableAfter(k)' = TableAfter(k)
         /\ TableAfter(depth - 1) = Top.before
         /\ TableAfter(depth - 1)' = NamedValues'
<1>1. depth = Len(frames)
  OBVIOUS
<1>2. frames \in Seq(Frame) /\ depth >= 1
  BY <1>1, TopIsFrame DEF ScopeInv, TablesOK
<1>3. /\ frames' \in Seq(Frame) /\ Len(frames') = depth - 1
      /\ \A k \in 1..(depth - 1) : frames'[k] = frames[k]
  <2>1. \A k \in 1..(depth - 1) : frames[k] \in Frame
    BY <1>1, <1>2, ElementOfSeq
  <2> QED
    BY <1>1, <1>2, <2>1, SubSeqProperties DEF Pop
<1>4. ASSUME NEW k \in 0..(depth - 2) PROVE TableAfter(k)' = TableAfter(k)
  <2>1. k + 1 \in 1..(depth - 1) /\ k # Len(frames) /\ k # Len(frames')
    BY <1>1, <1>2, <1>3
  <2> QED
    BY <2>1, <1>3 DEF TableAfter
<1>5. /\ TableAfter(depth - 1) = Top.before
      /\ TableAfter(depth - 1)' = NamedValues'
  BY <1>1, <1>2, <1>3 DEF TableAfter, Top
<1> QED
  BY <1>1, <1>2, <1>3, <1>4, <1>5

(* ReturnNull: the expression around the one that failed has failed too.   *)
LEMMA ReturnNullInv ==
  ASSUME ScopeInv, ReturnNull
  PROVE  ScopeInv'
<1>1. /\ generating /\ frames # <<>> /\ frames' = Pop(frames)
      /\ failed' = (failed \ {Len(frames)}) \cup {Len(frames) - 1}
      /\ UNCHANGED <<generating, arguments, first, allocas, NamedValues, repeated>>
  BY DEF ReturnNull, Here
<1>2. PICK depth \in Nat : depth = Len(frames)
  BY LenProperties DEF ScopeInv, TablesOK
<1>3. /\ frames' \in Seq(Frame) /\ depth # 0 /\ Len(frames') = depth - 1
      /\ \A k \in 1..(depth - 1) : frames'[k] = frames[k]
      /\ \A k \in 0..(depth - 2) : TableAfter(k)' = TableAfter(k)
  BY <1>1, <1>2, PoppedStack
<1>4. failed \subseteq 0..depth
  BY <1>2 DEF ScopeInv, TablesOK
<1>5. failed' \subseteq 0..(depth - 1)
  <2>1. \A k \in failed' : k = depth - 1 \/ (k \in failed /\ k # depth)
    BY <1>1, <1>2
  <2>2. \A k \in failed : k \in 0..depth
    BY <1>4
  <2> QED
    BY <2>1, <2>2, <1>3
<1>6. TablesOK'
  BY <1>1, <1>3, <1>5 DEF ScopeInv, TablesOK
<1>7. ASSUME NEW k \in 1..(depth - 1)
      PROVE  FrameOK(frames[k], TableAfter(k), k \in failed)'
  <2>1. FrameOK(frames[k], TableAfter(k), k \in failed)
    BY <1>2, <1>3 DEF ScopeInv
  <2>2. frames'[k] = frames[k]
    BY <1>3
  <2>3. CASE k = depth - 1
    BY <2>1, <2>2, <2>3, <1>1, <1>2 DEF FrameOK, ListedTwice, Bound
  <2>4. CASE k # depth - 1
    <3>1. k \in 0..(depth - 2) /\ (k \in failed => k \in failed')
      BY <2>4, <1>1, <1>2
    <3>2. TableAfter(k)' = TableAfter(k)
      BY <3>1, <1>3
    <3> QED
      BY <3>1, <3>2, <2>1, <2>2, <1>1 DEF FrameOK, ListedTwice, Bound
  <2> QED
    BY <2>3, <2>4
<1>8. 0 \notin failed' =>
        \A v \in Vars \ repeated : TableAfter(0)[v]' = ArgTable(arguments, first)[v]
  <2> SUFFICES ASSUME 0 \notin failed'
               PROVE  \A v \in Vars \ repeated :
                        TableAfter(0)[v]' = ArgTable(arguments, first)[v]
    OBVIOUS
  <2>1. depth # 1 /\ 0 \notin failed
    BY <1>1, <1>2
  <2>2. TableAfter(0)' = TableAfter(0)
    BY <2>1, <1>3
  <2> QED
    BY <2>1, <2>2, <1>1 DEF ScopeInv
<1> QED
  BY <1>1, <1>3, <1>6, <1>7, <1>8 DEF ScopeInv, ArgTable

(* A new innermost expression, with nothing bound, leaves the tables of    *)
(* the expressions around it as they are.                                  *)
LEMMA BeginInv ==
  ASSUME ScopeInv, NEW kind \in {"for", "var"},
         NEW names \in Seq(Vars), NEW alloca \in Nat,
         Begin(kind, names, alloca), allocas' \in Nat,
         repeated' = repeated \cup ListedTwice(names)
  PROVE  ScopeInv'
<1> DEFINE new == [kind |-> kind, names |-> names, old |-> <<>>,
                   alloca |-> alloca, before |-> NamedValues]
<1>0. PICK depth \in Nat : depth = Len(frames)
  BY LenProperties DEF ScopeInv, TablesOK
<1>1. /\ frames \in Seq(Frame) /\ depth = Len(frames) /\ NamedValues \in Tables
      /\ <<>> \in Seq(Nat) /\ Len(<<>>) = 0
  BY <1>0, EmptySeq DEF ScopeInv, TablesOK
<1>2. new \in Frame
  BY <1>1 DEF Frame
<1>3. /\ frames' = Append(frames, new) /\ generating
      /\ UNCHANGED <<generating, arguments, first, NamedValues, failed>>
  BY DEF Begin
<1> HIDE DEF new
<1>4. /\ frames' \in Seq(Frame) /\ Len(frames') = depth + 1
      /\ \A k \in 1..depth : frames'[k] = frames[k]
      /\ frames'[depth + 1] = new
  BY <1>1, <1>2, <1>3, AppendProperties
<1>5. TablesOK'
  <2>1. failed' \subseteq 0..(depth + 1)
    BY <1>0, <1>3 DEF ScopeInv, TablesOK
  <2>2. repeated' \subseteq Vars
    BY DEF ScopeInv, TablesOK, ListedTwice
  <2> QED
    BY <2>1, <2>2, <1>3, <1>4 DEF ScopeInv, TablesOK
<1>6. new.before = NamedValues /\ new.names = names /\ new.old = <<>>
  BY DEF new
<1>7. \A k \in 0..depth : TableAfter(k)' = TableAfter(k)
  BY <1>1, <1>3, <1>4, <1>6 DEF TableAfter
<1>8. TableAfter(depth + 1)' = NamedValues
  BY <1>3, <1>4 DEF TableAfter
<1>9. ASSUME NEW k \in 1..Len(frames')
      PROVE  FrameOK(frames[k], TableAfter(k), k \in failed)'
  <2>1. CASE k \in 1..depth
    <3>1. FrameOK(frames[k], TableAfter(k), k \in failed)
      BY <2>1, <1>1 DEF ScopeInv
    <3>2. /\ frames[k]' = frames[k] /\ TableAfter(k)' = TableAfter(k)
          /\ failed' = failed /\ repeated \subseteq repeated'
      BY <2>1, <1>3, <1>4, <1>7
    <3> QED
      BY <3>1, <3>2 DEF FrameOK, ListedTwice, Bound
  <2>2. CASE k = depth + 1
    <3>1. Len(new.names) \in Nat
      BY <1>6, LenProperties
    <3>2. frames[k]' = new /\ TableAfter(k)' = NamedValues /\ NamedValues' = NamedValues
      BY <2>2, <1>3, <1>4, <1>8
    <3>3. ListedTwice(new.names) \subseteq repeated' /\ Bound(new) = 0
      BY <1>1, <1>6 DEF Bound
    <3> QED
      BY <3>1, <3>2, <3>3, <1>6 DEF FrameOK, ListedTwice, Bound
  <2> QED
    BY <1>1, <1>4, <2>1, <2>2
<1>10. 0 \notin failed' =>
         \A v \in Vars \ repeated' : TableAfter(0)[v]' = ArgTable(arguments, first)[v]
  <2>1. TableAfter(0)' = TableAfter(0)
    BY <1>7
  <2> QED
    BY <2>1, <1>3 DEF ScopeInv
<1> QED
  BY <1>3, <1>5, <1>9, <1>10 DEF ScopeInv, ArgTable

(* Binding the next name of the innermost expression: what it hides is     *)
(* what the expression found, because the name was not bound before, or is *)
(* listed twice.                                                           *)
LEMMA BindInv ==
  ASSUME ScopeInv, Succeeded, ~AllBound,
         NEW alloca \in Nat, Bind(alloca), allocas' \in Nat
  PROVE  ScopeInv'
<1>0. generating /\ frames # <<>>
  BY DEF Succeeded
<1>1. PICK depth \in Nat : depth = Len(frames) /\ depth \notin failed
  BY LenProperties DEF ScopeInv, TablesOK, Succeeded, Here
<1>2. /\ frames \in Seq(Frame) /\ depth >= 1
      /\ DOMAIN frames = 1..depth /\ NamedValues \in Tables
  BY <1>0, <1>1, TopIsFrame, LenProperties DEF ScopeInv, TablesOK
<1>3. PICK top \in Frame : top = frames[depth]
  BY <1>0, <1>1, <1>2, TopIsFrame
<1>4. PICK b \in Nat : b = Len(top.old)
  BY <1>3, LenProperties DEF Frame
<1>5. FrameOK(top, NamedValues, FALSE)
  <2>1. FrameOK(frames[depth], TableAfter(depth), depth \in failed)
    BY <1>1, <1>2 DEF ScopeInv
  <2> QED
    BY <2>1, <1>1, <1>3 DEF TableAfter, FrameOK
<1>6. /\ Len(top.names) \in Nat /\ DOMAIN top.names = 1..Len(top.names)
      /\ b + 1 \in 1..Len(top.names)
  <2>1. b # Len(top.names)
    BY <1>1, <1>3, <1>4 DEF AllBound, Bound, Top
  <2>2. Len(top.names) \in Nat /\ DOMAIN top.names = 1..Len(top.names)
    BY <1>3, LenProperties DEF Frame
  <2>3. b <= Len(top.names)
    BY <1>4, <1>5 DEF FrameOK, Bound
  <2> QED
    BY <1>4, <2>1, <2>2, <2>3
<1>7. PICK name \in Vars : name = top.names[b + 1]
  BY <1>3, <1>6, ElementOfSeq DEF Frame
<1>8. NamedValues[name] \in Nat /\ top.old \in Seq(Nat)
  BY <1>2, <1>3, <1>7 DEF Tables, Frame
<1>9. PICK old \in Seq(Nat) : old = Append(top.old, NamedValues[name])
  BY <1>8, AppendProperties
<1>10. /\ Len(old) = b + 1 /\ old[b + 1] = NamedValues[name]
       /\ \A k \in 1..b : old[k] = top.old[k]
  BY <1>4, <1>8, <1>9, AppendProperties
<1>11. PICK new \in Frame : new = [top EXCEPT !.old = old]
  BY <1>3, <1>9 DEF Frame
<1>12. /\ new.names = top.names /\ new.before = top.before /\ new.old = old
  BY <1>3, <1>11 DEF Frame
<1>13. /\ frames' = [frames EXCEPT ![depth] = new]
       /\ NamedValues' = [NamedValues EXCEPT ![name] = alloca]
       /\ UNCHANGED <<generating, arguments, first, failed, repeated>>
  BY <1>1, <1>3, <1>4, <1>7, <1>9, <1>11 DEF Bind, Bound, Top
<1>14. /\ frames' \in Seq(Frame) /\ Len(frames') = depth
       /\ frames'[depth] = new
       /\ \A k \in 1..depth : k # depth => frames'[k] = frames[k]
  BY <1>1, <1>2, <1>13, ExceptSeq
<1>15. NamedValues' \in Tables
  BY <1>2, <1>13 DEF Tables
<1>16. TablesOK'
  BY <1>1, <1>13, <1>14, <1>15 DEF ScopeInv, TablesOK
<1>17. \A k \in 0..depth : k # depth => TableAfter(k)' = TableAfter(k)
  <2> SUFFICES ASSUME NEW k \in 0..depth, k # depth
               PROVE  TableAfter(k)' = TableAfter(k)
    OBVIOUS
  <2>1. k + 1 \in 1..depth /\ k # Len(frames) /\ k # Len(frames')
    BY <1>1, <1>2, <1>14
  <2>2. frames'[k + 1].before = frames[k + 1].before
    BY <2>1, <1>3, <1>12, <1>14
  <2> QED
    BY <2>1, <2>2 DEF TableAfter
<1>18. /\ ListedTwice(new.names) \subseteq repeated /\ Bound(new) <= Len(new.names)
       /\ \A k \in 1..Bound(new) : new.names[k] \notin repeated =>
            new.old[k] = new.before[new.names[k]]
       /\ \A v \in Vars \ repeated :
            (\A k \in 1..Bound(new) : new.names[k] # v) => NamedValues'[v] = new.before[v]
  <2>0. \A j, k \in 1..Len(top.names) :
          top.names[j] = top.names[k] /\ top.names[k] \in Vars \ repeated => j = k
    BY <1>5, <1>6 DEF FrameOK, ListedTwice
  <2>1. name \notin repeated => \A k \in 1..b : top.names[k] # name
    BY <1>6, <1>7, <2>0
  <2>2. name \notin repeated => NamedValues[name] = top.before[name]
    BY <1>4, <1>5, <1>7, <2>1 DEF FrameOK, Bound
  <2>3. /\ ListedTwice(new.names) \subseteq repeated /\ Len(new.old) <= Len(new.names)
        /\ Bound(new) = b + 1
    BY <1>5, <1>6, <1>10, <1>12 DEF FrameOK, Bound
  <2>4. \A k \in 1..(b + 1) : new.names[k] \notin repeated =>
          new.old[k] = new.before[new.names[k]]
    <3>1. ASSUME NEW k \in 1..b, new.names[k] \notin repeated
          PROVE  new.old[k] = new.before[new.names[k]]
      BY <1>4, <1>5, <1>10, <1>12, <3>1 DEF FrameOK, Bound
    <3>2. new.names[b + 1] \notin repeated => new.old[b + 1] = new.before[new.names[b + 1]]
      BY <1>7, <1>10, <1>12, <2>2
    <3>3. \A k \in 1..(b + 1) : k \in 1..b \/ k = b + 1
      BY <1>4
    <3> QED
      BY <3>1, <3>2, <3>3
  <2>5. ASSUME NEW v \in Vars \ repeated, \A k \in 1..(b + 1) : new.names[k] # v
        PROVE  NamedValues'[v] = new.before[v]
    <3>1. v # name /\ \A k \in 1..b : top.names[k] # v
      <4>1. b + 1 \in 1..(b + 1) /\ \A k \in 1..b : k \in 1..(b + 1)
        BY <1>4
      <4> QED
        BY <1>7, <1>12, <2>5, <4>1
    <3>2. NamedValues'[v] = NamedValues[v]
      BY <3>1, <1>2, <1>13 DEF Tables
    <3> QED
      BY <3>1, <3>2, <1>4, <1>5, <1>12 DEF FrameOK, Bound
  <2> QED
    BY <2>3, <2>4, <2>5 DEF Bound
<1>19. ASSUME NEW k \in 1..depth PROVE FrameOK(frames[k], TableAfter(k), k \in failed)'
  <2>1. CASE k = depth
    <3>1. frames'[k] = new /\ TableAfter(k)' = NamedValues' /\ repeated' = repeated
      BY <2>1, <1>13, <1>14 DEF TableAfter
    <3> QED
      BY <3>1, <1>18 DEF FrameOK, ListedTwice, Bound
  <2>2. CASE k # depth
    <3>1. FrameOK(frames[k], TableAfter(k), k \in failed)
      BY <1>1 DEF ScopeInv
    <3>2. /\ frames[k]' = frames[k] /\ TableAfter(k)' = TableAfter(k)
          /\ failed' = failed /\ repeated' = repeated
      BY <2>2, <1>13, <1>14, <1>17
    <3> QED
      BY <3>1, <3>2 DEF FrameOK, ListedTwice, Bound
  <2> QED
    BY <2>1, <2>2
<1>20. 0 \notin failed =>
         \A v \in Vars \ repeated : TableAfter(0)[v]' = ArgTable(arguments, first)[v]
  <2>1. TableAfter(0)' = TableAfter(0)
    BY <1>2, <1>17
  <2> QED
    BY <2>1, <1>0 DEF ScopeInv
<1>21. generating' /\ 0 \notin failed' =>
         \A v \in Vars \ repeated' : TableAfter(0)[v]' = ArgTable(arguments', first')[v]
  BY <1>13, <1>20
<1> QED
  BY <1>0, <1>1, <1>13, <1>14, <1>16, <1>19, <1>21 DEF ScopeInv, ArgTable

(* The end of an expression: the table is the one it began with, which is  *)
(* what the expression around it had.                                      *)
LEMMA EndExprInv ==
  ASSUME ScopeInv, EndExpr
  PROVE  ScopeInv' /\ \A v \in Vars \ repeated : NamedValues'[v] = Top.before[v]
<1>1. PICK depth \in Nat : depth = Len(frames) /\ depth \notin failed
  BY LenProperties DEF ScopeInv, TablesOK, EndExpr, Succeeded, Here
<1>2. /\ frames \in Seq(Frame) /\ depth >= 1 /\ NamedValues \in Tables
      /\ Top \in Frame /\ Top = frames[depth] /\ frames # <<>> /\ generating
  BY <1>1, TopIsFrame DEF ScopeInv, TablesOK, EndExpr, Succeeded, Top
<1>3. FrameOK(Top, NamedValues, FALSE)
  <2>1. FrameOK(frames[depth], TableAfter(depth), depth \in failed)
    BY <1>1, <1>2 DEF ScopeInv
  <2> QED
    BY <2>1, <1>1, <1>2 DEF TableAfter, FrameOK
<1>4. /\ NamedValues' = Restored(NamedValues, Top)
      /\ frames' = Pop(frames)
      /\ Len(Top.old) = Len(Top.names)
      /\ UNCHANGED <<generating, arguments, first, allocas, failed, repeated>>
  BY <1>1 DEF EndExpr, AllBound, Bound
<1>5. /\ NamedValues' \in Tables
      /\ \A v \in Vars \ repeated : NamedValues'[v] = Top.before[v]
  BY <1>2, <1>3, <1>4, RestoredIsBefore
<1>6. /\ frames' \in Seq(Frame) /\ Len(frames') = depth - 1
      /\ \A k \in 1..(depth - 1) : frames'[k] = frames[k]
      /\ \A k \in 0..(depth - 2) : TableAfter(k)' = TableAfter(k)
      /\ TableAfter(depth - 1) = Top.before
      /\ TableAfter(depth - 1)' = NamedValues'
  BY <1>1, <1>2, <1>4, PoppedStack
<1>7. TablesOK'
  <2>1. failed \subseteq 0..(depth - 1)
    BY <1>1, <1>2 DEF ScopeInv, TablesOK
  <2> QED
    BY <2>1, <1>4, <1>5, <1>6 DEF ScopeInv, TablesOK
<1>8. \A k \in 0..(depth - 1) : \A v \in Vars \ repeated :
        TableAfter(k)[v]' = TableAfter(k)[v]
  <2> SUFFICES ASSUME NEW k \in 0..(depth - 1), NEW v \in Vars \ repeated
               PROVE  TableAfter(k)[v]' = TableAfter(k)[v]
    OBVIOUS
  <2>1. k = depth - 1 \/ k \in 0..(depth - 2)
    BY <1>2
  <2> QED
    BY <2>1, <1>5, <1>6
<1>9. ASSUME NEW k \in 1..(depth - 1)
      PROVE  FrameOK(frames[k], TableAfter(k), k \in failed)'
  <2>1. FrameOK(frames[k], TableAfter(k), k \in failed)
    BY <1>1, <1>2 DEF ScopeInv
  <2>2. \A v \in Vars \ repeated : TableAfter(k)[v]' = TableAfter(k)[v]
    BY <1>2, <1>8
  <2>3. frames[k]' = frames[k] /\ failed' = failed /\ repeated' = repeated
    BY <1>4, <1>6
  <2> QED
    BY <2>1, <2>2, <2>3 DEF FrameOK, ListedTwice, Bound
<1>10. 0 \notin failed =>
         \A v \in Vars \ repeated : TableAfter(0)[v]' = ArgTable(arguments, first)[v]
  <2>1. \A v \in Vars \ repeated : TableAfter(0)[v]' = TableAfter(0)[v]
    BY <1>2, <1>8
  <2> QED
    BY <2>1, <1>2 DEF ScopeInv
<1> QED
  BY <1>2, <1>4, <1>5, <1>6, <1>7, <1>9, <1>10 DEF ScopeInv, ArgTable

-----------------------------------------------------------------------------
(* Every step keeps the invariant.                                         *)
LEMMA NextScopeInv ==
  ASSUME ScopeInv, [ScopingNext]_scopingVars
  PROVE  ScopeInv'
<1>1. ASSUME NEW params \in NameLists, BeginBody(params) PROVE ScopeInv'
  BY <1>1, BeginFunctionInv
<1>2. CASE FinishBody \/ AbandonBody \/ OperandFails \/ ReturnNull
  BY <1>2, EndFunctionInv, OperandFailsInv, ReturnNullInv DEF FinishBody, AbandonBody
<1>3. ASSUME NEW name \in Vars, BeginFor(name) PROVE ScopeInv'
  <2>1. allocas \in Nat
    BY DEF ScopeInv, TablesOK
  <2>2. <<name>> \in Seq(Vars) /\ ListedTwice(<<name>>) = {}
    BY DEF ListedTwice
  <2>3. PICK names \in Seq(Vars) : names = <<name>>
    BY <2>2
  <2>4. PICK alloca \in Nat : alloca = allocas + 1
    BY <2>1
  <2>5. /\ Begin("for", names, alloca) /\ allocas' \in Nat
        /\ repeated' = repeated \cup ListedTwice(names)
    BY <1>3, <2>2, <2>3, <2>4 DEF BeginFor
  <2> QED
    BY <2>5, BeginInv
<1>4. ASSUME NEW names \in NameLists, BeginVar(names)
      PROVE  ScopeInv'
  <2>1. allocas \in Nat /\ names \in Seq(Vars)
    BY NameListsAreSequences DEF ScopeInv, TablesOK
  <2> QED
    BY <1>4, <2>1, BeginInv DEF BeginVar
<1>5. CASE EnterLoop
  <2>1. /\ frames \in Seq(Frame) /\ frames # <<>> /\ Succeeded
        /\ allocas \in Nat
    BY <1>5 DEF EnterLoop, Inside, Succeeded, ScopeInv, TablesOK
  <2>2. Top.alloca \in Nat
    BY <2>1, TopIsFrame DEF Top, Frame
  <2>3. PICK alloca \in Nat : alloca = Top.alloca
    BY <2>2
  <2>4. Bind(alloca) /\ ~AllBound /\ allocas' \in Nat
    BY <1>5, <2>1, <2>3 DEF EnterLoop, Bind
  <2> QED
    BY <2>1, <2>4, BindInv
<1>6. CASE BindVar
  <2>1. Succeeded /\ allocas \in Nat
    BY <1>6 DEF BindVar, Inside, ScopeInv, TablesOK
  <2>2. PICK alloca \in Nat : alloca = allocas + 1
    BY <2>1
  <2>3. Bind(alloca) /\ ~AllBound /\ allocas' \in Nat
    BY <1>6, <2>1, <2>2 DEF BindVar, Bind
  <2> QED
    BY <2>1, <2>3, BindInv
<1>7. CASE EndExpr
  BY <1>7, EndExprInv
<1>8. CASE UNCHANGED scopingVars
  <2>1. UNCHANGED <<generating, arguments, first, allocas, NamedValues, frames,
                    failed, repeated>>
    BY <1>8 DEF scopingVars
  <2>2. TablesOK'
    BY <2>1 DEF ScopeInv, TablesOK
  <2>3. \A k \in Nat : TableAfter(k)' = TableAfter(k)
    BY <2>1 DEF TableAfter
  <2>4. Len(frames) \in Nat
    BY LenProperties DEF ScopeInv, TablesOK
  <2>5. generating /\ 0 \notin failed =>
          \A v \in Vars \ repeated : TableAfter(0)[v]' = ArgTable(arguments, first)[v]
    BY <2>3 DEF ScopeInv
  <2>6. ASSUME NEW k \in 1..Len(frames)
        PROVE  FrameOK(frames[k], TableAfter(k), k \in failed)'
    <3>1. FrameOK(frames[k], TableAfter(k), k \in failed)
      BY DEF ScopeInv
    <3>2. frames[k]' = frames[k] /\ TableAfter(k)' = TableAfter(k)
      BY <2>1, <2>3, <2>4
    <3> QED
      BY <3>1, <3>2, <2>1 DEF FrameOK, ListedTwice, Bound
  <2> QED
    BY <2>1, <2>2, <2>5, <2>6 DEF ScopeInv, ArgTable
<1> QED
  BY <1>1, <1>2, <1>3, <1>4, <1>5, <1>6, <1>7, <1>8 DEF ScopingNext

(* The symbol table is consistent with the expressions being generated in  *)
(* every state, after any failures.                                        *)
THEOREM ScopeInvariant == ScopingSpec => []ScopeInv
<1>1. ScopingInit => ScopeInv
  BY InitScopeInv
<1>2. ScopeInv /\ [ScopingNext]_scopingVars => ScopeInv'
  BY NextScopeInv
<1> QED
  BY <1>1, <1>2, PTL DEF ScopingSpec

(* When a for or var expression is done, every name no var of the function *)
(* lists twice means what it meant before it.                              *)
THEOREM ScopesAreLexical == ScopingSpec => ScopesEnd
<1>1. ScopeInv /\ [ScopingNext]_scopingVars =>
        [EndExpr => \A v \in Vars \ repeated :
           NamedValues'[v] = Top.before[v]]_scopingVars
  BY EndExprInv
<1> QED
  BY <1>1, ScopeInvariant, PTL DEF ScopingSpec, ScopesEnd

-----------------------------------------------------------------------------
(* Whose allocas the names are bound to: the bindings in force and those   *)
(* put aside are null or allocas of the function being generated.          *)
Own(alloca) == alloca \in {0} \cup (first + 1 .. allocas)
OwnFrame(frame) == Own(frame.alloca) /\ \A j \in 1..Len(frame.old) : Own(frame.old[j])
OwnInv ==
  generating =>
    /\ first <= allocas
    /\ \A v \in Vars : Own(NamedValues[v])
    /\ \A k \in 1..Len(frames) : OwnFrame(frames[k])

LEMMA BeginBodyOwn ==
  ASSUME ScopeInv, NEW params \in NameLists, BeginBody(params)
  PROVE  OwnInv'
<1>1. /\ params \in Seq(Vars) /\ Len(params) \in Nat /\ DOMAIN params = 1..Len(params)
      /\ allocas \in Nat
  BY NameListsAreSequences, LenProperties DEF ScopeInv, TablesOK
<1>2. /\ first' = allocas /\ allocas' = allocas + Len(params)
      /\ NamedValues' = ArgTable(params, allocas) /\ frames' = frames /\ ~generating
  BY DEF BeginBody, BeginWith
<1>3. Len(frames') = 0
  BY <1>2, EmptySeq DEF ScopeInv
<1>4. ASSUME NEW v \in Vars PROVE Own(NamedValues[v])'
  <2>1. CASE \E k \in DOMAIN params : params[k] = v
    <3> DEFINE at == CHOOSE k \in DOMAIN params : params[k] = v
    <3>1. at \in DOMAIN params
      BY <2>1
    <3>2. NamedValues'[v] = allocas + at
      BY <1>2, <2>1 DEF ArgTable
    <3> HIDE DEF at
    <3> QED
      BY <1>1, <1>2, <3>1, <3>2 DEF Own
  <2>2. CASE ~ \E k \in DOMAIN params : params[k] = v
    <3>1. NamedValues'[v] = 0
      BY <1>2, <2>2 DEF ArgTable
    <3> QED
      BY <3>1 DEF Own
  <2> QED
    BY <2>1, <2>2
<1> QED
  BY <1>1, <1>2, <1>3, <1>4 DEF OwnInv

LEMMA BeginOwn ==
  ASSUME ScopeInv, OwnInv, NEW kind \in {"for", "var"}, NEW names \in Seq(Vars),
         NEW alloca \in Nat, Begin(kind, names, alloca), Own(alloca)',
         allocas' \in {allocas, allocas + 1}
  PROVE  OwnInv'
<1>1. PICK depth \in Nat : depth = Len(frames)
  BY LenProperties DEF ScopeInv, TablesOK
<1>2. /\ frames \in Seq(Frame) /\ NamedValues \in Tables /\ first \in Nat /\ allocas \in Nat
      /\ <<>> \in Seq(Nat) /\ Len(<<>>) = 0
  BY EmptySeq DEF ScopeInv, TablesOK
<1>3. PICK new \in Frame : new = [kind |-> kind, names |-> names, old |-> <<>>,
                                alloca |-> alloca, before |-> NamedValues]
  BY <1>2 DEF Frame
<1>4. /\ frames' = Append(frames, new) /\ generating
      /\ UNCHANGED <<generating, first, NamedValues>>
  BY <1>3 DEF Begin
<1>5. OwnFrame(new)'
  BY <1>2, <1>3 DEF OwnFrame
<1>6. /\ Len(frames') = depth + 1 /\ frames'[depth + 1] = new
      /\ \A k \in 1..depth : frames'[k] = frames[k] /\ frames[k] \in Frame
  BY <1>1, <1>2, <1>4, AppendProperties, ElementOfSeq
<1>7. ASSUME NEW k \in 1..(depth + 1) PROVE OwnFrame(frames[k])'
  <2>1. CASE k = depth + 1
    BY <2>1, <1>5, <1>6 DEF OwnFrame, Own
  <2>2. CASE k \in 1..depth
    <3>1. OwnFrame(frames[k])
      BY <2>2, <1>1, <1>4 DEF OwnInv
    <3> QED
      BY <2>2, <3>1, <1>2, <1>4, <1>6 DEF OwnFrame, Own
  <2> QED
    BY <2>1, <2>2
<1>8. \A v \in Vars : Own(NamedValues[v])'
  BY <1>2, <1>4 DEF OwnInv, Own
<1> QED
  BY <1>2, <1>4, <1>6, <1>7, <1>8 DEF OwnInv

LEMMA BindOwn ==
  ASSUME ScopeInv, OwnInv, Succeeded, ~AllBound, NEW alloca \in Nat, Bind(alloca),
         Own(alloca)', allocas' \in {allocas, allocas + 1}
  PROVE  OwnInv'
<1>1. PICK depth \in Nat : depth = Len(frames)
  BY LenProperties DEF ScopeInv, TablesOK
<1>2. /\ frames \in Seq(Frame) /\ depth >= 1 /\ NamedValues \in Tables
      /\ first \in Nat /\ allocas \in Nat /\ generating
      /\ Top = frames[depth] /\ Top \in Frame
  BY <1>1, TopIsFrame DEF ScopeInv, TablesOK, Succeeded, Top
<1> DEFINE name == Top.names[Bound(Top) + 1]
<1>3. name \in Vars
  <2>1. /\ Bound(Top) \in Nat /\ Len(Top.names) \in Nat
        /\ FrameOK(frames[depth], TableAfter(depth), depth \in failed)
    BY <1>1, <1>2, LenProperties DEF ScopeInv, Frame, Bound
  <2>2. Bound(Top) + 1 \in 1..Len(Top.names)
    BY <2>1, <1>2 DEF FrameOK, AllBound
  <2> QED
    BY <1>2, <2>2, ElementOfSeq DEF Frame
<1> HIDE DEF name
<1>4. Own(NamedValues[name]) /\ NamedValues[name] \in Nat
  BY <1>2, <1>3 DEF OwnInv, Tables
<1>4a. PICK b \in Nat : b = Bound(Top) /\ Top.old \in Seq(Nat) /\ b = Len(Top.old)
  BY <1>2, LenProperties DEF Frame, Bound
<1>4b. PICK old \in Seq(Nat) : old = Append(Top.old, NamedValues[name])
  BY <1>4, <1>4a, AppendProperties
<1>5. /\ Len(old) = b + 1 /\ old[b + 1] = NamedValues[name]
      /\ \A j \in 1..b : old[j] = Top.old[j]
  BY <1>4, <1>4a, <1>4b, AppendProperties
<1>6. /\ frames' = [frames EXCEPT ![depth] = [Top EXCEPT !.old = old]]
      /\ NamedValues' = [NamedValues EXCEPT ![name] = alloca]
      /\ UNCHANGED <<generating, first>>
  BY <1>1, <1>2, <1>4b DEF Bind, name, Top
<1>7. PICK new : new = [Top EXCEPT !.old = old]
  OBVIOUS
<1>8. new.alloca = Top.alloca /\ new.old = old /\ new \in Frame
  BY <1>2, <1>7 DEF Frame
<1>9. OwnFrame(Top)
  BY <1>1, <1>2 DEF OwnInv
<1>10. OwnFrame(new)'
  <2>1. \A j \in 1..Len(old) : Own(old[j])
    <3>1. \A j \in 1..Len(old) : j \in 1..b \/ j = b + 1
      BY <1>5
    <3> QED
      BY <3>1, <1>4, <1>5, <1>4a, <1>9 DEF OwnFrame
  <2>2. \A j \in 1..Len(old) : Own(old[j])'
    BY <2>1, <1>2, <1>6 DEF Own
  <2>3. Own(Top.alloca) /\ first' = first
    BY <1>6, <1>9 DEF OwnFrame
  <2>4. Own(new.alloca)'
    BY <2>3, <1>2, <1>8 DEF Own
  <2> QED
    BY <1>8, <2>2, <2>4 DEF OwnFrame
<1>11. /\ Len(frames') = depth /\ frames'[depth] = new
       /\ \A k \in 1..depth : k # depth => frames'[k] = frames[k]
  BY <1>1, <1>2, <1>6, <1>7, <1>8, ExceptSeq
<1>12. ASSUME NEW k \in 1..depth PROVE OwnFrame(frames[k])'
  <2>1. CASE k = depth
    BY <2>1, <1>10, <1>11 DEF OwnFrame, Own
  <2>2. CASE k # depth
    <3>1. OwnFrame(frames[k])
      BY <1>1, <1>2 DEF OwnInv
    <3> QED
      BY <2>2, <3>1, <1>2, <1>6, <1>11 DEF OwnFrame, Own
  <2> QED
    BY <2>1, <2>2
<1>13. ASSUME NEW v \in Vars PROVE Own(NamedValues[v])'
  <2>1. CASE v = name
    <3>1. NamedValues'[v] = alloca
      BY <2>1, <1>2, <1>6 DEF Tables
    <3> QED
      BY <3>1 DEF Own
  <2>2. CASE v # name
    <3>1. NamedValues'[v] = NamedValues[v] /\ Own(NamedValues[v])
      BY <2>2, <1>2, <1>6 DEF Tables, OwnInv
    <3> QED
      BY <3>1, <1>2, <1>6 DEF Own
  <2> QED
    BY <2>1, <2>2
<1>14. first' <= allocas'
  BY <1>2, <1>6 DEF OwnInv
<1> QED
  BY <1>11, <1>12, <1>13, <1>14 DEF OwnInv

(* An expression that is left, restored or not.                            *)
LEMMA PopOwn ==
  ASSUME ScopeInv, OwnInv, generating, frames # <<>>, frames' = Pop(frames),
         UNCHANGED <<generating, first, allocas>>,
         \/ NamedValues' = NamedValues
         \/ NamedValues' = Restored(NamedValues, Top)
  PROVE  OwnInv'
<1>1. PICK depth \in Nat : depth = Len(frames)
  BY LenProperties DEF ScopeInv, TablesOK
<1>2. /\ depth >= 1 /\ Len(frames') = depth - 1
      /\ \A k \in 1..(depth - 1) : frames'[k] = frames[k]
  BY <1>1, PoppedStack
<1>3. ASSUME NEW k \in 1..(depth - 1) PROVE OwnFrame(frames[k])'
  <2>1. OwnFrame(frames[k])
    BY <1>1, <1>2 DEF OwnInv
  <2> QED
    BY <2>1, <1>2 DEF OwnFrame, Own
<1>4. ASSUME NEW v \in Vars PROVE NamedValues'[v] = NamedValues[v] \/
        \E j \in 1..Len(Top.old) : NamedValues'[v] = Top.old[j]
  <2> DEFINE last == {k \in 1..Bound(Top) :
                        Top.names[k] = v /\
                        \A j \in k + 1 .. Bound(Top) : Top.names[j] # v}
  <2>1. CASE NamedValues' = NamedValues \/ last = {}
    BY <2>1 DEF Restored
  <2>2. CASE NamedValues' = Restored(NamedValues, Top) /\ last # {}
    <3>1. (CHOOSE k \in last : TRUE) \in last
      BY <2>2
    <3>2. NamedValues'[v] = Top.old[CHOOSE k \in last : TRUE]
      BY <2>2 DEF Restored
    <3>3. (CHOOSE k \in last : TRUE) \in 1..Len(Top.old)
      BY <3>1 DEF Bound
    <3> QED
      BY <3>2, <3>3
  <2> QED
    BY <2>1, <2>2
<1>5. OwnFrame(Top)
  BY <1>1, <1>2 DEF OwnInv, Top
<1>6. ASSUME NEW v \in Vars PROVE Own(NamedValues[v])'
  <2>1. Own(NamedValues'[v])
    BY <1>4, <1>5 DEF OwnInv, OwnFrame
  <2> QED
    BY <2>1 DEF Own
<1> QED
  BY <1>1, <1>2, <1>3, <1>6 DEF OwnInv

LEMMA NextOwn ==
  ASSUME ScopeInv, OwnInv, [ScopingNext]_scopingVars
  PROVE  OwnInv'
<1> USE DEF ScopeInv, TablesOK
<1>0. first \in Nat /\ allocas \in Nat /\ (generating => first <= allocas)
  BY DEF OwnInv
<1>1. ASSUME NEW params \in NameLists, BeginBody(params) PROVE OwnInv'
  BY <1>1, BeginBodyOwn
<1>2. CASE FinishBody \/ AbandonBody
  BY <1>2 DEF FinishBody, AbandonBody, EndBody, OwnInv
<1>3. CASE OperandFails \/ UNCHANGED scopingVars
  <2>1. UNCHANGED <<generating, first, allocas, NamedValues, frames>>
    BY <1>3 DEF OperandFails, scopingVars
  <2> QED
    BY <2>1 DEF OwnInv, OwnFrame, Own
<1>4. CASE ReturnNull
  BY <1>4, PopOwn DEF ReturnNull
<1>5. ASSUME NEW name \in Vars, BeginFor(name) PROVE OwnInv'
  <2>a. <<name>> \in Seq(Vars)
    OBVIOUS
  <2>0. PICK names \in Seq(Vars) : names = <<name>>
    BY <2>a
  <2>1. PICK alloca \in Nat : alloca = allocas + 1
    BY <1>0
  <2>2. /\ Begin("for", names, alloca) /\ allocas' = allocas + 1
        /\ first' = first /\ generating
    BY <1>5, <2>0, <2>1 DEF BeginFor, Begin
  <2>3. Own(alloca)'
    BY <1>0, <2>1, <2>2 DEF Own
  <2> QED
    BY <2>2, <2>3, BeginOwn
<1>6. ASSUME NEW names \in NameLists, BeginVar(names) PROVE OwnInv'
  <2>1. names \in Seq(Vars)
    BY NameListsAreSequences
  <2>2. Own(0)'
    BY DEF Own
  <2> QED
    BY <1>6, <2>1, <2>2, BeginOwn DEF BeginVar
<1>7. CASE EnterLoop
  <2>1. /\ frames \in Seq(Frame) /\ Succeeded /\ ~AllBound /\ Bind(Top.alloca)
        /\ allocas' = allocas /\ first' = first /\ generating /\ frames # <<>>
    BY <1>7 DEF EnterLoop, Inside, Succeeded, Bind
  <2>2. PICK alloca \in Nat : alloca = Top.alloca
    BY <2>1, TopIsFrame DEF Top, Frame
  <2>3. Len(frames) \in 1..Len(frames)
    BY <2>1, TopIsFrame
  <2>4. Own(alloca)
    BY <2>1, <2>2, <2>3 DEF OwnInv, OwnFrame, Top
  <2>5. Own(alloca)'
    BY <2>1, <2>4 DEF Own
  <2> QED
    BY <2>1, <2>2, <2>5, BindOwn
<1>8. CASE BindVar
  <2>1. PICK alloca \in Nat : alloca = allocas + 1
    BY <1>0
  <2>2. /\ Succeeded /\ ~AllBound /\ Bind(alloca) /\ allocas' = allocas + 1
        /\ first' = first /\ generating
    BY <1>8, <2>1 DEF BindVar, Inside, Succeeded, Bind
  <2>3. Own(alloca)'
    BY <1>0, <2>1, <2>2 DEF Own
  <2> QED
    BY <2>2, <2>3, BindOwn
<1>9. CASE EndExpr
  BY <1>9, PopOwn DEF EndExpr, Succeeded
<1> QED
  BY <1>1, <1>2, <1>3, <1>4, <1>5, <1>6, <1>7, <1>8, <1>9 DEF ScopingNext

(* No name is ever bound to an alloca of another function, whatever failed *)
(* in this one or in those before it, and whatever is listed twice.        *)
THEOREM OnlyOwnBindings == ScopingSpec => []OwnBindings
<1>1. ScopingInit => OwnInv
  BY DEF ScopingInit, OwnInv
<1>2. ScopeInv /\ OwnInv /\ [ScopingNext]_scopingVars => OwnInv'
  BY NextOwn
<1>3. OwnInv => OwnBindings
  BY DEF OwnInv, OwnBindings, Own
<1> QED
  BY <1>1, <1>2, <1>3, ScopeInvariant, PTL DEF ScopingSpec
=============================================================================
