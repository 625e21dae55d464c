----------------------------- MODULE LazySession -----------------------------
(* A session of Building a JIT, chapter 4 (examples/Kaleidoscope/BuildingAJIT/ *)
(* Chapter4): a definition is given to the JIT as an AST, and its code is      *)
(* generated when a lookup needs its symbol, through the same TheModule and    *)
(* FunctionProtos that the main loop uses for externs and expressions.         *)
(*                                                                             *)
(* A body is abstracted to the calls it makes and to whether it can be         *)
(* generated otherwise.  User-defined operators do not occur: they get their   *)
(* precedence when their body is generated, and nothing can call them before   *)
(* (ToyGrammar, version BuildingAJIT4).                                        *)
EXTENDS Naturals, FiniteSets

CONSTANTS Functions,      \* identifiers functions are given
          ProcessSymbols, \* functions of the process, of one argument
          Arities,        \* numbers of arguments
          MaxItems        \* bound on what is typed in a session

Anon == "__anon_expr"
Names == Functions \cup {Anon}

ASSUME LazyAssumption ==
    /\ ProcessSymbols \subseteq Functions /\ Anon \notin Functions
    /\ Arities \subseteq Nat /\ MaxItems \in Nat

VARIABLES FunctionProtos, \* name -> arguments of its last prototype
          TheModule,      \* name -> arguments of the function in the open module
          MainJD,         \* name -> the AST or the code the JIT has for it
          wanted,         \* symbols the lookup still has to materialise
          items,          \* definitions, externs and expressions typed so far
          careful,        \* history: every name has had one prototype
          state           \* "prompt", "lookup", "run" or how the session ended

vars == <<FunctionProtos, TheModule, MainJD, wanted, items, careful, state>>

Empty == [n \in {} |-> 0]
Put(f, k, v) == [x \in DOMAIN f \cup {k} |-> IF x = k THEN v ELSE f[x]]

Calls == {c \in SUBSET (Functions \X Arities) : Cardinality(c) <= 1}
Bodies == [arity : Arities, calls : Calls, sound : BOOLEAN]
Callees(body) == {c[1] : c \in body.calls}

Init ==
    /\ FunctionProtos = Empty /\ TheModule = Empty /\ MainJD = Empty
    /\ wanted = {}
    /\ items = 0
    /\ careful = TRUE
    /\ state = "prompt"

-----------------------------------------------------------------------------
(* getFunction: in the open module, or declared there from its prototype.      *)
Declared(protos, module, n) ==
    IF n \in DOMAIN module \/ n \notin DOMAIN protos THEN module ELSE Put(module, n, protos[n])

(* CallExprAST::codegen finds the callee, with as many arguments.              *)
CallResolves(protos, module, call) ==
    LET m == Declared(protos, module, call[1])
    IN  call[1] \in DOMAIN m /\ m[call[1]] = call[2]

(* FunctionAST::codegen of a body, in the module that is open.                 *)
Generates(protos, module, body) ==
    body.sound /\ \A c \in body.calls : CallResolves(protos, module, c)

OnePrototype(n, arity) ==
    /\ n \in DOMAIN FunctionProtos => FunctionProtos[n] = arity
    /\ n \in ProcessSymbols => arity = 1

Typed == state = "prompt" /\ items < MaxItems /\ items' = items + 1

(* The prototype is recorded and the AST is added; a symbol the JIT has        *)
(* already is an error, and ExitOnErr ends the session.                        *)
HandleDefinition ==
    /\ Typed
    /\ \E n \in Functions, body \in Bodies :
          /\ FunctionProtos' = Put(FunctionProtos, n, body.arity)
          /\ careful' = (careful /\ OnePrototype(n, body.arity))
          /\ IF n \in DOMAIN MainJD
             THEN state' = "duplicate" /\ UNCHANGED MainJD
             ELSE /\ MainJD' = Put(MainJD, n, [body |-> body, generated |-> FALSE])
                  /\ UNCHANGED state
    /\ UNCHANGED <<TheModule, wanted>>

(* A declaration whose name the module has already is renamed by LLVM.         *)
HandleExtern ==
    /\ Typed
    /\ \E n \in Functions, arity \in Arities :
          /\ TheModule' = IF n \in DOMAIN TheModule THEN TheModule ELSE Put(TheModule, n, arity)
          /\ FunctionProtos' = Put(FunctionProtos, n, arity)
          /\ careful' = (careful /\ OnePrototype(n, arity))
    /\ UNCHANGED <<MainJD, wanted, state>>

(* An expression is generated at once; its module goes to the JIT and another  *)
(* is opened before the lookup.                                                *)
InitializeModule == TheModule' = Empty

AddExpression(calls) ==
    /\ MainJD' = Put(MainJD, Anon, [body |-> [arity |-> 0, calls |-> calls, sound |-> TRUE],
                                    generated |-> TRUE])
    /\ InitializeModule
    /\ wanted' = {c[1] : c \in calls}
    /\ state' = "lookup"

HandleTopLevelExpression ==
    /\ Typed
    /\ \E calls \in Calls, sound \in BOOLEAN :
          IF sound /\ \A c \in calls : CallResolves(FunctionProtos, TheModule, c)
          THEN AddExpression(calls)
          ELSE /\ \E c \in calls \cup {<<Anon, 0>>} :
                     TheModule' = Declared(FunctionProtos, TheModule, c[1])
               /\ UNCHANGED <<MainJD, wanted, state>>
    /\ UNCHANGED <<FunctionProtos, careful>>

-----------------------------------------------------------------------------
(* Mistaken irgenAndTakeOwnership: the functions the body calls are not looked *)
(* up in their turn.                                                           *)
irgenAlone(n) ==
    LET body == MainJD[n].body
        protos == Put(FunctionProtos, n, body.arity)
    IN  /\ FunctionProtos' = protos
        /\ Generates(protos, Put(TheModule, n, body.arity), body)
        /\ MainJD' = [MainJD EXCEPT ![n].generated = TRUE]
        /\ wanted' = wanted \ {n}
        /\ InitializeModule
        /\ UNCHANGED state

(* KaleidoscopeASTLayer::emit: the body of a wanted symbol is generated, with  *)
(* the prototypes of this moment and its own put back, and taken out of        *)
(* TheModule; one that cannot be generated is a fatal error.                   *)
irgenAndTakeOwnership(n) ==
    LET body == MainJD[n].body
        protos == Put(FunctionProtos, n, body.arity)
    IN  /\ FunctionProtos' = protos
        /\ IF Generates(protos, Put(TheModule, n, body.arity), body)
           THEN /\ MainJD' = [MainJD EXCEPT ![n].generated = TRUE]
                /\ wanted' = (wanted \ {n}) \cup Callees(body)
                /\ InitializeModule
                /\ UNCHANGED state
           ELSE /\ state' = "fatal"
                /\ UNCHANGED <<MainJD, wanted, TheModule>>

(* Mistaken Wanted: every definition is generated at the first lookup.         *)
WantedAll == DOMAIN MainJD

(* The symbols a lookup gets to: those in wanted.                              *)
Wanted == wanted

Materialize ==
    /\ state = "lookup"
    /\ \E n \in Wanted :
          /\ n \in DOMAIN MainJD /\ ~MainJD[n].generated
          /\ irgenAndTakeOwnership(n)
    /\ UNCHANGED <<items, careful>>

(* A symbol that has its code is ready; one of the process is added to the     *)
(* JIT by its generator; any other is missing, which ends the session.         *)
Resolve ==
    /\ state = "lookup"
    /\ \E n \in wanted :
          \/ /\ n \in DOMAIN MainJD /\ MainJD[n].generated
             /\ wanted' = wanted \ {n}
             /\ UNCHANGED <<MainJD, state>>
          \/ /\ n \in ProcessSymbols \ DOMAIN MainJD
             /\ MainJD' = Put(MainJD, n, [body |-> [arity |-> 1, calls |-> {}, sound |-> TRUE],
                                          generated |-> TRUE])
             /\ wanted' = wanted \ {n}
             /\ UNCHANGED state
          \/ /\ n \notin DOMAIN MainJD \cup ProcessSymbols
             /\ state' = "missing"
             /\ UNCHANGED <<MainJD, wanted>>
    /\ UNCHANGED <<FunctionProtos, TheModule, items, careful>>

Run ==
    /\ state = "lookup" /\ wanted = {}
    /\ state' = "run"
    /\ UNCHANGED <<FunctionProtos, TheModule, MainJD, wanted, items, careful>>

(* RT->remove() after the call.                                                *)
RemoveExpression ==
    /\ state = "run"
    /\ MainJD' = [n \in DOMAIN MainJD \ {Anon} |-> MainJD[n]]
    /\ state' = "prompt"
    /\ UNCHANGED <<FunctionProtos, TheModule, wanted, items, careful>>

Next == \/ HandleDefinition \/ HandleExtern \/ HandleTopLevelExpression
        \/ Materialize \/ Resolve \/ Run \/ RemoveExpression

Spec == Init /\ [][Next]_vars

-----------------------------------------------------------------------------
(* What the expression's code can reach.                                       *)
Reached == {n \in Names : \A S \in SUBSET Names :
               /\ Anon \in S
               /\ \A m \in S \cap DOMAIN MainJD : Callees(MainJD[m].body) \subseteq S
               => n \in S}

Matches(call) == call[1] \in DOMAIN MainJD => MainJD[call[1]].body.arity = call[2]

(* Laziness: a body that cannot be generated ends the session only when an     *)
(* expression reaches it, so it or one of its calls is wrong; a definition     *)
(* nobody calls is never looked at (irgenAndTakeOwnership's fatal error).      *)
OnlyReachedBodiesFail ==
    state = "fatal" => \E n \in Reached \cap DOMAIN MainJD :
        LET body == MainJD[n].body
        IN  ~body.sound \/ \E c \in body.calls :
                c[1] \in DOMAIN FunctionProtos => FunctionProtos[c[1]] # c[2]

(* When an expression runs, all the code it can reach has been generated and   *)
(* every call in it passes as many arguments as the function called has, for a *)
(* user who gives each name one prototype, although a body is generated with   *)
(* the prototypes of the moment of its first call and not of its definition.   *)
RunsGeneratedCode ==
    state = "run" => \A n \in Reached :
        /\ n \in DOMAIN MainJD /\ MainJD[n].generated
        /\ careful => \A c \in MainJD[n].body.calls : Matches(c)

=============================================================================
