---------------------------- MODULE MCJITSession -----------------------------
(* A session of the MCJIT versions of Kaleidoscope (examples/Kaleidoscope/     *)
(* MCJIT): functions go to an open LLVM module, a module is closed and         *)
(* compiled as a whole, and the symbols it does not define are resolved by     *)
(* MCJITHelper while it is being finalised, which may compile other modules.   *)
(*                                                                             *)
(* The versions differ in when the open module is closed, when the engine of a *)
(* module is recorded and where a symbol is looked for.  A body is abstracted  *)
(* to the functions it calls; whether it fails otherwise is the user's choice. *)
EXTENDS Naturals, FiniteSets, Sequences

CONSTANTS Versions,       \* the versions of the helper
          Functions,      \* identifiers functions are given
          Ops,            \* characters binary operators are given
          ProcessSymbols, \* functions of the process itself
          MaxItems,       \* bound on what is typed in a session
          MaxCalls        \* bound on the functions a body calls

Names == Functions \cup Ops
Anon == "anon" \* the function of an expression, whose name is new each time

ASSUME NamesAssumption ==
    /\ ProcessSymbols \subseteq Functions
    /\ Functions \cap Ops = {} /\ Anon \notin Names
    /\ MaxItems \in Nat /\ MaxCalls \in Nat

VARIABLES version,        \* which helper runs
          modules,        \* Modules: what each has under a name
          OpenModule,     \* index of the open module, or 0
          engines,        \* modules with an engine (Engines, EngineMap)
          operators,      \* operators in BinopPrecedence
          compiling,      \* modules being compiled, the innermost first
          items,          \* definitions, externs and expressions typed so far
          links,          \* symbols resolved so far
          careful,        \* history: no name has been given two meanings
          state           \* "prompt", "compiling", "run" or how it ended

vars == <<version, modules, OpenModule, engines, operators, compiling, items, links, careful, state>>

-----------------------------------------------------------------------------
(* HandleDefinition closes the open module first.  In the complete version     *)
(* that is an option, which is on by default.                                  *)
ClosesOnDefinition == version \in {"lazy", "cached", "complete"}

(* compileModule records the engine before finalizeObject, or after it.        *)
RecordsFirst == version \notin {"complete", "completeEager"}

(* getPointerToNamedFunction looks in the engines only, or in all modules.     *)
SearchesModules == version # "initial"

(* PrototypeAST::Codegen looks for a conflicting function under the name the   *)
(* module has it under, or under the one it was written with.                  *)
UsesLegalName == version \in {"complete", "completeEager"}

(* An IR file given on the command line is a closed module.                    *)
ReadsInput == version \in {"cached", "complete", "completeEager"}

Declared == [body |-> FALSE, calls |-> {}]
Defined(calls) == [body |-> TRUE, calls |-> calls]

Put(f, k, v) == [x \in DOMAIN f \cup {k} |-> IF x = k THEN v ELSE f[x]]
Without(f, k) == [x \in DOMAIN f \ {k} |-> f[x]]
Has(m, n) == n \in DOMAIN m
HasBody(m, n) == Has(m, n) /\ m[n].body

Init ==
    /\ version \in Versions
    /\ modules \in {<<>>} \cup {<< Put(<<>>, n, Defined({})) >> : n \in IF ReadsInput THEN Functions \ ProcessSymbols ELSE {}}
    /\ OpenModule = 0
    /\ engines = IF version = "completeEager" THEN DOMAIN modules ELSE {}
    /\ operators = {}
    /\ compiling = <<>>
    /\ items = 0
    /\ links = {}
    /\ careful = TRUE
    /\ state = "prompt"

-----------------------------------------------------------------------------
(* getModuleForNewFunction.                                                    *)
Opened == IF OpenModule # 0 THEN OpenModule ELSE Len(modules) + 1
WithOpen == IF OpenModule # 0 THEN modules ELSE Append(modules, <<>>)
Closed == IF ClosesOnDefinition THEN Len(modules) + 1 ELSE Opened
WithNew == IF ClosesOnDefinition THEN Append(modules, <<>>) ELSE WithOpen

(* MCJITHelper::getFunction for a call in module m: the first module that has  *)
(* the name decides.  It may be declared again in m, but not if m defines it.  *)
First(ms, n) == CHOOSE i \in DOMAIN ms :
                    Has(ms[i], n) /\ \A j \in 1..(i - 1) : ~Has(ms[j], n)
Known(ms, n) == \E i \in DOMAIN ms : Has(ms[i], n)

(* Mistaken GetsFunction: a module that defines the name need not be the first.*)
GetsAnyFunction(ms, m, n) == Known(ms, n)

GetsFunction(ms, m, n) == Known(ms, n) /\ (First(ms, n) = m \/ ~HasBody(ms[m], n))
DeclaredIn(ms, m, names) ==
    [ms EXCEPT ![m] = [x \in DOMAIN @ \cup names |-> IF x \in DOMAIN @ THEN @[x] ELSE Declared]]

(* PrototypeAST::Codegen of name n in module m: the existing function is taken *)
(* unless it has a body, and found unless it was looked for under another name.*)
Conflict(ms, m, n) == Has(ms[m], n)
LosesFunction(ms, m, n) == Conflict(ms, m, n) /\ n \in Ops /\ ~UsesLegalName
AcceptsPrototype(ms, m, n) == ~HasBody(ms[m], n)

(* Calls of other functions of module m to n, which erasing n leaves dangling. *)
StillUsed(m, n) == \E x \in DOMAIN m \ {n} : n \in m[x].calls

(* FunctionAST::Codegen of n in module m of ms, the body calling the functions *)
(* of calls.  A null operator function is an assertion, any other an error.    *)
FunctionCodegen(ms, m, n, calls) ==
    LET begun == [ms EXCEPT ![m] = Put(@, n, Defined({}))]
        found == {c \in calls : GetsFunction(begun, m, c)}
    IN  /\ calls \cap Ops \subseteq operators
        /\ \/ /\ found = calls
              /\ modules' = [DeclaredIn(begun, m, calls) EXCEPT ![m] = Put(@, n, Defined(calls))]
              /\ operators' = operators \cup ({n} \cap Ops)
              /\ state' = IF n = Anon THEN "compiling" ELSE "prompt"
           \/ /\ \E reached \in SUBSET found :
                    modules' = [DeclaredIn(begun, m, reached) EXCEPT ![m] = Without(@, n)]
              /\ operators' = operators \ {n}
              /\ state' = IF StillUsed(begun[m], n) THEN "dangling" ELSE "prompt"
           \/ /\ (calls \ found) \cap Ops # {}
              /\ state' = "asserted"
              /\ UNCHANGED <<modules, operators>>

Bodies == {calls \in SUBSET Names : Cardinality(calls) <= MaxCalls}
Disciplined(n) == n \notin ProcessSymbols /\ ~Known(modules, n)

HandleDefinition ==
    /\ state = "prompt" /\ items < MaxItems
    /\ items' = items + 1
    /\ \E n \in Names, calls \in Bodies :
          /\ careful' = (careful /\ Disciplined(n))
          /\ CASE LosesFunction(WithNew, Closed, n) ->
                    state' = "crashed" /\ UNCHANGED <<modules, operators>>
               [] ~AcceptsPrototype(WithNew, Closed, n) ->
                    modules' = WithNew /\ UNCHANGED <<operators, state>>
               [] OTHER -> FunctionCodegen(WithNew, Closed, n, calls)
    /\ OpenModule' = Closed
    /\ UNCHANGED <<version, engines, compiling, links>>

HandleExtern ==
    /\ state = "prompt" /\ items < MaxItems
    /\ items' = items + 1
    /\ \E n \in Names :
          /\ careful' = (careful /\ n \in ProcessSymbols)
          /\ CASE LosesFunction(WithOpen, Opened, n) ->
                    state' = "crashed" /\ UNCHANGED modules
               [] OTHER -> modules' = DeclaredIn(WithOpen, Opened, {n}) /\ UNCHANGED state
    /\ OpenModule' = Opened
    /\ UNCHANGED <<version, engines, operators, compiling, links>>

(* HandleTopLevelExpression: a function in the open module, which is compiled. *)
Frame(m, ms) == [module |-> m,
                 pending |-> {n \in UNION {ms[m][x].calls : x \in DOMAIN ms[m]} : ~HasBody(ms[m], n)}]

(* Mistaken Recorded: the engine is recorded when its module is finalised.     *)
NotRecorded(m) == engines

(* The engines once that of m has been made.                                   *)
Recorded(m) == IF RecordsFirst THEN engines \cup {m} ELSE engines

HandleTopLevelExpression ==
    /\ state = "prompt" /\ items < MaxItems
    /\ items' = items + 1
    /\ \E calls \in Bodies : FunctionCodegen(WithOpen, Opened, Anon, calls)
    /\ IF state' = "compiling"
       THEN /\ compiling' = <<Frame(Opened, modules')>>
            /\ engines' = Recorded(Opened)
            /\ OpenModule' = 0
       ELSE /\ OpenModule' = Opened
            /\ UNCHANGED <<compiling, engines>>
    /\ UNCHANGED <<version, links, careful>>

-----------------------------------------------------------------------------
(* finalizeObject resolves the symbols a module uses and does not define: in   *)
(* the process, or through getPointerToNamedFunction.                          *)
Top == Head(compiling)
OnStack(m) == \E i \in DOMAIN compiling : compiling[i].module = m
Process == 0
Link(n, target) == links' = links \cup {<<Top.module, n, target>>}
Resolved(n) == <<[Top EXCEPT !.pending = @ \ {n}]>> \o Tail(compiling)

(* Mistaken Candidates: only modules that have been compiled are searched.     *)
CompiledCandidates(n) == {i \in engines : HasBody(modules[i], n)}

Candidates(n) == IF SearchesModules THEN {i \in DOMAIN modules : HasBody(modules[i], n)}
                 ELSE {i \in engines : Has(modules[i], n)}
Found(n) == CHOOSE i \in Candidates(n) : \A j \in Candidates(n) : i <= j

(* Mistaken CompileFound: the symbol is linked, and its module left alone.     *)
LinkFound(n, i) ==
    /\ compiling' = Resolved(n)
    /\ Link(n, i)
    /\ UNCHANGED <<engines, state>>

(* compileModule of the module a symbol is found in.                           *)
CompileFound(n, i) ==
    IF OnStack(i)
    THEN /\ state' = "endless" \* the same modules again, and so on
         /\ UNCHANGED <<compiling, engines, links>>
    ELSE /\ compiling' = <<Frame(i, modules)>> \o Resolved(n)
         /\ engines' = Recorded(i)
         /\ Link(n, i)
         /\ UNCHANGED state

Finds(n) == Candidates(n) # {} /\ HasBody(modules[Found(n)], n)

getPointerToNamedFunction ==
    /\ state = "compiling"
    /\ \E n \in Top.pending :
         CASE n \in ProcessSymbols ->
                /\ compiling' = Resolved(n)
                /\ Link(n, Process)
                /\ UNCHANGED <<engines, state>>
           [] n \notin ProcessSymbols /\ ~Finds(n) ->
                /\ state' = "fatal"
                /\ UNCHANGED <<compiling, engines, links>>
           [] OTHER ->
                IF Found(n) \in engines
                THEN /\ compiling' = Resolved(n)
                     /\ Link(n, Found(n))
                     /\ UNCHANGED <<engines, state>>
                ELSE CompileFound(n, Found(n))
    /\ UNCHANGED <<version, modules, OpenModule, operators, items, careful>>

(* The innermost module is finalised.                                          *)
Finalized ==
    /\ state = "compiling" /\ Top.pending = {}
    /\ compiling' = Tail(compiling)
    /\ engines' = engines \cup {Top.module}
    /\ state' = IF Len(compiling) = 1 THEN "run" ELSE state
    /\ UNCHANGED <<version, modules, OpenModule, operators, items, links, careful>>

(* The expression has been called.                                             *)
Evaluated ==
    /\ state = "run"
    /\ state' = "prompt"
    /\ UNCHANGED <<version, modules, OpenModule, engines, operators, compiling, items, links, careful>>

EndOfInput ==
    /\ state = "prompt"
    /\ state' = "ended"
    /\ UNCHANGED <<version, modules, OpenModule, engines, operators, compiling, items, links, careful>>

Next == \/ HandleDefinition \/ HandleExtern \/ HandleTopLevelExpression
        \/ getPointerToNamedFunction \/ Finalized \/ Evaluated \/ EndOfInput

Spec == Init /\ [][Next]_vars

-----------------------------------------------------------------------------
(* Where a call of n in module m goes once m is compiled.                      *)
Targets(m, n) == IF HasBody(modules[m], n) THEN {m}
                 ELSE {l[3] : l \in {k \in links : k[1] = m /\ k[2] = n}}
Calls(m) == UNION {modules[m][x].calls : x \in DOMAIN modules[m]}

(* compileModule, and symbol resolution from within it: when an expression is  *)
(* run, every symbol of every module with an engine has been resolved, once,   *)
(* to a module that has an engine too, however the modules call each other.    *)
RunsCompiledCode ==
    state = "run" => \A m \in engines : \A n \in Calls(m) :
        /\ Cardinality(Targets(m, n)) = 1
        /\ Targets(m, n) \subseteq engines \cup {Process}

(* A name has one meaning: where definitions close the open module, all calls  *)
(* of a function that is not one of the process reach the same definition,     *)
(* whatever is declared and defined again and in which module.                 *)
OneMeaning ==
    ClosesOnDefinition =>
        \A m1, m2 \in engines : \A n \in (Calls(m1) \cap Calls(m2)) \ ProcessSymbols :
            Cardinality(Targets(m1, n) \cup Targets(m2, n)) <= 1

(* The engine of a module is recorded before the module's symbols are          *)
(* resolved, so functions that call each other across modules are compiled,    *)
(* each once (the lazy and cached versions, EngineMap[M] = NewEngine).         *)
CompiledOnce == RecordsFirst => state # "endless"

(* A user who defines each name once, and declares only functions of the       *)
(* process, never loses the session, whichever bodies fail.                    *)
SessionSurvives == careful => state \in {"prompt", "compiling", "run", "ended"}

=============================================================================
