------------------------------ MODULE Scoping -------------------------------
(***************************************************************************)
(* The symbol table of Kaleidoscope's code generator (Chapter7/toy.cpp):   *)
(* NamedValues while a function's body is generated.  for and var bind     *)
(* names and unbind them when they are done.  An expression that fails     *)
(* returns a null pointer without unbinding anything, but a binary         *)
(* operator generates its right operand whatever became of the left one.   *)
(*                                                                         *)
(* An alloca is its number, in the order of creation; 0 is a null pointer  *)
(* (a name looked up in the std::map but not bound).                       *)
(***************************************************************************)
EXTENDS Naturals, Sequences

CONSTANTS
  Vars,            (* the names of variables                                 *)
  MaxDepth,        (* bound on nested for and var expressions                *)
  MaxNames,        (* bound on the names of one var expression               *)
  MaxAllocas       (* bound on the allocas created                           *)

ASSUME ScopingAssumption ==
  MaxDepth \in Nat /\ MaxNames \in Nat /\ MaxAllocas \in Nat

VARIABLES
  generating,      (* whether a body is being generated                      *)
  arguments,       (* the arguments of its function                          *)
  first,           (* number of allocas before this function's               *)
  allocas,         (* number of allocas created so far                       *)
  NamedValues,     (* name -> the alloca bound to it, or 0                   *)
  frames,          (* the for and var expressions being generated, outermost *)
                   (* first                                                  *)
  failed,          (* the depths at which an operand has failed: 0 for the   *)
                   (* body, k for the part being generated of frames[k]      *)
  repeated         (* the names this function lists twice in one var: only   *)
                   (* to state the properties                                *)

scopingVars == <<generating, arguments, first, allocas, NamedValues, frames,
                 failed, repeated>>

(* A frame holds the locals of a codegen call: the names it binds, how     *)
(* many it has bound, and the old bindings it saved for them; "before" is  *)
(* the table when the call began, kept to state what must be restored.     *)
Tables == [Vars -> Nat]
Frame  == [kind : {"for", "var"}, names : Seq(Vars), old : Seq(Nat),
           alloca : Nat, before : Tables]

Top     == frames[Len(frames)]
Pop(s)  == SubSeq(s, 1, Len(s) - 1)
Bound(frame) == Len(frame.old)

-----------------------------------------------------------------------------
ScopingInit ==
  /\ generating = FALSE /\ arguments = <<>>
  /\ first = 0 /\ allocas = 0
  /\ NamedValues = [v \in Vars |-> 0]
  /\ frames = <<>> /\ failed = {} /\ repeated = {}

(* The table that binds the arguments of a function, in their order, to    *)
(* its first allocas, and nothing else.                                    *)
ArgTable(params, from) ==
  [v \in Vars |-> IF \E k \in DOMAIN params : params[k] = v
                  THEN from + (CHOOSE k \in DOMAIN params : params[k] = v)
                  ELSE 0]

BeginWith(params, table) ==
  /\ ~generating /\ allocas + Len(params) <= MaxAllocas
  /\ generating' = TRUE /\ arguments' = params
  /\ first' = allocas /\ allocas' = allocas + Len(params)
  /\ NamedValues' = table
  /\ repeated' = {}
  /\ UNCHANGED <<frames, failed>>

(* Mistaken BeginBody: NamedValues.clear() is forgotten.                   *)
BeginUncleared(params) ==
  BeginWith(params, [v \in Vars |-> IF \E k \in DOMAIN params : params[k] = v
                                   THEN ArgTable(params, allocas)[v]
                                   ELSE NamedValues[v]])

(* NamedValues.clear(), then an alloca for each argument.                  *)
BeginBody(params) == BeginWith(params, ArgTable(params, allocas))

EndBody ==
  /\ generating /\ frames = <<>>
  /\ generating' = FALSE /\ failed' = {}
  /\ UNCHANGED <<arguments, first, allocas, NamedValues, frames, repeated>>

FinishBody  == EndBody /\ 0 \notin failed
AbandonBody == EndBody /\ 0 \in failed

-----------------------------------------------------------------------------
Here == Len(frames)

(* An operand of the part being generated returns a null pointer: it names *)
(* an unknown variable or function, or passes the wrong number of          *)
(* arguments.  The operands to the right of it are generated all the same. *)
OperandFails ==
  /\ generating /\ Here \notin failed
  /\ failed' = failed \cup {Here}
  /\ UNCHANGED <<generating, arguments, first, allocas, NamedValues, frames, repeated>>

(* The innermost for or var finds that a part of it has failed and returns *)
(* a null pointer itself.                                                  *)
ReturnNull ==
  /\ generating /\ frames # <<>> /\ Here \in failed
  /\ frames' = Pop(frames)
  /\ failed' = (failed \ {Here}) \cup {Here - 1}
  /\ UNCHANGED <<generating, arguments, first, allocas, NamedValues, repeated>>

(* A sub-expression may begin wherever an expression is generated: in the  *)
(* body of the function, or in any part of the innermost for or var.       *)
Begin(kind, names, alloca) ==
  /\ generating /\ Len(frames) < MaxDepth
  /\ frames' = Append(frames, [kind |-> kind, names |-> names, old |-> <<>>,
                               alloca |-> alloca, before |-> NamedValues])
  /\ UNCHANGED <<generating, arguments, first, NamedValues, failed>>

(* ForExprAST::codegen: the alloca, then the start value, not in scope.    *)
BeginFor(name) ==
  /\ allocas < MaxAllocas
  /\ Begin("for", <<name>>, allocas + 1)
  /\ allocas' = allocas + 1
  /\ UNCHANGED repeated

ListedTwice(names) ==
  {v \in Vars : \E j, k \in DOMAIN names : j # k /\ names[j] = v /\ names[k] = v}

BeginVar(names) ==
  /\ Begin("var", names, 0)
  /\ repeated' = repeated \cup ListedTwice(names)
  /\ UNCHANGED allocas

(* Bind the next name of the innermost expression, saving what it hides.   *)
Bind(alloca) ==
  LET name == Top.names[Bound(Top) + 1]
  IN  /\ frames' = [frames EXCEPT ![Len(frames)].old =
                                    Append(@, NamedValues[name])]
      /\ NamedValues' = [NamedValues EXCEPT ![name] = alloca]
      /\ UNCHANGED <<generating, arguments, first, failed, repeated>>

(* The part of the innermost expression just generated has not failed.     *)
Succeeded    == generating /\ frames # <<>> /\ Here \notin failed
Inside(kind) == Succeeded /\ Top.kind = kind
AllBound     == Bound(Top) = Len(Top.names)

(* The start value is generated: the loop variable comes into scope for    *)
(* the body, the step and the end condition.                               *)
EnterLoop ==
  /\ Inside("for") /\ ~AllBound
  /\ Bind(Top.alloca)
  /\ UNCHANGED allocas

(* The initialiser of the next variable is generated: its alloca is made   *)
(* and bound.                                                              *)
BindVar ==
  /\ Inside("var") /\ ~AllBound /\ allocas < MaxAllocas
  /\ Bind(allocas + 1)
  /\ allocas' = allocas + 1

(* Mistaken Restored: nothing is unbound.                                  *)
NotRestored(table, frame) == table

(* The loop that restores: for each name in order, its old binding.  A     *)
(* name bound twice is left with what it had before the second time.       *)
Restored(table, frame) ==
  LET last(v) == {k \in 1..Bound(frame) :
                    frame.names[k] = v /\ \A j \in k + 1 .. Bound(frame) : frame.names[j] # v}
  IN  [v \in Vars |-> IF last(v) = {} THEN table[v]
                     ELSE frame.old[CHOOSE k \in last(v) : TRUE]]

EndExpr ==
  /\ Succeeded /\ AllBound
  /\ NamedValues' = Restored(NamedValues, Top)
  /\ frames' = Pop(frames)
  /\ UNCHANGED <<generating, arguments, first, allocas, failed, repeated>>

-----------------------------------------------------------------------------
NameLists == UNION {[1..k -> Vars] : k \in 0..MaxNames}

(* LLVM gives the arguments of a function different names.                 *)
ScopingNext ==
  \/ \E params \in NameLists : ListedTwice(params) = {} /\ BeginBody(params)
  \/ FinishBody \/ AbandonBody \/ OperandFails \/ ReturnNull
  \/ \E name \in Vars : BeginFor(name)
  \/ \E names \in NameLists : names # <<>> /\ BeginVar(names)
  \/ EnterLoop \/ BindVar \/ EndExpr

ScopingSpec == ScopingInit /\ [][ScopingNext]_scopingVars

-----------------------------------------------------------------------------
(* Type invariant of the symbol table and the frames.                      *)
TablesOK ==
  /\ generating \in BOOLEAN /\ arguments \in Seq(Vars)
  /\ first \in Nat /\ allocas \in Nat
  /\ NamedValues \in Tables
  /\ frames \in Seq(Frame)
  /\ failed \subseteq 0..Len(frames) /\ repeated \subseteq Vars

(* Every name in scope is bound to an alloca of the function being         *)
(* generated, through any errors and any names listed twice: code never    *)
(* refers to a variable of a function generated before.                    *)
OwnBindings ==
  generating => \A v \in Vars : NamedValues[v] \in {0} \cup (first + 1 .. allocas)

(* When a for or var expression is done, every name means what it meant    *)
(* before: lexical scoping, through any shadowing, and also in an operand  *)
(* to the right of one that failed.  Only a name that some var of the      *)
(* function lists twice may mean something else.                           *)
ScopesEnd ==
  [][EndExpr => \A v \in Vars \ repeated : NamedValues'[v] = Top.before[v]]_scopingVars

(* Why scopes end: each frame whose parts have not failed, restored over   *)
(* the table its sub-expressions leave, gives back the table it began      *)
(* with, up to the names listed twice.                                     *)
TableAfter(k) == IF k = Len(frames) THEN NamedValues ELSE frames[k + 1].before
FrameOK(frame, table, hasFailed) ==
  /\ ListedTwice(frame.names) \subseteq repeated
  /\ Bound(frame) <= Len(frame.names)
  /\ \A k \in 1..Bound(frame) :
       frame.names[k] \notin repeated => frame.old[k] = frame.before[frame.names[k]]
  /\ ~hasFailed => \A v \in Vars \ repeated :
       (\A k \in 1..Bound(frame) : frame.names[k] # v) => table[v] = frame.before[v]
ScopeInv ==
  /\ TablesOK
  /\ ~generating => frames = <<>> /\ failed = {}
  /\ generating /\ 0 \notin failed =>
       \A v \in Vars \ repeated : TableAfter(0)[v] = ArgTable(arguments, first)[v]
  /\ \A k \in 1..Len(frames) : FrameOK(frames[k], TableAfter(k), k \in failed)
=============================================================================
