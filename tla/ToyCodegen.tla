----------------------------- MODULE ToyCodegen ------------------------------
(* Code generation of the Kaleidoscope examples: the codegen routines of the   *)
(* AST call each other recursively and share one IR builder, one insertion     *)
(* point and one table of names.  The expression is any tree: which node comes *)
(* next is chosen when its codegen is called.  The scripts of ToyScripts say   *)
(* what each routine does; this module says what that does to the function.    *)
EXTENDS ToyScripts, Integers, FiniteSets

CONSTANTS Versions,     \* the versions to generate with
          Names,        \* names of variables; Argument is that of the argument
          Argument,
          MaxNodes,     \* inner nodes of an expression
          MaxFunctions  \* functions generated one after the other

ASSUME CodegenAssumption ==
    /\ Versions \subseteq DOMAIN Scripts
    /\ Argument \in Names
    /\ MaxNodes \in Nat /\ MaxFunctions \in Nat \ {0}

VARIABLES version,   \* which toy.cpp runs
          fn,        \* number of the body being generated, 0 before the first
          bodies,    \* functions of the module that have a body
          appended,  \* the function of this body had one before
          term,      \* how each of the body's blocks ends
          detached,  \* the blocks that are in no function
          insert,    \* the block of the insertion point
          phis,      \* the blocks that begin with a PHI
          incoming,  \* the values of the PHIs
          uses,      \* operands and the blocks they are used in
          scope,     \* the builder's debug location: a function, 0 for none
          lines,     \* the debug locations of its instructions
          named,     \* NamedValues
          scopes,    \* KSDbgInfo.LexicalBlocks
          stack,     \* frames of the codegen routines, the innermost last
          nodes,     \* inner nodes of this expression so far
          state      \* "idle", "generating", "finished", "erased" or "undefined"

functions == <<bodies, appended>>
blocks    == <<term, detached, insert>>
values    == <<phis, incoming, uses>>
debug     == <<scope, lines, scopes>>
vars      == <<version, fn, functions, blocks, values, debug, named, stack, nodes, state>>

-----------------------------------------------------------------------------
(* A value is where it is defined: the body and the block, block 0 for what is *)
(* there before the body: a constant, an argument, or an alloca in the entry   *)
(* block of an earlier body of the function.                                   *)
Value(f, b) == [fn |-> f, block |-> b]
Constant == Value(0, 0)
Null == Value(0, -1)

(* A block ends in nothing yet, in a branch to some blocks, or in a return.    *)
Open == [op |-> "open", to |-> {}]
Branch(to) == [op |-> "br", to |-> to]
Ret == [op |-> "ret", to |-> {}]

Routine(kind) == Scripts[version][kind]
Kinds == DOMAIN Scripts[version]
Leaves == {"Number", "Variable"}

Frame(kind, name) ==
    [kind |-> kind, name |-> name, pc |-> 1, old |-> Null,
     regs |-> [r \in Registers |-> IF r = "const" THEN Constant ELSE Null],
     bbs |-> [r \in BlockRegisters |-> 0]]

Init ==
    /\ version \in Versions
    /\ fn = 0 /\ bodies = 0 /\ appended = FALSE
    /\ insert = 0 /\ term = <<>> /\ detached = {}
    /\ phis = {} /\ incoming = {} /\ uses = {}
    /\ scope = 0 /\ lines = {} /\ scopes = <<>>
    /\ named = [n \in Names |-> Null]
    /\ stack = <<>>
    /\ nodes = 0
    /\ state = "idle"

-----------------------------------------------------------------------------
(* The routine that runs, the operation it is at, and its registers.           *)
Running == state = "generating" /\ stack # <<>>
Top == stack[Len(stack)]
Op == Routine(Top.kind)[Top.pc]
Doing(op) == Running /\ Op[1] = op
Reg(k) == Top.regs[Op[k]]
Block(k) == Top.bbs[Op[k]]

(* It goes on to its next operation, or returns v to its caller, which was at  *)
(* the gen it gives the value to.                                              *)
Moved(frame, regs, bbs, old) ==
    [kind |-> frame.kind, name |-> frame.name, pc |-> frame.pc + 1,
     old |-> old, regs |-> regs, bbs |-> bbs]
Goes(regs, bbs, old) ==
    /\ stack' = [stack EXCEPT ![Len(stack)] = Moved(Top, regs, bbs, old)]
    /\ UNCHANGED <<version, functions, nodes, state>>
Advance == Goes(Top.regs, Top.bbs, Top.old)
Assign(v) == Goes([Top.regs EXCEPT ![Op[2]] = v], Top.bbs, Top.old)
AssignBlock(b) == Goes(Top.regs, [Top.bbs EXCEPT ![Op[2]] = b], Top.old)

ReturnValue(v) ==
    LET n == Len(stack) - 1
        f == stack[n]
        r == Routine(f.kind)[f.pc][2]
    IN  /\ stack' = [SubSeq(stack, 1, n) EXCEPT
                        ![n] = Moved(f, [f.regs EXCEPT ![r] = v], f.bbs, f.old)]
        /\ UNCHANGED <<version, functions, nodes, state>>

-----------------------------------------------------------------------------
(* A Handle routine calls FunctionAST::codegen.  A version that keeps one      *)
(* module may find that the function has a body, and goes on all the same.     *)
BeginFunction ==
    /\ state \in {"idle", "finished", "erased"}
    /\ fn < MaxFunctions
    /\ appended' \in BOOLEAN
    /\ appended' => version \in OneModule /\ bodies > 0
    /\ state' = "generating"
    /\ stack' = <<Frame("Function", Argument)>>
    /\ nodes' = 0
    /\ UNCHANGED <<version, fn, bodies, blocks, values, debug, named>>

(* A routine calls codegen of a sub-expression, which can be of any kind.  The *)
(* destination of an assignment is taken for a variable without a test.        *)
Generate ==
    /\ Doing("gen") \/ Doing("genopt")
    /\ \E kind \in Kinds \ {"Function"}, name \in Names :
          /\ kind \in Leaves \/ nodes < MaxNodes
          /\ kind \in {"Variable", "Assign", "For", "Var"} \/ name = Argument
          /\ nodes' = IF kind \in Leaves THEN nodes ELSE nodes + 1
          /\ stack' = Append(stack, Frame(kind, name))
    /\ UNCHANGED <<version, fn, functions, blocks, values, debug, named, state>>

(* An optional sub-expression is not there.                                    *)
NoSubExpression ==
    /\ Doing("genopt")
    /\ Assign(Constant)
    /\ UNCHANGED <<fn, blocks, values, debug, named>>

Check ==
    /\ Doing("check")
    /\ IF Reg(2) = Null THEN ReturnValue(Null) ELSE Advance
    /\ UNCHANGED <<fn, blocks, values, debug, named>>

(* The function called is found, or it is not.                                 *)
Callee ==
    /\ Doing("callee")
    /\ Advance \/ ReturnValue(Null)
    /\ UNCHANGED <<fn, blocks, values, debug, named>>

Return ==
    /\ Doing("return")
    /\ ReturnValue(Reg(2))
    /\ UNCHANGED <<fn, blocks, values, debug, named>>

-----------------------------------------------------------------------------
Lookup ==
    /\ Doing("lookup")
    /\ Assign(named[Top.name])
    /\ UNCHANGED <<fn, blocks, values, debug, named>>

Inst ==
    /\ Doing("inst")
    /\ uses' = uses \cup {<<Reg(3), insert>>, <<Reg(4), insert>>}
    /\ lines' = lines \cup {scope}
    /\ Assign(Value(fn, insert))
    /\ UNCHANGED <<fn, blocks, phis, incoming, scope, scopes, named>>

(* The entry block is that of the function's first body.                       *)
EntryAlloca == IF appended THEN Constant ELSE Value(fn, 1)

CreateEntryBlockAlloca ==
    /\ Doing("alloca")
    /\ Assign(EntryAlloca)
    /\ UNCHANGED <<fn, blocks, values, debug, named>>

(* Blocks are numbered.                                                        *)
NewBlock ==
    /\ Doing("new") \/ Doing("detached")
    /\ term' = Append(term, Open)
    /\ detached' = IF Op[1] = "new" THEN detached ELSE detached \cup {Len(term) + 1}
    /\ AssignBlock(Len(term) + 1)
    /\ UNCHANGED <<fn, insert, values, debug, named>>

AppendBlock ==
    /\ Doing("append")
    /\ detached' = detached \ {Block(2)}
    /\ Advance
    /\ UNCHANGED <<fn, term, insert, values, debug, named>>

GetInsertBlock ==
    /\ Doing("here")
    /\ AssignBlock(insert)
    /\ UNCHANGED <<fn, blocks, values, debug, named>>

SetInsertPoint ==
    /\ Doing("at")
    /\ insert' = Block(2)
    /\ Advance
    /\ UNCHANGED <<fn, term, detached, values, debug, named>>

CreateBr ==
    /\ Doing("br")
    /\ term' = [term EXCEPT ![insert] = Branch({Block(2)})]
    /\ Advance
    /\ UNCHANGED <<fn, detached, insert, values, debug, named>>

CreateCondBr ==
    /\ Doing("condbr")
    /\ term' = [term EXCEPT ![insert] = Branch({Block(3), Block(4)})]
    /\ uses' = uses \cup {<<Reg(2), insert>>}
    /\ Advance
    /\ UNCHANGED <<fn, detached, insert, phis, incoming, debug, named>>

CreatePHI ==
    /\ Doing("phi")
    /\ phis' = phis \cup {insert}
    /\ Assign(Value(fn, insert))
    /\ UNCHANGED <<fn, blocks, incoming, uses, debug, named>>

AddIncoming ==
    /\ Doing("incoming")
    /\ incoming' = incoming \cup {[phi |-> Reg(2).block, value |-> Reg(3), from |-> Block(4)]}
    /\ Advance
    /\ UNCHANGED <<fn, blocks, phis, uses, debug, named>>

Bind ==
    /\ Doing("bind")
    /\ named' = [named EXCEPT ![Top.name] = Reg(2)]
    /\ Goes(Top.regs, Top.bbs, named[Top.name])
    /\ UNCHANGED <<fn, blocks, values, debug>>

(* Mistaken Restored and NoNames: nothing is taken back.                       *)
NotRestored == named
NotCleared == named

Restored == [named EXCEPT ![Top.name] = Top.old]

Unbind ==
    /\ Doing("unbind")
    /\ named' = Restored
    /\ Advance
    /\ UNCHANGED <<fn, blocks, values, debug>>

-----------------------------------------------------------------------------
(* FunctionAST::codegen begins a body with an entry block, which is appended   *)
(* to the blocks of an earlier one; what the builder was doing before is left  *)
(* behind, its debug location excepted.                                        *)
Entry ==
    /\ Doing("entry")
    /\ fn' = fn + 1
    /\ term' = <<Open>> /\ detached' = {} /\ insert' = 1
    /\ phis' = {} /\ incoming' = {} /\ uses' = {} /\ lines' = {}
    /\ Advance
    /\ UNCHANGED <<scope, scopes, named>>

NoNames == [n \in Names |-> Null]

Clear ==
    /\ Doing("clear")
    /\ named' = NoNames
    /\ Advance
    /\ UNCHANGED <<fn, blocks, values, debug>>

BindArgument ==
    /\ Doing("argument")
    /\ named' = [named EXCEPT ![Argument] = Reg(2)]
    /\ Advance
    /\ UNCHANGED <<fn, blocks, values, debug>>

PushScope ==
    /\ Doing("scope")
    /\ scopes' = Append(scopes, fn)
    /\ Advance
    /\ UNCHANGED <<fn, blocks, values, scope, lines, named>>

EmitLocation ==
    /\ Doing("locate") \/ Doing("unlocate")
    /\ scope' = IF Op[1] = "unlocate" \/ scopes = <<>> THEN 0 ELSE scopes[Len(scopes)]
    /\ Advance
    /\ UNCHANGED <<fn, blocks, values, lines, scopes, named>>

Popped == SubSeq(scopes, 1, Len(scopes) - 1)

(* The body has been generated: return its value, or erase the function with   *)
(* all its bodies; and pop its scope where this ending of the routine does.    *)
FinishFunction ==
    /\ Doing("ret")
    /\ IF Reg(2) # Null
       THEN /\ term' = [term EXCEPT ![insert] = Ret]
            /\ uses' = uses \cup {<<Reg(2), insert>>}
            /\ bodies' = IF appended THEN bodies ELSE bodies + 1
            /\ scopes' = IF Op[3] = "unscope" THEN Popped ELSE scopes
            /\ state' = "finished"
       ELSE /\ bodies' = IF appended THEN bodies - 1 ELSE bodies
            /\ scopes' = IF Op[4] = "unscope" THEN Popped ELSE scopes
            /\ state' = "erased"
            /\ UNCHANGED <<term, uses>>
    /\ stack' = <<>>
    /\ UNCHANGED <<version, fn, appended, detached, insert, phis, incoming, scope, lines,
                   named, nodes>>

(* The left-hand side of = is not a variable: the static_cast makes one of it, *)
(* its test for null never fails, and a name is read where there is none.      *)
AssignToNoVariable ==
    /\ Doing("gen") \/ Doing("genopt")
    /\ "Assign" \in Kinds /\ nodes < MaxNodes
    /\ state' = "undefined"
    /\ UNCHANGED <<version, fn, functions, blocks, values, debug, named, stack, nodes>>

Calls == \/ BeginFunction \/ Generate \/ NoSubExpression \/ Check \/ Callee \/ Return
         \/ FinishFunction \/ AssignToNoVariable
Builds == \/ Lookup \/ Inst \/ CreateEntryBlockAlloca \/ NewBlock \/ AppendBlock
          \/ GetInsertBlock \/ SetInsertPoint \/ CreateBr \/ CreateCondBr
          \/ CreatePHI \/ AddIncoming \/ Bind \/ Unbind
Frames == Entry \/ Clear \/ BindArgument \/ PushScope \/ EmitLocation

Next == Calls \/ Builds \/ Frames

Spec == Init /\ [][Next]_vars

-----------------------------------------------------------------------------
Finished == state = "finished"
Blocks == 1..Len(term)
Successors(b) == term[b].to
Predecessors(b) == {p \in Blocks : b \in Successors(p)}

(* A set of blocks that control cannot leave but into cut.  A block can be     *)
(* reached if no such set has the entry and not the block, and d dominates b   *)
(* if some set does that has only d to leave into.                             *)
Closed(S, cut) == \A b \in S : Successors(b) \subseteq S \cup cut
Dominates(d, b) ==
    d \in {0, b} \/ \E S \in SUBSET (Blocks \ {b}) : 1 \in S \cup {d} /\ Closed(S, {d})

(* Nothing is ever appended to a block that has its terminator, and in a       *)
(* finished body every block has one, is part of the function, and can be      *)
(* reached from the body's entry block; only one returns (IfExprAST and        *)
(* ForExprAST, which split blocks and move the insertion point, nested in any  *)
(* way).  The builder always works on a block of the body being generated.     *)
(* The entry block of an appended body itself is nobody's successor.           *)
Emits == {"inst", "phi", "br", "condbr"}
WellFormed ==
    /\ state = "generating" /\ term # <<>> => insert \in Blocks
    /\ Running /\ (Op[1] \in Emits \/ (Op[1] = "ret" /\ Reg(2) # Null)) => term[insert] = Open
    /\ Finished => /\ detached = {}
                   /\ \A b \in Blocks : term[b] # Open
                   /\ \A S \in SUBSET Blocks : 1 \in S /\ Closed(S, {}) => S = Blocks
                   /\ \E b \in Blocks : \A c \in Blocks : term[c] = Ret <=> c = b
                   /\ Predecessors(1) = {}

(* A PHI has one value for every predecessor of its block: the then and else   *)
(* blocks are those the branches end in, not those they began in.              *)
PhisMatch ==
    Finished => \A b \in phis :
        /\ \A p \in Predecessors(b) : \E i \in incoming : i.phi = b /\ i.from = p
        /\ \A i, j \in incoming :
              i.phi = b /\ j.phi = b => i.from \in Predecessors(b) /\ (i.from = j.from => i = j)

(* Every operand is computed before it is used, on every path: its block       *)
(* dominates that of the use, which for a PHI is the predecessor it is for.    *)
OperandsDominate ==
    Finished => /\ \A u \in uses : Dominates(u[1].block, u[2])
                /\ \A i \in incoming : Dominates(i.value.block, i.from)

(* No value of an earlier body gets into a body, erased or not: a failed one   *)
(* leaves its names behind, and the next must not find them.  Only the allocas *)
(* of an appended body are in the function's first one.                        *)
OwnOperands ==
    /\ \A u \in uses : u[1].fn \in {0, fn}
    /\ \A i \in incoming : i.value.fn \in {0, fn}

(* Chapter 9: an instruction's debug location is in the subprogram made for    *)
(* its own body, whatever bodies failed before, and no scope outlives the      *)
(* generation of its body, whichever way that ends.                            *)
ScopesMatch ==
    /\ lines \subseteq {0, fn}
    /\ state \in {"finished", "erased"} => scopes = <<>>
=============================================================================
