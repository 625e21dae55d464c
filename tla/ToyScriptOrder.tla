--------------------------- MODULE ToyScriptOrder ---------------------------
(* What the scripts of the codegen routines keep to: the order of operations   *)
(* that ToyCodegenProofs shows every script to have, and from there on needs   *)
(* of a routine.  s is a script, pc a place in it, r a register.               *)
EXTENDS ToyScripts, Integers

(* The routines of all versions, each once: of functions, of expressions that  *)
(* make no blocks, and of those that do.  Only chapter 9 has debug locations.  *)
KindNames == {"Number", "Variable", "Binary", "Call", "Unary", "Assign", "If", "For", "Var"}
Functions == {Chapter3Function, Chapter7Function, MCJITInitialFunction}
Plain == {Chapter3Expressions.Number, Chapter3Expressions.Variable,
          Chapter3Expressions.Binary, Chapter3Expressions.Call,
          Chapter6Expressions.Unary, Chapter7Expressions.Variable,
          Chapter7Expressions.Assign, Chapter7Var}
Debugged == {Chapter9Expressions.Number, Chapter9Expressions.Variable,
             Chapter9Expressions.Binary, Chapter9Expressions.Call,
             Chapter9Expressions.Unary, Chapter9Expressions.Assign, Chapter9Var}
LoopScripts == {Chapter5For, Chapter7For}
Tables == {Expressions(Chapter3Expressions, Chapter3Function),
           Loops(Expressions(Chapter3Expressions, Chapter3Function), Chapter5If, Chapter5For),
           Loops(Expressions(Chapter6Expressions, Chapter3Function), Chapter5If, Chapter5For),
           Mutable(Loops(Expressions(Chapter7Expressions, Chapter7Function),
                         Chapter5If, Chapter7For), Chapter7Var),
           Mutable(Loops(Expressions(Chapter7Expressions, MCJITInitialFunction),
                         Chapter5If, Chapter7For), Chapter7Var)}
Chapter9Table == Mutable(Loops(Expressions(Chapter9Expressions, Chapter9Function),
                               Chapter9If, Chapter9For), Chapter9Var)
(* A table holds routines of those lists only, by the kind of node.            *)
Sorted(t) ==
  /\ DOMAIN t \subseteq KindNames \cup {"Function"}
  /\ "Function" \in DOMAIN t
  /\ t["Function"] \in Functions
  /\ \A k \in DOMAIN t : /\ k = "If" => t[k] = Chapter5If
                         /\ k = "For" => t[k] \in LoopScripts
                         /\ k \notin {"Function", "If", "For"} => t[k] \in Plain

(* The operations by what they name, and a script made of them.                *)
OneValue == {"gen", "genopt", "check", "lookup", "alloca", "return", "ret", "bind", "argument", "phi"}
OneBlock == {"new", "detached", "append", "here", "at", "br"}
Bare == {"callee", "unbind", "locate", "unlocate", "scope", "entry", "clear"}
Typed(o) ==
    \/ o[1] \in Bare
    \/ o[1] \in OneValue /\ o[2] \in Registers
    \/ o[1] \in OneBlock /\ o[2] \in BlockRegisters /\ o = <<o[1], o[2]>>
    \/ o[1] = "inst" /\ o[2] \in Registers /\ o[3] \in Registers /\ o[4] \in Registers
    \/ o[1] = "condbr" /\ o[2] \in Registers /\ o[3] \in BlockRegisters /\ o[4] \in BlockRegisters
    \/ o[1] = "incoming" /\ o[2] \in Registers /\ o[3] \in Registers /\ o[4] \in BlockRegisters
Ends == {"return", "ret"}
Shaped(s) ==
    /\ Len(s) \in Nat \ {0}
    /\ DOMAIN s = 1..Len(s)
    /\ \A pc \in DOMAIN s : Typed(s[pc]) /\ (s[pc][1] \in Ends <=> pc = Len(s))

(* The operations of FunctionAST::codegen alone, those on blocks and PHIs, on  *)
(* debug locations, those that call codegen, and those after which a register  *)
(* is not null.                                                                *)
FunctionOps == {"entry", "clear", "argument", "scope", "unlocate", "ret"}
BlockOps == {"new", "detached", "append", "here", "at", "br", "condbr", "phi", "incoming"}
DebugOps == {"locate", "unlocate", "scope"}
Gens == {"gen", "genopt"}
Sets == {"check", "inst", "phi", "alloca"}

(* What a routine has done before it is at pc.                                 *)
Passed(s, pc, ops) == \E j \in 1..(pc - 1) : s[j][1] \in ops
Before(s, pc, op) == \E j \in 1..(pc - 1) : s[j] = op
Creates(s, pc, r) == Before(s, pc, <<"new", r>>) \/ Before(s, pc, <<"detached", r>>)
Pending(s, pc, r) == Creates(s, pc, r) /\ ~Before(s, pc, <<"at", r>>)
Loose(s, pc, r) == Before(s, pc, <<"detached", r>>) /\ ~Before(s, pc, <<"append", r>>)
Held(s, pc, r) == Creates(s, pc, r) /\ ~Before(s, pc, <<"here", r>>)
Targeted(s, pc, r) ==
    \E j \in 1..(pc - 1) : \/ s[j] = <<"br", r>>
                           \/ s[j][1] = "condbr" /\ r \in {s[j][3], s[j][4]}
Ended(s, pc) ==
    \E j \in 1..(pc - 1) : /\ s[j][1] \in {"br", "condbr"}
                           /\ \A i \in (j + 1)..(pc - 1) : s[i][1] # "at"
Assigning == {"gen", "genopt", "lookup", "inst", "alloca", "phi"}

(* A register that can be null is assigned once.                               *)
AssignsOnce(s) == \A pc \in DOMAIN s : s[pc][1] \in Assigning =>
    /\ s[pc][2] # "const"
    /\ \A j \in 1..(pc - 1) :
          /\ s[j][1] \in Gens => s[j][2] # s[pc][2]
          /\ s[j][1] \in Sets /\ s[pc][1] \in {"gen", "genopt", "lookup"} => s[j][2] # s[pc][2]

(* What is returned is not null, and everything generated has been checked.    *)
ReturnsAt(s, pc) ==
    /\ s[pc][2] = "const" \/ \E j \in 1..(pc - 1) : s[j][1] \in Sets /\ s[j][2] = s[pc][2]
    /\ \A j \in 1..(pc - 1) :
          s[j][1] \in Gens => \E i \in 1..(pc - 1) : s[i] = <<"check", s[j][2]>>
Evaluates(s) ==
    /\ AssignsOnce(s)
    /\ \A pc \in DOMAIN s : s[pc][1] = "return" => ReturnsAt(s, pc)

(* FunctionAST::codegen makes its function and forgets all names first.        *)
Prologue(s) == \A pc \in DOMAIN s :
    /\ s[pc][1] \in FunctionOps \cup {"alloca", "inst", "gen", "locate"}
    /\ s[pc][1] \in {"alloca", "inst", "argument", "gen", "ret"} =>
          Passed(s, pc, {"entry"}) /\ Passed(s, pc, {"clear"})
    /\ s[pc][1] = "entry" => ~Passed(s, pc, {"entry"})
    /\ s[pc][1] = "ret" => \A j \in 1..(pc - 1) : s[j][1] \in Gens => s[j][2] = s[pc][2]

(* Blocks: the insertion point moves to a block once, after the current one is *)
(* terminated and something branches there; a block is made before anything    *)
(* names it, and a routine returns with none left over.                        *)
MovesAt(s, pc) ==
    Pending(s, pc, s[pc][2]) /\ Targeted(s, pc, s[pc][2]) /\ Ended(s, pc)
BranchesAt(s, pc) ==
    /\ s[pc][1] = "br" => Held(s, pc, s[pc][2])
    /\ s[pc][1] = "condbr" => Held(s, pc, s[pc][3]) /\ Held(s, pc, s[pc][4])
CreatesAt(s, pc) ==
    /\ ~Creates(s, pc, s[pc][2])
    /\ ~Before(s, pc, <<"at", s[pc][2]>>) /\ ~Before(s, pc, <<"here", s[pc][2]>>)
    /\ ~Before(s, pc, <<"append", s[pc][2]>>)
    /\ ~Targeted(s, pc, s[pc][2])
KeepsAt(s, pc) == ~Pending(s, pc, s[pc][2]) /\ ~Loose(s, pc, s[pc][2])
LeavesAt(s, pc) == \A r \in BlockRegisters : ~Pending(s, pc, r) /\ ~Loose(s, pc, r)
Splits(s) == \A pc \in DOMAIN s :
    /\ s[pc][1] = "at" => MovesAt(s, pc)
    /\ s[pc][1] \notin {"at", "here", "append"} => ~Ended(s, pc)
    /\ s[pc][1] \in {"br", "condbr"} => BranchesAt(s, pc)
    /\ s[pc][1] \in {"new", "detached"} => CreatesAt(s, pc)
    /\ s[pc][1] = "here" => KeepsAt(s, pc)
    /\ s[pc][1] = "return" => LeavesAt(s, pc)

AllFunctions == Functions \cup {Chapter9Function}
Blockless == Plain \cup Debugged
Splitting == LoopScripts \cup {Chapter5If, Chapter9If, Chapter9For}
AllScripts == AllFunctions \cup Blockless \cup Splitting

(* The routines that make no blocks.                                           *)
Simple(s) ==
  /\ Shaped(s) /\ Evaluates(s)
  /\ \A pc \in DOMAIN s : s[pc][1] \notin BlockOps \cup FunctionOps
NoDebug(s) == \A pc \in DOMAIN s :
    /\ s[pc][1] \notin DebugOps
    /\ s[pc][1] = "ret" => s[pc][3] = "keep" /\ s[pc][4] = "keep"

(* The routines of functions.                                                  *)
Whole(s) ==
  /\ Shaped(s) /\ AssignsOnce(s) /\ Prologue(s)

(* What the proofs need to know of the script of a routine.                    *)
Sane(v, k) ==
  LET s == Scripts[v][k] IN
  /\ k \in KindNames \cup {"Function"}
  /\ Shaped(s) /\ AssignsOnce(s) /\ Splits(s)
  /\ k # "Function" => Evaluates(s) /\ \A pc \in DOMAIN s : s[pc][1] \notin FunctionOps
  /\ k = "Function" => Prologue(s)
  /\ v # "Chapter9" => NoDebug(s)
  /\ v = "Chapter9" /\ k = "Function" => s = Chapter9Function

(* The operations that change blocks, and those that change PHIs as well.      *)
Shaping == {"new", "detached", "append", "here", "at", "br", "condbr"}
PhiShaping == Shaping \cup {"phi", "incoming"}

(* Dominance.  What a routine may take for computed at the insertion point: a  *)
(* constant, an alloca, and what it assigned since it last moved the insertion *)
(* point.  A register is solid when it cannot be null, once nothing failed.    *)
Rooted(s, pc, r) == r = "const" \/ \E j \in 1..(pc - 1) : s[j][1] = "alloca" /\ s[j][2] = r
Current(s, pc, r) ==
    \/ Rooted(s, pc, r)
    \/ \E j \in 1..(pc - 1) : /\ s[j][1] \in Assigning /\ s[j][2] = r
                              /\ \A i \in j..(pc - 1) : s[i][1] # "at"
Solid(s, pc, r) == r = "const" \/ \E j \in 1..(pc - 1) : s[j][1] \in Gens \cup Sets /\ s[j][2] = r

(* A block that was made where the insertion point still is; one that is to be *)
(* branched to; one whose name is that of the place where v was computed, for  *)
(* a PHI; and the time during which a name is bound.                           *)
Making == {"new", "detached", "br", "condbr"}
Fresh(s, pc, r) ==
    \E j \in 1..(pc - 1) : /\ s[j] = <<"new", r>> \/ s[j] = <<"detached", r>>
                           /\ \A i \in j..(pc - 1) : s[i][1] \in Making
Aims(o, r) == o = <<"br", r>> \/ (o[1] = "condbr" /\ (r = o[3] \/ r = o[4]))
Aimed(s, pc, r) == Held(s, pc, r) /\ \E j \in pc..Len(s) : Aims(s[j], r)
Placed(s, pc, v, b) ==
    /\ Before(s, pc, <<"here", b>>)
    /\ \E j \in DOMAIN s : s[j][1] = "incoming" /\ s[j][3] = v /\ s[j][4] = b
Binds(s, pc) == Passed(s, pc, {"bind"}) /\ ~Passed(s, pc, {"unbind"})

(* How the routines order their operations.                                    *)
UsesAt(s, pc) ==
    /\ s[pc][1] = "inst" => /\ Current(s, pc, s[pc][3]) /\ Solid(s, pc, s[pc][3])
                            /\ Current(s, pc, s[pc][4]) /\ Solid(s, pc, s[pc][4])
    /\ s[pc][1] = "condbr" => Current(s, pc, s[pc][2]) /\ Solid(s, pc, s[pc][2])
    /\ s[pc][1] \in {"bind", "argument", "return", "ret"} => Current(s, pc, s[pc][2])
    /\ s[pc][1] = "incoming" => Before(s, pc, <<"here", s[pc][4]>>) /\ Solid(s, pc, s[pc][3])
AssignsAt(s, pc) == s[pc][1] \in Assigning =>
    ~Rooted(s, pc, s[pc][2]) /\ \A b \in BlockRegisters : ~Placed(s, pc, s[pc][2], b)
BindsAt(s, pc) ==
    /\ s[pc][1] = "bind" => ~Passed(s, pc, {"bind"}) /\ ~Passed(s, pc, {"unbind"})
    /\ s[pc][1] = "unbind" => Binds(s, pc)
    /\ s[pc][1] = "return" => ~Binds(s, pc)
EntersAt(s, pc) == s[pc][1] = "entry" => \A r \in Registers : Current(s, pc, r) => r = "const"
PlacesAt(s, pc) ==
    /\ s[pc][1] = "at" =>
          /\ Binds(s, pc) => Fresh(s, pc, s[pc][2])
          /\ \A r \in BlockRegisters : Aimed(s, pc, r) => r = s[pc][2] \/ Pending(s, pc, r)
    /\ s[pc][1] \in {"new", "detached"} =>
          \A r \in BlockRegisters : Pending(s, pc, r) => Fresh(s, pc, r)
    /\ s[pc][1] = "here" =>
          \A v \in Registers : Placed(s, pc + 1, v, s[pc][2]) => Current(s, pc, v)
Ordered(s) == \A pc \in DOMAIN s :
    UsesAt(s, pc) /\ AssignsAt(s, pc) /\ BindsAt(s, pc) /\ EntersAt(s, pc) /\ PlacesAt(s, pc)

(* The order of a routine apart from its blocks.                               *)
Computes(s) == \A pc \in DOMAIN s :
    /\ UsesAt(s, pc) /\ BindsAt(s, pc)
    /\ s[pc][1] \in Assigning => ~Rooted(s, pc, s[pc][2])

=============================================================================
