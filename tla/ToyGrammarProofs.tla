-------------------------- MODULE ToyGrammarProofs --------------------------
(***************************************************************************)
(* Proofs about ToyGrammar, for every version, any inputs of any length    *)
(* and any operators they define: how expressions are grouped, which       *)
(* operators are taken, and where nodes are located.                       *)
(***************************************************************************)
EXTENDS ToyGrammar, SequenceTheorems, TLAPS

(* The states of the routines, by the routine: ParsePrimary and what it    *)
(* calls for each form, ParsePrototype, and the routines of MainLoop.      *)
PrimaryStates ==
    {"primary", "paren", "parenEnd", "Paren", "Number", "Variable", "args", "arg", "nextArg",
     "Call", "cond", "afterCond", "thenPart", "afterThen", "elsePart", "If", "forName",
     "forAssign", "start", "afterStart", "end", "afterEnd", "step", "afterStep", "forBody",
     "For", "varName", "varInit", "init", "afterInit", "varBody", "Var"}
PrototypeStates ==
    {"prototype", "name", "params", "unaryName", "binaryName", "precedence", "Prototype"}
RootStates ==
    {"definition", "header", "body", "Definition", "toplevel", "TopLevel", "external",
     "declared", "Extern"}
OperatorStates == {"operand", "next", "merge"}
ExpressionCallers ==
    {"paren", "args", "nextArg", "cond", "thenPart", "elsePart", "start", "end", "step",
     "forBody", "init", "varBody", "body", "toplevel"}
PrototypeCallers == {"header", "declared"}

(* What the proofs use of the edge from s on label to t.                   *)
EdgeOK(s, label, t) ==
    /\ label # "eof" /\ t \notin {"primary", "prototype", "Unary", "Binary"}
    /\ s \in PrimaryStates => t \in PrimaryStates
    /\ s \in PrototypeStates => t \in PrototypeStates
    /\ s \in RootStates => t \in RootStates
    /\ s \in PrimaryStates \cup PrototypeStates \cup RootStates
    /\ t = "parenEnd" => s = "paren" /\ label = "expression"
    /\ s = "paren" => t = "parenEnd"
    /\ t = "Paren" => s = "parenEnd"
    /\ t = "binaryName" => s = "prototype" /\ label = "binary"
    /\ label = "expression" => s \in ExpressionCallers
    /\ label = "prototype" => s \in PrototypeCallers

NetOK(net) == \A e \in net : EdgeOK(e[1], e[2], e[3])

(* The network of every version is made of these edges.                    *)
AllEdges == Chapter2Forms \cup IfForm \cup ForForm \cup VarForm
              \cup Chapter2Items \cup OperatorPrototypes

LEMMA EdgesOfForms ==
  NetOK(Chapter2Forms) /\ NetOK(IfForm) /\ NetOK(ForForm) /\ NetOK(VarForm)
<1> USE DEF NetOK, EdgeOK, PrimaryStates, PrototypeStates, RootStates, ExpressionCallers,
            PrototypeCallers
<1>1. Comma \notin {"eof", "expression", "prototype", "binary"}
  BY DEF Comma
<1>2. NetOK(Chapter2Forms)
  BY <1>1 DEF Chapter2Forms
<1>3. NetOK(IfForm)
  BY DEF IfForm
<1>4. NetOK(ForForm)
  BY <1>1 DEF ForForm
<1>5. NetOK(VarForm)
  BY <1>1 DEF VarForm
<1> QED
  BY <1>2, <1>3, <1>4, <1>5

LEMMA EdgesOfItems == NetOK(Chapter2Items) /\ NetOK(OperatorPrototypes)
<1> USE DEF NetOK, EdgeOK, PrimaryStates, PrototypeStates, RootStates, ExpressionCallers,
            PrototypeCallers
<1>1. NetOK(Chapter2Items)
  BY DEF Chapter2Items
<1>2. NetOK(OperatorPrototypes)
  BY DEF OperatorPrototypes, AnyChar
<1> QED
  BY <1>1, <1>2

(* The operators that main installs have precedences of 1 to 100.          *)
TableOK(table) ==
    /\ table = [c \in DOMAIN table |-> table[c]]
    /\ \A c \in DOMAIN table : table[c] \in 1..100

LEMMA PutKeepsTable ==
  ASSUME NEW table, TableOK(table), NEW op, NEW prec \in 1..100
  PROVE  TableOK(Put(table, op, prec)) /\ DOMAIN Put(table, op, prec) = DOMAIN table \cup {op}
  BY DEF TableOK, Put

LEMMA StandardTables ==
  TableOK(Chapter2Standard) /\ TableOK(Chapter7Standard) /\ TableOK(MCJITInitialStandard)
<1>1. TableOK(Chapter2Standard)
  BY DEF TableOK, Chapter2Standard
<1>2. TableOK(Chapter7Standard)
  <2>1. 2 \in 1..100
    OBVIOUS
  <2>2. Chapter7Standard = Put(Chapter2Standard, "=", 2)
    BY DEF Chapter7Standard, Chapter6Standard, Chapter5Standard, Chapter4Standard,
           Chapter3Standard
  <2> QED
    BY <1>1, <2>1, <2>2, PutKeepsTable
<1>3. TableOK(MCJITInitialStandard)
  <2>1. 40 \in 1..100
    OBVIOUS
  <2> QED
    BY <1>2, <2>1, PutKeepsTable DEF MCJITInitialStandard
<1> QED
  BY <1>1, <1>2, <1>3

(* What the proofs use of a version, and that every version has it.        *)
GrammarOK(g) ==
    /\ g.net \subseteq AllEdges
    /\ TableOK(g.standard)
    /\ g.locations["Paren"] \notin {"first", "operator"}
    /\ \A n \in NodeNames \ {"Binary"} : g.locations[n] # "operator"

LEMMA LocationsAreRight ==
  ASSUME NEW locations \in {NoLocations, Chapter9Locations}
  PROVE  /\ locations["Paren"] \notin {"first", "operator"}
         /\ \A n \in NodeNames \ {"Binary"} : locations[n] # "operator"
<1>1. "Paren" \in NodeNames
  BY DEF NodeNames
<1>2. \A n \in NodeNames : NoLocations[n] = "none"
  BY DEF NoLocations
<1>3. \A n \in NodeNames : /\ Chapter9Locations[n] \in {"first", "operator", "inner", "current"}
                          /\ n # "Binary" => Chapter9Locations[n] # "operator"
  BY DEF Chapter9Locations
<1>4. Chapter9Locations["Paren"] = "inner"
  BY <1>1 DEF Chapter9Locations
<1> QED
  BY <1>1, <1>2, <1>3, <1>4

LEMMA VersionIsOK ==
  ASSUME NEW keywords, NEW operand, NEW install,
         NEW forms \in {Chapter2Forms, Chapter5Forms, Chapter7Forms},
         NEW items \in {Chapter2Items, Chapter6Items},
         NEW standard \in {Chapter2Standard, Chapter7Standard, MCJITInitialStandard},
         NEW locations \in {NoLocations, Chapter9Locations}
  PROVE  GrammarOK(Version(keywords, forms, operand, items, standard, install, locations))
<1>1. forms \cup items \subseteq AllEdges
  BY DEF AllEdges, Chapter3Forms, Chapter4Forms, Chapter5Forms, Chapter6Forms, Chapter7Forms,
         Chapter3Items, Chapter4Items, Chapter5Items, Chapter6Items
<1>2. TableOK(standard)
  BY StandardTables
<1> QED
  BY <1>1, <1>2, LocationsAreRight DEF GrammarOK, Version

LEMMA GrammarsAreOK == \A v \in DOMAIN Grammar : GrammarOK(Grammar[v])
<1> USE DEF
      Chapter3Forms, Chapter4Forms, Chapter6Forms, Chapter8Forms, Chapter9Forms,
      BuildingAJIT1Forms, BuildingAJIT2Forms, BuildingAJIT3Forms, BuildingAJIT4Forms,
      MCJITInitialForms, MCJITLazyForms, MCJITCachedForms, MCJITCompleteForms,
      ToyJITLazyForms, ToyJITCachedForms,
      Chapter3Items, Chapter4Items, Chapter5Items, Chapter7Items, Chapter8Items, Chapter9Items,
      BuildingAJIT1Items, BuildingAJIT2Items, BuildingAJIT3Items, BuildingAJIT4Items,
      MCJITInitialItems, MCJITLazyItems, MCJITCachedItems, MCJITCompleteItems,
      ToyJITLazyItems, ToyJITCachedItems,
      Chapter3Standard, Chapter4Standard, Chapter5Standard, Chapter6Standard, Chapter8Standard,
      Chapter9Standard, BuildingAJIT1Standard, BuildingAJIT2Standard, BuildingAJIT3Standard,
      BuildingAJIT4Standard, MCJITLazyStandard, MCJITCachedStandard, MCJITCompleteStandard,
      ToyJITLazyStandard, ToyJITCachedStandard
<1>1. \A v \in {"Chapter2", "Chapter3", "Chapter4", "Chapter5", "Chapter6"} : GrammarOK(Grammar[v])
  BY VersionIsOK DEF Grammar
<1>2. \A v \in {"Chapter7", "Chapter8", "Chapter9"} : GrammarOK(Grammar[v])
  BY VersionIsOK DEF Grammar
<1>3. \A v \in {"BuildingAJIT1", "BuildingAJIT2", "BuildingAJIT3", "BuildingAJIT4"} :
         GrammarOK(Grammar[v])
  BY VersionIsOK DEF Grammar
<1>4. \A v \in {"MCJITInitial", "MCJITLazy", "MCJITCached", "MCJITComplete", "ToyJITLazy",
               "ToyJITCached"} : GrammarOK(Grammar[v])
  BY VersionIsOK DEF Grammar
<1>5. DOMAIN Grammar \subseteq
        {"Chapter2", "Chapter3", "Chapter4", "Chapter5", "Chapter6", "Chapter7", "Chapter8",
         "Chapter9", "BuildingAJIT1", "BuildingAJIT2", "BuildingAJIT3", "BuildingAJIT4",
         "MCJITInitial", "MCJITLazy", "MCJITCached", "MCJITComplete", "ToyJITLazy",
         "ToyJITCached"}
  BY DEF Grammar
<1> QED
  BY <1>1, <1>2, <1>3, <1>4, <1>5

-----------------------------------------------------------------------------
(* Facts about a stack kept as a sequence, innermost element first.            *)

(* A sequence, of whatever it holds.                                           *)
IsSeq(s) == s \in Seq({s[i] : i \in DOMAIN s})

LEMMA SeqIsSeq ==
  ASSUME NEW S, NEW s \in Seq(S)
  PROVE  IsSeq(s)
<1> DEFINE R == {s[i] : i \in DOMAIN s}
<1>1. Len(s) \in Nat /\ s \in [1..Len(s) -> S]
  BY LenProperties
<1>2. s \in [1..Len(s) -> R]
  BY <1>1
<1>3. s \in Seq(R)
  BY <1>1, <1>2, SeqDef
<1> QED
  BY <1>3 DEF IsSeq

LEMMA IsSeqProperties ==
  ASSUME NEW s, IsSeq(s)
  PROVE  /\ Len(s) \in Nat
         /\ DOMAIN s = 1..Len(s)
  BY LenProperties DEF IsSeq

LEMMA EmptyIsSeq == IsSeq(<<>>) /\ Len(<<>>) = 0 /\ DOMAIN <<>> = {}
<1>1. <<>> \in Seq({}) /\ Len(<<>>) = 0
  BY EmptySeq
<1>2. DOMAIN <<>> = {}
  OBVIOUS
<1>3. IsSeq(<<>>)
  BY <1>1, SeqIsSeq
<1> QED
  BY <1>1, <1>2, <1>3

(* Pop.                                                                        *)
LEMMA TailIsSeq ==
  ASSUME NEW s, IsSeq(s), s # <<>>
  PROVE  /\ IsSeq(Tail(s))
         /\ Len(s) \in Nat \ {0}
         /\ Head(s) = s[1]
         /\ Len(Tail(s)) = Len(s) - 1
         /\ \A i \in 1..Len(Tail(s)) : Tail(s)[i] = s[i + 1]
<1> DEFINE S == {s[i] : i \in DOMAIN s}
<1>1. s \in Seq(S)
  BY DEF IsSeq
<1> HIDE DEF S
<1>2. Tail(s) \in Seq(S)
  BY <1>1, HeadTailProperties
<1>3. Len(s) \in Nat \ {0}
  BY <1>1, EmptySeq
<1>4. Head(s) = s[1]
  BY <1>1
<1>5. IsSeq(Tail(s))
  BY <1>2, SeqIsSeq
<1>6. /\ Len(Tail(s)) = Len(s) - 1
      /\ \A i \in 1..Len(Tail(s)) : Tail(s)[i] = s[i + 1]
  BY <1>1, HeadTailProperties
<1> QED
  BY <1>3, <1>4, <1>5, <1>6

(* Push.                                                                       *)
LEMMA PushIsSeq ==
  ASSUME NEW s, IsSeq(s), NEW e
  PROVE  /\ IsSeq(<<e>> \o s)
         /\ Len(<<e>> \o s) = Len(s) + 1
         /\ (<<e>> \o s)[1] = e
         /\ \A i \in 2..Len(s) + 1 : (<<e>> \o s)[i] = s[i - 1]
         /\ <<e>> \o s # <<>>
<1> DEFINE S == {s[i] : i \in DOMAIN s} \cup {e}
<1>1. s \in Seq(S)
  BY SeqMonotonic DEF IsSeq
<1>2. e \in S
  OBVIOUS
<1> HIDE DEF S
<1>3. <<e>> \in Seq(S) /\ Len(<<e>>) = 1 /\ <<e>>[1] = e
  BY <1>2
<1>4. Len(s) \in Nat
  BY <1>1, LenProperties
<1>5. /\ <<e>> \o s \in Seq(S)
      /\ Len(<<e>> \o s) = 1 + Len(s)
      /\ \A i \in 1..(1 + Len(s)) : (<<e>> \o s)[i] = IF i <= 1 THEN <<e>>[i] ELSE s[i - 1]
  BY <1>1, <1>3, ConcatProperties
<1>6. <<e>> \o s # <<>>
  BY <1>4, <1>5, EmptySeq
<1>7. IsSeq(<<e>> \o s)
  BY <1>5, SeqIsSeq
<1>8. Len(<<e>> \o s) = Len(s) + 1 /\ (<<e>> \o s)[1] = e
  BY <1>3, <1>4, <1>5
<1>9. \A i \in 2..Len(s) + 1 : (<<e>> \o s)[i] = s[i - 1]
  BY <1>4, <1>5
<1> QED
  BY <1>6, <1>7, <1>8, <1>9

-----------------------------------------------------------------------------
(* A record with the fields of a frame.                                    *)
IsFrame(f) ==
    f = [at |-> f.at, first |-> f.first, prec |-> f.prec, left |-> f.left,
         kind |-> f.kind, op |-> f.op, params |-> f.params]

(* The node of an expression that has been parsed when p tokens had been   *)
(* read: grouped by precedence, and where it should be.                    *)
NodeOK(g, p, n) ==
    /\ n = [node |-> n.node, prec |-> n.prec, left |-> n.left, right |-> n.right,
            first |-> n.first, loc |-> n.loc]
    /\ n.node \in NodeNames
    /\ n.prec \in 1..Tight
    /\ n.first \in Nat /\ n.first < p /\ n.loc \in Nat
    /\ n.node # "Binary" => n.prec = Tight
    /\ n.node = "Binary" => n.left >= n.prec /\ n.right > n.prec
    /\ g.locations["Number"] # "none" =>
          /\ g.locations[n.node] = "first" => n.loc = n.first
          /\ g.locations[n.node] = "operator" => n.first < n.loc /\ n.loc < p

(* A frame when p tokens have been read and ops are the operators that may *)
(* be taken: routines behind their first token have read one, a left       *)
(* operand is complete, and an operator that is kept has its precedence.   *)
FrameOK(g, ops, p, f) ==
    /\ IsFrame(f)
    /\ f.at \in {"expression", "rhs", "unary"} \cup OperatorStates \cup PrimaryStates
               \cup PrototypeStates \cup RootStates
    /\ f.first \in Nat \ {0} /\ f.first <= p
    /\ f.at \in {"unary"} \cup OperatorStates \cup (PrimaryStates \ {"primary"}) => f.first < p
    /\ f.left = Nothing \/ NodeOK(g, p, f.left)
    /\ f.at \in {"rhs", "parenEnd", "Paren"} => f.left # Nothing
    /\ f.at = "expression" => f.prec = 0
    /\ f.at = "rhs" => f.prec \in Nat /\ f.left.prec >= f.prec
    /\ f.at \in OperatorStates => f.prec \in 1..100 /\ f.op \in ops
    /\ f.at = "prototype" => f.op = "none"
    /\ f.at = "binaryName" => f.op = "none" /\ f.prec = 30
    /\ f.at \in PrototypeStates \cup RootStates => (f.op # "none" => f.prec \in 1..100)

(* Frame f was called by frame c.                                          *)
Called(f, c) ==
    /\ f.at \in {"unary"} \cup PrimaryStates => c.at \in {"expression", "next", "unary"}
    /\ f.at = "expression" => c.at \in ExpressionCallers
    /\ f.at = "rhs" => \/ c.at \in ExpressionCallers /\ f.prec = 0
                       \/ c.at = "merge" /\ f.prec = c.prec + 1
    /\ f.at \in OperatorStates => /\ c.at = "rhs"
                                  /\ f.prec >= c.prec /\ c.left.prec >= f.prec
                                  /\ c.left.first < f.first
    /\ f.at \in PrototypeStates => c.at \in PrototypeCallers
    /\ f.at \notin RootStates

(* A stack: every frame was called by the next one, the last by MainLoop.  *)
StackOK(g, ops, p, s) ==
    /\ IsSeq(s)
    /\ \A i \in 1..Len(s) : FrameOK(g, ops, p, s[i])
    /\ \A i \in 1..Len(s) : s[i].at \in RootStates <=> i = Len(s)
    /\ \A i \in 1..Len(s) : i # Len(s) => Called(s[i], s[i + 1])

(* What was returned to frame c, when next is the precedence of CurTok.    *)
ReturnOK(g, p, next, v, c) ==
    \/ c.at \in {"expression", "unary", "next"} /\ NodeOK(g, p, v) /\ v.prec = Tight
    \/ c.at = "merge" /\ NodeOK(g, p, v) /\ v.prec > c.prec /\ next <= c.prec
    \/ c.at \in ExpressionCallers /\ NodeOK(g, p, v)
    \/ /\ c.at \in PrototypeCallers
       /\ v = [node |-> "Prototype", op |-> v.op, prec |-> v.prec]
       /\ v.op # "none" => v.prec \in 1..100

Ops == DOMAIN G.standard \cup accepted

(* The inductive invariant.  The last two lines are why ParseBinOpRHS      *)
(* groups by precedence: what its loop has merged so far binds at least as *)
(* tightly as the operator that comes next.                                *)
ParserInv ==
    /\ version \in Versions
    /\ input \in Inputs
    /\ CurTok \notin Routines
    /\ pos \in Nat \ {0}
    /\ TableOK(BinopPrecedence) /\ DOMAIN BinopPrecedence \subseteq Ops
    /\ StackOK(G, Ops, pos, stack)
    /\ ret # Nothing => /\ stack # <<>>
                        /\ ReturnOK(G, pos, GetTokPrecedence(CurTok), ret, stack[1])
    /\ ret = Nothing /\ stack # <<>> /\ stack[1].at = "rhs" =>
          GetTokPrecedence(CurTok) <= stack[1].left.prec

-----------------------------------------------------------------------------
(* Reading on keeps what has been parsed.                                  *)
LEMMA LaterNode ==
  ASSUME NEW g, NEW p \in Nat, NEW q \in Nat, p <= q, NEW n, NodeOK(g, p, n)
  PROVE  NodeOK(g, q, n)
  BY DEF NodeOK

LEMMA LaterFrame ==
  ASSUME NEW g, NEW ops, NEW p \in Nat, NEW q \in Nat, p <= q, NEW f, FrameOK(g, ops, p, f)
  PROVE  FrameOK(g, ops, q, f)
<1>1. f.first <= p /\ f.first \in Nat
  BY DEF FrameOK
<1>2. f.left = Nothing \/ NodeOK(g, q, f.left)
  BY LaterNode DEF FrameOK
<1> QED
  BY <1>1, <1>2 DEF FrameOK

LEMMA LaterStack ==
  ASSUME NEW g, NEW ops, NEW p \in Nat, NEW q \in Nat, p <= q, NEW s, StackOK(g, ops, p, s)
  PROVE  StackOK(g, ops, q, s)
  BY LaterFrame DEF StackOK

LEMMA StackTop ==
  ASSUME NEW g, NEW ops, NEW p, NEW s, StackOK(g, ops, p, s), s # <<>>
  PROVE  /\ Len(s) \in Nat \ {0}
         /\ Head(s) = s[1]
         /\ FrameOK(g, ops, p, s[1])
         /\ s[1].at \notin RootStates => Len(s) >= 2 /\ Called(s[1], s[2])
<1>1. Len(s) \in Nat \ {0} /\ Head(s) = s[1]
  BY TailIsSeq DEF StackOK
<1> QED
  BY <1>1 DEF StackOK

(* Push, pop and replace.                                                  *)
LEMMA PushFrame ==
  ASSUME NEW g, NEW ops, NEW p, NEW s, StackOK(g, ops, p, s), s # <<>>,
         NEW f, FrameOK(g, ops, p, f), Called(f, s[1])
  PROVE  StackOK(g, ops, p, <<f>> \o s) /\ (<<f>> \o s)[1] = f /\ <<f>> \o s # <<>>
<1>1. Len(s) \in Nat \ {0}
  BY StackTop
<1> DEFINE t == <<f>> \o s
<1>2. /\ IsSeq(t) /\ Len(t) = Len(s) + 1 /\ t[1] = f /\ t # <<>>
      /\ \A i \in 2..Len(s) + 1 : t[i] = s[i - 1]
  BY PushIsSeq DEF StackOK
<1> HIDE DEF t
<1>3. ASSUME NEW i \in 1..Len(t)
      PROVE  /\ FrameOK(g, ops, p, t[i])
             /\ t[i].at \in RootStates <=> i = Len(t)
             /\ i # Len(t) => Called(t[i], t[i + 1])
  <2>1. CASE i = 1
    BY <1>1, <1>2, <2>1 DEF Called
  <2>2. CASE i # 1
    <3>1. i - 1 \in 1..Len(s) /\ t[i] = s[i - 1]
      BY <1>1, <1>2, <2>2
    <3>2. i # Len(t) => t[i + 1] = s[(i - 1) + 1] /\ i - 1 # Len(s)
      BY <1>1, <1>2, <2>2
    <3> QED
      BY <1>1, <1>2, <3>1, <3>2 DEF StackOK
  <2> QED
    BY <2>1, <2>2
<1>4. StackOK(g, ops, p, t)
  BY <1>2, <1>3 DEF StackOK
<1> QED
  BY <1>2, <1>4 DEF t

LEMMA PopFrame ==
  ASSUME NEW g, NEW ops, NEW p, NEW s, StackOK(g, ops, p, s), s # <<>>, s[1].at \notin RootStates
  PROVE  /\ StackOK(g, ops, p, Tail(s)) /\ Tail(s) # <<>>
         /\ Tail(s)[1] = s[2] /\ Called(s[1], s[2]) /\ FrameOK(g, ops, p, s[2])
<1>1. Len(s) \in Nat /\ Len(s) >= 2 /\ Called(s[1], s[2])
  BY StackTop
<1>2. /\ IsSeq(Tail(s)) /\ Len(Tail(s)) = Len(s) - 1
      /\ \A i \in 1..Len(Tail(s)) : Tail(s)[i] = s[i + 1]
  BY TailIsSeq DEF StackOK
<1>3. StackOK(g, ops, p, Tail(s))
  <2> DEFINE t == Tail(s)
  <2> HIDE DEF t
  <2>1. ASSUME NEW i \in 1..Len(t)
        PROVE  /\ FrameOK(g, ops, p, t[i])
               /\ t[i].at \in RootStates <=> i = Len(t)
               /\ i # Len(t) => Called(t[i], t[i + 1])
    <3>1. i + 1 \in 1..Len(s) /\ t[i] = s[i + 1]
      BY <1>1, <1>2 DEF t
    <3>2. Len(t) = Len(s) - 1
      BY <1>2 DEF t
    <3>3. CASE i = Len(t)
      BY <1>1, <3>1, <3>2, <3>3 DEF StackOK
    <3>4. CASE i # Len(t)
      <4>1. i + 1 \in 1..Len(t) /\ i + 1 # Len(s)
        BY <1>1, <3>1, <3>2, <3>4
      <4>2. t[i + 1] = s[(i + 1) + 1]
        BY <1>2, <4>1 DEF t
      <4> QED
        BY <3>1, <3>4, <4>1, <4>2 DEF StackOK
    <3> QED
      BY <3>3, <3>4
  <2> QED
    BY <1>2, <2>1 DEF StackOK, t
<1>4. Tail(s) # <<>>
  BY <1>1, <1>2, EmptyIsSeq
<1>5. Tail(s)[1] = s[2]
  <2>1. 1 \in 1..Len(Tail(s))
    BY <1>1, <1>2
  <2> QED
    BY <1>2, <2>1
<1>6. FrameOK(g, ops, p, s[2])
  BY <1>1 DEF StackOK
<1> QED
  BY <1>1, <1>3, <1>4, <1>5, <1>6

LEMMA ReplaceFrame ==
  ASSUME NEW g, NEW ops, NEW p, NEW s, StackOK(g, ops, p, s), s # <<>>,
         NEW f, FrameOK(g, ops, p, f), f.at \in RootStates <=> s[1].at \in RootStates,
         s[1].at \notin RootStates => Called(f, s[2])
  PROVE  /\ StackOK(g, ops, p, <<f>> \o Tail(s))
         /\ (<<f>> \o Tail(s))[1] = f /\ <<f>> \o Tail(s) # <<>>
<1>1. CASE s[1].at \notin RootStates
  <2>1. StackOK(g, ops, p, Tail(s)) /\ Tail(s) # <<>> /\ Tail(s)[1] = s[2]
    BY <1>1, PopFrame
  <2> DEFINE t == Tail(s)
  <2>2. StackOK(g, ops, p, t) /\ t # <<>> /\ Called(f, t[1])
    BY <1>1, <2>1
  <2> HIDE DEF t
  <2>3. StackOK(g, ops, p, <<f>> \o t) /\ (<<f>> \o t)[1] = f /\ <<f>> \o t # <<>>
    BY <2>2, PushFrame
  <2> QED
    BY <2>3 DEF t
<1>2. CASE s[1].at \in RootStates
  <2>1. Len(s) \in Nat \ {0} /\ Len(s) = 1
    <3>1. Len(s) \in Nat \ {0}
      BY StackTop
    <3>2. 1 \in 1..Len(s)
      BY <3>1
    <3> QED
      BY <1>2, <3>1, <3>2 DEF StackOK
  <2>2. IsSeq(Tail(s)) /\ Len(Tail(s)) = 0
    BY <2>1, TailIsSeq DEF StackOK
  <2> DEFINE t == <<f>> \o Tail(s)
  <2>3. IsSeq(t) /\ Len(t) = 1 /\ t[1] = f /\ t # <<>>
    BY <2>2, PushIsSeq
  <2> HIDE DEF t
  <2>4. StackOK(g, ops, p, t)
    BY <1>2, <2>3 DEF StackOK
  <2> QED
    BY <2>3, <2>4 DEF t
<1> QED
  BY <1>1, <1>2

LEMMA OneFrame ==
  ASSUME NEW g, NEW ops, NEW p, NEW f, FrameOK(g, ops, p, f), f.at \in RootStates
  PROVE  StackOK(g, ops, p, <<f>>) /\ <<f>> # <<>> /\ <<f>>[1] = f
<1>1. <<f>> \in Seq({f}) /\ Len(<<f>>) = 1 /\ <<f>>[1] = f /\ <<f>> # <<>>
  OBVIOUS
<1>2. IsSeq(<<f>>)
  BY <1>1, SeqIsSeq
<1> QED
  BY <1>1, <1>2 DEF StackOK

LEMMA NoFrame == ASSUME NEW g, NEW ops, NEW p PROVE StackOK(g, ops, p, <<>>)
  BY EmptyIsSeq DEF StackOK

-----------------------------------------------------------------------------
(* Which states there are of each kind.                                    *)
LEMMA StateSets ==
  /\ \A a \in {"expression", "rhs", "unary"} \cup OperatorStates :
        a \notin PrimaryStates \cup PrototypeStates \cup RootStates
  /\ \A a \in PrimaryStates : a \notin PrototypeStates \cup RootStates
  /\ \A a \in PrototypeStates : a \notin RootStates
  /\ {"primary", "paren", "parenEnd", "Paren"} \subseteq PrimaryStates
  /\ {"Unary", "Binary"} \cap ({"expression", "rhs", "unary"} \cup OperatorStates \cup PrimaryStates
                               \cup PrototypeStates \cup RootStates) = {}
  /\ NodeNames \ {"Unary", "Binary"} \subseteq PrimaryStates \ {"primary"}
  /\ {"prototype", "binaryName", "name", "params", "precedence", "Prototype"} \subseteq PrototypeStates
  /\ {"definition", "toplevel", "external", "Definition", "TopLevel", "Extern"} \subseteq RootStates
  /\ \A a \in ExpressionCallers : /\ a \in PrimaryStates \cup RootStates
                                  /\ a \notin PrototypeCallers \cup {"primary", "definition"}
  /\ \A a \in PrototypeCallers : a \in RootStates \ {"definition"}
  BY DEF PrimaryStates, PrototypeStates, RootStates, OperatorStates, ExpressionCallers,
         PrototypeCallers, NodeNames

LEMMA GrammarFacts ==
  ASSUME ParserInv
  PROVE  /\ TableOK(G.standard)
         /\ \A e \in G.net : EdgeOK(e[1], e[2], e[3])
         /\ G.locations["Paren"] \notin {"first", "operator"}
         /\ \A n \in NodeNames \ {"Binary"} : G.locations[n] # "operator"
<1>1. GrammarOK(G)
  BY GrammarsAreOK, GrammarAssumption DEF ParserInv, G
<1>2. \A e \in AllEdges : EdgeOK(e[1], e[2], e[3])
  BY EdgesOfForms, EdgesOfItems DEF AllEdges, NetOK
<1> QED
  BY <1>1, <1>2 DEF GrammarOK

(* The precedence of a token, and the operators that have one.             *)
LEMMA TokenPrecedence ==
  ASSUME ParserInv, NEW token
  PROVE  /\ GetTokPrecedence(token) \in Int /\ GetTokPrecedence(token) <= 100
         /\ GetTokPrecedence(token) >= 0 => /\ GetTokPrecedence(token) >= 1
                                            /\ token # "eof" /\ token \in Ops
<1>1. token \in Chars => token # "eof"
  BY DEF Chars, Classes
<1>2. CASE IsChar(token) /\ token \in DOMAIN BinopPrecedence
  <2>1. BinopPrecedence[token] \in 1..100 /\ token \in Ops
    BY <1>2 DEF ParserInv, TableOK
  <2>2. GetTokPrecedence(token) = BinopPrecedence[token]
    BY <1>2 DEF GetTokPrecedence
  <2> QED
    BY <1>1, <1>2, <2>1, <2>2 DEF IsChar
<1>3. CASE ~(IsChar(token) /\ token \in DOMAIN BinopPrecedence)
  BY <1>3 DEF GetTokPrecedence
<1> QED
  BY <1>2, <1>3

(* No token is taken for a routine.                                        *)
LEMMA WordsAreTokens ==
  ASSUME input \in Inputs, NEW p \in Nat \ {0}, NEW word \in WordsAt(p)
  PROVE  Lexed(word) \notin Routines
<1>1. word \in {"eof"} \cup input.words \cup Range(input.opening)
  <2>1. CASE p <= Len(input.opening)
    <3>1. p \in DOMAIN input.opening /\ word = input.opening[p]
      BY <2>1, GrammarAssumption DEF WordsAt
    <3> QED
      BY <3>1 DEF Range
  <2>2. CASE ~(p <= Len(input.opening))
    BY <2>2 DEF WordsAt
  <2> QED
    BY <2>1, <2>2
<1>2. word \notin Routines
  BY <1>1, GrammarAssumption DEF Routines
<1> QED
  BY <1>2 DEF Lexed, Routines

(* The lexer gets on unless the input has ended.                           *)
LEMMA Lexes ==
  ASSUME ParserInv, getNextToken
  PROVE  /\ pos' \in Nat \ {0} /\ pos <= pos' /\ (CurTok # "eof" => pos' = pos + 1)
         /\ CurTok' \notin Routines
<1>1. ASSUME NEW p \in Nat \ {0}, NEW word \in WordsAt(p)
      PROVE  Lexed(word) \notin Routines
  BY WordsAreTokens DEF ParserInv
<1>2. Lexed("eof") \notin Routines
  BY DEF Lexed, Routines
<1> QED
  BY <1>1, <1>2 DEF ParserInv, getNextToken

(* A new frame.                                                            *)
LEMMA NewFrame ==
  ASSUME NEW g, NEW ops, NEW p \in Nat \ {0}, NEW at \in {"expression", "primary", "prototype"} \cup RootStates
  PROVE  FrameOK(g, ops, p, Frame(at, p)) /\ Frame(at, p).at = at
<1>1. Frame(at, p).at = at
  BY DEF Frame
<1>2. at \notin {"unary", "rhs", "parenEnd", "Paren", "binaryName"} \cup OperatorStates
  <2>1. CASE at \in RootStates
    BY <2>1, StateSets
  <2>2. CASE at \in {"expression", "primary", "prototype"}
    BY <2>2 DEF OperatorStates
  <2> QED
    BY <2>1, <2>2
<1> QED
  BY <1>1, <1>2, StateSets DEF FrameOK, Frame, IsFrame

LEMMA Assembled ==
  ASSUME ParserInv, UNCHANGED <<version, input, BinopPrecedence, accepted>>,
         CurTok' \notin Routines,
         pos' \in Nat \ {0},
         StackOK(G, Ops, pos', stack'),
         ret' # Nothing => /\ stack' # <<>>
                           /\ ReturnOK(G, pos', GetTokPrecedence(CurTok'), ret', stack'[1]),
         ret' = Nothing /\ stack' # <<>> /\ stack'[1].at = "rhs" =>
             GetTokPrecedence(CurTok') <= stack'[1].left.prec
  PROVE  ParserInv'
<1>1. G' = G /\ Ops' = Ops
  BY DEF G, Ops
<1>2. GetTokPrecedence(CurTok)' = GetTokPrecedence(CurTok')
  BY DEF GetTokPrecedence, IsChar
<1> QED
  BY <1>1, <1>2 DEF ParserInv

-----------------------------------------------------------------------------
(* The invariant holds at the start, and every step keeps it.              *)
LEMMA ParserInvInit == Init => ParserInv
<1> SUFFICES ASSUME Init PROVE ParserInv
  OBVIOUS
<1>1. G.standard = BinopPrecedence /\ TableOK(G.standard)
  BY GrammarsAreOK, GrammarAssumption DEF Init, G, GrammarOK
<1>2. StackOK(G, Ops, pos, stack)
  BY NoFrame DEF Init
<1>3. CurTok \notin Routines
  BY WordsAreTokens DEF Init
<1> QED
  BY <1>1, <1>2, <1>3 DEF Init, ParserInv, Ops

LEMMA MainLoopKeepsInv == ASSUME ParserInv, MainLoop PROVE ParserInv'
<1>1. ret = Nothing /\ ret' = Nothing /\ UNCHANGED <<version, input, BinopPrecedence, accepted>>
  BY DEF MainLoop, ParserInv
<1>2. CASE CurTok' = CurTok /\ pos' = pos /\ stack' = stack
  <2>1. StackOK(G, Ops, pos', stack') /\ CurTok' \notin Routines
    BY <1>2 DEF ParserInv
  <2> QED
    BY <1>1, <1>2, <2>1, Assembled DEF MainLoop, ParserInv
<1>3. CASE getNextToken /\ stack' = stack
  <2>1. pos' \in Nat \ {0} /\ StackOK(G, Ops, pos', stack') /\ CurTok' \notin Routines
    BY <1>3, Lexes, LaterStack DEF ParserInv
  <2> QED
    BY <1>1, <1>3, <2>1, Assembled DEF MainLoop
<1>4. ASSUME NEW at \in {"definition", "external", "toplevel"},
             stack' = <<Frame(at, pos)>>, UNCHANGED <<CurTok, pos>>
      PROVE  ParserInv'
  <2>1. at \in RootStates /\ at # "rhs"
    BY StateSets
  <2>2. FrameOK(G, Ops, pos, Frame(at, pos)) /\ Frame(at, pos).at = at
    BY <2>1, NewFrame DEF ParserInv
  <2>3. StackOK(G, Ops, pos, stack') /\ stack'[1] = Frame(at, pos)
    BY <1>4, <2>1, <2>2, OneFrame
  <2>4. pos' \in Nat \ {0} /\ CurTok' \notin Routines
    BY <1>4 DEF ParserInv
  <2> QED
    BY <1>1, <1>4, <2>1, <2>2, <2>3, <2>4, Assembled
<1> QED
  BY <1>2, <1>3, <1>4 DEF MainLoop

(* Error recovery starts again with an empty stack.                        *)
LEMMA FailsKeepsInv == ASSUME ParserInv, Fails PROVE ParserInv'
<1>1. pos' \in Nat \ {0} /\ stack' = <<>> /\ ret' = Nothing /\ CurTok' \notin Routines
  BY Lexes DEF Fails, SkipToken
<1>2. StackOK(G, Ops, pos', stack')
  BY <1>1, NoFrame
<1> QED
  BY <1>1, <1>2, Assembled DEF Fails

(* What a prototype's frame takes note of.                                 *)
LEMMA NotedFields ==
  ASSUME NEW f, IsFrame(f), NEW token, NEW n, n = Noted(f, token)
  PROVE  /\ IsFrame(n)
         /\ n.at = f.at /\ n.first = f.first /\ n.left = f.left
         /\ f.at # "binaryName" => n.op = f.op
         /\ f.at # "prototype" => n.prec = f.prec
         /\ f.at = "prototype" /\ token = "binary" => n.prec = 30
<1>1. CASE f.at = "prototype"
  <2>1. /\ n = [f EXCEPT !.kind = n.kind, !.prec = n.prec]
        /\ token = "binary" => n.prec = 30
    BY <1>1 DEF Noted, IsFrame
  <2> QED
    BY <1>1, <2>1 DEF IsFrame
<1>2. CASE f.at = "binaryName"
  BY <1>2 DEF Noted, IsFrame
<1>3. CASE f.at = "params" /\ token = "identifier"
  <2>1. n = [f EXCEPT !.params = n.params]
    BY <1>3 DEF Noted, IsFrame
  <2> QED
    BY <1>3, <2>1 DEF IsFrame
<1>4. CASE f.at \notin {"prototype", "binaryName"} /\ ~(f.at = "params" /\ token = "identifier")
  <2>1. n = f
    BY <1>4 DEF Noted
  <2> QED
    BY <1>4, <2>1
<1> QED
  BY <1>1, <1>2, <1>3, <1>4

(* The frame of a routine that has consumed a token.                       *)
Consumed(f, token, t) == [Noted(f, token) EXCEPT !.at = t]

LEMMA ConsumedFrame ==
  ASSUME NEW g, NEW ops, NEW p \in Nat \ {0}, NEW f, FrameOK(g, ops, p, f),
         NEW label, NEW t, EdgeOK(f.at, label, t), NEW token,
         label = token \/ label = AnyChar, label \notin Routines
  PROVE  FrameOK(g, ops, p + 1, Consumed(f, token, t)) /\ Consumed(f, token, t).at = t
<1> DEFINE m == Noted(f, token)
           n == Consumed(f, token, t)
<1>1. /\ IsFrame(m)
      /\ m.at = f.at /\ m.first = f.first /\ m.left = f.left
      /\ f.at # "binaryName" => m.op = f.op
      /\ f.at # "prototype" => m.prec = f.prec
      /\ f.at = "prototype" /\ token = "binary" => m.prec = 30
  BY NotedFields DEF FrameOK
<1> HIDE DEF m
<1>2. /\ IsFrame(n) /\ n.at = t /\ n.first = f.first /\ n.left = f.left
      /\ n.op = m.op /\ n.prec = m.prec
  BY <1>1 DEF IsFrame, Consumed, m
<1> HIDE DEF n
<1>3. f.left = Nothing \/ NodeOK(g, p + 1, f.left)
  BY LaterNode DEF FrameOK
<1>4. f.first \in Nat \ {0} /\ f.first < p + 1
  BY DEF FrameOK
<1>5. t \in PrimaryStates \cup PrototypeStates \cup RootStates
  BY DEF EdgeOK
<1>6. t \notin {"expression", "rhs", "unary", "prototype"} \cup OperatorStates
  BY <1>5, StateSets DEF EdgeOK
<1>7. t \in {"parenEnd", "Paren"} => f.left # Nothing
  BY StateSets DEF EdgeOK, FrameOK, Routines
<1>8. t = "binaryName" => n.op = "none" /\ n.prec = 30
  <2>1. AnyChar # "binary"
    BY DEF AnyChar
  <2> QED
    BY <1>1, <1>2, <2>1 DEF EdgeOK, FrameOK
<1>9. t \in PrototypeStates \cup RootStates => (n.op # "none" => n.prec \in 1..100)
  <2>1. f.at = "prototype" => n.op = "none"
    BY <1>1, <1>2 DEF FrameOK
  <2>2. f.at = "binaryName" => n.prec = 30
    BY <1>1, <1>2 DEF FrameOK
  <2>3. t \in PrototypeStates \cup RootStates => f.at \in PrototypeStates \cup RootStates
    BY StateSets DEF EdgeOK
  <2>4. f.at \notin {"prototype", "binaryName"} => n.op = f.op /\ n.prec = f.prec
    BY <1>1, <1>2
  <2> QED
    BY <2>1, <2>2, <2>3, <2>4 DEF FrameOK
<1> QED
  BY <1>2, <1>3, <1>4, <1>5, <1>6, <1>7, <1>8, <1>9 DEF FrameOK, n

LEMMA ConsumeKeepsInv == ASSUME ParserInv, Consume PROVE ParserInv'
<1> DEFINE f == stack[1]
<1>1. /\ ret = Nothing /\ ret' = Nothing /\ stack # <<>> /\ Top = f
      /\ UNCHANGED <<version, input, BinopPrecedence, accepted>> /\ getNextToken
      /\ pos \in Nat \ {0} /\ FrameOK(G, Ops, pos, f)
      /\ f.at \notin RootStates => Called(f, stack[2])
  BY StackTop DEF Consume, Running, ParserInv, Top
<1>2. PICK e \in Consuming : stack' = Replace([Noted(f, CurTok) EXCEPT !.at = e[3]])
  BY <1>1 DEF Consume
<1> DEFINE t == e[3]
           n == Consumed(f, CurTok, t)
<1>3. /\ EdgeOK(f.at, e[2], t) /\ e[2] \notin Routines
      /\ e[2] = CurTok \/ (e[2] = AnyChar /\ IsChar(CurTok))
  <2>1. AnyChar \notin Routines
    BY DEF AnyChar, Routines
  <2> QED
    BY <1>1, <2>1, GrammarFacts DEF Consuming, Matches, ParserInv
<1>4. CurTok # "eof"
  BY <1>3 DEF EdgeOK, IsChar, Chars, Classes
<1>5. pos' = pos + 1
  BY <1>1, <1>4, Lexes
<1> HIDE DEF n, f, t
<1>6. FrameOK(G, Ops, pos + 1, n) /\ n.at = t
  <2>2. e[2] = CurTok \/ e[2] = AnyChar
    BY <1>3
  <2>3. FrameOK(G, Ops, pos, f) /\ pos \in Nat \ {0}
    BY <1>1
  <2>4. EdgeOK(f.at, e[2], t) /\ e[2] \notin Routines
    BY <1>3
  <2> QED
    BY <2>2, <2>3, <2>4, ConsumedFrame DEF n
<1>7. StackOK(G, Ops, pos + 1, stack)
  BY <1>1, LaterStack DEF ParserInv
<1>8. t # "rhs" /\ (t \in RootStates <=> f.at \in RootStates)
  BY <1>3, StateSets DEF EdgeOK
<1>9. f.at \notin RootStates => Called(n, stack[2])
  BY <1>1, <1>3, <1>6, <1>8, StateSets DEF EdgeOK, Called
<1>10. StackOK(G, Ops, pos + 1, <<n>> \o Tail(stack)) /\ (<<n>> \o Tail(stack))[1] = n
  BY <1>1, <1>6, <1>7, <1>8, <1>9, ReplaceFrame DEF f
<1>11. stack' = <<n>> \o Tail(stack)
  BY <1>2 DEF n, t, Replace, Consumed
<1>12. pos' \in Nat \ {0} /\ CurTok' \notin Routines
  BY <1>1, Lexes
<1> QED
  BY <1>1, <1>5, <1>6, <1>8, <1>10, <1>11, <1>12, Assembled

(* What a step of the routine on top finds.                                *)
LEMMA Innermost ==
  ASSUME ParserInv, Running
  PROVE  /\ stack # <<>> /\ Top = stack[1]
         /\ pos \in Nat \ {0} /\ StackOK(G, Ops, pos, stack)
         /\ FrameOK(G, Ops, pos, stack[1])
         /\ stack[1].at \notin RootStates =>
                /\ Called(stack[1], stack[2]) /\ FrameOK(G, Ops, pos, stack[2])
                /\ StackOK(G, Ops, pos, Tail(stack)) /\ Tail(stack) # <<>>
                /\ Tail(stack)[1] = stack[2]
  BY StackTop, PopFrame DEF Running, ParserInv, Top

(* A frame that goes on in another state, with other fields.               *)
With(f, at, prec, left, op) ==
    [f EXCEPT !.at = at, !.left = left, !.op = op, !.prec = prec]

LEMMA WithFields ==
  ASSUME NEW f, IsFrame(f), NEW at, NEW prec, NEW left, NEW op
  PROVE  /\ IsFrame(With(f, at, prec, left, op))
         /\ With(f, at, prec, left, op).at = at
         /\ With(f, at, prec, left, op).first = f.first
         /\ With(f, at, prec, left, op).prec = prec
         /\ With(f, at, prec, left, op).left = left
         /\ With(f, at, prec, left, op).op = op
<1> DEFINE n == With(f, at, prec, left, op)
           fields == {"at", "first", "prec", "left", "kind", "op", "params"}
<1>1. DOMAIN f = fields /\ f = [x \in DOMAIN f |-> f[x]]
  BY DEF IsFrame
<1>2. n = [x \in fields |-> CASE x = "at" -> at [] x = "prec" -> prec [] x = "left" -> left
                             [] x = "op" -> op [] OTHER -> f[x]]
  BY <1>1 DEF With
<1>3. n.at = at /\ n.first = f.first /\ n.prec = prec /\ n.left = left /\ n.op = op
  BY <1>2
<1>4. IsFrame(n)
  BY <1>2 DEF IsFrame
<1> QED
  BY <1>3, <1>4

LEMMA AlsoWith ==
  ASSUME NEW f, IsFrame(f)
  PROVE  /\ \A at : [f EXCEPT !.at = at] = With(f, at, f.prec, f.left, f.op)
         /\ \A at, prec : [f EXCEPT !.at = at, !.prec = prec] = With(f, at, prec, f.left, f.op)
         /\ \A at, left : [f EXCEPT !.at = at, !.left = left] = With(f, at, f.prec, left, f.op)
         /\ \A left : [f EXCEPT !.left = left] = With(f, f.at, f.prec, left, f.op)
  BY DEF IsFrame, With

LEMMA ReadPrecedenceKeepsInv == ASSUME ParserInv, ReadPrecedence PROVE ParserInv'
<1>1. CASE Fails
  BY <1>1, FailsKeepsInv
<1>2. ASSUME NEW n \in Precedences, ValidPrecedence(n),
             stack' = Replace([Top EXCEPT !.at = "name", !.prec = n]), getNextToken,
             UNCHANGED <<version, input, ret, BinopPrecedence, accepted, state>>
      PROVE  ParserInv'
  <2> DEFINE f == stack[1]
             new == With(f, "name", n, f.left, f.op)
  <2>1. /\ stack # <<>> /\ Top = f /\ pos \in Nat \ {0} /\ FrameOK(G, Ops, pos, f)
        /\ StackOK(G, Ops, pos, stack) /\ f.at = "precedence" /\ ret = Nothing
        /\ CurTok = "number"
    BY Innermost DEF ReadPrecedence
  <2>2. /\ pos' = pos + 1 /\ CurTok' \notin Routines /\ pos' \in Nat \ {0}
        /\ FrameOK(G, Ops, pos', f) /\ StackOK(G, Ops, pos', stack)
    BY <1>2, <2>1, Lexes, LaterFrame, LaterStack
  <2>3. f.at \in PrototypeStates /\ f.at \notin RootStates
    BY <2>1, StateSets
  <2>4. Called(f, stack[2])
    BY <2>3, Innermost DEF ReadPrecedence
  <2>5. /\ IsFrame(new) /\ new.at = "name" /\ new.first = f.first /\ new.prec = n
        /\ new.left = f.left /\ new.op = f.op
    BY <2>1, WithFields DEF FrameOK
  <2>6. "name" \in PrototypeStates /\ "name" \notin RootStates \cup PrimaryStates
                                                   \cup OperatorStates
    BY StateSets DEF OperatorStates
  <2>9. stack' = <<new>> \o Tail(stack)
    <3>1. IsFrame(f)
      BY <2>1 DEF FrameOK
    <3> HIDE DEF f
    <3>2. [f EXCEPT !.at = "name", !.prec = n] = new
      BY <3>1 DEF IsFrame, With
    <3> QED
      BY <1>2, <2>1, <3>2 DEF Replace
  <2> HIDE DEF new
  <2>7. FrameOK(G, Ops, pos', new)
    BY <1>2, <2>2, <2>5, <2>6 DEF FrameOK, ValidPrecedence
  <2>8. Called(new, stack[2])
    BY <2>3, <2>4, <2>5, <2>6 DEF Called
  <2>10. StackOK(G, Ops, pos', stack') /\ stack'[1] = new /\ new.at = "name"
    BY <2>1, <2>2, <2>3, <2>5, <2>6, <2>7, <2>8, <2>9, ReplaceFrame
  <2> QED
    BY <1>2, <2>1, <2>2, <2>10, Assembled
<1> QED
  BY <1>1, <1>2 DEF ReadPrecedence

LEMMA CallKeepsInv == ASSUME ParserInv, Call PROVE ParserInv'
<1>1. PICK e \in Calling : stack' = <<Frame(e[2], pos)>> \o stack
  BY DEF Call
<1>2. /\ stack # <<>> /\ pos \in Nat \ {0} /\ StackOK(G, Ops, pos, stack)
      /\ Top = stack[1] /\ ret = Nothing /\ ret' = Nothing
  BY Innermost DEF Call
<1>3. EdgeOK(stack[1].at, e[2], e[3]) /\ e[2] \in Routines
  BY <1>2, GrammarFacts DEF Calling
<1> DEFINE f == Frame(e[2], pos)
<1>4. FrameOK(G, Ops, pos, f) /\ f.at = e[2]
  BY <1>2, <1>3, NewFrame DEF Routines
<1>5. f.at \notin {"rhs", "unary"} \cup PrimaryStates \cup RootStates \cup OperatorStates
  BY <1>3, <1>4, StateSets DEF Routines, OperatorStates
<1>6. Called(f, stack[1])
  BY <1>3, <1>4, <1>5, StateSets DEF Called, EdgeOK, Routines
<1> HIDE DEF f
<1>7. StackOK(G, Ops, pos, <<f>> \o stack) /\ (<<f>> \o stack)[1] = f
  BY <1>2, <1>4, <1>6, PushFrame
<1>8. stack' = <<f>> \o stack
  BY <1>1 DEF f
<1> QED
  BY <1>2, <1>5, <1>7, <1>8, Assembled DEF Call, ParserInv

(* A node is not the absence of one.                                       *)
LEMMA NodeIsSomething ==
  /\ \A g, p, n : NodeOK(g, p, n) => n # Nothing /\ n.node # "Prototype"
  /\ \A op, prec : [node |-> "Prototype", op |-> op, prec |-> prec] # Nothing
<1>1. "nothing" \notin NodeNames /\ "Prototype" \notin NodeNames /\ Nothing.node = "nothing"
  BY DEF NodeNames, Nothing
<1> QED
  BY <1>1 DEF NodeOK

LEMMA ResumeKeepsInv == ASSUME ParserInv, Resume PROVE ParserInv'
<1> DEFINE f == stack[1]
<1>1. PICK e \in Calling :
          stack' = Replace([Top EXCEPT !.at = e[3],
                       !.left = IF Top.at = "paren" THEN ret ELSE @,
                       !.op = IF ret.node = "Prototype" THEN ret.op ELSE @,
                       !.prec = IF ret.node = "Prototype" THEN ret.prec ELSE @])
  BY DEF Resume
<1>2. /\ stack # <<>> /\ pos \in Nat \ {0} /\ StackOK(G, Ops, pos, stack)
      /\ Top = f /\ ret # Nothing /\ ret' = Nothing /\ FrameOK(G, Ops, pos, f)
  BY Innermost DEF Resume
<1>3. EdgeOK(f.at, e[2], e[3]) /\ e[2] \in Routines
  BY <1>2, GrammarFacts DEF Calling
<1>4. ReturnOK(G, pos, GetTokPrecedence(CurTok), ret, f)
  BY <1>2 DEF ParserInv
<1>5. f.at \notin RootStates => Called(f, stack[2])
  BY Innermost DEF Resume
<1> DEFINE t == e[3]
           left == IF f.at = "paren" THEN ret ELSE f.left
           op == IF ret.node = "Prototype" THEN ret.op ELSE f.op
           prec == IF ret.node = "Prototype" THEN ret.prec ELSE f.prec
           new == With(f, t, prec, left, op)
<1>6. stack' = <<new>> \o Tail(stack)
  <2>1. new = [f EXCEPT !.at = t, !.left = left, !.op = op, !.prec = prec]
    BY DEF With
  <2> QED
    BY <1>1, <1>2, <2>1 DEF Replace
<1>7. /\ IsFrame(new) /\ new.at = t /\ new.first = f.first
      /\ new.left = left /\ new.op = op /\ new.prec = prec
  BY <1>2, WithFields DEF FrameOK
<1> HIDE DEF new, t, f
<1>8. f.at \in ExpressionCallers \cup PrototypeCallers
  BY <1>3 DEF EdgeOK, Routines
<1>9. /\ t \in PrimaryStates \cup RootStates /\ t # "primary"
      /\ t \in RootStates <=> f.at \in RootStates
      /\ t \in PrimaryStates <=> f.at \in PrimaryStates
      /\ f.at \notin {"primary", "rhs"} \cup OperatorStates
      /\ t # "Paren" /\ (t = "parenEnd" => f.at = "paren")
  <2>1. f.at \in PrimaryStates \cup RootStates /\ f.at \notin {"primary", "parenEnd"}
    BY <1>8, StateSets DEF ExpressionCallers, PrototypeCallers
  <2>2. f.at \in PrimaryStates => t \in PrimaryStates
    BY <1>3 DEF t, EdgeOK
  <2>3. f.at \in RootStates => t \in RootStates
    BY <1>3 DEF t, EdgeOK
  <2>4. t # "primary" /\ t # "Paren" /\ (t = "parenEnd" => f.at = "paren")
    BY <1>3, <2>1 DEF t, EdgeOK
  <2>5. f.at \notin {"rhs"} \cup OperatorStates
    BY <2>1, StateSets
  <2> QED
    BY <2>1, <2>2, <2>3, <2>4, <2>5, StateSets
<1>10. t \notin {"expression", "rhs", "unary", "prototype", "binaryName"} \cup OperatorStates
               \cup PrototypeStates
  BY <1>9, StateSets
<1>11. \/ /\ f.at \in ExpressionCallers /\ NodeOK(G, pos, ret) /\ op = f.op /\ prec = f.prec
      \/ /\ f.at \in PrototypeCallers /\ f.at \in RootStates
         /\ op # "none" => prec \in 1..100
  <2>1. CASE f.at \in ExpressionCallers
    <3>1. f.at \notin PrototypeCallers /\ f.at \in PrimaryStates \cup RootStates
      BY <2>1, StateSets
    <3>2. NodeOK(G, pos, ret)
      BY <1>4, <3>1, StateSets DEF ReturnOK, OperatorStates
    <3> QED
      BY <2>1, <3>2, NodeIsSomething
  <2>2. CASE f.at \in PrototypeCallers
    <3>1. f.at \notin ExpressionCallers /\ f.at \in RootStates
      BY <2>2, StateSets
    <3>2. /\ ret = [node |-> "Prototype", op |-> ret.op, prec |-> ret.prec]
          /\ ret.op # "none" => ret.prec \in 1..100
      BY <1>4, <3>1, StateSets DEF ReturnOK, OperatorStates
    <3>3. ret.node = "Prototype"
      BY <3>2
    <3> QED
      BY <2>2, <3>1, <3>2, <3>3
  <2> QED
    BY <1>8, <2>1, <2>2
<1>12. left = Nothing \/ NodeOK(G, pos, left)
  <2>1. f.at = "paren" => NodeOK(G, pos, ret)
    BY <1>11, StateSets DEF PrototypeCallers
  <2>2. f.left = Nothing \/ NodeOK(G, pos, f.left)
    BY <1>2 DEF FrameOK
  <2> QED
    BY <2>1, <2>2
<1>13. t = "parenEnd" => left # Nothing
  BY <1>2, <1>9
<1>14. t \in RootStates => (op # "none" => prec \in 1..100)
  <2>1. t \in RootStates => (f.op # "none" => f.prec \in 1..100)
    BY <1>2, <1>9 DEF FrameOK
  <2> QED
    BY <1>11, <2>1
<1>15. f.first \in Nat \ {0} /\ f.first <= pos /\ (t \in PrimaryStates => f.first < pos)
  BY <1>2, <1>9 DEF FrameOK
<1> HIDE DEF left, op, prec
<1>16. FrameOK(G, Ops, pos, new)
  BY <1>7, <1>9, <1>10, <1>12, <1>13, <1>14, <1>15 DEF FrameOK
<1>17. f.at \notin RootStates => Called(new, stack[2])
  BY <1>5, <1>7, <1>9, <1>10, StateSets DEF Called
<1>18. new.at \in RootStates <=> stack[1].at \in RootStates
  BY <1>7, <1>9 DEF f
<1>19. stack[1].at \notin RootStates => Called(new, stack[2])
  BY <1>17 DEF f
<1>20. StackOK(G, Ops, pos, stack') /\ stack'[1] = new /\ stack' # <<>>
  BY <1>2, <1>6, <1>16, <1>18, <1>19, ReplaceFrame
<1>21. stack'[1].at # "rhs"
  BY <1>7, <1>10, <1>20
<1>22. UNCHANGED <<version, input, CurTok, pos, BinopPrecedence, accepted>>
  BY DEF Resume
<1>23. CurTok \notin Routines
  BY DEF ParserInv
<1> QED
  BY <1>2, <1>20, <1>21, <1>22, <1>23, Assembled

-----------------------------------------------------------------------------
(* Steps that leave the token buffer alone: pop, and replace.              *)
LEMMA PopKeepsInv ==
  ASSUME ParserInv, stack # <<>>, stack[1].at \notin RootStates,
         stack' = Tail(stack), UNCHANGED <<version, input, CurTok, pos, BinopPrecedence, accepted>>,
         ret' # Nothing, ReturnOK(G, pos, GetTokPrecedence(CurTok), ret', stack[2])
  PROVE  ParserInv'
<1>1. StackOK(G, Ops, pos, Tail(stack)) /\ Tail(stack) # <<>> /\ Tail(stack)[1] = stack[2]
  BY PopFrame DEF ParserInv
<1>2. pos' \in Nat \ {0} /\ CurTok' \notin Routines /\ pos' = pos /\ CurTok' = CurTok
  BY DEF ParserInv
<1> QED
  BY <1>1, <1>2, Assembled

LEMMA ReplaceKeepsInv ==
  ASSUME ParserInv, NEW s, StackOK(G, Ops, pos, s), s # <<>>,
         NEW f, FrameOK(G, Ops, pos, f), f.at \notin RootStates, s[1].at \notin RootStates,
         Called(f, s[2]), stack' = <<f>> \o Tail(s), ret' = Nothing,
         UNCHANGED <<version, input, CurTok, pos, BinopPrecedence, accepted>>,
         f.at = "rhs" => GetTokPrecedence(CurTok) <= f.left.prec
  PROVE  ParserInv'
<1>1. StackOK(G, Ops, pos, stack') /\ stack'[1] = f /\ stack' # <<>>
  BY ReplaceFrame
<1>2. pos' \in Nat \ {0} /\ CurTok' \notin Routines /\ pos' = pos /\ CurTok' = CurTok
  BY DEF ParserInv
<1> QED
  BY <1>1, <1>2, Assembled

(* A node that is made of a routine's own frame.                           *)
LEMMA MadeNode ==
  ASSUME ParserInv, NEW name \in NodeNames \ {"Binary"}, NEW first \in Nat, first < pos
  PROVE  NodeOK(G, pos, Node(name, first, 0)) /\ Node(name, first, 0).prec = Tight
<1> DEFINE n == Node(name, first, 0)
<1>1. G.locations[name] # "operator" /\ pos \in Nat \ {0}
  BY GrammarFacts DEF ParserInv
<1>2. /\ n = [node |-> name, prec |-> Tight, left |-> Tight, right |-> Tight,
              first |-> n.first, loc |-> n.loc]
      /\ n.first = IF Located THEN first ELSE 0
      /\ n.loc = IF G.locations[name] = "first" THEN first
                 ELSE IF G.locations[name] = "current" THEN pos ELSE 0
  BY <1>1 DEF Node
<1> HIDE DEF n
<1>3. n.node = name /\ n.prec = Tight
  BY <1>2
<1>4. Tight \in 1..Tight
  BY DEF Tight
<1>5. NodeOK(G, pos, n)
  BY <1>1, <1>2, <1>3, <1>4 DEF NodeOK, Located
<1> QED
  BY <1>3, <1>5 DEF n

(* Parentheses keep the node inside them.                                  *)
LEMMA ParenNode ==
  ASSUME ParserInv, NEW inner, NodeOK(G, pos, inner),
         NEW n, n = [inner EXCEPT !.node = "Paren", !.prec = Tight]
  PROVE  NodeOK(G, pos, n) /\ n.prec = Tight
<1>1. G.locations["Paren"] \notin {"first", "operator"} /\ "Paren" \in NodeNames
  BY GrammarFacts DEF NodeNames
<1>2. n = [node |-> "Paren", prec |-> Tight, left |-> inner.left, right |-> inner.right,
           first |-> inner.first, loc |-> inner.loc]
  BY DEF NodeOK
<1>3. Tight \in 1..Tight
  BY DEF Tight
<1> QED
  BY <1>1, <1>2, <1>3 DEF NodeOK

LEMMA ReturnKeepsInv == ASSUME ParserInv, Return PROVE ParserInv'
<1> DEFINE f == stack[1]
<1>1. /\ stack # <<>> /\ pos \in Nat \ {0} /\ Top = f /\ FrameOK(G, Ops, pos, f)
      /\ stack' = Tail(stack)
      /\ UNCHANGED <<version, input, CurTok, pos, BinopPrecedence, accepted>>
  BY Innermost DEF Return
<1>2. f.at \notin RootStates => Called(f, stack[2])
  BY Innermost DEF Return
<1>3. CASE f.at \in NodeNames /\ ret' = IF f.at = "Paren"
                    THEN [f.left EXCEPT !.node = "Paren", !.prec = Tight]
                    ELSE Node(f.at, f.first, 0)
  <2>1. f.at \in PrimaryStates \ {"primary"} /\ f.at # "Binary" /\ f.at \notin RootStates
    <3>1. f.at \notin {"Unary", "Binary"}
      BY <1>1, StateSets DEF FrameOK
    <3> QED
      BY <1>3, <3>1, StateSets
  <2>2. f.first \in Nat /\ f.first < pos /\ (f.at = "Paren" => NodeOK(G, pos, f.left))
    BY <1>1, <2>1 DEF FrameOK
  <2>3. NodeOK(G, pos, ret') /\ ret'.prec = Tight
    <3>1. CASE f.at = "Paren"
      BY <1>3, <2>2, <3>1, ParenNode
    <3>2. CASE f.at # "Paren"
      BY <1>3, <2>1, <2>2, <3>2, MadeNode
    <3> QED
      BY <3>1, <3>2
  <2>4. stack[2].at \in {"expression", "next", "unary"}
    BY <1>2, <2>1 DEF Called
  <2>5. ReturnOK(G, pos, GetTokPrecedence(CurTok), ret', stack[2]) /\ ret' # Nothing
    BY <2>3, <2>4, NodeIsSomething DEF ReturnOK
  <2> QED
    BY <1>1, <2>1, <2>5, PopKeepsInv
<1>4. CASE f.at = "Prototype" /\ ret' = [node |-> "Prototype", op |-> f.op, prec |-> f.prec]
  <2>1. f.at \in PrototypeStates /\ f.at \notin RootStates
    BY <1>4, StateSets
  <2>2. stack[2].at \in PrototypeCallers
    BY <1>2, <2>1 DEF Called
  <2>3. f.op # "none" => f.prec \in 1..100
    BY <1>1, <2>1 DEF FrameOK
  <2>4. ReturnOK(G, pos, GetTokPrecedence(CurTok), ret', stack[2]) /\ ret' # Nothing
    BY <1>4, <2>2, <2>3, NodeIsSomething DEF ReturnOK
  <2> QED
    BY <1>1, <2>1, <2>4, PopKeepsInv
<1> QED
  BY <1>1, <1>3, <1>4 DEF Return

LEMMA ErrorKeepsInv == ASSUME ParserInv, Error PROVE ParserInv'
  BY FailsKeepsInv DEF Error

-----------------------------------------------------------------------------
(* Two frames on the rest of a stack.                                      *)
LEMMA TwoFrames ==
  ASSUME NEW a, NEW b, NEW t, IsSeq(t)
  PROVE  <<a, b>> \o t = <<a>> \o (<<b>> \o t)
<1> DEFINE S == {t[i] : i \in DOMAIN t} \cup {a, b}
<1>1. t \in Seq(S)
  BY SeqMonotonic DEF IsSeq
<1>2. a \in S /\ b \in S
  OBVIOUS
<1> HIDE DEF S
<1>3. <<a>> \in Seq(S) /\ <<b>> \in Seq(S)
  BY <1>2
<1>4. <<a, b>> = <<a>> \o <<b>>
  <2>1. <<a, b>> \in Seq(S) /\ Len(<<a, b>>) = 2 /\ <<a, b>>[1] = a /\ <<a, b>>[2] = b
    BY <1>2
  <2>2. Len(<<a>>) = 1 /\ Len(<<b>>) = 1 /\ <<a>>[1] = a /\ <<b>>[1] = b
    OBVIOUS
  <2> DEFINE u == <<a>> \o <<b>>
             v == <<a, b>>
  <2>3. u \in Seq(S) /\ Len(u) = 2 /\ u[1] = a /\ u[2] = b
    BY <1>3, <2>2, ConcatProperties
  <2> HIDE DEF u, v
  <2>4. v \in Seq(S) /\ Len(v) = 2 /\ v[1] = a /\ v[2] = b
    BY <2>1 DEF v
  <2>5. \A i \in 1..Len(v) : v[i] = u[i]
    BY <2>3, <2>4
  <2>6. v = u
    BY <2>3, <2>4, <2>5, SeqEqual
  <2> QED
    BY <2>6 DEF u, v
<1> QED
  BY <1>1, <1>3, <1>4, ConcatAssociative

LEMMA PushTwo ==
  ASSUME NEW g, NEW ops, NEW p, NEW s, StackOK(g, ops, p, s), s # <<>>, s[1].at \notin RootStates,
         NEW b, FrameOK(g, ops, p, b), b.at \notin RootStates, Called(b, s[2]),
         NEW a, FrameOK(g, ops, p, a), Called(a, b)
  PROVE  /\ StackOK(g, ops, p, <<a, b>> \o Tail(s))
         /\ (<<a, b>> \o Tail(s))[1] = a /\ <<a, b>> \o Tail(s) # <<>>
<1> DEFINE t == <<b>> \o Tail(s)
<1>1. StackOK(g, ops, p, t) /\ t[1] = b /\ t # <<>>
  BY ReplaceFrame
<1>2. IsSeq(Tail(s))
  BY TailIsSeq DEF StackOK
<1>3. <<a, b>> \o Tail(s) = <<a>> \o t
  BY <1>2, TwoFrames
<1> HIDE DEF t
<1>4. Called(a, t[1])
  BY <1>1
<1>5. StackOK(g, ops, p, <<a>> \o t) /\ (<<a>> \o t)[1] = a /\ <<a>> \o t # <<>>
  BY <1>1, <1>4, PushFrame
<1> QED
  BY <1>3, <1>5

(* The call of ParsePrimary, or of ParseUnary after its operator.          *)
LEMMA CallOperandKeepsInv ==
  ASSUME ParserInv, Running, ret = Nothing, stack[1].at \notin RootStates,
         NEW f, FrameOK(G, Ops, pos, f), f.at \in {"expression", "unary", "next"},
         Called(f, stack[2]), CallOperand(f),
         UNCHANGED <<version, input, ret, BinopPrecedence, accepted>>
  PROVE  ParserInv'
<1>1. /\ stack # <<>> /\ pos \in Nat \ {0} /\ StackOK(G, Ops, pos, stack)
      /\ CurTok \notin Routines
  BY Innermost DEF ParserInv
<1>2. f.at \notin RootStates
  BY StateSets DEF OperatorStates
<1>3. ASSUME NEW a, FrameOK(G, Ops, pos', a), a.at \in {"unary", "primary"},
             pos' \in Nat \ {0}, pos <= pos', CurTok' \notin Routines,
             stack' = <<a, f>> \o Tail(stack)
      PROVE  ParserInv'
  <2>1. StackOK(G, Ops, pos', stack) /\ FrameOK(G, Ops, pos', f)
    BY <1>1, <1>3, LaterStack, LaterFrame
  <2>2. Called(a, f)
    BY <1>3, StateSets DEF Called, OperatorStates
  <2>3. StackOK(G, Ops, pos', stack') /\ stack'[1] = a /\ stack' # <<>>
    BY <1>1, <1>2, <1>3, <2>1, <2>2, PushTwo
  <2>4. stack'[1].at # "rhs" /\ ret' = Nothing
    BY <1>3, <2>3
  <2> QED
    BY <1>3, <2>3, <2>4, Assembled
<1>4. CASE /\ CurTok \in Chars
           /\ stack' = <<Frame("unary", pos), f>> \o Tail(stack)
           /\ getNextToken
  <2>1. CurTok # "eof"
    BY <1>4 DEF Chars, Classes
  <2>2. pos' = pos + 1 /\ CurTok' \notin Routines
    BY <1>4, <2>1, Lexes
  <2>3. FrameOK(G, Ops, pos', Frame("unary", pos)) /\ Frame("unary", pos).at = "unary"
    <3>1. "unary" \notin {"rhs", "parenEnd", "Paren", "binaryName"} \cup OperatorStates
                        \cup PrimaryStates \cup PrototypeStates \cup RootStates
      BY StateSets DEF OperatorStates
    <3> QED
      BY <1>1, <2>2, <3>1 DEF FrameOK, Frame, IsFrame
  <2> QED
    BY <1>1, <1>3, <1>4, <2>2, <2>3
<1>5. CASE /\ stack' = <<Frame("primary", pos), f>> \o Tail(stack)
           /\ UNCHANGED <<CurTok, pos>>
  <2>1. FrameOK(G, Ops, pos, Frame("primary", pos)) /\ Frame("primary", pos).at = "primary"
    BY <1>1, NewFrame
  <2> QED
    BY <1>1, <1>3, <1>5, <2>1
<1> QED
  BY <1>4, <1>5 DEF CallOperand, IsChar

LEMMA ParseOperandKeepsInv == ASSUME ParserInv, ParseOperand PROVE ParserInv'
<1>1. /\ Running /\ ret = Nothing /\ Top = stack[1] /\ CallOperand(stack[1])
      /\ stack[1].at \in {"expression", "unary"} /\ FrameOK(G, Ops, pos, stack[1])
      /\ UNCHANGED <<version, input, ret, BinopPrecedence, accepted>>
  BY Innermost DEF ParseOperand
<1>2. stack[1].at \notin RootStates
  BY <1>1, StateSets
<1>3. Called(stack[1], stack[2])
  BY <1>1, <1>2, Innermost
<1> QED
  BY <1>1, <1>2, <1>3, CallOperandKeepsInv

LEMMA ParseRightOperandKeepsInv == ASSUME ParserInv, ParseRightOperand PROVE ParserInv'
<1> DEFINE f == stack[1]
           new == With(f, "next", f.prec, f.left, f.op)
<1>1. /\ Running /\ ret = Nothing /\ Top = f /\ f.at = "operand" /\ FrameOK(G, Ops, pos, f)
      /\ CallOperand([f EXCEPT !.at = "next"])
      /\ UNCHANGED <<version, input, ret, BinopPrecedence, accepted>>
  BY Innermost DEF ParseRightOperand
<1>2. f.at \notin RootStates /\ f.at \in OperatorStates /\ "next" \in OperatorStates
      /\ "next" \notin {"expression", "rhs", "unary", "parenEnd", "Paren", "prototype", "binaryName"}
                     \cup PrimaryStates \cup PrototypeStates \cup RootStates
  BY <1>1, StateSets DEF OperatorStates
<1>3. Called(f, stack[2])
  BY <1>1, <1>2, Innermost
<1>4. new = [f EXCEPT !.at = "next"]
  BY <1>1, AlsoWith DEF FrameOK
<1>5. /\ IsFrame(new) /\ new.at = "next" /\ new.first = f.first /\ new.prec = f.prec
      /\ new.left = f.left /\ new.op = f.op
  BY <1>1, WithFields DEF FrameOK
<1>6. CallOperand(new)
  BY <1>1, <1>4
<1> HIDE DEF new
<1>7. FrameOK(G, Ops, pos, new)
  BY <1>1, <1>2, <1>5 DEF FrameOK
<1>8. Called(new, stack[2])
  BY <1>2, <1>3, <1>5 DEF Called
<1> QED
  BY <1>1, <1>2, <1>5, <1>6, <1>7, <1>8, CallOperandKeepsInv

(* What ParseExpression and ParseUnary do with their operand.              *)
LEMMA OperandParsedKeepsInv == ASSUME ParserInv, OperandParsed PROVE ParserInv'
<1> DEFINE f == stack[1]
<1>1. /\ stack # <<>> /\ pos \in Nat \ {0} /\ StackOK(G, Ops, pos, stack) /\ Top = f
      /\ FrameOK(G, Ops, pos, f) /\ ret # Nothing
      /\ UNCHANGED <<version, input, CurTok, pos, BinopPrecedence, accepted>>
  BY Innermost DEF OperandParsed
<1>2. f.at \notin RootStates => Called(f, stack[2])
  BY Innermost DEF OperandParsed
<1>3. ReturnOK(G, pos, GetTokPrecedence(CurTok), ret, f)
  BY <1>1 DEF ParserInv
<1>4. CASE /\ f.at = "expression" /\ stack' = Replace([f EXCEPT !.at = "rhs", !.left = ret])
           /\ ret' = Nothing
  <2> DEFINE new == With(f, "rhs", f.prec, ret, f.op)
  <2>1. stack' = <<new>> \o Tail(stack)
    <3>1. IsFrame(f)
      BY <1>1 DEF FrameOK
    <3> HIDE DEF f
    <3>2. [f EXCEPT !.at = "rhs", !.left = ret] = new
      BY <3>1 DEF IsFrame, With
    <3> QED
      BY <1>4, <3>2 DEF Replace
  <2>2. /\ IsFrame(new) /\ new.at = "rhs" /\ new.first = f.first /\ new.prec = f.prec
        /\ new.left = ret /\ new.op = f.op
    BY <1>1, WithFields DEF FrameOK
  <2> HIDE DEF new
  <2>3. /\ f.at \notin ExpressionCallers \cup PrototypeCallers \cup RootStates
        /\ "rhs" \notin {"unary"} \cup OperatorStates \cup PrimaryStates \cup PrototypeStates
                       \cup RootStates
    BY <1>4, StateSets DEF OperatorStates
  <2>4. NodeOK(G, pos, ret) /\ ret.prec = Tight /\ f.prec = 0
    BY <1>1, <1>3, <1>4, <2>3 DEF ReturnOK, FrameOK
  <2>5. FrameOK(G, Ops, pos, new)
    BY <1>1, <2>2, <2>3, <2>4 DEF FrameOK, Tight
  <2>6. Called(new, stack[2])
    BY <1>2, <1>4, <2>2, <2>3, <2>4 DEF Called
  <2>7. GetTokPrecedence(CurTok) <= new.left.prec
    BY <2>2, <2>4, TokenPrecedence DEF Tight
  <2> QED
    BY <1>1, <1>4, <2>1, <2>2, <2>3, <2>5, <2>6, <2>7, ReplaceKeepsInv
<1>5. CASE f.at = "unary" /\ stack' = Tail(stack) /\ ret' = Node("Unary", f.first, 0)
  <2>1. "Unary" \in NodeNames \ {"Binary"} /\ f.at \notin RootStates
    BY <1>5, StateSets DEF NodeNames
  <2>2. f.first \in Nat /\ f.first < pos
    BY <1>1, <1>5 DEF FrameOK
  <2>3. NodeOK(G, pos, ret') /\ ret'.prec = Tight
    BY <1>5, <2>1, <2>2, MadeNode
  <2>4. stack[2].at \in {"expression", "next", "unary"}
    BY <1>2, <1>5, <2>1 DEF Called
  <2>5. ReturnOK(G, pos, GetTokPrecedence(CurTok), ret', stack[2]) /\ ret' # Nothing
    BY <2>3, <2>4, NodeIsSomething DEF ReturnOK
  <2> QED
    BY <1>1, <1>5, <2>1, <2>5, PopKeepsInv
<1> QED
  BY <1>1, <1>4, <1>5 DEF OperandParsed

-----------------------------------------------------------------------------
(* ParseBinOpRHS was called by ParseExpression, or by itself.                  *)
LEMMA CalledLoop ==
  ASSUME NEW f, NEW c, Called(f, c), f.at = "rhs"
  PROVE  \/ c.at \in ExpressionCallers /\ f.prec = 0
         \/ c.at = "merge" /\ f.prec = c.prec + 1
  BY DEF Called

(* The head of ParseBinOpRHS's loop returns what it has merged, which binds    *)
(* as tightly as its caller needs, or takes an operator, which what it has     *)
(* merged binds at least as tightly as.                                        *)
LEMMA ParseBinOpRHSKeepsInv == ASSUME ParserInv, ParseBinOpRHS PROVE ParserInv'
<1> DEFINE f == stack[1]
           TokPrec == GetTokPrecedence(CurTok)
<1>1. /\ stack # <<>> /\ pos \in Nat \ {0} /\ StackOK(G, Ops, pos, stack) /\ Top = f
      /\ FrameOK(G, Ops, pos, f) /\ ret = Nothing /\ f.at = "rhs"
      /\ UNCHANGED <<version, input, BinopPrecedence, accepted>>
  BY Innermost DEF ParseBinOpRHS
<1>2. f.at \notin RootStates
  BY <1>1, StateSets
<1>3. Called(f, stack[2]) /\ FrameOK(G, Ops, pos, stack[2])
  BY <1>2, Innermost DEF ParseBinOpRHS
<1>4. TokPrec <= f.left.prec
  BY <1>1 DEF ParserInv
<1>5. NodeOK(G, pos, f.left) /\ f.prec \in Nat /\ f.left.prec >= f.prec
  BY <1>1 DEF FrameOK
<1>6. TokPrec \in Int /\ (TokPrec >= 0 => TokPrec \in 1..100 /\ CurTok # "eof" /\ CurTok \in Ops)
  <2>1. /\ TokPrec \in Int /\ TokPrec <= 100
        /\ TokPrec >= 0 => TokPrec >= 1 /\ CurTok # "eof" /\ CurTok \in Ops
    BY TokenPrecedence
  <2> HIDE DEF TokPrec
  <2> QED
    BY <2>1
<1>7. CASE TokPrec < f.prec /\ stack' = Tail(stack) /\ ret' = f.left /\ UNCHANGED <<CurTok, pos>>
  <2>1. ret' # Nothing
    BY <1>5, <1>7, NodeIsSomething
  <2> HIDE DEF f, TokPrec
  <2>2. \/ stack[2].at \in ExpressionCallers
        \/ stack[2].at = "merge" /\ f.prec = stack[2].prec + 1
    BY <1>1, <1>3, CalledLoop
  <2>3. ReturnOK(G, pos, TokPrec, f.left, stack[2])
    <3>1. CASE stack[2].at \in ExpressionCallers
      BY <1>5, <3>1 DEF ReturnOK
    <3>2. CASE stack[2].at = "merge" /\ f.prec = stack[2].prec + 1
      <4>1. stack[2].prec \in 1..100
        BY <1>3, <3>2 DEF FrameOK, OperatorStates
      <4>2. f.left.prec \in Int
        BY <1>5 DEF NodeOK
      <4>3. f.left.prec > stack[2].prec /\ TokPrec <= stack[2].prec
        <5> DEFINE c == stack[2].prec
        <5>1. c \in Nat /\ f.prec = c + 1
          BY <3>2, <4>1
        <5> HIDE DEF c
        <5>2. f.left.prec > c /\ TokPrec <= c
          BY <1>5, <1>6, <1>7, <4>2, <5>1
        <5> QED
          BY <5>2 DEF c
      <4> QED
        BY <1>5, <3>2, <4>3 DEF ReturnOK
    <3> QED
      BY <2>2, <3>1, <3>2
  <2> QED
    BY <1>1, <1>2, <1>7, <2>1, <2>3, PopKeepsInv DEF f, TokPrec
<1>8. CASE /\ TokPrec >= f.prec
           /\ stack' = <<[Frame("operand", pos) EXCEPT !.prec = TokPrec, !.op = CurTok]>> \o stack
           /\ getNextToken /\ UNCHANGED ret
  <2> DEFINE new == [Frame("operand", pos) EXCEPT !.prec = TokPrec, !.op = CurTok]
  <2>1. /\ IsFrame(new) /\ new.at = "operand" /\ new.first = pos /\ new.prec = TokPrec
        /\ new.left = Nothing /\ new.op = CurTok
    <3> DEFINE old == Frame("operand", pos)
    <3>1. /\ IsFrame(old) /\ old.at = "operand" /\ old.first = pos /\ old.left = Nothing
      BY DEF Frame, IsFrame
    <3> HIDE DEF old
    <3>2. [old EXCEPT !.prec = TokPrec, !.op = CurTok]
             = With(old, old.at, TokPrec, old.left, CurTok)
      BY <3>1 DEF IsFrame, With
    <3> QED
      BY <3>1, <3>2, WithFields DEF old
  <2>2. TokPrec \in 1..100 /\ CurTok # "eof" /\ CurTok \in Ops
    <3> HIDE DEF TokPrec, f
    <3> QED
      BY <1>5, <1>6, <1>8
  <2>3. pos' = pos + 1 /\ pos' \in Nat \ {0} /\ CurTok' \notin Routines
    BY <1>8, <2>2, Lexes
  <2>4. "operand" \in OperatorStates /\ "operand" \notin {"expression", "rhs", "unary", "parenEnd",
              "Paren", "prototype", "binaryName"} \cup PrimaryStates \cup PrototypeStates \cup RootStates
    BY StateSets DEF OperatorStates
  <2>5. stack' = <<new>> \o stack
    BY <1>8
  <2> HIDE DEF new, TokPrec
  <2>6. FrameOK(G, Ops, pos', new)
    BY <1>1, <2>1, <2>2, <2>3, <2>4 DEF FrameOK
  <2>7. f.left.first < new.first
    BY <1>5, <2>1 DEF NodeOK
  <2>8. Called(new, f)
    BY <1>1, <1>4, <1>8, <2>1, <2>4, <2>7 DEF Called
  <2>9. StackOK(G, Ops, pos', stack)
    BY <1>1, <2>3, LaterStack
  <2>10. StackOK(G, Ops, pos', stack') /\ stack'[1] = new /\ stack' # <<>>
    BY <1>1, <2>5, <2>6, <2>8, <2>9, PushFrame
  <2>11. stack'[1].at # "rhs" /\ ret' = Nothing
    BY <1>1, <1>8, <2>1, <2>10
  <2> QED
    BY <1>1, <2>3, <2>10, <2>11, Assembled
<1> QED
  BY <1>1, <1>7, <1>8 DEF ParseBinOpRHS

(* Two sides merged under their operator.                                  *)
LEMMA BinaryNode ==
  ASSUME ParserInv, NEW left, NodeOK(G, pos, left), NEW prec \in 1..100, left.prec >= prec,
         NEW right, NodeOK(G, pos, right), right.prec > prec,
         NEW operator \in Nat, left.first < operator, operator < pos
  PROVE  /\ NodeOK(G, pos, Binary(left, prec, right, operator))
         /\ Binary(left, prec, right, operator).prec = prec
<1> DEFINE n == Binary(left, prec, right, operator)
           m == Node("Binary", left.first, operator)
<1>1. pos \in Nat \ {0} /\ "Binary" \in NodeNames /\ left.first \in Nat
  BY DEF ParserInv, NodeNames, NodeOK
<1>2. /\ m = [node |-> "Binary", prec |-> Tight, left |-> Tight, right |-> Tight,
              first |-> m.first, loc |-> m.loc]
      /\ m.first = IF Located THEN left.first ELSE 0
      /\ m.loc = IF G.locations["Binary"] = "first" THEN left.first
                 ELSE IF G.locations["Binary"] = "operator" THEN operator
                 ELSE IF G.locations["Binary"] = "current" THEN pos ELSE 0
  BY DEF Node
<1> HIDE DEF m
<1>3. n = [node |-> "Binary", prec |-> prec, left |-> left.prec, right |-> right.prec,
           first |-> m.first, loc |-> m.loc]
  <2> DEFINE fields == {"node", "prec", "left", "right", "first", "loc"}
  <2>1. DOMAIN m = fields /\ m = [x \in DOMAIN m |-> m[x]]
    BY <1>2
  <2>2. n = [m EXCEPT !.prec = prec, !.left = left.prec, !.right = right.prec]
    BY DEF Binary, m
  <2>3. n = [x \in fields |-> CASE x = "prec" -> prec [] x = "left" -> left.prec
                              [] x = "right" -> right.prec [] OTHER -> m[x]]
    BY <2>1, <2>2
  <2> QED
    BY <1>2, <2>3
<1> HIDE DEF n
<1>4. /\ n.node = "Binary" /\ n.prec = prec /\ n.left = left.prec /\ n.right = right.prec
      /\ n.first = m.first /\ n.loc = m.loc
      /\ n = [node |-> n.node, prec |-> n.prec, left |-> n.left, right |-> n.right,
              first |-> n.first, loc |-> n.loc]
  BY <1>3
<1>5. n.prec \in 1..Tight
  BY <1>4 DEF Tight
<1>6. n.first \in Nat /\ n.first < pos /\ n.loc \in Nat
  BY <1>1, <1>2, <1>4
<1>7. G.locations["Number"] # "none" =>
          /\ G.locations["Binary"] = "first" => n.loc = n.first
          /\ G.locations["Binary"] = "operator" => n.first < n.loc /\ n.loc < pos
  BY <1>2, <1>4 DEF Located
<1>8. NodeOK(G, pos, n)
  BY <1>1, <1>4, <1>5, <1>6, <1>7 DEF NodeOK
<1> QED
  BY <1>4, <1>8 DEF n

(* The operator after the operand is taken by a new loop if it binds       *)
(* tighter; otherwise both sides are merged.                               *)
LEMMA RightOperandParsedKeepsInv == ASSUME ParserInv, RightOperandParsed PROVE ParserInv'
<1> DEFINE f == stack[1]
           TokPrec == GetTokPrecedence(CurTok)
<1>1. /\ stack # <<>> /\ pos \in Nat \ {0} /\ StackOK(G, Ops, pos, stack) /\ Top = f
      /\ FrameOK(G, Ops, pos, f) /\ ret # Nothing /\ ret' = Nothing
      /\ f.at \in {"next", "merge"}
      /\ UNCHANGED <<version, input, CurTok, pos, BinopPrecedence, accepted>>
  BY Innermost DEF RightOperandParsed
<1>2. /\ f.at \in OperatorStates
      /\ f.at \notin {"expression", "rhs", "unary"} \cup PrimaryStates \cup PrototypeStates
                   \cup RootStates \cup ExpressionCallers \cup PrototypeCallers
  BY <1>1, StateSets DEF OperatorStates
<1>3. /\ Called(f, stack[2]) /\ FrameOK(G, Ops, pos, stack[2])
      /\ StackOK(G, Ops, pos, Tail(stack)) /\ Tail(stack) # <<>> /\ Tail(stack)[1] = stack[2]
  BY <1>2, Innermost DEF RightOperandParsed
<1>4. ReturnOK(G, pos, TokPrec, ret, f)
  BY <1>1 DEF ParserInv
<1>5. TokPrec \in Int /\ TokPrec <= 100
  BY TokenPrecedence
<1>6. f.prec \in 1..100 /\ f.first \in Nat \ {0} /\ f.first < pos
  BY <1>1, <1>2 DEF FrameOK
<1>7. CASE /\ f.at = "next" /\ f.prec < TokPrec
           /\ stack' = << [Frame("rhs", pos) EXCEPT !.prec = Pending(f.prec), !.left = ret],
                          [f EXCEPT !.at = "merge"] >> \o Tail(stack)
  <2> DEFINE old == Frame("rhs", pos)
             a == With(old, old.at, f.prec + 1, ret, old.op)
             b == With(f, "merge", f.prec, f.left, f.op)
  <2>1. /\ IsFrame(old) /\ old.at = "rhs" /\ old.first = pos
    BY DEF Frame, IsFrame
  <2>2. /\ IsFrame(b) /\ b.at = "merge" /\ b.first = f.first /\ b.prec = f.prec
        /\ b.left = f.left /\ b.op = f.op
    BY <1>1, WithFields DEF FrameOK
  <2> HIDE DEF old
  <2>3. /\ IsFrame(a) /\ a.at = "rhs" /\ a.first = pos /\ a.prec = f.prec + 1 /\ a.left = ret
    BY <2>1, WithFields
  <2>4. stack' = <<a, b>> \o Tail(stack)
    <3>1. IsFrame(f)
      BY <1>1 DEF FrameOK
    <3> HIDE DEF f
    <3>2. [f EXCEPT !.at = "merge"] = b
      BY <3>1 DEF IsFrame, With
    <3>3. [old EXCEPT !.prec = f.prec + 1, !.left = ret] = a
      BY <2>1 DEF IsFrame, With
    <3> QED
      BY <1>7, <3>2, <3>3 DEF old, Pending
  <2> HIDE DEF a, b, f, TokPrec
  <2>5. NodeOK(G, pos, ret) /\ ret.prec = Tight
    BY <1>2, <1>4, <1>7 DEF ReturnOK
  <2>6. FrameOK(G, Ops, pos, b)
    <3>1. b.at \in OperatorStates /\ b.at \notin {"expression", "rhs", "unary", "parenEnd", "Paren",
                "prototype", "binaryName"} \cup PrimaryStates \cup PrototypeStates \cup RootStates
      BY <2>2, StateSets DEF OperatorStates
    <3> QED
      BY <1>1, <1>2, <2>2, <3>1 DEF FrameOK
  <2>7. FrameOK(G, Ops, pos, a)
    <3>1. a.at \notin {"expression", "unary", "parenEnd", "Paren", "prototype", "binaryName"}
                \cup OperatorStates \cup PrimaryStates \cup PrototypeStates \cup RootStates
      BY <2>3, StateSets DEF OperatorStates
    <3>2. a.prec \in Nat /\ Tight >= a.prec
      BY <1>6, <2>3 DEF Tight
    <3> QED
      BY <1>1, <2>3, <2>5, <3>1, <3>2 DEF FrameOK
  <2>8. b.at \notin RootStates /\ Called(b, stack[2])
    <3>1. b.at \in OperatorStates /\ b.at \notin {"unary", "expression", "rhs"} \cup PrimaryStates
                \cup PrototypeStates \cup RootStates
      BY <2>2, StateSets DEF OperatorStates
    <3> QED
      BY <1>2, <1>3, <2>2, <3>1 DEF Called
  <2>9. Called(a, b)
    <3>1. a.at \notin {"unary", "expression"} \cup OperatorStates \cup PrimaryStates
                \cup PrototypeStates \cup RootStates
      BY <2>3, StateSets DEF OperatorStates
    <3> QED
      BY <2>2, <2>3, <3>1 DEF Called
  <2>10. StackOK(G, Ops, pos, stack') /\ stack'[1] = a /\ stack' # <<>>
    <3>1. stack[1].at \notin RootStates
      BY <1>2 DEF f
    <3> QED
      BY <1>1, <2>4, <2>6, <2>7, <2>8, <2>9, <3>1, PushTwo
  <2>11. GetTokPrecedence(CurTok) <= stack'[1].left.prec
    BY <1>5, <2>3, <2>5, <2>10 DEF TokPrec, Tight
  <2>12. pos' \in Nat \ {0} /\ CurTok' \notin Routines /\ pos' = pos /\ CurTok' = CurTok
    BY <1>1 DEF ParserInv
  <2> QED
    BY <1>1, <2>10, <2>11, <2>12, Assembled
<1>8. CASE /\ ~(f.at = "next" /\ f.prec < TokPrec)
           /\ stack' = << [stack[2] EXCEPT !.left = Binary(stack[2].left, f.prec, ret, f.first)] >>
                         \o Tail(Tail(stack))
  <2> DEFINE c == stack[2]
             n == Binary(c.left, f.prec, ret, f.first)
             new == With(c, c.at, c.prec, n, c.op)
  <2> HIDE DEF f, TokPrec, n, c, new
  <2>1. /\ c.at = "rhs" /\ f.prec >= c.prec /\ c.left.prec >= f.prec /\ c.left.first < f.first
    BY <1>2, <1>3 DEF Called, c
  <2>2. FrameOK(G, Ops, pos, c) /\ IsFrame(c) /\ NodeOK(G, pos, c.left) /\ c.prec \in Nat
    BY <1>3, <2>1 DEF FrameOK, c
  <2>3. NodeOK(G, pos, ret) /\ ret.prec > f.prec /\ TokPrec <= f.prec
    <3>1. CASE f.at = "next"
      <4>1. NodeOK(G, pos, ret) /\ ret.prec = Tight
        BY <1>2, <1>4, <3>1 DEF ReturnOK
      <4>2. ~(f.prec < TokPrec)
        BY <1>8, <3>1
      <4>3. ret.prec > f.prec
        BY <1>6, <4>1 DEF Tight
      <4>4. TokPrec <= f.prec
        BY <1>5, <1>6, <4>2
      <4> QED
        BY <4>1, <4>3, <4>4
    <3>2. CASE f.at = "merge"
      BY <1>2, <1>4, <3>2 DEF ReturnOK
    <3> QED
      BY <1>1, <3>1, <3>2
  <2>4. NodeOK(G, pos, n) /\ n.prec = f.prec
    <3>1. NodeOK(G, pos, c.left) /\ NodeOK(G, pos, ret)
      BY <2>2, <2>3
    <3>2. f.prec \in 1..100 /\ f.first \in Nat
      BY <1>6
    <3>3. c.left.prec >= f.prec
      BY <2>1
    <3>4. ret.prec > f.prec
      BY <2>3
    <3>5. c.left.first < f.first /\ f.first < pos
      BY <1>6, <2>1
    <3> DEFINE left == c.left
               prec == f.prec
               first == f.first
    <3> HIDE DEF left, prec, first
    <3>6. /\ NodeOK(G, pos, left) /\ NodeOK(G, pos, ret) /\ prec \in 1..100 /\ first \in Nat
          /\ left.prec >= prec /\ ret.prec > prec /\ left.first < first /\ first < pos
      BY <3>1, <3>2, <3>3, <3>4, <3>5 DEF left, prec, first
    <3>7. /\ NodeOK(G, pos, Binary(left, prec, ret, first))
          /\ Binary(left, prec, ret, first).prec = prec
      BY <3>6, BinaryNode
    <3> QED
      BY <3>7 DEF n, left, prec, first
  <2>5. /\ IsFrame(new) /\ new.at = c.at /\ new.first = c.first /\ new.prec = c.prec
        /\ new.left = n /\ new.op = c.op
    BY <2>2, WithFields DEF new
  <2>6. stack' = <<new>> \o Tail(Tail(stack))
    <3>1. [c EXCEPT !.left = n] = new
      BY <2>2 DEF IsFrame, With, new
    <3> QED
      BY <1>8, <3>1 DEF n, c
  <2>7. c.at \notin {"unary", "expression", "parenEnd", "Paren", "prototype", "binaryName"}
            \cup OperatorStates \cup PrimaryStates \cup PrototypeStates \cup RootStates
    BY <2>1, StateSets DEF OperatorStates
  <2>8. FrameOK(G, Ops, pos, new)
    <3>1. n # Nothing
      BY <2>4, NodeIsSomething
    <3>2. c.prec \in Nat /\ n.prec >= c.prec
      BY <2>1, <2>2, <2>4
    <3> QED
      BY <2>1, <2>2, <2>4, <2>5, <2>7, <3>1, <3>2 DEF FrameOK
  <2>9. Called(c, Tail(stack)[2])
    <3>1. Tail(stack)[1] = c
      BY <1>3 DEF c
    <3> QED
      BY <1>3, <2>7, <3>1, StackTop
  <2>10. Called(new, Tail(stack)[2])
    BY <2>5, <2>7, <2>9 DEF Called
  <2>11. GetTokPrecedence(CurTok) <= new.left.prec
    BY <2>3, <2>4, <2>5 DEF TokPrec
  <2>12. Tail(stack)[1].at \notin RootStates /\ new.at \notin RootStates
    BY <1>3, <2>5, <2>7 DEF c
  <2> QED
    BY <1>1, <1>3, <2>6, <2>8, <2>10, <2>11, <2>12, ReplaceKeepsInv
<1> QED
  BY <1>1, <1>7, <1>8 DEF RightOperandParsed

(* The routines of MainLoop keep the operator table.                       *)
LEMMA HandleKeepsInv == ASSUME ParserInv, Handle PROVE ParserInv'
<1>1. /\ Top = stack[1] /\ FrameOK(G, Ops, pos, stack[1]) /\ stack' = <<>>
      /\ ret = Nothing /\ ret' = Nothing
      /\ UNCHANGED <<version, input, CurTok, pos>> /\ G' = G
  BY Innermost DEF Handle, G
<1>2. TableOK(BinopPrecedence') /\ DOMAIN BinopPrecedence' \subseteq Ops'
  <2>1. CASE UNCHANGED <<BinopPrecedence, accepted>>
    BY <1>1, <2>1 DEF ParserInv, Ops
  <2>2. CASE Top.at = "Definition" /\ Top.op # "none"
    <3> DEFINE op == Top.op
               prec == Top.prec
    <3>1. op # "none" /\ prec \in 1..100
      BY <1>1, <2>2, StateSets DEF FrameOK
    <3> HIDE DEF op, prec
    <3>2. TableOK(BinopPrecedence) /\ DOMAIN BinopPrecedence \subseteq DOMAIN G.standard \cup accepted
      BY DEF ParserInv, Ops
    <3>3. CASE BinopPrecedence' = Put(BinopPrecedence, op, prec) /\ accepted' = accepted \cup {op}
      <4>1. /\ TableOK(Put(BinopPrecedence, op, prec))
            /\ DOMAIN Put(BinopPrecedence, op, prec) = DOMAIN BinopPrecedence \cup {op}
        BY <3>1, <3>2, PutKeepsTable
      <4> QED
        BY <1>1, <3>2, <3>3, <4>1 DEF Ops
    <3>4. CASE /\ BinopPrecedence' = [c \in DOMAIN BinopPrecedence \ {op} |-> BinopPrecedence[c]]
               /\ accepted' = accepted \ {op}
      <4> DEFINE rest == [c \in DOMAIN BinopPrecedence \ {op} |-> BinopPrecedence[c]]
      <4>1. TableOK(rest) /\ DOMAIN rest = DOMAIN BinopPrecedence \ {op}
        BY <3>2 DEF TableOK
      <4> HIDE DEF rest
      <4>2. BinopPrecedence' = rest
        BY <3>4 DEF rest
      <4>3. Ops' = DOMAIN G.standard \cup (accepted \ {op})
        BY <1>1, <3>4 DEF Ops
      <4> QED
        BY <3>2, <4>1, <4>2, <4>3
    <3>5. CASE UNCHANGED <<BinopPrecedence, accepted>>
      BY <2>1, <3>5
    <3> QED
      BY <2>2, <3>3, <3>4, <3>5 DEF Handle, Generate, Installs, Erases, Rejects, op, prec
  <2> QED
    BY <2>1, <2>2 DEF Handle, Generate, Declare, Rejects
<1>3. StackOK(G', Ops', pos', stack')
  BY <1>1, NoFrame
<1> QED
  BY <1>1, <1>2, <1>3 DEF ParserInv

LEMMA NextKeepsInv == ASSUME ParserInv, [Next]_vars PROVE ParserInv'
<1>1. CASE UNCHANGED vars
  <2>1. /\ UNCHANGED <<version, input, CurTok, pos, stack, ret, BinopPrecedence, accepted>>
        /\ pos' \in Nat \ {0} /\ CurTok' \notin Routines
    BY <1>1 DEF vars, ParserInv
  <2> QED
    BY <2>1, Assembled DEF ParserInv
<1> QED
  BY <1>1, MainLoopKeepsInv, ConsumeKeepsInv, ReadPrecedenceKeepsInv, CallKeepsInv,
     ResumeKeepsInv, ReturnKeepsInv, ErrorKeepsInv, ParseOperandKeepsInv,
     OperandParsedKeepsInv, ParseBinOpRHSKeepsInv, ParseRightOperandKeepsInv,
     RightOperandParsedKeepsInv, HandleKeepsInv DEF Next

(* ParserInv is an invariant: every stack of parsing routines is one that  *)
(* the code can call, and the loops of ParseBinOpRHS keep the precedences  *)
(* in order.                                                               *)
THEOREM ParserInvariant == Spec => []ParserInv
<1>1. Init => ParserInv
  BY ParserInvInit
<1>2. ParserInv /\ [Next]_vars => ParserInv'
  BY NextKeepsInv
<1> QED
  BY <1>1, <1>2, PTL DEF Spec

-----------------------------------------------------------------------------
(* The nodes that the routines hold, and that the last one has returned.   *)
LEMMA NodesAreOK ==
  ASSUME ParserInv, NEW n \in Nodes
  PROVE  NodeOK(G, pos, n) \/ n.node = "Prototype"
<1>1. CASE n = ret
  <2>1. ReturnOK(G, pos, GetTokPrecedence(CurTok), ret, stack[1])
    BY <1>1 DEF Nodes, ParserInv
  <2> QED
    BY <1>1, <2>1 DEF ReturnOK
<1>2. ASSUME NEW i \in DOMAIN stack, n = stack[i].left
      PROVE  NodeOK(G, pos, n)
  <2>1. i \in 1..Len(stack)
    BY IsSeqProperties DEF ParserInv, StackOK
  <2>2. FrameOK(G, Ops, pos, stack[i])
    BY <2>1 DEF ParserInv, StackOK
  <2> QED
    BY <1>2, <2>2 DEF FrameOK, Nodes
<1> QED
  BY <1>1, <1>2 DEF Nodes

(* In every version, whatever operators are defined while it runs, an      *)
(* expression is grouped by precedence and, among equals, from the left.   *)
THEOREM GroupingHolds == Spec => []Grouping
<1>1. ParserInv => Grouping
  <2> SUFFICES ASSUME ParserInv, NEW n \in BinaryNodes PROVE n.left >= n.prec /\ n.right > n.prec
    BY DEF Grouping
  <2>1. n \in Nodes /\ n.node = "Binary"
    BY DEF BinaryNodes
  <2>2. NodeOK(G, pos, n)
    BY <2>1, NodesAreOK
  <2> QED
    BY <2>1, <2>2 DEF NodeOK
<1> QED
  BY <1>1, ParserInvariant, PTL

(* No loop takes an operator that is neither standard nor the subject of a *)
(* definition that was generated, and a precedence is always 1 to 100.     *)
THEOREM OperatorsAreDefinedHolds == Spec => []OperatorsAreDefined
<1>1. ParserInv => OperatorsAreDefined
  <2> SUFFICES ASSUME ParserInv PROVE OperatorsAreDefined
    OBVIOUS
  <2>1. \A c \in DOMAIN BinopPrecedence : BinopPrecedence[c] \in 1..100
    BY DEF ParserInv, TableOK
  <2>2. ASSUME NEW i \in DOMAIN stack, stack[i].at \in {"operand", "next", "merge"}
        PROVE  stack[i].op \in DOMAIN G.standard \cup accepted
    <3>1. i \in 1..Len(stack)
      BY IsSeqProperties DEF ParserInv, StackOK
    <3>2. FrameOK(G, Ops, pos, stack[i])
      BY <3>1 DEF ParserInv, StackOK
    <3> QED
      BY <2>2, <3>2 DEF FrameOK, OperatorStates, Ops
  <2> QED
    BY <2>1, <2>2 DEF OperatorsAreDefined
<1> QED
  BY <1>1, ParserInvariant, PTL

(* Chapter 9's nodes are located where they begin, or at their operator.   *)
THEOREM NodesLocatedHolds == Spec => []NodesLocated
<1>1. ParserInv => NodesLocated
  <2> SUFFICES ASSUME ParserInv, Located, NEW n \in Nodes, n.node # "Prototype"
               PROVE  /\ G.locations[n.node] = "first" => n.loc = n.first
                      /\ G.locations[n.node] = "operator" => n.first < n.loc /\ n.loc < pos
    BY DEF NodesLocated
  <2>1. NodeOK(G, pos, n)
    BY NodesAreOK
  <2> QED
    BY <2>1 DEF NodeOK, Located
<1> QED
  BY <1>1, ParserInvariant, PTL
=============================================================================
