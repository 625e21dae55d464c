----------------------------- MODULE ToyGrammar ------------------------------
(* The recursive-descent and operator-precedence parser of the Kaleidoscope    *)
(* examples, with its main loop and its error recovery.  One machine reads the *)
(* tables of ToyVersions and so is the parser of every version: stack holds    *)
(* one frame for every parsing routine that has been called, and the token     *)
(* buffer CurTok is refilled by a lexer that may deliver any word.             *)
EXTENDS ToyVersions, Sequences, FiniteSets, Functions

CONSTANTS Versions,     \* the versions to parse with
          Inputs,       \* how an input begins, and the words it goes on with
          MaxTokens,    \* how many words follow the beginning
          Precedences   \* the numbers that follow binary in an input

(* Labels that name a routine; the other labels, and the words, are tokens.    *)
Routines == {"expression", "prototype"}

ASSUME GrammarAssumption ==
    /\ Versions \subseteq DOMAIN Grammar
    /\ \A i \in Inputs : i.opening \in Seq(STRING) /\ i.words \in SUBSET STRING
    /\ \A i \in Inputs : Routines \cap (i.words \cup Range(i.opening)) = {}
    /\ MaxTokens \in Nat
    /\ Precedences \subseteq Int

VARIABLES version,         \* which toy.cpp runs
          input,           \* the kind of input it reads
          CurTok,          \* the token buffer
          pos,             \* tokens read so far
          stack,           \* frames of the parsing routines, innermost first
          ret,             \* what the last routine returned, or Nothing
          BinopPrecedence, \* the operator table
          accepted,        \* operators whose last definition to be generated succeeded
          known,           \* operators whose function a module may have
          state            \* "parsing", "ended" or "crashed"

vars == <<version, input, CurTok, pos, stack, ret, BinopPrecedence, accepted, known, state>>

G == Grammar[version]
Keywords == UNION {Grammar[v].keywords : v \in DOMAIN Grammar}
Classes == {"eof", "identifier", "number"} \cup Keywords
Words == UNION {i.words \cup Range(i.opening) : i \in Inputs}
Chars == Words \ Classes
Nothing == [node |-> "nothing"]
Tight == 1000 \* above every precedence

-----------------------------------------------------------------------------
(* gettok: a keyword of a later version is an identifier, and the end of the   *)
(* input stays the end.                                                        *)
Lexed(word) == IF word \in Keywords \ G.keywords THEN "identifier" ELSE word

WordsAt(p) == CASE p <= Len(input.opening) -> {input.opening[p]}
                [] p > Len(input.opening) + MaxTokens -> {"eof"}
                [] OTHER -> input.words

getNextToken ==
    \E word \in IF CurTok = "eof" THEN {"eof"} ELSE WordsAt(pos + 1) :
       /\ CurTok' = Lexed(word)
       /\ pos' = IF CurTok = "eof" THEN pos ELSE pos + 1

IsChar(token) == token \in Chars

GetTokPrecedence(token) ==
    IF IsChar(token) /\ token \in DOMAIN BinopPrecedence THEN BinopPrecedence[token] ELSE -1

-----------------------------------------------------------------------------
(* Frames and nodes.  A node keeps what the properties need: the precedence of *)
(* its operator and of its operands' operators, its first token and, in a      *)
(* version that remembers it, its location.                                    *)
Frame(at, first) == [at |-> at, first |-> first, prec |-> 0, left |-> Nothing,
                     kind |-> 0, op |-> "none", params |-> 0]

Top == Head(stack)
Replace(frame) == <<frame>> \o Tail(stack)
Located == G.locations["Number"] # "none"

Node(name, first, operator) ==
    [node |-> name, prec |-> Tight, left |-> Tight, right |-> Tight,
     first |-> IF Located THEN first ELSE 0,
     loc |-> CASE G.locations[name] = "first" -> first
               [] G.locations[name] = "operator" -> operator
               [] G.locations[name] = "current" -> pos
               [] OTHER -> 0]

(* Mistaken Binary: located where the parser is when the node is made.         *)
BinaryHere(left, prec, right, operator) ==
    [Node("Binary", left.first, pos) EXCEPT !.prec = prec, !.left = left.prec,
                                            !.right = right.prec]

Binary(left, prec, right, operator) ==
    [Node("Binary", left.first, operator) EXCEPT !.prec = prec, !.left = left.prec,
                                                !.right = right.prec]

Init ==
    /\ version \in Versions
    /\ input \in Inputs
    /\ CurTok \in {Lexed(w) : w \in WordsAt(1)}
    /\ pos = 1
    /\ stack = <<>>
    /\ ret = Nothing
    /\ BinopPrecedence = G.standard
    /\ accepted = {}
    /\ known = {}
    /\ state = "parsing"

-----------------------------------------------------------------------------
(* The edges of the network out of the innermost frame.                        *)
Matches(label) == label = CurTok \/ (label = AnyChar /\ IsChar(CurTok))
Consuming == {e \in G.net : e[1] = Top.at /\ Matches(e[2])}
Calling == {e \in G.net : e[1] = Top.at /\ e[2] \in Routines}
Returns == Top.at \in NodeNames \cup {"Prototype", "Definition", "TopLevel", "Extern"}

(* MainLoop, and the call of a Handle routine.                                 *)
MainLoop ==
    /\ state = "parsing" /\ stack = <<>>
    /\ \/ /\ CurTok = "eof"
          /\ state' = "ended"
          /\ UNCHANGED <<CurTok, pos, stack>>
       \/ /\ CurTok = ";"
          /\ getNextToken
          /\ UNCHANGED <<stack, state>>
       \/ /\ CurTok \notin {"eof", ";"}
          /\ stack' = << Frame(CASE CurTok = "def" -> "definition"
                                 [] CurTok = "extern" -> "external"
                                 [] OTHER -> "toplevel", pos) >>
          /\ UNCHANGED <<CurTok, pos, state>>
    /\ UNCHANGED <<version, input, ret, BinopPrecedence, accepted, known>>

(* Mistaken SkipToken: the handlers report the error and skip nothing.         *)
SkipNothing == UNCHANGED <<CurTok, pos>>

(* Error recovery: every routine returns null, and one token is skipped.       *)
SkipToken == getNextToken
Fails ==
    /\ stack' = <<>>
    /\ ret' = Nothing
    /\ SkipToken
    /\ UNCHANGED <<version, input, BinopPrecedence, accepted, known, state>>

Running == state = "parsing" /\ stack # <<>>

(* A routine consumes a token.  In a prototype it also takes note of the kind, *)
(* the operator, the precedence and the number of arguments.                   *)
Noted(frame, token) ==
    CASE frame.at = "prototype" ->
           [frame EXCEPT !.kind = CASE token = "unary" -> 1 [] token = "binary" -> 2 [] OTHER -> 0,
                         !.prec = IF token = "binary" THEN 30 ELSE 0]
      [] frame.at = "binaryName" -> [frame EXCEPT !.op = token]
      [] frame.at = "params" /\ token = "identifier" ->
           [frame EXCEPT !.params = IF frame.kind = 0 THEN 0 ELSE @ + 1]
      [] OTHER -> frame

Consume ==
    /\ Running /\ ret = Nothing
    /\ \E e \in Consuming :
          /\ ~(Top.at = "precedence" /\ CurTok = "number")
          /\ stack' = Replace([Noted(Top, CurTok) EXCEPT !.at = e[3]])
          /\ getNextToken
    /\ UNCHANGED <<version, input, ret, BinopPrecedence, accepted, known, state>>

ValidPrecedence(n) == n \in 1..100

(* The number after binary and the operator.                                   *)
ReadPrecedence ==
    /\ Running /\ ret = Nothing
    /\ Top.at = "precedence" /\ CurTok = "number"
    /\ \E n \in Precedences :
          \/ /\ ~ValidPrecedence(n)
             /\ Fails
          \/ /\ ValidPrecedence(n)
             /\ stack' = Replace([Top EXCEPT !.at = "name", !.prec = n])
             /\ getNextToken
             /\ UNCHANGED <<version, input, ret, BinopPrecedence, accepted, known, state>>

(* A routine calls ParseExpression or ParsePrototype.                          *)
Call ==
    /\ Running /\ ret = Nothing
    /\ Consuming = {}
    /\ \E e \in Calling : stack' = <<Frame(e[2], pos)>> \o stack
    /\ UNCHANGED <<version, input, CurTok, pos, ret, BinopPrecedence, accepted, known, state>>

(* ... and goes on with what it returned.                                      *)
Resume ==
    /\ Running /\ ret # Nothing
    /\ \E e \in Calling :
          stack' = Replace([Top EXCEPT !.at = e[3],
                       !.left = IF Top.at = "paren" THEN ret ELSE @,
                       !.op = IF ret.node = "Prototype" THEN ret.op ELSE @,
                       !.prec = IF ret.node = "Prototype" THEN ret.prec ELSE @])
    /\ ret' = Nothing
    /\ UNCHANGED <<version, input, CurTok, pos, BinopPrecedence, accepted, known, state>>

(* A parsing routine returns its node; a prototype of an operator must have as *)
(* many arguments as the operator has operands.                                *)
Return ==
    /\ Running /\ ret = Nothing
    /\ Consuming = {}
    /\ \/ /\ Top.at \in NodeNames
          /\ ret' = IF Top.at = "Paren"
                    THEN [Top.left EXCEPT !.node = "Paren", !.prec = Tight]
                    ELSE Node(Top.at, Top.first, 0)
       \/ /\ Top.at = "Prototype"
          /\ Top.params = Top.kind
          /\ ret' = [node |-> "Prototype", op |-> Top.op, prec |-> Top.prec]
    /\ stack' = Tail(stack)
    /\ UNCHANGED <<version, input, CurTok, pos, BinopPrecedence, accepted, known, state>>

(* Nothing the routine can do with the current token.                          *)
Error ==
    /\ Running /\ ret = Nothing
    /\ \/ /\ Top.at \notin {"expression", "rhs", "operand", "unary"}
          /\ Consuming = {} /\ Calling = {} /\ ~Returns
       \/ Top.at = "Prototype" /\ Top.params # Top.kind
    /\ Fails

-----------------------------------------------------------------------------
(* ParseExpression, ParseUnary and ParseBinOpRHS.                              *)
CallOperand(frame) ==
    IF G.operand = "unary" /\ IsChar(CurTok) /\ CurTok \notin {"(", ","}
    THEN /\ stack' = <<Frame("unary", pos), frame>> \o Tail(stack)
         /\ getNextToken
    ELSE /\ stack' = <<Frame("primary", pos), frame>> \o Tail(stack)
         /\ UNCHANGED <<CurTok, pos>>

ParseOperand ==
    /\ Running /\ ret = Nothing
    /\ Top.at \in {"expression", "unary"}
    /\ CallOperand(Top)
    /\ UNCHANGED <<version, input, ret, BinopPrecedence, accepted, known, state>>

(* The operand of an expression or of a unary operator has been parsed.        *)
OperandParsed ==
    /\ Running /\ ret # Nothing
    /\ \/ /\ Top.at = "expression"
          /\ stack' = Replace([Top EXCEPT !.at = "rhs", !.left = ret])
          /\ ret' = Nothing
       \/ /\ Top.at = "unary"
          /\ stack' = Tail(stack)
          /\ ret' = Node("Unary", Top.first, 0)
    /\ UNCHANGED <<version, input, CurTok, pos, BinopPrecedence, accepted, known, state>>

(* The head of ParseBinOpRHS's loop: return the left-hand side, or consume the *)
(* operator and parse the operand after it.                                    *)
ParseBinOpRHS ==
    /\ Running /\ ret = Nothing
    /\ Top.at = "rhs"
    /\ LET TokPrec == GetTokPrecedence(CurTok) IN
         \/ /\ TokPrec < Top.prec
            /\ stack' = Tail(stack)
            /\ ret' = Top.left
            /\ UNCHANGED <<CurTok, pos>>
         \/ /\ TokPrec >= Top.prec
            /\ stack' = <<[Frame("operand", pos) EXCEPT !.prec = TokPrec, !.op = CurTok]>>
                         \o stack
            /\ getNextToken
            /\ UNCHANGED ret
    /\ UNCHANGED <<version, input, BinopPrecedence, accepted, known, state>>

(* The operand after the operator: a primary or a unary.                       *)
ParseRightOperand ==
    /\ Running /\ ret = Nothing
    /\ Top.at = "operand"
    /\ CallOperand([Top EXCEPT !.at = "next"])
    /\ UNCHANGED <<version, input, ret, BinopPrecedence, accepted, known, state>>

(* Mistaken Pending: operators of the same precedence group from the right.    *)
PendingSame(TokPrec) == TokPrec

(* The least precedence that the right-hand side may go on with.               *)
Pending(TokPrec) == TokPrec + 1

(* The operator after the operand takes it if it binds tighter; otherwise both *)
(* sides are merged and the loop goes on.                                      *)
RightOperandParsed ==
    /\ Running /\ ret # Nothing
    /\ Top.at \in {"next", "merge"}
    /\ IF Top.at = "next" /\ Top.prec < GetTokPrecedence(CurTok)
       THEN stack' = << [Frame("rhs", pos) EXCEPT !.prec = Pending(Top.prec), !.left = ret],
                        [Top EXCEPT !.at = "merge"] >> \o Tail(stack)
       ELSE LET loop == stack[2]
            IN  stack' = << [loop EXCEPT !.left = Binary(loop.left, Top.prec, ret, Top.first)] >>
                         \o Tail(Tail(stack))
    /\ ret' = Nothing
    /\ UNCHANGED <<version, input, CurTok, pos, BinopPrecedence, accepted, known, state>>

-----------------------------------------------------------------------------
(* The body of an operator's definition has been generated.                    *)
Installs(op, prec) ==
    /\ BinopPrecedence' = Put(BinopPrecedence, op, prec)
    /\ accepted' = accepted \cup {op}
    /\ known' = known \cup {op}
    /\ UNCHANGED state

(* Mistaken Erases: the operator of a failed definition stays in the table.    *)
ErasesNothing(op) ==
    /\ accepted' = accepted \ {op}
    /\ known' = known \ {op}
    /\ UNCHANGED <<BinopPrecedence, state>>

(* Generating the body has failed: the function is removed and the operator    *)
(* with it, by a prototype that chapter 9 has moved away.                      *)
Erases(op) ==
    /\ BinopPrecedence' = [c \in DOMAIN BinopPrecedence \ {op} |-> BinopPrecedence[c]]
    /\ accepted' = accepted \ {op}
    /\ known' = known \ {op}
    /\ state' = IF G.install = "crash" THEN "crashed" ELSE state

(* PrototypeAST::Codegen, before the table is touched: a function that the     *)
(* open module has with a body is not defined again.  What "lookup" finds is   *)
(* null, with a body or without, and reading it ends the program.              *)
Rejects(op) ==
    /\ \/ /\ G.install = "reject" /\ op \in accepted
          /\ UNCHANGED state
       \/ /\ G.install = "lookup" /\ op \in known
          /\ state' = "crashed"
    /\ UNCHANGED <<BinopPrecedence, accepted, known>>

(* The Handle routines after a successful parse.  Whether code generation      *)
(* succeeds does not concern the parser, but what it does to the table does.   *)
Generate(op, prec) ==
    IF op = "none" \/ G.install \in {"none", "late"}
    THEN UNCHANGED <<BinopPrecedence, accepted, known, state>>
    ELSE Installs(op, prec) \/ Erases(op) \/ Rejects(op)

(* An extern of an operator puts a function into the open module.              *)
Declare(op) ==
    \/ /\ known' = known \cup ({op} \ {"none"})
       /\ UNCHANGED <<BinopPrecedence, accepted, state>>
    \/ Rejects(op)

Handle ==
    /\ Running /\ ret = Nothing
    /\ \/ /\ Top.at = "Definition"
          /\ Generate(Top.op, Top.prec)
       \/ /\ Top.at = "Extern"
          /\ Declare(Top.op)
       \/ /\ Top.at = "TopLevel"
          /\ UNCHANGED <<BinopPrecedence, accepted, known, state>>
    /\ stack' = <<>>
    /\ UNCHANGED <<version, input, CurTok, pos, ret>>

Next == \/ MainLoop \/ Consume \/ ReadPrecedence \/ Call \/ Resume \/ Return \/ Error
        \/ ParseOperand \/ OperandParsed \/ ParseBinOpRHS \/ ParseRightOperand
        \/ RightOperandParsed \/ Handle

(* The program is sequential and does not stop by itself.                      *)
Spec == Init /\ [][Next]_vars /\ WF_vars(Next)

-----------------------------------------------------------------------------
Nodes == ({ret} \cup {stack[i].left : i \in DOMAIN stack}) \ {Nothing}
BinaryNodes == {n \in Nodes : n.node = "Binary"}

(* Precedence and associativity (ParseBinOpRHS): the operator of a binary node *)
(* binds no tighter than those of its left operand and less tightly than those *)
(* of its right one, so every expression is grouped by precedence and, among   *)
(* equals, from the left, whatever operators have been defined.                *)
Grouping == \A n \in BinaryNodes : n.left >= n.prec /\ n.right > n.prec

(* An operator is only taken for one that is waiting for its right operand     *)
(* when it is a standard operator, or one of its definitions has been          *)
(* generated and none has failed since, except by being rejected because that  *)
(* one stands; and the table holds precedences of 1 to 100 only.               *)
OperatorsAreDefined ==
    /\ \A c \in DOMAIN BinopPrecedence : BinopPrecedence[c] \in 1..100
    /\ \A i \in DOMAIN stack :
          stack[i].at \in {"operand", "next", "merge"} =>
              stack[i].op \in DOMAIN G.standard \cup accepted

(* Chapter 9: the nodes whose location the parser passes to the constructor    *)
(* are where they begin, and a binary node's location is that of its operator, *)
(* after its left operand and before its right one.                            *)
NodesLocated ==
    Located => \A n \in Nodes \ {Nothing} :
        n.node # "Prototype" =>
            /\ G.locations[n.node] = "first" => n.loc = n.first
            /\ G.locations[n.node] = "operator" => n.first < n.loc /\ n.loc < pos

(* Every finite input is parsed to its end, errors and all: each turn of the   *)
(* main loop reads past its first token, and every routine gets somewhere.     *)
Terminates == <>(state # "parsing")
=============================================================================
