-------------------------- MODULE MCJITSessionProofs --------------------------
(* Symbol resolution across the modules of MCJITHelper, for any names, any     *)
(* length of session, any number of modules compiled one within the other, and *)
(* each of the helper's versions.                                              *)
EXTENDS MCJITSession, SequenceTheorems, WellFoundedInduction, FiniteSetTheorems, TLAPS

-----------------------------------------------------------------------------
(* Facts about stacks and lists kept as sequences.  Nothing is assumed of the  *)
(* elements, so the invariants need no type of what a frame or an entry holds. *)

(* A sequence, of whatever it holds.                                           *)
IsSeq(s) == s \in Seq({s[i] : i \in DOMAIN s})

LEMMA SeqIsSeq ==
  ASSUME NEW S, NEW s \in Seq(S)
  PROVE  IsSeq(s)
<1> DEFINE R == {s[i] : i \in DOMAIN s}
<1>1. Len(s) \in Nat /\ s \in [1..Len(s) -> S]
  BY LenProperties
<1>2. s \in [1..Len(s) -> R]
  BY <1>1
<1>3. s \in Seq(R)
  BY <1>1, <1>2, SeqDef
<1> QED
  BY <1>3 DEF IsSeq

LEMMA IsSeqProperties ==
  ASSUME NEW s, IsSeq(s)
  PROVE  /\ Len(s) \in Nat
         /\ DOMAIN s = 1..Len(s)
  BY LenProperties DEF IsSeq

LEMMA EmptyIsSeq == IsSeq(<<>>) /\ Len(<<>>) = 0 /\ DOMAIN <<>> = {}
<1>1. <<>> \in Seq({}) /\ Len(<<>>) = 0
  BY EmptySeq
<1>2. DOMAIN <<>> = {}
  OBVIOUS
<1>3. IsSeq(<<>>)
  BY <1>1, SeqIsSeq
<1> QED
  BY <1>1, <1>2, <1>3

(* Append leaves the elements where they are.                                  *)
LEMMA AppendIsSeq ==
  ASSUME NEW s, IsSeq(s), NEW e
  PROVE  /\ IsSeq(Append(s, e))
         /\ Len(Append(s, e)) = Len(s) + 1
         /\ \A i \in 1..Len(s) : Append(s, e)[i] = s[i]
         /\ Append(s, e)[Len(s) + 1] = e
<1> DEFINE S == {s[i] : i \in DOMAIN s} \cup {e}
<1>1. s \in Seq(S)
  BY SeqMonotonic DEF IsSeq
<1>2. e \in S
  OBVIOUS
<1> HIDE DEF S
<1>3. Append(s, e) \in Seq(S)
  BY <1>1, <1>2, AppendProperties
<1>4. IsSeq(Append(s, e))
  BY <1>3, SeqIsSeq
<1> QED
  BY <1>1, <1>2, <1>4, AppendProperties

(* An update changes one element.                                              *)
LEMMA ExceptIsSeq ==
  ASSUME NEW s, IsSeq(s), NEW k \in 1..Len(s), NEW e
  PROVE  /\ IsSeq([s EXCEPT ![k] = e])
         /\ Len([s EXCEPT ![k] = e]) = Len(s)
         /\ \A i \in 1..Len(s) : [s EXCEPT ![k] = e][i] = IF i = k THEN e ELSE s[i]
<1> DEFINE S == {s[i] : i \in DOMAIN s} \cup {e}
<1>1. s \in Seq(S)
  BY SeqMonotonic DEF IsSeq
<1>2. e \in S
  OBVIOUS
<1> HIDE DEF S
<1>3. [s EXCEPT ![k] = e] \in Seq(S)
  BY <1>1, <1>2, ExceptSeq
<1>4. IsSeq([s EXCEPT ![k] = e])
  BY <1>3, SeqIsSeq
<1>5. /\ Len([s EXCEPT ![k] = e]) = Len(s)
      /\ \A j \in 1..Len(s) : [s EXCEPT ![k] = e][j] = IF j = k THEN e ELSE s[j]
  BY <1>1, <1>2, ExceptSeq
<1> QED
  BY <1>4, <1>5

(* Pop.                                                                        *)
LEMMA TailIsSeq ==
  ASSUME NEW s, IsSeq(s), s # <<>>
  PROVE  /\ IsSeq(Tail(s))
         /\ Len(s) \in Nat \ {0}
         /\ Head(s) = s[1]
         /\ Len(Tail(s)) = Len(s) - 1
         /\ \A i \in 1..Len(Tail(s)) : Tail(s)[i] = s[i + 1]
<1> DEFINE S == {s[i] : i \in DOMAIN s}
<1>1. s \in Seq(S)
  BY DEF IsSeq
<1> HIDE DEF S
<1>2. Tail(s) \in Seq(S)
  BY <1>1, HeadTailProperties
<1>3. Len(s) \in Nat \ {0}
  BY <1>1, EmptySeq
<1>4. Head(s) = s[1]
  BY <1>1
<1>5. IsSeq(Tail(s))
  BY <1>2, SeqIsSeq
<1>6. /\ Len(Tail(s)) = Len(s) - 1
      /\ \A i \in 1..Len(Tail(s)) : Tail(s)[i] = s[i + 1]
  BY <1>1, HeadTailProperties
<1> QED
  BY <1>3, <1>4, <1>5, <1>6

(* Push.                                                                       *)
LEMMA PushIsSeq ==
  ASSUME NEW s, IsSeq(s), NEW e
  PROVE  /\ IsSeq(<<e>> \o s)
         /\ Len(<<e>> \o s) = Len(s) + 1
         /\ (<<e>> \o s)[1] = e
         /\ \A i \in 2..Len(s) + 1 : (<<e>> \o s)[i] = s[i - 1]
         /\ <<e>> \o s # <<>>
<1> DEFINE S == {s[i] : i \in DOMAIN s} \cup {e}
<1>1. s \in Seq(S)
  BY SeqMonotonic DEF IsSeq
<1>2. e \in S
  OBVIOUS
<1> HIDE DEF S
<1>3. <<e>> \in Seq(S) /\ Len(<<e>>) = 1 /\ <<e>>[1] = e
  BY <1>2
<1>4. Len(s) \in Nat
  BY <1>1, LenProperties
<1>5. /\ <<e>> \o s \in Seq(S)
      /\ Len(<<e>> \o s) = 1 + Len(s)
      /\ \A i \in 1..(1 + Len(s)) : (<<e>> \o s)[i] = IF i <= 1 THEN <<e>>[i] ELSE s[i - 1]
  BY <1>1, <1>3, ConcatProperties
<1>6. <<e>> \o s # <<>>
  BY <1>4, <1>5, EmptySeq
<1>7. IsSeq(<<e>> \o s)
  BY <1>5, SeqIsSeq
<1>8. Len(<<e>> \o s) = Len(s) + 1 /\ (<<e>> \o s)[1] = e
  BY <1>3, <1>4, <1>5
<1>9. \A i \in 2..Len(s) + 1 : (<<e>> \o s)[i] = s[i - 1]
  BY <1>4, <1>5
<1> QED
  BY <1>6, <1>7, <1>8, <1>9

-----------------------------------------------------------------------------
Stacked == {compiling[i].module : i \in DOMAIN compiling}
HasLink(m, n) == \E l \in links : l[1] = m /\ l[2] = n
Resolves(m, n) == HasBody(modules[m], n) \/ HasLink(m, n)

(* Modules are numbered in the order they were opened; the open one has not    *)
(* been compiled, and an engine or a compilation is of a module there is.      *)
Numbered ==
    /\ IsSeq(modules) /\ IsSeq(compiling)
    /\ \A i \in DOMAIN compiling :
          compiling[i] = [module |-> compiling[i].module, pending |-> compiling[i].pending]
    /\ OpenModule \in 0..Len(modules)
    /\ engines \cup Stacked \subseteq 1..Len(modules)
    /\ OpenModule \notin engines \cup Stacked

(* A symbol is resolved once, for a module that is or has been compiled, and   *)
(* to one that is or has been compiled.                                        *)
LinksAgree ==
    /\ \A l \in links : /\ l[1] \in engines \cup Stacked
                        /\ l[3] \in engines \cup Stacked \cup {Process}
    /\ \A k, l \in links : k[1] = l[1] /\ k[2] = l[2] => k[3] = l[3]

(* A module that has been compiled has all its symbols; one that is being      *)
(* compiled lacks exactly those that are pending, and is compiled once.        *)
Compiled ==
    /\ \A m \in engines \ Stacked : \A n \in Calls(m) : Resolves(m, n)
    /\ \A i \in DOMAIN compiling :
          /\ \A n \in Calls(compiling[i].module) :
                Resolves(compiling[i].module, n) \/ n \in compiling[i].pending
          /\ \A n \in compiling[i].pending : ~HasLink(compiling[i].module, n)
          /\ \A j \in DOMAIN compiling :
                compiling[i].module = compiling[j].module => i = j
          /\ RecordsFirst => compiling[i].module \in engines

(* The inductive invariant: in a session that goes on, all of this; and it     *)
(* does not end for the reason CompiledOnce is about.                          *)
LinkInv ==
    /\ state \in {"prompt", "compiling", "run"} =>
          /\ Numbered
          /\ LinksAgree
          /\ Compiled
          /\ state = "compiling" <=> compiling # <<>>
          /\ state = "compiling" => OpenModule = 0
    /\ CompiledOnce

-----------------------------------------------------------------------------
(* The first module that is found is one of those that were searched.          *)
LEMMA Least ==
  ASSUME NEW S \in SUBSET Nat, S # {}
  PROVE  \E x \in S : \A y \in S : x <= y
<1> DEFINE R == {ss \in Nat \X Nat : ss[1] < ss[2]}
<1>1. IsWellFoundedOn(R, Nat)
  BY NatLessThanWellFounded DEF OpToRel
<1>2. \A x, y \in Nat : ~(<<y, x>> \in R) => x <= y
  OBVIOUS
<1> HIDE DEF R
<1>3. PICK x \in S : \A y \in S : ~(<<y, x>> \in R)
  BY <1>1, WFMin
<1> QED
  BY <1>2, <1>3

LEMMA FoundIsCandidate ==
  ASSUME Numbered, NEW n, Candidates(n) # {}
  PROVE  Found(n) \in Candidates(n) /\ Found(n) \in 1..Len(modules)
<1>1. Len(modules) \in Nat /\ DOMAIN modules = 1..Len(modules)
  BY IsSeqProperties DEF Numbered
<1>2. Candidates(n) \subseteq 1..Len(modules)
  BY <1>1 DEF Candidates, Numbered
<1>3. Candidates(n) \in SUBSET Nat
  BY <1>1, <1>2
<1>4. \E i \in Candidates(n) : \A j \in Candidates(n) : i <= j
  BY <1>3, Least
<1> QED
  BY <1>2, <1>4 DEF Found

-----------------------------------------------------------------------------
(* Typing a definition, an extern or an expression changes the open module     *)
(* only, or opens a new one.                                                   *)
Extends(ms, m) ==
    /\ IsSeq(ms)
    /\ m \in 1..Len(ms)
    /\ m \notin engines
    /\ engines \subseteq 1..Len(ms)
    /\ \A i \in engines : ms[i] = modules[i]

LEMMA OpenExtends ==
  ASSUME Numbered
  PROVE  Extends(WithOpen, Opened) /\ Extends(WithNew, Closed)
<1>1. Len(modules) \in Nat
  BY IsSeqProperties DEF Numbered
<1>2. /\ IsSeq(Append(modules, <<>>))
      /\ Len(Append(modules, <<>>)) = Len(modules) + 1
      /\ \A i \in 1..Len(modules) : Append(modules, <<>>)[i] = modules[i]
  BY AppendIsSeq DEF Numbered
<1>3. Extends(Append(modules, <<>>), Len(modules) + 1)
  BY <1>1, <1>2 DEF Extends, Numbered
<1>4. ASSUME OpenModule # 0 PROVE Extends(modules, OpenModule)
  BY <1>1, <1>4 DEF Extends, Numbered
<1>5. Extends(WithOpen, Opened)
  BY <1>3, <1>4 DEF WithOpen, Opened
<1> QED
  BY <1>3, <1>5 DEF WithNew, Closed

LEMMA UpdateExtends ==
  ASSUME NEW ms, NEW m, Extends(ms, m), NEW e
  PROVE  Extends([ms EXCEPT ![m] = e], m)
<1> DEFINE new == [ms EXCEPT ![m] = e]
<1>1. IsSeq(ms) /\ m \in 1..Len(ms)
  BY DEF Extends
<1>2. /\ IsSeq(new)
      /\ Len(new) = Len(ms)
  BY <1>1, ExceptIsSeq, Zenon
<1>3. \A i \in engines : new[i] = ms[i]
  BY DEF Extends
<1> HIDE DEF new
<1>4. Extends(new, m)
  BY <1>2, <1>3 DEF Extends
<1> QED
  BY <1>4 DEF new

LEMMA CodegenExtends ==
  ASSUME NEW ms, NEW m, NEW n, NEW calls, Extends(ms, m),
         FunctionCodegen(ms, m, n, calls)
  PROVE  /\ state' \in {"prompt", "compiling", "dangling"} => Extends(modules', m)
         /\ state' = "asserted" => modules' = modules
         /\ state' \in {"prompt", "compiling", "dangling", "asserted"}
         /\ n # Anon => state' # "compiling"
<1> DEFINE begun == [ms EXCEPT ![m] = Put(@, n, Defined({}))]
           found == {c \in calls : GetsFunction(begun, m, c)}
<1>1. Extends(begun, m)
  BY UpdateExtends
<1> HIDE DEF begun
<1>2. \A names : Extends(DeclaredIn(begun, m, names), m)
  BY <1>1, UpdateExtends DEF DeclaredIn
<1>3. CASE /\ modules' = [DeclaredIn(begun, m, calls) EXCEPT ![m] = Put(@, n, Defined(calls))]
           /\ state' = IF n = Anon THEN "compiling" ELSE "prompt"
  BY <1>2, <1>3, UpdateExtends
<1>4. CASE /\ \E reached \in SUBSET found :
                 modules' = [DeclaredIn(begun, m, reached) EXCEPT ![m] = Without(@, n)]
           /\ state' = IF StillUsed(begun[m], n) THEN "dangling" ELSE "prompt"
  <2>1. PICK reached \in SUBSET found :
           modules' = [DeclaredIn(begun, m, reached) EXCEPT ![m] = Without(@, n)]
    BY <1>4
  <2> DEFINE declared == DeclaredIn(begun, m, reached)
  <2>2. Extends(declared, m)
    BY <1>2
  <2>3. modules' = [declared EXCEPT ![m] = Without(declared[m], n)]
    BY <2>1
  <2> HIDE DEF declared
  <2>4. Extends(modules', m)
    BY <2>2, <2>3, UpdateExtends
  <2> QED
    BY <1>4, <2>4
<1>5. CASE state' = "asserted" /\ UNCHANGED modules
  BY <1>5
<1> QED
  BY <1>3, <1>4, <1>5 DEF FunctionCodegen, begun

(* What is typed leaves what has been compiled as it is.                       *)
LEMMA TypingInv ==
  ASSUME LinkInv, state = "prompt", state' = "prompt",
         Extends(modules', OpenModule'),
         UNCHANGED <<version, engines, compiling, links>>
  PROVE  LinkInv'
<1>1. compiling = <<>> /\ Numbered /\ LinksAgree /\ Compiled
  BY DEF LinkInv
<1>2. Stacked = {} /\ Stacked' = {} /\ compiling' = <<>> /\ IsSeq(compiling')
  BY <1>1, EmptyIsSeq DEF Stacked
<1>3. Len(modules') \in Nat
  BY IsSeqProperties DEF Extends
<1>4. Numbered'
  BY <1>2, <1>3 DEF Extends, Numbered
<1>5. \A m \in engines : Calls(m)' = Calls(m)
  BY DEF Extends, Calls
<1>6. \A m \in engines : \A n : Resolves(m, n)' <=> Resolves(m, n)
  BY DEF Extends, Resolves, HasBody, Has, HasLink
<1>7. Compiled'
  BY <1>1, <1>2, <1>5, <1>6, EmptyIsSeq DEF Compiled
<1>8. LinksAgree'
  BY <1>1, <1>2 DEF LinksAgree
<1> QED
  BY <1>1, <1>2, <1>4, <1>7, <1>8 DEF LinkInv, CompiledOnce

(* A session that has ended badly at the prompt is not an endless compilation. *)
LEMMA LostInv ==
  ASSUME state' \notin {"prompt", "compiling", "run", "endless"}
  PROVE  LinkInv'
  BY DEF LinkInv, CompiledOnce

LEMMA HandleDefinitionInv ==
  ASSUME LinkInv, HandleDefinition
  PROVE  LinkInv'
<1>1. /\ state = "prompt" /\ OpenModule' = Closed
      /\ UNCHANGED <<version, engines, compiling, links>>
  BY DEF HandleDefinition
<1>2. Extends(WithNew, Closed)
  BY <1>1, OpenExtends DEF LinkInv
<1>3. PICK n \in Names, calls \in Bodies :
         CASE LosesFunction(WithNew, Closed, n) ->
                state' = "crashed" /\ UNCHANGED <<modules, operators>>
           [] ~AcceptsPrototype(WithNew, Closed, n) ->
                modules' = WithNew /\ UNCHANGED <<operators, state>>
           [] OTHER -> FunctionCodegen(WithNew, Closed, n, calls)
  BY DEF HandleDefinition
<1>4. CASE state' = "crashed"
  BY <1>4, LostInv
<1>5. CASE modules' = WithNew /\ state' = state
  BY <1>1, <1>2, <1>5, TypingInv
<1>6. CASE FunctionCodegen(WithNew, Closed, n, calls)
  <2>1. n # Anon
    BY NamesAssumption
  <2>2. /\ state' \in {"prompt", "dangling", "asserted"}
        /\ state' = "prompt" => Extends(modules', Closed)
    BY <1>2, <1>6, <2>1, CodegenExtends
  <2> QED
    BY <1>1, <2>2, TypingInv, LostInv
<1>7. \/ state' = "crashed"
      \/ modules' = WithNew /\ state' = state
      \/ FunctionCodegen(WithNew, Closed, n, calls)
  BY <1>3
<1> QED
  BY <1>4, <1>5, <1>6, <1>7

LEMMA HandleExternInv ==
  ASSUME LinkInv, HandleExtern
  PROVE  LinkInv'
<1>1. /\ state = "prompt" /\ OpenModule' = Opened
      /\ UNCHANGED <<version, engines, compiling, links>>
  BY DEF HandleExtern
<1>2. Extends(WithOpen, Opened)
  BY <1>1, OpenExtends DEF LinkInv
<1>3. PICK n \in Names :
         \/ state' = "crashed"
         \/ modules' = DeclaredIn(WithOpen, Opened, {n}) /\ state' = state
  BY DEF HandleExtern
<1>4. CASE state' = "crashed"
  BY <1>4, LostInv
<1>5. CASE modules' = DeclaredIn(WithOpen, Opened, {n}) /\ state' = state
  <2>1. Extends(modules', Opened)
    BY <1>2, <1>5, UpdateExtends DEF DeclaredIn
  <2> QED
    BY <1>1, <1>5, <2>1, TypingInv
<1> QED
  BY <1>3, <1>4, <1>5

-----------------------------------------------------------------------------
(* A frame's symbols are those of its module that it calls and has no body of. *)
LEMMA FrameFacts ==
  ASSUME NEW m, NEW ms
  PROVE  /\ Frame(m, ms).module = m
         /\ Frame(m, ms) = [module |-> m, pending |-> Frame(m, ms).pending]
         /\ Frame(m, ms).pending = {n \in UNION {ms[m][x].calls : x \in DOMAIN ms[m]} :
                                       ~HasBody(ms[m], n)}
  BY DEF Frame

LEMMA HandleTopLevelExpressionInv ==
  ASSUME LinkInv, HandleTopLevelExpression
  PROVE  LinkInv'
<1>1. /\ state = "prompt" /\ UNCHANGED <<version, links>>
      /\ compiling = <<>> /\ Numbered /\ LinksAgree /\ Compiled
  BY DEF HandleTopLevelExpression, LinkInv
<1>2. Extends(WithOpen, Opened)
  BY <1>1, OpenExtends
<1>3. PICK calls \in Bodies : FunctionCodegen(WithOpen, Opened, Anon, calls)
  BY DEF HandleTopLevelExpression
<1>4. /\ state' \in {"prompt", "compiling"} => Extends(modules', Opened)
      /\ state' \in {"prompt", "compiling", "dangling", "asserted"}
  BY <1>2, <1>3, CodegenExtends
<1>5. CASE state' = "prompt"
  BY <1>1, <1>4, <1>5, TypingInv DEF HandleTopLevelExpression
<1>6. CASE state' \in {"dangling", "asserted"}
  BY <1>6, LostInv
<1>7. CASE state' = "compiling"
  <2>0. PICK o : o = Opened
    OBVIOUS
  <2> DEFINE f == Frame(o, modules')
  <2>1. compiling' = <<f>> /\ engines' = Recorded(o) /\ OpenModule' = 0
    BY <1>7, <2>0 DEF HandleTopLevelExpression
  <2>2. f.module = o /\ f = [module |-> f.module, pending |-> f.pending]
    BY FrameFacts
  <2>3. f.pending = {n \in Calls(o)' : ~HasBody(modules'[o], n)}
    BY FrameFacts DEF Calls
  <2> HIDE DEF f
  <2>4. <<f>> \in Seq({f}) /\ Len(<<f>>) = 1 /\ DOMAIN <<f>> = {1} /\ <<f>>[1] = f
        /\ <<f>> # <<>>
    OBVIOUS
  <2>5. IsSeq(compiling')
    BY <2>1, <2>4, SeqIsSeq
  <2>6. Stacked = {} /\ Stacked' = {o}
    BY <1>1, <2>1, <2>2, <2>4, EmptyIsSeq DEF Stacked
  <2>7. Extends(modules', o)
    BY <1>4, <1>7, <2>0
  <2>8. Len(modules') \in Nat /\ o \in 1..Len(modules') /\ o \notin engines
    BY <2>7, IsSeqProperties DEF Extends
  <2>9. engines' \ Stacked' = engines /\ engines \subseteq engines'
        /\ engines' \subseteq engines \cup {o}
    BY <2>1, <2>6, <2>8 DEF Recorded
  <2>10. Numbered'
    BY <2>1, <2>2, <2>4, <2>5, <2>6, <2>7, <2>8, <2>9 DEF Numbered, Extends
  <2>11. LinksAgree'
    BY <1>1, <2>6, <2>9 DEF LinksAgree
  <2>12. \A m \in engines : Calls(m)' = Calls(m) /\ \A n : Resolves(m, n) => Resolves(m, n)'
    BY <1>1, <2>7 DEF Extends, Calls, Resolves, HasBody, Has, HasLink
  <2>13. \A m \in engines : \A n \in Calls(m) : Resolves(m, n)
    BY <1>1, <2>6 DEF Compiled
  <2>14. \A n \in Calls(o)' : Resolves(o, n)' \/ n \in f.pending
    BY <2>3 DEF Resolves
  <2>15. \A n : ~HasLink(o, n)'
    BY <1>1, <2>6, <2>8 DEF LinksAgree, HasLink
  <2>16. RecordsFirst' => o \in engines'
    BY <1>1, <2>1 DEF RecordsFirst, Recorded
  <2>17. Compiled'
    BY <2>1, <2>2, <2>4, <2>9, <2>12, <2>13, <2>14, <2>15, <2>16 DEF Compiled
  <2> QED
    BY <1>7, <2>1, <2>4, <2>10, <2>11, <2>17 DEF LinkInv, CompiledOnce
<1> QED
  BY <1>4, <1>5, <1>6, <1>7

-----------------------------------------------------------------------------
LEMMA TopFacts ==
  ASSUME Numbered, compiling # <<>>
  PROVE  /\ Len(compiling) \in Nat \ {0}
         /\ DOMAIN compiling = 1..Len(compiling)
         /\ 1 \in DOMAIN compiling
         /\ Top = compiling[1]
         /\ Top = [module |-> Top.module, pending |-> Top.pending]
<1>1. Len(compiling) \in Nat \ {0} /\ Top = compiling[1]
  BY TailIsSeq DEF Numbered, Top
<1>2. DOMAIN compiling = 1..Len(compiling)
  BY IsSeqProperties DEF Numbered
<1> QED
  BY <1>1, <1>2 DEF Numbered

(* A symbol has been resolved: it is no longer pending in the innermost frame. *)
LEMMA ResolvedFacts ==
  ASSUME Numbered, compiling # <<>>, NEW n
  PROVE  /\ IsSeq(Resolved(n)) /\ Resolved(n) # <<>>
         /\ Len(Resolved(n)) = Len(compiling)
         /\ DOMAIN Resolved(n) = 1..Len(compiling)
         /\ Resolved(n)[1] = [module |-> Top.module, pending |-> Top.pending \ {n}]
         /\ \A i \in 2..Len(compiling) : Resolved(n)[i] = compiling[i]
<1> DEFINE t == Tail(compiling)
           f == [Top EXCEPT !.pending = @ \ {n}]
<1>1. /\ IsSeq(t) /\ Len(compiling) \in Nat \ {0} /\ Top = compiling[1]
      /\ Len(t) = Len(compiling) - 1
      /\ \A i \in 1..Len(t) : t[i] = compiling[i + 1]
  BY TailIsSeq DEF Numbered, Top
<1>2. PICK m, p : Top = [module |-> m, pending |-> p]
  BY TopFacts
<1>3. [[module |-> m, pending |-> p] EXCEPT !.pending = @ \ {n}]
          = [module |-> m, pending |-> p \ {n}]
  OBVIOUS
<1>4. f = [module |-> Top.module, pending |-> Top.pending \ {n}]
  BY <1>2, <1>3
<1>5. Resolved(n) = <<f>> \o t
  BY DEF Resolved
<1> HIDE DEF f, t
<1>6. /\ IsSeq(<<f>> \o t)
      /\ Len(<<f>> \o t) = Len(t) + 1
      /\ (<<f>> \o t)[1] = f
      /\ \A i \in 2..Len(t) + 1 : (<<f>> \o t)[i] = t[i - 1]
      /\ <<f>> \o t # <<>>
  BY <1>1, PushIsSeq
<1>7. DOMAIN Resolved(n) = 1..Len(Resolved(n)) /\ Len(Resolved(n)) = Len(compiling)
  BY <1>1, <1>5, <1>6, IsSeqProperties
<1>8. \A i \in 2..Len(compiling) : Resolved(n)[i] = compiling[i]
  BY <1>1, <1>5, <1>6
<1> QED
  BY <1>1, <1>4, <1>5, <1>6, <1>7, <1>8

(* Linking a pending symbol to a module that is there: what both ways of       *)
(* resolving a symbol have in common.                                          *)
LEMMA NewLink ==
  ASSUME LinkInv, state = "compiling", NEW n \in Top.pending, NEW target,
         Link(n, target), modules' = modules
  PROVE  /\ \A m, x : HasLink(m, x)' <=> HasLink(m, x) \/ (m = Top.module /\ x = n)
         /\ \A k, l \in links' : k[1] = l[1] /\ k[2] = l[2] => k[3] = l[3]
         /\ Top.module \in Stacked
         /\ \A m, x : Resolves(m, x) => Resolves(m, x)'
         /\ \A m : Calls(m)' = Calls(m)
<1>1. Numbered /\ compiling # <<>> /\ LinksAgree /\ Compiled
  BY DEF LinkInv
<1> DEFINE new == <<Top.module, n, target>>
<1>2. /\ links' = links \cup {new}
      /\ new[1] = Top.module /\ new[2] = n /\ new[3] = target
  BY DEF Link
<1> HIDE DEF new
<1>3. Top = compiling[1] /\ 1 \in DOMAIN compiling
  BY <1>1, TopFacts
<1>4. ~HasLink(Top.module, n)
  BY <1>1, <1>3 DEF Compiled
<1>5. \A m, x : HasLink(m, x)' <=> HasLink(m, x) \/ (m = Top.module /\ x = n)
  BY <1>2 DEF HasLink
<1>6. \A k, l \in links' : k[1] = l[1] /\ k[2] = l[2] => k[3] = l[3]
  BY <1>1, <1>2, <1>4 DEF LinksAgree, HasLink
<1>7. Top.module \in Stacked
  BY <1>3 DEF Stacked
<1>8. \A m, x : Resolves(m, x) => Resolves(m, x)'
  BY <1>5 DEF Resolves, HasBody, Has
<1>9. \A m : Calls(m)' = Calls(m)
  BY DEF Calls
<1> QED
  BY <1>5, <1>6, <1>7, <1>8, <1>9

(* Resolved in the process, or in a module that has an engine.                 *)
LEMMA LinkInvKept ==
  ASSUME LinkInv, state = "compiling", NEW n \in Top.pending,
         NEW target \in engines \cup {Process},
         compiling' = Resolved(n), Link(n, target),
         UNCHANGED <<version, modules, OpenModule, engines, state>>
  PROVE  LinkInv'
<1>1. Numbered /\ compiling # <<>> /\ LinksAgree /\ Compiled /\ OpenModule = 0
  BY DEF LinkInv
<1>2. /\ Len(compiling) \in Nat \ {0}
      /\ DOMAIN compiling = 1..Len(compiling)
      /\ Top = compiling[1]
      /\ IsSeq(compiling') /\ compiling' # <<>>
      /\ DOMAIN compiling' = 1..Len(compiling)
      /\ compiling'[1] = [module |-> Top.module, pending |-> Top.pending \ {n}]
      /\ \A i \in 2..Len(compiling) : compiling'[i] = compiling[i]
  BY <1>1, TopFacts, ResolvedFacts
<1>3. /\ \A m, x : HasLink(m, x)' <=> HasLink(m, x) \/ (m = Top.module /\ x = n)
      /\ \A k, l \in links' : k[1] = l[1] /\ k[2] = l[2] => k[3] = l[3]
      /\ Top.module \in Stacked
      /\ \A m, x : Resolves(m, x) => Resolves(m, x)'
      /\ \A m : Calls(m)' = Calls(m)
  BY NewLink
<1>4. \A i \in DOMAIN compiling : compiling'[i].module = compiling[i].module
  BY <1>2
<1>5. Stacked' = Stacked
  BY <1>2, <1>4 DEF Stacked
<1>6. \A i \in DOMAIN compiling : compiling'[i] =
         [module |-> compiling'[i].module, pending |-> compiling'[i].pending]
  BY <1>1, <1>2 DEF Numbered
<1>7. Numbered'
  BY <1>1, <1>2, <1>5, <1>6 DEF Numbered
<1>8. LinksAgree'
  BY <1>1, <1>3, <1>5 DEF LinksAgree, Link
<1>9. \A m \in engines' \ Stacked' : \A x \in Calls(m)' : Resolves(m, x)'
  BY <1>1, <1>3, <1>5 DEF Compiled
<1>10. ASSUME NEW i \in DOMAIN compiling, NEW m, m = compiling[i].module
       PROVE  /\ \A x \in Calls(m)' : Resolves(m, x)' \/ x \in compiling'[i].pending
              /\ \A x \in compiling'[i].pending : ~HasLink(m, x)'
              /\ \A j \in DOMAIN compiling : m = compiling'[j].module => i = j
              /\ RecordsFirst' => m \in engines'
  <2>1. /\ \A x \in Calls(m) : Resolves(m, x) \/ x \in compiling[i].pending
        /\ \A x \in compiling[i].pending : ~HasLink(m, x)
        /\ \A j \in DOMAIN compiling : m = compiling[j].module => i = j
        /\ RecordsFirst => m \in engines
    BY <1>1, <1>10 DEF Compiled
  <2>2. RecordsFirst' <=> RecordsFirst
    BY DEF RecordsFirst
  <2>3. m = Top.module => Resolves(m, n)'
    BY <1>3 DEF Resolves
  <2>4. CASE i = 1
    <3>1. m = Top.module /\ compiling'[i].pending = compiling[i].pending \ {n}
      BY <1>2, <1>10, <2>4
    <3> QED
      BY <1>3, <1>4, <2>1, <2>2, <2>3, <3>1
  <2>5. CASE i # 1
    <3>1. m # Top.module /\ compiling'[i].pending = compiling[i].pending
      BY <1>2, <1>10, <2>1, <2>5
    <3> QED
      BY <1>3, <1>4, <2>1, <2>2, <3>1
  <2> QED
    BY <2>4, <2>5
<1>11. Compiled'
  BY <1>2, <1>4, <1>9, <1>10 DEF Compiled
<1> QED
  BY <1>1, <1>2, <1>7, <1>8, <1>11 DEF LinkInv, CompiledOnce

(* Resolved in a module that is compiled for it, and was not being compiled.   *)
LEMMA LinkInvPushed ==
  ASSUME LinkInv, state = "compiling", NEW n \in Top.pending,
         NEW o \in 1..Len(modules), o \notin engines, o \notin Stacked,
         compiling' = <<Frame(o, modules)>> \o Resolved(n), Link(n, o),
         engines' = Recorded(o),
         UNCHANGED <<version, modules, OpenModule, state>>
  PROVE  LinkInv'
<1> DEFINE f == Frame(o, modules)
           s == Resolved(n)
           len == Len(compiling)
<1>1. Numbered /\ compiling # <<>> /\ LinksAgree /\ Compiled /\ OpenModule = 0
  BY DEF LinkInv
<1>2. /\ len \in Nat \ {0} /\ DOMAIN compiling = 1..len
      /\ Top = compiling[1] /\ 1 \in DOMAIN compiling
      /\ IsSeq(s) /\ Len(s) = len
      /\ s[1] = [module |-> Top.module, pending |-> Top.pending \ {n}]
      /\ \A i \in 2..len : s[i] = compiling[i]
  BY <1>1, TopFacts, ResolvedFacts
<1>3. /\ \A m, x : HasLink(m, x)' <=> HasLink(m, x) \/ (m = Top.module /\ x = n)
      /\ \A k, l \in links' : k[1] = l[1] /\ k[2] = l[2] => k[3] = l[3]
      /\ Top.module \in Stacked
      /\ \A m, x : Resolves(m, x) => Resolves(m, x)'
      /\ \A m : Calls(m)' = Calls(m)
  BY NewLink
<1>4. /\ f.module = o
      /\ f = [module |-> f.module, pending |-> f.pending]
      /\ f.pending = {x \in Calls(o) : ~HasBody(modules[o], x)}
  BY FrameFacts DEF Calls
<1> HIDE DEF f, s
<1>5. /\ IsSeq(<<f>> \o s)
      /\ Len(<<f>> \o s) = Len(s) + 1
      /\ (<<f>> \o s)[1] = f
      /\ \A i \in 2..Len(s) + 1 : (<<f>> \o s)[i] = s[i - 1]
      /\ <<f>> \o s # <<>>
  BY <1>2, PushIsSeq
<1>6. compiling' = <<f>> \o s
  BY DEF f, s
<1>7. /\ IsSeq(compiling') /\ compiling' # <<>>
      /\ DOMAIN compiling' = 1..len + 1
      /\ compiling'[1] = f
      /\ \A i \in 1..len : compiling'[i + 1] = s[i]
  <2>1. DOMAIN compiling' = 1..len + 1
    BY <1>2, <1>5, <1>6, IsSeqProperties
  <2>2. ASSUME NEW i \in 1..len PROVE compiling'[i + 1] = s[i]
    BY <1>2, <1>5, <1>6
  <2> QED
    BY <1>5, <1>6, <2>1, <2>2
<1> HIDE DEF len
<1>8. \A i \in DOMAIN compiling' : i = 1 \/ \E j \in 1..len : i = j + 1
  <2>1. ASSUME NEW i \in DOMAIN compiling', i # 1
        PROVE  i - 1 \in 1..len /\ i = (i - 1) + 1
    BY <1>2, <1>7, <2>1
  <2> QED
    BY <2>1
<1>9. ASSUME NEW j \in 1..len
       PROVE  /\ s[j].module = compiling[j].module
              /\ s[j] = [module |-> s[j].module, pending |-> s[j].pending]
              /\ j = 1 => s[j].pending = Top.pending \ {n}
              /\ j # 1 => s[j].pending = compiling[j].pending
  <2>1. CASE j = 1
    BY <1>2, <2>1
  <2>2. CASE j # 1
    <3>1. j \in 2..len /\ j \in DOMAIN compiling
      BY <1>2, <2>2
    <3>2. s[j] = compiling[j]
      BY <1>2, <3>1
    <3> QED
      BY <1>1, <2>2, <3>1, <3>2 DEF Numbered
  <2> QED
    BY <2>1, <2>2
<1>10. ASSUME NEW j \in 1..len
      PROVE  compiling'[j + 1].module = compiling[j].module /\ j + 1 \in DOMAIN compiling'
  <2>1. compiling'[j + 1] = s[j]
    BY <1>7
  <2>2. j + 1 \in 1..len + 1
    BY <1>2
  <2> QED
    BY <1>7, <1>9, <2>1, <2>2
<1>11. Stacked' = Stacked \cup {o}
  <2>1. 1 \in DOMAIN compiling'
    BY <1>2, <1>7
  <2>2. \A i \in DOMAIN compiling' : compiling'[i].module \in Stacked \cup {o}
    BY <1>2, <1>4, <1>7, <1>8, <1>10 DEF Stacked
  <2>3. Stacked' = {compiling'[i].module : i \in DOMAIN compiling'}
    BY DEF Stacked
  <2>4. ASSUME NEW m \in Stacked
        PROVE  m \in Stacked'
    <3>1. PICK j \in 1..len : m = compiling[j].module
      BY <1>2 DEF Stacked
    <3>2. j + 1 \in DOMAIN compiling' /\ m = compiling'[j + 1].module
      BY <1>10, <3>1
    <3> QED
      BY <2>3, <3>2
  <2>5. o \in Stacked'
    BY <1>4, <1>7, <2>1, <2>3
  <2>6. Stacked' \subseteq Stacked \cup {o}
    BY <2>2, <2>3
  <2> QED
    BY <2>4, <2>5, <2>6
<1>12. engines' \subseteq engines \cup {o} /\ engines \subseteq engines'
  BY DEF Recorded
<1>13. Numbered'
  <2>2. ASSUME NEW i \in DOMAIN compiling'
        PROVE  compiling'[i] =
                  [module |-> compiling'[i].module, pending |-> compiling'[i].pending]
    <3>1. CASE i = 1
      BY <1>4, <1>7, <3>1
    <3>2. CASE i # 1
      <4>1. PICK j \in 1..len : i = j + 1
        BY <1>8, <3>2
      <4>2. compiling'[i] = s[j]
        BY <1>7, <4>1
      <4> QED
        BY <1>9, <4>2
    <3> QED
      BY <3>1, <3>2
  <2>3. Len(modules) \in Nat
    BY <1>1, IsSeqProperties DEF Numbered
  <2>4. engines' \cup Stacked' \subseteq 1..Len(modules)
    BY <1>1, <1>11, <1>12 DEF Numbered
  <2>5. 0 \notin engines' \cup Stacked' /\ 0 \in 0..Len(modules)
    BY <2>3, <2>4
  <2> QED
    BY <1>1, <1>7, <2>2, <2>4, <2>5 DEF Numbered
<1>14. LinksAgree'
  <2>1. engines \cup Stacked \subseteq engines' \cup Stacked' /\ o \in Stacked'
    BY <1>11, <1>12
  <2> DEFINE new == <<Top.module, n, o>>
  <2>2. links' = links \cup {new} /\ new[1] = Top.module /\ new[3] = o
    BY DEF Link
  <2> HIDE DEF new
  <2>3. \A l \in links' : /\ l[1] \in engines' \cup Stacked'
                          /\ l[3] \in engines' \cup Stacked' \cup {Process}
    BY <1>1, <1>3, <2>1, <2>2 DEF LinksAgree
  <2> QED
    BY <1>3, <2>3 DEF LinksAgree
<1>15. \A m \in engines' \ Stacked' : \A x \in Calls(m)' : Resolves(m, x)'
  BY <1>1, <1>3, <1>11, <1>12 DEF Compiled
<1>16. ASSUME NEW j \in 1..len, NEW m, m = compiling[j].module
       PROVE  /\ \A x \in Calls(m)' : Resolves(m, x)' \/ x \in s[j].pending
              /\ \A x \in s[j].pending : ~HasLink(m, x)'
              /\ \A i \in DOMAIN compiling' : m = compiling'[i].module => i = j + 1
              /\ RecordsFirst' => m \in engines'
  <2>1. /\ \A x \in Calls(m) : Resolves(m, x) \/ x \in compiling[j].pending
        /\ \A x \in compiling[j].pending : ~HasLink(m, x)
        /\ \A i \in DOMAIN compiling : m = compiling[i].module => i = j
        /\ RecordsFirst => m \in engines
    BY <1>1, <1>2, <1>16 DEF Compiled
  <2>2. RecordsFirst' <=> RecordsFirst
    BY DEF RecordsFirst
  <2>3. m = Top.module => Resolves(m, n)'
    BY <1>3 DEF Resolves
  <2>4. m # o /\ m \in Stacked
    BY <1>2, <1>16 DEF Stacked
  <2>5. ASSUME NEW i \in DOMAIN compiling', m = compiling'[i].module
        PROVE  i = j + 1
    <3>1. i # 1
      BY <1>4, <1>7, <2>4, <2>5
    <3>2. PICK k \in 1..len : i = k + 1
      BY <1>8, <3>1
    <3> QED
      BY <1>2, <1>10, <2>1, <2>5, <3>2
  <2>6. CASE j = 1
    <3>1. m = Top.module /\ s[j].pending = compiling[j].pending \ {n}
      BY <1>2, <1>16, <1>9, <2>6
    <3> QED
      BY <1>3, <1>12, <2>1, <2>2, <2>3, <2>5, <3>1
  <2>7. CASE j # 1
    <3>1. m # Top.module /\ s[j].pending = compiling[j].pending
      BY <1>2, <1>16, <1>9, <2>1, <2>7
    <3> QED
      BY <1>3, <1>12, <2>1, <2>2, <2>5, <3>1
  <2> QED
    BY <2>6, <2>7
<1>17. /\ \A x \in Calls(o)' : Resolves(o, x)' \/ x \in f.pending
       /\ \A x : ~HasLink(o, x)'
       /\ \A i \in DOMAIN compiling' : o = compiling'[i].module => i = 1
       /\ RecordsFirst' => o \in engines'
  <2>1. \A x : ~HasLink(o, x)
    BY <1>1 DEF LinksAgree, HasLink
  <2>2. \A i \in 1..len : compiling[i].module # o
    BY <1>2 DEF Stacked
  <2>3. \A x \in Calls(o) : HasBody(modules[o], x) \/ x \in f.pending
    BY <1>4
  <2>4. RecordsFirst' => o \in engines'
    BY DEF RecordsFirst, Recorded
  <2>5. \A i \in DOMAIN compiling' : o = compiling'[i].module => i = 1
    BY <1>8, <1>10, <2>2
  <2>6. \A x \in Calls(o)' : Resolves(o, x)' \/ x \in f.pending
    BY <1>3, <2>3 DEF Resolves
  <2> QED
    BY <1>3, <2>1, <2>4, <2>5, <2>6
<1>18. Compiled'
  <2>1. ASSUME NEW i \in DOMAIN compiling', NEW m, m = compiling'[i].module
        PROVE  /\ \A x \in Calls(m)' : Resolves(m, x)' \/ x \in compiling'[i].pending
               /\ \A x \in compiling'[i].pending : ~HasLink(m, x)'
               /\ \A k \in DOMAIN compiling' : m = compiling'[k].module => k = i
               /\ RecordsFirst' => m \in engines'
    <3>1. CASE i = 1
      BY <1>4, <1>7, <1>17, <2>1, <3>1
    <3>2. CASE i # 1
      <4>1. PICK j \in 1..len : i = j + 1
        BY <1>8, <3>2
      <4>2. m = compiling[j].module /\ compiling'[i] = s[j]
        BY <1>7, <1>10, <2>1, <4>1
      <4> QED
        BY <1>16, <4>1, <4>2
    <3> QED
      BY <3>1, <3>2
  <2> QED
    BY <1>15, <2>1 DEF Compiled
<1> QED
  BY <1>1, <1>7, <1>13, <1>14, <1>18 DEF LinkInv, CompiledOnce

LEMMA getPointerToNamedFunctionInv ==
  ASSUME LinkInv, getPointerToNamedFunction
  PROVE  LinkInv'
<1>1. state = "compiling" /\ UNCHANGED <<version, modules, OpenModule>>
  BY DEF getPointerToNamedFunction
<1>2. Numbered /\ compiling # <<>> /\ Compiled
  BY <1>1 DEF LinkInv
<1>3. PICK n \in Top.pending :
         \/ /\ compiling' = Resolved(n) /\ Link(n, Process)
            /\ UNCHANGED <<engines, state>>
         \/ state' = "fatal"
         \/ /\ Finds(n) /\ Found(n) \in engines
            /\ compiling' = Resolved(n) /\ Link(n, Found(n))
            /\ UNCHANGED <<engines, state>>
         \/ /\ Finds(n) /\ Found(n) \notin engines
            /\ CompileFound(n, Found(n))
  BY DEF getPointerToNamedFunction
<1>4. CASE compiling' = Resolved(n) /\ Link(n, Process) /\ UNCHANGED <<engines, state>>
  BY <1>1, <1>4, LinkInvKept
<1>5. CASE state' = "fatal"
  BY <1>5, LostInv
<1>6. CASE /\ Found(n) \in engines
           /\ compiling' = Resolved(n) /\ Link(n, Found(n)) /\ UNCHANGED <<engines, state>>
  BY <1>1, <1>6, LinkInvKept
<1>7. CASE Finds(n) /\ Found(n) \notin engines /\ CompileFound(n, Found(n))
  <2>1. PICK o \in 1..Len(modules) : o = Found(n)
    BY <1>2, <1>7, FoundIsCandidate DEF Finds
  <2>2. CASE OnStack(o)
    <3>1. PICK i \in DOMAIN compiling : compiling[i].module = o
      BY <2>2 DEF OnStack
    <3>2. ~RecordsFirst
      BY <1>2, <1>7, <2>1, <3>1 DEF Compiled
    <3>3. ~RecordsFirst'
      BY <1>1, <3>2 DEF RecordsFirst
    <3>4. state' = "endless"
      BY <1>7, <2>1, <2>2 DEF CompileFound
    <3> QED
      BY <3>3, <3>4 DEF LinkInv, CompiledOnce
  <2>3. CASE ~OnStack(o)
    <3>1. o \notin Stacked
      BY <2>3 DEF OnStack, Stacked
    <3>2. /\ compiling' = <<Frame(o, modules)>> \o Resolved(n)
          /\ engines' = Recorded(o) /\ Link(n, o) /\ state' = state
      BY <1>7, <2>1, <2>3 DEF CompileFound
    <3> QED
      BY <1>1, <1>7, <2>1, <3>1, <3>2, LinkInvPushed
  <2> QED
    BY <2>2, <2>3
<1> QED
  BY <1>3, <1>4, <1>5, <1>6, <1>7

LEMMA FinalizedInv ==
  ASSUME LinkInv, Finalized
  PROVE  LinkInv'
<1> DEFINE len == Len(compiling)
<1>1. /\ state = "compiling" /\ Top.pending = {} /\ compiling' = Tail(compiling)
      /\ engines' = engines \cup {Top.module}
      /\ state' = IF len = 1 THEN "run" ELSE state
      /\ UNCHANGED <<version, modules, OpenModule, links>>
  BY DEF Finalized
<1>2. Numbered /\ compiling # <<>> /\ LinksAgree /\ Compiled /\ OpenModule = 0
  BY <1>1 DEF LinkInv
<1>3. /\ len \in Nat \ {0} /\ DOMAIN compiling = 1..len
      /\ Top = compiling[1] /\ 1 \in DOMAIN compiling
  BY <1>2, TopFacts
<1>4. /\ IsSeq(compiling') /\ Len(compiling') = len - 1
      /\ \A i \in 1..Len(compiling') : compiling'[i] = compiling[i + 1]
  BY <1>1, <1>2, TailIsSeq DEF Numbered
<1>5. DOMAIN compiling' = 1..len - 1
  BY <1>4, IsSeqProperties
<1> HIDE DEF len
<1>6. ASSUME NEW i \in DOMAIN compiling'
      PROVE  i + 1 \in DOMAIN compiling /\ compiling'[i] = compiling[i + 1] /\ i + 1 # 1
  BY <1>3, <1>4, <1>5
<1>7. \A i \in DOMAIN compiling : i # 1 => \E j \in DOMAIN compiling' : i = j + 1
  <2>1. ASSUME NEW i \in DOMAIN compiling, i # 1
        PROVE  i - 1 \in DOMAIN compiling' /\ i = (i - 1) + 1
    BY <1>3, <1>5, <2>1
  <2> QED
    BY <2>1
<1>8. /\ Stacked = Stacked' \cup {Top.module}
      /\ Top.module \notin Stacked'
  <2>1. Stacked' = {compiling'[i].module : i \in DOMAIN compiling'}
    BY DEF Stacked
  <2>2. Stacked' \subseteq Stacked
    BY <1>6, <2>1 DEF Stacked
  <2>3. Top.module \in Stacked
    BY <1>3 DEF Stacked
  <2>4. ASSUME NEW m \in Stacked, m # Top.module
        PROVE  m \in Stacked'
    <3>1. PICK i \in DOMAIN compiling : m = compiling[i].module
      BY DEF Stacked
    <3>2. PICK j \in DOMAIN compiling' : i = j + 1
      BY <1>3, <1>7, <2>4, <3>1
    <3> QED
      BY <1>6, <2>1, <3>1, <3>2
  <2>5. ASSUME NEW i \in DOMAIN compiling'
        PROVE  compiling'[i].module # Top.module
    BY <1>2, <1>3, <1>6 DEF Compiled
  <2> QED
    BY <2>1, <2>2, <2>3, <2>4, <2>5
<1>9. engines' \cup Stacked' = engines \cup Stacked
  BY <1>1, <1>8
<1>10. Numbered'
  BY <1>1, <1>2, <1>4, <1>6, <1>9 DEF Numbered
<1>11. LinksAgree'
  BY <1>1, <1>2, <1>9 DEF LinksAgree
<1>12. /\ \A m : Calls(m)' = Calls(m)
       /\ \A m, n : Resolves(m, n)' <=> Resolves(m, n)
       /\ \A m, n : HasLink(m, n)' <=> HasLink(m, n)
  BY <1>1 DEF Calls, Resolves, HasBody, Has, HasLink
<1>13. ASSUME NEW m \in engines' \ Stacked'
       PROVE  \A n \in Calls(m)' : Resolves(m, n)'
  <2>1. m \in engines \ Stacked \/ m = Top.module
    BY <1>1, <1>8
  <2>2. CASE m = Top.module
    BY <1>1, <1>2, <1>3, <1>12, <2>2 DEF Compiled
  <2>3. CASE m \in engines \ Stacked
    BY <1>2, <1>12, <2>3 DEF Compiled
  <2> QED
    BY <2>1, <2>2, <2>3
<1>14. ASSUME NEW i \in DOMAIN compiling', NEW m, m = compiling'[i].module
       PROVE  /\ \A x \in Calls(m)' : Resolves(m, x)' \/ x \in compiling'[i].pending
              /\ \A x \in compiling'[i].pending : ~HasLink(m, x)'
              /\ \A k \in DOMAIN compiling' : m = compiling'[k].module => k = i
              /\ RecordsFirst' => m \in engines'
  <2>1. i + 1 \in DOMAIN compiling /\ compiling'[i] = compiling[i + 1]
    BY <1>6
  <2>2. m = compiling[i + 1].module
    BY <1>14, <2>1
  <2>3. /\ \A x \in Calls(m) : Resolves(m, x) \/ x \in compiling'[i].pending
        /\ \A x \in compiling'[i].pending : ~HasLink(m, x)
        /\ \A j \in DOMAIN compiling : m = compiling[j].module => i + 1 = j
        /\ RecordsFirst => m \in engines
    BY <1>2, <2>1, <2>2 DEF Compiled
  <2>4. ASSUME NEW k \in DOMAIN compiling', m = compiling'[k].module
        PROVE  k = i
    BY <1>5, <1>6, <2>3, <2>4
  <2>5. RecordsFirst' => m \in engines'
    BY <1>1, <2>3 DEF RecordsFirst
  <2> QED
    BY <1>12, <2>3, <2>4, <2>5
<1>15. Compiled'
  BY <1>13, <1>14 DEF Compiled
<1>16. len = 1 <=> compiling' = <<>>
  BY <1>3, <1>4, <1>5, EmptyIsSeq, EmptySeq DEF IsSeq
<1> QED
  BY <1>1, <1>2, <1>10, <1>11, <1>15, <1>16 DEF LinkInv, CompiledOnce

(* What neither types nor compiles.                                            *)
LEMMA OtherInv ==
  ASSUME LinkInv, Evaluated \/ EndOfInput \/ UNCHANGED vars
  PROVE  LinkInv'
<1>1. UNCHANGED <<version, modules, OpenModule, engines, compiling, links>>
  BY DEF Evaluated, EndOfInput, vars
<1>2. \/ state = "run" /\ state' = "prompt"
      \/ state = "prompt" /\ state' = "ended"
      \/ state' = state
  BY DEF Evaluated, EndOfInput, vars
<1>3. CASE state' = "ended"
  BY <1>3, LostInv
<1>4. CASE state' # "ended"
  <2>1. /\ Numbered' <=> Numbered
        /\ LinksAgree' <=> LinksAgree
        /\ RecordsFirst' <=> RecordsFirst
    BY <1>1 DEF Numbered, LinksAgree, RecordsFirst, Stacked
  <2>2. /\ Stacked' = Stacked
        /\ \A m : Calls(m)' = Calls(m)
        /\ \A m, n : Resolves(m, n)' <=> Resolves(m, n)
        /\ \A m, n : HasLink(m, n)' <=> HasLink(m, n)
    BY <1>1 DEF Stacked, Calls, Resolves, HasLink, HasBody, Has
  <2>3. Compiled => Compiled'
    BY <1>1, <2>1, <2>2 DEF Compiled
  <2> QED
    BY <1>1, <1>2, <1>4, <2>1, <2>3 DEF LinkInv, CompiledOnce
<1> QED
  BY <1>3, <1>4

LEMMA InitInv ==
  ASSUME Init
  PROVE  LinkInv
<1>1. PICK n : modules = <<>> \/ modules = <<Put(<<>>, n, Defined({}))>>
  BY DEF Init
<1> DEFINE m == Put(<<>>, n, Defined({}))
<1>2. DOMAIN m = {n} /\ m[n].calls = {}
  BY DEF Put, Defined
<1> HIDE DEF m
<1>3. <<m>> \in Seq({m}) /\ Len(<<m>>) = 1 /\ DOMAIN <<m>> = {1} /\ <<m>>[1] = m
  OBVIOUS
<1>4. /\ IsSeq(modules) /\ Len(modules) \in 0..1 /\ DOMAIN modules = 1..Len(modules)
      /\ modules # <<>> => modules = <<m>>
  <2>1. CASE modules = <<>>
    <3>1. IsSeq(modules) /\ Len(modules) = 0
      BY <2>1, EmptyIsSeq
    <3> QED
      BY <2>1, <3>1, IsSeqProperties
  <2>2. CASE modules = <<m>>
    <3>1. IsSeq(modules)
      BY <1>3, <2>2, SeqIsSeq
    <3> QED
      BY <1>3, <2>2, <3>1
  <2> QED
    BY <1>1, <2>1, <2>2 DEF m
<1>5. \A i \in DOMAIN modules : Calls(i) = {}
  BY <1>2, <1>3, <1>4, EmptyIsSeq DEF Calls
<1>6. /\ OpenModule = 0 /\ compiling = <<>> /\ links = {} /\ state = "prompt"
      /\ engines \subseteq DOMAIN modules
  BY DEF Init
<1>7. Stacked = {} /\ DOMAIN compiling = {} /\ IsSeq(compiling)
  BY <1>6, EmptyIsSeq DEF Stacked
<1> QED
  BY <1>4, <1>5, <1>6, <1>7 DEF LinkInv, Numbered, LinksAgree, Compiled, CompiledOnce

-----------------------------------------------------------------------------
(* The invariant holds of every session of every version.                      *)
THEOREM LinkInvariant == Spec => []LinkInv
<1>1. ASSUME LinkInv, [Next]_vars
      PROVE  LinkInv'
  BY <1>1, HandleDefinitionInv, HandleExternInv, HandleTopLevelExpressionInv,
     getPointerToNamedFunctionInv, FinalizedInv, OtherInv DEF Next
<1> QED
  BY <1>1, InitInv, PTL DEF Spec

(* Recording the engine first, as the initial, lazy and cached versions do,    *)
(* makes functions that call each other across modules compile once each, for  *)
(* any modules and any calls between them.                                     *)
THEOREM CompiledOnceAlways == Spec => []CompiledOnce
<1>1. LinkInv => CompiledOnce
  BY DEF LinkInv
<1> QED
  BY <1>1, LinkInvariant, PTL

(* When an expression is run, every symbol of every module with an engine has  *)
(* been resolved, once, to a module that has one, or in the process.           *)
THEOREM RunsCompiledCodeAlways == Spec => []RunsCompiledCode
<1>1. ASSUME LinkInv
      PROVE  RunsCompiledCode
  <2> SUFFICES ASSUME state = "run", NEW m \in engines, NEW n \in Calls(m)
               PROVE  /\ Cardinality(Targets(m, n)) = 1
                      /\ Targets(m, n) \subseteq engines \cup {Process}
    BY DEF RunsCompiledCode
  <2>1. compiling = <<>> /\ LinksAgree /\ Compiled
    BY <1>1 DEF LinkInv
  <2>2. Stacked = {}
    BY <2>1, EmptyIsSeq DEF Stacked
  <2>3. Resolves(m, n)
    BY <2>1, <2>2 DEF Compiled
  <2>4. CASE HasBody(modules[m], n)
    <3>1. Targets(m, n) = {m}
      BY <2>4 DEF Targets
    <3> QED
      BY <3>1, FS_Singleton
  <2>5. CASE ~HasBody(modules[m], n)
    <3>1. PICK l \in links : l[1] = m /\ l[2] = n
      BY <2>3, <2>5 DEF Resolves, HasLink
    <3>2. Targets(m, n) = {k[3] : k \in {x \in links : x[1] = m /\ x[2] = n}}
      BY <2>5 DEF Targets
    <3>3. \A k \in links : k[1] = m /\ k[2] = n => k[3] = l[3]
      BY <2>1, <3>1 DEF LinksAgree
    <3>4. Targets(m, n) = {l[3]}
      BY <3>1, <3>2, <3>3
    <3>5. l[3] \in engines \cup {Process}
      BY <2>1, <2>2 DEF LinksAgree
    <3> QED
      BY <3>4, <3>5, FS_Singleton
  <2> QED
    BY <2>4, <2>5
<1> QED
  BY <1>1, LinkInvariant, PTL

-----------------------------------------------------------------------------
(* Why a name has one meaning where definitions close the open module: a       *)
(* module then holds one definition besides expressions, a call resolves to    *)
(* it only when no earlier module has the name, and any other call resolves to *)
(* the first module with a definition.                                         *)
CallsNames(module) == \A x \in DOMAIN module : module[x].calls \subseteq Names
OwnBodyIsFirst(ms, i) ==
    \A x \in DOMAIN ms[i] : \A n \in ms[i][x].calls :
        HasBody(ms[i], n) => \A j \in 1..(i - 1) : ~Has(ms[j], n)
LinksToFirst ==
    \A l \in links : l[2] \notin ProcessSymbols =>
        /\ l[3] \in 1..Len(modules)
        /\ HasBody(modules[l[3]], l[2])
        /\ \A j \in 1..(l[3] - 1) : ~HasBody(modules[j], l[2])

Live == state \in {"prompt", "compiling", "run"}
Meanings ==
    /\ OpenModule \in {0, Len(modules)}
    /\ \A i \in 1..Len(modules) : CallsNames(modules[i]) /\ OwnBodyIsFirst(modules, i)
    /\ LinksToFirst

(* In a session that goes on.                                                  *)
MeaningInv == Live /\ ClosesOnDefinition => Meanings

-----------------------------------------------------------------------------
(* Only the last module changes, and it is the open one.                       *)
OnlyLast(ms, m) ==
    /\ IsSeq(ms)
    /\ Len(ms) \in Nat \ {0} /\ m = Len(ms)
    /\ Len(modules) \in {m - 1, m}
    /\ \A i \in 1..(m - 1) : ms[i] = modules[i]

(* getModuleForNewFunction gives the last module.                              *)
LEMMA OpenLast ==
  ASSUME Numbered, OpenModule \in {0, Len(modules)}
  PROVE  /\ OnlyLast(WithOpen, Opened)
         /\ ClosesOnDefinition => OnlyLast(WithNew, Closed) /\ DOMAIN WithNew[Closed] = {}
         /\ WithOpen[Opened] = IF OpenModule = 0 THEN <<>> ELSE modules[OpenModule]
<1>1. Len(modules) \in Nat
  BY IsSeqProperties DEF Numbered
<1>2. /\ IsSeq(Append(modules, <<>>))
      /\ Len(Append(modules, <<>>)) = Len(modules) + 1
      /\ \A i \in 1..Len(modules) : Append(modules, <<>>)[i] = modules[i]
      /\ Append(modules, <<>>)[Len(modules) + 1] = <<>>
  BY AppendIsSeq DEF Numbered
<1>3. OnlyLast(Append(modules, <<>>), Len(modules) + 1)
  BY <1>1, <1>2 DEF OnlyLast
<1>4. ASSUME OpenModule # 0 PROVE OnlyLast(modules, OpenModule)
  BY <1>1, <1>4 DEF OnlyLast, Numbered
<1>5. DOMAIN <<>> = {}
  BY EmptyIsSeq
<1> QED
  BY <1>2, <1>3, <1>4, <1>5 DEF WithOpen, Opened, WithNew, Closed

LEMMA UpdateLast ==
  ASSUME NEW ms, NEW m, OnlyLast(ms, m), NEW e
  PROVE  OnlyLast([ms EXCEPT ![m] = e], m) /\ [ms EXCEPT ![m] = e][m] = e
<1> DEFINE new == [ms EXCEPT ![m] = e]
<1>1. IsSeq(ms) /\ m \in 1..Len(ms)
  BY DEF OnlyLast
<1>2. IsSeq(new) /\ Len(new) = Len(ms)
  BY <1>1, ExceptIsSeq, Zenon
<1>3. DOMAIN ms = 1..Len(ms)
  BY <1>1, IsSeqProperties
<1>4. \A i \in 1..Len(ms) : new[i] = IF i = m THEN e ELSE ms[i]
  BY <1>3
<1> HIDE DEF new
<1>5. OnlyLast(new, m) /\ new[m] = e
  BY <1>1, <1>2, <1>4 DEF OnlyLast
<1> QED
  BY <1>5 DEF new

(* The first module that has a name, where one does.                           *)
LEMMA FirstIsFirst ==
  ASSUME NEW ms, IsSeq(ms), NEW n, Known(ms, n)
  PROVE  /\ First(ms, n) \in 1..Len(ms) /\ Has(ms[First(ms, n)], n)
         /\ \A j \in 1..(First(ms, n) - 1) : ~Has(ms[j], n)
<1> DEFINE S == {i \in DOMAIN ms : Has(ms[i], n)}
<1>1. Len(ms) \in Nat /\ DOMAIN ms = 1..Len(ms)
  BY IsSeqProperties
<1>2. S \in SUBSET Nat /\ S # {}
  BY <1>1 DEF Known
<1>3. PICK i \in S : \A j \in S : i <= j
  BY <1>2, Least
<1>4. i \in DOMAIN ms /\ Has(ms[i], n) /\ \A j \in 1..(i - 1) : ~Has(ms[j], n)
  BY <1>1, <1>3
<1>5. /\ First(ms, n) \in DOMAIN ms /\ Has(ms[First(ms, n)], n)
      /\ \A j \in 1..(First(ms, n) - 1) : ~Has(ms[j], n)
  BY <1>4 DEF First
<1> QED
  BY <1>1, <1>5

(* Code generation declares what is called and keeps what is there.            *)
LEMMA CodegenLast ==
  ASSUME NEW ms, NEW m, OnlyLast(ms, m), CallsNames(ms[m]), OwnBodyIsFirst(ms, m),
         NEW n, NEW calls \in SUBSET Names, n = Anon \/ DOMAIN ms[m] = {},
         FunctionCodegen(ms, m, n, calls), state' \in {"prompt", "compiling"}
  PROVE  OnlyLast(modules', m) /\ CallsNames(modules'[m]) /\ OwnBodyIsFirst(modules', m)
<1> DEFINE first == Put(ms[m], n, Defined({}))
           begun == [ms EXCEPT ![m] = first]
           found == {c \in calls : GetsFunction(begun, m, c)}
           declared(names) == [x \in DOMAIN first \cup names |->
                                  IF x \in DOMAIN first THEN first[x] ELSE Declared]
<1>1. OnlyLast(begun, m) /\ begun[m] = first
  BY UpdateLast
<1>2. m \in Nat \ {0} /\ m = Len(ms)
  BY DEF OnlyLast
<1>3. /\ DOMAIN first = DOMAIN ms[m] \cup {n}
      /\ first[n] = Defined({})
      /\ \A x \in DOMAIN ms[m] \ {n} : first[x] = ms[m][x]
  BY DEF Put
<1>4. \A c : HasBody(first, c) <=> c = n \/ HasBody(ms[m], c)
  BY <1>3 DEF HasBody, Has, Defined
<1> HIDE DEF first
<1>5. \A j \in 1..(m - 1) : begun[j] = ms[j]
  BY <1>1, <1>2 DEF OnlyLast
<1> HIDE DEF begun
<1>6. \A names : /\ OnlyLast(DeclaredIn(begun, m, names), m)
                 /\ DeclaredIn(begun, m, names)[m] = declared(names)
  BY <1>1, UpdateLast DEF DeclaredIn
<1>7. \A names : /\ DOMAIN declared(names) = DOMAIN first \cup names
                 /\ \A x \in DOMAIN first : declared(names)[x] = first[x]
                 /\ \A x \in names \ DOMAIN first : declared(names)[x] = Declared
  OBVIOUS
<1>8. \A names, c : HasBody(declared(names), c) <=> HasBody(first, c)
  BY <1>7 DEF HasBody, Has, Declared
<1> HIDE DEF declared
<1>9. \A x \in DOMAIN ms[m] \ {n} : \A c \in ms[m][x].calls :
         c \in Names /\ (HasBody(first, c) => \A j \in 1..(m - 1) : ~Has(ms[j], c))
  BY <1>4, NamesAssumption DEF CallsNames, OwnBodyIsFirst
<1>10. ASSUME NEW new, OnlyLast(modules', m), modules'[m] = new,
              \A c : HasBody(new, c) => HasBody(first, c),
              NEW extra \in SUBSET calls,
              \A c \in extra : HasBody(first, c) => \A j \in 1..(m - 1) : ~Has(ms[j], c),
              \A x \in DOMAIN new :
                 \/ x \in DOMAIN ms[m] \ {n} /\ new[x].calls = ms[m][x].calls
                 \/ new[x].calls = {}
                 \/ new[x].calls = extra
       PROVE  CallsNames(modules'[m]) /\ OwnBodyIsFirst(modules', m)
  <2>1. \A j \in 1..(m - 1) : modules'[j] = ms[j]
    BY <1>2, <1>10 DEF OnlyLast
  <2>2. ASSUME NEW x \in DOMAIN new, NEW c \in new[x].calls
        PROVE  c \in Names /\ (HasBody(first, c) => \A j \in 1..(m - 1) : ~Has(ms[j], c))
    BY <1>9, <1>10, <2>2
  <2> QED
    BY <1>10, <2>1, <2>2 DEF CallsNames, OwnBodyIsFirst
<1>11. CASE /\ found = calls
            /\ modules' = [DeclaredIn(begun, m, calls) EXCEPT ![m] = Put(@, n, Defined(calls))]
  <2> DEFINE new == Put(declared(calls), n, Defined(calls))
  <2>1. OnlyLast(modules', m) /\ modules'[m] = new
    <3> DEFINE d == DeclaredIn(begun, m, calls)
    <3>1. OnlyLast(d, m) /\ d[m] = declared(calls)
      BY <1>6
    <3>2. modules' = [d EXCEPT ![m] = new]
      BY <1>11, <3>1
    <3> HIDE DEF d, new
    <3> QED
      BY <3>1, <3>2, UpdateLast
  <2>2. /\ DOMAIN new = DOMAIN first \cup calls
        /\ new[n] = Defined(calls)
        /\ \A x \in DOMAIN new \ {n} : new[x] = declared(calls)[x]
    BY <1>3, <1>7 DEF Put
  <2> HIDE DEF new
  <2>3. ASSUME NEW c, HasBody(new, c)
        PROVE  HasBody(first, c)
    <3>1. CASE c = n
      BY <1>4, <3>1
    <3>2. CASE c # n
      <4>1. c \in DOMAIN declared(calls) /\ new[c] = declared(calls)[c] /\ new[c].body
        BY <1>7, <2>2, <2>3, <3>2 DEF HasBody, Has
      <4>2. HasBody(declared(calls), c)
        BY <4>1 DEF HasBody, Has
      <4> QED
        BY <1>8, <4>2
    <3> QED
      BY <3>1, <3>2
  <2>4. \A x \in DOMAIN new :
           \/ x \in DOMAIN ms[m] \ {n} /\ new[x].calls = ms[m][x].calls
           \/ new[x].calls = {}
           \/ new[x].calls = calls
    BY <1>3, <1>7, <2>2 DEF Defined, Declared
  <2>5. ASSUME NEW c \in calls, HasBody(first, c)
        PROVE  \A j \in 1..(m - 1) : ~Has(ms[j], c)
    <3>1. Known(begun, c) /\ First(begun, c) = m
      BY <1>1, <1>11, <2>5 DEF GetsFunction
    <3>2. \A j \in 1..(m - 1) : ~Has(begun[j], c)
      BY <1>1, <3>1, FirstIsFirst DEF OnlyLast
    <3> QED
      BY <1>5, <3>2
  <2> QED
    BY <1>10, <2>1, <2>3, <2>4, <2>5
<1>12. CASE \E reached \in SUBSET found :
               modules' = [DeclaredIn(begun, m, reached) EXCEPT ![m] = Without(@, n)]
  <2>1. PICK reached \in SUBSET found :
           modules' = [DeclaredIn(begun, m, reached) EXCEPT ![m] = Without(@, n)]
    BY <1>12
  <2> DEFINE new == Without(declared(reached), n)
  <2>2. OnlyLast(modules', m) /\ modules'[m] = new
    <3> DEFINE d == DeclaredIn(begun, m, reached)
    <3>1. OnlyLast(d, m) /\ d[m] = declared(reached)
      BY <1>6
    <3>2. modules' = [d EXCEPT ![m] = new]
      BY <2>1, <3>1
    <3> HIDE DEF d, new
    <3> QED
      BY <3>1, <3>2, UpdateLast
  <2>3. /\ DOMAIN new = (DOMAIN first \cup reached) \ {n}
        /\ \A x \in DOMAIN new : new[x] = declared(reached)[x]
    BY <1>7 DEF Without
  <2> HIDE DEF new
  <2>4. ASSUME NEW c, HasBody(new, c)
        PROVE  HasBody(first, c)
    <3>1. c \in DOMAIN declared(reached) /\ new[c] = declared(reached)[c] /\ new[c].body
      BY <1>7, <2>3, <2>4 DEF HasBody, Has
    <3>2. HasBody(declared(reached), c)
      BY <3>1 DEF HasBody, Has
    <3> QED
      BY <1>8, <3>2
  <2>5. \A x \in DOMAIN new :
           \/ x \in DOMAIN ms[m] \ {n} /\ new[x].calls = ms[m][x].calls
           \/ new[x].calls = {}
    BY <1>3, <1>7, <2>3 DEF Declared
  <2> QED
    BY <1>10, <2>2, <2>4, <2>5
<1>13. state' # "asserted"
  OBVIOUS
<1> QED
  BY <1>10, <1>11, <1>12, <1>13 DEF FunctionCodegen, begun, first

-----------------------------------------------------------------------------
(* Opening a module, or going on in the open one, changes no meaning.          *)
LEMMA OpenMeanings ==
  ASSUME Numbered, Meanings
  PROVE  CallsNames(WithOpen[Opened]) /\ OwnBodyIsFirst(WithOpen, Opened)
<1>1. Len(modules) \in Nat
  BY IsSeqProperties DEF Numbered
<1>2. CASE OpenModule = 0
  <2>1. DOMAIN WithOpen[Opened] = {}
    BY <1>2, OpenLast, EmptyIsSeq DEF Meanings
  <2> QED
    BY <2>1 DEF CallsNames, OwnBodyIsFirst
<1>3. CASE OpenModule # 0
  <2>1. OpenModule \in 1..Len(modules) /\ WithOpen = modules /\ Opened = OpenModule
    BY <1>1, <1>3 DEF Meanings, WithOpen, Opened
  <2> QED
    BY <2>1 DEF Meanings
<1> QED
  BY <1>2, <1>3

(* A change of the last module, which has not been compiled, leaves the        *)
(* meanings that there are.                                                    *)
LEMMA TypingMeanings ==
  ASSUME LinkInv, state = "prompt", Meanings, UNCHANGED links,
         NEW m, OpenModule' \in {0, m}, m \notin engines, OnlyLast(modules', m),
         CallsNames(modules'[m]), OwnBodyIsFirst(modules', m)
  PROVE  Meanings'
<1>1. Numbered /\ LinksAgree /\ Stacked = {}
  BY EmptyIsSeq DEF LinkInv, Stacked
<1>2. Len(modules) \in Nat
  BY <1>1, IsSeqProperties DEF Numbered
<1>3. m \in Nat \ {0} /\ Len(modules') = m /\ Len(modules) \in {m - 1, m}
      /\ \A i \in 1..(m - 1) : modules'[i] = modules[i]
  BY DEF OnlyLast
<1>4. ASSUME NEW i \in 1..Len(modules')
      PROVE  CallsNames(modules'[i]) /\ OwnBodyIsFirst(modules', i)
  <2>1. CASE i = m
    BY <2>1
  <2>2. CASE i # m
    <3>1. i \in 1..(m - 1) /\ i \in 1..Len(modules)
      BY <1>2, <1>3, <2>2
    <3>2. modules'[i] = modules[i] /\ \A j \in 1..(i - 1) : modules'[j] = modules[j]
      BY <1>3, <3>1
    <3>3. CallsNames(modules[i]) /\ OwnBodyIsFirst(modules, i)
      BY <3>1 DEF Meanings
    <3> QED
      BY <3>2, <3>3 DEF CallsNames, OwnBodyIsFirst
  <2> QED
    BY <2>1, <2>2
<1>5. ASSUME NEW l \in links, l[2] \notin ProcessSymbols
      PROVE  /\ l[3] \in 1..Len(modules')
             /\ HasBody(modules'[l[3]], l[2])
             /\ \A j \in 1..(l[3] - 1) : ~HasBody(modules'[j], l[2])
  <2>1. /\ l[3] \in 1..Len(modules)
        /\ HasBody(modules[l[3]], l[2])
        /\ \A j \in 1..(l[3] - 1) : ~HasBody(modules[j], l[2])
    BY <1>5 DEF Meanings, LinksToFirst
  <2>2. l[3] # m
    BY <1>1, <1>2, <2>1 DEF LinksAgree, Process
  <2>3. l[3] \in 1..(m - 1)
    BY <1>2, <1>3, <2>1, <2>2
  <2>4. modules'[l[3]] = modules[l[3]] /\ \A j \in 1..(l[3] - 1) : modules'[j] = modules[j]
    BY <1>3, <2>3
  <2> QED
    BY <1>3, <2>1, <2>3, <2>4
<1> QED
  BY <1>3, <1>4, <1>5 DEF Meanings, LinksToFirst

(* Each action keeps the meanings, in a session that goes on.                  *)
LEMMA HandleDefinitionMeanings ==
  ASSUME LinkInv, MeaningInv, HandleDefinition
  PROVE  MeaningInv'
<1> SUFFICES ASSUME Live', ClosesOnDefinition'
             PROVE  Meanings'
  BY DEF MeaningInv
<1>1. /\ state = "prompt" /\ OpenModule' = Closed
      /\ UNCHANGED <<version, engines, compiling, links>>
  BY DEF HandleDefinition
<1>2. Numbered /\ ClosesOnDefinition /\ Meanings
  BY <1>1 DEF LinkInv, MeaningInv, Live, ClosesOnDefinition
<1>3. Extends(WithNew, Closed) /\ OnlyLast(WithNew, Closed) /\ DOMAIN WithNew[Closed] = {}
  BY <1>2, OpenExtends, OpenLast DEF Meanings
<1>4. CallsNames(WithNew[Closed]) /\ OwnBodyIsFirst(WithNew, Closed)
  BY <1>3 DEF CallsNames, OwnBodyIsFirst
<1>5. PICK n \in Names, calls \in Bodies :
         \/ modules' = WithNew
         \/ FunctionCodegen(WithNew, Closed, n, calls)
  BY DEF HandleDefinition, Live
<1>6. PICK m : m = Closed
  OBVIOUS
<1>7. OnlyLast(modules', m) /\ CallsNames(modules'[m]) /\ OwnBodyIsFirst(modules', m)
  <2>1. CASE modules' = WithNew
    BY <1>3, <1>4, <1>6, <2>1 DEF OnlyLast, OwnBodyIsFirst
  <2>2. CASE FunctionCodegen(WithNew, Closed, n, calls)
    <3>1. state' \in {"prompt", "compiling"}
      BY <1>3, <2>2, CodegenExtends DEF Live
    <3>2. calls \in SUBSET Names
      BY DEF Bodies
    <3> QED
      BY <1>3, <1>4, <1>6, <2>2, <3>1, <3>2, CodegenLast
  <2> QED
    BY <1>5, <2>1, <2>2
<1>8. m \notin engines /\ OpenModule' \in {0, m}
  BY <1>1, <1>3, <1>6 DEF Extends
<1> QED
  BY <1>1, <1>2, <1>7, <1>8, TypingMeanings

LEMMA HandleExternMeanings ==
  ASSUME LinkInv, MeaningInv, HandleExtern
  PROVE  MeaningInv'
<1> SUFFICES ASSUME Live', ClosesOnDefinition'
             PROVE  Meanings'
  BY DEF MeaningInv
<1>1. /\ state = "prompt" /\ OpenModule' = Opened
      /\ UNCHANGED <<version, engines, compiling, links>>
  BY DEF HandleExtern
<1>2. Numbered /\ Meanings
  BY <1>1 DEF LinkInv, MeaningInv, Live, ClosesOnDefinition
<1>3. PICK n \in Names : modules' = DeclaredIn(WithOpen, Opened, {n})
  BY DEF HandleExtern, Live
<1> DEFINE old == WithOpen[Opened]
           new == [x \in DOMAIN old \cup {n} |-> IF x \in DOMAIN old THEN old[x] ELSE Declared]
<1>4. OnlyLast(WithOpen, Opened) /\ Opened \notin engines
  BY <1>2, OpenLast, OpenExtends DEF Meanings, Extends
<1>5. PICK m : m = Opened
  OBVIOUS
<1>6. OnlyLast(modules', m) /\ modules'[m] = new
  <2> HIDE DEF new
  <2>1. modules' = [WithOpen EXCEPT ![m] = new]
    BY <1>3, <1>5 DEF DeclaredIn, new
  <2> QED
    BY <1>4, <1>5, <2>1, UpdateLast
<1>7. CallsNames(old) /\ OwnBodyIsFirst(WithOpen, Opened)
  BY <1>2, OpenMeanings
<1> HIDE DEF old
<1>8. /\ DOMAIN new = DOMAIN old \cup {n}
      /\ \A x \in DOMAIN old : new[x] = old[x]
      /\ n \notin DOMAIN old => new[n] = Declared
  OBVIOUS
<1> HIDE DEF new
<1>9. \A x \in DOMAIN new : \/ x \in DOMAIN old /\ new[x] = old[x]
                            \/ new[x].calls = {} /\ ~new[x].body
  <2>1. Declared.calls = {} /\ ~Declared.body
    BY DEF Declared
  <2> QED
    BY <1>8, <2>1
<1>10. CallsNames(new)
  BY <1>7, <1>9 DEF CallsNames
<1>11. \A c : HasBody(new, c) => HasBody(old, c)
  BY <1>9 DEF HasBody, Has
<1>12. \A j \in 1..(m - 1) : modules'[j] = WithOpen[j]
  BY <1>4, <1>5, <1>6 DEF OnlyLast
<1>13. OwnBodyIsFirst(modules', m)
  BY <1>5, <1>6, <1>7, <1>9, <1>11, <1>12 DEF OwnBodyIsFirst, old
<1> QED
  BY <1>1, <1>2, <1>4, <1>5, <1>6, <1>10, <1>13, TypingMeanings

LEMMA HandleTopLevelExpressionMeanings ==
  ASSUME LinkInv, MeaningInv, HandleTopLevelExpression
  PROVE  MeaningInv'
<1> SUFFICES ASSUME Live', ClosesOnDefinition'
             PROVE  Meanings'
  BY DEF MeaningInv
<1>1. state = "prompt" /\ OpenModule' \in {0, Opened} /\ UNCHANGED <<version, links>>
  BY DEF HandleTopLevelExpression
<1>2. Numbered /\ Meanings
  BY <1>1 DEF LinkInv, MeaningInv, Live, ClosesOnDefinition
<1>3. PICK calls \in Bodies : FunctionCodegen(WithOpen, Opened, Anon, calls)
  BY DEF HandleTopLevelExpression
<1>4. OnlyLast(WithOpen, Opened) /\ Extends(WithOpen, Opened)
  BY <1>2, OpenLast, OpenExtends DEF Meanings
<1>5. CallsNames(WithOpen[Opened]) /\ OwnBodyIsFirst(WithOpen, Opened)
  BY <1>2, OpenMeanings
<1>6. state' \in {"prompt", "compiling"}
  BY <1>3, <1>4, CodegenExtends DEF Live
<1>7. calls \in SUBSET Names
  BY DEF Bodies
<1>8. PICK m : m = Opened
  OBVIOUS
<1>9. OnlyLast(modules', m) /\ CallsNames(modules'[m]) /\ OwnBodyIsFirst(modules', m)
  BY <1>3, <1>4, <1>5, <1>6, <1>7, <1>8, CodegenLast
<1>10. m \notin engines /\ OpenModule' \in {0, m}
  BY <1>1, <1>4, <1>8 DEF Extends
<1> QED
  BY <1>1, <1>2, <1>9, <1>10, TypingMeanings

(* A symbol is looked for in all modules, and the first that has a body of it  *)
(* is taken.                                                                   *)
LEMMA FoundIsFirst ==
  ASSUME Numbered, ClosesOnDefinition, NEW n, Finds(n)
  PROVE  /\ Found(n) \in 1..Len(modules)
         /\ HasBody(modules[Found(n)], n)
         /\ \A j \in 1..(Found(n) - 1) : ~HasBody(modules[j], n)
<1>1. Len(modules) \in Nat /\ DOMAIN modules = 1..Len(modules)
  BY IsSeqProperties DEF Numbered
<1>2. Candidates(n) = {i \in DOMAIN modules : HasBody(modules[i], n)}
  BY DEF Candidates, SearchesModules, ClosesOnDefinition
<1>3. Candidates(n) \in SUBSET Nat /\ Candidates(n) # {}
  BY <1>1, <1>2 DEF Finds
<1>4. \E i \in Candidates(n) : \A j \in Candidates(n) : i <= j
  BY <1>3, Least
<1>5. Found(n) \in Candidates(n) /\ \A j \in Candidates(n) : Found(n) <= j
  BY <1>4 DEF Found
<1> QED
  BY <1>1, <1>2, <1>5

LEMMA getPointerToNamedFunctionMeanings ==
  ASSUME LinkInv, MeaningInv, getPointerToNamedFunction
  PROVE  MeaningInv'
<1> SUFFICES ASSUME Live', ClosesOnDefinition'
             PROVE  Meanings'
  BY DEF MeaningInv
<1>1. state = "compiling" /\ UNCHANGED <<version, modules, OpenModule>>
  BY DEF getPointerToNamedFunction
<1>2. Numbered /\ ClosesOnDefinition /\ Meanings
  BY <1>1 DEF LinkInv, MeaningInv, Live, ClosesOnDefinition
<1>3. PICK n, new : /\ links' = links \cup {new} /\ new[2] = n
                    /\ n \in ProcessSymbols \/ (Finds(n) /\ new[3] = Found(n))
  <2>1. PICK n \in Top.pending :
           \/ n \in ProcessSymbols /\ Link(n, Process)
           \/ Finds(n) /\ Link(n, Found(n))
    BY DEF getPointerToNamedFunction, CompileFound, Live
  <2>2. \A target : LET new == <<Top.module, n, target>>
                    IN  new[2] = n /\ new[3] = target
    OBVIOUS
  <2> QED
    BY <2>1, <2>2 DEF Link
<1>4. PICK target : target = new[3]
  OBVIOUS
<1>5. n \notin ProcessSymbols =>
         /\ target \in 1..Len(modules)
         /\ HasBody(modules[target], n)
         /\ \A j \in 1..(target - 1) : ~HasBody(modules[j], n)
  BY <1>2, <1>3, <1>4, FoundIsFirst
<1>6. ASSUME NEW l \in links', l[2] \notin ProcessSymbols
      PROVE  /\ l[3] \in 1..Len(modules)
             /\ HasBody(modules[l[3]], l[2])
             /\ \A j \in 1..(l[3] - 1) : ~HasBody(modules[j], l[2])
  <2>1. CASE l \in links
    BY <1>2, <1>6, <2>1 DEF LinksToFirst, Meanings
  <2>2. CASE l = new
    BY <1>3, <1>4, <1>5, <1>6, <2>2
  <2> QED
    BY <1>3, <2>1, <2>2
<1>7. LinksToFirst'
  BY <1>1, <1>6 DEF LinksToFirst
<1> QED
  BY <1>1, <1>2, <1>7 DEF Meanings

LEMMA OtherMeanings ==
  ASSUME MeaningInv, Finalized \/ Evaluated \/ EndOfInput \/ UNCHANGED vars
  PROVE  MeaningInv'
<1>1. UNCHANGED <<version, modules, OpenModule, links>> /\ (Live' => Live)
  BY DEF Finalized, Evaluated, EndOfInput, vars, Live
<1> QED
  BY <1>1 DEF MeaningInv, Meanings, LinksToFirst, ClosesOnDefinition

LEMMA InitMeanings ==
  ASSUME Init
  PROVE  MeaningInv
<1>1. PICK n : modules = <<>> \/ modules = <<Put(<<>>, n, Defined({}))>>
  BY DEF Init
<1> DEFINE m == Put(<<>>, n, Defined({}))
<1>2. DOMAIN m = {n} /\ m[n].calls = {}
  BY DEF Put, Defined
<1> HIDE DEF m
<1>3. \A i \in 1..Len(modules) : modules[i] = m
  <2>1. Len(<<>>) = 0 /\ Len(<<m>>) = 1 /\ <<m>>[1] = m
    OBVIOUS
  <2> QED
    BY <1>1, <2>1 DEF m
<1>4. \A i \in 1..Len(modules) : CallsNames(modules[i]) /\ OwnBodyIsFirst(modules, i)
  BY <1>2, <1>3 DEF CallsNames, OwnBodyIsFirst
<1> QED
  BY <1>4 DEF Init, MeaningInv, Meanings, LinksToFirst

-----------------------------------------------------------------------------
(* What a module is in and of itself decides where its calls go.               *)
LEMMA MeaningsGiveOne ==
  ASSUME LinkInv, MeaningInv, Live
  PROVE  OneMeaning
<1> SUFFICES ASSUME ClosesOnDefinition, NEW m1 \in engines, NEW m2 \in engines,
                    NEW n \in (Calls(m1) \cap Calls(m2)) \ ProcessSymbols
             PROVE  Cardinality(Targets(m1, n) \cup Targets(m2, n)) <= 1
  BY DEF OneMeaning
<1>1. Numbered /\ Meanings
  BY DEF LinkInv, MeaningInv, Live
<1>2. Len(modules) \in Nat /\ engines \subseteq 1..Len(modules)
  BY <1>1, IsSeqProperties DEF Numbered
<1>3. ASSUME NEW m \in {m1, m2}, NEW t \in Targets(m, n)
      PROVE  /\ t \in 1..Len(modules)
             /\ HasBody(modules[t], n)
             /\ \A j \in 1..(t - 1) : ~HasBody(modules[j], n)
  <2>1. CASE HasBody(modules[m], n)
    <3>1. t = m
      BY <1>3, <2>1 DEF Targets
    <3>2. OwnBodyIsFirst(modules, m) /\ n \in Calls(m) /\ m \in 1..Len(modules)
      BY <1>1, <1>2 DEF Meanings
    <3> QED
      BY <2>1, <3>1, <3>2 DEF OwnBodyIsFirst, Calls, HasBody
  <2>2. CASE ~HasBody(modules[m], n)
    <3>1. PICK l \in links : l[2] = n /\ t = l[3]
      BY <1>3, <2>2 DEF Targets
    <3> QED
      BY <1>1, <3>1 DEF Meanings, LinksToFirst
  <2> QED
    BY <2>1, <2>2
<1>4. \A s, t \in Targets(m1, n) \cup Targets(m2, n) : s = t
  <2> SUFFICES ASSUME NEW s \in Targets(m1, n) \cup Targets(m2, n),
                      NEW t \in Targets(m1, n) \cup Targets(m2, n)
               PROVE  s = t
    OBVIOUS
  <2>1. /\ s \in 1..Len(modules) /\ t \in 1..Len(modules)
        /\ HasBody(modules[s], n) /\ HasBody(modules[t], n)
        /\ \A j \in 1..(s - 1) : ~HasBody(modules[j], n)
        /\ \A j \in 1..(t - 1) : ~HasBody(modules[j], n)
    BY <1>3
  <2> QED
    BY <1>2, <2>1
<1>5. CASE Targets(m1, n) \cup Targets(m2, n) = {}
  BY <1>5, FS_EmptySet
<1>6. CASE Targets(m1, n) \cup Targets(m2, n) # {}
  <2>1. PICK t : t \in Targets(m1, n) \cup Targets(m2, n)
    BY <1>6
  <2>2. Targets(m1, n) \cup Targets(m2, n) = {t}
    BY <1>4, <2>1
  <2> QED
    BY <2>2, FS_Singleton
<1> QED
  BY <1>5, <1>6

(* A session that ends changes nothing that has been compiled.                 *)
LEMMA EndingKeepsMeanings ==
  ASSUME LinkInv, OneMeaning, [Next]_vars, ~Live'
  PROVE  OneMeaning'
<1>1. UNCHANGED <<version, engines, links>> /\ \A m \in engines : modules'[m] = modules[m]
  <2>1. CASE HandleDefinition
    <3>1. UNCHANGED <<version, engines, links>>
      BY <2>1 DEF HandleDefinition
    <3>2. Extends(WithNew, Closed)
      BY <2>1, OpenExtends DEF LinkInv, HandleDefinition
    <3>3. PICK n \in Names, calls \in Bodies :
             \/ modules' = modules
             \/ modules' = WithNew
             \/ FunctionCodegen(WithNew, Closed, n, calls)
      BY <2>1 DEF HandleDefinition
    <3>4. CASE FunctionCodegen(WithNew, Closed, n, calls)
      BY <3>1, <3>2, <3>4, CodegenExtends DEF Extends
    <3> QED
      BY <3>1, <3>2, <3>3, <3>4 DEF Extends
  <2>2. CASE HandleExtern
    BY <2>2 DEF HandleExtern, Live
  <2>3. CASE HandleTopLevelExpression
    <3>1. UNCHANGED <<version, engines, links>>
      BY <2>3 DEF HandleTopLevelExpression, Live
    <3>2. Extends(WithOpen, Opened)
      BY <2>3, OpenExtends DEF LinkInv, HandleTopLevelExpression
    <3>3. PICK calls : FunctionCodegen(WithOpen, Opened, Anon, calls)
      BY <2>3 DEF HandleTopLevelExpression
    <3> QED
      BY <3>1, <3>2, <3>3, CodegenExtends DEF Extends
  <2>4. CASE getPointerToNamedFunction
    BY <2>4 DEF getPointerToNamedFunction, CompileFound, Live
  <2>5. CASE Finalized \/ Evaluated
    BY <2>5 DEF Finalized, Evaluated, Live
  <2>6. CASE EndOfInput \/ UNCHANGED vars
    BY <2>6 DEF EndOfInput, vars
  <2> QED
    BY <2>1, <2>2, <2>3, <2>4, <2>5, <2>6 DEF Next
<1>2. \A m \in engines : \A n : Targets(m, n)' = Targets(m, n) /\ Calls(m)' = Calls(m)
  BY <1>1 DEF Targets, Calls
<1> QED
  BY <1>1, <1>2 DEF OneMeaning, ClosesOnDefinition

(* Where definitions close the open module, a module's own definition is the   *)
(* first of its name and every link goes to the first.                         *)
THEOREM MeaningInvariant == Spec => []MeaningInv
<1>1. ASSUME LinkInv, MeaningInv, [Next]_vars
      PROVE  MeaningInv'
  BY <1>1, HandleDefinitionMeanings, HandleExternMeanings, HandleTopLevelExpressionMeanings,
     getPointerToNamedFunctionMeanings, OtherMeanings DEF Next
<1> QED
  BY <1>1, InitMeanings, LinkInvariant, PTL DEF Spec

(* So a name has one meaning for all calls that are compiled, in whichever     *)
(* modules it is declared and defined again, and also once a session has ended.*)
THEOREM OneMeaningAlways == Spec => []OneMeaning
<1>1. Init => Live
  BY DEF Init, Live
<1>2. LinkInv /\ MeaningInv /\ Live => OneMeaning
  BY MeaningsGiveOne
<1>3. LinkInv /\ OneMeaning /\ [Next]_vars => Live' \/ OneMeaning'
  BY EndingKeepsMeanings
<1> QED
  BY <1>1, <1>2, <1>3, LinkInvariant, MeaningInvariant, PTL DEF Spec

-----------------------------------------------------------------------------
(* A user who gives each name one meaning.  Then a call is of a name its       *)
(* module has, a body is in the first module that has its name, every name     *)
(* that is not of the process has a body somewhere, and so has every operator. *)
Neat(ms, ops) ==
    /\ \A i \in 1..Len(ms) : \A x \in DOMAIN ms[i] :
          ms[i][x].calls \subseteq Names \cap DOMAIN ms[i]
    /\ \A i \in 1..Len(ms) : \A n \in Names :
          HasBody(ms[i], n) => \A j \in 1..(i - 1) : ~Has(ms[j], n)
    /\ \A i \in 1..Len(ms) : \A n \in Names \ ProcessSymbols :
          Has(ms[i], n) => \E h \in 1..Len(ms) : HasBody(ms[h], n)
    /\ ops \subseteq Ops
    /\ \A op \in ops : \E i \in 1..Len(ms) : Has(ms[i], op)

(* What is pending has its body in an earlier module, so the modules on the    *)
(* stack are different ones.                                                   *)
StackOrdered ==
    /\ \A i \in DOMAIN compiling : \A n \in compiling[i].pending :
          n \in Calls(compiling[i].module) /\ ~HasBody(modules[compiling[i].module], n)
    /\ \A i, j \in DOMAIN compiling : i < j => compiling[i].module < compiling[j].module

CarefulInv ==
    careful =>
        /\ Live \/ state = "ended"
        /\ Live => /\ OpenModule \in {0, Len(modules)}
                   /\ Neat(modules, operators)
                   /\ StackOrdered
                   /\ version = "initial" => 1..Len(modules) \subseteq engines \cup {OpenModule}

-----------------------------------------------------------------------------
(* A change of the last module that keeps its bodies, and adds none of a name  *)
(* another module has.                                                         *)
LEMMA NeatKept ==
  ASSUME NEW ms, NEW ops, Neat(ms, ops), NEW m, m = Len(ms), m \in Nat \ {0},
         NEW mt, Len(mt) = m, \A i \in 1..(m - 1) : mt[i] = ms[i],
         NEW new, mt[m] = new,
         \A x \in DOMAIN new : new[x].calls \subseteq Names \cap DOMAIN new,
         \A c \in Names : HasBody(new, c) =>
            HasBody(ms[m], c) \/ \A j \in 1..(m - 1) : ~Has(ms[j], c),
         \A c \in Names \ ProcessSymbols : Has(new, c) =>
            HasBody(new, c) \/ \E i \in 1..m : Has(ms[i], c),
         \A c \in Names : HasBody(ms[m], c) => HasBody(new, c),
         NEW opt \in SUBSET Ops, \A op \in opt : op \in ops \/ HasBody(new, op)
  PROVE  Neat(mt, opt)
<1>1. ASSUME NEW i \in 1..m, i # m
      PROVE  i \in 1..(m - 1) /\ mt[i] = ms[i] /\ \A j \in 1..(i - 1) : mt[j] = ms[j]
  BY <1>1
<1>2. \A i \in 1..m : \A x \in DOMAIN mt[i] : mt[i][x].calls \subseteq Names \cap DOMAIN mt[i]
  BY <1>1 DEF Neat
<1>3. ASSUME NEW i \in 1..m, NEW n \in Names, HasBody(mt[i], n), NEW j \in 1..(i - 1)
      PROVE  ~Has(mt[j], n)
  <2>1. CASE i = m
    BY <1>1, <1>3, <2>1 DEF Neat
  <2>2. CASE i # m
    BY <1>1, <1>3, <2>2 DEF Neat
  <2> QED
    BY <2>1, <2>2
<1>4. ASSUME NEW n \in Names, NEW h \in 1..m, HasBody(ms[h], n)
      PROVE  HasBody(mt[h], n)
  BY <1>1, <1>4
<1>5. ASSUME NEW n \in Names \ ProcessSymbols, NEW i \in 1..m, Has(ms[i], n)
      PROVE  \E h \in 1..m : HasBody(mt[h], n)
  <2>1. PICK h \in 1..m : HasBody(ms[h], n)
    BY <1>5 DEF Neat
  <2> QED
    BY <1>4, <2>1
<1>6. ASSUME NEW i \in 1..m, NEW n \in Names \ ProcessSymbols, Has(mt[i], n)
      PROVE  \E h \in 1..m : HasBody(mt[h], n)
  <2>1. CASE i = m
    BY <1>5, <1>6, <2>1
  <2>2. CASE i # m
    BY <1>1, <1>5, <1>6, <2>2
  <2> QED
    BY <2>1, <2>2
<1>7. ASSUME NEW op \in opt
      PROVE  \E i \in 1..m : Has(mt[i], op)
  <2>1. op \in Names \ ProcessSymbols
    BY NamesAssumption DEF Names
  <2>2. CASE op \in ops
    BY <1>5, <2>1, <2>2 DEF Neat, HasBody
  <2>3. CASE HasBody(new, op)
    BY <2>3 DEF HasBody
  <2> QED
    BY <2>2, <2>3
<1> QED
  BY <1>2, <1>3, <1>6, <1>7 DEF Neat

(* A module with nothing in it.                                                *)
LEMMA NeatAppended ==
  ASSUME Numbered, NEW ops, Neat(modules, ops)
  PROVE  Neat(Append(modules, <<>>), ops)
<1> DEFINE mt == Append(modules, <<>>)
           m == Len(modules)
<1>1. m \in Nat
  BY IsSeqProperties DEF Numbered
<1>2. Len(mt) = m + 1 /\ (\A i \in 1..m : mt[i] = modules[i]) /\ mt[m + 1] = <<>>
  BY AppendIsSeq DEF Numbered
<1>3. DOMAIN <<>> = {}
  BY EmptyIsSeq
<1> HIDE DEF mt, m
<1>4. ASSUME NEW i \in 1..Len(mt)
      PROVE  \/ i \in 1..m /\ mt[i] = modules[i] /\ \A j \in 1..(i - 1) : mt[j] = modules[j]
             \/ DOMAIN mt[i] = {}
  BY <1>1, <1>2, <1>3
<1>5. \A i \in 1..m : i \in 1..Len(mt) /\ mt[i] = modules[i]
  BY <1>1, <1>2
<1>6. Neat(mt, ops)
  BY <1>4, <1>5 DEF Neat, HasBody, Has, m
<1> QED
  BY <1>6 DEF mt

(* Opening a module, or going on in the open one, makes no name known.         *)
LEMMA NeatOpen ==
  ASSUME Numbered, Neat(modules, operators)
  PROVE  /\ Neat(WithOpen, operators) /\ Neat(WithNew, operators)
         /\ \A n : ~Known(modules, n) => ~Known(WithOpen, n) /\ ~Known(WithNew, n)
<1> DEFINE mt == Append(modules, <<>>)
<1>1. Neat(mt, operators)
  BY NeatAppended
<1>2. Len(modules) \in Nat /\ DOMAIN modules = 1..Len(modules)
  BY IsSeqProperties DEF Numbered
<1>3. /\ IsSeq(mt)
      /\ Len(mt) = Len(modules) + 1
      /\ \A i \in 1..Len(modules) : mt[i] = modules[i]
      /\ mt[Len(modules) + 1] = <<>>
  BY AppendIsSeq DEF Numbered
<1>4. DOMAIN <<>> = {}
  BY EmptyIsSeq
<1>5. DOMAIN mt = 1..Len(modules) + 1
  BY <1>3, IsSeqProperties
<1> HIDE DEF mt
<1>6. ASSUME NEW n, ~Known(modules, n)
      PROVE  ~Known(mt, n)
  BY <1>2, <1>3, <1>4, <1>5, <1>6 DEF Known, Has
<1> QED
  BY <1>1, <1>6 DEF WithOpen, WithNew, mt

(* Nothing a careful user types loses the session, and all stays neat.         *)
LEMMA NeatCodegen ==
  ASSUME NEW ms, NEW m, OnlyLast(ms, m), Neat(ms, operators),
         NEW n, n = Anon \/ (n \in Names \ ProcessSymbols /\ ~Known(ms, n)),
         NEW calls \in SUBSET Names, FunctionCodegen(ms, m, n, calls)
  PROVE  /\ state' \in {"prompt", "compiling"}
         /\ OnlyLast(modules', m)
         /\ Neat(modules', operators')
<1> DEFINE first == Put(ms[m], n, Defined({}))
           begun == [ms EXCEPT ![m] = first]
           found == {c \in calls : GetsFunction(begun, m, c)}
           declared(names) == [x \in DOMAIN first \cup names |->
                                  IF x \in DOMAIN first THEN first[x] ELSE Declared]
<1>1. OnlyLast(begun, m) /\ begun[m] = first
  BY UpdateLast
<1>2. m \in Nat \ {0} /\ m = Len(ms) /\ IsSeq(ms) /\ DOMAIN ms = 1..m
  BY IsSeqProperties DEF OnlyLast
<1>3. /\ DOMAIN first = DOMAIN ms[m] \cup {n}
      /\ first[n] = Defined({})
      /\ \A x \in DOMAIN ms[m] \ {n} : first[x] = ms[m][x]
  BY DEF Put
<1>4. \A c : HasBody(first, c) <=> c = n \/ HasBody(ms[m], c)
  BY <1>3 DEF HasBody, Has, Defined
<1> HIDE DEF first
<1>5. \A j \in 1..(m - 1) : begun[j] = ms[j]
  BY <1>1, <1>2 DEF OnlyLast
<1>6. Len(begun) = m /\ DOMAIN begun = 1..m /\ IsSeq(begun)
  BY <1>1, <1>2, IsSeqProperties DEF OnlyLast
<1> HIDE DEF begun
<1>7. \A names : /\ OnlyLast(DeclaredIn(begun, m, names), m)
                 /\ DeclaredIn(begun, m, names)[m] = declared(names)
  BY <1>1, UpdateLast DEF DeclaredIn
<1>8. \A names : /\ DOMAIN declared(names) = DOMAIN first \cup names
                 /\ \A x \in DOMAIN first : declared(names)[x] = first[x]
                 /\ \A x \in names \ DOMAIN first : declared(names)[x] = Declared
  OBVIOUS
<1>9. \A names, c : HasBody(declared(names), c) <=> HasBody(first, c)
  BY <1>8 DEF HasBody, Has, Declared
<1> HIDE DEF declared
<1>10. n \in Names => n \notin ProcessSymbols /\ \A i \in 1..m : ~Has(ms[i], n)
  BY <1>2, NamesAssumption DEF Known
<1>11. \A x \in DOMAIN ms[m] : ms[m][x].calls \subseteq Names \cap DOMAIN ms[m]
  BY <1>2 DEF Neat
<1>12. \A x \in DOMAIN ms[m] : n \notin ms[m][x].calls
  BY <1>2, <1>10, <1>11 DEF Has
<1>13. \A c \in found : c = n \/ \E i \in 1..m : Has(ms[i], c)
  <2> SUFFICES ASSUME NEW c \in found, c # n
               PROVE  \E i \in 1..m : Has(ms[i], c)
    OBVIOUS
  <2>1. PICK i \in 1..m : Has(begun[i], c)
    BY <1>6 DEF GetsFunction, Known
  <2>2. CASE i = m
    BY <1>1, <1>2, <1>3, <2>1, <2>2 DEF Has
  <2>3. CASE i # m
    BY <1>2, <1>5, <2>1, <2>3
  <2> QED
    BY <2>2, <2>3
<1> HIDE DEF found
<1>14. CASE /\ found = calls
            /\ modules' = [DeclaredIn(begun, m, calls) EXCEPT ![m] = Put(@, n, Defined(calls))]
            /\ operators' = operators \cup ({n} \cap Ops)
            /\ state' = IF n = Anon THEN "compiling" ELSE "prompt"
  <2> DEFINE new == Put(declared(calls), n, Defined(calls))
  <2>1. OnlyLast(modules', m) /\ modules'[m] = new
    <3> DEFINE d == DeclaredIn(begun, m, calls)
    <3>1. OnlyLast(d, m) /\ d[m] = declared(calls)
      BY <1>7
    <3>2. modules' = [d EXCEPT ![m] = new]
      BY <1>14, <3>1
    <3> HIDE DEF d, new
    <3> QED
      BY <3>1, <3>2, UpdateLast
  <2>2. /\ DOMAIN new = DOMAIN first \cup calls
        /\ new[n] = Defined(calls)
        /\ \A x \in DOMAIN new \ {n} : new[x] = declared(calls)[x]
    BY <1>3, <1>8 DEF Put
  <2> HIDE DEF new
  <2>3. ASSUME NEW c
        PROVE  HasBody(new, c) <=> c = n \/ HasBody(ms[m], c)
    <3>1. CASE c = n
      BY <1>3, <2>2, <3>1 DEF HasBody, Has, Defined
    <3>2. CASE c # n
      <4>1. HasBody(new, c) <=> HasBody(declared(calls), c)
        BY <1>8, <2>2, <3>2 DEF HasBody, Has
      <4> QED
        BY <1>4, <1>9, <3>2, <4>1
    <3> QED
      BY <3>1, <3>2
  <2>4. \A x \in DOMAIN new : new[x].calls \subseteq Names \cap DOMAIN new
    <3>1. \A x \in DOMAIN new :
             \/ x \in DOMAIN ms[m] /\ new[x].calls = ms[m][x].calls
             \/ new[x].calls = {}
             \/ new[x].calls = calls
      BY <1>3, <1>8, <2>2 DEF Defined, Declared
    <3> QED
      BY <1>3, <1>11, <2>2, <3>1
  <2>5. \A c \in Names : HasBody(new, c) =>
           HasBody(ms[m], c) \/ \A j \in 1..(m - 1) : ~Has(ms[j], c)
    BY <1>2, <1>10, <2>3
  <2>6. \A c \in Names \ ProcessSymbols : Has(new, c) =>
           HasBody(new, c) \/ \E i \in 1..m : Has(ms[i], c)
    BY <1>2, <1>3, <1>13, <1>14, <2>2, <2>3 DEF Has
  <2>7. \A i \in 1..(m - 1) : modules'[i] = ms[i]
    BY <1>2, <2>1 DEF OnlyLast
  <2>8. Len(modules') = m
    BY <2>1 DEF OnlyLast
  <2>9. operators' \in SUBSET Ops /\ \A op \in operators' : op \in operators \/ HasBody(new, op)
    BY <1>14, <2>3 DEF Neat
  <2>10. Neat(modules', operators')
    <3>1. PICK mt, opt : mt = modules' /\ opt = operators'
      OBVIOUS
    <3>2. Neat(mt, opt)
      BY <1>2, <2>1, <2>3, <2>4, <2>5, <2>6, <2>7, <2>8, <2>9, <3>1, NeatKept
    <3> QED
      BY <3>1, <3>2
  <2> QED
    BY <1>14, <2>1, <2>10
<1>15. CASE /\ \E reached \in SUBSET found :
                  modules' = [DeclaredIn(begun, m, reached) EXCEPT ![m] = Without(@, n)]
            /\ operators' = operators \ {n}
            /\ state' = IF StillUsed(begun[m], n) THEN "dangling" ELSE "prompt"
  <2>1. PICK reached \in SUBSET found :
           modules' = [DeclaredIn(begun, m, reached) EXCEPT ![m] = Without(@, n)]
    BY <1>15
  <2> DEFINE new == Without(declared(reached), n)
  <2>2. OnlyLast(modules', m) /\ modules'[m] = new
    <3> DEFINE d == DeclaredIn(begun, m, reached)
    <3>1. OnlyLast(d, m) /\ d[m] = declared(reached)
      BY <1>7
    <3>2. modules' = [d EXCEPT ![m] = new]
      BY <2>1, <3>1
    <3> HIDE DEF d, new
    <3> QED
      BY <3>1, <3>2, UpdateLast
  <2>3. /\ DOMAIN new = (DOMAIN first \cup reached) \ {n}
        /\ \A x \in DOMAIN new : new[x] = declared(reached)[x]
    BY <1>8 DEF Without
  <2> HIDE DEF new
  <2>4. ASSUME NEW c
        PROVE  HasBody(new, c) <=> c # n /\ HasBody(ms[m], c)
    <3>1. HasBody(new, c) <=> c # n /\ HasBody(declared(reached), c)
      BY <1>8, <2>3 DEF HasBody, Has
    <3> QED
      BY <1>4, <1>9, <3>1
  <2>5. \A x \in DOMAIN new : new[x].calls \subseteq Names \cap DOMAIN new
    <3>1. \A x \in DOMAIN new :
             \/ x \in DOMAIN ms[m] /\ new[x].calls = ms[m][x].calls
             \/ new[x].calls = {}
      BY <1>3, <1>8, <2>3 DEF Declared
    <3> QED
      BY <1>3, <1>11, <1>12, <2>3, <3>1
  <2>6. \A c \in Names \ ProcessSymbols : Has(new, c) => \E i \in 1..m : Has(ms[i], c)
    BY <1>2, <1>3, <1>13, <2>3 DEF Has
  <2>7. \A c \in Names : HasBody(ms[m], c) => HasBody(new, c)
    BY <1>2, <1>10, <2>4 DEF HasBody
  <2>8. /\ Len(modules') = m
        /\ \A i \in 1..(m - 1) : modules'[i] = ms[i]
    BY <1>2, <2>2 DEF OnlyLast
  <2>9. operators' \in SUBSET Ops /\ \A op \in operators' : op \in operators
    BY <1>15 DEF Neat
  <2>10. Neat(modules', operators')
    <3>1. PICK mt, opt : mt = modules' /\ opt = operators'
      OBVIOUS
    <3>2. Neat(mt, opt)
      BY <1>2, <2>2, <2>4, <2>5, <2>6, <2>7, <2>8, <2>9, <3>1, NeatKept
    <3> QED
      BY <3>1, <3>2
  <2>11. ~StillUsed(begun[m], n)
    BY <1>1, <1>3, <1>12 DEF StillUsed
  <2> QED
    BY <1>15, <2>2, <2>10, <2>11
<1>16. ~((calls \ found) \cap Ops # {}) \/ ~(calls \cap Ops \subseteq operators)
  <2> SUFFICES ASSUME calls \cap Ops \subseteq operators, NEW op \in calls \cap Ops
               PROVE  op \in found
    OBVIOUS
  <2>1. PICK i \in 1..m : Has(ms[i], op)
    BY <1>2 DEF Neat
  <2>2. op # n /\ op \in Names
    BY <1>10, <2>1, NamesAssumption DEF Names
  <2>3. Has(begun[i], op)
    <3>1. CASE i = m
      BY <1>1, <1>3, <2>1, <3>1 DEF Has
    <3>2. CASE i # m
      BY <1>2, <1>5, <2>1, <3>2
    <3> QED
      BY <3>1, <3>2
  <2>4. Known(begun, op)
    BY <1>6, <2>3 DEF Known
  <2>5. ASSUME HasBody(begun[m], op)
        PROVE  First(begun, op) = m
    <3>1. HasBody(ms[m], op)
      BY <1>1, <1>4, <2>2, <2>5
    <3>2. \A j \in 1..(m - 1) : ~Has(begun[j], op)
      BY <1>2, <1>5, <2>2, <3>1 DEF Neat
    <3>3. First(begun, op) \in 1..m /\ Has(begun[First(begun, op)], op)
      BY <1>6, <2>4, FirstIsFirst
    <3> QED
      BY <1>2, <3>2, <3>3
  <2> QED
    BY <2>4, <2>5 DEF GetsFunction, found
<1> QED
  BY <1>14, <1>15, <1>16 DEF FunctionCodegen, begun, first, found

-----------------------------------------------------------------------------
(* Each action keeps what CarefulInv says of a careful user's session.         *)
LEMMA NothingStacked ==
  ASSUME compiling = <<>>
  PROVE  StackOrdered
  BY EmptyIsSeq DEF StackOrdered

LEMMA HandleDefinitionCareful ==
  ASSUME LinkInv, CarefulInv, HandleDefinition
  PROVE  CarefulInv'
<1> SUFFICES ASSUME careful'
             PROVE  /\ state' = "prompt"
                    /\ OpenModule' \in {0, Len(modules')}
                    /\ Neat(modules', operators')
                    /\ StackOrdered'
                    /\ version' = "initial" => 1..Len(modules') \subseteq engines' \cup {OpenModule'}
  BY DEF CarefulInv, Live
<1>1. /\ state = "prompt" /\ OpenModule' = Closed
      /\ UNCHANGED <<version, engines, compiling, links>>
  BY DEF HandleDefinition
<1>2. PICK n \in Names, calls \in Bodies :
         /\ careful /\ Disciplined(n)
         /\ CASE LosesFunction(WithNew, Closed, n) ->
                   state' = "crashed" /\ UNCHANGED <<modules, operators>>
              [] ~AcceptsPrototype(WithNew, Closed, n) ->
                   modules' = WithNew /\ UNCHANGED <<operators, state>>
              [] OTHER -> FunctionCodegen(WithNew, Closed, n, calls)
  BY DEF HandleDefinition
<1>3. /\ Numbered /\ compiling = <<>> /\ OpenModule \in {0, Len(modules)} /\ Neat(modules, operators)
      /\ version = "initial" => 1..Len(modules) \subseteq engines \cup {OpenModule}
  BY <1>1, <1>2 DEF LinkInv, CarefulInv, Live
<1>4. /\ Neat(WithNew, operators) /\ ~Known(WithNew, n)
      /\ n \notin ProcessSymbols /\ calls \in SUBSET Names
  BY <1>2, <1>3, NeatOpen DEF Disciplined, Bodies
<1>5. OnlyLast(WithNew, Closed)
  <2>1. CASE ClosesOnDefinition
    BY <1>3, <2>1, OpenLast
  <2>2. CASE ~ClosesOnDefinition
    BY <1>3, <2>2, OpenLast DEF WithNew, Closed
  <2> QED
    BY <2>1, <2>2
<1>6. PICK m : m = Closed
  OBVIOUS
<1>7. Closed \in DOMAIN WithNew
  BY <1>5, IsSeqProperties DEF OnlyLast
<1>8. ~LosesFunction(WithNew, Closed, n)
  BY <1>4, <1>7 DEF LosesFunction, Conflict, Known
<1>9. \/ modules' = WithNew /\ UNCHANGED <<operators, state>>
      \/ FunctionCodegen(WithNew, Closed, n, calls)
  BY <1>2, <1>8
<1>10. state' = "prompt" /\ OnlyLast(modules', m) /\ Neat(modules', operators')
  <2>1. CASE modules' = WithNew /\ UNCHANGED <<operators, state>>
    <3>1. OnlyLast(modules', m)
      BY <1>5, <1>6, <2>1 DEF OnlyLast
    <3>2. Neat(modules', operators')
      <4>1. PICK ms, ops : ms = WithNew /\ ops = operators
        OBVIOUS
      <4>2. Neat(ms, ops) /\ modules' = ms /\ operators' = ops
        BY <1>4, <2>1, <4>1
      <4> QED
        BY <4>2
    <3> QED
      BY <1>1, <2>1, <3>1, <3>2
  <2>2. CASE FunctionCodegen(WithNew, Closed, n, calls)
    <3>1. /\ state' \in {"prompt", "compiling"} /\ OnlyLast(modules', Closed)
          /\ Neat(modules', operators')
      BY <1>4, <1>5, <2>2, NeatCodegen
    <3>2. n # Anon
      BY NamesAssumption
    <3>3. Extends(WithNew, Closed)
      BY <1>3, OpenExtends
    <3>4. state' = "prompt"
      BY <2>2, <3>1, <3>2, <3>3, CodegenExtends
    <3> QED
      BY <1>6, <3>1, <3>4
  <2> QED
    BY <1>9, <2>1, <2>2
<1>11. Len(modules') = m /\ m \in Nat \ {0} /\ Len(modules) \in {m - 1, m}
  BY <1>10 DEF OnlyLast
<1>12. version' = "initial" => 1..Len(modules') \subseteq engines' \cup {OpenModule'}
  <2> SUFFICES ASSUME version = "initial", NEW i \in 1..m, i # m
               PROVE  i \in engines
    BY <1>1, <1>6, <1>11
  <2>1. i \in engines \cup {OpenModule} /\ i \in 1..Len(modules)
    BY <1>3, <1>11
  <2>2. OpenModule \in {0, m}
    BY <1>6, <1>11 DEF Closed, Opened, ClosesOnDefinition
  <2> QED
    BY <2>1, <2>2
<1>13. StackOrdered'
  BY <1>1, <1>3, EmptyIsSeq DEF StackOrdered
<1> QED
  BY <1>1, <1>6, <1>10, <1>11, <1>12, <1>13

LEMMA HandleExternCareful ==
  ASSUME LinkInv, CarefulInv, HandleExtern
  PROVE  CarefulInv'
<1> SUFFICES ASSUME careful'
             PROVE  /\ state' = "prompt"
                    /\ OpenModule' \in {0, Len(modules')}
                    /\ Neat(modules', operators')
                    /\ StackOrdered'
                    /\ version' = "initial" => 1..Len(modules') \subseteq engines' \cup {OpenModule'}
  BY DEF CarefulInv, Live
<1>1. /\ state = "prompt" /\ OpenModule' = Opened
      /\ UNCHANGED <<version, engines, operators, compiling, links>>
  BY DEF HandleExtern
<1>2. PICK n \in Names :
         /\ careful /\ n \in ProcessSymbols
         /\ CASE LosesFunction(WithOpen, Opened, n) ->
                   state' = "crashed" /\ UNCHANGED modules
              [] OTHER -> modules' = DeclaredIn(WithOpen, Opened, {n}) /\ UNCHANGED state
  BY DEF HandleExtern
<1>3. /\ Numbered /\ compiling = <<>> /\ OpenModule \in {0, Len(modules)} /\ Neat(modules, operators)
      /\ version = "initial" => 1..Len(modules) \subseteq engines \cup {OpenModule}
  BY <1>1, <1>2 DEF LinkInv, CarefulInv, Live
<1>4. Neat(WithOpen, operators) /\ OnlyLast(WithOpen, Opened)
  BY <1>3, NeatOpen, OpenLast
<1>5. modules' = DeclaredIn(WithOpen, Opened, {n}) /\ state' = "prompt"
  BY <1>1, <1>2, NamesAssumption DEF LosesFunction
<1> DEFINE old == WithOpen[Opened]
           new == [x \in DOMAIN old \cup {n} |-> IF x \in DOMAIN old THEN old[x] ELSE Declared]
<1>6. PICK m, ms, ops : m = Opened /\ ms = WithOpen /\ ops = operators
  OBVIOUS
<1>7. OnlyLast(modules', m) /\ modules'[m] = new
  <2> HIDE DEF new
  <2>1. modules' = [WithOpen EXCEPT ![m] = new]
    BY <1>5, <1>6 DEF DeclaredIn, new
  <2> QED
    BY <1>4, <1>6, <2>1, UpdateLast
<1>8. /\ DOMAIN new = DOMAIN old \cup {n}
      /\ \A x \in DOMAIN old : new[x] = old[x]
      /\ n \notin DOMAIN old => new[n] = Declared
  OBVIOUS
<1> HIDE DEF new
<1>9. \A x \in DOMAIN new : \/ x \in DOMAIN old /\ new[x] = old[x]
                            \/ new[x].calls = {} /\ ~new[x].body
  <2>1. Declared.calls = {} /\ ~Declared.body
    BY DEF Declared
  <2> QED
    BY <1>8, <2>1
<1>10. /\ Neat(ms, ops) /\ m = Len(ms) /\ m \in Nat \ {0} /\ old = ms[m]
       /\ Len(modules') = m /\ Len(modules) \in {m - 1, m}
       /\ \A i \in 1..(m - 1) : modules'[i] = ms[i]
  BY <1>4, <1>6, <1>7 DEF OnlyLast
<1> HIDE DEF old
<1>11. \A c : HasBody(new, c) <=> HasBody(old, c)
  BY <1>8, <1>9 DEF HasBody, Has
<1>12. \A x \in DOMAIN new : new[x].calls \subseteq Names \cap DOMAIN new
  BY <1>8, <1>9, <1>10 DEF Neat
<1>13. \A c \in Names \ ProcessSymbols : Has(new, c) => \E i \in 1..m : Has(ms[i], c)
  BY <1>2, <1>8, <1>10 DEF Has
<1>14. ops \in SUBSET Ops
  BY <1>10 DEF Neat
<1>15. Neat(modules', operators')
  <2>1. PICK mt : mt = modules'
    OBVIOUS
  <2>2. Neat(mt, ops)
    BY <1>7, <1>10, <1>11, <1>12, <1>13, <1>14, <2>1, NeatKept
  <2> QED
    BY <1>1, <1>6, <2>1, <2>2
<1>16. version' = "initial" => 1..Len(modules') \subseteq engines' \cup {OpenModule'}
  <2> SUFFICES ASSUME version = "initial", NEW i \in 1..m, i # m
               PROVE  i \in engines
    BY <1>1, <1>6, <1>10
  <2>1. i \in engines \cup {OpenModule} /\ i \in 1..Len(modules)
    BY <1>3, <1>10
  <2>2. OpenModule \in {0, m}
    BY <1>6 DEF Opened
  <2> QED
    BY <2>1, <2>2
<1>17. StackOrdered'
  BY <1>1, <1>3, EmptyIsSeq DEF StackOrdered
<1> QED
  BY <1>1, <1>5, <1>6, <1>10, <1>15, <1>16, <1>17

LEMMA HandleTopLevelExpressionCareful ==
  ASSUME LinkInv, CarefulInv, HandleTopLevelExpression
  PROVE  CarefulInv'
<1> SUFFICES ASSUME careful'
             PROVE  /\ state' \in {"prompt", "compiling"}
                    /\ OpenModule' \in {0, Len(modules')}
                    /\ Neat(modules', operators')
                    /\ StackOrdered'
                    /\ version' = "initial" => 1..Len(modules') \subseteq engines' \cup {OpenModule'}
  BY DEF CarefulInv, Live
<1>1. state = "prompt" /\ careful /\ UNCHANGED version
  BY DEF HandleTopLevelExpression
<1>2. /\ Numbered /\ compiling = <<>> /\ OpenModule \in {0, Len(modules)} /\ Neat(modules, operators)
      /\ version = "initial" => 1..Len(modules) \subseteq engines \cup {OpenModule}
  BY <1>1 DEF LinkInv, CarefulInv, Live
<1>3. PICK calls \in Bodies : FunctionCodegen(WithOpen, Opened, Anon, calls)
  BY DEF HandleTopLevelExpression
<1>4. Neat(WithOpen, operators) /\ OnlyLast(WithOpen, Opened) /\ calls \in SUBSET Names
  BY <1>2, NeatOpen, OpenLast DEF Bodies
<1>5. PICK m : m = Opened
  OBVIOUS
<1>6. state' \in {"prompt", "compiling"} /\ OnlyLast(modules', m) /\ Neat(modules', operators')
  BY <1>3, <1>4, <1>5, NeatCodegen
<1>7. Len(modules') = m /\ m \in Nat \ {0} /\ Len(modules) \in {m - 1, m}
  BY <1>6 DEF OnlyLast
<1>8. ASSUME version = "initial", NEW i \in 1..m, i # m
      PROVE  i \in engines
  <2>1. i \in engines \cup {OpenModule} /\ i \in 1..Len(modules)
    BY <1>2, <1>7, <1>8
  <2>2. OpenModule \in {0, m}
    BY <1>5 DEF Opened
  <2> QED
    BY <1>8, <2>1, <2>2
<1>9. CASE state' = "prompt"
  <2>1. OpenModule' = m /\ UNCHANGED <<compiling, engines>>
    BY <1>5, <1>9 DEF HandleTopLevelExpression
  <2>2. StackOrdered'
    BY <1>2, <2>1, EmptyIsSeq DEF StackOrdered
  <2> QED
    BY <1>1, <1>6, <1>7, <1>8, <2>1, <2>2
<1>10. CASE state' = "compiling"
  <2> DEFINE f == Frame(m, modules')
  <2>1. compiling' = <<f>> /\ engines' = Recorded(m) /\ OpenModule' = 0
    BY <1>5, <1>10 DEF HandleTopLevelExpression
  <2>2. /\ f.module = m
        /\ f.pending = {n \in Calls(m)' : ~HasBody(modules'[m], n)}
    BY FrameFacts DEF Calls
  <2> HIDE DEF f
  <2>3. DOMAIN <<f>> = {1} /\ <<f>>[1] = f
    OBVIOUS
  <2>4. StackOrdered'
    BY <2>1, <2>2, <2>3 DEF StackOrdered
  <2>5. version = "initial" => engines' = engines \cup {m}
    BY <2>1 DEF Recorded, RecordsFirst
  <2> QED
    BY <1>1, <1>6, <1>7, <1>8, <2>1, <2>4, <2>5
<1> QED
  BY <1>6, <1>9, <1>10

(* A pending symbol has its body in a module that was opened earlier, where    *)
(* every version of the helper finds it.                                       *)
LEMMA FoundIsEarlier ==
  ASSUME LinkInv, CarefulInv, careful, state = "compiling", NEW n \in Top.pending,
         n \notin ProcessSymbols
  PROVE  Finds(n) /\ Found(n) \in 1..Len(modules) /\ Found(n) < Top.module
<1>1. /\ Numbered /\ compiling # <<>> /\ OpenModule = 0
      /\ Neat(modules, operators) /\ StackOrdered
      /\ version = "initial" => 1..Len(modules) \subseteq engines \cup {OpenModule}
  BY DEF LinkInv, CarefulInv, Live
<1>2. 1 \in DOMAIN compiling /\ Top = compiling[1]
  BY <1>1, TopFacts
<1>3. Len(modules) \in Nat /\ DOMAIN modules = 1..Len(modules)
  BY <1>1, IsSeqProperties DEF Numbered
<1>4. PICK t \in 1..Len(modules) : t = Top.module
  BY <1>1, <1>2 DEF Numbered, Stacked
<1>5. n \in Calls(t) /\ ~HasBody(modules[t], n)
  BY <1>1, <1>2, <1>4 DEF StackOrdered
<1>6. n \in Names /\ Has(modules[t], n)
  BY <1>1, <1>5 DEF Calls, Neat, Has
<1>7. PICK h \in 1..Len(modules) : HasBody(modules[h], n)
  BY <1>1, <1>6 DEF Neat
<1>8. \A j \in 1..(h - 1) : ~Has(modules[j], n)
  BY <1>1, <1>6, <1>7 DEF Neat
<1>9. h < t
  BY <1>3, <1>5, <1>6, <1>7, <1>8
<1>10. /\ Candidates(n) \in SUBSET 1..Len(modules)
       /\ h \in Candidates(n)
       /\ \A i \in Candidates(n) : Has(modules[i], n)
  <2>1. CASE SearchesModules
    BY <1>3, <1>7, <2>1 DEF Candidates, HasBody
  <2>2. CASE ~SearchesModules
    <3>1. h \in engines
      BY <1>1, <1>3, <1>7, <2>2 DEF SearchesModules
    <3> QED
      BY <1>1, <1>7, <2>2, <3>1 DEF Candidates, HasBody, Numbered
  <2> QED
    BY <2>1, <2>2
<1>11. Candidates(n) \in SUBSET Nat /\ Candidates(n) # {}
  BY <1>3, <1>10
<1>12. \E i \in Candidates(n) : \A j \in Candidates(n) : i <= j
  BY <1>11, Least
<1>13. Found(n) \in Candidates(n) /\ \A j \in Candidates(n) : Found(n) <= j
  BY <1>12 DEF Found
<1>14. Found(n) = h
  <2>1. PICK i \in 1..Len(modules) : i = Found(n)
    BY <1>10, <1>13
  <2> QED
    BY <1>3, <1>8, <1>10, <1>13, <2>1
<1> QED
  BY <1>4, <1>7, <1>9, <1>10, <1>14 DEF Finds

LEMMA getPointerToNamedFunctionCareful ==
  ASSUME LinkInv, CarefulInv, getPointerToNamedFunction
  PROVE  CarefulInv'
<1> SUFFICES ASSUME careful'
             PROVE  /\ state' = "compiling"
                    /\ OpenModule' \in {0, Len(modules')}
                    /\ Neat(modules', operators')
                    /\ StackOrdered'
                    /\ version' = "initial" => 1..Len(modules') \subseteq engines' \cup {OpenModule'}
  BY DEF CarefulInv, Live
<1>1. /\ state = "compiling" /\ careful
      /\ UNCHANGED <<version, modules, OpenModule, operators, items, careful>>
  BY DEF getPointerToNamedFunction
<1>2. /\ Numbered /\ compiling # <<>> /\ OpenModule = 0
      /\ Neat(modules, operators) /\ StackOrdered
      /\ version = "initial" => 1..Len(modules) \subseteq engines \cup {OpenModule}
  BY <1>1 DEF LinkInv, CarefulInv, Live
<1>3. PICK n \in Top.pending :
         \/ compiling' = Resolved(n) /\ UNCHANGED <<engines, state>>
         \/ n \notin ProcessSymbols /\ CompileFound(n, Found(n))
         \/ n \notin ProcessSymbols /\ ~Finds(n)
  BY DEF getPointerToNamedFunction
<1> DEFINE len == Len(compiling)
           s == Resolved(n)
<1>4. /\ len \in Nat \ {0} /\ DOMAIN compiling = 1..len
      /\ Top = compiling[1] /\ 1 \in DOMAIN compiling
      /\ IsSeq(s) /\ Len(s) = len /\ DOMAIN s = 1..len
      /\ s[1] = [module |-> Top.module, pending |-> Top.pending \ {n}]
      /\ \A i \in 2..len : s[i] = compiling[i]
  BY <1>2, TopFacts, ResolvedFacts
<1> HIDE DEF s
<1>5. \A i \in 1..len : /\ s[i].module = compiling[i].module
                        /\ s[i].pending \subseteq compiling[i].pending
  BY <1>4
<1> HIDE DEF len
<1>6. CASE compiling' = s /\ UNCHANGED <<engines, state>>
  <2>1. StackOrdered'
    BY <1>1, <1>2, <1>4, <1>5, <1>6 DEF StackOrdered, Calls
  <2> QED
    BY <1>1, <1>2, <1>6, <2>1
<1>7. CASE n \notin ProcessSymbols /\ CompileFound(n, Found(n))
  <2>1. PICK o \in 1..Len(modules) : o = Found(n) /\ o < Top.module
    BY <1>1, <1>7, FoundIsEarlier
  <2>2. Len(modules) \in Nat /\ \A i \in 1..len : compiling[i].module \in 1..Len(modules)
    BY <1>2, <1>4, IsSeqProperties DEF Numbered, Stacked
  <2>3. \A i \in 1..len : o < compiling[i].module
    <3> SUFFICES ASSUME NEW i \in 1..len, i # 1
                 PROVE  o < compiling[i].module
      BY <1>4, <2>1
    <3>1. Top.module < compiling[i].module
      BY <1>2, <1>4 DEF StackOrdered
    <3>2. Top.module \in 1..Len(modules) /\ compiling[i].module \in 1..Len(modules)
      BY <1>4, <2>2
    <3> QED
      BY <2>1, <2>2, <3>1, <3>2
  <2>4. ~OnStack(o)
    BY <1>4, <2>2, <2>3 DEF OnStack
  <2> DEFINE f == Frame(o, modules)
  <2>5. /\ compiling' = <<f>> \o s
        /\ engines' = Recorded(o) /\ UNCHANGED state
    BY <1>7, <2>1, <2>4 DEF CompileFound, s
  <2>6. /\ f.module = o
        /\ f.pending = {x \in Calls(o) : ~HasBody(modules[o], x)}
    BY FrameFacts DEF Calls
  <2> HIDE DEF f
  <2>7. /\ IsSeq(<<f>> \o s)
        /\ Len(<<f>> \o s) = len + 1
        /\ (<<f>> \o s)[1] = f
        /\ \A i \in 2..len + 1 : (<<f>> \o s)[i] = s[i - 1]
    BY <1>4, PushIsSeq
  <2>8. DOMAIN compiling' = 1..len + 1 /\ compiling'[1] = f
    BY <2>5, <2>7, IsSeqProperties
  <2>9. ASSUME NEW i \in 1..len + 1, i # 1
        PROVE  i - 1 \in 1..len /\ compiling'[i] = s[i - 1]
    BY <1>4, <2>5, <2>7, <2>9
  <2>10. ASSUME NEW i \in 1..len + 1, NEW x \in compiling'[i].pending
         PROVE  x \in Calls(compiling'[i].module) /\ ~HasBody(modules[compiling'[i].module], x)
    <3>1. CASE i = 1
      BY <2>6, <2>8, <2>10, <3>1
    <3>2. CASE i # 1
      <4>1. PICK k \in 1..len : compiling'[i] = s[k]
        BY <2>9, <3>2
      <4>2. x \in compiling[k].pending /\ compiling'[i].module = compiling[k].module
        BY <1>5, <2>10, <4>1
      <4>3. x \in Calls(compiling[k].module) /\ ~HasBody(modules[compiling[k].module], x)
        BY <1>2, <1>4, <4>2 DEF StackOrdered
      <4> QED
        BY <4>2, <4>3
    <3> QED
      BY <3>1, <3>2
  <2>11. ASSUME NEW i \in 1..len + 1, NEW j \in 1..len + 1, i < j
         PROVE  compiling'[i].module < compiling'[j].module
    <3>1. j # 1 /\ j - 1 \in 1..len /\ compiling'[j].module = compiling[j - 1].module
      BY <1>4, <1>5, <2>9, <2>11
    <3>2. CASE i = 1
      BY <2>3, <2>6, <2>8, <3>1, <3>2
    <3>3. CASE i # 1
      <4>1. i - 1 \in 1..len /\ compiling'[i].module = compiling[i - 1].module
        BY <1>5, <2>9, <3>3
      <4>2. i - 1 < j - 1
        BY <1>4, <2>11
      <4> QED
        BY <1>2, <1>4, <3>1, <4>1, <4>2 DEF StackOrdered
    <3> QED
      BY <3>2, <3>3
  <2>12. StackOrdered'
    BY <1>1, <2>8, <2>10, <2>11 DEF StackOrdered, Calls
  <2>13. engines \subseteq engines'
    BY <2>5 DEF Recorded
  <2> QED
    BY <1>1, <1>2, <2>5, <2>12, <2>13
<1>8. ~(n \notin ProcessSymbols /\ ~Finds(n))
  BY <1>1, FoundIsEarlier
<1> QED
  BY <1>3, <1>6, <1>7, <1>8 DEF s

LEMMA FinalizedCareful ==
  ASSUME LinkInv, CarefulInv, Finalized
  PROVE  CarefulInv'
<1> SUFFICES ASSUME careful'
             PROVE  /\ Live'
                    /\ OpenModule' \in {0, Len(modules')}
                    /\ Neat(modules', operators')
                    /\ StackOrdered'
                    /\ version' = "initial" => 1..Len(modules') \subseteq engines' \cup {OpenModule'}
  BY DEF CarefulInv
<1>1. /\ state = "compiling" /\ careful /\ compiling' = Tail(compiling)
      /\ engines \subseteq engines' /\ state' \in {"run", "compiling"}
      /\ UNCHANGED <<version, modules, OpenModule, operators>>
  BY DEF Finalized
<1>2. /\ Numbered /\ compiling # <<>> /\ OpenModule \in {0, Len(modules)}
      /\ Neat(modules, operators) /\ StackOrdered
      /\ version = "initial" => 1..Len(modules) \subseteq engines \cup {OpenModule}
  BY <1>1 DEF LinkInv, CarefulInv, Live
<1>3. /\ Len(compiling) \in Nat \ {0} /\ DOMAIN compiling = 1..Len(compiling)
  BY <1>2, TopFacts
<1>4. /\ IsSeq(compiling') /\ Len(compiling') = Len(compiling) - 1
      /\ \A i \in 1..Len(compiling') : compiling'[i] = compiling[i + 1]
  BY <1>1, <1>2, TailIsSeq DEF Numbered
<1>5. \A i \in DOMAIN compiling' :
         i \in Nat /\ i + 1 \in DOMAIN compiling /\ compiling'[i] = compiling[i + 1]
  BY <1>3, <1>4, IsSeqProperties
<1>6. ASSUME NEW i \in DOMAIN compiling', NEW x \in compiling'[i].pending
      PROVE  x \in Calls(compiling'[i].module) /\ ~HasBody(modules[compiling'[i].module], x)
  BY <1>2, <1>5, <1>6 DEF StackOrdered
<1>7. \A i, j \in DOMAIN compiling' : i < j => compiling'[i].module < compiling'[j].module
  BY <1>2, <1>5 DEF StackOrdered
<1>8. StackOrdered'
  BY <1>1, <1>6, <1>7 DEF StackOrdered, Calls
<1> QED
  BY <1>1, <1>2, <1>8 DEF Live

LEMMA OtherCareful ==
  ASSUME CarefulInv, Evaluated \/ EndOfInput \/ UNCHANGED vars
  PROVE  CarefulInv'
<1>1. /\ UNCHANGED <<version, modules, OpenModule, engines, operators, compiling, careful>>
      /\ state' = "ended" \/ (Live /\ Live') \/ state' = state
  BY DEF Evaluated, EndOfInput, vars, Live
<1>2. StackOrdered => StackOrdered'
  BY <1>1 DEF StackOrdered, Calls
<1> QED
  BY <1>1, <1>2 DEF CarefulInv, Live

LEMMA InitCareful ==
  ASSUME Init
  PROVE  CarefulInv
<1>1. PICK n :
         \/ modules = <<>>
         \/ ReadsInput /\ modules = <<Put(<<>>, n, Defined({}))>>
  BY DEF Init
<1> DEFINE m == Put(<<>>, n, Defined({}))
<1>2. DOMAIN m = {n} /\ m[n].body = TRUE /\ m[n].calls = {}
  BY DEF Put, Defined
<1> HIDE DEF m
<1>3. Len(modules) \in 0..1 /\ \A i \in 1..Len(modules) : modules[i] = m /\ i = 1
  <2>1. Len(<<>>) = 0 /\ Len(<<m>>) = 1 /\ <<m>>[1] = m
    OBVIOUS
  <2> QED
    BY <1>1, <2>1 DEF m
<1>4. Neat(modules, {})
  BY <1>2, <1>3 DEF Neat, HasBody, Has
<1>5. version = "initial" => Len(modules) = 0
  <2>1. Len(<<>>) = 0
    OBVIOUS
  <2> QED
    BY <1>1, <2>1 DEF ReadsInput
<1> QED
  BY <1>3, <1>4, <1>5, NothingStacked DEF Init, CarefulInv, Live

-----------------------------------------------------------------------------
(* For a user who gives each name one meaning all modules stay neat: each call *)
(* has a body to go to, in an earlier module if not in its own.                *)
THEOREM CarefulInvariant == Spec => []CarefulInv
<1>1. ASSUME LinkInv, CarefulInv, [Next]_vars
      PROVE  CarefulInv'
  BY <1>1, HandleDefinitionCareful, HandleExternCareful, HandleTopLevelExpressionCareful,
     getPointerToNamedFunctionCareful, FinalizedCareful, OtherCareful DEF Next
<1> QED
  BY <1>1, InitCareful, LinkInvariant, PTL DEF Spec

(* So this user never loses the session, whichever bodies fail and whichever   *)
(* version of the helper compiles them.                                        *)
THEOREM SessionAlwaysSurvives == Spec => []SessionSurvives
<1>1. CarefulInv => SessionSurvives
  BY DEF CarefulInv, SessionSurvives, Live
<1> QED
  BY <1>1, CarefulInvariant, PTL
==============================================================================
