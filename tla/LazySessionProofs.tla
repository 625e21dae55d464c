-------------------------- MODULE LazySessionProofs ---------------------------
(* Code that is generated when it is first called, for any names and numbers   *)
(* of arguments and any length of session: an expression only runs once all    *)
(* the code it can reach has been generated, with the arguments it is called   *)
(* with.                                                                       *)
EXTENDS LazySession, FiniteSetTheorems, TLAPS

Entries == [body : [arity : Arities \cup {0, 1}, calls : Calls, sound : BOOLEAN],
            generated : BOOLEAN]
Generated == {n \in DOMAIN MainJD : MainJD[n].generated}

(* What the tables hold; the expression is in the JIT only while it is looked  *)
(* up and run, and whatever the open module has was declared by a prototype.   *)
Tables ==
    /\ DOMAIN FunctionProtos \subseteq Functions
    /\ DOMAIN TheModule \subseteq DOMAIN FunctionProtos
    /\ DOMAIN MainJD \subseteq Names
    /\ \A n \in DOMAIN MainJD : MainJD[n] \in Entries
    /\ wanted \subseteq Functions
    /\ careful \in BOOLEAN
    /\ IF state = "prompt" THEN Anon \notin DOMAIN MainJD ELSE Anon \in Generated

(* A generated body calls what is generated too, or what the lookup in         *)
(* progress still has to materialise.                                          *)
Closed ==
    /\ \A n \in Generated : Callees(MainJD[n].body) \subseteq Generated \cup wanted
    /\ state # "lookup" => wanted = {}

(* With one prototype for each name, everything that was made from one agrees  *)
(* with it, at whatever moment it was made.                                    *)
Agree ==
    /\ \A n \in DOMAIN TheModule : TheModule[n] = FunctionProtos[n]
    /\ \A n \in ProcessSymbols \cap DOMAIN FunctionProtos : FunctionProtos[n] = 1
    /\ \A n \in DOMAIN MainJD \ {Anon} :
          IF n \in DOMAIN FunctionProtos THEN MainJD[n].body.arity = FunctionProtos[n]
          ELSE n \in ProcessSymbols /\ MainJD[n].body.arity = 1
    /\ \A n \in Generated : \A c \in MainJD[n].body.calls :
          c[1] \in DOMAIN FunctionProtos /\ FunctionProtos[c[1]] = c[2]

(* The inductive invariant of a session that goes on.                          *)
LazyInv == state \in {"prompt", "lookup", "run"} => Tables /\ Closed /\ (careful => Agree)

-----------------------------------------------------------------------------
LEMMA EmptyFacts == DOMAIN Empty = {}
  BY DEF Empty

(* A body calls functions, not expressions.                                    *)
LEMMA CalleesAreFunctions ==
  ASSUME NEW e \in Entries
  PROVE  /\ Callees(e.body) \subseteq Functions
         /\ \A c \in e.body.calls : c[1] \in Functions /\ c[1] \in Callees(e.body)
<1>1. e.body.calls \subseteq Functions \X Arities
  BY DEF Entries, Calls
<1> QED
  BY <1>1 DEF Callees

(* A call that resolves passes what the prototype says, where the module       *)
(* agrees with the prototypes.                                                 *)
LEMMA ResolvedMatches ==
  ASSUME NEW protos, NEW module, NEW call,
         DOMAIN module \subseteq DOMAIN protos,
         \A n \in DOMAIN module : module[n] = protos[n],
         CallResolves(protos, module, call)
  PROVE  call[1] \in DOMAIN protos /\ protos[call[1]] = call[2]
<1> DEFINE n == call[1]
           m == Declared(protos, module, n)
<1>1. n \in DOMAIN m /\ m[n] = call[2]
  BY DEF CallResolves
<1>2. CASE n \in DOMAIN module
  BY <1>1, <1>2 DEF Declared
<1>3. CASE n \notin DOMAIN module
  <2>1. n \in DOMAIN protos
    BY <1>1, <1>3 DEF Declared
  <2>2. m = Put(module, n, protos[n])
    BY <1>3, <2>1 DEF Declared
  <2>3. m[n] = protos[n]
    BY <2>2 DEF Put
  <2> QED
    BY <1>1, <2>1, <2>3
<1> QED
  BY <1>2, <1>3

LEMMA InitInv ==
  ASSUME Init
  PROVE  LazyInv
  BY EmptyFacts DEF Init, LazyInv, Tables, Closed, Agree, Generated

(* A prototype that does not change what a careful user has said.              *)
LEMMA PrototypeAgrees ==
  ASSUME Tables, Agree, NEW n \in Functions, NEW arity, OnePrototype(n, arity),
         FunctionProtos' = Put(FunctionProtos, n, arity)
  PROVE  /\ \A x \in DOMAIN FunctionProtos :
               x \in DOMAIN FunctionProtos' /\ FunctionProtos'[x] = FunctionProtos[x]
         /\ DOMAIN FunctionProtos' = DOMAIN FunctionProtos \cup {n}
         /\ FunctionProtos'[n] = arity
         /\ \A x \in ProcessSymbols \cap DOMAIN FunctionProtos' : FunctionProtos'[x] = 1
<1>1. /\ DOMAIN FunctionProtos' = DOMAIN FunctionProtos \cup {n}
      /\ FunctionProtos'[n] = arity
      /\ \A x \in DOMAIN FunctionProtos : x # n => FunctionProtos'[x] = FunctionProtos[x]
  BY DEF Put
<1>2. n \in DOMAIN FunctionProtos => FunctionProtos[n] = arity
  BY DEF OnePrototype
<1>3. \A x \in DOMAIN FunctionProtos : FunctionProtos'[x] = FunctionProtos[x]
  BY <1>1, <1>2
<1>4. \A x \in ProcessSymbols \cap DOMAIN FunctionProtos' : FunctionProtos'[x] = 1
  BY <1>1, <1>3 DEF Agree, OnePrototype
<1> QED
  BY <1>1, <1>3, <1>4

LEMMA HandleDefinitionInv ==
  ASSUME LazyInv, HandleDefinition
  PROVE  LazyInv'
<1>1. state = "prompt" /\ Tables /\ Closed /\ (careful => Agree)
      /\ UNCHANGED <<TheModule, wanted>>
  BY DEF HandleDefinition, Typed, LazyInv
<1>2. PICK n \in Functions, body \in Bodies :
         /\ FunctionProtos' = Put(FunctionProtos, n, body.arity)
         /\ careful' = (careful /\ OnePrototype(n, body.arity))
         /\ \/ state' = "duplicate"
            \/ /\ n \notin DOMAIN MainJD /\ state' = state
               /\ MainJD' = Put(MainJD, n, [body |-> body, generated |-> FALSE])
  BY DEF HandleDefinition
<1>3. CASE state' = "duplicate"
  BY <1>3 DEF LazyInv
<1>4. CASE /\ n \notin DOMAIN MainJD /\ state' = state
           /\ MainJD' = Put(MainJD, n, [body |-> body, generated |-> FALSE])
  <2> DEFINE e == [body |-> body, generated |-> FALSE]
  <2>1. e \in Entries /\ ~e.generated /\ e.body = body
    BY DEF Entries, Bodies
  <2> HIDE DEF e
  <2>2. /\ DOMAIN MainJD' = DOMAIN MainJD \cup {n} /\ MainJD'[n] = e
        /\ \A x \in DOMAIN MainJD : MainJD'[x] = MainJD[x]
    <3>1. MainJD' = Put(MainJD, n, e)
      BY <1>4 DEF e
    <3> QED
      BY <1>4, <3>1 DEF Put
  <2>3. Generated' = Generated
    BY <1>4, <2>1, <2>2 DEF Generated
  <2>4. DOMAIN FunctionProtos' = DOMAIN FunctionProtos \cup {n}
    BY <1>2 DEF Put
  <2>5. n # Anon /\ n \in Names
    BY LazyAssumption DEF Names
  <2>6. Tables'
    BY <1>1, <1>2, <1>4, <2>1, <2>2, <2>3, <2>4, <2>5 DEF Tables, OnePrototype
  <2>7. Closed'
    BY <1>1, <1>4, <2>2, <2>3 DEF Closed, Generated
  <2>8. ASSUME careful' PROVE Agree'
    <3>1. Agree /\ OnePrototype(n, body.arity)
      BY <1>1, <1>2, <2>8
    <3>2. /\ \A x \in DOMAIN FunctionProtos :
                x \in DOMAIN FunctionProtos' /\ FunctionProtos'[x] = FunctionProtos[x]
          /\ FunctionProtos'[n] = body.arity
          /\ \A x \in ProcessSymbols \cap DOMAIN FunctionProtos' : FunctionProtos'[x] = 1
      BY <1>1, <1>2, <3>1, PrototypeAgrees
    <3>3. \A x \in DOMAIN TheModule' : TheModule'[x] = FunctionProtos'[x]
      BY <1>1, <3>1, <3>2 DEF Agree, Tables
    <3>4. ASSUME NEW x \in DOMAIN MainJD' \ {Anon}
          PROVE  IF x \in DOMAIN FunctionProtos' THEN MainJD'[x].body.arity = FunctionProtos'[x]
                 ELSE x \in ProcessSymbols /\ MainJD'[x].body.arity = 1
      <4>1. CASE x = n
        BY <2>1, <2>2, <2>4, <3>2, <4>1
      <4>2. CASE x # n
        <5>1. /\ x \in DOMAIN MainJD \ {Anon} /\ MainJD'[x] = MainJD[x]
              /\ x \in DOMAIN FunctionProtos' <=> x \in DOMAIN FunctionProtos
          BY <2>2, <2>4, <4>2
        <5> QED
          BY <3>1, <3>2, <5>1 DEF Agree
      <4> QED
        BY <4>1, <4>2
    <3>5. \A x \in Generated' : \A c \in MainJD'[x].body.calls :
             c[1] \in DOMAIN FunctionProtos' /\ FunctionProtos'[c[1]] = c[2]
      BY <2>2, <2>3, <3>1, <3>2 DEF Agree, Generated
    <3> QED
      BY <3>2, <3>3, <3>4, <3>5 DEF Agree
  <2> QED
    BY <2>6, <2>7, <2>8 DEF LazyInv
<1> QED
  BY <1>2, <1>3, <1>4

LEMMA HandleExternInv ==
  ASSUME LazyInv, HandleExtern
  PROVE  LazyInv'
<1>1. state = "prompt" /\ Tables /\ Closed /\ (careful => Agree)
      /\ UNCHANGED <<MainJD, wanted, state>>
  BY DEF HandleExtern, Typed, LazyInv
<1>2. PICK n \in Functions, arity \in Arities :
         /\ TheModule' = IF n \in DOMAIN TheModule THEN TheModule ELSE Put(TheModule, n, arity)
         /\ FunctionProtos' = Put(FunctionProtos, n, arity)
         /\ careful' = (careful /\ OnePrototype(n, arity))
  BY DEF HandleExtern
<1>3. Generated' = Generated
  BY <1>1 DEF Generated
<1>4. DOMAIN FunctionProtos' = DOMAIN FunctionProtos \cup {n}
  BY <1>2 DEF Put
<1>5. DOMAIN TheModule' \subseteq DOMAIN TheModule \cup {n}
  BY <1>2 DEF Put
<1>6. Tables'
  BY <1>1, <1>2, <1>3, <1>4, <1>5 DEF Tables, OnePrototype
<1>7. Closed'
  BY <1>1, <1>3 DEF Closed
<1>8. ASSUME careful' PROVE Agree'
  <2>1. Agree /\ OnePrototype(n, arity)
    BY <1>1, <1>2, <1>8
  <2>2. /\ \A x \in DOMAIN FunctionProtos :
              x \in DOMAIN FunctionProtos' /\ FunctionProtos'[x] = FunctionProtos[x]
        /\ FunctionProtos'[n] = arity
        /\ \A x \in ProcessSymbols \cap DOMAIN FunctionProtos' : FunctionProtos'[x] = 1
    BY <1>1, <1>2, <2>1, PrototypeAgrees
  <2>3. ASSUME NEW x \in DOMAIN TheModule' PROVE TheModule'[x] = FunctionProtos'[x]
    <3>1. CASE n \in DOMAIN TheModule
      BY <1>1, <1>2, <2>1, <2>2, <3>1 DEF Agree, Tables
    <3>2. CASE n \notin DOMAIN TheModule
      <4>1. TheModule' = Put(TheModule, n, arity)
        BY <1>2, <3>2
      <4>2. x = n => TheModule'[x] = arity
        BY <4>1 DEF Put
      <4>3. x # n => x \in DOMAIN TheModule /\ TheModule'[x] = TheModule[x]
        BY <4>1 DEF Put
      <4> QED
        BY <1>1, <2>1, <2>2, <4>2, <4>3 DEF Agree, Tables
    <3> QED
      BY <3>1, <3>2
  <2>4. ASSUME NEW x \in DOMAIN MainJD' \ {Anon}
        PROVE  IF x \in DOMAIN FunctionProtos' THEN MainJD'[x].body.arity = FunctionProtos'[x]
               ELSE x \in ProcessSymbols /\ MainJD'[x].body.arity = 1
    <3>1. CASE x \in DOMAIN FunctionProtos
      BY <1>1, <2>1, <2>2, <3>1 DEF Agree
    <3>2. CASE x \notin DOMAIN FunctionProtos
      <4>1. x \in ProcessSymbols /\ MainJD'[x].body.arity = 1
        BY <1>1, <2>1, <3>2 DEF Agree
      <4> QED
        BY <2>2, <4>1
    <3> QED
      BY <3>1, <3>2
  <2>5. \A x \in Generated' : \A c \in MainJD'[x].body.calls :
           c[1] \in DOMAIN FunctionProtos' /\ FunctionProtos'[c[1]] = c[2]
    BY <1>1, <1>3, <2>1, <2>2 DEF Agree
  <2> QED
    BY <2>2, <2>3, <2>4, <2>5 DEF Agree
<1> QED
  BY <1>6, <1>7, <1>8 DEF LazyInv

LEMMA HandleTopLevelExpressionInv ==
  ASSUME LazyInv, HandleTopLevelExpression
  PROVE  LazyInv'
<1>1. state = "prompt" /\ Tables /\ Closed /\ (careful => Agree)
      /\ UNCHANGED <<FunctionProtos, careful>>
  BY DEF HandleTopLevelExpression, Typed, LazyInv
<1>2. PICK calls \in Calls :
         \/ /\ \A c \in calls : CallResolves(FunctionProtos, TheModule, c)
            /\ AddExpression(calls)
         \/ /\ \E c \in calls \cup {<<Anon, 0>>} :
                  TheModule' = Declared(FunctionProtos, TheModule, c[1])
            /\ UNCHANGED <<MainJD, wanted, state>>
  BY DEF HandleTopLevelExpression
<1>3. CASE /\ \A c \in calls : CallResolves(FunctionProtos, TheModule, c)
           /\ AddExpression(calls)
  <2> DEFINE e == [body |-> [arity |-> 0, calls |-> calls, sound |-> TRUE], generated |-> TRUE]
  <2>1. e \in Entries /\ e.generated /\ e.body.calls = calls
    BY DEF Entries
  <2>2. wanted' = Callees(e.body) /\ TheModule' = Empty /\ state' = "lookup"
    BY <1>3 DEF AddExpression, InitializeModule, Callees
  <2>3. MainJD' = Put(MainJD, Anon, e)
    BY <1>3 DEF AddExpression
  <2> HIDE DEF e
  <2>4. Anon \notin DOMAIN MainJD
    BY <1>1 DEF Tables
  <2>5. /\ DOMAIN MainJD' = DOMAIN MainJD \cup {Anon} /\ MainJD'[Anon] = e
        /\ \A x \in DOMAIN MainJD : MainJD'[x] = MainJD[x]
    BY <2>3, <2>4 DEF Put
  <2>6. Generated' = Generated \cup {Anon}
    BY <2>1, <2>4, <2>5 DEF Generated
  <2>7. \A x \in Generated : MainJD'[x] = MainJD[x]
    BY <2>5 DEF Generated
  <2>8. wanted = {} /\ wanted' \subseteq Functions
    BY <1>1, <2>1, <2>2, CalleesAreFunctions DEF Closed
  <2>9. Tables'
    BY <1>1, <2>1, <2>2, <2>5, <2>6, <2>8, EmptyFacts DEF Tables, Names
  <2>10. Closed'
    BY <1>1, <2>2, <2>5, <2>6, <2>7, <2>8 DEF Closed
  <2>11. ASSUME careful' PROVE Agree'
    <3>1. Agree
      BY <1>1, <2>11
    <3>2. \A c \in calls : c[1] \in DOMAIN FunctionProtos /\ FunctionProtos[c[1]] = c[2]
      BY <1>1, <1>3, <3>1, ResolvedMatches DEF Agree, Tables
    <3>3. \A x \in Generated' : \A c \in MainJD'[x].body.calls :
             c[1] \in DOMAIN FunctionProtos' /\ FunctionProtos'[c[1]] = c[2]
      BY <1>1, <2>1, <2>5, <2>6, <2>7, <3>1, <3>2 DEF Agree
    <3>4. \A x \in DOMAIN MainJD' \ {Anon} : x \in DOMAIN MainJD \ {Anon} /\ MainJD'[x] = MainJD[x]
      BY <2>5
    <3> QED
      BY <1>1, <2>2, <3>1, <3>3, <3>4, EmptyFacts DEF Agree
  <2> QED
    BY <2>9, <2>10, <2>11 DEF LazyInv
<1>4. CASE /\ \E c \in calls \cup {<<Anon, 0>>} :
                TheModule' = Declared(FunctionProtos, TheModule, c[1])
           /\ UNCHANGED <<MainJD, wanted, state>>
  <2>1. PICK n : TheModule' = Declared(FunctionProtos, TheModule, n)
    BY <1>4
  <2>2. Generated' = Generated
    BY <1>4 DEF Generated
  <2>3. CASE TheModule' = TheModule
    BY <1>1, <1>4, <2>2, <2>3 DEF LazyInv, Tables, Closed, Agree
  <2>4. CASE n \in DOMAIN FunctionProtos /\ TheModule' = Put(TheModule, n, FunctionProtos[n])
    <3>1. /\ DOMAIN TheModule' = DOMAIN TheModule \cup {n}
          /\ TheModule'[n] = FunctionProtos[n]
          /\ \A x \in DOMAIN TheModule : x # n => TheModule'[x] = TheModule[x]
      BY <2>4 DEF Put
    <3>2. Tables' /\ Closed'
      BY <1>1, <1>4, <2>2, <2>4, <3>1 DEF Tables, Closed
    <3>3. Agree => Agree'
      BY <1>1, <1>4, <2>2, <3>1 DEF Agree
    <3> QED
      BY <1>1, <3>2, <3>3 DEF LazyInv
  <2> QED
    BY <2>1, <2>3, <2>4 DEF Declared
<1> QED
  BY <1>2, <1>3, <1>4

-----------------------------------------------------------------------------
LEMMA MaterializeInv ==
  ASSUME LazyInv, Materialize
  PROVE  LazyInv'
<1>1. state = "lookup" /\ Tables /\ Closed /\ (careful => Agree) /\ careful' = careful
  BY DEF Materialize, LazyInv
<1>2. PICK n \in Wanted :
         n \in DOMAIN MainJD /\ ~MainJD[n].generated /\ irgenAndTakeOwnership(n)
  BY DEF Materialize
<1> DEFINE body == MainJD[n].body
           protos == Put(FunctionProtos, n, body.arity)
           e == [MainJD[n] EXCEPT !.generated = TRUE]
<1>3. CASE state' = "fatal"
  BY <1>3 DEF LazyInv
<1>4. CASE /\ Generates(protos, Put(TheModule, n, body.arity), body)
           /\ MainJD' = [MainJD EXCEPT ![n].generated = TRUE]
           /\ wanted' = (wanted \ {n}) \cup Callees(body)
           /\ TheModule' = Empty
           /\ state' = state
  <2>1. n \in Functions /\ n # Anon /\ n \notin Generated
    BY <1>1, <1>2, LazyAssumption DEF Wanted, Tables, Generated
  <2>2. MainJD[n] \in Entries
    BY <1>1, <1>2 DEF Tables
  <2>3. e \in Entries /\ e.generated /\ e.body = body
    BY <2>2 DEF Entries
  <2>4. /\ DOMAIN MainJD' = DOMAIN MainJD /\ MainJD'[n] = e
        /\ \A x \in DOMAIN MainJD : x # n => MainJD'[x] = MainJD[x]
    BY <1>2, <1>4
  <2>5. Callees(body) \subseteq Functions
    BY <2>2, CalleesAreFunctions
  <2> HIDE DEF e
  <2>6. FunctionProtos' = protos
    BY <1>2 DEF irgenAndTakeOwnership
  <2>7. DOMAIN protos = DOMAIN FunctionProtos \cup {n}
    BY DEF Put
  <2>8. Generated' = Generated \cup {n}
    BY <1>2, <2>3, <2>4 DEF Generated
  <2>9. \A x \in Generated : MainJD'[x] = MainJD[x]
    BY <2>1, <2>4 DEF Generated
  <2>10. Tables'
    BY <1>1, <1>4, <2>1, <2>3, <2>4, <2>5, <2>6, <2>7, <2>8, EmptyFacts DEF Tables
  <2>11. Closed'
    BY <1>1, <1>4, <2>3, <2>4, <2>8, <2>9 DEF Closed
  <2>12. ASSUME careful' PROVE Agree'
    <3>1. Agree
      BY <1>1, <2>12
    <3>2. IF n \in DOMAIN FunctionProtos THEN body.arity = FunctionProtos[n]
          ELSE n \in ProcessSymbols /\ body.arity = 1
      BY <1>2, <2>1, <3>1 DEF Agree
    <3>3. OnePrototype(n, body.arity)
      BY <3>1, <3>2 DEF OnePrototype, Agree
    <3>4. /\ \A x \in DOMAIN FunctionProtos :
                x \in DOMAIN FunctionProtos' /\ FunctionProtos'[x] = FunctionProtos[x]
          /\ FunctionProtos'[n] = body.arity
          /\ \A x \in ProcessSymbols \cap DOMAIN FunctionProtos' : FunctionProtos'[x] = 1
      BY <1>1, <2>1, <2>6, <3>1, <3>3, PrototypeAgrees
    <3>5. ASSUME NEW c \in body.calls
          PROVE  c[1] \in DOMAIN FunctionProtos' /\ FunctionProtos'[c[1]] = c[2]
      <4> DEFINE module == Put(TheModule, n, body.arity)
      <4>1. DOMAIN module = DOMAIN TheModule \cup {n} /\ module[n] = body.arity
        BY DEF Put
      <4>2. \A x \in DOMAIN module : module[x] = protos[x]
        <5>1. \A x \in DOMAIN TheModule : x # n => module[x] = TheModule[x]
          BY DEF Put
        <5>2. \A x \in DOMAIN TheModule : x \in DOMAIN FunctionProtos /\ TheModule[x] = FunctionProtos[x]
          BY <1>1, <3>1 DEF Agree, Tables
        <5> QED
          BY <2>6, <3>4, <4>1, <5>1, <5>2
      <4>3. DOMAIN module \subseteq DOMAIN protos
        BY <1>1, <2>7, <4>1 DEF Tables
      <4>4. CallResolves(protos, module, c)
        BY <1>4 DEF Generates
      <4> HIDE DEF module, protos
      <4> QED
        BY <2>6, <4>2, <4>3, <4>4, ResolvedMatches
    <3>6. \A x \in Generated' : \A c \in MainJD'[x].body.calls :
             c[1] \in DOMAIN FunctionProtos' /\ FunctionProtos'[c[1]] = c[2]
      BY <2>3, <2>4, <2>8, <2>9, <3>1, <3>4, <3>5 DEF Agree
    <3>7. ASSUME NEW x \in DOMAIN MainJD' \ {Anon}
          PROVE  IF x \in DOMAIN FunctionProtos' THEN MainJD'[x].body.arity = FunctionProtos'[x]
                 ELSE x \in ProcessSymbols /\ MainJD'[x].body.arity = 1
      <4>1. CASE x = n
        BY <2>3, <2>4, <2>6, <2>7, <3>4, <4>1
      <4>2. CASE x # n
        <5>1. /\ x \in DOMAIN MainJD \ {Anon} /\ MainJD'[x] = MainJD[x]
              /\ x \in DOMAIN FunctionProtos' <=> x \in DOMAIN FunctionProtos
          BY <2>4, <2>6, <2>7, <4>2
        <5> QED
          BY <3>1, <3>4, <5>1 DEF Agree
      <4> QED
        BY <4>1, <4>2
    <3>8. \A x \in DOMAIN TheModule' : TheModule'[x] = FunctionProtos'[x]
      BY <1>4, EmptyFacts
    <3> QED
      BY <3>4, <3>6, <3>7, <3>8 DEF Agree
  <2> QED
    BY <2>10, <2>11, <2>12 DEF LazyInv
<1> QED
  BY <1>2, <1>3, <1>4 DEF irgenAndTakeOwnership, InitializeModule

LEMMA ResolveInv ==
  ASSUME LazyInv, Resolve
  PROVE  LazyInv'
<1>1. state = "lookup" /\ Tables /\ Closed /\ (careful => Agree)
      /\ UNCHANGED <<FunctionProtos, TheModule, careful>>
  BY DEF Resolve, LazyInv
<1>2. PICK n \in wanted :
         \/ /\ n \in DOMAIN MainJD /\ MainJD[n].generated
            /\ wanted' = wanted \ {n}
            /\ UNCHANGED <<MainJD, state>>
         \/ /\ n \in ProcessSymbols \ DOMAIN MainJD
            /\ MainJD' = Put(MainJD, n, [body |-> [arity |-> 1, calls |-> {}, sound |-> TRUE],
                                         generated |-> TRUE])
            /\ wanted' = wanted \ {n}
            /\ UNCHANGED state
         \/ state' = "missing"
  BY DEF Resolve
<1>3. CASE state' = "missing"
  BY <1>3 DEF LazyInv
<1>4. CASE /\ n \in DOMAIN MainJD /\ MainJD[n].generated
           /\ wanted' = wanted \ {n}
           /\ UNCHANGED <<MainJD, state>>
  <2>1. Generated' = Generated /\ n \in Generated
    BY <1>4 DEF Generated
  <2>2. Tables' /\ Closed'
    BY <1>1, <1>4, <2>1 DEF Tables, Closed
  <2>3. Agree => Agree'
    BY <1>1, <1>4, <2>1 DEF Agree
  <2> QED
    BY <1>1, <2>2, <2>3 DEF LazyInv
<1>5. CASE /\ n \in ProcessSymbols \ DOMAIN MainJD
           /\ MainJD' = Put(MainJD, n, [body |-> [arity |-> 1, calls |-> {}, sound |-> TRUE],
                                        generated |-> TRUE])
           /\ wanted' = wanted \ {n}
           /\ UNCHANGED state
  <2> DEFINE e == [body |-> [arity |-> 1, calls |-> {}, sound |-> TRUE], generated |-> TRUE]
  <2>1. e \in Entries /\ e.generated /\ e.body.calls = {} /\ e.body.arity = 1
        /\ Callees(e.body) = {}
    BY FS_EmptySet DEF Entries, Calls, Callees
  <2>2. MainJD' = Put(MainJD, n, e)
    BY <1>5
  <2> HIDE DEF e
  <2>3. n \in Functions /\ n # Anon /\ n \in Names
    BY <1>5, LazyAssumption DEF Names
  <2>4. /\ DOMAIN MainJD' = DOMAIN MainJD \cup {n} /\ MainJD'[n] = e
        /\ \A x \in DOMAIN MainJD : MainJD'[x] = MainJD[x]
    BY <1>5, <2>2 DEF Put
  <2>5. Generated' = Generated \cup {n}
    BY <1>5, <2>1, <2>4 DEF Generated
  <2>6. \A x \in Generated : MainJD'[x] = MainJD[x]
    BY <2>4 DEF Generated
  <2>7. Tables'
    BY <1>1, <1>5, <2>1, <2>3, <2>4, <2>5 DEF Tables
  <2>8. Closed'
    BY <1>1, <1>5, <2>1, <2>4, <2>5, <2>6 DEF Closed
  <2>9. ASSUME Agree PROVE Agree'
    <3>1. \A x \in Generated' : \A c \in MainJD'[x].body.calls :
             c[1] \in DOMAIN FunctionProtos' /\ FunctionProtos'[c[1]] = c[2]
      BY <1>1, <2>1, <2>4, <2>5, <2>6, <2>9 DEF Agree
    <3>2. \A x \in DOMAIN MainJD' \ {Anon} :
             IF x \in DOMAIN FunctionProtos' THEN MainJD'[x].body.arity = FunctionProtos'[x]
             ELSE x \in ProcessSymbols /\ MainJD'[x].body.arity = 1
      <4>1. n \in DOMAIN FunctionProtos => FunctionProtos[n] = 1
        BY <1>5, <2>9 DEF Agree
      <4> QED
        BY <1>1, <1>5, <2>1, <2>4, <2>9, <4>1 DEF Agree
    <3> QED
      BY <1>1, <2>9, <3>1, <3>2 DEF Agree
  <2> QED
    BY <1>1, <2>7, <2>8, <2>9 DEF LazyInv
<1> QED
  BY <1>2, <1>3, <1>4, <1>5

LEMMA RunInv ==
  ASSUME LazyInv, Run
  PROVE  LazyInv'
<1>1. /\ state = "lookup" /\ wanted = {} /\ state' = "run"
      /\ UNCHANGED <<FunctionProtos, TheModule, MainJD, wanted, careful>>
  BY DEF Run
<1>2. Generated' = Generated
  BY <1>1 DEF Generated
<1> QED
  BY <1>1, <1>2 DEF LazyInv, Tables, Closed, Agree

LEMMA RemoveExpressionInv ==
  ASSUME LazyInv, RemoveExpression
  PROVE  LazyInv'
<1>1. /\ state = "run" /\ Tables /\ Closed /\ (careful => Agree) /\ state' = "prompt"
      /\ UNCHANGED <<FunctionProtos, TheModule, wanted, careful>>
  BY DEF RemoveExpression, LazyInv
<1>2. /\ DOMAIN MainJD' = DOMAIN MainJD \ {Anon}
      /\ \A x \in DOMAIN MainJD' : MainJD'[x] = MainJD[x]
  BY DEF RemoveExpression
<1>3. Generated' = Generated \ {Anon}
  BY <1>2 DEF Generated
<1>4. \A x \in Generated : Callees(MainJD[x].body) \subseteq Functions
  BY <1>1, CalleesAreFunctions DEF Tables, Generated
<1>5. \A x \in Generated' : x \in Generated /\ MainJD'[x] = MainJD[x]
  BY <1>2, <1>3 DEF Generated
<1>6. Tables'
  BY <1>1, <1>2 DEF Tables
<1>7. Closed'
  BY <1>1, <1>3, <1>4, <1>5, LazyAssumption DEF Closed
<1>8. Agree => Agree'
  BY <1>1, <1>2, <1>5 DEF Agree
<1> QED
  BY <1>1, <1>6, <1>7, <1>8 DEF LazyInv

LEMMA StutterInv ==
  ASSUME LazyInv, UNCHANGED vars
  PROVE  LazyInv'
<1>1. UNCHANGED <<FunctionProtos, TheModule, MainJD, wanted, careful, state>>
  BY DEF vars
<1>2. Generated' = Generated
  BY <1>1 DEF Generated
<1> QED
  BY <1>1, <1>2 DEF LazyInv, Tables, Closed, Agree

-----------------------------------------------------------------------------
(* The invariant holds of every session.                                       *)
THEOREM LazyInvariant == Spec => []LazyInv
<1>1. ASSUME LazyInv, [Next]_vars
      PROVE  LazyInv'
  BY <1>1, HandleDefinitionInv, HandleExternInv, HandleTopLevelExpressionInv,
     MaterializeInv, ResolveInv, RunInv, RemoveExpressionInv, StutterInv DEF Next
<1> QED
  BY <1>1, InitInv, PTL DEF Spec

(* When an expression runs, all the code it can reach has been generated, and  *)
(* is called with as many arguments as it takes if every name has had one      *)
(* prototype: the set of generated functions is closed under calls, so what    *)
(* can be reached from the expression is inside it.                            *)
THEOREM RunsGeneratedCodeAlways == Spec => []RunsGeneratedCode
<1>1. ASSUME LazyInv
      PROVE  RunsGeneratedCode
  <2> SUFFICES ASSUME state = "run", NEW n \in Reached
               PROVE  /\ n \in DOMAIN MainJD /\ MainJD[n].generated
                      /\ careful => \A c \in MainJD[n].body.calls : Matches(c)
    BY DEF RunsGeneratedCode
  <2>1. Tables /\ Closed /\ (careful => Agree)
    BY <1>1 DEF LazyInv
  <2>2. wanted = {} /\ Anon \in Generated /\ Generated \in SUBSET Names
    BY <2>1 DEF Tables, Closed, Generated
  <2>3. \A m \in Generated \cap DOMAIN MainJD : Callees(MainJD[m].body) \subseteq Generated
    BY <2>1, <2>2 DEF Closed
  <2>4. n \in Generated
    BY <2>2, <2>3 DEF Reached
  <2>5. ASSUME careful, NEW c \in MainJD[n].body.calls
        PROVE  Matches(c)
    <3>1. c[1] \in DOMAIN FunctionProtos /\ FunctionProtos[c[1]] = c[2]
      BY <2>1, <2>4, <2>5 DEF Agree
    <3>2. c[1] # Anon
      BY <2>1, <3>1, LazyAssumption DEF Tables
    <3> QED
      BY <2>1, <2>5, <3>1, <3>2 DEF Agree, Matches
  <2> QED
    BY <2>4, <2>5 DEF Generated
<1> QED
  BY <1>1, LazyInvariant, PTL

-----------------------------------------------------------------------------
(* A lookup only gets to what the expression reaches, and the module in which  *)
(* bodies are generated was opened for it.                                     *)
LookupInv ==
    /\ LazyInv
    /\ state = "lookup" => TheModule = Empty /\ wanted \subseteq Reached
    /\ OnlyReachedBodiesFail

Closes(S) == /\ Anon \in S
             /\ \A m \in S \cap DOMAIN MainJD : Callees(MainJD[m].body) \subseteq S

(* What a reached function calls is reached.                                   *)
LEMMA ReachedCallees ==
  ASSUME NEW n \in DOMAIN MainJD, n = Anon \/ n \in Reached,
         Callees(MainJD[n].body) \subseteq Names
  PROVE  Callees(MainJD[n].body) \subseteq Reached
<1> SUFFICES ASSUME NEW c \in Callees(MainJD[n].body), NEW S \in SUBSET Names, Closes(S)
             PROVE  c \in S
  BY DEF Reached, Closes
<1>1. n \in S
  BY DEF Reached, Closes
<1> QED
  BY <1>1 DEF Closes

(* Materialising symbols does not change what the expression reaches.          *)
LEMMA ReachedStays ==
  ASSUME NEW n, DOMAIN MainJD' \subseteq DOMAIN MainJD \cup {n}, DOMAIN MainJD \subseteq DOMAIN MainJD',
         \A x \in DOMAIN MainJD : Callees(MainJD'[x].body) = Callees(MainJD[x].body)
  PROVE  Reached \subseteq Reached'
<1>1. ASSUME NEW S \in SUBSET Names, Closes(S)'
      PROVE  Closes(S)
  BY <1>1 DEF Closes
<1>2. \A x \in Names : x \in Reached <=> \A S \in SUBSET Names : Closes(S) => x \in S
  BY DEF Reached, Closes
<1>3. \A x \in Names : x \in Reached' <=> \A S \in SUBSET Names : Closes(S)' => x \in S
  BY DEF Reached, Closes
<1>4. Reached \subseteq Names
  BY DEF Reached
<1> QED
  BY <1>1, <1>2, <1>3, <1>4

(* A body that is not generated when its symbol is wanted is wrong itself, or  *)
(* one of its calls is.                                                        *)
LEMMA NotGenerated ==
  ASSUME NEW protos, NEW n, NEW body, protos[n] = body.arity, n \in DOMAIN protos,
         ~Generates(protos, Put(Empty, n, body.arity), body), body.sound \in BOOLEAN
  PROVE  ~body.sound \/ \E c \in body.calls : c[1] \in DOMAIN protos => protos[c[1]] # c[2]
<1> DEFINE module == Put(Empty, n, body.arity)
<1>1. CASE ~body.sound
  BY <1>1
<1>2. CASE body.sound
  <2>1. PICK c \in body.calls : ~CallResolves(protos, module, c)
    BY <1>2 DEF Generates
  <2>2. DOMAIN module = {n} /\ module[n] = body.arity
    BY DEF Put, Empty
  <2> HIDE DEF module
  <2>3. ASSUME c[1] \in DOMAIN protos PROVE protos[c[1]] # c[2]
    <3>1. CASE c[1] = n
      BY <2>1, <2>2, <3>1 DEF CallResolves, Declared
    <3>2. CASE c[1] # n
      <4> DEFINE k == c[1]
      <4>1. Declared(protos, module, k) = Put(module, k, protos[k])
        BY <2>2, <2>3, <3>2 DEF Declared
      <4>2. k \in DOMAIN Put(module, k, protos[k]) /\ Put(module, k, protos[k])[k] = protos[k]
        BY DEF Put
      <4> QED
        BY <2>1, <4>1, <4>2 DEF CallResolves
    <3> QED
      BY <3>1, <3>2
  <2> QED
    BY <2>3
<1> QED
  BY <1>1, <1>2

LEMMA AddExpressionLookup ==
  ASSUME LazyInv', NEW calls, AddExpression(calls)
  PROVE  TheModule' = Empty /\ wanted' \subseteq Reached' /\ OnlyReachedBodiesFail'
<1>1. /\ TheModule' = Empty /\ state' = "lookup" /\ wanted' = {c[1] : c \in calls}
  BY DEF AddExpression, InitializeModule
<1>2. /\ Anon \in DOMAIN MainJD' /\ Callees(MainJD'[Anon].body) = wanted'
  BY <1>1 DEF AddExpression, Put, Callees
<1>3. wanted' \subseteq Names
  BY <1>1 DEF LazyInv, Tables, Names
<1>4. wanted' \subseteq Reached'
  <2>1. \A S : Closes(S)' => wanted' \subseteq S
    BY <1>2 DEF Closes
  <2>2. \A x \in Names : x \in Reached' <=> \A S \in SUBSET Names : Closes(S)' => x \in S
    BY DEF Reached, Closes
  <2> QED
    BY <1>3, <2>1, <2>2
<1> QED
  BY <1>1, <1>4 DEF OnlyReachedBodiesFail

LEMMA MaterializeLookup ==
  ASSUME LookupInv, Materialize, LazyInv'
  PROVE  LookupInv'
<1>1. state = "lookup" /\ Tables /\ TheModule = Empty /\ wanted \subseteq Reached
  BY DEF Materialize, LookupInv, LazyInv
<1>2. PICK n \in Wanted :
         n \in DOMAIN MainJD /\ ~MainJD[n].generated /\ irgenAndTakeOwnership(n)
  BY DEF Materialize
<1> DEFINE body == MainJD[n].body
           protos == Put(FunctionProtos, n, body.arity)
<1>3. n \in Reached /\ MainJD[n] \in Entries
  BY <1>1, <1>2 DEF Wanted, Tables
<1>4. FunctionProtos' = protos
  BY <1>2 DEF irgenAndTakeOwnership
<1>5. CASE ~Generates(protos, Put(TheModule, n, body.arity), body)
  <2>1. state' = "fatal" /\ UNCHANGED MainJD
    BY <1>2, <1>5 DEF irgenAndTakeOwnership
  <2>2. body.sound \in BOOLEAN
    BY <1>3 DEF Entries
  <2>3. n \in DOMAIN protos /\ protos[n] = body.arity
    BY DEF Put
  <2> HIDE DEF body, protos
  <2>4. ~body.sound \/ \E c \in body.calls : c[1] \in DOMAIN protos => protos[c[1]] # c[2]
    BY <1>1, <1>5, <2>2, <2>3, NotGenerated
  <2>5. Reached' = Reached
    BY <2>1 DEF Reached
  <2>6. OnlyReachedBodiesFail'
    BY <1>2, <1>3, <1>4, <2>1, <2>4, <2>5 DEF OnlyReachedBodiesFail, body
  <2> QED
    BY <2>1, <2>6 DEF LookupInv
<1>6. CASE Generates(protos, Put(TheModule, n, body.arity), body)
  <2>1. /\ MainJD' = [MainJD EXCEPT ![n].generated = TRUE]
        /\ wanted' = (wanted \ {n}) \cup Callees(body)
        /\ TheModule' = Empty /\ state' = state
    BY <1>2, <1>6 DEF irgenAndTakeOwnership, InitializeModule
  <2>2. /\ DOMAIN MainJD' = DOMAIN MainJD
        /\ \A x \in DOMAIN MainJD : MainJD'[x].body = MainJD[x].body
    <3>1. \A x \in DOMAIN MainJD : x # n => MainJD'[x] = MainJD[x]
      BY <2>1
    <3>2. MainJD'[n] = [MainJD[n] EXCEPT !.generated = TRUE]
      BY <1>2, <2>1
    <3>3. MainJD'[n].body = MainJD[n].body
      BY <1>3, <3>2 DEF Entries
    <3> QED
      BY <2>1, <3>1, <3>3
  <2>3. Reached \subseteq Reached'
    BY <2>2, ReachedStays
  <2>4. Callees(body) \subseteq Reached
    BY <1>2, <1>3, CalleesAreFunctions, ReachedCallees DEF Names
  <2> QED
    BY <1>1, <2>1, <2>3, <2>4 DEF LookupInv, OnlyReachedBodiesFail
<1> QED
  BY <1>5, <1>6

LEMMA ResolveLookup ==
  ASSUME LookupInv, Resolve, LazyInv'
  PROVE  LookupInv'
<1>1. /\ state = "lookup" /\ TheModule = Empty /\ wanted \subseteq Reached /\ TheModule' = TheModule
  BY DEF Resolve, LookupInv
<1>2. PICK n \in wanted :
         \/ wanted' = wanted \ {n} /\ UNCHANGED <<MainJD, state>>
         \/ /\ n \notin DOMAIN MainJD /\ state' = state /\ wanted' = wanted \ {n}
            /\ MainJD' = Put(MainJD, n, [body |-> [arity |-> 1, calls |-> {}, sound |-> TRUE],
                                         generated |-> TRUE])
         \/ state' = "missing"
  BY DEF Resolve
<1>3. state' \in {state, "missing"}
  BY <1>2
<1>4. state' = state => wanted' \subseteq Reached'
  <2>1. CASE MainJD' = MainJD /\ wanted' = wanted \ {n}
    BY <1>1, <2>1 DEF Reached
  <2>2. CASE /\ n \notin DOMAIN MainJD /\ wanted' = wanted \ {n}
             /\ MainJD' = Put(MainJD, n, [body |-> [arity |-> 1, calls |-> {}, sound |-> TRUE],
                                          generated |-> TRUE])
    <3>1. /\ DOMAIN MainJD' = DOMAIN MainJD \cup {n}
          /\ \A x \in DOMAIN MainJD : MainJD'[x] = MainJD[x]
      BY <2>2 DEF Put
    <3>2. Reached \subseteq Reached'
      BY <3>1, ReachedStays
    <3> QED
      BY <1>1, <2>2, <3>2
  <2> QED
    BY <1>1, <1>2, <2>1, <2>2
<1> QED
  BY <1>1, <1>3, <1>4 DEF LookupInv, OnlyReachedBodiesFail

(* A lookup's invariant holds of every session.                                *)
THEOREM LookupInvariant == Spec => []LookupInv
<1>1. Init => LookupInv
  BY InitInv DEF LookupInv, Init, OnlyReachedBodiesFail
<1>2. ASSUME LookupInv, [Next]_vars
      PROVE  LookupInv'
  <2>1. LazyInv /\ LazyInv'
    BY <1>2, HandleDefinitionInv, HandleExternInv, HandleTopLevelExpressionInv,
       MaterializeInv, ResolveInv, RunInv, RemoveExpressionInv, StutterInv DEF LookupInv, Next
  <2>2. CASE HandleDefinition \/ HandleExtern \/ Run \/ RemoveExpression
    <3>1. state' \in {"prompt", "duplicate", "run"}
      BY <2>2 DEF HandleDefinition, HandleExtern, Run, RemoveExpression, Typed
    <3> QED
      BY <2>1, <3>1 DEF LookupInv, OnlyReachedBodiesFail
  <2>3. CASE HandleTopLevelExpression
    <3>1. PICK calls \in Calls : AddExpression(calls) \/ state' = state
      BY <2>3 DEF HandleTopLevelExpression
    <3>2. CASE AddExpression(calls)
      BY <2>1, <3>2, AddExpressionLookup DEF LookupInv
    <3>3. CASE state' = state
      BY <2>1, <2>3, <3>3 DEF LookupInv, OnlyReachedBodiesFail, HandleTopLevelExpression, Typed
    <3> QED
      BY <3>1, <3>2, <3>3
  <2>4. CASE Materialize
    BY <1>2, <2>1, <2>4, MaterializeLookup
  <2>5. CASE Resolve
    BY <1>2, <2>1, <2>5, ResolveLookup
  <2>6. CASE UNCHANGED vars
    <3>1. Reached' = Reached
      BY <2>6 DEF Reached, vars
    <3> QED
      BY <1>2, <2>1, <2>6, <3>1 DEF LookupInv, OnlyReachedBodiesFail, vars
  <2> QED
    BY <1>2, <2>2, <2>3, <2>4, <2>5, <2>6 DEF Next
<1> QED
  BY <1>1, <1>2, PTL DEF Spec

(* A body that cannot be generated ends the session only when an expression    *)
(* reaches it.                                                                 *)
THEOREM OnlyReachedBodiesEverFail == Spec => []OnlyReachedBodiesFail
<1>1. LookupInv => OnlyReachedBodiesFail
  BY DEF LookupInv
<1> QED
  BY <1>1, LookupInvariant, PTL
===============================================================================
