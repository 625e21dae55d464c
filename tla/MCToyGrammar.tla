---- MODULE MCToyGrammar ----
(* ToyGrammar on bounded inputs.  Versions with the same grammar parse alike,   *)
(* so one of each is enough; every input begins in a way that leads to one of   *)
(* the forms and goes on with any words that form has a use for, or has not.    *)
EXTENDS ToyGrammar

MCVersions == {CHOOSE v \in DOMAIN Grammar : Grammar[v] = g : g \in {Grammar[v] : v \in DOMAIN Grammar}}

Input(opening, words) == [opening |-> opening, words |-> words]

Operator == << "def", "binary", "@", "number", "(", "identifier", "identifier", ")", "number", ";" >>
External == << "extern", "binary", "@", "(", "identifier", "identifier", ")" >>

MCInputs ==
    { Input(<<>>, {"identifier", "number", "(", ")", "+", "*", ";", "eof"}),
      Input(<<>>, {"def", "extern", "unary", "binary", "identifier", "@", "(", "eof"}),
      Input(<<"identifier", "+", "identifier">>, {"identifier", "+", "*", "<", "("}),
      Input(<<"def", "identifier", "(">>, {"identifier", ")", "+", "number", "eof"}),
      Input(<<"extern", "binary", "@">>, {"number", "identifier", "(", ")"}),
      Input(External \o Operator, {"extern", "identifier", "@"}),
      Input(External \o External, {"identifier", "@", "eof"}),
      Input(Operator, {"identifier", "@", "=", "*", "<", "eof"}),
      Input(Operator \o Operator \o <<"identifier">>, {"@", "*", "identifier"}),
      Input(<<"identifier", "(", "identifier">>, {"identifier", ",", ")", "+", "eof"}),
      Input(<<"if", "identifier">>, {"identifier", "then", "else", "+", "eof"}),
      Input(<<"if", "identifier", "then", "identifier", "else", "identifier">>, {"+", "if", "else", ";", "identifier"}),
      Input(<<"for", "identifier", "=", "number", ",", "identifier">>,
            {"identifier", ",", "in", "+", "eof"}),
      Input(<<"var", "identifier">>, {"identifier", "=", ",", "in", "number", "eof"}),
      Input(<<"@", "identifier">>, {"identifier", "@", "*", "(", ")"}) }

MCPrecedences == {0, 1, 25, 101}
====
