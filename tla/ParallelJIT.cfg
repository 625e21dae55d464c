SPECIFICATION Spec
CONSTANTS
  Workers = {add1, fib1, fib2}
  Main = main
INVARIANTS NoEarlyPass BlockAssertion
PROPERTIES ImplementsGate Terminates
