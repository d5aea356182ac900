CONSTANTS
  AllLength = 4
  QuotingLength = 5
  OperatorLength = 6
  Scripts <- MCScripts
  LINE_CAP = 7
  MAX_ARGS = 3
  Builtins <- MCBuiltins
SPECIFICATION Spec
INVARIANTS
  JoinsAsSh
  ServicesAsSh
  SplitsIntoWords
  BothModesAgree
