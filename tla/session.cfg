CONSTANTS
  Plans <- SmallPlans
  Guesses <- SomeGuesses
  Salts <- SomeSalts
  Cuts <- SomeCuts
SPECIFICATION Spec
INVARIANTS
  AnswerIsTheServers
  InStepWithoutTrouble
  LoginNamesRead
  UnPackInvertsPack
PROPERTIES
  EveryCommandAnswered
CHECK_DEADLOCK FALSE
