CONSTANTS
  TestRanks = {10, 11, 12, 13, 14, 15, 16, 17}
  MaxCards = 20
  NoValue = NoValue
SPECIFICATION Spec
INVARIANTS AnalyzeMatchesRules PlaysSurviveCoding
CHECK_DEADLOCK FALSE
