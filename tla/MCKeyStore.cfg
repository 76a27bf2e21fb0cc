SPECIFICATION Spec
CONSTANTS
  W = 4
  Reduction = 3
  KeyLen = 2
  CounterMax = 2
  Passphrases = {1, 2}
  Salts = {1}
  Ids = {a, b}
  Drawn <- MCDrawn
  Imported <- MCImported
  Plaintexts <- MCPlaintexts
  Order = 250
  MinLen = 1
  Params <- MCParams
  Draws = {1}
  Coefficient <- MCCoefficient
  Pages = {1}
  Indices = {4, 5}
  MaxCalls = 4
SYMMETRY MCSymmetry
INVARIANTS AnswersForLastStored SecretsContained RestoreFaithful
CHECK_DEADLOCK FALSE
