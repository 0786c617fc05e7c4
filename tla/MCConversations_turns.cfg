SPECIFICATION Spec
CONSTANTS
  Clients = {c1, c2}
  MaxTurns = 2
  MaxQuestion = 1
  MaxSize = 2
  MaxHistory = 2
  Budget = 2
  PageSize = 2
  QuotaEnabled = TRUE
INVARIANT TypeOK
INVARIANT TurnsAreWhole
INVARIANT PromptHoldsQuestion
INVARIANT PagesAreAPrefix
PROPERTY ImplementsLog
