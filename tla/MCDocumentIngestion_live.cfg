SPECIFICATION FairSpec
CONSTANTS
  Clients = {c1, c2}
  Docs = {d1, d2}
  Contents = {x}
  None = None
  MaxFaults = 1
PROPERTY RequestsAnswered
PROPERTY ProcessingEnds
INVARIANT TypeOK
INVARIANT ReadyIsWhole
INVARIANT AcceptedStaysReady
INVARIANT DeletedIsGone
INVARIANT NothingLeftBehind
PROPERTY AcceptedIsKept
