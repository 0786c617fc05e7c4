SPECIFICATION ServicesSpec
CONSTANTS
  Identities = {i1, i2}
  Clients = {c1, c2}
  None = None
  address = address
  EmailOf <- MCEmailOf
  MaxPhotos = 2
  MaxFaults = 1
  Notebooks = {n1}
  Slots = {c1, c2}
  Keys = {i1, i2}
  Idle = Idle
  Activities <- MCActivities
  FlashcardRequests <- MCFlashcardRequests
  ExamRequests <- MCExamRequests
  Queries <- MCQueries
  Durations = {2}
  QuotaEnabled = TRUE
  ActivityItems = 1
  ActivitySeconds = 2
  MinSession = 1
  ReviewSeconds = 1
  Window = 0
  WindowLimit = 1
  DayLength = 2
  DayEvents = 2
  DaySeconds = 3
  DayCards = 1
  MaxTime = 2
  MaxWait = 1
  MaxGenerations = 1
  MaxAttempts = 2
  MaxEvents = 2
  MaxText = 6
SYMMETRY Symmetry
INVARIANT ServicesTypeOK
INVARIANT PhotoIsStored
INVARIANT ChunksCoverText
INVARIANT LimitsKept
INVARIANT EventsAreExact
INVARIANT StatisticsAddUp
PROPERTY DeactivationHolds
