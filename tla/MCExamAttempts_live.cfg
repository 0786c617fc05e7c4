SPECIFICATION FairSpec
CONSTANTS
  q1 = q1
  q2 = q2
  o1 = o1
  o2 = o2
  t1 = t1
  t2 = t2
  None = None
  Users = {u1}
  Clients = {c1, c2}
  Attempts = {a1}
  Questions = {q2}
  Options = {}
  Texts = {t1, t2}
  QuestionOf <- MCQuestionOf
  ExpectedAnswer <- MCExpectedAnswer
  CorrectOptions = {}
  AttemptLimit = 1
  QuotaEnabled = TRUE
  QuotaLimit = 1
  MaxEdits = 0
  MaxFaults = 1
PROPERTY RequestsAnswered
INVARIANT NoUnreservedVerification
PROPERTY CompletedIsFrozen
