SPECIFICATION Spec
CONSTANTS
  q1 = q1
  q2 = q2
  o1 = o1
  o2 = o2
  t1 = t1
  t2 = t2
  None = None
  Users = {u1}
  Clients = {c1, c2}
  Attempts = {a1, a2, a3}
  Questions = {q2}
  Options = {}
  Texts = {t1}
  QuestionOf <- MCQuestionOf
  ExpectedAnswer <- MCExpectedAnswer
  CorrectOptions = {}
  AttemptLimit = 2
  QuotaEnabled = FALSE
  QuotaLimit = 2
  MaxEdits = 0
  MaxFaults = 1
SYMMETRY Symmetry
INVARIANT OneActiveAttempt
INVARIANT AttemptNumbering
