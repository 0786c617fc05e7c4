SPECIFICATION Spec
CONSTANTS
  chat = chat
  exam = exam
  u1 = u1
  c1 = c1
  c2 = c2
  c3 = c3
  None = None
  Users = {u1}
  Operations = {chat}
  Callers = {c1, c2}
  HourLimit <- MCHourLimit
  DayLimit <- MCDayLimit
  Hour = 2
  Day = 4
  Retention = 5
  MaxUnits = 2
  MaxWait = 1
  MaxClock = 8
  MaxFaults = 1
SYMMETRY Symmetry
INVARIANT HourlyBound
INVARIANT DailyBound
PROPERTY RefusalIsJustified
