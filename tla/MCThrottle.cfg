\* Windows of three and four seconds over eight; a limit of two failures.
CONSTANTS
  Limit = 2
  Window = 3
  Cooldown = 4
  AlertEvents = {noToken}
  MaxTime = 8
  MaxFailures = 5
  Never = Never
  NoAlert = NoAlert
SPECIFICATION Spec
INVARIANTS
  TypeOK
  LimiterIsSlidingWindow
  SuppressedWasReached
PROPERTIES
  AnsweredAlertsApart
