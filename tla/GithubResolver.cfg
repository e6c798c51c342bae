SPECIFICATION Spec
CONSTANTS
  nightly = nightly
  Number = {1, 2, 3}
  Odd = {nightly}
  Latest = Latest  NoConstraint = NoConstraint  Invalid = Invalid  None = None
  Constraint <- MCConstraint
  Cooldown = {0, 1}
  PageSize = 2
  MaxReleases = 3
  MaxDay = 2
INVARIANTS CooldownIsKept AnswerIsAdmitted NewestIsFound CooldownIsToBlame
CHECK_DEADLOCK FALSE
