SPECIFICATION Spec
CONSTANTS
  pseudo = pseudo
  Number = {1, 2, 3}
  Odd = {pseudo}
  Latest = Latest  NoConstraint = NoConstraint  Invalid = Invalid  None = None
  Constraint <- MCConstraint
  Cooldown = {0, 1}
  Listings <- MCListings
  Day = {1, 2, 3}
  Today = 3
  MaxCooldownCandidates = 2
INVARIANTS CooldownIsKept GreatestIsFound CooldownErrorIsTrue AnswerIsAdmitted
CHECK_DEADLOCK FALSE
