SPECIFICATION MCSpec
CONSTANTS
  b1 = b1
  b2 = b2
  o1 = o1
  o2 = o2
  BoxIds = {b1, b2}
  Orgs = {o1, o2}
  Staff = {"s1"}
  ModelIds = {"factory", "own"}
  Purposes = {"persona", "narrator"}
  Generative = {"persona", "narrator"}
  Values = {0, 1}
  FactoryModels <- MCFactoryModels
  FactoryPicks <- MCFactoryPicks
  Admins = {"a1", "a2"}
  MaxEdits = 2
  None = None
INVARIANTS
  RosterResolves
CHECK_DEADLOCK FALSE
