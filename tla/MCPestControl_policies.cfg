CONSTANTS
  A = A
  B = B
  rat = rat
  dog = dog
  Client = {c1, c2}
  SiteId = {A}
  Species = {rat, dog}
  PolicyId = {1, 2, 3}
  Count = {0, 1, 2}
  Target <- OneSite
  Answering = {A}
  NoTarget = NoTarget
  Nobody = Nobody
  NoPolicy = NoPolicy
  NoVisit = NoVisit
  Conflict = Conflict
SPECIFICATION Spec
SYMMETRY Symmetry
INVARIANTS OnePolicyPerSpecies PoliciesAgree LastVisitPrevails
CHECK_DEADLOCK FALSE
