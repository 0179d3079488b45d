CONSTANTS
  A = A
  B = B
  rat = rat
  dog = dog
  Client = {c1, c2}
  SiteId = {A, B}
  Species = {rat}
  PolicyId = {1, 2}
  Count = {0, 1}
  Target <- TwoSites
  Answering = {B}
  NoTarget = NoTarget
  Nobody = Nobody
  NoPolicy = NoPolicy
  NoVisit = NoVisit
  Conflict = Conflict
SPECIFICATION FairSpec
PROPERTY SitesIndependent
CHECK_DEADLOCK FALSE
