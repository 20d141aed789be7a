SPECIFICATION Spec
CONSTANTS
  open = open  closed = closed  r = r  eu = eu  us = us
  one = one
  t = t  u = u  o = o
  Frameworks = {open, closed}
  RefOf <- SharedRef
  RegionOf <- TwoRegions
  OpenLicense = {open}
  Versions = {1, 2, 3}
  FrameworkOf <- ThreeVersions
  NameOf <- ThreeNames
  Tokens = {t, u}
  RegionsOf <- Scopes
  Blank = Blank
  Organizations = {o}
  PageLimit = 1
  MaxEvents = 3
  NoRegion = NoRegion
  NoVersion = 0
INVARIANTS
  NothingMissed
  FeedMatchesCatalog
  ListedIsServed
CHECK_DEADLOCK FALSE
