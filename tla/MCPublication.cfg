SPECIFICATION MCSpec
CONSTANTS
  p1 = p1  p2 = p2  c1 = c1  c2 = c2  s1 = s1  k1 = k1
  Publishers = {p1, p2}
  Claims = {c1, c2}
  Sources = {s1}
  Changesets = {k1}
  Admin = Admin
  Asserts <- MCAsserts
  RevokeSets <- MCRevokeSets
  MaxRetries = 2
  MaxJobs = 3
  MaxObjects = 6
  MaxLag = 1
SYMMETRY Symmetry
INVARIANTS SinglePublished ReleaseChain LinearHistory LineageIsRecorded MaterialisedIsTrue
  SearchIsCurrent
PROPERTY LineageOnlyGrows
