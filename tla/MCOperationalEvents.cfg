SPECIFICATION FairSpec
CONSTANTS
  none = none  g1 = g1  g2 = g2  g9 = g9  w1 = w1  w2 = w2
  Workers = {w1, w2}
  Events <- SiblingEvents
  NoGen = none
  MaxAttempts = 2
  Limit = 2
  MaxCrashes = 1
INVARIANT EventsAreOrdered
 
