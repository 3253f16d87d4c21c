SPECIFICATION FairSpec
CONSTANTS
  Workers = {w1, w2}
  Nobody = nobody
  MaxPush = 3
INVARIANTS
  NeverAllAsleepWithWork
PROPERTIES
  WorkIsTaken
