\* Four at the tables of 22.c and 10.c, where two can eat at the same time;
\* three at that of 10andrey.c.
SPECIFICATION MCSpec
CONSTANTS
  N = 4
  Few = 3
  Food = 5
\* In 10andrey.c a thread without a seat leaves main waiting.
CHECK_DEADLOCK FALSE
INVARIANTS
  MCTypeOK
  ForksAndPosts
  NoLostWakeup
PROPERTIES
  DinnerEnds
  AllImplementDinner
