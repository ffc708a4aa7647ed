CONSTANTS
  RunTasks = {run}
  Renewal = renewal
  Ids = {c1, c2, c3, c4, c5, c6}
  Tokens = {t1, t2}
  Absent = Absent
  Torn = Torn
  ListenPorts = {80, 443}
  ChallengePort = 80
  MaxFaults = 1
SPECIFICATION FairSpec
INVARIANTS ChallengeAnswered PairMatches
PROPERTIES TokensRemoved EventuallyServed
