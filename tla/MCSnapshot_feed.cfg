SPECIFICATION FairSpec
CONSTANTS
 Collections = 2
 Deltas = {d1}
 Slack = 1
 CacheSlack = 1
 Bootstrap = 2
 Skew = 1
 Longest = 1
 MaxWrites = 2
 WritesUntil = 2
 MaxRollups = 2
 MaxClock = 3
 MaxFaults = 1
INVARIANTS TypeOK CompleteThroughFreshness
PROPERTIES ServesAReplica AllServed
CHECK_DEADLOCK FALSE
