SPECIFICATION DangerFairSpec
CONSTANTS
  Programs <- DangerPrograms
  CPUs = {c1, c2}
  Users = {u1}
INVARIANTS
  SleepsOnlyArmed
  SleeperIsWaitedFor
PROPERTIES
  DisarmingEndsSleeps
