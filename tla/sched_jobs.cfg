SPECIFICATION FairSpec
CONSTANTS
  j1 = j1
  j2 = j2
  often = often
  rarely = rarely
  Jobs = {j1, j2}
  Members = {m}
  TypesOf <- JobTypes
  Crons = {often, rarely}
  Match <- CronMatch
  Horizon = 2
  BackAt = 2
  Repeated = 2
  LastMinute = 4
  MaxFaults = 1
  NoRow = NoRow
INVARIANT TypeOK
INVARIANT OccurrenceOnce
INVARIANT ActiveRowsFollowTheirCron
PROPERTY DueJobsMoveOn
