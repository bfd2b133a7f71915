SPECIFICATION FairSpec
CONSTANTS
  many = many
  single = single
  Units = {many, single}
  Singletons = {single}
  Templates <- SomeTemplates
  Intervals = {0, 1}
  Enablings = {TRUE}
  Start = 1
  MaxTime = 2
  MaxSessions = 2
  MaxEvents = 2
INVARIANTS
  TypeOK
  
  SingletonsUnique
PROPERTIES
  ScheduleRenewed
  
