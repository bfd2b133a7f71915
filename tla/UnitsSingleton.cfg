SPECIFICATION FairSpec
CONSTANTS
  many = many
  single = single
  Units = {many, single}
  Singletons = {single}
  Templates <- SingletonTemplates
  Intervals = {1}
  Enablings = {}
  Start = 1
  MaxTime = 2
  MaxSessions = 1
  MaxEvents = 0
PROPERTIES
  DueUnitsStart
