\* The registered service users and a new one.
SPECIFICATION Spec
CONSTANTS
  NewServices <- MCNewServices
  Rosters <- MCRosters
  MaxTokens = 2
INVARIANTS
  TypeOK
  AppointmentsHonoured
  
  TurnsInTheirThread
