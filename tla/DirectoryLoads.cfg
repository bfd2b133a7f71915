\* Two users, a Unit each may own, and two Sessions beside the three there are.
SPECIFICATION Spec
CONSTANTS
  Users = {"bob", "root"}
  Sessions = {"a", "account-bob", "account-root", "b", "root"}
  HomeOf <- MCHomeOf
  UnitIds = {"u"}
  MaxEvents = 6
INVARIANTS
  TypeOK
  
  NoCycles
  SessionsAtHome
PROPERTY LinksStay
CHECK_DEADLOCK FALSE
