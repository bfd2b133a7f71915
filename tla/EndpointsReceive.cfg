\* Two Sessions and two receivers; three messages within two seconds, one run.
SPECIFICATION FairSpec
CONSTANTS
  Sessions <- MCSessions
  Address <- MCAddress
  Receivers = {"console", "node"}
  Consoles = {"console"}
  Remote = "node"
  MaxMessages = 3
  MaxRuns = 1
  MaxTime = 1
INVARIANT TypeOK
INVARIANT PassedOverOnlyWithinASecond
INVARIANT NotOfferedAgain
PROPERTY MessagesArrive
