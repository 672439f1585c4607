SPECIFICATION Spec
CONSTANTS
  Nodes <- MCNodes
  Apps <- MCApps
  Interval = 1
  Timeout = 2
  Tolerance = 1
  MaxAge = 1
  MaxTime = 3
  MaxChanges <- MCMaxChanges
INVARIANTS
    SucceededRestsOnItsPass
    OutcomeIsNewest
    DeferralWasContinuous
PROPERTIES
    EveryObservationEnds
