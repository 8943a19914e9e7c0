SPECIFICATION FairSpec
CONSTANTS
  Workers = {w1, w2}
  MaxEvents = 2
  MaxDeaths = 1
  MaxOvertakes = 1
CHECK_DEADLOCK FALSE
INVARIANTS
  DeliveriesAreCounted
  DuplicatesFollowLostAnswers
PROPERTIES
  OutcomeIsFinal
  EveryEventEnds
