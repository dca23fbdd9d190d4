SPECIFICATION FairSpec
CONSTANTS
  Click = {c1, c2}
  MaxClicks = 2
  MaxRetries = 1
  BatchSize = 1
  MaxFaults = 2
INVARIANTS TypeOK CountMatchesRows ReservationsBounded
PROPERTIES ImplementsClickQueue ClicksAreStored ReservationsDrain
