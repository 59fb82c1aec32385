SPECIFICATION FairSpec
CONSTANTS
  Events = {e1, e2}
  Relays = {r1, r2}
  Limit = 2
  Window = 1
  MaxTime = 2
  MaxFaults = 2
PROPERTIES
  NeverSentAgain
  ImplementsLog
  EventsArrive
