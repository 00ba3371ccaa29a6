SPECIFICATION FairSpec
CONSTANTS
  MaxEvents = 2
  MaxNest = 1
  MaxCallbacks = 1
INVARIANTS NoReentry NoSleepingEvents
PROPERTY EventsHandled
