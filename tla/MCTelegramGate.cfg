\* A wait of two seconds, two requests in flight, and one screen of the onboarding's tour.
CONSTANTS
  Calls = {1, 2}
  Wait = 2
  Last = 2
SPECIFICATION GateSpec
INVARIANTS
  GateTypeOK
  NeverEarly
PROPERTY
  WaitEnds
