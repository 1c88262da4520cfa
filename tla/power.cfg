CONSTANTS
  NapiModes = {TRUE, FALSE}
  Rates = {1, 2}
  Unvoters = {u1, u2}
  MaxPackets = 2
  High = 2
  Low = 1
  HighCtl = 3
  MaxFlight = 3
  MaxGen = 2
  Focuses = {"packets", "rates", "timer", "wwan"}
SPECIFICATION MCSpec
INVARIANTS RequestedIsHeld IdleIsReleased ClocksRight GatingLosesNothing WwanQueueSound
PROPERTIES ImplementsLazyRelease TrafficGoesOn
