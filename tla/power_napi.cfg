CONSTANTS
  NapiModes = {TRUE}
  Rates = {1}
  Unvoters = {u1, u2}
  MaxPackets = 2
  High = 2
  Low = 1
  HighCtl = 3
  MaxFlight = 3
  MaxGen = 2
  Focuses = {"packets"}
SPECIFICATION MCSpec
PROPERTY AllPacketsDelivered
