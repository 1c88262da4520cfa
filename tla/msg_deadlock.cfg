CONSTANTS
  Senders = {s1}
  Resenders = {z1}
  Readers = {r1}
  Macs = {m1}
  MaxMsgs = 2
  NONE = NONE
SPECIFICATION Spec
PROPERTY CallsReturn
CHECK_DEADLOCK FALSE
