SPECIFICATION Spec
CONSTANTS MaxBoots = 3
INVARIANT HandshakeSettlesVote
CHECK_DEADLOCK FALSE
