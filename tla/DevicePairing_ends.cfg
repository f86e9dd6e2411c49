SPECIFICATION PairingSpec
CONSTANTS
    Guests = {g1}
    Codes = {c1}
    MaxAsks = 1
PROPERTY PairingEnds

\* A pairing that has ended, one way or the other, stops.
CHECK_DEADLOCK FALSE
