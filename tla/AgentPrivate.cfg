SPECIFICATION Spec
CONSTANTS
    Agents = {a1, a2}
    NoAgent = NoAgent
    MaxPulses = 3
    MaxChannels = 2
    MaxMessages = 1
    MaxPrivate = 1
INVARIANT PrivateIsMarked
SYMMETRY Exchanges
CHECK_DEADLOCK FALSE
