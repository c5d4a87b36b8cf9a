SPECIFICATION Spec
CONSTANTS
    Agents = {a1, a2}
    NoAgent = NoAgent
    GoalAgents = {a1}
    Rooms = {lobby, side}
    Lobby = lobby
    Nowhere = Nowhere
    Window = 2
    TextRank <- NumeralRank
    MaxIds = 5
    MaxClock = 1
    Radix = 2
INVARIANT WindowHasCursor
CHECK_DEADLOCK FALSE
