SPECIFICATION FairSpec
CONSTANTS
    Agents = {a1, a2}
    NoAgent = NoAgent
    GoalAgents = {a1}
    Rooms = {lobby, side}
    Lobby = lobby
    Nowhere = Nowhere
    Window = 2
    TextRank <- NumeralRank
    MaxIds = 4
    MaxClock = 1
    Radix = 2
INVARIANTS NothingSkipped
PROPERTIES ProcessedOnce Heard
CHECK_DEADLOCK FALSE
