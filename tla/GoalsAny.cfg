SPECIFICATION FairSpec
CONSTANTS
    Goals = {g1, g2}
    None = None
    AcceptPulses = {0, 1}
    MaxPulse = 1
    MaxCrashes = 1
INVARIANTS RegistryIsReplay NeverBehindTheLog SelfVerdictsOfGoals
PROPERTIES OfferEnds
CHECK_DEADLOCK FALSE
