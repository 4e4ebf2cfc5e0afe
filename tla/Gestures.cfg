SPECIFICATION MCSpec
CONSTANTS
    PadButtons = {b1, b2}
    MaxFingers = 3
    Places <- MCPlaces
    Readings <- MCReadings
    Sensitivities = {0, 610, 1000, 1220}
    MaxMoves = 5
INVARIANTS HostInStep HeldOnlyInGrasp GraspAsShown TouchedIsHeld
INVARIANTS HostFollowsFinger 
