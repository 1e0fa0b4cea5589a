SPECIFICATION SweepSpec
CONSTANTS
    Lines = 4
    Zone = 1
    Permissible = 1
    CounterMod = 4
    AngularStep = 1
    Azimuths = {1, 4}
    Decrement = 20
    ManualGains = {1}
    Revolutions = 3
INVARIANTS
    TypeOK
    LogicServesNextLine
    GainMatchesReference
