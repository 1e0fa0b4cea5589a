SPECIFICATION Spec
CONSTANTS
    Lines = 1200
    Zone = 5
    Permissible = 3
    CounterMod = 256
    AngularStep = 54
    Azimuths = {0, 64799, 64800, 65535}
    Decrement = 10
    ManualGains = {1}
INVARIANTS
    LineInTable
