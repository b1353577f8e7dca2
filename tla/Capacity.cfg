\* Two workers, three conditions and two registrations.
SPECIFICATION Spec
CONSTANTS
    NumWorkers = 2
    Conditions <- MCConditions
    Registrations <- MCRegistrations
    Preferences = {0, 1}
    MaxEvents = 1
INVARIANTS
    TypeOK
    LimitIsCurrent
PROPERTIES
    ChosenHadCapacity
    WaitsOnlyWhenFull
