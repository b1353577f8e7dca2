\* One request at a time, two types, and everything that goes wrong.
SPECIFICATION Spec
CONSTANTS
    Types = {image, video}
    Clients = {c1}
    Values = {plain, wide}
    Default = plain
    None = None
    NoYaml = NoYaml
    NoSettings = NoSettings
    Handlers = {h1}
    Limit = 2
    Window = 1
    NumWorkers = 2
    IntakeEvents = {"storage", "disk", "crash"}
SYMMETRY Symmetry
INVARIANTS
    TypeOK
    WindowLimit
    AnsweredHolds
    SettingsOfJob
    ImageIsStored
    NotFoundIsTrue

    
