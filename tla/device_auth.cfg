SPECIFICATION FairSpec
CONSTANTS
    Sessions = {s1}
    Handlers = {h1, h2}
    Worker = Worker
    Nobody = Nobody
    ListLimit = 1
    MaxFaults = 2
INVARIANTS
    SucceededIffImported
PROPERTIES
    OutcomeFinal
    SessionEnds
