SPECIFICATION Spec
CONSTANTS
    Apps <- AllApps
    Field <- Fields
    Inputs <- InputValues
    Messages <- Requests
    MaxVersion = 2
    MaxEdits = 3
    MaxFaults = 1
    Torn = Torn
    None = None
INVARIANTS
    Durable
    RebootIsFlagged
    DraftIsPending
