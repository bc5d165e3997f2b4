SPECIFICATION FairSpec
CONSTANTS
    N = 7
    HASHMAP_MAX_LEN = 2
    WINDOW = 2
    WINDOW_MIN = 2
    WINDOW_MAX_SLOW = 3
    WINDOW_MAX_VERY_SLOW = 2
    WINDOW_MAX_FAST = 3
    WINDOW_FLEXIBILITY = 2
    FAST_RATE_THRESHOLD = 1
    VERY_SLOW_RATE_THRESHOLD = 1
    MAX_RETRIES = 2
    MAX_ADV_RETRIES = 2
    PROOF_RETRIES = 1
    Offers <- MCOffers
    Rates = {"moderate", "very slow"}
    InOrder = {TRUE, FALSE}
    Interruptions = 1
    MaxFaults = 1
INVARIANTS
    Sound
    NoSequencingError
PROPERTIES
    PromisesKept
    Concludes
    
CHECK_DEADLOCK FALSE
