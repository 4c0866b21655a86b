\* Two workers poll at the same time.
SPECIFICATION RacesSpec
CONSTANTS
    Items = {r1}
    Workers = {w1, w2}
    NoWorker = NoWorker
    Requests = {1, 2}
    RequestKinds = {"claim"}
    MaxCrashes = 0
PROPERTIES ActiveLeaseBlocks
