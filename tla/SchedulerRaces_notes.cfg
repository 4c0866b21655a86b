\* A worker finishes its run while a notification writes its message id.
SPECIFICATION RacesSpec
CONSTANTS
    Items = {r1}
    Workers = {w1}
    NoWorker = NoWorker
    Requests = {1, 2}
    RequestKinds = {"claim", "start", "finish", "annotate"}
    MaxCrashes = 0
PROPERTIES OverStays
