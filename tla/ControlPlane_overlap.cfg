\* Two calls overlap on one task without an approval.
SPECIFICATION Spec
CONSTANTS
    Tasks = {t1}
    Runs = {r1, r2}
    NoTask = NoTask
    NoRun = NoRun
    Risky = {}
    Scoped = {}
    Collects = {}
    Instant = {}
    Operated = {t1}
    Requests = {1, 2}
    Kinds = {"create", "retry", "sync"}
    Outcomes = {"failed"}
    MaxCrashes = 0
PROPERTIES NeverGoesBack
