\* Calls one after the other, killed anywhere: a risky collection that may
\* give an annual grant, and a second one in its scope.  Runs that fail are
\* lost (Recover) or failed by the operator.
SPECIFICATION Spec
CONSTANTS
    Tasks = {t1, t2}
    Runs = {r1, r2, r3}
    NoTask = NoTask
    NoRun = NoRun
    Risky = {t1}
    Scoped = {t1, t2}
    Collects = {t1}
    Instant = {t2}
    Operated = {t1}
    Requests = {1}
    Kinds = {"create", "approve", "approve_for_a_year", "reject", "cancel", "force-fail", "retry", "sync"}
    Outcomes = {"completed"}
    MaxCrashes = 1
SYMMETRY RunSymmetry
INVARIANTS TypeOK ConsentBeforeWork StrandedOnlyByKill  FollowedUpOnce
PROPERTIES NeverGoesBack
