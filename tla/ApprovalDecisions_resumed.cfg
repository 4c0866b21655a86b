\* One caller: a Hermes approval falls due while its decision is delivered.
SPECIFICATION FairDecisionSpec
CONSTANTS
    Approvals = {a1}
    Callers = {c1}
    a1 = a1  a2 = a2  a3 = a3
    NoApproval = NoApproval
    ActionOf <- OneOfEach
    MaxKills = 0
PROPERTIES DeliveredIsResumed
