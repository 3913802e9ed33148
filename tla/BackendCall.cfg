\* One call of each endpoint, every answer and every way to fail.
CONSTANTS
    Absent = Absent
    None = None
    Endpoints = {"o3co", "opa", "cedar"}
    Bodies <- MCBodies
    Statuses = {200, 204, 302, 401, 403, 503}
    Bounds = {1, 3}
    MaxInt = 3
    NotObject = NotObject
    Allow = Allow
    Pending = Pending
SPECIFICATION FairSpec
INVARIANTS
    TypeOK
    OnlyWholeAllows
    DenialIsAnswered
    EndingIsTheCallers
    DenialStands
PROPERTIES
    CallReturns
