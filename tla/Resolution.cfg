\* Every template of up to six characters, for values that spell a placeholder, and lists of
\* mappings, right and wrong, for requests with and without their messages.
CONSTANTS
    Policies <- MCPolicies
    Requests <- MCRequests
    NoRequest = NoRequest
    NoAction = NoAction
    Segment <- MCSegment
    Schema <- MCSchema
    Root = "Req"
    Messages <- MCMessages
    Unset = Unset
    Printed <- MCPrinted
SPECIFICATION Spec
INVARIANTS
    FilledOnce
    KeepsStructure
    NamesOneResource
    DenialIsOfTheRequest
    FirstTroubleDecides
