\* Lists of up to three options of each endpoint in every order, and every credential of up
\* to four words.
CONSTANTS
    Kinds = {"o3co", "OPA", "Cedar"}
    OptionLists <- MCOptionLists
    RPCs <- MCRPCs
    Generated <- MCGenerated
    WellFormedIDs <- MCWellFormedIDs
    Whitespace <- MCWhitespace
    Control <- MCControl
    Escape <- MCEscape
    Invalid <- MCInvalid
    Replacement = "U+FFFD"
    Principal <- MCWords
    WellFormedValues <- MCWellFormedValues
    TokenNames <- MCTokenNames
SPECIFICATION Spec
INVARIANTS
    SubjectsOwnCredential
    StaticHeadersArrive
    RequestIDJoins
    NamesOneEntity
