\* One dial of every kind of host; up to three addresses share the time.
CONSTANTS
    Numbers = {1, 2, 3}
    Ranges <- MCRanges
    Metadata <- MCMetadata
    Hosts <- MCHosts
    Name = Name
    Malformed = Malformed
    Answers <- MCAnswers
    Callers = {0, 4, 9}
    Never = 9
    Timeouts = {0, 5}
    DefaultTimeout = 7
    MinAttempt = 2
SPECIFICATION FairSpec
INVARIANTS
    OnlyCheckedAddresses
    EachHasItsShare
    BoundedByItsContext
PROPERTIES
    DialReturns
