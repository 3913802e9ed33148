\* Every spelling of a host, lists of up to three options in any order, changing answers.
CONSTANTS
    Numbers = {1, 2, 3, 4}
    Ranges <- MCRanges
    Metadata <- MCMetadata
    pdp = pdp
    localhost = localhost
    other = other
    Names = {pdp, localhost, other}
    Localhost = localhost
    Loopback <- MCLoopback
    Ports = {"", "80", "080", "81"}
    ValidPorts = {"80", "81"}
    OptionLists <- MCOptionLists
    URLs <- MCURLs
    NoHost = NoHost
    Lookups <- MCLookups
    Proxy = Proxy
    Elsewhere <- MCElsewhere
SPECIFICATION ReachSpec
INVARIANTS
    PlaintextIsPermitted
    ListedIsPrivate
