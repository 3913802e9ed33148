\* Up to two rules of every kind of pattern, rewritten by the caller while a Verify runs.
CONSTANTS
    RuleLists <- MCRuleLists
    Asked <- MCAsked
    Callers = {c1}
    None = None
SPECIFICATION StaticSpec
INVARIANTS
    DecidesByGivenRules
