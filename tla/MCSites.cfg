SPECIFICATION Spec
CONSTANTS
    None = None
    Loader = "__loader__"
    Names = {"alpha", "beta", "c", "d.e", "fail"}
    Short = {"c"}
    Dotted = {"d.e"}
    Broken = {"fail"}
    MaxRequests = 4
INVARIANTS AnswersInOwnContext SitesAreTheirOwn
CHECK_DEADLOCK FALSE
