\* Two concurrent requests, each once, while an entity registers; a server may tell an id for a domain.
SPECIFICATION FairSpec
CONSTANTS
    Domain = {"here", "there"}
    Ccid = {"con1", "con2"}
    Csid = {"ccs1"}
    Here = "here"
    Default = "there"
    Told = {"here", "ccs1"}
    Posted <- MCDocuments
    Request = {1, 2}
    Asked <- MCAsked
INVARIANTS
    TypeOK
    NoCallWithinItself
    RequestGoesWhereTold
PROPERTIES
    EveryCallReturns
    RegistrationLasts
