\* The first record under lists/ asks for a collection under lists/. The system
\* stops here: the two transactions of the request wait for each other.
SPECIFICATION FairSpec
CONSTANTS
    NoTx = NoTx  NoDoc = NoDoc  Root = Root
    x = x  y = y  z = z  p1 = p1  p2 = p2
    Req = {p1}
    UserDoc = {z}
    AssocDoc = {}
    Uri <- MCUri
    Parent <- MCParent
    Home <- MCHome
    MemberOf <- MCMemberOf
    Item <- MCItem
    Target <- MCNone
    Slot <- MCNone
    Menu <- Beside
    Planted = {}
    Stored = {}
    Faults = {}
PROPERTIES
    Answered
CHECK_DEADLOCK FALSE
