\* The same with keys of collections still missing, failed publications, cancelled
\* requests and crashes of the server.
SPECIFICATION Spec
CONSTANTS
    NoTx = NoTx  NoDoc = NoDoc  Root = Root
    x = x  y = y  z = z  p1 = p1  p2 = p2
    Req = {p1, p2}
    UserDoc = {x, y, z}
    AssocDoc = {}
    Uri <- MCUri
    Parent <- MCParent
    Home <- MCHome
    MemberOf <- MCMemberOf
    Item <- MCItem
    Target <- MCNone
    Slot <- MCNone
    Menu <- Together
    Planted = {"lists"}
    Stored = {}
    Faults = {"publish", "commit", "cancel", "crash"}
INVARIANTS
    TypeOK
    Attached
    DanglingOnlyAfterFault
    NoHiddenDeadlock
    KeysBelong
