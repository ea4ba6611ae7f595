\* Two records are distributed at once to collections whose keys exist.
SPECIFICATION FairSpec
CONSTANTS
    NoTx = NoTx  NoDoc = NoDoc  Root = Root
    x = x  y = y  z = z  p1 = p1  p2 = p2
    Req = {p1, p2}
    UserDoc = {x, y, z}
    AssocDoc = {}
    Uri <- MCUri
    Parent <- MCParent
    Home <- MCHome
    MemberOf <- MCMemberOf
    Item <- MCItem
    Target <- MCNone
    Slot <- MCNone
    Menu <- Together
    Planted = {"lists", "lists/one", "two"}
    Stored = {}
    Faults = {}
INVARIANTS
    Distributed
PROPERTIES
    Answered
