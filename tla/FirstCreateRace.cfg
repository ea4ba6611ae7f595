\* Two requests create the first record of cc://owner/home at once.
SPECIFICATION Spec
CONSTANTS
    NoTx = NoTx  NoDoc = NoDoc  Root = Root
    post1 = post1  post2 = post2  post3 = post3  p1 = p1  p2 = p2  p3 = p3
    Req = {p1, p2}
    UserDoc = {post1, post2, post3}
    AssocDoc = {}
    Uri <- MCUri
    Parent <- MCParent
    Home <- MCHome
    MemberOf <- MCMemberOf
    Item <- MCNothing
    Target <- MCNothing
    Slot <- MCNothing
    Menu <- OneEach
    Planted = {}
    Stored = {}
    Faults = {}
INVARIANTS
    SupersededIsRetired
