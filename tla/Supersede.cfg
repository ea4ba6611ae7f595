\* Three requests bring any of three documents to cc://owner/home, the same one
\* again included; its key exists.
SPECIFICATION Spec
CONSTANTS
    NoTx = NoTx  NoDoc = NoDoc  Root = Root
    post1 = post1  post2 = post2  post3 = post3  p1 = p1  p2 = p2  p3 = p3
    Req = {p1, p2, p3}
    UserDoc = {post1, post2, post3}
    AssocDoc = {}
    Uri <- MCUri
    Parent <- MCParent
    Home <- MCHome
    MemberOf <- MCMemberOf
    Item <- MCNothing
    Target <- MCNothing
    Slot <- MCNothing
    Menu <- AnyOf
    Planted = {"home"}
    Stored = {}
    Faults = {"publish", "commit", "cancel", "crash"}
INVARIANTS
    SupersededIsRetired
    AnnouncedUnlessFault
PROPERTIES
    AnsweredTruly
    ImplementsDocumentStore
