\* One request replaces or annotates the record at list/post, one deletes, reads
\* or annotates it, one deletes it or its parent, annotates it or is refused.
SPECIFICATION FairSpec
CONSTANTS
    NoTx = NoTx  NoDoc = NoDoc  Root = Root
    draft = draft  edit = edit  top = top  like = like  fav = fav  p1 = p1  p2 = p2  p3 = p3
    Req = {p1, p2, p3}
    UserDoc = {draft, edit, top}
    AssocDoc = {like, fav}
    Uri <- MCUri
    Parent <- MCParent
    Home <- MCHome
    MemberOf <- MCMemberOf
    Item <- MCItem
    Target <- MCTarget
    Slot <- MCSlot
    Menu <- Contended
    Planted = {"list", "post"}
    Stored = {draft, top}
    Faults = {"cancel", "crash"}
INVARIANTS
    KeysResolve
    AssociationsHang
PROPERTIES
    ImplementsDocumentStore
    AnsweredTruly
    AssociationsOutlivedByTarget
    Answered
