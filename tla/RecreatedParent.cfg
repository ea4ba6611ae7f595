\* The record at list is deleted while list/post stays; replacing list/post creates
\* the key at list again.
SPECIFICATION Spec
CONSTANTS
    NoTx = NoTx  NoDoc = NoDoc  Root = Root
    draft = draft  edit = edit  top = top  like = like  fav = fav  p1 = p1  p2 = p2  p3 = p3
    Req = {p1, p2}
    UserDoc = {draft, edit, top}
    AssocDoc = {}
    Uri <- MCUri
    Parent <- MCParent
    Home <- MCHome
    MemberOf <- MCMemberOf
    Item <- MCItem
    Target <- MCTarget
    Slot <- MCSlot
    Menu <- Recreated
    Planted = {"list", "post"}
    Stored = {draft, top}
    Faults = {}
PROPERTIES
    HangsOnParentFound
