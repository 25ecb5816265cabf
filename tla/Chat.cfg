CONSTANTS
    p = p
    g = g
    ann = ann
    bob = bob
    Users = {ann, bob}
    Private = {p}
    Pair <- TheirPair
    Groups = {g}
    MaxRooms = 1
    MaxKept = 1
    MaxMessages = 2
    MaxReplies = 2
    MaxRequests = 3
SPECIFICATION Spec
INVARIANT TypeOK
INVARIANT NoDuplicateRows
PROPERTY ReceiptsStand
 
CHECK_DEADLOCK FALSE
