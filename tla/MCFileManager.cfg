SPECIFICATION Spec
CONSTANTS
    d1 = d1
    d2 = d2
    n1 = n1
    n2 = n2
    Documents = {d1, d2}
    Names = {n1, n2}
    Untitled = Untitled
    None = None
    MaxVersion = 3
    LastModified <- MCLastModified
INVARIANTS
    Noticed
    WatchesOfDocuments
    ChangesLookedAt

    
SYMMETRY Symmetry
