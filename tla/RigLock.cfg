SPECIFICATION Spec
CONSTANTS
    r1 = r1
    r2 = r2
    r3 = r3
    b1 = b1
    i1 = i1
    i2 = i2
    i3 = i3
    Nobody = Nobody
    NoFile = NoFile
    Empty = Empty
    Runners = {r1, r2, r3}
    Probers = {b1}
    Inodes = {i1, i2, i3}
    Mortals = {r1, r2}
    Unlucky = {r3, b1}
    Deletes = TRUE
SYMMETRY Symmetry
INVARIANT TypeOK
INVARIANT NoteIsHolderOrGone
INVARIANT HolderIsNamed
PROPERTY FilesImplementRigMutex
