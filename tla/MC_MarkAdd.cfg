CONSTANTS
    Cpus = {c1, c2, c3}
    Inodes = {i1, i2}
    MaxMarks = 5
SYMMETRY MCSymmetry
SPECIFICATION Spec
INVARIANTS
    TypeOK
    MarkRefs
    
