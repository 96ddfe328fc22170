SPECIFICATION Spec
SYMMETRY MCSymmetry
CONSTANTS
    source = source
    header = header
    Files = {source, header}
    Projects = {p1, p2}
    FileLists <- MCFileLists
    Includes <- MCIncludes
    Generated = {header}
    Missable = {source, header}
    MaxIndexing = 2
    MaxVersion = 2
    MaxSupports = 0
    MaxPosted = 3
INVARIANT
    FilterFollows
PROPERTY
    CollectsUnused
