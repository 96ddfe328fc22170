SPECIFICATION FairSpec
CONSTANTS
    source = source
    header = header
    Files = {source}
    Projects = {p1}
    FileLists <- AloneFileLists
    Includes <- AloneIncludes
    Generated = {source}
    Missable = {}
    MaxIndexing = 1
    MaxVersion = 3
    MaxSupports = 1
    MaxPosted = 1
PROPERTIES
    OwnInOrder
    EditArrives
