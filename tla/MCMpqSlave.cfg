SPECIFICATION Spec
CONSTANTS
    war3 = war3
    patch = patch
    Archives <- MCArchives
    Contents <- MCContents
    Installed <- MCInstalled
    Urls <- MCUrls
    ReadSizes = {2}
    MaxSeek = 1
INVARIANTS
    OpenFileLives
    AnswersFromNamed
    TimesOfNamed
PROPERTIES
    RootListed
    ReadsFromPosition
SYMMETRY Symmetry
