CONSTANTS
    Sessions = {s1, s2}
    Revisions = {r1, r2}
    Base <- BaseRows
    Edits <- EditRows
    Schemas = {"1", "2"}
    MaxWrites = 1
SYMMETRY Symmetry
SPECIFICATION Spec
INVARIANTS
    RevisionInv
    AnchorsStayValid
    OnePublished
    LoadsAreWhole
PROPERTY
    PublishedIsFrozen
