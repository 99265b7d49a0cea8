SPECIFICATION Spec
SYMMETRY Symmetry
CONSTANTS
    w1 = w1  w2 = w2
    d1 = d1  d2 = d2
    None = None
    Worker = {w1, w2}
    Dir = {d1, d2}
    Faulty = TRUE
    MaxBackups = 2
INVARIANTS
    TypeOK
    CompletedIsWhole
    ArchivesHaveRows
    InProgressIsUnderWay
    UnlinkedRowsGo
