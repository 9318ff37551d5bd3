SPECIFICATION Spec
CONSTANTS
    Threads = {t1, t2}
    Cols = 2
    Rows = 2
    TabStop = 2
    Texts <- MCTexts
    BufSize = 3
    KeyText <- MCKeyText
    Quiet = {t2}
    MaxNest = 1
    NULL = NULL
INVARIANTS
    OnScreen
    OwnText
