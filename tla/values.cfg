SPECIFICATION Spec
CONSTANTS
    Pool <- MCPool
    Scratch <- MCScratch
    Buf <- MCBuf
    Alphabet <- MCAlphabet
    Num <- MCNum
    Scenarios <- MCScenarios
    Nil = 0
    Zero = 1
    One = 2
    Root = 3
    Lit = 4
    Err = 5
    ErrNumber = 6
    ErrText = 7
    Obj = {1}
    Name = {1}
    NaN = 99
    MaxStack = 3
    MaxLen = 2
    MaxText = 2
INVARIANTS
    TreeOK
    LocksCounted
    RingsExact
PROPERTIES
    OthersUntouched
    LockedDataKept
CHECK_DEADLOCK FALSE
