SPECIFICATION Spec
CONSTANTS
    s1 = s1
    s2 = s2
    s3 = s3
    String <- MCString
    Buf <- MCBuf
    Alphabet <- MCAlphabet
    Sources <- MCSources
    Nil = 0
    MaxText = 2
SYMMETRY Symmetric
INVARIANTS
    BuffersExact
PROPERTIES
    ImplementsValues
