SPECIFICATION Spec
CONSTANTS
    Names <- MCNames
    TextLiterals <- MCTextLiterals
    TextWords <- MCTextWords
    Bodies <- MCTexts
    Cases <- MCCases
    MaxSteps = 300
    Samples <- MCSamples
INVARIANTS
    
    StackFits
    DepthsAgree
    ScopesMatch
    ConversionsInvert
