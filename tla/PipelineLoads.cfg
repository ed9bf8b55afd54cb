CONSTANTS
    Kind <- MCKind
    Declaration <- MCDeclaration
SPECIFICATION FairSpec
INVARIANTS
    OrderIsTopological
    LoadsExactlyAcyclic
    AnswerIsBlastRadius
PROPERTIES
    LoopsEnd
CHECK_DEADLOCK FALSE
