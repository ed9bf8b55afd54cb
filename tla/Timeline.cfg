CONSTANTS
    Scripts <- MCScripts
    Pauses <- MCPauses
    Lengths <- MCLengths
    Transitions <- MCTransitions
    Tails = {1}
    Paddings <- MCPaddings
    MaxCharacters = 5
    TargetDwell = 4
    MaxWords = 3
    MergeSlack = 2
SPECIFICATION Spec
INVARIANTS
    NothingHeardIsLost
    OrderlyNarrationsCompile
    SpeechOverItsOwnFrame
    EveryInstantHasItsFrame
    ShowsWhatIsSaid
    CaptionsReadWell
CHECK_DEADLOCK FALSE
