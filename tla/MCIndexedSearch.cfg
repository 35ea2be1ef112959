\* A process that is terminated stays so.
CHECK_DEADLOCK FALSE
CONSTANTS
    Width = 3
    StringLength = 3
    NoValue = NoValue
    Thrown = Thrown
    Characters <- MCCharacters
    NumProcesses = 3
    MaxLines = 7
    Lines <- MCLines
    Messages <- MCMessages
    NoMessage = NoMessage
SPECIFICATION Spec
INVARIANTS EveryLineInOnePart LinesAreSplit SearchIsExact BoundsAgree 
PROPERTIES EverySearchEnds
