\* A process that is terminated stays so.
CHECK_DEADLOCK FALSE
CONSTANTS
    Width = 3
    StringLength = 3
    NoValue = NoValue
    Thrown = Thrown
    Characters <- MCCharacters
    NumProcesses = 1
    MaxLines = 3
    Lines <- MCLines
    Messages <- MCMessages
    NoMessage = NoMessage
SPECIFICATION Spec
INVARIANTS BoundsEncloseMatches
