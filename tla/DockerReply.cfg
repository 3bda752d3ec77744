SPECIFICATION ReplySpec
CONSTANTS
    Calls = {"get", "follow", "history", "pull", "build"}
    MaxChunks = 3
    MaxReads = 3
PROPERTIES
    SecondVerdictIsDeferred
    AnswerArrives
CHECK_DEADLOCK FALSE
