SPECIFICATION Spec
CONSTANTS
    BodyBytes = {97, 13, 10}
    BodyBound = 2
    LinesBound = 6
    TextAlphabets = {{97, 13, 10, 27, 91}, {97, 27, 93, 7, 92}}
    TextBound = 5
    MaxLineBytes = 3
    MaxFrameBytes = 5
INVARIANTS
    FramingIsInvisible
CHECK_DEADLOCK FALSE
