\* Every kind of input, three to a session, and the end of the stream in any
\* state.
CONSTANTS
    Inputs <- MCInputs
    MaxMessages = 3
    Absent = Absent
    Null = Null
    Garbled = Garbled
    NoObject = NoObject
SPECIFICATION FairSpec
INVARIANTS HeardAsSent AnsweredInOrder EndsForAReason
PROPERTY EndOfStreamEndsServer
