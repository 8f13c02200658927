\* A notification's method sent with an id.
CONSTANTS
    Inputs <- MCNotices
    MaxMessages = 3
    Absent = Absent
    Null = Null
    Garbled = Garbled
    NoObject = NoObject
SPECIFICATION Spec
INVARIANT RequestsAreAnswered
