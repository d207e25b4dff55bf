CONSTANTS
    hello = hello
    inv = inv
    addr = addr
    refused = refused
    garbage = garbage
    Messages <- FewMessages
    kind <- FewKinds
    length <- FewLengths
    header = 2
    chunk = 3
    window = 4
    max_retries = 2
    MaxSent = 2
SPECIFICATION Spec
INVARIANTS
    TypeOK
    InputIntact
    OutputIntact
PROPERTIES
    RepliesLeave
    MessagesHandled
    QuitEnds
