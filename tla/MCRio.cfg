SPECIFICATION Spec
CONSTANTS
    MAXLINE = 4
    RIO_BUFSIZE = 3
    Room = 5
    Orders = 4
    Addresses <- MCAddresses
    Serves <- MCServes
INVARIANTS
    TypeOK
    StreamKept
    SetUpSound
PROPERTY
    AnswersArrive
CHECK_DEADLOCK FALSE
