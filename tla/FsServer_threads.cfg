CONSTANTS
    FirstFd = 1
    FdLimit = 3
    MAX_CLIENTS = 3
    NoFd = NoFd
SPECIFICATION Spec
INVARIANTS TypeOK MutexConserved OneAnswerEach
PROPERTIES MutexComesBack WorkersEnd AskedIsAnswered
