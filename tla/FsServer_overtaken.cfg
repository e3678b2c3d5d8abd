CONSTANTS
    FirstFd = 1
    FdLimit = 3
    MAX_CLIENTS = 3
    NoFd = NoFd
SPECIFICATION Spec
INVARIANT OneWorkerPerSocket
