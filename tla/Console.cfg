SPECIFICATION Spec
CONSTANTS
    newline = newline
    NULL = NULL
    Characters = {x, newline}
    UART_FIFO_LEN = 2
    UART_RX_BUFFER_SIZE = 4
    uart_recvTaskQueueLen = 1
    bufferSize = 3
    MAX_ACTION = 2
    MIN_BSSID = 2
INVARIANTS
    RingAccounts
PROPERTIES
    ImplementsByteStream
    ReceiverRecovers
