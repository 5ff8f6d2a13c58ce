-------------------------------- MODULE UART --------------------------------
(***************************************************************************)
(* The way of a received character (driver/uart.c): the interrupt of the   *)
(* hardware FIFO masks itself and posts an event; a task moves the FIFO to *)
(* a ring buffer; readers take from the ring and unmask the interrupt as   *)
(* soon as a whole FIFO fits again. The interrupt may come between any two *)
(* calls; task and readers do not interrupt each other.                    *)
(***************************************************************************)
EXTENDS Naturals, Sequences

CONSTANTS
    Characters,
    UART_FIFO_LEN,          \* 128
    UART_RX_BUFFER_SIZE,    \* 256
    uart_recvTaskQueueLen   \* 10

ASSUME UARTConstants ==
    /\ UART_FIFO_LEN \in Nat \ {0}
    /\ UART_RX_BUFFER_SIZE \in Nat /\ UART_RX_BUFFER_SIZE > UART_FIFO_LEN
    /\ uart_recvTaskQueueLen \in Nat \ {0}

VARIABLES
    fifo,                   \* in the hardware
    rx_intr,                \* the receive interrupts are enabled
    events,                 \* posted to uart_recvTask
    pUartBuff, pInPos, pOutPos, Space,
    taken                   \* what the last rx_buff_deq copied

rxBuffer == <<pUartBuff, pInPos, pOutPos, Space>>
uartVars == <<fifo, rx_intr, events, rxBuffer, taken>>

Positions == 0 .. UART_RX_BUFFER_SIZE - 1

UARTInit ==
    /\ fifo = <<>> /\ rx_intr = TRUE /\ events = 0
    /\ pUartBuff \in {[i \in Positions |-> c] : c \in Characters}
    /\ pInPos = 0 /\ pOutPos = 0 /\ Space = UART_RX_BUFFER_SIZE
    /\ taken = <<>>

----------------------------------------------------------------------------
(* The hardware; a character that does not fit is lost.                    *)
Receive(c) ==
    /\ Len(fifo) < UART_FIFO_LEN
    /\ fifo' = Append(fifo, c)
    /\ UNCHANGED <<rx_intr, events, rxBuffer, taken>>

(* FIFO threshold or timeout. An event that does not fit is not posted.    *)
uart0_rx_intr_handler ==
    /\ rx_intr /\ fifo # <<>>
    /\ rx_intr' = FALSE
    /\ events' = IF events < uart_recvTaskQueueLen THEN events + 1
                 ELSE events
    /\ UNCHANGED <<fifo, rxBuffer, taken>>

(* uart_rx_intr_enable, for which every caller looks at the space.         *)
EnabledBy(space) == rx_intr \/ space >= UART_FIFO_LEN

(* Fault: the ring may be filled to the last character.                    *)
FitsExactly == Len(fifo) <= Space

Fits == Len(fifo) < Space

(* Fault: the position is advanced before the character is stored.         *)
FilledAhead ==
    [i \in Positions |->
        LET k == (i - pInPos + UART_RX_BUFFER_SIZE) % UART_RX_BUFFER_SIZE
        IN IF k \in 1 .. Len(fifo) THEN fifo[k] ELSE pUartBuff[i]]

Filled ==
    [i \in Positions |->
        LET k == (i - pInPos + UART_RX_BUFFER_SIZE) % UART_RX_BUFFER_SIZE
        IN IF k < Len(fifo) THEN fifo[k + 1] ELSE pUartBuff[i]]

Uart_rx_buff_enq ==
    \/ ~Fits /\ UNCHANGED <<fifo, rx_intr, rxBuffer>>
    \/ /\ Fits
       /\ pUartBuff' = Filled
       /\ pInPos' = (pInPos + Len(fifo)) % UART_RX_BUFFER_SIZE
       /\ Space' = Space - Len(fifo)
       /\ fifo' = <<>>
       /\ rx_intr' = EnabledBy(Space')
       /\ UNCHANGED pOutPos

uart_recvTask ==
    /\ events > 0
    /\ events' = events - 1
    /\ Uart_rx_buff_enq
    /\ UNCHANGED taken

(* The copy wraps only if the data does.                                   *)
OutPos(k) ==
    IF pOutPos <= pInPos THEN pOutPos + k
    ELSE (pOutPos + k) % UART_RX_BUFFER_SIZE

Stored == UART_RX_BUFFER_SIZE - Space

rx_buff_deq(data_len) ==
    LET len == IF data_len > Stored THEN Stored ELSE data_len
    IN  /\ taken' = [k \in 1 .. len |-> pUartBuff[OutPos(k - 1)]]
        /\ pOutPos' = OutPos(len)
        /\ Space' = Space + len
        /\ rx_intr' = EnabledBy(Space')
        /\ UNCHANGED <<fifo, events, pUartBuff, pInPos>>

----------------------------------------------------------------------------
(* The ring and what is left in the hardware, in the order of arrival.     *)
Waiting ==
    [k \in 1 .. Stored |->
        pUartBuff[(pOutPos + k - 1) % UART_RX_BUFFER_SIZE]] \o fifo

UARTTypeOK ==
    /\ fifo \in Seq(Characters) /\ Len(fifo) <= UART_FIFO_LEN
    /\ rx_intr \in BOOLEAN
    /\ events \in 0 .. uart_recvTaskQueueLen
    /\ pUartBuff \in [Positions -> Characters]
    /\ pInPos \in Positions /\ pOutPos \in Positions
    /\ Space \in 0 .. UART_RX_BUFFER_SIZE
    /\ taken \in Seq(Characters)

(* The count of free places agrees with the two positions, and the ring is *)
(* never filled to the last place, where equal positions would look empty  *)
(* to rx_buff_deq (uart.c 476, 513).                                       *)
RingAccounts ==
    /\ Space > 0
    /\ pInPos = (pOutPos + Stored) % UART_RX_BUFFER_SIZE

(* Readers take the received characters in order (ByteStream).             *)
Reader == INSTANCE ByteStream WITH stream <- Waiting
ImplementsByteStream == Reader!Spec
=============================================================================
