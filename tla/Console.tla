------------------------------ MODULE Console ------------------------------
(***************************************************************************)
(* The console on the serial line (uart_console.c): a timer calls the      *)
(* state machine every 100 ms, which asks for a network and a password     *)
(* while there is no connection.                                           *)
(*                                                                         *)
(* What a line says is left open: a choice, a network's number or an       *)
(* address may be any. Wifi changes state on its own.                      *)
(***************************************************************************)
EXTENDS Integers, UART

CONSTANTS
    newline,                \* '\n' or '\r'
    NULL,                   \* no line has been started
    bufferSize,             \* 70, of a line
    MAX_ACTION,             \* 8, characters read for a choice
    MIN_BSSID               \* 18, length of a line with a BSSID

ASSUME ConsoleConstants ==
    /\ newline \in Characters /\ NULL \notin Seq(Characters)
    /\ bufferSize \in Nat \ {0} /\ MAX_ACTION \in Nat \ {0}
    /\ MIN_BSSID \in Nat

VARIABLES
    uart_console_state,
    currentQueue,           \* the line that is being typed
    scanned,                \* ssid_list_len is not 0
    lineLen,                \* what uart_console_getLine returned to the last
    line                    \* call, or -1, and the line before its newline

console == <<uart_console_state, currentQueue, scanned, lineLen, line>>
vars == <<uartVars, console>>

LineStates == {"get_ssid", "get_bssid", "get_passwd", "scanning"}
States == LineStates \cup
            {"init", "connect", "connecting", "get_action", "idle"}

Init ==
    /\ UARTInit
    /\ uart_console_state = "init"
    /\ currentQueue = NULL /\ scanned = FALSE
    /\ lineLen = -1 /\ line = <<>>

----------------------------------------------------------------------------
(* Fault: a full line makes no room.                                       *)
KeptAll == IF currentQueue = NULL THEN <<>> ELSE currentQueue

(* If the line is full its last character makes room.                      *)
Kept ==
    IF Len(KeptAll) < bufferSize THEN KeptAll
    ELSE SubSeq(KeptAll, 1, bufferSize - 1)

Room == bufferSize - Len(Kept)

Ends(queue) == {i \in 1 .. Len(queue) : queue[i] = newline}

NoLine == lineLen' = -1 /\ line' = <<>>

(* The rest of the queue is dropped with the line. The caller's copy of a  *)
(* line may be cut to its own length, which lineLen does not say either.   *)
uart_console_getLine ==
    /\ rx_buff_deq(Room)
    /\ LET queue == Kept \o taken'
       IN  \/ /\ Ends(queue) = {}
              /\ currentQueue' = queue /\ NoLine
           \/ \E i \in Ends(queue) :
                /\ \A j \in Ends(queue) : i <= j
                /\ currentQueue' = NULL
                /\ lineLen' = Len(queue) - 1
                /\ line' = SubSeq(queue, 1, i - 1)

(* Where the state machine goes with a line of this length. A number that  *)
(* is not in the list starts another scan, but the length of the freed     *)
(* list stays, so that lines are read before the scan is done.             *)
AfterLine(state, len) ==
    CASE state = "get_ssid" ->
            IF len >= 0 THEN {"get_passwd"} ELSE {"get_ssid"}
      [] state = "get_bssid" ->
            IF len >= MIN_BSSID THEN {"get_bssid", "get_passwd"}
            ELSE {"get_bssid"}
      [] state = "get_passwd" ->
            IF len >= 1 THEN {"connect"} ELSE {"get_passwd"}
      [] state = "scanning" ->
            IF len >= 1 THEN {"scanning", "get_passwd"} ELSE {"scanning"}

ReadLine ==
    /\ uart_console_state \in LineStates
    /\ uart_console_state = "scanning" => scanned
    /\ uart_console_getLine
    /\ uart_console_state' \in AfterLine(uart_console_state, lineLen')
    /\ UNCHANGED scanned

ReadAction ==
    /\ uart_console_state = "get_action"
    /\ rx_buff_deq(MAX_ACTION)
    /\ uart_console_state' \in
            IF taken' = <<>> THEN {"get_action"}
            ELSE {"connect", "get_ssid", "get_bssid", "scanning",
                  "get_action"}
    /\ NoLine
    /\ UNCHANGED <<currentQueue, scanned>>

Goto(from, to) ==
    /\ uart_console_state = from
    /\ uart_console_state' \in to
    /\ NoLine
    /\ UNCHANGED <<uartVars, currentQueue, scanned>>

uart_console_process ==
    \/ Goto("init", {"connect"})
    \/ Goto("connect", {"connecting"})
    \/ Goto("connecting", {"get_action", "idle"})
    \/ ReadAction
    \/ ReadLine

wifi_scanDone_cb ==
    /\ scanned' = TRUE
    /\ UNCHANGED <<uartVars, uart_console_state, currentQueue, lineLen,
                   line>>

Driver == uart0_rx_intr_handler \/ uart_recvTask

Next ==
    \/ (\/ \E c \in Characters : Receive(c)
        \/ Driver) /\ UNCHANGED console
    \/ uart_console_process
    \/ wifi_scanDone_cb

(* The interrupt is raised while it is pending, the SDK runs posted events *)
(* and repeats the timer; nothing makes wifi leave a state.                *)
Spec ==
    /\ Init /\ [][Next]_vars
    /\ WF_vars(uart0_rx_intr_handler /\ UNCHANGED console)
    /\ WF_vars(uart_recvTask /\ UNCHANGED console)
    /\ WF_vars(ReadAction \/ ReadLine)

----------------------------------------------------------------------------
ConsoleTypeOK ==
    /\ UARTTypeOK
    /\ uart_console_state \in States
    /\ currentQueue = NULL \/ /\ currentQueue \in Seq(Characters)
                              /\ Len(currentQueue) <= bufferSize
    /\ scanned \in BOOLEAN
    /\ lineLen \in -1 .. bufferSize - 1
    /\ line \in Seq(Characters \ {newline})

Reading ==
    \/ uart_console_state \in LineStates \ {"scanning"}
    \/ uart_console_state = "scanning" /\ scanned
    \/ uart_console_state = "get_action"

(* However full FIFO, ring and line were, the receive interrupt comes back *)
(* as long as the console keeps coming to a state in which it reads.       *)
ReceiverRecovers == []<>Reading => []<>rx_intr

(* "It will return the length of the line (not including newline/cr chars) *)
(* once the line has been fully sent" (uart_console.c 238).                *)
LengthOfLine == lineLen >= 0 => lineLen = Len(line)
=============================================================================
