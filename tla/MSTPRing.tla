------------------------------ MODULE MSTPRing ------------------------------
(***************************************************************************)
(* The master nodes of an MS/TP bus, src/mstp.c: every node runs           *)
(* MSTP_Master_Node_FSM, and together they pass a token round the ring of  *)
(* those that are powered, find nodes that joined, skip those that left,   *)
(* and make a new token when it is lost.                                   *)
(*                                                                         *)
(* A frame is one step: all octets reach every other powered node, which   *)
(* takes the frame as MSTP_Receive_Frame_FSM leaves it, or takes an        *)
(* invalid frame, or only notices octets.  A frame of eight octets or more *)
(* puts EventCount above Nmin_octets, so EventCount is the flag active.    *)
(* The silence timers advance together, in ticks, and only when every node *)
(* waits: nodes are much faster than the timeouts.                         *)
(***************************************************************************)
EXTENDS Integers, FiniteSets

CONSTANTS
    Stations,           \* MAC addresses of the master nodes
    Nmax_master, Nmax_info_frames, Npoll, Nretry_token,
    Tusage_timeout, Treply_delay, Treply_timeout, Tno_token, Tslot, \* in ticks
    TRAFFIC,            \* type and destination of what MSTP_Get_Send returns
    MAX_FAULTS          \* bound on disturbed frames and power failures

BROADCAST == 255        \* MSTP_BROADCAST_ADDRESS

ASSUME MSTPConstants ==
    /\ Nmax_master \in 1 .. 127
    /\ Stations \subseteq 0 .. Nmax_master
    /\ Nmax_info_frames \in Nat \ {0}
    /\ Npoll \in Nat \ {0}
    /\ Nretry_token \in Nat
    /\ Tslot \in Nat \ {0}
    /\ Tusage_timeout \in Nat /\ Treply_delay \in Nat
    /\ Treply_timeout \in Nat /\ Tno_token \in Nat
    /\ Tusage_timeout < Treply_delay
    /\ Treply_delay + 1 < Treply_timeout
    /\ Treply_timeout < Tno_token
    /\ TRAFFIC \subseteq
        [type : {"DATA_EXPECTING_REPLY", "DATA_NOT_EXPECTING_REPLY",
                 "TEST_REQUEST"},
         destination : 0 .. Nmax_master \cup {BROADCAST}]
    /\ MAX_FAULTS \in Nat

VARIABLES
    port,               \* per station: its mstp_port_struct_t
    powered,            \* the stations that run
    faults              \* faults so far

vars == <<port, powered, faults>>

----------------------------------------------------------------------------
(* Frames and what a node makes of them.                                   *)

NoFrame == [type |-> "NONE", destination |-> BROADCAST, source |-> BROADCAST]
Invalid == [NoFrame EXCEPT !.type = "INVALID"]

(* The receive state machine takes a data frame as valid whoever it is     *)
(* for, since it goes from SKIP_DATA to DATA with the first octet.         *)
Accepted(m, frame) ==
    \/ frame.destination \in {m, BROADCAST}
    \/ frame.type \in {"DATA_EXPECTING_REPLY", "DATA_NOT_EXPECTING_REPLY"}

(* Node m hears a frame; how tells what became of it on the way.           *)
Heard(m, frame, how) ==
    LET taken == CASE how = "invalid" -> Invalid
                   [] how = "noise" -> NoFrame
                   [] OTHER -> IF Accepted(m, frame) THEN frame ELSE NoFrame
    IN  [port[m] EXCEPT !.silence = 0, !.active = TRUE, !.rx = taken]

(* Every node is done with one frame before the octets of the next are     *)
(* over, with the one it keeps to answer it too.                           *)
LineIsFree(n) == \A m \in powered \ {n} : port[m].rx = NoFrame

(* MSTP_Create_And_Send_Frame: node n sends and goes on with p.  At most   *)
(* one of the others is disturbed, which counts as a fault.                *)
Send(n, p, type, destination) ==
    LET frame == [type |-> type, destination |-> destination, source |-> n]
    IN  \E disturbed \in {{}} \cup {{m} : m \in powered \ {n}},
           how \in {"valid", "invalid", "noise"} :
            /\ LineIsFree(n)
            /\ (disturbed = {}) <=> (how = "valid")
            /\ faults' = IF disturbed = {} THEN faults ELSE faults + 1
            /\ faults' <= MAX_FAULTS
            /\ port' = [m \in Stations |->
                IF m = n THEN [p EXCEPT !.silence = 0]
                ELSE IF m \notin powered THEN port[m]
                ELSE Heard(m, frame,
                           IF m \in disturbed THEN how ELSE "valid")]
            /\ UNCHANGED powered

(* Node n goes on with p and sends nothing.                                *)
Become(n, p) ==
    /\ port' = [port EXCEPT ![n] = p]
    /\ UNCHANGED <<powered, faults>>

(* Fault: the last address is left out.                                    *)
FollowingButLast(station) == (station + 1) % Nmax_master

Following(station) == (station + 1) % (Nmax_master + 1)

ForMe(n, frame) == frame.destination = n
ForAll(frame) == frame.destination = BROADCAST

Received(n) == port[n].rx \notin {NoFrame, Invalid}
ReceivedInvalidFrame(n) == port[n].rx = Invalid

----------------------------------------------------------------------------
(* MSTP_Init and the INITIALIZE state.                                     *)

Initialized(n) ==
    [master_state |-> "INITIALIZE", Next_Station |-> n, Poll_Station |-> n,
     TokenCount |-> 0, SoleMaster |-> FALSE, FrameCount |-> 0,
     RetryCount |-> 0, active |-> FALSE, rx |-> NoFrame, silence |-> 0]

Init ==
    /\ port = [n \in Stations |-> Initialized(n)]
    /\ powered = {}
    /\ faults = 0

MSTP_Init(n) ==
    /\ n \notin powered
    /\ powered' = powered \cup {n}
    /\ port' = [port EXCEPT ![n] = Initialized(n)]
    /\ UNCHANGED faults

PowerFails(n) ==
    /\ n \in powered
    /\ faults < MAX_FAULTS
    /\ faults' = faults + 1
    /\ powered' = powered \ {n}
    /\ port' = [port EXCEPT ![n] = Initialized(n)]

DoneInitializing(n) ==
    /\ port[n].master_state = "INITIALIZE"
    /\ Become(n, [port[n] EXCEPT
            !.Next_Station = n, !.Poll_Station = n, !.TokenCount = Npoll,
            !.SoleMaster = FALSE, !.master_state = "IDLE"])

----------------------------------------------------------------------------
(* IDLE.                                                                   *)

LostToken(n) ==
    LET p == port[n]
    IN  /\ p.master_state = "IDLE"
        /\ p.silence >= Tno_token
        /\ Become(n, [p EXCEPT !.active = FALSE, !.rx = NoFrame,
                               !.master_state = "NO_TOKEN"])

IdleWithFrame(n) ==
    /\ port[n].master_state = "IDLE"
    /\ port[n].silence < Tno_token
    /\ Received(n)

ReceivedToken(n) ==
    LET p == port[n]
    IN  /\ IdleWithFrame(n)
        /\ p.rx.type = "TOKEN" /\ ForMe(n, p.rx)
        /\ Become(n, [p EXCEPT !.rx = NoFrame, !.FrameCount = 0,
                !.SoleMaster = FALSE, !.master_state = "USE_TOKEN"])

ReceivedPFM(n) ==
    LET p == port[n]
    IN  /\ IdleWithFrame(n)
        /\ p.rx.type = "POLL_FOR_MASTER" /\ (ForMe(n, p.rx) \/ ForAll(p.rx))
        /\ Send(n, [p EXCEPT !.rx = NoFrame],
                "REPLY_TO_POLL_FOR_MASTER", p.rx.source)

(* The frame is kept until it is answered.                                 *)
ReceivedDataNeedingReply(n) ==
    LET p == port[n]
    IN  /\ IdleWithFrame(n)
        /\ p.rx.type = "DATA_EXPECTING_REPLY" /\ ForMe(n, p.rx)
        /\ Become(n, [p EXCEPT !.master_state = "ANSWER_DATA_REQUEST"])

ReceivedTestRequest(n) ==
    LET p == port[n]
    IN  /\ IdleWithFrame(n)
        /\ p.rx.type = "TEST_REQUEST" /\ (ForMe(n, p.rx) \/ ForAll(p.rx))
        /\ Send(n, [p EXCEPT !.rx = NoFrame], "TEST_RESPONSE", p.rx.source)

(* Invalid frames, frames for others and those that are only handed up.    *)
FrameDone(n) ==
    LET p == port[n]
    IN  /\ p.master_state = "IDLE" /\ p.silence < Tno_token
        /\ \/ ReceivedInvalidFrame(n)
           \/ Received(n) /\ ~ForMe(n, p.rx) /\ ~ForAll(p.rx)
           \/ /\ Received(n) /\ ForAll(p.rx)
              /\ p.rx.type \notin {"TEST_REQUEST", "POLL_FOR_MASTER"}
           \/ /\ Received(n)
              /\ p.rx.type \in {"DATA_NOT_EXPECTING_REPLY", "TEST_RESPONSE",
                                "REPLY_POSTPONED", "REPLY_TO_POLL_FOR_MASTER"}
        /\ Become(n, [p EXCEPT !.rx = NoFrame])

IDLE(n) ==
    \/ LostToken(n) \/ ReceivedToken(n) \/ ReceivedPFM(n)
    \/ ReceivedDataNeedingReply(n) \/ ReceivedTestRequest(n) \/ FrameDone(n)

----------------------------------------------------------------------------
(* USE_TOKEN, WAIT_FOR_REPLY and ANSWER_DATA_REQUEST.                      *)

NothingToSend(n) ==
    /\ port[n].master_state = "USE_TOKEN"
    /\ Become(n, [port[n] EXCEPT !.FrameCount = Nmax_info_frames,
                                 !.master_state = "DONE_WITH_TOKEN"])

SendData(n) ==
    /\ port[n].master_state = "USE_TOKEN"
    /\ \E f \in TRAFFIC :
        /\ f.destination # n
        /\ Send(n, [port[n] EXCEPT
                !.FrameCount = @ + 1,
                !.master_state =
                    IF \/ f.type = "TEST_REQUEST"
                       \/ /\ f.type = "DATA_EXPECTING_REPLY"
                          /\ f.destination # BROADCAST
                    THEN "WAIT_FOR_REPLY" ELSE "DONE_WITH_TOKEN"],
                f.type, f.destination)

USE_TOKEN(n) == NothingToSend(n) \/ SendData(n)

ReplyTimeout(n) ==
    LET p == port[n]
    IN  /\ p.master_state = "WAIT_FOR_REPLY"
        /\ p.silence >= Treply_timeout
        /\ Become(n, [p EXCEPT !.FrameCount = Nmax_info_frames,
                               !.master_state = "DONE_WITH_TOKEN"])

(* A reply or an invalid frame ends the wait; anything else drops the      *)
(* token, since there may be another one.                                  *)
ReplyOrUnexpected(n) ==
    LET p == port[n]
        reply == /\ ForMe(n, p.rx)
                 /\ p.rx.type \in {"REPLY_POSTPONED", "TEST_RESPONSE",
                                   "DATA_NOT_EXPECTING_REPLY"}
    IN  /\ p.master_state = "WAIT_FOR_REPLY"
        /\ p.silence < Treply_timeout
        /\ p.rx # NoFrame
        /\ Become(n, [p EXCEPT
                !.rx = NoFrame,
                !.master_state = IF reply \/ ReceivedInvalidFrame(n)
                                 THEN "DONE_WITH_TOKEN" ELSE "IDLE"])

WAIT_FOR_REPLY(n) == ReplyTimeout(n) \/ ReplyOrUnexpected(n)

(* MSTP_Get_Reply: the application may have the answer at any time.        *)
ANSWER_DATA_REQUEST(n) ==
    LET p == port[n]
        done == [p EXCEPT !.rx = NoFrame, !.master_state = "IDLE"]
    IN  /\ p.master_state = "ANSWER_DATA_REQUEST"
        /\ \/ Send(n, done, "DATA_NOT_EXPECTING_REPLY", p.rx.source)
           \/ /\ p.silence > Treply_delay
              /\ Send(n, done, "REPLY_POSTPONED", p.rx.source)

----------------------------------------------------------------------------
(* DONE_WITH_TOKEN.                                                        *)

SendToken(n, p) ==
    Send(n, [p EXCEPT !.RetryCount = 0, !.active = FALSE,
                      !.master_state = "PASS_TOKEN"],
         "TOKEN", p.Next_Station)

Poll(n, p) ==
    Send(n, [p EXCEPT !.RetryCount = 0, !.master_state = "POLL_FOR_MASTER"],
         "POLL_FOR_MASTER", p.Poll_Station)

(* The states that a node may leave DONE_WITH_TOKEN by, in the order of    *)
(* the code: each later case excludes the earlier ones.                    *)
SendAnotherFrame(n) == port[n].FrameCount < Nmax_info_frames

NextStationUnknown(n) ==
    ~SendAnotherFrame(n) /\ ~port[n].SoleMaster /\ port[n].Next_Station = n

TimeToPass(n) ==
    /\ ~SendAnotherFrame(n) /\ ~NextStationUnknown(n)
    /\ port[n].TokenCount < Npoll - 1

TimeToPoll(n) ==
    ~SendAnotherFrame(n) /\ ~NextStationUnknown(n) /\ ~TimeToPass(n)

PolledAll(n) == Following(port[n].Poll_Station) = port[n].Next_Station

KeepsToken(n) ==
    port[n].SoleMaster /\ port[n].Next_Station # Following(n)

DONE_WITH_TOKEN(n) ==
    LET p == port[n]
        again == [p EXCEPT !.master_state = "USE_TOKEN"]
    IN  /\ p.master_state = "DONE_WITH_TOKEN"
        /\ \/ SendAnotherFrame(n) /\ Become(n, again)
           \/ NextStationUnknown(n) /\ Poll(n, [p EXCEPT !.Poll_Station = Following(n)])
           \/ /\ TimeToPass(n) /\ KeepsToken(n)
              /\ Become(n, [again EXCEPT !.FrameCount = 0, !.TokenCount = @ + 1])
           \/ /\ TimeToPass(n) /\ ~KeepsToken(n)
              /\ SendToken(n, [p EXCEPT !.TokenCount = @ + 1])
           \/ /\ TimeToPoll(n) /\ PolledAll(n) /\ p.SoleMaster
              /\ Poll(n, [p EXCEPT !.Poll_Station = Following(p.Next_Station),
                                   !.Next_Station = n, !.TokenCount = 1])
           \/ /\ TimeToPoll(n) /\ PolledAll(n) /\ ~p.SoleMaster
              /\ SendToken(n, [p EXCEPT !.Poll_Station = n, !.TokenCount = 1])
           \/ /\ TimeToPoll(n) /\ ~PolledAll(n)
              /\ Poll(n, [p EXCEPT !.Poll_Station = Following(@)])

----------------------------------------------------------------------------
(* PASS_TOKEN, NO_TOKEN and POLL_FOR_MASTER.                               *)

SawTokenUser(n) ==
    LET p == port[n]
    IN  /\ p.master_state = "PASS_TOKEN"
        /\ p.silence <= Tusage_timeout /\ p.active
        /\ Become(n, [p EXCEPT !.master_state = "IDLE"])

(* Fault: the retries are not counted.                                     *)
RetryForEver(n) ==
    LET p == port[n]
    IN  /\ p.master_state = "PASS_TOKEN"
        /\ p.silence > Tusage_timeout
        /\ p.RetryCount < Nretry_token
        /\ Send(n, [p EXCEPT !.active = FALSE], "TOKEN", p.Next_Station)

RetrySendToken(n) ==
    LET p == port[n]
    IN  /\ p.master_state = "PASS_TOKEN"
        /\ p.silence > Tusage_timeout
        /\ p.RetryCount < Nretry_token
        /\ Send(n, [p EXCEPT !.RetryCount = @ + 1, !.active = FALSE],
                "TOKEN", p.Next_Station)

(* Fault: the last retry is not waited for.                                *)
FindNewSuccessorAtOnce(n) ==
    LET p == port[n]
    IN  /\ p.master_state = "PASS_TOKEN"
        /\ p.RetryCount >= Nretry_token
        /\ Poll(n, [p EXCEPT !.Poll_Station = Following(p.Next_Station),
                             !.Next_Station = n, !.TokenCount = 0])

FindNewSuccessor(n) ==
    LET p == port[n]
    IN  /\ p.master_state = "PASS_TOKEN"
        /\ p.silence > Tusage_timeout
        /\ p.RetryCount >= Nretry_token
        /\ Poll(n, [p EXCEPT !.Poll_Station = Following(p.Next_Station),
                             !.Next_Station = n, !.TokenCount = 0])

PASS_TOKEN(n) == SawTokenUser(n) \/ RetrySendToken(n) \/ FindNewSuccessor(n)

(* The node's slot: from my_timeout until the slot of the next address.    *)
my_timeout(n) == Tno_token + Tslot * n
InMySlot(n) == port[n].silence \in my_timeout(n) .. my_timeout(n) + Tslot - 1

SawFrame(n) ==
    LET p == port[n]
    IN  /\ p.master_state = "NO_TOKEN"
        /\ ~InMySlot(n) /\ p.active
        /\ Become(n, [p EXCEPT !.master_state = "IDLE"])

GenerateToken(n) ==
    LET p == port[n]
    IN  /\ p.master_state = "NO_TOKEN"
        /\ InMySlot(n)
        /\ Poll(n, [p EXCEPT !.Poll_Station = Following(n),
                             !.Next_Station = n, !.TokenCount = 0])

NO_TOKEN(n) == SawFrame(n) \/ GenerateToken(n)

ReceivedReplyToPFM(n) ==
    LET p == port[n]
    IN  /\ p.master_state = "POLL_FOR_MASTER"
        /\ ForMe(n, p.rx) /\ p.rx.type = "REPLY_TO_POLL_FOR_MASTER"
        /\ SendToken(n, [p EXCEPT !.SoleMaster = FALSE, !.rx = NoFrame,
                !.Next_Station = p.rx.source, !.Poll_Station = n,
                !.TokenCount = 0])

ReceivedUnexpectedFrame(n) ==
    LET p == port[n]
    IN  /\ p.master_state = "POLL_FOR_MASTER"
        /\ Received(n)
        /\ ~(ForMe(n, p.rx) /\ p.rx.type = "REPLY_TO_POLL_FOR_MASTER")
        /\ Become(n, [p EXCEPT !.rx = NoFrame, !.master_state = "IDLE"])

(* Nobody answered the poll.                                               *)
NoReplyToPFM(n) ==
    LET p == [port[n] EXCEPT !.rx = NoFrame]
        using == [p EXCEPT !.FrameCount = 0, !.master_state = "USE_TOKEN"]
        next == Following(p.Poll_Station)
    IN  /\ p.master_state = "POLL_FOR_MASTER"
        /\ ~Received(n)
        /\ p.silence > Tusage_timeout \/ ReceivedInvalidFrame(n)
        /\ \/ p.SoleMaster /\ Become(n, using)
           \/ ~p.SoleMaster /\ p.Next_Station # n /\ SendToken(n, p)
           \/ /\ ~p.SoleMaster /\ p.Next_Station = n /\ next # n
              /\ Poll(n, [p EXCEPT !.Poll_Station = next])
           \/ /\ ~p.SoleMaster /\ p.Next_Station = n /\ next = n
              /\ Become(n, [using EXCEPT !.SoleMaster = TRUE])

POLL_FOR_MASTER(n) ==
    ReceivedReplyToPFM(n) \/ ReceivedUnexpectedFrame(n) \/ NoReplyToPFM(n)

----------------------------------------------------------------------------
MSTP_Master_Node_FSM(n) ==
    /\ n \in powered
    /\ \/ DoneInitializing(n) \/ IDLE(n) \/ USE_TOKEN(n) \/ WAIT_FOR_REPLY(n)
       \/ ANSWER_DATA_REQUEST(n) \/ DONE_WITH_TOKEN(n) \/ PASS_TOKEN(n)
       \/ NO_TOKEN(n) \/ POLL_FOR_MASTER(n)

(* A node has nothing to do before it hears something or time passes.      *)
Waits(n) ==
    LET p == port[n]
    IN  CASE p.master_state = "IDLE" ->
                p.silence < Tno_token /\ p.rx = NoFrame
          [] p.master_state = "WAIT_FOR_REPLY" ->
                p.silence < Treply_timeout /\ p.rx = NoFrame
          [] p.master_state = "ANSWER_DATA_REQUEST" -> p.silence <= Treply_delay
          [] p.master_state = "PASS_TOKEN" ->
                p.silence <= Tusage_timeout /\ ~p.active
          [] p.master_state = "NO_TOKEN" -> ~InMySlot(n) /\ ~p.active
          [] p.master_state = "POLL_FOR_MASTER" ->
                p.silence <= Tusage_timeout /\ p.rx = NoFrame
          [] OTHER -> FALSE

(* Past every slot nothing more happens to a node, so the timer stops.     *)
MAX_SILENCE == Tno_token + Tslot * (Nmax_master + 2)

Tick ==
    /\ powered # {}
    /\ \A n \in powered : Waits(n)
    /\ port' = [n \in Stations |->
            IF n \in powered /\ port[n].silence < MAX_SILENCE
            THEN [port[n] EXCEPT !.silence = @ + 1] ELSE port[n]]
    /\ UNCHANGED <<powered, faults>>

Next ==
    \/ \E n \in Stations :
        MSTP_Init(n) \/ PowerFails(n) \/ MSTP_Master_Node_FSM(n)
    \/ Tick

(* The data link of every powered node keeps calling the state machine,    *)
(* and the silence timer runs.                                             *)
Spec ==
    /\ Init /\ [][Next]_vars
    /\ \A n \in Stations : WF_vars(MSTP_Master_Node_FSM(n))
    /\ WF_vars(Tick)

----------------------------------------------------------------------------
(* Properties.                                                             *)

Frame ==
    [type : {"NONE", "INVALID", "TOKEN", "POLL_FOR_MASTER",
             "REPLY_TO_POLL_FOR_MASTER", "TEST_REQUEST", "TEST_RESPONSE",
             "DATA_EXPECTING_REPLY", "DATA_NOT_EXPECTING_REPLY",
             "REPLY_POSTPONED"},
     destination : 0 .. Nmax_master \cup {BROADCAST},
     source : Stations \cup {BROADCAST}]

Port ==
    [master_state : {"INITIALIZE", "IDLE", "USE_TOKEN", "WAIT_FOR_REPLY",
                     "DONE_WITH_TOKEN", "PASS_TOKEN", "NO_TOKEN",
                     "POLL_FOR_MASTER", "ANSWER_DATA_REQUEST"},
     Next_Station : Stations, Poll_Station : 0 .. Nmax_master,
     TokenCount : 0 .. Npoll, SoleMaster : BOOLEAN,
     FrameCount : 0 .. Nmax_info_frames, RetryCount : 0 .. Nretry_token,
     active : BOOLEAN, rx : Frame, silence : 0 .. MAX_SILENCE]

(* A node may send on its own account.                                     *)
HasToken(n) ==
    /\ n \in powered
    /\ \/ port[n].master_state \in {"USE_TOKEN", "WAIT_FOR_REPLY",
                                    "DONE_WITH_TOKEN", "POLL_FOR_MASTER"}
       \/ port[n].rx.type = "TOKEN" /\ ForMe(n, port[n].rx)

(* A node has passed the token on and will do so again if nobody uses it.  *)
WatchesToken(n) ==
    n \in powered /\ port[n].master_state = "PASS_TOKEN" /\ ~port[n].active

holders ==
    IF \E n \in Stations : HasToken(n)
    THEN {n \in Stations : HasToken(n)}
    ELSE {n \in Stations : WatchesToken(n)}

TheToken == INSTANCE Token WITH Nodes <- Stations, holders <- holders

(* The bus implements the abstract token: a node makes one only when no    *)
(* node has it or still watches over it.                                   *)
ImplementsToken == TheToken!Spec

(* The next powered station after n, going round; n itself if alone.       *)
Successor(n) ==
    CHOOSE m \in powered :
        \A other \in powered :
            (m - n - 1) % (Nmax_master + 1) <= (other - n - 1) % (Nmax_master + 1)

(* Every powered node knows its successor; a lone one knows that it is.    *)
RingIsComplete ==
    \A n \in powered :
        /\ port[n].Next_Station = Successor(n)
        /\ powered = {n} => port[n].SoleMaster

(* Once faults and power changes end, as they do under MAX_FAULTS, the     *)
(* ring closes over all powered nodes and stays so: joined nodes are       *)
(* found, failed ones skipped, a lost token is replaced.                   *)
RingHeals == <>[]RingIsComplete

(* No powered node waits for the token for ever, in whatever state the     *)
(* last fault left the others.                                             *)
EveryNodeGetsToken ==
    \A n \in Stations :
        (n \in powered) ~> (n \notin powered \/ port[n].master_state = "USE_TOKEN")
=============================================================================
