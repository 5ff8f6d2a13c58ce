---------------------------- MODULE Wire_proofs ----------------------------
(***************************************************************************)
(* Proofs about what goes over the wire.  The token of the MS/TP bus:      *)
(* whatever stations there are, however many frames are disturbed and      *)
(* nodes fail, no two nodes answer for it at a time.  The dates and times  *)
(* that devices tell each other: the calendar counts days and turns them   *)
(* back into dates, and a clock that minutes are added to shows the time.  *)
(* The brackets around the values of a request: the walk along the items   *)
(* between them stops at the bracket that closes them.  The values         *)
(* themselves: what the encoder of a type writes its decoder reads, and of *)
(* a list that lost its end the values that are whole are read.            *)
(***************************************************************************)
EXTENDS MSTPRing, Codec, TLAPS, FiniteSetTheorems, SequenceTheorems

(* Constants of a node, and who a frame may be for.                        *)
Destinations == 0 .. Nmax_master \cup {BROADCAST}

(* A node that has the token; that watches it; that has it and has not     *)
(* sent anything since.                                                    *)
Tokened(p) ==
    p.master_state \in {"USE_TOKEN", "WAIT_FOR_REPLY", "DONE_WITH_TOKEN",
                        "POLL_FOR_MASTER"}

GivenTo(n, p) == p.rx.type = "TOKEN" /\ p.rx.destination = n

Tok(n, p) == Tokened(p) \/ GivenTo(n, p)

Watch(p) == p.master_state = "PASS_TOKEN" /\ ~p.active

InHand(n, p) ==
    p.master_state \in {"USE_TOKEN", "DONE_WITH_TOKEN"} \/ GivenTo(n, p)

----------------------------------------------------------------------------
(* The inductive invariant.                                                *)

TypeOK ==
    /\ port \in [Stations -> Port]
    /\ powered \subseteq Stations
    /\ faults \in 0 .. MAX_FAULTS

(* What is true of a node by itself.  Nothing overwrites the frame that a  *)
(* node is to answer; nobody is given a token who has one; and a node that *)
(* looks out for another's use of the token has noticed at once that it is *)
(* given one itself.                                                       *)
NodeOK(n, p) ==
    /\ p.rx.type = "NONE" => p.rx = NoFrame
    /\ p.rx.type = "INVALID" => p.rx = Invalid
    /\ p.rx.type \notin {"NONE", "INVALID"} => p.rx.source \in Stations
    /\ p.master_state = "USE_TOKEN" => p.FrameCount < Nmax_info_frames
    /\ p.master_state = "ANSWER_DATA_REQUEST" =>
            p.rx.type = "DATA_EXPECTING_REPLY"
    /\ p.master_state \in {"NO_TOKEN", "PASS_TOKEN"} /\ GivenTo(n, p) => p.active
    /\ Tokened(p) => ~GivenTo(n, p)
    /\ p.master_state = "PASS_TOKEN" /\ p.active => p.silence <= Tusage_timeout

NodesOK == \A n \in Stations : NodeOK(n, port[n])

OneToken == \A m, n \in powered : Tok(m, port[m]) /\ Tok(n, port[n]) => m = n

OneWatcher == \A m, n \in powered : Watch(port[m]) /\ Watch(port[n]) => m = n

(* While one node watches the token that another has, this one has not     *)
(* used it yet, and no time has passed.                                    *)
Handed ==
    \A h, w \in powered :
        Tok(h, port[h]) /\ Watch(port[w]) =>
            InHand(h, port[h]) /\ port[w].silence <= Tusage_timeout

(* Everybody has heard of the token that a node has or watches, and not so *)
(* long ago that it would count as lost.                                   *)
Heeded ==
    \A h \in powered :
        Tok(h, port[h]) \/ Watch(port[h]) =>
            /\ port[h].silence <= Treply_timeout
            /\ \A m \in powered : port[m].silence <= port[h].silence

RingInv == TypeOK /\ NodesOK /\ OneToken /\ OneWatcher /\ Handed /\ Heeded

----------------------------------------------------------------------------
(* The constants.                                                          *)

LEMMA Times ==
    /\ Tusage_timeout \in Nat /\ Treply_delay \in Nat
    /\ Treply_timeout \in Nat /\ Tno_token \in Nat
    /\ Tusage_timeout + 1 <= Treply_timeout
    /\ Treply_timeout < Tno_token
    /\ MAX_SILENCE \in Nat /\ Tno_token < MAX_SILENCE
    /\ \A n \in Stations : my_timeout(n) \in Nat /\ my_timeout(n) >= Tno_token
<1> USE MSTPConstants
<1>1. Tslot * (Nmax_master + 2) \in Nat /\ Tslot * (Nmax_master + 2) > 0
  OBVIOUS
<1>2. MAX_SILENCE \in Nat /\ Tno_token < MAX_SILENCE
  BY <1>1 DEF MAX_SILENCE
<1>3. ASSUME NEW n \in Stations
      PROVE  my_timeout(n) \in Nat /\ my_timeout(n) >= Tno_token
  <2>1. n \in Nat /\ Tslot \in Nat /\ Tno_token \in Nat
    OBVIOUS
  <2>2. Tslot * n \in Nat
    BY <2>1
  <2>3. QED
    BY <2>1, <2>2 DEF my_timeout
<1>4. QED
  BY <1>2, <1>3

LEMMA Addresses ==
    /\ Stations \subseteq 0 .. Nmax_master
    /\ Stations \subseteq Destinations /\ BROADCAST \in Destinations
    /\ BROADCAST \notin Stations
    /\ \A a \in 0 .. Nmax_master : Following(a) \in 0 .. Nmax_master
    /\ \A a \in 0 .. Nmax_master : Following(a) \in Destinations
<1> USE MSTPConstants
<1>1. /\ Stations \subseteq 0 .. Nmax_master
      /\ Stations \subseteq Destinations /\ BROADCAST \in Destinations
      /\ BROADCAST \notin Stations
  BY DEF Destinations, BROADCAST
<1>2. \A a \in 0 .. Nmax_master : Following(a) \in 0 .. Nmax_master
  BY DEF Following
<1>3. QED
  BY <1>1, <1>2 DEF Destinations

(* What nodes send.                                                        *)
Sent ==
    [type : {"TOKEN", "POLL_FOR_MASTER", "REPLY_TO_POLL_FOR_MASTER",
             "TEST_REQUEST", "TEST_RESPONSE", "DATA_EXPECTING_REPLY",
             "DATA_NOT_EXPECTING_REPLY", "REPLY_POSTPONED"},
     destination : Destinations, source : Stations]

LEMMA Frames ==
    /\ Sent \subseteq Frame /\ NoFrame \in Frame /\ Invalid \in Frame
    /\ NoFrame.type = "NONE" /\ Invalid.type = "INVALID"
  BY DEF Sent, Frame, NoFrame, Invalid, Destinations

----------------------------------------------------------------------------
(* Hearing a frame.                                                        *)

LEMMA Hears ==
    ASSUME NEW m \in Stations, port[m] \in Port, NodeOK(m, port[m]),
           port[m].rx = NoFrame, NEW frame \in Sent, NEW how,
           frame.type = "TOKEN" => ~Tokened(port[m])
    PROVE  LET q == Heard(m, frame, how)
           IN  /\ q \in Port /\ NodeOK(m, q)
               /\ q.master_state = port[m].master_state
               /\ q.silence = 0 /\ q.active
               /\ q.rx.type = "TOKEN" =>
                    frame.type = "TOKEN" /\ q.rx.destination = frame.destination
<1> DEFINE taken == CASE how = "invalid" -> Invalid
                      [] how = "noise" -> NoFrame
                      [] OTHER -> IF Accepted(m, frame) THEN frame ELSE NoFrame
           p == port[m]
           q == [p EXCEPT !.silence = 0, !.active = TRUE, !.rx = taken]
<1>1. taken \in {Invalid, NoFrame, frame}
  OBVIOUS
<1> HIDE DEF taken
<1>2. /\ taken \in Frame
      /\ taken.type = "NONE" => taken = NoFrame
      /\ taken.type = "INVALID" => taken = Invalid
      /\ taken.type \notin {"NONE", "INVALID"} => taken.source \in Stations
      /\ taken.type = "TOKEN" =>
            frame.type = "TOKEN" /\ taken.destination = frame.destination
  BY <1>1, Frames DEF Sent
<1>3. p.master_state # "ANSWER_DATA_REQUEST"
  BY Frames DEF NodeOK
<1>4. q \in Port
  <2>1. 0 \in 0 .. MAX_SILENCE
    BY Times
  <2>2. p \in Port /\ taken \in Frame
    BY <1>2
  <2> HIDE DEF p
  <2>3. QED
    BY <2>1, <2>2 DEF Port
<1>5. /\ q.master_state = p.master_state /\ q.FrameCount = p.FrameCount
      /\ q.silence = 0 /\ q.active = TRUE /\ q.rx = taken
  BY DEF Port
<1>6. Heard(m, frame, how) = q
  BY DEF Heard, taken
<1> HIDE DEF p, q
<1>7. NodeOK(m, q)
  BY <1>2, <1>3, <1>5, Times DEF NodeOK, Tokened, GivenTo, p
<1>8. QED
  BY <1>2, <1>4, <1>5, <1>6, <1>7 DEF p

----------------------------------------------------------------------------
(* What sending does.                                                      *)

(* No node but n has the token.                                            *)
Alone(n) == \A m \in powered : Tok(m, port[m]) => m = n

LEMMA Sends ==
    ASSUME NEW n \in powered, RingInv, NEW p \in Port, NEW type,
           NEW destination, Send(n, p, type, destination),
           [type |-> type, destination |-> destination, source |-> n] \in Sent,
           type = "TOKEN" => Alone(n)
    PROVE  /\ powered' = powered
           /\ faults' \in 0 .. MAX_FAULTS
           /\ port' \in [Stations -> Port]
           /\ port'[n] = [p EXCEPT !.silence = 0]
           /\ \A m \in Stations \ powered : port'[m] = port[m]
           /\ \A m \in powered \ {n} :
                LET q == port'[m]
                IN  /\ NodeOK(m, q)
                    /\ q.master_state = port[m].master_state
                    /\ q.silence = 0 /\ q.active
                    /\ q.rx.type = "TOKEN" =>
                        type = "TOKEN" /\ q.rx.destination = destination
<1> DEFINE frame == [type |-> type, destination |-> destination, source |-> n]
<1>1. PICK disturbed \in {{}} \cup {{m} : m \in powered \ {n}},
            how \in {"valid", "invalid", "noise"} :
        /\ LineIsFree(n)
        /\ faults' = IF disturbed = {} THEN faults ELSE faults + 1
        /\ faults' <= MAX_FAULTS
        /\ port' = [m \in Stations |->
                IF m = n THEN [p EXCEPT !.silence = 0]
                ELSE IF m \notin powered THEN port[m]
                ELSE Heard(m, frame,
                           IF m \in disturbed THEN how ELSE "valid")]
        /\ UNCHANGED powered
  BY DEF Send
<1>2. /\ frame \in Sent /\ frame.type = type
      /\ frame.destination = destination
  OBVIOUS
<1> HIDE DEF frame
<1>3. /\ port \in [Stations -> Port] /\ powered \subseteq Stations
      /\ n \in Stations /\ faults \in 0 .. MAX_FAULTS
      /\ \A m \in Stations : NodeOK(m, port[m])
  BY DEF RingInv, TypeOK, NodesOK
<1>4. port'[n] = [p EXCEPT !.silence = 0]
  BY <1>1, <1>3
<1>5. \A m \in Stations \ powered : port'[m] = port[m]
  BY <1>1, <1>3
<1>6. ASSUME NEW m \in powered \ {n}
      PROVE  LET q == port'[m]
             IN  /\ q \in Port /\ NodeOK(m, q)
                 /\ q.master_state = port[m].master_state
                 /\ q.silence = 0 /\ q.active
                 /\ q.rx.type = "TOKEN" =>
                        type = "TOKEN" /\ q.rx.destination = destination
  <2>1. m \in Stations /\ port[m] \in Port /\ NodeOK(m, port[m])
    BY <1>3
  <2>2. port[m].rx = NoFrame
    BY <1>1 DEF LineIsFree
  <2>3. PICK h : port'[m] = Heard(m, frame, h)
    BY <1>1, <2>1
  <2>4. type = "TOKEN" => ~Tokened(port[m])
    BY DEF Alone, Tok
  <2>5. QED
    BY <1>2, <2>1, <2>2, <2>3, <2>4, Hears
<1>7. port'[n] \in Port
  <2>1. 0 \in 0 .. MAX_SILENCE
    BY Times
  <2>2. [p EXCEPT !.silence = 0] \in Port
    BY <2>1 DEF Port
  <2>3. QED
    BY <1>4, <2>2
<1>8. \A m \in Stations : port'[m] \in Port
  BY <1>3, <1>5, <1>6, <1>7
<1>9. port' \in [Stations -> Port]
  BY <1>1, <1>8
<1>10. faults' \in 0 .. MAX_FAULTS
  BY <1>1, <1>3, MSTPConstants
<1>11. QED
  BY <1>1, <1>4, <1>5, <1>6, <1>9, <1>10

(* A node that sends on its own account does so alone, and whoever then    *)
(* watches the token has given it away.                                    *)
LEMMA SendKeeps ==
    ASSUME NEW n \in powered, RingInv, NEW p \in Port, NEW type,
           NEW destination, Send(n, p, type, destination),
           [type |-> type, destination |-> destination, source |-> n] \in Sent,
           NodeOK(n, [p EXCEPT !.silence = 0]),
           Tok(n, p) \/ type = "TOKEN" => Alone(n),
           type = "TOKEN" => ~Tok(n, p),
           Watch(p) => type = "TOKEN"
    PROVE  RingInv'
<1> DEFINE q == [p EXCEPT !.silence = 0]
<1>1. /\ powered' = powered
      /\ faults' \in 0 .. MAX_FAULTS
      /\ port' \in [Stations -> Port]
      /\ port'[n] = q
      /\ \A m \in Stations \ powered : port'[m] = port[m]
  BY Sends
<1>2. ASSUME NEW m \in powered \ {n}
      PROVE  /\ NodeOK(m, port'[m])
             /\ port'[m].master_state = port[m].master_state
             /\ port'[m].silence = 0 /\ port'[m].active
             /\ port'[m].rx.type = "TOKEN" =>
                    type = "TOKEN" /\ port'[m].rx.destination = destination
  BY Sends
<1>3. /\ q.silence = 0 /\ q.master_state = p.master_state
      /\ q.active = p.active /\ q.rx = p.rx /\ NodeOK(n, q)
  BY DEF Port
<1> HIDE DEF q
<1>4. Tok(n, port'[n]) = Tok(n, p) /\ Watch(port'[n]) = Watch(p)
  BY <1>1, <1>3 DEF Tok, Tokened, GivenTo, Watch
<1>5. ASSUME NEW m \in powered \ {n}, Tok(m, port'[m])
      PROVE  \/ Tok(m, port[m]) /\ ~Alone(n)
             \/ /\ type = "TOKEN" /\ destination = m
                /\ InHand(m, port'[m])
  <2>1. CASE Tok(m, port[m])
    BY <2>1 DEF Alone
  <2>2. CASE ~Tok(m, port[m])
    <3>1. port'[m].rx.type = "TOKEN" /\ port'[m].rx.destination = m
      BY <1>2, <1>5, <2>2 DEF Tok, Tokened, GivenTo
    <3>2. QED
      BY <1>2, <3>1 DEF InHand, GivenTo
  <2>3. QED
    BY <2>1, <2>2
<1>6. \A m \in powered \ {n} : ~Watch(port'[m])
  BY <1>2 DEF Watch
<1>7. \A m \in powered : port'[m].silence = 0
  BY <1>1, <1>2, <1>3
<1>8. TypeOK'
  BY <1>1 DEF TypeOK, RingInv
<1>9. \A m \in Stations : NodeOK(m, port'[m])
  BY <1>1, <1>2, <1>3 DEF RingInv, NodesOK
<1>10. \A m, h \in powered : Tok(m, port'[m]) /\ Tok(h, port'[h]) => m = h
  <2>1. ASSUME NEW m \in powered, NEW h \in powered \ {n},
               Tok(m, port'[m]), Tok(h, port'[h])
        PROVE  m = h
    <3>1. CASE m = n
      BY <1>4, <1>5, <2>1, <3>1
    <3>2. CASE m # n /\ Alone(n)
      BY <1>5, <2>1, <3>2
    <3>3. CASE m # n /\ ~Alone(n)
      <4>1. Tok(m, port[m]) /\ Tok(h, port[h])
        BY <1>5, <2>1, <3>3
      <4>2. QED
        BY <4>1 DEF RingInv, OneToken
    <3>4. QED
      BY <3>1, <3>2, <3>3
  <2>2. QED
    BY <2>1
<1>11. \A m, h \in powered : Watch(port'[m]) /\ Watch(port'[h]) => m = h
  BY <1>6
<1>12. ASSUME NEW h \in powered, NEW w \in powered,
              Tok(h, port'[h]), Watch(port'[w])
       PROVE  InHand(h, port'[h]) /\ port'[w].silence <= Tusage_timeout
  <2>1. w = n /\ type = "TOKEN" /\ Alone(n)
    BY <1>4, <1>6, <1>12
  <2>2. h # n
    BY <1>4, <1>12, <2>1
  <2>3. InHand(h, port'[h])
    BY <1>5, <1>12, <2>1, <2>2
  <2>4. QED
    BY <1>7, <2>3, Times
<1>13. \A h \in powered : port'[h].silence <= Treply_timeout
  BY <1>7, Times
<1>14. \A h, m \in powered : port'[m].silence <= port'[h].silence
  BY <1>7
<1>15. QED
  BY <1>1, <1>8, <1>9, <1>10, <1>11, <1>12, <1>13, <1>14
  DEF RingInv, NodesOK, OneToken, OneWatcher, Handed, Heeded

----------------------------------------------------------------------------
(* What the other steps do.                                                *)

(* A node that goes on without sending gets no token and watches none that *)
(* it did not watch, and does not put away the one in its hand unused.     *)
LEMMA BecomeKeeps ==
    ASSUME NEW n \in powered, RingInv, NEW p \in Port, NodeOK(n, p), Become(n, p),
           p.silence = port[n].silence,
           Tok(n, p) => Tok(n, port[n]),
           Watch(p) => Watch(port[n]),
           Tok(n, p) /\ InHand(n, port[n]) => InHand(n, p)
    PROVE  RingInv'
<1>1. /\ port \in [Stations -> Port] /\ powered \subseteq Stations
      /\ n \in Stations /\ \A m \in Stations : NodeOK(m, port[m])
  BY DEF RingInv, TypeOK, NodesOK
<1>2. powered' = powered /\ faults' = faults
      /\ port' = [port EXCEPT ![n] = p]
  BY DEF Become
<1>3. port'[n] = p /\ \A m \in Stations : m # n => port'[m] = port[m]
  BY <1>1, <1>2
<1>4. port' \in [Stations -> Port]
  BY <1>1, <1>2
<1>5. TypeOK' /\ NodesOK'
  BY <1>1, <1>2, <1>3, <1>4 DEF RingInv, TypeOK, NodesOK
<1>6. ASSUME NEW m \in powered
      PROVE  /\ Tok(m, port'[m]) => Tok(m, port[m])
             /\ Watch(port'[m]) => Watch(port[m])
             /\ port'[m].silence = port[m].silence
             /\ Tok(m, port'[m]) /\ InHand(m, port[m]) => InHand(m, port'[m])
  BY <1>1, <1>3
<1>7. OneToken' /\ OneWatcher'
  BY <1>2, <1>6 DEF RingInv, OneToken, OneWatcher
<1>8. Handed'
  BY <1>2, <1>6 DEF RingInv, Handed
<1>9. Heeded'
  BY <1>2, <1>6 DEF RingInv, Heeded
<1>10. QED
  BY <1>5, <1>7, <1>8, <1>9 DEF RingInv

(* A node that is started knows nothing.                                   *)
LEMMA Initial ==
    ASSUME NEW n \in Stations
    PROVE  LET p == Initialized(n)
           IN  /\ p \in Port /\ NodeOK(n, p)
               /\ ~Tok(n, p) /\ ~Watch(p) /\ p.silence = 0
<1> DEFINE p == Initialized(n)
<1>1. /\ n \in 0 .. Nmax_master /\ 0 \in 0 .. MAX_SILENCE
      /\ 0 \in 0 .. Npoll /\ 0 \in 0 .. Nmax_info_frames
      /\ 0 \in 0 .. Nretry_token
  BY Addresses, Times, MSTPConstants
<1>2. p \in Port
  BY <1>1, Frames DEF Initialized, Port
<1>3. p.master_state = "INITIALIZE" /\ p.rx = NoFrame /\ p.silence = 0
  BY DEF Initialized
<1> HIDE DEF p
<1>4. NodeOK(n, p)
  BY <1>3, Frames DEF NodeOK, GivenTo, Tokened
<1>5. ~Tok(n, p) /\ ~Watch(p)
  BY <1>3, Frames DEF Tok, Tokened, GivenTo, Watch
<1>6. QED
  BY <1>2, <1>3, <1>4, <1>5 DEF p

LEMMA PowerKeeps ==
    ASSUME NEW n \in Stations, RingInv, MSTP_Init(n) \/ PowerFails(n)
    PROVE  RingInv'
<1> DEFINE p == Initialized(n)
<1>1. /\ port \in [Stations -> Port] /\ powered \subseteq Stations
      /\ \A m \in Stations : NodeOK(m, port[m])
  BY DEF RingInv, TypeOK, NodesOK
<1>2. /\ p \in Port /\ NodeOK(n, p) /\ ~Tok(n, p) /\ ~Watch(p)
      /\ p.silence = 0
  BY Initial
<1>3. /\ powered' \subseteq powered \cup {n}
      /\ faults' \in 0 .. MAX_FAULTS
      /\ port' = [port EXCEPT ![n] = p]
  BY MSTPConstants DEF MSTP_Init, PowerFails, RingInv, TypeOK
<1> HIDE DEF p
<1>4. port'[n] = p /\ \A m \in Stations : m # n => port'[m] = port[m]
  BY <1>1, <1>3
<1>5. port' \in [Stations -> Port]
  BY <1>1, <1>2, <1>3
<1>6. TypeOK' /\ NodesOK'
  BY <1>1, <1>2, <1>3, <1>4, <1>5 DEF TypeOK, NodesOK
<1>7. ASSUME NEW m \in powered', Tok(m, port'[m]) \/ Watch(port'[m])
      PROVE  m \in powered /\ m # n /\ port'[m] = port[m]
  BY <1>1, <1>2, <1>3, <1>4, <1>7
<1>8. OneToken' /\ OneWatcher' /\ Handed'
  BY <1>7 DEF RingInv, OneToken, OneWatcher, Handed
<1>9. ASSUME NEW h \in powered', Tok(h, port'[h]) \/ Watch(port'[h]),
             NEW m \in powered'
      PROVE  /\ port'[h].silence <= Treply_timeout
             /\ port'[m].silence <= port'[h].silence
  <2>1. h \in powered /\ port'[h] = port[h]
    BY <1>7, <1>9
  <2>2. port[h].silence \in Nat
    BY <1>1, <2>1 DEF Port
  <2>3. CASE m = n
    BY <1>2, <1>4, <1>9, <2>1, <2>2, <2>3 DEF RingInv, Heeded
  <2>4. CASE m # n
    BY <1>1, <1>3, <1>4, <1>9, <2>1, <2>4 DEF RingInv, Heeded
  <2>5. QED
    BY <2>3, <2>4
<1>10. Heeded'
  BY <1>9 DEF Heeded
<1>11. QED
  BY <1>6, <1>8, <1>10 DEF RingInv

(* While a node has or watches the token, time passes no further than it   *)
(* waits; while it has it in its hand, not at all.                         *)
LEMMA TickKeeps ==
    ASSUME RingInv, Tick
    PROVE  RingInv'
<1>1. /\ port \in [Stations -> Port] /\ powered \subseteq Stations
      /\ \A m \in Stations : NodeOK(m, port[m])
      /\ \A m \in powered : Waits(m)
      /\ powered' = powered /\ faults' = faults
  BY DEF RingInv, TypeOK, NodesOK, Tick
<1>2. port' = [n \in Stations |->
            IF n \in powered /\ port[n].silence < MAX_SILENCE
            THEN [port[n] EXCEPT !.silence = @ + 1] ELSE port[n]]
  BY DEF Tick
<1>3. ASSUME NEW m \in Stations
      PROVE  /\ port'[m] \in Port
             /\ port'[m] = [port[m] EXCEPT !.silence = port'[m].silence]
             /\ port'[m].silence =
                    IF m \in powered /\ port[m].silence < MAX_SILENCE
                    THEN port[m].silence + 1 ELSE port[m].silence
             /\ port[m].silence \in Nat
  <2> DEFINE p == port[m]
  <2>1. p \in Port /\ p.silence \in 0 .. MAX_SILENCE
    BY <1>1 DEF Port
  <2>2. port'[m] = IF m \in powered /\ p.silence < MAX_SILENCE
                   THEN [p EXCEPT !.silence = p.silence + 1] ELSE p
    BY <1>2
  <2> HIDE DEF p
  <2>3. p.silence < MAX_SILENCE => p.silence + 1 \in 0 .. MAX_SILENCE
    BY <2>1, Times
  <2>4. QED
    BY <2>1, <2>2, <2>3, Times DEF Port, p
<1>4. ASSUME NEW m \in Stations
      PROVE  /\ port'[m].master_state = port[m].master_state
             /\ port'[m].rx = port[m].rx /\ port'[m].active = port[m].active
             /\ port'[m].FrameCount = port[m].FrameCount
  <2> DEFINE p == port[m]
             q == port'[m]
  <2>1. p \in Port /\ q = [p EXCEPT !.silence = q.silence]
    BY <1>1, <1>3
  <2> HIDE DEF p, q
  <2>2. QED
    BY <2>1 DEF Port, p, q
<1>5. ASSUME NEW m \in Stations
      PROVE  /\ Tok(m, port'[m]) = Tok(m, port[m])
             /\ Watch(port'[m]) = Watch(port[m])
             /\ InHand(m, port'[m]) = InHand(m, port[m])
  BY <1>4 DEF Tok, Tokened, GivenTo, Watch, InHand
<1>6. port' \in [Stations -> Port]
  BY <1>2, <1>3
<1>7. TypeOK'
  BY <1>1, <1>6 DEF RingInv, TypeOK
<1>8. ASSUME NEW m \in powered, NodeOK(m, port[m])
      PROVE  /\ Watch(port[m]) => port[m].silence <= Tusage_timeout
             /\ Tok(m, port[m]) =>
                    port[m].silence < Treply_timeout /\ ~InHand(m, port[m])
             /\ port[m].master_state = "PASS_TOKEN" => ~port[m].active
  <2>1. m \in Stations /\ port[m].silence \in Nat /\ Waits(m)
    BY <1>1, <1>3
  <2>2. port[m].rx # NoFrame <=> port[m].rx.type # "NONE"
    BY <1>8, Frames DEF NodeOK
  <2>3. QED
    BY <1>8, <2>1, <2>2, Times
       DEF Waits, Watch, Tok, Tokened, GivenTo, InHand, NodeOK
<1>9. ASSUME NEW m \in Stations
      PROVE  NodeOK(m, port'[m])
  <2>1. CASE m \in powered
    BY <1>1, <1>4, <1>8, <2>1 DEF NodeOK, Tokened, GivenTo
  <2>2. CASE m \notin powered
    BY <1>1, <1>2, <2>2
  <2>3. QED
    BY <2>1, <2>2
<1>10. OneToken' /\ OneWatcher' /\ NodesOK'
  BY <1>1, <1>5, <1>9 DEF RingInv, OneToken, OneWatcher, NodesOK
<1>11. Handed'
  BY <1>1, <1>5, <1>8 DEF RingInv, Handed
<1>12. ASSUME NEW h \in powered, Tok(h, port'[h]) \/ Watch(port'[h]),
              NEW m \in powered
       PROVE  /\ port'[h].silence <= Treply_timeout
              /\ port'[m].silence <= port'[h].silence
  <2>1. h \in Stations /\ m \in Stations
    BY <1>1
  <2>2. Tok(h, port[h]) \/ Watch(port[h])
    BY <1>5, <1>12, <2>1
  <2> DEFINE a == port[h].silence
             b == port[m].silence
             c == port'[h].silence
             d == port'[m].silence
  <2>3. a \in Nat /\ b \in Nat /\ (d = b \/ d = b + 1)
        /\ c = IF a < MAX_SILENCE THEN a + 1 ELSE a
    BY <1>3, <2>1
  <2>4. NodeOK(h, port[h])
    BY <1>1, <2>1
  <2>5. a <= Tusage_timeout \/ a < Treply_timeout
    BY <1>8, <2>2, <2>4
  <2>6. b <= a
    BY <2>2 DEF RingInv, Heeded
  <2> HIDE DEF a, b, c, d
  <2>7. c <= Treply_timeout /\ d <= c
    BY <2>3, <2>5, <2>6, Times
  <2>8. QED
    BY <2>7 DEF c, d
<1>13. Heeded'
  BY <1>1, <1>12 DEF Heeded
<1>14. QED
  BY <1>7, <1>10, <1>11, <1>13 DEF RingInv

----------------------------------------------------------------------------
(* Who may send on its own account.                                        *)

LEMMA NodeIs ==
    ASSUME RingInv, NEW n \in powered
    PROVE  /\ port[n] \in Port /\ NodeOK(n, port[n])
           /\ n \in Stations /\ n \in 0 .. Nmax_master
           /\ port[n].silence \in Nat
<1>1. n \in Stations /\ port[n] \in Port /\ NodeOK(n, port[n])
  BY DEF RingInv, TypeOK, NodesOK
<1>2. port[n].silence \in Nat
  BY <1>1, Times DEF Port
<1>3. QED
  BY <1>1, <1>2, Addresses

(* A node that has the token, that has waited for another to use it, or    *)
(* that has heard nothing for so long that the token counts as lost.       *)
LEMMA WhoIsAlone ==
    ASSUME RingInv, NEW n \in powered
    PROVE  /\ Tok(n, port[n]) => Alone(n)
           /\ /\ port[n].master_state = "PASS_TOKEN"
              /\ port[n].silence > Tusage_timeout
              => Alone(n) /\ ~GivenTo(n, port[n])
           /\ port[n].silence >= Tno_token => Alone(n) /\ ~GivenTo(n, port[n])
<1> DEFINE p == port[n]
<1>1. p.silence \in Nat /\ NodeOK(n, p)
  BY NodeIs
<1>2. Tok(n, p) => Alone(n)
  BY DEF RingInv, OneToken, Alone
<1>3. ASSUME p.master_state = "PASS_TOKEN", p.silence > Tusage_timeout
      PROVE  Alone(n) /\ ~GivenTo(n, p)
  <2>1. ~p.active
    BY <1>1, <1>3, Times DEF NodeOK
  <2>2. Watch(p) /\ ~GivenTo(n, p)
    BY <1>1, <1>3, <2>1 DEF NodeOK, Watch
  <2>3. \A h \in powered : ~Tok(h, port[h])
    BY <1>1, <1>3, <2>2, Times DEF RingInv, Handed
  <2>4. QED
    BY <2>2, <2>3 DEF Alone
<1>4. ASSUME p.silence >= Tno_token
      PROVE  Alone(n) /\ ~GivenTo(n, p)
  <2>1. ASSUME NEW h \in powered, Tok(h, port[h])
        PROVE  FALSE
    <3>1. p.silence <= port[h].silence /\ port[h].silence <= Treply_timeout
      BY <2>1 DEF RingInv, Heeded
    <3>2. port[h].silence \in Nat
      BY NodeIs
    <3>3. QED
      BY <1>1, <1>4, <3>1, <3>2, Times
  <2>2. QED
    BY <2>1 DEF Alone, Tok
<1>5. QED
  BY <1>2, <1>3, <1>4

(* A poll of one station, and the token sent to another.                   *)
LEMMA PollKeeps ==
    ASSUME RingInv, NEW n \in powered, NEW p \in Port, Poll(n, p),
           Alone(n), ~GivenTo(n, p), p.rx \in {port[n].rx, NoFrame}
    PROVE  RingInv'
<1> DEFINE q == [p EXCEPT !.RetryCount = 0, !.master_state = "POLL_FOR_MASTER"]
           r == [q EXCEPT !.silence = 0]
<1>1. n \in Stations /\ NodeOK(n, port[n])
  BY NodeIs
<1>2. Send(n, q, "POLL_FOR_MASTER", p.Poll_Station)
  BY DEF Poll
<1>3. q \in Port
  <2>1. 0 \in 0 .. Nretry_token
    BY MSTPConstants
  <2>2. QED
    BY <2>1 DEF Port
<1>4. /\ q.master_state = "POLL_FOR_MASTER" /\ q.rx = p.rx
      /\ r.master_state = "POLL_FOR_MASTER" /\ r.rx = p.rx
  BY DEF Port
<1>5. p.Poll_Station \in Destinations
  BY DEF Port, Destinations
<1> HIDE DEF q, r
<1>6. NodeOK(n, r)
  BY <1>1, <1>4, Frames DEF NodeOK, GivenTo, Tokened
<1>7. ~Watch(q)
  BY <1>4 DEF Watch
<1>8. [type |-> "POLL_FOR_MASTER", destination |-> p.Poll_Station,
       source |-> n] \in Sent
  BY <1>1, <1>5 DEF Sent
<1>9. QED
  BY <1>2, <1>3, <1>6, <1>7, <1>8, SendKeeps DEF r

LEMMA TokenKeeps ==
    ASSUME RingInv, NEW n \in powered, NEW p \in Port,
           NEW count \in 0 .. Nretry_token,
           Send(n, [p EXCEPT !.RetryCount = count, !.active = FALSE,
                             !.master_state = "PASS_TOKEN"],
                "TOKEN", p.Next_Station),
           Alone(n), ~GivenTo(n, p), p.rx \in {port[n].rx, NoFrame}
    PROVE  RingInv'
<1> DEFINE q == [p EXCEPT !.RetryCount = count, !.active = FALSE,
                          !.master_state = "PASS_TOKEN"]
           r == [q EXCEPT !.silence = 0]
<1>1. n \in Stations /\ NodeOK(n, port[n])
  BY NodeIs
<1>2. Send(n, q, "TOKEN", p.Next_Station)
  OBVIOUS
<1>3. q \in Port
  BY DEF Port
<1>4. /\ q.master_state = "PASS_TOKEN" /\ q.rx = p.rx
      /\ r.master_state = "PASS_TOKEN" /\ r.rx = p.rx /\ r.active = FALSE
  BY DEF Port
<1>5. p.Next_Station \in Destinations
  BY Addresses DEF Port
<1> HIDE DEF q, r
<1>6. NodeOK(n, r)
  BY <1>1, <1>4, Frames DEF NodeOK, GivenTo, Tokened
<1>7. ~Tok(n, q)
  BY <1>4 DEF Tok, Tokened, GivenTo
<1>8. [type |-> "TOKEN", destination |-> p.Next_Station, source |-> n] \in Sent
  BY <1>1, <1>5 DEF Sent
<1>9. QED
  BY <1>2, <1>3, <1>6, <1>7, <1>8, SendKeeps DEF r

LEMMA SendTokenKeeps ==
    ASSUME RingInv, NEW n \in powered, NEW p \in Port, SendToken(n, p),
           Alone(n), ~GivenTo(n, p), p.rx \in {port[n].rx, NoFrame}
    PROVE  RingInv'
<1>1. 0 \in 0 .. Nretry_token
  BY MSTPConstants
<1>2. QED
  BY <1>1, TokenKeeps DEF SendToken

----------------------------------------------------------------------------
(* The states of a node that has no token.                                 *)

LEMMA DoneInitializingKeeps ==
    ASSUME RingInv, NEW n \in powered, DoneInitializing(n)
    PROVE  RingInv'
<1> DEFINE p == port[n]
           q == [p EXCEPT !.Next_Station = n, !.Poll_Station = n,
                          !.TokenCount = Npoll, !.SoleMaster = FALSE,
                          !.master_state = "IDLE"]
<1>1. p \in Port /\ NodeOK(n, p) /\ n \in Stations /\ n \in 0 .. Nmax_master
  BY NodeIs
<1>2. Become(n, q)
  BY DEF DoneInitializing
<1>3. Npoll \in 0 .. Npoll
  BY MSTPConstants
<1> HIDE DEF p
<1>4. q \in Port
  BY <1>1, <1>3 DEF Port
<1>5. /\ q.master_state = "IDLE" /\ q.rx = p.rx /\ q.silence = p.silence
  BY <1>1 DEF Port
<1> HIDE DEF q
<1>6. NodeOK(n, q)
  BY <1>1, <1>5 DEF NodeOK, Tokened
<1>7. /\ Tok(n, q) => Tok(n, p) /\ InHand(n, q)
      /\ ~Watch(q)
  BY <1>5 DEF Tok, Tokened, GivenTo, InHand, Watch
<1>8. QED
  BY <1>2, <1>4, <1>5, <1>6, <1>7, BecomeKeeps DEF p

(* What a node makes of a frame that it does not answer.                   *)
LEMMA Clears ==
    ASSUME RingInv, NEW n \in powered, NEW p \in Port, Become(n, p),
           p.silence = port[n].silence, p.rx = NoFrame,
           p.master_state \in {"IDLE", "NO_TOKEN"}
    PROVE  RingInv'
<1>1. NodeOK(n, p)
  BY Frames DEF NodeOK, GivenTo, Tokened
<1>2. ~Tok(n, p) /\ ~Watch(p)
  BY Frames DEF Tok, GivenTo, Tokened, Watch
<1>3. QED
  BY <1>1, <1>2, BecomeKeeps

LEMMA IDLEKeeps ==
    ASSUME RingInv, NEW n \in powered, IDLE(n)
    PROVE  RingInv'
<1> DEFINE p == port[n]
           cleared == [p EXCEPT !.rx = NoFrame]
<1>1. p \in Port /\ NodeOK(n, p) /\ n \in Stations
  BY NodeIs
<1> HIDE DEF p
<1>2. /\ cleared \in Port /\ cleared.rx = NoFrame
      /\ cleared.silence = p.silence /\ cleared.master_state = p.master_state
      /\ cleared.active = p.active
  BY <1>1, Frames DEF Port
<1>3. CASE LostToken(n)
  <2> DEFINE q == [p EXCEPT !.active = FALSE, !.rx = NoFrame,
                            !.master_state = "NO_TOKEN"]
  <2>1. Become(n, q)
    BY <1>3 DEF LostToken, p
  <2>2. q \in Port /\ q.silence = p.silence /\ q.rx = NoFrame
        /\ q.master_state = "NO_TOKEN"
    BY <1>1, Frames DEF Port
  <2> HIDE DEF q
  <2>3. QED
    BY <2>1, <2>2, Clears DEF p
<1>4. CASE ReceivedToken(n)
  <2> DEFINE q == [p EXCEPT !.rx = NoFrame, !.FrameCount = 0,
                            !.SoleMaster = FALSE, !.master_state = "USE_TOKEN"]
  <2>1. Become(n, q) /\ GivenTo(n, p)
    BY <1>4 DEF ReceivedToken, ForMe, GivenTo, p
  <2>2. 0 \in 0 .. Nmax_info_frames /\ 0 < Nmax_info_frames
    BY MSTPConstants
  <2>3. q \in Port
    BY <1>1, <2>2, Frames DEF Port
  <2>4. q.silence = p.silence /\ q.rx = NoFrame
        /\ q.master_state = "USE_TOKEN" /\ q.FrameCount = 0
    BY <1>1 DEF Port
  <2> HIDE DEF q
  <2>5. NodeOK(n, q)
    BY <2>2, <2>4, Frames DEF NodeOK, GivenTo
  <2>6. Tok(n, p) /\ InHand(n, q) /\ ~Watch(q)
    BY <2>1, <2>4 DEF Tok, InHand, Watch
  <2>7. QED
    BY <2>1, <2>3, <2>4, <2>5, <2>6, BecomeKeeps DEF p
<1>5. ASSUME NEW type \in {"REPLY_TO_POLL_FOR_MASTER", "TEST_RESPONSE"},
             p.master_state = "IDLE", p.rx \notin {NoFrame, Invalid},
             Send(n, cleared, type, p.rx.source)
      PROVE  RingInv'
  <2>1. p.rx.source \in Stations
    BY <1>1, <1>5 DEF NodeOK
  <2>2. [type |-> type, destination |-> p.rx.source, source |-> n] \in Sent
    BY <1>1, <2>1, Addresses DEF Sent
  <2> DEFINE q == [cleared EXCEPT !.silence = 0]
  <2>3. /\ q.rx = NoFrame /\ q.master_state = "IDLE"
    BY <1>1, <1>2, <1>5 DEF Port
  <2> HIDE DEF cleared, q
  <2>4. NodeOK(n, q)
    BY <2>3, Frames DEF NodeOK, GivenTo, Tokened
  <2>5. ~Tok(n, cleared) /\ ~Watch(cleared)
    BY <1>2, <1>5, Frames DEF Tok, GivenTo, Tokened, Watch
  <2>6. QED
    BY <1>2, <1>5, <2>2, <2>4, <2>5, SendKeeps DEF q
<1>6. CASE ReceivedPFM(n) \/ ReceivedTestRequest(n)
  BY <1>5, <1>6
  DEF ReceivedPFM, ReceivedTestRequest, IdleWithFrame, Received, p
<1>7. CASE ReceivedDataNeedingReply(n)
  <2> DEFINE q == [p EXCEPT !.master_state = "ANSWER_DATA_REQUEST"]
  <2>1. Become(n, q) /\ p.rx.type = "DATA_EXPECTING_REPLY"
    BY <1>7 DEF ReceivedDataNeedingReply, p
  <2>2. q \in Port /\ q.silence = p.silence /\ q.rx = p.rx
        /\ q.master_state = "ANSWER_DATA_REQUEST"
    BY <1>1 DEF Port
  <2> HIDE DEF q
  <2>3. NodeOK(n, q)
    BY <1>1, <2>1, <2>2 DEF NodeOK, Tokened
  <2>4. ~Tok(n, q) /\ ~Watch(q)
    BY <2>1, <2>2 DEF Tok, GivenTo, Tokened, Watch
  <2>5. QED
    BY <2>1, <2>2, <2>3, <2>4, BecomeKeeps DEF p
<1>8. CASE FrameDone(n)
  <2>1. Become(n, cleared) /\ p.master_state = "IDLE"
    BY <1>8 DEF FrameDone, p
  <2> HIDE DEF cleared
  <2>2. QED
    BY <1>2, <2>1, Clears DEF p
<1>9. QED
  BY <1>3, <1>4, <1>6, <1>7, <1>8 DEF IDLE

LEMMA ANSWER_DATA_REQUESTKeeps ==
    ASSUME RingInv, NEW n \in powered, ANSWER_DATA_REQUEST(n)
    PROVE  RingInv'
<1> DEFINE p == port[n]
           q == [p EXCEPT !.rx = NoFrame, !.master_state = "IDLE"]
           r == [q EXCEPT !.silence = 0]
<1>1. p \in Port /\ NodeOK(n, p) /\ n \in Stations
  BY NodeIs
<1>2. PICK type \in {"DATA_NOT_EXPECTING_REPLY", "REPLY_POSTPONED"} :
        Send(n, q, type, p.rx.source)
  BY DEF ANSWER_DATA_REQUEST
<1>3. p.rx.source \in Stations
  BY <1>1 DEF ANSWER_DATA_REQUEST, NodeOK
<1> HIDE DEF p
<1>4. [type |-> type, destination |-> p.rx.source, source |-> n] \in Sent
  BY <1>1, <1>3, Addresses DEF Sent
<1>5. q \in Port
  BY <1>1, Frames DEF Port
<1>6. /\ q.master_state = "IDLE" /\ q.rx = NoFrame
      /\ r.master_state = "IDLE" /\ r.rx = NoFrame
  BY <1>1 DEF Port
<1> HIDE DEF q, r
<1>7. NodeOK(n, r) /\ ~Tok(n, q) /\ ~Watch(q)
  BY <1>6, Frames DEF NodeOK, Tok, GivenTo, Tokened, Watch
<1>8. QED
  BY <1>2, <1>4, <1>5, <1>7, SendKeeps DEF r

LEMMA SawKeeps ==
    ASSUME RingInv, NEW n \in powered, SawFrame(n) \/ SawTokenUser(n)
    PROVE  RingInv'
<1> DEFINE p == port[n]
           q == [p EXCEPT !.master_state = "IDLE"]
<1>1. p \in Port /\ NodeOK(n, p)
  BY NodeIs
<1>2. Become(n, q)
  BY DEF SawFrame, SawTokenUser
<1> HIDE DEF p
<1>3. /\ q \in Port /\ q.silence = p.silence /\ q.rx = p.rx
      /\ q.master_state = "IDLE"
  BY <1>1 DEF Port
<1> HIDE DEF q
<1>4. NodeOK(n, q)
  BY <1>1, <1>3 DEF NodeOK, Tokened
<1>5. (Tok(n, q) => Tok(n, p) /\ InHand(n, q)) /\ ~Watch(q)
  BY <1>3 DEF Tok, GivenTo, Tokened, InHand, Watch
<1>6. QED
  BY <1>2, <1>3, <1>4, <1>5, BecomeKeeps DEF p

(* A node that looks for a successor, for lack of the one it knew or       *)
(* because the token counts as lost.                                       *)
LEMMA LooksForSuccessor ==
    ASSUME RingInv, NEW n \in powered, Alone(n), ~GivenTo(n, port[n]),
           NEW station \in 0 .. Nmax_master,
           Poll(n, [port[n] EXCEPT !.Poll_Station = Following(station),
                                   !.Next_Station = n, !.TokenCount = 0])
    PROVE  RingInv'
<1> DEFINE p == port[n]
           q == [p EXCEPT !.Poll_Station = Following(station),
                          !.Next_Station = n, !.TokenCount = 0]
<1>1. p \in Port /\ n \in Stations
  BY NodeIs
<1>2. Following(station) \in 0 .. Nmax_master /\ 0 \in 0 .. Npoll
  BY Addresses, MSTPConstants
<1>3. Poll(n, q) /\ ~GivenTo(n, p)
  OBVIOUS
<1> HIDE DEF p
<1>4. q \in Port /\ q.rx = p.rx
  BY <1>1, <1>2 DEF Port
<1> HIDE DEF q
<1>5. ~GivenTo(n, q)
  BY <1>3, <1>4 DEF GivenTo
<1>6. QED
  BY <1>3, <1>4, <1>5, PollKeeps DEF p

LEMMA NO_TOKENKeeps ==
    ASSUME RingInv, NEW n \in powered, NO_TOKEN(n)
    PROVE  RingInv'
<1>1. CASE SawFrame(n)
  BY <1>1, SawKeeps
<1>2. CASE GenerateToken(n)
  <2>1. n \in Stations /\ n \in 0 .. Nmax_master /\ port[n].silence \in Nat
    BY NodeIs
  <2>2. my_timeout(n) \in Nat /\ my_timeout(n) >= Tno_token
    BY <2>1, Times
  <2>3. port[n].silence >= my_timeout(n)
    BY <1>2, <2>1, <2>2, MSTPConstants DEF GenerateToken, InMySlot
  <2>4. port[n].silence >= Tno_token
    BY <2>1, <2>2, <2>3, Times
  <2>5. QED
    BY <1>2, <2>1, <2>4, WhoIsAlone, LooksForSuccessor DEF GenerateToken
<1>3. QED
  BY <1>1, <1>2 DEF NO_TOKEN

LEMMA PASS_TOKENKeeps ==
    ASSUME RingInv, NEW n \in powered, PASS_TOKEN(n)
    PROVE  RingInv'
<1> DEFINE p == port[n]
<1>1. p \in Port /\ n \in Stations
  BY NodeIs
<1>2. CASE SawTokenUser(n)
  BY <1>2, SawKeeps
<1>3. CASE RetrySendToken(n)
  <2> DEFINE q == [p EXCEPT !.RetryCount = @ + 1, !.active = FALSE]
             count == p.RetryCount + 1
             r == [p EXCEPT !.RetryCount = count, !.active = FALSE,
                            !.master_state = "PASS_TOKEN"]
  <2>1. p.master_state = "PASS_TOKEN" /\ p.silence > Tusage_timeout
        /\ p.RetryCount < Nretry_token
        /\ Send(n, q, "TOKEN", p.Next_Station)
    BY <1>3 DEF RetrySendToken
  <2>2. Alone(n) /\ ~GivenTo(n, p)
    BY <2>1, WhoIsAlone
  <2>3. p.RetryCount \in 0 .. Nretry_token
    BY <1>1 DEF Port
  <2>4. count \in 0 .. Nretry_token
    BY <2>1, <2>3, MSTPConstants
  <2>5. q = r
    <3> HIDE DEF p
    <3>1. QED
      BY <1>1, <2>1 DEF Port
  <2> HIDE DEF q, count
  <2>6. Send(n, r, "TOKEN", p.Next_Station)
    BY <2>1, <2>5
  <2>7. QED
    BY <1>1, <2>2, <2>4, <2>6, TokenKeeps
<1>4. CASE FindNewSuccessor(n)
  <2>1. Alone(n) /\ ~GivenTo(n, p)
    BY <1>4, WhoIsAlone DEF FindNewSuccessor
  <2>2. p.Next_Station \in 0 .. Nmax_master
    BY <1>1, Addresses DEF Port
  <2>3. QED
    BY <1>4, <2>1, <2>2, LooksForSuccessor DEF FindNewSuccessor
<1>5. QED
  BY <1>2, <1>3, <1>4 DEF PASS_TOKEN

----------------------------------------------------------------------------
(* The states of the node that has the token.                              *)

(* It goes on with it, or drops it.                                        *)
LEMMA HolderGoesOn ==
    ASSUME RingInv, NEW n \in powered, Tokened(port[n]),
           NEW p \in Port, Become(n, p),
           p.silence = port[n].silence, p.rx \in {port[n].rx, NoFrame},
           \/ p.master_state \in {"IDLE", "DONE_WITH_TOKEN"}
           \/ p.master_state = "USE_TOKEN" /\ p.FrameCount < Nmax_info_frames
    PROVE  RingInv'
<1>1. NodeOK(n, port[n])
  BY NodeIs
<1>2. ~GivenTo(n, p)
  BY <1>1, Frames DEF NodeOK, GivenTo
<1>3. NodeOK(n, p)
  BY <1>1, <1>2, Frames DEF NodeOK
<1>4. Tok(n, port[n]) /\ ~Watch(p) /\ (Tok(n, p) => InHand(n, p))
  BY <1>2 DEF Tok, Tokened, InHand, Watch
<1>5. QED
  BY <1>3, <1>4, BecomeKeeps

LEMMA USE_TOKENKeeps ==
    ASSUME RingInv, NEW n \in powered, USE_TOKEN(n)
    PROVE  RingInv'
<1> DEFINE p == port[n]
<1>1. p \in Port /\ NodeOK(n, p) /\ n \in Stations
  BY NodeIs
<1>2. p.master_state = "USE_TOKEN" /\ Tokened(p)
  BY DEF USE_TOKEN, NothingToSend, SendData, Tokened
<1>3. CASE NothingToSend(n)
  <2> DEFINE q == [p EXCEPT !.FrameCount = Nmax_info_frames,
                            !.master_state = "DONE_WITH_TOKEN"]
  <2>1. Become(n, q)
    BY <1>3 DEF NothingToSend
  <2>2. Nmax_info_frames \in 0 .. Nmax_info_frames
    BY MSTPConstants
  <2> HIDE DEF p
  <2>3. q \in Port /\ q.silence = p.silence /\ q.rx = p.rx
        /\ q.master_state = "DONE_WITH_TOKEN"
    BY <1>1, <2>2 DEF Port
  <2> HIDE DEF q
  <2>4. QED
    BY <1>2, <2>1, <2>3, HolderGoesOn DEF p
<1>4. CASE SendData(n)
  <2>1. PICK f \in TRAFFIC, state \in {"WAIT_FOR_REPLY", "DONE_WITH_TOKEN"} :
            Send(n, [p EXCEPT !.FrameCount = p.FrameCount + 1,
                              !.master_state = state], f.type, f.destination)
    BY <1>4 DEF SendData
  <2> DEFINE q == [p EXCEPT !.FrameCount = p.FrameCount + 1,
                            !.master_state = state]
             r == [q EXCEPT !.silence = 0]
  <2>2. /\ f.type \in {"DATA_EXPECTING_REPLY", "DATA_NOT_EXPECTING_REPLY",
                       "TEST_REQUEST"}
        /\ f.destination \in Destinations
    BY MSTPConstants DEF Destinations
  <2>3. [type |-> f.type, destination |-> f.destination, source |-> n] \in Sent
    BY <1>1, <2>2 DEF Sent
  <2>4. Alone(n) /\ ~GivenTo(n, p)
    BY <1>1, <1>2, WhoIsAlone DEF Tok, NodeOK
  <2>5. p.FrameCount + 1 \in 0 .. Nmax_info_frames
    <3>1. p.FrameCount \in 0 .. Nmax_info_frames
      BY <1>1 DEF Port
    <3>2. p.FrameCount < Nmax_info_frames
      BY <1>1, <1>2 DEF NodeOK
    <3>3. QED
      BY <3>1, <3>2, MSTPConstants
  <2>6. Send(n, q, f.type, f.destination)
    BY <2>1
  <2> HIDE DEF p
  <2>7. q \in Port
    BY <1>1, <2>5 DEF Port
  <2>8. /\ q.master_state = state /\ r.master_state = state
        /\ q.rx = p.rx /\ r.rx = p.rx
    BY <1>1 DEF Port
  <2> HIDE DEF q, r
  <2>9. NodeOK(n, r)
    BY <1>1, <2>4, <2>8 DEF NodeOK, GivenTo
  <2>10. ~Watch(q) /\ f.type # "TOKEN"
    BY <2>2, <2>8 DEF Watch
  <2>11. QED
    BY <2>3, <2>4, <2>6, <2>7, <2>9, <2>10, SendKeeps DEF r
<1>5. QED
  BY <1>3, <1>4 DEF USE_TOKEN

LEMMA WAIT_FOR_REPLYKeeps ==
    ASSUME RingInv, NEW n \in powered, WAIT_FOR_REPLY(n)
    PROVE  RingInv'
<1> DEFINE p == port[n]
<1>1. p \in Port
  BY NodeIs
<1>2. Tokened(p)
  BY DEF WAIT_FOR_REPLY, ReplyTimeout, ReplyOrUnexpected, Tokened
<1>3. CASE ReplyTimeout(n)
  <2> DEFINE q == [p EXCEPT !.FrameCount = Nmax_info_frames,
                            !.master_state = "DONE_WITH_TOKEN"]
  <2>1. Become(n, q)
    BY <1>3 DEF ReplyTimeout
  <2>2. Nmax_info_frames \in 0 .. Nmax_info_frames
    BY MSTPConstants
  <2> HIDE DEF p
  <2>3. q \in Port /\ q.silence = p.silence /\ q.rx = p.rx
        /\ q.master_state = "DONE_WITH_TOKEN"
    BY <1>1, <2>2 DEF Port
  <2> HIDE DEF q
  <2>4. QED
    BY <1>2, <2>1, <2>3, HolderGoesOn DEF p
<1>4. CASE ReplyOrUnexpected(n)
  <2>1. PICK state \in {"DONE_WITH_TOKEN", "IDLE"} :
            Become(n, [p EXCEPT !.rx = NoFrame, !.master_state = state])
    BY <1>4 DEF ReplyOrUnexpected
  <2> DEFINE q == [p EXCEPT !.rx = NoFrame, !.master_state = state]
  <2>2. Become(n, q)
    BY <2>1
  <2> HIDE DEF p
  <2>3. q \in Port /\ q.silence = p.silence /\ q.rx = NoFrame
        /\ q.master_state = state
    BY <1>1, Frames DEF Port
  <2> HIDE DEF q
  <2>4. QED
    BY <1>2, <2>2, <2>3, HolderGoesOn DEF p
<1>5. QED
  BY <1>3, <1>4 DEF WAIT_FOR_REPLY

LEMMA DONE_WITH_TOKENKeeps ==
    ASSUME RingInv, NEW n \in powered, DONE_WITH_TOKEN(n)
    PROVE  RingInv'
<1> DEFINE p == port[n]
           again == [p EXCEPT !.master_state = "USE_TOKEN"]
<1>1. p \in Port /\ NodeOK(n, p) /\ n \in Stations /\ n \in 0 .. Nmax_master
  BY NodeIs
<1>2. p.master_state = "DONE_WITH_TOKEN" /\ Tokened(p)
  BY DEF DONE_WITH_TOKEN, Tokened
<1>3. Alone(n) /\ ~GivenTo(n, p)
  BY <1>1, <1>2, WhoIsAlone DEF Tok, NodeOK
<1>4. /\ 0 \in 0 .. Nmax_info_frames /\ 0 < Nmax_info_frames
      /\ 1 \in 0 .. Npoll
      /\ p.Poll_Station \in 0 .. Nmax_master /\ p.Next_Station \in 0 .. Nmax_master
      /\ Following(p.Poll_Station) \in 0 .. Nmax_master
      /\ Following(p.Next_Station) \in 0 .. Nmax_master
      /\ Following(n) \in 0 .. Nmax_master
  <2>1. p.Poll_Station \in 0 .. Nmax_master /\ p.Next_Station \in 0 .. Nmax_master
    BY <1>1, Addresses DEF Port
  <2>2. QED
    BY <1>1, <2>1, Addresses, MSTPConstants
<1>5. TimeToPass(n) => p.TokenCount + 1 \in 0 .. Npoll
  <2>1. p.TokenCount \in 0 .. Npoll
    BY <1>1 DEF Port
  <2>2. QED
    BY <2>1, MSTPConstants DEF TimeToPass
<1>6. CASE SendAnotherFrame(n) /\ Become(n, again)
  <2>1. p.FrameCount < Nmax_info_frames /\ Become(n, again)
    BY <1>6 DEF SendAnotherFrame
  <2> HIDE DEF p
  <2>2. /\ again \in Port /\ again.silence = p.silence /\ again.rx = p.rx
        /\ again.master_state = "USE_TOKEN" /\ again.FrameCount = p.FrameCount
    BY <1>1 DEF Port
  <2> HIDE DEF again
  <2>3. QED
    BY <1>2, <2>1, <2>2, HolderGoesOn DEF p
<1>7. CASE /\ TimeToPass(n)
           /\ Become(n, [again EXCEPT !.FrameCount = 0, !.TokenCount = @ + 1])
  <2> DEFINE q == [again EXCEPT !.FrameCount = 0, !.TokenCount = @ + 1]
  <2>1. p.TokenCount + 1 \in 0 .. Npoll /\ Become(n, q)
    BY <1>5, <1>7
  <2> HIDE DEF p
  <2>2. q \in Port
    BY <1>1, <1>4, <2>1 DEF Port
  <2>3. /\ q.silence = p.silence /\ q.rx = p.rx
        /\ q.master_state = "USE_TOKEN" /\ q.FrameCount = 0
    BY <1>1 DEF Port
  <2> HIDE DEF q
  <2>4. QED
    BY <1>2, <1>4, <2>1, <2>2, <2>3, HolderGoesOn DEF p
<1>8. ASSUME NEW q \in Port, q.rx = p.rx, SendToken(n, q) \/ Poll(n, q)
      PROVE  RingInv'
  <2>1. ~GivenTo(n, q)
    BY <1>3, <1>8 DEF GivenTo
  <2>2. QED
    BY <1>3, <1>8, <2>1, SendTokenKeeps, PollKeeps
<1>9. ASSUME NEW poll \in 0 .. Nmax_master, NEW next \in Stations,
             NEW count \in 0 .. Npoll
      PROVE  /\ [p EXCEPT !.Poll_Station = poll] \in Port
             /\ [p EXCEPT !.Poll_Station = poll].rx = p.rx
             /\ [p EXCEPT !.TokenCount = count] \in Port
             /\ [p EXCEPT !.TokenCount = count].rx = p.rx
             /\ [p EXCEPT !.Poll_Station = poll, !.TokenCount = count] \in Port
             /\ [p EXCEPT !.Poll_Station = poll, !.TokenCount = count].rx = p.rx
             /\ [p EXCEPT !.Poll_Station = poll, !.Next_Station = next,
                          !.TokenCount = count] \in Port
             /\ [p EXCEPT !.Poll_Station = poll, !.Next_Station = next,
                          !.TokenCount = count].rx = p.rx
  <2> HIDE DEF p
  <2>1. /\ [p EXCEPT !.Poll_Station = poll] \in Port
        /\ [p EXCEPT !.Poll_Station = poll].rx = p.rx
        /\ [p EXCEPT !.TokenCount = count] \in Port
        /\ [p EXCEPT !.TokenCount = count].rx = p.rx
    BY <1>1 DEF Port
  <2>2. /\ [p EXCEPT !.Poll_Station = poll, !.TokenCount = count] \in Port
        /\ [p EXCEPT !.Poll_Station = poll, !.TokenCount = count].rx = p.rx
    BY <1>1 DEF Port
  <2>3. /\ [p EXCEPT !.Poll_Station = poll, !.Next_Station = next,
                     !.TokenCount = count] \in Port
        /\ [p EXCEPT !.Poll_Station = poll, !.Next_Station = next,
                     !.TokenCount = count].rx = p.rx
    BY <1>1 DEF Port
  <2>4. QED
    BY <2>1, <2>2, <2>3
<1>10. CASE Poll(n, [p EXCEPT !.Poll_Station = Following(n)])
  BY <1>1, <1>4, <1>8, <1>9, <1>10
<1>11. CASE TimeToPass(n) /\ SendToken(n, [p EXCEPT !.TokenCount = @ + 1])
  BY <1>1, <1>4, <1>5, <1>8, <1>9, <1>11
<1>12. CASE Poll(n, [p EXCEPT !.Poll_Station = Following(p.Next_Station),
                              !.Next_Station = n, !.TokenCount = 1])
  <2> DEFINE q == [p EXCEPT !.Poll_Station = Following(p.Next_Station),
                            !.Next_Station = n, !.TokenCount = 1]
  <2>1. q \in Port /\ q.rx = p.rx
    BY <1>1, <1>4, <1>9, ZenonT(90)
  <2>2. Poll(n, q)
    BY <1>12
  <2> HIDE DEF q
  <2>3. QED
    BY <1>8, <2>1, <2>2
<1>13. CASE SendToken(n, [p EXCEPT !.Poll_Station = n, !.TokenCount = 1])
  BY <1>1, <1>4, <1>8, <1>9, <1>13
<1>14. CASE Poll(n, [p EXCEPT !.Poll_Station = Following(@)])
  BY <1>1, <1>4, <1>8, <1>9, <1>14
<1>15. QED
  BY <1>6, <1>7, <1>10, <1>11, <1>12, <1>13, <1>14 DEF DONE_WITH_TOKEN

LEMMA POLL_FOR_MASTERKeeps ==
    ASSUME RingInv, NEW n \in powered, POLL_FOR_MASTER(n)
    PROVE  RingInv'
<1> DEFINE p == port[n]
           cleared == [p EXCEPT !.rx = NoFrame]
           using == [cleared EXCEPT !.FrameCount = 0, !.master_state = "USE_TOKEN"]
<1>1. p \in Port /\ NodeOK(n, p) /\ n \in Stations /\ n \in 0 .. Nmax_master
  BY NodeIs
<1>2. Tokened(p)
  BY DEF POLL_FOR_MASTER, ReceivedReplyToPFM, ReceivedUnexpectedFrame,
         NoReplyToPFM, Tokened
<1>3. Alone(n)
  BY <1>2, WhoIsAlone DEF Tok
<1>4. /\ 0 \in 0 .. Npoll
      /\ 0 \in 0 .. Nmax_info_frames /\ 0 < Nmax_info_frames
      /\ Following(p.Poll_Station) \in 0 .. Nmax_master
  BY <1>1, Addresses, MSTPConstants DEF Port
<1>5. cleared \in Port /\ cleared.rx = NoFrame /\ cleared.silence = p.silence
      /\ cleared.Poll_Station = p.Poll_Station
      /\ cleared.SoleMaster = p.SoleMaster
  <2> HIDE DEF p
  <2>1. QED
    BY <1>1, Frames DEF Port
<1>6. ASSUME NEW q \in Port, q.rx = NoFrame, SendToken(n, q) \/ Poll(n, q)
      PROVE  RingInv'
  <2>1. ~GivenTo(n, q)
    BY <1>6, Frames DEF GivenTo
  <2>2. QED
    BY <1>3, <1>6, <2>1, SendTokenKeeps, PollKeeps
<1>7. CASE ReceivedReplyToPFM(n)
  <2> DEFINE q == [p EXCEPT !.SoleMaster = FALSE, !.rx = NoFrame,
                            !.Next_Station = p.rx.source, !.Poll_Station = n,
                            !.TokenCount = 0]
  <2>1. SendToken(n, q) /\ p.rx.type = "REPLY_TO_POLL_FOR_MASTER"
    BY <1>7 DEF ReceivedReplyToPFM
  <2>2. p.rx.source \in Stations
    BY <1>1, <2>1 DEF NodeOK
  <2>3. q \in Port /\ q.rx = NoFrame
    <3> HIDE DEF p
    <3>1. QED
      BY <1>1, <1>4, <2>2, Frames DEF Port
  <2> HIDE DEF q
  <2>4. QED
    BY <1>6, <2>1, <2>3
<1>8. CASE ReceivedUnexpectedFrame(n)
  <2> DEFINE q == [p EXCEPT !.rx = NoFrame, !.master_state = "IDLE"]
  <2>1. Become(n, q)
    BY <1>8 DEF ReceivedUnexpectedFrame
  <2>2. q \in Port /\ q.rx = NoFrame /\ q.silence = p.silence
        /\ q.master_state = "IDLE"
    <3> HIDE DEF p
    <3>1. QED
      BY <1>1, Frames DEF Port
  <2> HIDE DEF q
  <2>3. QED
    BY <2>1, <2>2, Clears
<1>9. CASE NoReplyToPFM(n)
  <2>1. \/ Become(n, using)
        \/ SendToken(n, cleared)
        \/ Poll(n, [cleared EXCEPT !.Poll_Station = Following(cleared.Poll_Station)])
        \/ Become(n, [using EXCEPT !.SoleMaster = TRUE])
    BY <1>9 DEF NoReplyToPFM
  <2> HIDE DEF cleared
  <2>2. CASE SendToken(n, cleared)
    BY <1>5, <1>6, <2>2
  <2>3. CASE Poll(n, [cleared EXCEPT !.Poll_Station = Following(cleared.Poll_Station)])
    <3> DEFINE q == [cleared EXCEPT !.Poll_Station = Following(cleared.Poll_Station)]
    <3>1. q \in Port /\ q.rx = NoFrame
      BY <1>4, <1>5 DEF Port
    <3>2. Poll(n, q)
      BY <2>3
    <3> HIDE DEF q
    <3>3. QED
      BY <1>6, <3>1, <3>2
  <2>4. /\ using \in Port /\ using.rx = NoFrame
        /\ using.silence = cleared.silence
        /\ using.master_state = "USE_TOKEN" /\ using.FrameCount = 0
    BY <1>4, <1>5 DEF Port
  <2>5. CASE Become(n, using)
    <3> HIDE DEF using
    <3>1. QED
      BY <1>2, <1>4, <1>5, <2>4, <2>5, HolderGoesOn
  <2>6. CASE Become(n, [using EXCEPT !.SoleMaster = TRUE])
    <3> DEFINE q == [using EXCEPT !.SoleMaster = TRUE]
    <3> HIDE DEF using
    <3>1. /\ q \in Port /\ q.rx = NoFrame
          /\ q.silence = cleared.silence
          /\ q.master_state = "USE_TOKEN" /\ q.FrameCount = 0
      BY <2>4 DEF Port
    <3>2. Become(n, q)
      BY <2>6
    <3> HIDE DEF q
    <3>3. QED
      BY <1>2, <1>4, <1>5, <3>1, <3>2, HolderGoesOn
  <2>7. QED
    BY <2>1, <2>2, <2>3, <2>5, <2>6
<1>10. QED
  BY <1>7, <1>8, <1>9 DEF POLL_FOR_MASTER

----------------------------------------------------------------------------
(* Behaviours.                                                             *)

LEMMA RingBegins == Init => RingInv
<1> SUFFICES ASSUME Init PROVE RingInv
  OBVIOUS
<1>1. /\ port = [n \in Stations |-> Initialized(n)]
      /\ powered = {} /\ faults = 0
  BY DEF Init
<1>2. \A n \in Stations : Initialized(n) \in Port /\ NodeOK(n, Initialized(n))
  BY Initial
<1>3. TypeOK /\ NodesOK
  BY <1>1, <1>2, MSTPConstants DEF TypeOK, NodesOK
<1>4. OneToken /\ OneWatcher /\ Handed /\ Heeded
  BY <1>1 DEF OneToken, OneWatcher, Handed, Heeded
<1>5. QED
  BY <1>3, <1>4 DEF RingInv

LEMMA RingGoesOn == RingInv /\ [Next]_vars => RingInv'
<1> SUFFICES ASSUME RingInv, [Next]_vars PROVE RingInv'
  OBVIOUS
<1>1. ASSUME NEW n \in Stations, MSTP_Master_Node_FSM(n) PROVE RingInv'
  <2>1. n \in powered
    BY <1>1 DEF MSTP_Master_Node_FSM
  <2>2. CASE DoneInitializing(n)
    BY <2>1, <2>2, DoneInitializingKeeps
  <2>3. CASE IDLE(n)
    BY <2>1, <2>3, IDLEKeeps
  <2>4. CASE USE_TOKEN(n)
    BY <2>1, <2>4, USE_TOKENKeeps
  <2>5. CASE WAIT_FOR_REPLY(n)
    BY <2>1, <2>5, WAIT_FOR_REPLYKeeps
  <2>6. CASE ANSWER_DATA_REQUEST(n)
    BY <2>1, <2>6, ANSWER_DATA_REQUESTKeeps
  <2>7. CASE DONE_WITH_TOKEN(n)
    BY <2>1, <2>7, DONE_WITH_TOKENKeeps
  <2>8. CASE PASS_TOKEN(n)
    BY <2>1, <2>8, PASS_TOKENKeeps
  <2>9. CASE NO_TOKEN(n)
    BY <2>1, <2>9, NO_TOKENKeeps
  <2>10. CASE POLL_FOR_MASTER(n)
    BY <2>1, <2>10, POLL_FOR_MASTERKeeps
  <2>11. QED
    BY <1>1, <2>2, <2>3, <2>4, <2>5, <2>6, <2>7, <2>8, <2>9, <2>10
    DEF MSTP_Master_Node_FSM
<1>2. ASSUME NEW n \in Stations, MSTP_Init(n) \/ PowerFails(n) PROVE RingInv'
  BY <1>2, PowerKeeps
<1>3. CASE Tick
  BY <1>3, TickKeeps
<1>4. CASE UNCHANGED vars
  BY <1>4 DEF vars, RingInv, TypeOK, NodesOK, OneToken, OneWatcher, Handed, Heeded
<1>5. QED
  BY <1>1, <1>2, <1>3, <1>4 DEF Next

(* The types of the fields of every mstp_port_struct_t, and the invariant  *)
(* that the rest follows from.                                             *)
THEOREM RingStaysOne == Spec => []RingInv
  BY RingBegins, RingGoesOn, PTL DEF Spec

AtMostOne == holders = {} \/ \E n \in Stations : holders = {n}

LEMMA HoldersAre == RingInv => AtMostOne
<1> SUFFICES ASSUME RingInv PROVE AtMostOne
  OBVIOUS
<1>1. /\ \A n \in powered : HasToken(n) <=> Tok(n, port[n])
      /\ \A n \in powered : WatchesToken(n) <=> Watch(port[n])
      /\ \A n : HasToken(n) \/ WatchesToken(n) => n \in powered
  BY DEF HasToken, Tok, Tokened, GivenTo, ForMe, WatchesToken, Watch
<1>2. \A m, n \in Stations : HasToken(m) /\ HasToken(n) => m = n
  BY <1>1 DEF RingInv, OneToken
<1>3. \A m, n \in Stations : WatchesToken(m) /\ WatchesToken(n) => m = n
  BY <1>1 DEF RingInv, OneWatcher
<1>4. CASE \E n \in Stations : HasToken(n)
  <2>1. PICK n \in Stations : HasToken(n)
    BY <1>4
  <2>2. holders = {n}
    BY <1>2, <2>1 DEF holders
  <2>3. QED
    BY <2>2 DEF AtMostOne
<1>5. CASE ~\E n \in Stations : HasToken(n)
  <2>1. holders = {n \in Stations : WatchesToken(n)}
    BY <1>5 DEF holders
  <2>2. QED
    BY <1>3, <2>1 DEF AtMostOne
<1>6. QED
  BY <1>4, <1>5

(* However many frames are lost or disturbed and nodes fail and start,     *)
(* there is at most one token on the bus: a node makes one (GenerateToken, *)
(* FindNewSuccessor, a retry) only when no other has it or watches it.     *)
THEOREM BusImplementsToken == Spec => ImplementsToken
<1>1. Init => TheToken!Init
  <2> SUFFICES ASSUME Init PROVE holders = {}
    BY DEF TheToken!Init
  <2>1. QED
    BY DEF Init, holders, HasToken, WatchesToken
<1>2. AtMostOne /\ AtMostOne' /\ [Next]_vars => [TheToken!Next]_holders
  BY DEF AtMostOne, TheToken!Next, TheToken!Lose, TheToken!Create, TheToken!Pass
<1>3. QED
  BY <1>1, <1>2, HoldersAre, RingStaysOne, PTL
  DEF Spec, ImplementsToken, TheToken!Spec

-----------------------------------------------------------------------------
(* The calendar: the days before a month and before a year, and what taking *)
(* months and years off a number of days comes to.                          *)

(* A set of which 0 is a member, and with every number its successor, has  *)
(* every natural number: the form of induction the provers can use.        *)
THEOREM SetInduction ==
  ASSUME NEW S, 0 \in S, \A n \in Nat : n \in S => n + 1 \in S
  PROVE  Nat \subseteq S
<1> SUFFICES ASSUME NEW n \in Nat, n \notin S PROVE FALSE
  OBVIOUS
<1> DEFINE T == {k \in 0..n : k \notin S}
           f == [k \in T |-> k - 1]
<1>1. IsFiniteSet(T) /\ IsFiniteSet(T \ {n}) /\ Cardinality(T \ {n}) = Cardinality(T) - 1
  <2>1. IsFiniteSet(0..n)
    BY FS_Interval
  <2>2. IsFiniteSet(T)
    <3>1. T \in SUBSET (0..n) OBVIOUS
    <3> QED BY <2>1, <3>1, FS_Subset
  <2>3. n \in T OBVIOUS
  <2> QED BY <2>2, <2>3, FS_RemoveElement
<1>2. Cardinality(T) \in Nat
  BY <1>1, FS_CardinalityType
<1>3. f \in [T -> T \ {n}]
  <2> SUFFICES ASSUME NEW k \in T PROVE k - 1 \in T \ {n} OBVIOUS
  <2>1. k # 0 OBVIOUS
  <2>2. k - 1 \in 0..n BY <2>1
  <2>3. k - 1 \notin S BY <2>2
  <2> QED BY <2>2, <2>3
<1>4. PICK x, y \in T : x # y /\ f[x] = f[y]
  <2> HIDE DEF T, f
  <2> QED BY <1>1, <1>2, <1>3, FS_PigeonHole
<1> QED BY <1>4

(* A set of naturals that is not empty has a least one. *)
LeastOf(S) == CHOOSE k \in S : \A j \in S : k <= j

(* There is one. *)
LEMMA LeastIs ==
  ASSUME NEW S \in SUBSET Nat, S # {}
  PROVE  LeastOf(S) \in S /\ \A j \in S : LeastOf(S) <= j
<1> DEFINE B == {n \in Nat : \A j \in S : n <= j}
<1>1. 0 \in B OBVIOUS
<1>2. PICK m \in S : m \in B
  <2>1. PICK s \in S : TRUE OBVIOUS
  <2>2. s + 1 \notin B BY <2>1
  <2>3. PICK n \in Nat : n \in B /\ n + 1 \notin B
    <3> SUFFICES ASSUME \A n \in Nat : n \in B => n + 1 \in B PROVE FALSE OBVIOUS
    <3> HIDE DEF B
    <3>1. Nat \subseteq B BY <1>1, SetInduction
    <3> QED BY <2>1, <2>2, <3>1
  <2>4. PICK j \in S : ~(n + 1 <= j) BY <2>3
  <2>5. j = n BY <2>3, <2>4
  <2> QED BY <2>3, <2>5
<1> QED BY <1>2 DEF LeastOf

(* How many days a year has over 365. *)
Leap(y) == IF datetime_is_leap_year(y) THEN 1 ELSE 0

(* The days of year y before month m, m being up to the one after the last. *)
MonthStart(y, m) ==
  <<0, 0, 31, 59, 90, 120, 151, 181, 212, 243, 273, 304, 334, 365>>[m + 1]
    + IF m > 2 THEN Leap(y) ELSE 0

(* A month begins where the one before it has ended. *)
LEMMA MonthStarts ==
  ASSUME NEW y \in Nat, NEW m \in 0..12
  PROVE  /\ MonthStart(y, m) \in Nat /\ MonthStart(y, m + 1) \in Nat
         /\ MonthStart(y, m + 1) = MonthStart(y, m) + datetime_month_days(y, m)
         /\ datetime_month_days(y, m) \in Nat
<1>1. Leap(y) \in 0..1 /\ (Leap(y) = 1 <=> datetime_is_leap_year(y))
  BY DEF Leap
<1>2. m = 0 \/ m = 1 \/ m = 2 \/ m = 3 \/ m = 4 \/ m = 5 \/ m = 6
      \/ m = 7 \/ m = 8 \/ m = 9 \/ m = 10 \/ m = 11 \/ m = 12
  OBVIOUS
<1>3. CASE m = 0 BY <1>1, <1>3 DEF MonthStart, datetime_month_days
<1>4. CASE m = 2 BY <1>1, <1>4 DEF MonthStart, datetime_month_days, MonthDays
<1>5. CASE m # 0 /\ m # 2 BY <1>1, <1>2, <1>5 DEF MonthStart, datetime_month_days, MonthDays
<1> QED BY <1>3, <1>4, <1>5

(* The months of a year are its days. *)
LEMMA MonthsEnd ==
  ASSUME NEW y \in Nat
  PROVE  MonthStart(y, 1) = 0 /\ MonthStart(y, 13) = 365 + Leap(y) /\ Leap(y) \in 0..1
BY DEF MonthStart, Leap

(* The days of the months before one. *)
LEMMA DaysOfMonths ==
  ASSUME NEW y \in Nat, NEW m \in 1..12
  PROVE  DaysOfMonthsBefore[<<y, m>>] = MonthStart(y, m)
<1> DEFINE D == Nat \X (1..12)
           Sum(G, p) == IF p[2] = 1 THEN 0
                        ELSE G[<<p[1], p[2] - 1>>] + datetime_month_days(p[1], p[2] - 1)
           G == [p \in D |-> MonthStart(p[1], p[2])]
           F == DaysOfMonthsBefore
<1>1. G = [p \in D |-> Sum(G, p)]
  <2>1. ASSUME NEW p \in D PROVE G[p] = Sum(G, p)
    <3>1. CASE p[2] = 1 BY <3>1, MonthsEnd
    <3>2. CASE p[2] # 1
      <4>1. p[1] \in Nat /\ p[2] - 1 \in 1..11 /\ p[2] - 1 \in 0..12 /\ p[2] - 1 + 1 = p[2] BY <3>2
      <4>2. G[<<p[1], p[2] - 1>>] = MonthStart(p[1], p[2] - 1) BY <4>1
      <4>3. MonthStart(p[1], p[2] - 1 + 1) = MonthStart(p[1], p[2] - 1) + datetime_month_days(p[1], p[2] - 1)
        BY <4>1, MonthStarts
      <4> QED BY <3>2, <4>1, <4>2, <4>3
    <3> QED BY <3>1, <3>2
  <2> DEFINE R == [p \in D |-> Sum(G, p)]
  <2>2. G = R BY <2>1
  <2> QED BY <2>2
<1> HIDE DEF G
<1>2. F = [p \in D |-> Sum(F, p)]
  <2>1. \E H : H = [p \in D |-> Sum(H, p)] BY <1>1
  <2> QED BY <2>1 DEF DaysOfMonthsBefore
<1>3. \A p \in D : F[p] = Sum(F, p) BY <1>2
<1> DEFINE S == {n \in Nat : n + 1 <= 12 => F[<<y, n + 1>>] = MonthStart(y, n + 1)}
<1>4. 0 \in S
  <2>1. F[<<y, 1>>] = 0
    <3>1. <<y, 1>> \in D OBVIOUS
    <3> HIDE DEF D, F
    <3>2. F[<<y, 1>>] = Sum(F, <<y, 1>>) BY <1>3, <3>1
    <3> QED BY <3>2
  <2> QED BY <2>1, MonthsEnd
<1>5. ASSUME NEW n \in Nat, n \in S PROVE n + 1 \in S
  <2> SUFFICES ASSUME n + 2 <= 12 PROVE F[<<y, n + 2>>] = MonthStart(y, n + 2) OBVIOUS
  <2>1. F[<<y, n + 2>>] = F[<<y, n + 1>>] + datetime_month_days(y, n + 1)
    <3>1. <<y, n + 2>> \in D /\ n + 2 # 1 /\ n + 2 - 1 = n + 1 OBVIOUS
    <3> HIDE DEF D, F
    <3>2. F[<<y, n + 2>>] = Sum(F, <<y, n + 2>>) BY <1>3, <3>1
    <3> QED BY <3>1, <3>2
  <2>2. F[<<y, n + 1>>] = MonthStart(y, n + 1) BY <1>5
  <2>3. n + 1 \in 0..12 /\ n + 1 + 1 = n + 2 OBVIOUS
  <2>4. MonthStart(y, n + 1 + 1) = MonthStart(y, n + 1) + datetime_month_days(y, n + 1)
    BY <2>3, MonthStarts
  <2> QED BY <2>1, <2>2, <2>3, <2>4
<1> HIDE DEF S
<1>6. Nat \subseteq S BY <1>4, <1>5, SetInduction
<1>7. m - 1 \in Nat /\ m - 1 + 1 = m OBVIOUS
<1> QED BY <1>6, <1>7 DEF S

-----------------------------------------------------------------------------
(* The months from m on in which day t of year y may be. *)
MonthsLeft(y, m, t) == {k \in m..12 : t < MonthStart(y, k + 1)}

(* The date of day t of year y, if one of those months has it. *)
DateIn(y, K, t) ==
  IF K # {} THEN <<y, LeastOf(K), t - MonthStart(y, LeastOf(K)) + 1>> ELSE <<>>

(* What taking months off comes to: the day of the year is what is left and *)
(* the months before.                                                       *)
Ending(y, m, d) ==
  IF m <= 12 THEN DateIn(y, MonthsLeft(y, m, d + MonthStart(y, m)), d + MonthStart(y, m)) ELSE <<>>

(* One month taken off does not change what it comes to. *)
LEMMA EndingSteps ==
  ASSUME NEW y \in Nat, NEW m \in Nat, NEW d \in Nat
  PROVE  /\ datetime_month_days(y, m) \in Nat
         /\ d >= datetime_month_days(y, m) =>
              Ending(y, m, d) = Ending(y, m + 1, d - datetime_month_days(y, m))
         /\ ~(d >= datetime_month_days(y, m)) => Ending(y, m, d) = <<y, m, d + 1>>
<1> DEFINE md == datetime_month_days(y, m)
           t == d + MonthStart(y, m)
<1>1. CASE m <= 12
  <2>1. m \in 0..12 BY <1>1
  <2>2. MonthStart(y, m) \in Nat /\ md \in Nat /\ MonthStart(y, m + 1) = MonthStart(y, m) + md
    BY <2>1, MonthStarts
  <2>3. Ending(y, m, d) = DateIn(y, MonthsLeft(y, m, t), t) BY <1>1 DEF Ending
  <2> HIDE DEF md
  <2>4. ASSUME d >= md PROVE Ending(y, m, d) = Ending(y, m + 1, d - md)
    <3>1. d - md + MonthStart(y, m + 1) = t BY <2>2
    <3> HIDE DEF t
    <3>2. MonthsLeft(y, m + 1, t) = MonthsLeft(y, m, t)
      <4>1. ASSUME NEW k \in m..12, t < MonthStart(y, k + 1) PROVE k \in (m + 1)..12
        BY <2>2, <2>4, <4>1 DEF t
      <4>2. (m + 1)..12 \subseteq m..12 OBVIOUS
      <4> QED BY <4>1, <4>2 DEF MonthsLeft
    <3>3. CASE m + 1 <= 12
      BY <2>3, <3>1, <3>2, <3>3 DEF Ending
    <3>4. CASE m = 12
      <4>1. MonthsLeft(y, 13, t) = {} BY DEF MonthsLeft
      <4>2. MonthsLeft(y, m, t) = {} BY <3>2, <3>4, <4>1
      <4>3. Ending(y, m, d) = <<>> BY <2>3, <4>2 DEF DateIn
      <4>4. Ending(y, m + 1, d - md) = <<>> BY <3>4 DEF Ending
      <4> QED BY <4>3, <4>4
    <3> QED BY <2>1, <3>3, <3>4
  <2>5. ASSUME ~(d >= md) PROVE Ending(y, m, d) = <<y, m, d + 1>>
    <3>1. m \in MonthsLeft(y, m, t)
      BY <2>1, <2>2, <2>5 DEF MonthsLeft
    <3>2. MonthsLeft(y, m, t) \in SUBSET Nat /\ \A k \in MonthsLeft(y, m, t) : m <= k
      BY <2>1 DEF MonthsLeft
    <3> HIDE DEF t
    <3>3. LeastOf(MonthsLeft(y, m, t)) = m
      BY <3>1, <3>2, LeastIs
    <3>4. Ending(y, m, d) = <<y, m, t - MonthStart(y, m) + 1>> BY <2>3, <3>1, <3>3 DEF DateIn
    <3>5. t - MonthStart(y, m) + 1 = d + 1 BY <2>2 DEF t
    <3> QED BY <3>4, <3>5
  <2> QED BY <2>2, <2>4, <2>5 DEF md
<1>2. CASE m > 12
  <2>1. md = 0 BY <1>2 DEF datetime_month_days
  <2>2. Ending(y, m, d) = <<>> /\ Ending(y, m + 1, d - md) = <<>> BY <1>2 DEF Ending
  <2> QED BY <2>1, <2>2
<1> QED BY <1>1, <1>2

(* What is left after a month. *)
MonthsFurther(p) == <<p[1], p[2] + 1, p[3] - datetime_month_days(p[1], p[2])>>

(* Taking months off comes to an end, and is what its definition says. *)
LEMMA MonthsOffStep ==
  \A p \in Nat \X Nat \X Nat :
    MonthsOff[p] = IF p[3] >= datetime_month_days(p[1], p[2])
                   THEN MonthsOff[MonthsFurther(p)] ELSE <<p[1], p[2], p[3] + 1>>
<1> DEFINE D == Nat \X Nat \X Nat
           Body(G, p) == IF p[3] >= datetime_month_days(p[1], p[2])
                         THEN G[MonthsFurther(p)] ELSE <<p[1], p[2], p[3] + 1>>
           G == [p \in D |-> Ending(p[1], p[2], p[3])]
           R == [p \in D |-> Body(G, p)]
           F == MonthsOff
<1>1. ASSUME NEW p \in D PROVE G[p] = Body(G, p)
  <2> DEFINE y == p[1] m == p[2] d == p[3] md == datetime_month_days(y, m)
  <2>1. y \in Nat /\ m \in Nat /\ d \in Nat OBVIOUS
  <2>2. MonthsFurther(p) = <<y, m + 1, d - md>> BY DEF MonthsFurther
  <2>3. G[p] = Ending(y, m, d) OBVIOUS
  <2> HIDE DEF y, m, d, md
  <2>4. /\ md \in Nat
        /\ d >= md => Ending(y, m, d) = Ending(y, m + 1, d - md)
        /\ ~(d >= md) => Ending(y, m, d) = <<y, m, d + 1>>
    <3>1. \A a, b, c \in Nat :
            /\ datetime_month_days(a, b) \in Nat
            /\ c >= datetime_month_days(a, b) =>
                 Ending(a, b, c) = Ending(a, b + 1, c - datetime_month_days(a, b))
            /\ ~(c >= datetime_month_days(a, b)) => Ending(a, b, c) = <<a, b, c + 1>>
      BY EndingSteps
    <3>2. /\ datetime_month_days(y, m) \in Nat
          /\ d >= datetime_month_days(y, m) =>
               Ending(y, m, d) = Ending(y, m + 1, d - datetime_month_days(y, m))
          /\ ~(d >= datetime_month_days(y, m)) => Ending(y, m, d) = <<y, m, d + 1>>
      <4> HIDE DEF D, G
      <4> QED BY <2>1, <3>1, Zenon
    <3> QED BY <3>2 DEF md
  <2>5. CASE d >= md
    <3>1. <<y, m + 1, d - md>> \in D BY <2>1, <2>4, <2>5
    <3>2. G[<<y, m + 1, d - md>>] = Ending(y, m + 1, d - md) BY <3>1
    <3> HIDE DEF G
    <3>3. Body(G, p) = G[MonthsFurther(p)] BY <2>5 DEF y, m, d, md
    <3> QED BY <2>2, <2>3, <2>4, <2>5, <3>2, <3>3
  <2>6. CASE ~(d >= md)
    <3> HIDE DEF G
    <3>1. Body(G, p) = <<y, m, d + 1>> BY <2>6 DEF y, m, d, md
    <3> QED BY <2>3, <2>4, <2>6, <3>1
  <2> QED BY <2>5, <2>6
<1>2. G = R
  <2> HIDE DEF Body
  <2> QED BY <1>1
<1>3. F = [p \in D |-> Body(F, p)]
  <2> HIDE DEF G
  <2>1. \E H : H = [p \in D |-> Body(H, p)] BY <1>2
  <2> QED BY <2>1 DEF MonthsOff, MonthsFurther
<1> HIDE DEF F, D
<1>4. \A p \in D : F[p] = Body(F, p) BY <1>3
<1> QED BY <1>4 DEF F, D

-----------------------------------------------------------------------------
(* From the first of January, the months before the one the day is in are  *)
(* taken off.                                                              *)
LEMMA MonthsOffFinds ==
  ASSUME NEW y \in Nat, NEW m \in 1..12, NEW d \in Nat, MonthStart(y, m) <= d,
         d < MonthStart(y, m + 1)
  PROVE  MonthsOff[<<y, 1, d>>] = <<y, m, d - MonthStart(y, m) + 1>>
<1> DEFINE F == MonthsOff
           S == {n \in Nat : n + 1 <= m => /\ MonthStart(y, n + 1) <= d
                                           /\ F[<<y, 1, d>>] = F[<<y, n + 1, d - MonthStart(y, n + 1)>>]}
<1>1. 0 \in S BY MonthsEnd
<1>2. \A k \in 1..12 : /\ MonthStart(y, k) \in Nat /\ MonthStart(y, k + 1) \in Nat
                       /\ MonthStart(y, k + 1) = MonthStart(y, k) + datetime_month_days(y, k)
                       /\ datetime_month_days(y, k) \in Nat
  <2> TAKE k \in 1..12
  <2>1. k \in 0..12 OBVIOUS
  <2> QED BY <2>1, MonthStarts
<1>3. \A k \in 1..m : MonthStart(y, k) <= MonthStart(y, m)
  <2> DEFINE T == {n \in Nat : m - n \in 1..m => MonthStart(y, m - n) <= MonthStart(y, m)}
  <2>1. 0 \in T BY <1>2
  <2>2. ASSUME NEW n \in Nat, n \in T PROVE n + 1 \in T
    <3> SUFFICES ASSUME m - (n + 1) \in 1..m PROVE MonthStart(y, m - (n + 1)) <= MonthStart(y, m)
      OBVIOUS
    <3>1. m - (n + 1) \in 1..12 /\ m - (n + 1) + 1 = m - n /\ m - n \in 1..m OBVIOUS
    <3>2. MonthStart(y, m - n) <= MonthStart(y, m) BY <2>2, <3>1
    <3>3. MonthStart(y, m - (n + 1)) <= MonthStart(y, m - n) BY <1>2, <3>1
    <3>4. m - n \in 1..12 /\ m \in 1..12 BY <3>1
    <3> QED BY <1>2, <3>1, <3>2, <3>3, <3>4
  <2> HIDE DEF T
  <2>3. Nat \subseteq T BY <2>1, <2>2, SetInduction
  <2> TAKE k \in 1..m
  <2>4. m - k \in Nat /\ m - (m - k) = k BY <2>3
  <2> QED BY <2>3, <2>4 DEF T
<1>4. ASSUME NEW n \in Nat, n \in S PROVE n + 1 \in S
  <2> SUFFICES ASSUME n + 2 <= m
               PROVE  /\ MonthStart(y, n + 2) <= d
                      /\ F[<<y, 1, d>>] = F[<<y, n + 2, d - MonthStart(y, n + 2)>>]
    OBVIOUS
  <2> DEFINE k == n + 1 s == MonthStart(y, k) md == datetime_month_days(y, k)
  <2>1. k \in 1..12 /\ k + 1 = n + 2 /\ n + 2 \in 1..m OBVIOUS
  <2>2. s \in Nat /\ md \in Nat /\ MonthStart(y, n + 2) = s + md BY <1>2, <2>1
  <2>3. MonthStart(y, m) \in Nat BY <1>2
  <2>4. MonthStart(y, n + 2) <= MonthStart(y, m) BY <1>3, <2>1
  <2>5. MonthStart(y, n + 2) <= d BY <2>2, <2>3, <2>4
  <2>6. s <= d /\ F[<<y, 1, d>>] = F[<<y, k, d - s>>] BY <1>4
  <2>7. d - s >= md BY <2>2, <2>5
  <2>8. F[<<y, k, d - s>>] = F[<<y, n + 2, d - s - md>>]
    <3> DEFINE p == <<y, k, d - s>>
    <3>1. p \in Nat \X Nat \X Nat BY <2>1, <2>2, <2>6
    <3>2. F[p] = F[MonthsFurther(p)]
      <4>1. p[3] >= datetime_month_days(p[1], p[2]) BY <2>7
      <4> HIDE DEF p, F
      <4> QED BY <3>1, <4>1, MonthsOffStep DEF F
    <3>3. MonthsFurther(p) = <<y, n + 2, d - s - md>> BY <2>1 DEF MonthsFurther
    <3> QED BY <3>2, <3>3
  <2>9. d - s - md = d - MonthStart(y, n + 2) BY <2>2
  <2> HIDE DEF F, s, md
  <2> QED BY <2>5, <2>6, <2>8, <2>9
<1> HIDE DEF S
<1>5. Nat \subseteq S BY <1>1, <1>4, SetInduction
<1>6. F[<<y, 1, d>>] = F[<<y, m, d - MonthStart(y, m)>>]
  <2>1. m - 1 \in Nat /\ m - 1 + 1 = m /\ m <= m OBVIOUS
  <2> QED BY <1>5, <2>1 DEF S
<1>7. F[<<y, m, d - MonthStart(y, m)>>] = <<y, m, d - MonthStart(y, m) + 1>>
  <2> DEFINE p == <<y, m, d - MonthStart(y, m)>>
  <2>1. MonthStart(y, m) \in Nat BY <1>2
  <2>2. p \in Nat \X Nat \X Nat BY <2>1
  <2>3. ~(p[3] >= datetime_month_days(p[1], p[2])) BY <1>2
  <2>4. p[1] = y /\ p[2] = m /\ p[3] = d - MonthStart(y, m) OBVIOUS
  <2> HIDE DEF p
  <2>5. F[p] = <<p[1], p[2], p[3] + 1>> BY <2>2, <2>3, MonthsOffStep
  <2> QED BY <2>4, <2>5 DEF p
<1> QED BY <1>6, <1>7

-----------------------------------------------------------------------------
(* The days of the years before y, as the calendar's rule counts them from *)
(* the year 0.                                                             *)
YearStart(y) == 365 * y + ((y + 3) \div 4) - ((y + 99) \div 100) + ((y + 399) \div 400)

(* A year begins where the one before it has ended. *)
LEMMA YearStarts ==
  ASSUME NEW y \in Nat
  PROVE  /\ YearStart(y) \in Int
         /\ YearStart(y + 1) = YearStart(y) + 365 + Leap(y)
<1>1. (y + 4) \div 4 = ((y + 3) \div 4) + IF y % 4 = 0 THEN 1 ELSE 0
  OBVIOUS
<1>2. (y + 100) \div 100 = ((y + 99) \div 100) + IF y % 100 = 0 THEN 1 ELSE 0
  OBVIOUS
<1>3. (y + 400) \div 400 = ((y + 399) \div 400) + IF y % 400 = 0 THEN 1 ELSE 0
  OBVIOUS
<1>4. (y % 400 = 0 => y % 100 = 0) /\ (y % 100 = 0 => y % 4 = 0)
  OBVIOUS
<1>5. Leap(y) = (IF y % 4 = 0 THEN 1 ELSE 0) - (IF y % 100 = 0 THEN 1 ELSE 0)
                  + IF y % 400 = 0 THEN 1 ELSE 0
  BY <1>4 DEF Leap, datetime_is_leap_year
<1> DEFINE a == (y + 3) \div 4 b == (y + 99) \div 100 c == (y + 399) \div 400
           u == y % 4 = 0 v == y % 100 = 0 w == y % 400 = 0
<1>6. a \in Int /\ b \in Int /\ c \in Int OBVIOUS
<1>7. YearStart(y) = 365 * y + a - b + c BY DEF YearStart
<1>8. YearStart(y + 1) = 365 * (y + 1) + ((y + 4) \div 4) - ((y + 100) \div 100) + ((y + 400) \div 400)
  BY DEF YearStart
<1> HIDE DEF a, b, c
<1> QED BY <1>1, <1>2, <1>3, <1>5, <1>6, <1>7, <1>8 DEF a, b, c

(* The leap years between are counted one by one. *)
LEMMA LeapYears ==
  ASSUME NEW y \in Nat, y >= 1900
  PROVE  365 * (y - 1900) + Cardinality(LeapYearsBefore(y)) = YearStart(y) - YearStart(1900)
<1> DEFINE S == {n \in Nat : 365 * n + Cardinality(LeapYearsBefore(1900 + n))
                               = YearStart(1900 + n) - YearStart(1900)}
<1>1. 0 \in S
  <2>1. LeapYearsBefore(1900) = {} BY DEF LeapYearsBefore
  <2>2. Cardinality(LeapYearsBefore(1900)) = 0 BY <2>1, FS_EmptySet
  <2>3. YearStart(1900) \in Int BY YearStarts
  <2> QED BY <2>2, <2>3
<1>2. ASSUME NEW n \in Nat, n \in S PROVE n + 1 \in S
  <2> DEFINE z == 1900 + n L == LeapYearsBefore(z) M == LeapYearsBefore(z + 1)
  <2>1. IsFiniteSet(L) /\ z \notin L
    <3>1. IsFiniteSet(1900..(z - 1)) BY FS_Interval
    <3>2. L \in SUBSET (1900..(z - 1)) BY DEF LeapYearsBefore
    <3> QED BY <3>1, <3>2, FS_Subset
  <2>2. M = IF datetime_is_leap_year(z) THEN L \cup {z} ELSE L
    <3>1. \A k : k \in 1900..z <=> k \in 1900..(z - 1) \/ k = z OBVIOUS
    <3>2. z + 1 - 1 = z OBVIOUS
    <3> HIDE DEF z
    <3> QED BY <3>1, <3>2 DEF LeapYearsBefore
  <2>3. Cardinality(L) \in Nat BY <2>1, FS_CardinalityType
  <2>4. Cardinality(M) = Cardinality(L) + Leap(z)
    <3> HIDE DEF L, M, z
    <3>1. CASE datetime_is_leap_year(z) BY <2>1, <2>2, <3>1, FS_AddElement DEF Leap
    <3>2. CASE ~datetime_is_leap_year(z) BY <2>2, <2>3, <3>2 DEF Leap
    <3> QED BY <3>1, <3>2
  <2>5. YearStart(1900) \in Int /\ YearStart(z) \in Int
        /\ YearStart(z + 1) = YearStart(z) + 365 + Leap(z) BY YearStarts
  <2>6. 365 * n + Cardinality(L) = YearStart(z) - YearStart(1900) BY <1>2
  <2>7. Leap(z) \in 0..1 BY DEF Leap
  <2>8. 365 * (n + 1) + Cardinality(M) = YearStart(z + 1) - YearStart(1900)
    <3> HIDE DEF L, M, z
    <3> QED BY <2>3, <2>4, <2>5, <2>6, <2>7
  <2>9. z + 1 = 1900 + (n + 1) OBVIOUS
  <2> QED BY <2>8, <2>9
<1> HIDE DEF S
<1>3. Nat \subseteq S BY <1>1, <1>2, SetInduction
<1>4. y - 1900 \in Nat /\ 1900 + (y - 1900) = y OBVIOUS
<1> QED BY <1>3, <1>4 DEF S

(* The years from y on that day t, counted from the year 0, may be in. *)
YearsAt(y, t) == {k \in Nat : y <= k /\ t < YearStart(k + 1)}

(* The days of a year. *)
YearLength(y) == IF datetime_is_leap_year(y) THEN 366 ELSE 365

(* What taking years off comes to. *)
YearEnding(y, d) ==
  LET t == d + YearStart(y)
      k == LeastOf(YearsAt(y, t))
  IN  IF YearsAt(y, t) # {} THEN MonthsOff[<<k, 1, t - YearStart(k)>>] ELSE <<>>

(* One year taken off does not change what it comes to. *)
LEMMA YearEndingSteps ==
  ASSUME NEW y \in Nat, NEW d \in Nat
  PROVE  /\ YearIsLeft(y, d) =>
              /\ d - YearLength(y) \in Nat
              /\ YearEnding(y, d) = YearEnding(y + 1, d - YearLength(y))
         /\ ~YearIsLeft(y, d) => YearEnding(y, d) = MonthsOff[<<y, 1, d>>]
<1> DEFINE t == d + YearStart(y) len == YearLength(y)
<1>1. YearStart(y) \in Int /\ YearStart(y + 1) = YearStart(y) + len /\ len \in Nat
  BY YearStarts DEF Leap, YearLength
<1>2. YearIsLeft(y, d) <=> d >= len BY DEF YearIsLeft, YearLength
<1> HIDE DEF len
<1>3. t \in Int BY <1>1
<1>4. ASSUME d >= len PROVE YearEnding(y, d) = YearEnding(y + 1, d - len)
  <2>1. d - len + YearStart(y + 1) = t BY <1>1
  <2> HIDE DEF t
  <2>2. YearsAt(y, t) = YearsAt(y + 1, t)
    <3>1. ~(t < YearStart(y + 1)) BY <1>1, <1>4 DEF t
    <3>2. \A k \in Nat : y <= k /\ k # y => y + 1 <= k OBVIOUS
    <3>3. \A k \in Nat : y + 1 <= k => y <= k OBVIOUS
    <3> QED BY <3>1, <3>2, <3>3 DEF YearsAt
  <2> QED BY <2>1, <2>2 DEF YearEnding, t
<1>5. ASSUME ~(d >= len) PROVE YearEnding(y, d) = MonthsOff[<<y, 1, d>>]
  <2>1. t < YearStart(y + 1) BY <1>1, <1>5
  <2>2. t - YearStart(y) = d BY <1>1
  <2>3. y \in YearsAt(y, t) BY <2>1 DEF YearsAt
  <2> HIDE DEF t
  <2>4. YearsAt(y, t) \in SUBSET Nat /\ \A k \in YearsAt(y, t) : y <= k BY DEF YearsAt
  <2>5. LeastOf(YearsAt(y, t)) = y BY <2>3, <2>4, LeastIs
  <2> QED BY <2>2, <2>3, <2>5 DEF YearEnding, t
<1> QED BY <1>1, <1>2, <1>4, <1>5 DEF len

(* What is left after a year. *)
YearsFurther(p) == <<p[1] + 1, p[2] - YearLength(p[1])>>

(* Taking years off comes to an end, and is what its definition says. *)
LEMMA YearsOffStep ==
  \A p \in Nat \X Nat :
    YearsOff[p] = IF YearIsLeft(p[1], p[2])
                  THEN YearsOff[YearsFurther(p)] ELSE MonthsOff[<<p[1], 1, p[2]>>]
<1> DEFINE D == Nat \X Nat
           Body(G, p) == IF YearIsLeft(p[1], p[2])
                         THEN G[YearsFurther(p)] ELSE MonthsOff[<<p[1], 1, p[2]>>]
           G == [p \in D |-> YearEnding(p[1], p[2])]
           R == [p \in D |-> Body(G, p)]
           F == YearsOff
<1>1. ASSUME NEW p \in D PROVE G[p] = Body(G, p)
  <2> DEFINE y == p[1] d == p[2] q == YearsFurther(p)
  <2>1. y \in Nat /\ d \in Nat OBVIOUS
  <2>2. G[p] = YearEnding(y, d) OBVIOUS
  <2>3. q = <<y + 1, d - YearLength(y)>> BY DEF YearsFurther
  <2>6. YearIsLeft(p[1], p[2]) <=> YearIsLeft(y, d) OBVIOUS
  <2>7. MonthsOff[<<p[1], 1, p[2]>>] = MonthsOff[<<y, 1, d>>] OBVIOUS
  <2> HIDE DEF y, d
  <2>4. CASE YearIsLeft(y, d)
    <3>1. d - YearLength(y) \in Nat /\ YearEnding(y, d) = YearEnding(y + 1, d - YearLength(y))
      BY <2>1, <2>4, YearEndingSteps
    <3> HIDE DEF q
    <3>2. q \in D BY <2>1, <2>3, <3>1
    <3>3. G[q] = YearEnding(q[1], q[2]) BY <3>2
    <3>4. G[q] = YearEnding(y, d) BY <2>3, <3>1, <3>3
    <3> HIDE DEF G
    <3>5. Body(G, p) = G[q] BY <2>4, <2>6 DEF q
    <3> QED BY <2>2, <3>4, <3>5
  <2>5. CASE ~YearIsLeft(y, d)
    <3>1. YearEnding(y, d) = MonthsOff[<<y, 1, d>>] BY <2>1, <2>5, YearEndingSteps
    <3> HIDE DEF G
    <3>2. Body(G, p) = MonthsOff[<<y, 1, d>>] BY <2>5, <2>6, <2>7
    <3> QED BY <2>2, <3>1, <3>2
  <2> QED BY <2>4, <2>5
<1>2. G = R
  <2> HIDE DEF Body
  <2> QED BY <1>1
<1>3. F = [p \in D |-> Body(F, p)]
  <2> HIDE DEF G
  <2>1. \E H : H = [p \in D |-> Body(H, p)] BY <1>2
  <2> QED BY <2>1 DEF YearsOff, YearsFurther, YearLength
<1> HIDE DEF F, D
<1>4. \A p \in D : F[p] = Body(F, p) BY <1>3
<1> QED BY <1>4 DEF F, D


(* The step, where a whole year is left. *)
LEMMA YearTaken ==
  ASSUME NEW p \in Nat \X Nat, YearIsLeft(p[1], p[2])
  PROVE  YearsOff[p] = YearsOff[YearsFurther(p)]
BY YearsOffStep

-----------------------------------------------------------------------------
(* The days from the epoch to the first of January of year y. *)
Elapsed(y) == YearStart(y) - YearStart(1900)

(* The years follow each other from the epoch on. *)
LEMMA ElapsedIs ==
  /\ Elapsed(1900) = 0
  /\ \A y \in Nat : Elapsed(y) \in Int /\ Elapsed(y + 1) = Elapsed(y) + 365 + Leap(y)
<1>1. YearStart(1900) \in Int BY YearStarts
<1>2. ASSUME NEW y \in Nat PROVE Elapsed(y) \in Int /\ Elapsed(y + 1) = Elapsed(y) + 365 + Leap(y)
  <2>1. YearStart(y) \in Int /\ YearStart(y + 1) = YearStart(y) + 365 + Leap(y) BY YearStarts
  <2>2. Leap(y) \in Int BY DEF Leap
  <2> QED BY <1>1, <2>1, <2>2 DEF Elapsed
<1> QED BY <1>1, <1>2 DEF Elapsed

(* The years before the one the day is in are taken off. *)
LEMMA YearsOffFinds ==
  ASSUME NEW y \in Nat, y >= 1900, NEW d \in Nat, d <= 364 + Leap(y)
  PROVE  Elapsed(y) \in Nat /\ YearsOff[<<1900, Elapsed(y) + d>>] = MonthsOff[<<y, 1, d>>]
<1> DEFINE F == YearsOff
           t == Elapsed(y) + d
           Z(n) == 1900 + n
           S == {n \in Nat : Z(n) <= y => /\ Elapsed(Z(n)) >= 0
                                          /\ F[<<1900, t>>] = F[<<Z(n), t - Elapsed(Z(n))>>]}
           T == {n \in Nat : y - n >= 1900 => Elapsed(y - n) <= Elapsed(y)}
<1>1. \A k \in Nat : Leap(k) \in 0..1 BY DEF Leap
<1>2. \A k \in Nat : k >= 1900 /\ k <= y => Elapsed(k) <= Elapsed(y)
  <2>1. 0 \in T BY ElapsedIs
  <2>2. ASSUME NEW n \in Nat, n \in T PROVE n + 1 \in T
    <3> SUFFICES ASSUME y - (n + 1) >= 1900 PROVE Elapsed(y - (n + 1)) <= Elapsed(y) OBVIOUS
    <3>1. y - (n + 1) \in Nat /\ y - (n + 1) + 1 = y - n /\ y - n >= 1900 /\ y - n \in Nat OBVIOUS
    <3>2. Elapsed(y - n) <= Elapsed(y) BY <2>2, <3>1
    <3> QED BY <1>1, <3>1, <3>2, ElapsedIs
  <2> HIDE DEF T
  <2>3. Nat \subseteq T BY <2>1, <2>2, SetInduction
  <2> TAKE k \in Nat
  <2> HAVE k >= 1900 /\ k <= y
  <2> DEFINE n == y - k
  <2>4. n \in Nat /\ y - n = k OBVIOUS
  <2> HIDE DEF n
  <2>5. n \in T BY <2>3, <2>4
  <2> QED BY <2>4, <2>5 DEF T
<1>3. 0 \in S
  <2>1. t - Elapsed(1900) = t BY ElapsedIs
  <2> HIDE DEF t
  <2> QED BY <2>1, ElapsedIs
<1>4. ASSUME NEW n \in Nat, n \in S PROVE n + 1 \in S
  <2> SUFFICES ASSUME Z(n) + 1 <= y
               PROVE  /\ Elapsed(Z(n) + 1) >= 0
                      /\ F[<<1900, t>>] = F[<<Z(n) + 1, t - Elapsed(Z(n) + 1)>>]
    <3>1. Z(n + 1) = Z(n) + 1 OBVIOUS
    <3> HIDE DEF Z, t, F
    <3> QED BY <3>1
  <2> DEFINE z == Z(n) e == Elapsed(z) l == YearLength(z)
  <2>1. z \in Nat /\ z <= y /\ z + 1 \in Nat /\ z + 1 >= 1900 OBVIOUS
  <2>2. e >= 0 /\ F[<<1900, t>>] = F[<<z, t - e>>] BY <1>4, <2>1
  <2>3. e \in Int /\ Elapsed(z + 1) = e + l /\ l \in {365, 366} /\ Elapsed(z + 1) \in Int
    BY <2>1, ElapsedIs DEF Leap, YearLength
  <2>4. Elapsed(z + 1) <= Elapsed(y) /\ Elapsed(y) \in Int BY <1>2, <2>1, ElapsedIs
  <2>5. t - e >= l /\ t - e \in Nat /\ t - e - l = t - Elapsed(z + 1) BY <2>2, <2>3, <2>4
  <2> HIDE DEF z, e, t, F
  <2>6. YearIsLeft(z, t - e) BY <2>5 DEF YearIsLeft, YearLength
  <2>7. F[<<z, t - e>>] = F[<<z + 1, t - e - l>>]
    <3> DEFINE p == <<z, t - e>>
    <3>1. p \in Nat \X Nat BY <2>1, <2>5
    <3>2. YearsFurther(p) = <<z + 1, t - e - l>> BY DEF YearsFurther
    <3>4. YearIsLeft(p[1], p[2]) BY <2>6
    <3> HIDE DEF p
    <3>3. F[p] = F[YearsFurther(p)] BY <3>1, <3>4, YearTaken DEF F
    <3> QED BY <3>2, <3>3 DEF p
  <2>8. Elapsed(z + 1) >= 0 BY <2>2, <2>3
  <2>9. F[<<1900, t>>] = F[<<z + 1, t - Elapsed(z + 1)>>] BY <2>2, <2>5, <2>7
  <2> QED BY <2>8, <2>9 DEF z
<1> HIDE DEF S
<1>5. Nat \subseteq S BY <1>3, <1>4, SetInduction
<1>6. Elapsed(y) >= 0 /\ F[<<1900, t>>] = F[<<y, t - Elapsed(y)>>]
  <2>1. y - 1900 \in Nat /\ Z(y - 1900) = y /\ y <= y OBVIOUS
  <2> HIDE DEF Z, t, F
  <2> QED BY <1>5, <2>1 DEF S
<1>7. Elapsed(y) \in Int /\ t - Elapsed(y) = d BY ElapsedIs
<1>8. ~YearIsLeft(y, d) BY DEF YearIsLeft, Leap
<1>9. F[<<y, d>>] = MonthsOff[<<y, 1, d>>]
  <2> DEFINE p == <<y, d>>
  <2>1. p \in Nat \X Nat /\ p[1] = y /\ p[2] = d OBVIOUS
  <2> HIDE DEF p
  <2>2. F[p] = MonthsOff[<<p[1], 1, p[2]>>] BY <1>8, <2>1, YearsOffStep
  <2> QED BY <2>1, <2>2 DEF p
<1> HIDE DEF t, F
<1>10. F[<<1900, t>>] = F[<<y, d>>] BY <1>6, <1>7
<1> QED BY <1>6, <1>7, <1>9, <1>10 DEF t, F

(* A date of the calendar is a month of a year of it, and the day it is     *)
(* counted as is one of that year and of that month.                        *)
LEMMA DaysOfDate ==
  ASSUME NEW y \in Nat, NEW m \in Nat, NEW d \in Nat, datetime_ymd_is_valid(y, m, d)
  PROVE  /\ m \in 1..12 /\ y >= 1900
         /\ MonthStart(y, m) \in Nat /\ MonthStart(y, m) + d - 1 \in Nat
         /\ MonthStart(y, m) + d - 1 < MonthStart(y, m + 1)
         /\ MonthStart(y, m) + d - 1 <= 364 + Leap(y)
         /\ days_since_epoch(y, m, d) = Elapsed(y) + (MonthStart(y, m) + d - 1)
<1>1. m \in 1..12 BY DEF datetime_ymd_is_valid, datetime_month_days
<1>10. m \in 0..12 BY <1>1
<1>11. y >= 1900 /\ d >= 1 /\ d <= datetime_month_days(y, m)
  BY DEF datetime_ymd_is_valid, datetime_month_days
<1>2. /\ MonthStart(y, m) \in Nat /\ MonthStart(y, m + 1) \in Nat
      /\ MonthStart(y, m + 1) = MonthStart(y, m) + datetime_month_days(y, m)
      /\ datetime_month_days(y, m) \in Nat
  BY <1>10, MonthStarts
<1>3. MonthStart(y, m + 1) <= 365 + Leap(y)
  BY <1>1 DEF MonthStart, Leap
<1>4. DaysOfMonthsBefore[<<y, m>>] = MonthStart(y, m) BY <1>1, DaysOfMonths
<1>5. 365 * (y - 1900) + Cardinality(LeapYearsBefore(y)) = Elapsed(y)
  BY <1>11, LeapYears DEF Elapsed
<1>6. days_since_epoch(y, m, d)
        = 365 * (y - 1900) + Cardinality(LeapYearsBefore(y)) + (MonthStart(y, m) + d) - 1
  BY <1>4 DEF days_since_epoch, day_of_year
<1>7. Elapsed(y) \in Int BY ElapsedIs
<1>8. days_since_epoch(y, m, d) = Elapsed(y) + (MonthStart(y, m) + d) - 1
  BY <1>5, <1>6
<1>9. Leap(y) \in 0..1 BY DEF Leap
<1> QED BY <1>1, <1>11, <1>2, <1>3, <1>7, <1>8, <1>9

(* The day that a date of the calendar is counted as is turned back into    *)
(* that date: days_since_epoch_into_ymd is the inverse of days_since_epoch. *)
THEOREM DateComesBack ==
  ASSUME NEW y \in Nat, NEW m \in Nat, NEW d \in Nat, datetime_ymd_is_valid(y, m, d)
  PROVE  /\ days_since_epoch(y, m, d) \in Nat
         /\ days_since_epoch_into_ymd(days_since_epoch(y, m, d)) = <<y, m, d>>
<1> DEFINE t == MonthStart(y, m) + d - 1
<1>1. /\ m \in 1..12 /\ y >= 1900 /\ MonthStart(y, m) \in Nat
      /\ t \in Nat /\ MonthStart(y, m) <= t /\ t < MonthStart(y, m + 1) /\ t <= 364 + Leap(y)
      /\ t - MonthStart(y, m) + 1 = d
      /\ days_since_epoch(y, m, d) = Elapsed(y) + t
  <2>1. d >= 1 BY DEF datetime_ymd_is_valid, datetime_month_days
  <2> QED BY <2>1, DaysOfDate
<1> HIDE DEF t
<1>2. Elapsed(y) \in Nat /\ YearsOff[<<1900, Elapsed(y) + t>>] = MonthsOff[<<y, 1, t>>]
  BY <1>1, YearsOffFinds
<1>3. m \in 1..12 BY <1>1
<1>4. t \in Nat /\ MonthStart(y, m) <= t /\ t < MonthStart(y, m + 1) BY <1>1
<1>5. MonthsOff[<<y, 1, t>>] = <<y, m, t - MonthStart(y, m) + 1>>
  BY <1>3, <1>4, MonthsOffFinds
<1> QED BY <1>1, <1>2, <1>5 DEF days_since_epoch_into_ymd

(* Every day of a year is in one of its months. *)
LEMMA MonthOfDay ==
  ASSUME NEW y \in Nat, NEW t \in Nat, t <= 364 + Leap(y)
  PROVE  \E m \in 1..12 : MonthStart(y, m) <= t /\ t < MonthStart(y, m + 1)
<1> DEFINE M == {m \in 1..12 : t < MonthStart(y, m + 1)}
           k == LeastOf(M)
<1>1. 12 \in M BY MonthsEnd
<1>2. M \in SUBSET Nat OBVIOUS
<1>3. k \in M /\ \A j \in M : k <= j
  <2> HIDE DEF M
  <2> QED BY <1>1, <1>2, LeastIs
<1>4. k \in 1..12 /\ t < MonthStart(y, k + 1) BY <1>3
<1>5. MonthStart(y, k) <= t
  <2> HIDE DEF k
  <2>1. CASE k = 1 BY <2>1, MonthsEnd
  <2>2. CASE k # 1
    <3>1. k - 1 \in 1..12 /\ k - 1 + 1 = k /\ ~(k <= k - 1) BY <1>4, <2>2
    <3>2. ~(t < MonthStart(y, k)) BY <1>3, <3>1
    <3>3. k \in 0..12 BY <1>4
    <3>4. MonthStart(y, k) \in Nat BY <3>3, MonthStarts
    <3> QED BY <3>2, <3>4
  <2> QED BY <2>1, <2>2
<1> QED BY <1>4, <1>5

(* Every day from the epoch on is in a year. *)
LEMMA YearOfDay ==
  ASSUME NEW n \in Nat
  PROVE  \E y \in Nat : y >= 1900 /\ Elapsed(y) <= n /\ n <= Elapsed(y) + 364 + Leap(y)
<1> DEFINE Y == {y \in Nat : y >= 1900 /\ n < Elapsed(y + 1)}
           k == LeastOf(Y)
           S == {j \in Nat : 365 * j <= Elapsed(1900 + j)}
<1>1. 0 \in S BY ElapsedIs
<1>2. ASSUME NEW j \in Nat, j \in S PROVE j + 1 \in S
  <2> DEFINE z == 1900 + j
  <2>1. z \in Nat /\ z + 1 = 1900 + (j + 1) OBVIOUS
  <2>2. 365 * j <= Elapsed(z) BY <1>2
  <2> HIDE DEF z
  <2>3. Leap(z) \in 0..1 BY DEF Leap
  <2>4. Elapsed(z) \in Int /\ Elapsed(z + 1) = Elapsed(z) + 365 + Leap(z) BY <2>1, ElapsedIs
  <2>5. 365 * (j + 1) <= Elapsed(z + 1) BY <2>2, <2>3, <2>4
  <2> QED BY <2>1, <2>5
<1> HIDE DEF S
<1>3. Nat \subseteq S BY <1>1, <1>2, SetInduction
<1>4. 1900 + n \in Y
  <2> DEFINE z == 1900 + n
  <2>1. 365 * (n + 1) <= Elapsed(1900 + (n + 1)) BY <1>3 DEF S
  <2>2. 1900 + (n + 1) = z + 1 /\ z \in Nat /\ z >= 1900 OBVIOUS
  <2> HIDE DEF z
  <2>3. Elapsed(z + 1) \in Int BY <2>2, ElapsedIs
  <2>4. n < Elapsed(z + 1) BY <2>1, <2>2, <2>3
  <2>5. z \in Y BY <2>2, <2>4
  <2> HIDE DEF Y
  <2> QED BY <2>5 DEF z
<1>5. k \in Y /\ \A j \in Y : k <= j
  <2>1. Y \in SUBSET Nat OBVIOUS
  <2> HIDE DEF Y
  <2> QED BY <1>4, <2>1, LeastIs
<1>6. k \in Nat /\ k >= 1900 /\ n < Elapsed(k + 1) BY <1>5
<1>7. Elapsed(k) <= n
  <2> HIDE DEF k
  <2>1. CASE k = 1900 BY <2>1, ElapsedIs
  <2>2. CASE k # 1900
    <3> DEFINE j == k - 1
    <3>1. j \in Nat /\ j + 1 = k /\ j >= 1900 /\ ~(k <= j) BY <1>6, <2>2
    <3> HIDE DEF j
    <3>2. j \notin Y BY <1>5, <3>1
    <3>3. ~(n < Elapsed(k)) BY <3>1, <3>2
    <3>4. Elapsed(k) \in Int BY <1>6, ElapsedIs
    <3> QED BY <3>3, <3>4
  <2> QED BY <2>1, <2>2
<1>8. n <= Elapsed(k) + 364 + Leap(k)
  <2> HIDE DEF k, Y
  <2>1. Leap(k) \in 0..1 BY DEF Leap
  <2> QED BY <1>6, <2>1, ElapsedIs
<1> HIDE DEF k, Y
<1> QED BY <1>6, <1>7, <1>8

(* Every number of days is the one that some date of the calendar is        *)
(* counted as: there is no hole at the end of a month or a leap year.       *)
THEOREM EveryDayHasADate ==
  ASSUME NEW n \in Nat
  PROVE  \E y \in Nat, m \in Nat, d \in Nat :
           datetime_ymd_is_valid(y, m, d) /\ days_since_epoch(y, m, d) = n
<1>1. PICK y \in Nat : y >= 1900 /\ Elapsed(y) <= n /\ n <= Elapsed(y) + 364 + Leap(y)
  BY YearOfDay
<1>2. Elapsed(y) \in Int /\ Leap(y) \in 0..1 BY ElapsedIs DEF Leap
<1> DEFINE t == n - Elapsed(y)
<1>3. t \in Nat /\ t <= 364 + Leap(y) BY <1>1, <1>2
<1> HIDE DEF t
<1>4. PICK m \in 1..12 : MonthStart(y, m) <= t /\ t < MonthStart(y, m + 1)
  BY <1>3, MonthOfDay
<1>5. m \in 0..12 OBVIOUS
<1>6. /\ MonthStart(y, m) \in Nat /\ MonthStart(y, m + 1) = MonthStart(y, m) + datetime_month_days(y, m)
      /\ datetime_month_days(y, m) \in Nat
  BY <1>5, MonthStarts
<1> DEFINE d == t - MonthStart(y, m) + 1
<1>7. d \in Nat /\ d \in 1..datetime_month_days(y, m) /\ MonthStart(y, m) + d - 1 = t
  BY <1>3, <1>4, <1>6
<1> HIDE DEF d
<1>8. datetime_ymd_is_valid(y, m, d) BY <1>1, <1>7 DEF datetime_ymd_is_valid
<1>9. days_since_epoch(y, m, d) = Elapsed(y) + t BY <1>7, <1>8, DaysOfDate
<1>10. Elapsed(y) + t = n BY <1>2 DEF t
<1> QED BY <1>7, <1>8, <1>9, <1>10
(* The minutes of a day, and what is left of minutes when days are taken off. *)
MinutesOfDay == 0..1439
Remainders == -1439..1439

(* C's division leaves a remainder of the sign of the dividend. *)
LEMMA DividingTowardsZero ==
  ASSUME NEW n \in Int
  PROVE  /\ TowardsZero(n, MINUTES) \in Int
         /\ n - TowardsZero(n, MINUTES) * MINUTES \in Remainders
<1> DEFINE q == TowardsZero(n, MINUTES)
<1>1. MINUTES = 1440 BY DEF MINUTES
<1>2. CASE n < 0
  <2> DEFINE k == (-n) \div 1440
  <2>1. q = -k BY <1>1, <1>2 DEF TowardsZero, Magnitude
  <2>2. k \in Int /\ 1440 * k <= -n /\ -n < 1440 * k + 1440 BY <1>2
  <2> HIDE DEF k
  <2>3. q * MINUTES = -(1440 * k) BY <1>1, <2>1, <2>2
  <2> QED BY <2>1, <2>2, <2>3 DEF Remainders
<1>3. CASE n >= 0
  <2> DEFINE k == n \div 1440
  <2>1. q = k BY <1>1, <1>3 DEF TowardsZero
  <2>2. k \in Int /\ 1440 * k <= n /\ n < 1440 * k + 1440 BY <1>3
  <2> HIDE DEF k
  <2>3. q * MINUTES = 1440 * k BY <1>1, <2>1, <2>2
  <2> QED BY <2>1, <2>2, <2>3 DEF Remainders
<1> QED BY <1>2, <1>3

(* Minutes are added to a day and the minute of it, and the sum is a day   *)
(* and the minute of that.                                                 *)
LEMMA MinutesAdded ==
  ASSUME NEW day \in Nat, NEW minute \in MinutesOfDay, NEW minutes \in Int
  PROVE  /\ AddMinutesFrom(day, minute, minutes)[1] \in Int
         /\ AddMinutesFrom(day, minute, minutes)[2] \in MinutesOfDay
         /\ AddMinutesFrom(day, minute, minutes)[1] * MINUTES + AddMinutesFrom(day, minute, minutes)[2]
              = day * MINUTES + minute + minutes
<1> DEFINE days == TowardsZero(minutes, MINUTES)
           rest == minutes - days * MINUTES
           sum == minute + rest
<1>1. MINUTES = 1440 BY DEF MINUTES
<1>0. minute \in 0..1439 BY DEF MinutesOfDay
<1>2. days \in Int /\ rest \in -1439..1439
  <2>1. days \in Int /\ rest \in Remainders BY DividingTowardsZero
  <2> HIDE DEF days, rest
  <2> QED BY <2>1 DEF Remainders
<1>3. days * MINUTES + rest = minutes
  <2> HIDE DEF days
  <2> QED BY <1>1, <1>2
<1>4. AddMinutesFrom(day, minute, minutes) =
        IF rest < 0 /\ Magnitude(rest) > minute
        THEN <<day + days - 1, minute + MINUTES + rest>>
        ELSE <<day + days + sum \div MINUTES, sum % MINUTES>>
  BY DEF AddMinutesFrom
<1> HIDE DEF days, rest
<1>5. CASE rest < 0 /\ Magnitude(rest) > minute
  <2>1. AddMinutesFrom(day, minute, minutes) = <<day + days - 1, minute + 1440 + rest>>
    BY <1>1, <1>4, <1>5
  <2>2. minute + rest < 0 BY <1>0, <1>2, <1>5 DEF Magnitude
  <2>3. minute + 1440 + rest \in 0..1439 BY <1>0, <1>2, <2>2
  <2>4. (day + days - 1) * 1440 + (minute + 1440 + rest) = day * 1440 + minute + minutes
    BY <1>0, <1>1, <1>2, <1>3
  <2> QED BY <1>1, <1>2, <2>1, <2>3, <2>4 DEF MinutesOfDay
<1>6. CASE ~(rest < 0 /\ Magnitude(rest) > minute)
  <2>1. sum \in 0..2878 BY <1>0, <1>2, <1>6 DEF Magnitude
  <2> HIDE DEF sum
  <2> DEFINE q == sum \div 1440 r == sum % 1440
  <2>2. AddMinutesFrom(day, minute, minutes) = <<day + days + q, r>> BY <1>1, <1>4, <1>6
  <2>3. q \in Int /\ r \in 0..1439 /\ 1440 * q + r = sum BY <2>1
  <2> HIDE DEF q, r
  <2>4. (day + days + q) * 1440 + r = day * 1440 + minute + minutes
    BY <1>0, <1>1, <1>2, <1>3, <2>1, <2>3 DEF sum
  <2> QED BY <1>1, <1>2, <2>2, <2>3, <2>4 DEF MinutesOfDay
<1> QED BY <1>5, <1>6

(* What a clock shows: a day of the calendar and a time of day. *)
Shows(at) == at \in ADate \X ATime /\ datetime_date_is_valid(at[1]) /\ datetime_time_is_valid(at[2])

(* Minutes added to what a clock shows, or taken off it, give what it shows *)
(* so many minutes later, or earlier, as long as that is after the epoch.   *)
LEMMA ClockAdds ==
  ASSUME NEW at, Shows(at), NEW minutes \in Int, MinutesOf(at) + minutes >= 0
  PROVE  LET r == datetime_add_minutes(at, minutes)
         IN  /\ Shows(r) /\ MinutesOf(r) = MinutesOf(at) + minutes /\ r[2][3] = at[2][3]
<1> DEFINE day == days_since_epoch(at[1][1], at[1][2], at[1][3])
           minute == seconds_since_midnight(at[2][1], at[2][2], at[2][3]) \div 60
           sum == AddMinutesFrom(day, minute, minutes)
           clock == seconds_since_midnight_into_hms(sum[2] * 60)
           r == datetime_add_minutes(at, minutes)
<1>1. /\ at[1][1] \in Nat /\ at[1][2] \in Nat /\ at[1][3] \in Nat
      /\ at[2][1] \in Nat /\ at[2][2] \in Nat /\ at[2][3] \in Nat /\ at[2][4] \in Nat
      /\ at[2][1] < 24 /\ at[2][2] < 60 /\ at[2][3] < 60 /\ at[2][4] < 100
  BY DEF Shows, ADate, ATime, datetime_time_is_valid
<1>2. datetime_ymd_is_valid(at[1][1], at[1][2], at[1][3])
  BY DEF Shows, datetime_date_is_valid
<1>3. day \in Nat BY <1>1, <1>2, DateComesBack
<1>4. minute = at[2][1] * 60 + at[2][2] /\ minute \in MinutesOfDay
  <2> DEFINE h == at[2][1] m == at[2][2] s == at[2][3]
  <2>1. minute = (h * 3600 + m * 60 + s) \div 60 BY DEF seconds_since_midnight
  <2>2. h \in 0..23 /\ m \in 0..59 /\ s \in 0..59 BY <1>1
  <2> HIDE DEF h, m, s, minute
  <2>3. minute = h * 60 + m BY <2>1, <2>2
  <2>4. minute \in MinutesOfDay BY <2>2, <2>3 DEF MinutesOfDay
  <2> QED BY <2>3, <2>4 DEF h, m
<1>5. r = <<days_since_epoch_into_ymd(sum[1]), <<clock[1], clock[2], at[2][3], at[2][4]>>>>
  BY DEF datetime_add_minutes
<1>6. MinutesOf(at) = day * MINUTES + minute
  <2>1. MinutesOf(at) = day * MINUTES + at[2][1] * 60 + at[2][2] BY DEF MinutesOf
  <2>2. day * MINUTES \in Int BY <1>3 DEF MINUTES
  <2> HIDE DEF day, minute
  <2> QED BY <1>1, <1>4, <2>1, <2>2 DEF MinutesOfDay
<1> HIDE DEF day, minute
<1>7. /\ sum[1] \in Int /\ sum[2] \in MinutesOfDay
      /\ sum[1] * MINUTES + sum[2] = day * MINUTES + minute + minutes
  BY <1>3, <1>4, MinutesAdded
<1> DEFINE n == sum[1] x == sum[2]
<1> HIDE DEF sum
<1>8. n \in Nat /\ n * MINUTES + x = MinutesOf(at) + minutes
  <2>1. MINUTES = 1440 BY DEF MINUTES
  <2>2. n * MINUTES + x = MinutesOf(at) + minutes BY <1>6, <1>7
  <2>3. n \in Int /\ x \in 0..1439 BY <1>7 DEF MinutesOfDay
  <2> HIDE DEF n, x
  <2> QED BY <2>1, <2>2, <2>3
<1>9. /\ clock[1] \in 0..23 /\ clock[2] \in 0..59 /\ clock[1] * 60 + clock[2] = x
  <2>1. clock[1] = (x * 60) \div 3600 /\ clock[2] = ((x * 60) % 3600) \div 60
    BY DEF seconds_since_midnight_into_hms
  <2>2. x \in 0..1439 BY <1>7 DEF MinutesOfDay
  <2> HIDE DEF x
  <2>3. (x * 60) \div 3600 = x \div 60 /\ (x * 60) % 3600 = 60 * (x % 60) BY <2>2
  <2>4. (60 * (x % 60)) \div 60 = x % 60 BY <2>2
  <2>5. x \div 60 \in 0..23 /\ x % 60 \in 0..59 /\ (x \div 60) * 60 + (x % 60) = x BY <2>2
  <2> HIDE DEF clock
  <2>6. clock[1] = x \div 60 BY <2>1, <2>3
  <2>7. clock[2] = x % 60 BY <2>1, <2>3, <2>4
  <2> QED BY <2>5, <2>6, <2>7
<1> HIDE DEF clock, n, x
<1>10. PICK y \in Nat, m \in Nat, d \in Nat :
         datetime_ymd_is_valid(y, m, d) /\ days_since_epoch(y, m, d) = n
  BY <1>8, EveryDayHasADate
<1>11. days_since_epoch_into_ymd(n) = <<y, m, d>> BY <1>10, DateComesBack
<1>12. r = <<<<y, m, d>>, <<clock[1], clock[2], at[2][3], at[2][4]>>>>
  BY <1>5, <1>11 DEF n
<1> HIDE DEF r
<1>13. Shows(r)
  BY <1>1, <1>9, <1>10, <1>12
  DEF Shows, ADate, ATime, datetime_date_is_valid, datetime_time_is_valid
<1>14. MinutesOf(r) = n * MINUTES + clock[1] * 60 + clock[2]
  BY <1>10, <1>12 DEF MinutesOf
<1>15. MinutesOf(r) = n * MINUTES + x
  BY <1>8, <1>9, <1>14 DEF MINUTES
<1>16. r[2][3] = at[2][3] BY <1>12
<1> QED BY <1>8, <1>13, <1>15, <1>16 DEF r

(* What a clock shows is a number of minutes from the epoch. *)
LEMMA TimeIsCounted ==
  ASSUME NEW at, Shows(at)
  PROVE  MinutesOf(at) \in Nat
<1> DEFINE day == days_since_epoch(at[1][1], at[1][2], at[1][3])
<1>1. at[1][1] \in Nat /\ at[1][2] \in Nat /\ at[1][3] \in Nat /\ at[2][1] \in Nat /\ at[2][2] \in Nat
  BY DEF Shows, ADate, ATime
<1>2. datetime_ymd_is_valid(at[1][1], at[1][2], at[1][3])
  BY DEF Shows, datetime_date_is_valid
<1>3. day \in Nat BY <1>1, <1>2, DateComesBack
<1>4. MinutesOf(at) = day * 1440 + at[2][1] * 60 + at[2][2] BY DEF MinutesOf, MINUTES
<1> HIDE DEF day
<1> QED BY <1>1, <1>3, <1>4

(* What is added so many times, each time to stay above a share of what is  *)
(* there, leaves something.                                                 *)
LEMMA SharesLeave ==
  ASSUME NEW N \in Nat, N > 0, NEW k \in 0..N, NEW M \in Nat, NEW t \in Int,
         N * t + k * M >= 0
  PROVE  M + t >= 0
<1> SUFFICES ASSUME M + t <= -1 PROVE FALSE OBVIOUS
<1>1. N * M = k * M + (N - k) * M OBVIOUS
<1>2. (N - k) * M >= 0 OBVIOUS
<1>3. N * (M + t) = N * M + N * t OBVIOUS
<1>4. N * (M + t) <= -N
  <2> DEFINE u == -(M + t) - 1
  <2>1. u \in Nat /\ M + t = -u - 1 OBVIOUS
  <2> HIDE DEF u
  <2>2. N * (-u - 1) = -(N * u) - N BY <2>1
  <2>3. N * u >= 0 BY <2>1
  <2>4. N * (M + t) = -(N * u) - N BY <2>1, <2>2
  <2> QED BY <2>1, <2>3, <2>4
<1>5. N * M \in Int /\ N * t \in Int /\ k * M \in Int /\ (N - k) * M \in Int OBVIOUS
<1> DEFINE a == N * M b == N * t c == k * M e == (N - k) * M
<1>6. a = c + e /\ e >= 0 /\ a + b <= -N /\ b + c >= 0 /\ a \in Int /\ b \in Int /\ c \in Int /\ e \in Int
  BY <1>1, <1>2, <1>3, <1>4, <1>5
<1> HIDE DEF a, b, c, e
<1> QED BY <1>6

(* A clock that was set, what was added to it and what it shows.  Of what   *)
(* it may lose before the epoch, each addition takes its share at most.     *)
ClockRuns(s, r, at, total, n, shown) ==
  /\ s = <<"clock", at, total, n>> /\ r = <<"clock", shown>>
  /\ Shows(at) /\ Shows(shown)
  /\ MinutesOf(shown) = MinutesOf(at) + total /\ shown[2][3] = at[2][3]
  /\ MaxAdditions * total + n * MinutesOf(at) >= 0
ClockInv ==
  sent[1] = "clock" =>
    \E at \in Clocks, total \in Int, n \in 0..MaxAdditions, shown \in ADate \X ATime :
      ClockRuns(sent, read, at, total, n, shown)

(* A clock is set to what it can show. *)
LEMMA ClocksShow ==
  ASSUME NEW at \in Clocks PROVE Shows(at) /\ at \in ADate \X ATime
BY ClockAssumption DEF Shows

(* Setting a clock starts it. *)
LEMMA ClockIsSet ==
  ASSUME NEW at \in Clocks, SetClock(at) PROVE ClockInv'
<1>1. Shows(at) /\ at \in ADate \X ATime BY ClocksShow
<1>2. MinutesOf(at) \in Nat BY <1>1, TimeIsCounted
<1>3. MaxAdditions \in Nat /\ 0 \in Int /\ 0 \in 0..MaxAdditions BY ClockAssumption
<1>4. MaxAdditions * 0 + 0 * MinutesOf(at) >= 0 BY <1>2, <1>3
<1>5. MinutesOf(at) = MinutesOf(at) + 0 BY <1>2
<1>6. ClockRuns(sent', read', at, 0, 0, at) BY <1>1, <1>4, <1>5 DEF ClockRuns, SetClock
<1> QED BY <1>1, <1>3, <1>6 DEF ClockInv

(* A clock that minutes are added to is still right. *)
LEMMA ClockRunsOn ==
  ASSUME ClockInv, NEW minutes \in Minutes, AddMinutes(minutes) PROVE ClockInv'
<1> DEFINE N == MaxAdditions
<1>1. sent[1] = "clock" BY DEF AddMinutes
<1>2. PICK at \in Clocks, total \in Int, n \in 0..N, shown \in ADate \X ATime :
         ClockRuns(sent, read, at, total, n, shown)
  BY <1>1 DEF ClockInv
<1> DEFINE M == MinutesOf(at) more == datetime_add_minutes(shown, minutes)
<1>3. /\ sent = <<"clock", at, total, n>> /\ read = <<"clock", shown>>
      /\ Shows(at) /\ Shows(shown)
      /\ MinutesOf(shown) = M + total /\ shown[2][3] = at[2][3]
      /\ N * total + n * M >= 0
  BY <1>2 DEF ClockRuns
<1>4. minutes \in Int /\ N \in Nat /\ M + N * minutes >= 0 BY ClockAssumption
<1>5. n < N /\ sent' = <<"clock", at, total + minutes, n + 1>> /\ read' = <<"clock", more>>
  BY <1>3 DEF AddMinutes
<1>6. M \in Nat BY <1>3, TimeIsCounted
<1> HIDE DEF M, N, more
<1>7. N * (total + minutes) + (n + 1) * M >= 0
  <2>1. N * (total + minutes) = N * total + N * minutes BY <1>4
  <2>2. (n + 1) * M = n * M + M BY <1>6
  <2>3. N * total \in Int /\ N * minutes \in Int /\ n * M \in Int BY <1>4, <1>6
  <2> QED BY <1>3, <1>4, <1>6, <2>1, <2>2, <2>3
<1>8. n + 1 \in 0..N /\ N > 0 /\ total + minutes \in Int BY <1>4, <1>5
<1>9. M + (total + minutes) >= 0 BY <1>4, <1>6, <1>7, <1>8, SharesLeave
<1>10. MinutesOf(shown) + minutes >= 0 BY <1>3, <1>4, <1>6, <1>9
<1>11. Shows(more) /\ MinutesOf(more) = MinutesOf(shown) + minutes /\ more[2][3] = shown[2][3]
  BY <1>3, <1>4, <1>10, ClockAdds DEF more
<1>12. MinutesOf(more) = M + (total + minutes) BY <1>3, <1>4, <1>6, <1>11
<1>13. ClockRuns(sent', read', at, total + minutes, n + 1, more)
  BY <1>3, <1>5, <1>7, <1>11, <1>12 DEF ClockRuns, M, N
<1>14. more \in ADate \X ATime BY <1>11 DEF Shows
<1> QED BY <1>8, <1>13, <1>14 DEF ClockInv, N

(* However minutes are added to a clock and taken off it, it shows the time *)
(* so many minutes from where it was set, on a day of the calendar.         *)
THEOREM ClockAgreesHolds == CodecSpec => []ClockAgrees
<1>1. CodecInit => ClockInv BY DEF CodecInit, ClockInv, Idle
<1>2. ASSUME ClockInv, [CodecNext]_codecVars PROVE ClockInv'
  <2>1. ASSUME NEW m \in Messages, NEW route \in Routes, SendMessage(m, route) PROVE ClockInv'
    BY <2>1 DEF SendMessage, ClockInv
  <2>2. CASE Receive
    <3>1. sent' = sent /\ sent[1] # "clock" BY <2>2 DEF Receive
    <3> QED BY <3>1 DEF ClockInv
  <2>3. ASSUME NEW list \in Lists, SendValues(list) PROVE ClockInv'
    BY <2>3 DEF SendValues, ClockInv
  <2>4. ASSUME NEW left \in 0..MAX_APDU, CutOff(left) PROVE ClockInv'
    <3>1. sent' = sent /\ sent[1] # "clock" BY <2>4 DEF CutOff
    <3> QED BY <3>1 DEF ClockInv
  <2>5. CASE ReadValues
    <3>1. sent' = sent /\ sent[1] # "clock" BY <2>5 DEF ReadValues
    <3> QED BY <3>1 DEF ClockInv
  <2>6. ASSUME NEW n \in TagNumbers, NEW octets \in Brackets, SendEnclosed(n, octets) PROVE ClockInv'
    BY <2>6 DEF SendEnclosed, ClockInv
  <2>7. CASE ReadEnclosed
    <3>1. sent' = sent /\ sent[1] # "clock" BY <2>7 DEF ReadEnclosed
    <3> QED BY <3>1 DEF ClockInv
  <2>8. CASE Clear BY <2>8 DEF Clear, Idle, ClockInv
  <2>9. CASE UNCHANGED codecVars BY <1>2, <2>9 DEF codecVars, ClockInv
  <2> QED BY <1>2, <2>1, <2>2, <2>3, <2>4, <2>5, <2>6, <2>7, <2>8, <2>9, ClockIsSet, ClockRunsOn
          DEF CodecNext
<1>3. ClockInv => ClockAgrees
  <2> SUFFICES ASSUME ClockInv, sent[1] = "clock"
               PROVE  /\ datetime_date_is_valid(read[2][1]) /\ datetime_time_is_valid(read[2][2])
                      /\ MinutesOf(read[2]) = MinutesOf(sent[2]) + sent[3]
                      /\ read[2][2][3] = sent[2][2][3]
    BY DEF ClockAgrees
  <2>1. PICK at \in Clocks, total \in Int, n \in 0..MaxAdditions, shown \in ADate \X ATime :
          ClockRuns(sent, read, at, total, n, shown)
    BY DEF ClockInv
  <2>2. sent[2] = at /\ sent[3] = total /\ read[2] = shown BY <2>1 DEF ClockRuns
  <2> QED BY <2>1, <2>2 DEF ClockRuns, Shows
<1> QED BY <1>1, <1>2, <1>3, PTL DEF CodecSpec

----------------------------------------------------------------------------
-----------------------------------------------------------------------------
(* What stands between brackets: bacapp_data_len finds the closing tag.     *)

(* A recursion that goes on, from a point p of D that it does not stop at,  *)
(* to the point N[p] of a lesser measure; and the function it defines: what *)
(* is there, in front of the rest where p is in Pre.                        *)
GoesDown(D, Stop, N, m) ==
  /\ m \in [D -> Nat]
  /\ \A p \in D : p \notin Stop => N[p] \in D /\ m[N[p]] < m[p]
Before(p, V, Pre, rest) == IF p \in Pre THEN <<V[p]>> \o rest ELSE rest
Recursion(D, Stop, V, N, Pre, F) ==
  F = [p \in D |-> IF p \in Stop THEN V[p] ELSE Before(p, V, Pre, F[N[p]])]

(* It comes to an end everywhere, so there is such a function. *)
LEMMA RecursionEnds ==
  ASSUME NEW D, NEW Stop, NEW V, NEW N, NEW Pre, NEW m, GoesDown(D, Stop, N, m)
  PROVE  \E F : Recursion(D, Stop, V, N, Pre, F)
<1>0. /\ m \in [D -> Nat]
      /\ \A p \in D : p \notin Stop => N[p] \in D /\ m[N[p]] < m[p]
  BY DEF GoesDown
<1> DEFINE Body(F, p) == IF p \in Stop THEN V[p] ELSE Before(p, V, Pre, F[N[p]])
           Upto(n, F) == \A p \in D : m[p] < n => F[p] = Body(F, p)
           S == {n \in Nat : \E F : Upto(n, F)}
<1>1. 0 \in S
  <2>1. Upto(0, V)
    <3> SUFFICES ASSUME NEW p \in D, m[p] < 0 PROVE FALSE OBVIOUS
    <3>1. m[p] \in Nat BY <1>0
    <3> QED BY <3>1
  <2> HIDE DEF Upto
  <2> QED BY <2>1
<1>2. ASSUME NEW n \in Nat, n \in S PROVE n + 1 \in S
  <2>1. PICK P : Upto(n, P) BY <1>2
  <2> DEFINE Q == [p \in D |-> IF m[p] < n THEN P[p] ELSE Body(P, p)]
  <2>2. ASSUME NEW p \in D, m[p] < n + 1 PROVE Q[p] = Body(Q, p)
    <3>1. Q[p] = Body(P, p) BY <2>1
    <3>2. CASE p \notin Stop
      <4>1. N[p] \in D /\ m[N[p]] < m[p] BY <1>0, <3>2
      <4>2. m[p] \in Nat /\ m[N[p]] \in Nat BY <1>0, <4>1
      <4>3. m[N[p]] < n BY <2>2, <4>1, <4>2
      <4>4. Q[N[p]] = P[N[p]] BY <4>1, <4>3
      <4> QED BY <3>1, <3>2, <4>4
    <3>3. CASE p \in Stop BY <3>1, <3>3
    <3> QED BY <3>2, <3>3
  <2>3. Upto(n + 1, Q) BY <2>2
  <2> HIDE DEF Q, Upto
  <2>4. \E R : Upto(n + 1, R) BY <2>3
  <2> QED BY <2>4
<1>3. Nat \subseteq S BY <1>1, <1>2, SetInduction
<1> DEFINE P(n) == CHOOSE F : Upto(n, F)
<1>4. ASSUME NEW n \in Nat PROVE Upto(n, P(n))
  <2>1. \E F : Upto(n, F) BY <1>3
  <2> HIDE DEF Upto
  <2> QED BY <2>1
<1> HIDE DEF P
<1>5. ASSUME NEW n \in Nat PROVE \A k \in Nat : \A p \in D : m[p] < n /\ m[p] < k => P(n)[p] = P(k)[p]
  <2> DEFINE A == {j \in Nat : \A k \in Nat, l \in Nat, p \in D :
                       m[p] < j /\ m[p] < k /\ m[p] < l => P(k)[p] = P(l)[p]}
  <2>1. 0 \in A
    <3>1. \A p \in D : m[p] \in Nat BY <1>0
    <3> QED BY <3>1
  <2>2. ASSUME NEW j \in Nat, j \in A PROVE j + 1 \in A
    <3> SUFFICES ASSUME NEW k \in Nat, NEW l \in Nat, NEW p \in D, m[p] < j + 1, m[p] < k, m[p] < l
                 PROVE  P(k)[p] = P(l)[p]
      OBVIOUS
    <3>1. P(k)[p] = Body(P(k), p) /\ P(l)[p] = Body(P(l), p) BY <1>4
    <3>2. CASE p \notin Stop
      <4>1. N[p] \in D /\ m[N[p]] < m[p] BY <1>0, <3>2
      <4>2. m[p] \in Nat /\ m[N[p]] \in Nat BY <1>0, <4>1
      <4>3. m[N[p]] < j /\ m[N[p]] < k /\ m[N[p]] < l BY <4>1, <4>2
      <4>4. P(k)[N[p]] = P(l)[N[p]] BY <2>2, <4>1, <4>3
      <4> QED BY <3>1, <3>2, <4>4
    <3>3. CASE p \in Stop BY <3>1, <3>3
    <3> QED BY <3>2, <3>3
  <2>3. Nat \subseteq A
    <3> HIDE DEF A
    <3> QED BY <2>1, <2>2, SetInduction
  <2> QED BY <2>3
<1> DEFINE F == [p \in D |-> P(m[p] + 1)[p]]
<1>6. ASSUME NEW p \in D PROVE F[p] = Body(F, p)
  <2>1. m[p] \in Nat /\ m[p] + 1 \in Nat /\ m[p] < m[p] + 1 BY <1>0
  <2>2. F[p] = Body(P(m[p] + 1), p) BY <1>4, <2>1
  <2>3. CASE p \notin Stop
    <3>1. N[p] \in D /\ m[N[p]] < m[p] BY <1>0, <2>3
    <3>2. m[N[p]] \in Nat /\ m[N[p]] + 1 \in Nat /\ m[N[p]] < m[N[p]] + 1 /\ m[N[p]] < m[p] + 1
      BY <1>0, <2>1, <3>1
    <3>3. P(m[p] + 1)[N[p]] = P(m[N[p]] + 1)[N[p]] BY <1>5, <2>1, <3>1, <3>2
    <3> QED BY <2>2, <2>3, <3>1, <3>3
  <2>4. CASE p \in Stop BY <2>2, <2>4
  <2> QED BY <2>3, <2>4
<1>7. F = [p \in D |-> Body(F, p)]
  <2> DEFINE R == [p \in D |-> Body(F, p)]
  <2> HIDE DEF Body
  <2>1. F = R BY <1>6
  <2> QED BY <2>1
<1> QED BY <1>7 DEF Recursion

(* The tag of an item, and where the next one begins. *)
TagAt(o, i) == decode_tag_number_and_value(o, i)
ItemAt(o, i) == ItemLen(o, i, "any")

(* An octet is a number. *)
LEMMA OctetAt ==
  ASSUME NEW o \in Seq(Nat), NEW i PROVE At(o, i) \in Nat
BY DEF At, NoOctet

(* What two octets and what four hold is a number. *)
LEMMA LongNumbers ==
  ASSUME NEW o \in Seq(Nat), NEW i \in Nat
  PROVE  /\ decode_unsigned16(Slice(o, i, 2)) \in Nat
         /\ decode_unsigned32(Slice(o, i, 4)) \in Nat
<1> DEFINE a == At(o, i) b == At(o, i + 1) c == At(o, i + 2) d == At(o, i + 3)
<1>1. a \in Nat /\ b \in Nat /\ c \in Nat /\ d \in Nat BY OctetAt
<1>2. Slice(o, i, 2) = <<a, b>> BY <1>1 DEF Slice
<1>3. Slice(o, i, 4) = <<a, b, c, d>> BY <1>1 DEF Slice
<1> HIDE DEF a, b, c, d
<1>4. decode_unsigned16(<<a, b>>) \in Nat BY <1>1 DEF decode_unsigned16
<1>5. decode_unsigned16(<<c, d>>) \in Nat BY <1>1 DEF decode_unsigned16
<1>6. Tail(<<a, b, c, d>>) = <<b, c, d>> /\ Tail(<<b, c, d>>) = <<c, d>> OBVIOUS
<1>7. decode_unsigned24(<<b, c, d>>) \in Nat BY <1>1, <1>5, <1>6 DEF decode_unsigned24
<1>8. decode_unsigned32(<<a, b, c, d>>) \in Nat BY <1>1, <1>6, <1>7, SMT DEF decode_unsigned32
<1> QED BY <1>2, <1>3, <1>4, <1>8

(* The number of a tag takes an octet or two. *)
LEMMA NumberAt ==
  ASSUME NEW o \in Seq(Nat), NEW i \in Nat
  PROVE  /\ decode_tag_number(o, i) \in [len : {1, 2}, number : Nat]
         /\ decode_tag_number(o, i).len = 2 <=> IsExtendedNumber(At(o, i))
<1>1. At(o, i) \in Nat /\ At(o, i + 1) \in Nat BY OctetAt
<1>2. At(o, i) \div 16 \in Nat BY <1>1
<1> QED BY <1>1, <1>2 DEF decode_tag_number

(* A tag with a value, of which t is the number. *)
Whole(tag, t) ==
  tag \in [len : Nat, number : Nat, value : Nat] /\ tag.len >= t.len /\ tag.number = t.number

(* A tag has a length, a number and a value. *)
LEMMA TagFields ==
  ASSUME NEW o \in Seq(Nat), NEW i \in Nat
  PROVE  /\ TagAt(o, i) \in [len : Nat, number : Nat, value : Nat]
         /\ TagAt(o, i).len >= decode_tag_number(o, i).len
         /\ TagAt(o, i).number = decode_tag_number(o, i).number
<1> DEFINE t == decode_tag_number(o, i)
           next == At(o, i + t.len)
           after == i + t.len + 1
<1>1. t.len \in {1, 2} /\ t.number \in Nat BY NumberAt
<1> HIDE DEF t
<1>2. next \in Nat /\ after \in Nat BY <1>1, OctetAt
<1>3. /\ decode_unsigned16(Slice(o, after, 2)) \in Nat
      /\ decode_unsigned32(Slice(o, after, 4)) \in Nat
  BY <1>2, LongNumbers
<1>4. \A more \in {0, 1, 3, 5}, value \in Nat : Whole(TagWith(t, more, value), t)
  BY <1>1 DEF TagWith, Whole
<1>5. ShortValue(At(o, i)) \in Nat BY OctetAt DEF ShortValue
<1>6. TagAt(o, i) = WithValue(t, o, i) BY DEF TagAt, decode_tag_number_and_value, t
<1> HIDE DEF next, after
<1>0. SUFFICES Whole(TagAt(o, i), t) BY DEF Whole, t
<1>7. CASE IsExtendedValue(At(o, i)) /\ next = 255
  <2>1. TagAt(o, i) = TagWith(t, 5, decode_unsigned32(Slice(o, after, 4)))
    BY <1>6, <1>7 DEF WithValue, LongValue, next, after
  <2> QED BY <1>3, <1>4, <2>1
<1>8. CASE IsExtendedValue(At(o, i)) /\ next = 254
  <2>1. TagAt(o, i) = TagWith(t, 3, decode_unsigned16(Slice(o, after, 2)))
    BY <1>6, <1>8 DEF WithValue, LongValue, next, after
  <2> QED BY <1>3, <1>4, <2>1
<1>9. CASE IsExtendedValue(At(o, i)) /\ next # 254 /\ next # 255
  <2>1. TagAt(o, i) = TagWith(t, 1, next) BY <1>6, <1>9 DEF WithValue, LongValue, next
  <2> QED BY <1>2, <1>4, <2>1
<1>10. CASE ~IsExtendedValue(At(o, i))
  <2>1. TagAt(o, i) = TagWith(t, 0, ShortValue(At(o, i))) BY <1>6, <1>10 DEF WithValue
  <2> QED BY <1>4, <1>5, <2>1
<1> QED BY <1>7, <1>8, <1>9, <1>10

(* An item is at least as long as its tag. *)
LEMMA ItemsHaveTags ==
  ASSUME NEW o \in Seq(Nat), NEW i \in Nat
  PROVE  ItemAt(o, i) \in Nat /\ ItemAt(o, i) >= TagAt(o, i).len /\ TagAt(o, i).len >= 1
<1>1. TagAt(o, i).len \in Nat /\ TagAt(o, i).value \in Nat /\ TagAt(o, i).number \in Nat BY TagFields
<1>2. TagAt(o, i).len >= 1
  <2>1. decode_tag_number(o, i).len \in {1, 2} BY NumberAt
  <2>2. TagAt(o, i).len >= decode_tag_number(o, i).len BY TagFields
  <2> QED BY <1>1, <2>1, <2>2
<1> DEFINE L == TagAt(o, i).len V == TagAt(o, i).value
           Fits(k) == k \in Nat /\ k >= L
<1>3. ASSUME NEW type PROVE Fits(L + bacapp_decode_data_len(type, V))
  <2>1. bacapp_decode_data_len(type, V) = 0 \/ bacapp_decode_data_len(type, V) = V
    BY DEF bacapp_decode_data_len
  <2> QED BY <1>1, <2>1
<1>4. Fits(L) /\ Fits(L + V) BY <1>1
<1>5. Fits(bacapp_decode_context_data_len(o, i, "any"))
  <2> HIDE DEF Fits
  <2>1. \/ bacapp_decode_context_data_len(o, i, "any") = L + V
        \/ \E type : bacapp_decode_context_data_len(o, i, "any") = L + bacapp_decode_data_len(type, V)
    BY DEF bacapp_decode_context_data_len, TagAt
  <2> QED BY <1>3, <1>4, <2>1
<1>6. CASE IsContextSpecific(At(o, i)) \/ IsOpening(At(o, i)) \/ IsClosing(At(o, i))
  <2> HIDE DEF Fits
  <2>1. ItemAt(o, i) = L \/ ItemAt(o, i) = bacapp_decode_context_data_len(o, i, "any")
    BY <1>6 DEF ItemAt, ItemLen, TagAt
  <2>2. Fits(ItemAt(o, i)) BY <1>4, <1>5, <2>1
  <2> QED BY <1>2, <2>2 DEF Fits
<1>7. CASE ~(IsContextSpecific(At(o, i)) \/ IsOpening(At(o, i)) \/ IsClosing(At(o, i)))
  <2> HIDE DEF Fits
  <2>1. ItemAt(o, i) = bacapp_decode_application_data_len(o, i) BY <1>7 DEF ItemAt, ItemLen
  <2>2. bacapp_decode_application_data_len(o, i)
          = L + bacapp_decode_data_len(TypeOf(TagAt(o, i).number), V)
    BY <1>7 DEF bacapp_decode_application_data_len, TagAt
  <2>3. Fits(ItemAt(o, i)) BY <1>3, <2>1, <2>2
  <2> QED BY <1>2, <2>3 DEF Fits
<1> QED BY <1>6, <1>7

(* The octets o stand in w, s places on. *)
StandsIn(o, w, s) == \A k \in 1..Len(o) : At(w, k + s) = At(o, k)

(* The number of a tag that is all there is read the same where it stands. *)
LEMMA SameNumber ==
  ASSUME NEW o \in Seq(Nat), NEW w \in Seq(Nat), NEW s \in Nat, StandsIn(o, w, s),
         NEW i \in Nat \ {0}, i + decode_tag_number(o, i).len <= Len(o) + 1
  PROVE  decode_tag_number(w, i + s) = decode_tag_number(o, i) /\ At(w, i + s) = At(o, i)
<1> DEFINE t == decode_tag_number(o, i)
<1>1. t.len \in {1, 2} /\ (t.len = 2 <=> IsExtendedNumber(At(o, i))) BY NumberAt
<1>2. Len(o) \in Nat OBVIOUS
<1>3. i \in 1..Len(o) BY <1>1, <1>2
<1>4. At(w, i + s) = At(o, i) BY <1>3 DEF StandsIn
<1>5. CASE t.len = 2
  <2>1. i + 1 \in 1..Len(o) BY <1>2, <1>5
  <2>2. At(w, (i + 1) + s) = At(o, i + 1) BY <2>1 DEF StandsIn
  <2>3. (i + 1) + s = (i + s) + 1 OBVIOUS
  <2>4. At(w, (i + s) + 1) = At(o, i + 1) BY <2>2, <2>3
  <2>5. IsExtendedNumber(At(o, i)) BY <1>1, <1>5
  <2> QED BY <1>4, <2>4, <2>5 DEF decode_tag_number
<1>6. CASE t.len = 1
  <2>1. ~IsExtendedNumber(At(o, i)) BY <1>1, <1>6
  <2> QED BY <1>4, <2>1 DEF decode_tag_number
<1> QED BY <1>1, <1>5, <1>6

(* And its value, if that is all there. *)
LEMMA SameTag ==
  ASSUME NEW o \in Seq(Nat), NEW w \in Seq(Nat), NEW s \in Nat, StandsIn(o, w, s),
         NEW i \in Nat \ {0}, i + TagAt(o, i).len <= Len(o) + 1
  PROVE  TagAt(w, i + s) = TagAt(o, i) /\ At(w, i + s) = At(o, i)
<1> DEFINE t == decode_tag_number(o, i)
           next == At(o, i + t.len)
           after == i + t.len + 1
           next2 == At(w, (i + s) + t.len)
           after2 == (i + s) + t.len + 1
<1>1. t.len \in {1, 2} /\ t.number \in Nat BY NumberAt
<1>2. TagAt(o, i).len \in Nat /\ TagAt(o, i).len >= t.len
  <2>1. TagAt(o, i) \in [len : Nat, number : Nat, value : Nat] BY TagFields
  <2> QED BY <2>1, TagFields
<1>3. Len(o) \in Nat OBVIOUS
<1>4. i + t.len <= Len(o) + 1 BY <1>1, <1>2, <1>3
<1>5. decode_tag_number(w, i + s) = t /\ At(w, i + s) = At(o, i) BY <1>4, SameNumber
<1>6. TagAt(o, i) = WithValue(t, o, i) /\ TagAt(w, i + s) = WithValue(t, w, i + s)
  BY <1>5 DEF TagAt, decode_tag_number_and_value
<1> HIDE DEF t
<1>7. CASE ~IsExtendedValue(At(o, i))
  BY <1>5, <1>6, <1>7 DEF WithValue
<1>8. CASE IsExtendedValue(At(o, i))
  <2>1. /\ TagAt(o, i) = LongValue(t, next, o, after)
        /\ TagAt(w, i + s) = LongValue(t, next2, w, after2)
    BY <1>5, <1>6, <1>8 DEF WithValue
  <2>2. next \in Nat BY OctetAt
  <2> HIDE DEF next, after, next2, after2
  <2>3. \A value : TagWith(t, 1, value).len = t.len + 1 /\ TagWith(t, 3, value).len = t.len + 3
                   /\ TagWith(t, 5, value).len = t.len + 5
    BY DEF TagWith
  <2>4. /\ next = 255 => TagAt(o, i).len = t.len + 5
        /\ next = 254 => TagAt(o, i).len = t.len + 3
        /\ next # 254 /\ next # 255 => TagAt(o, i).len = t.len + 1
    BY <2>1, <2>3 DEF LongValue
  <2>0. i \in Nat /\ i >= 1 /\ t.len \in Nat /\ t.len >= 1 BY <1>1
  <2>5. i + t.len + 1 <= Len(o) + 1
    <3> DEFINE l == TagAt(o, i).len
               k == t.len
    <3>0. l \in Nat /\ k \in Nat /\ i \in Nat /\ i + l <= Len(o) + 1 BY <1>2, <2>0
    <3>1. l = k + 5 \/ l = k + 3 \/ l = k + 1 BY <2>4
    <3> HIDE DEF l, k
    <3>2. i + k + 1 <= Len(o) + 1 BY <1>3, <3>0, <3>1
    <3> QED BY <3>2 DEF k
  <2>6. next2 = next
    <3>1. i + t.len \in 1..Len(o) BY <1>1, <1>3, <2>5
    <3>2. (i + t.len) + s = (i + s) + t.len BY <1>1
    <3> QED BY <3>1, <3>2 DEF StandsIn, next, next2
  <2>7. ASSUME NEW n \in {2, 4}, after + n <= Len(o) + 1
        PROVE  Slice(w, after2, n) = Slice(o, after, n)
    <3>1. after \in Nat /\ after >= 1 /\ after2 = after + s BY <2>0 DEF after, after2
    <3>2. ASSUME NEW k \in 1..n PROVE At(w, after2 + k - 1) = At(o, after + k - 1)
      <4>1. after + k - 1 \in 1..Len(o) BY <1>3, <2>7, <3>1
      <4>2. (after + k - 1) + s = after2 + k - 1 BY <3>1
      <4>3. At(w, (after + k - 1) + s) = At(o, after + k - 1) BY <4>1 DEF StandsIn
      <4> QED BY <4>2, <4>3
    <3> QED BY <3>2 DEF Slice
  <2>8. CASE next = 255
    <3>1. after + 4 <= Len(o) + 1 BY <1>1, <1>3, <2>4, <2>8 DEF after
    <3>2. Slice(w, after2, 4) = Slice(o, after, 4) BY <2>7, <3>1
    <3> QED BY <1>5, <2>1, <2>6, <2>8, <3>2 DEF LongValue
  <2>9. CASE next = 254
    <3>1. after + 2 <= Len(o) + 1 BY <1>1, <1>3, <2>4, <2>9 DEF after
    <3>2. Slice(w, after2, 2) = Slice(o, after, 2) BY <2>7, <3>1
    <3> QED BY <1>5, <2>1, <2>6, <2>9, <3>2 DEF LongValue
  <2>10. CASE next # 254 /\ next # 255
    BY <1>5, <2>1, <2>6, <2>10 DEF LongValue
  <2> QED BY <2>8, <2>9, <2>10
<1> QED BY <1>7, <1>8

(* An item that is all there is read the same where it stands. *)
LEMMA SameItem ==
  ASSUME NEW o \in Seq(Nat), NEW w \in Seq(Nat), NEW s \in Nat, StandsIn(o, w, s),
         NEW i \in Nat \ {0}, i + ItemAt(o, i) <= Len(o) + 1
  PROVE  /\ ItemAt(w, i + s) = ItemAt(o, i)
         /\ \A n : (Opens(w, i + s, n) <=> Opens(o, i, n)) /\ (Closes(w, i + s, n) <=> Closes(o, i, n))
<1>1. i \in Nat /\ Len(o) \in Nat OBVIOUS
<1>2. ItemAt(o, i) \in Nat /\ ItemAt(o, i) >= TagAt(o, i).len BY <1>1, ItemsHaveTags
<1>3. TagAt(o, i).len \in Nat /\ TagAt(o, i).len >= decode_tag_number(o, i).len
  <2>1. TagAt(o, i) \in [len : Nat, number : Nat, value : Nat] BY <1>1, TagFields
  <2>2. TagAt(o, i).len >= decode_tag_number(o, i).len BY <1>1, TagFields
  <2> QED BY <2>1, <2>2
<1>4. decode_tag_number(o, i).len \in {1, 2} BY <1>1, NumberAt
<1>5. i + TagAt(o, i).len <= Len(o) + 1 BY <1>1, <1>2, <1>3
<1>6. i + decode_tag_number(o, i).len <= Len(o) + 1 BY <1>1, <1>3, <1>4, <1>5
<1>7. TagAt(w, i + s) = TagAt(o, i) /\ At(w, i + s) = At(o, i) BY <1>5, SameTag
<1>8. decode_tag_number(w, i + s) = decode_tag_number(o, i) BY <1>6, SameNumber
<1>9. ItemAt(w, i + s) = ItemAt(o, i)
  BY <1>7 DEF ItemAt, ItemLen, TagAt, bacapp_decode_context_data_len, bacapp_decode_application_data_len
<1>10. ASSUME NEW n PROVE (Opens(w, i + s, n) <=> Opens(o, i, n)) /\ (Closes(w, i + s, n) <=> Closes(o, i, n))
  BY <1>7, <1>8 DEF Opens, Closes, decode_is_opening_tag_number, decode_is_closing_tag_number
<1> QED BY <1>9, <1>10

-----------------------------------------------------------------------------
(* How the walk through items goes on.                                      *)

(* The items of o from p[1] on, p[2] brackets of the number n being open.   *)
NestingStep(n, o, F, p) ==
  LET next == p[1] + ItemLen(o, p[1], "any")
      open == StillOpen(o, p[1], n, p[2])
  IN  IF p[1] = Len(o) + 1 THEN p[2]
      ELSE IF next > Len(o) + 1 \/ open \notin 0..MOST_NESTED THEN -1
      ELSE F[<<next, open>>]
EndStep(n, o, F, p) ==
  LET len == ItemLen(o, p[1], "any")
      after == NestingAfter(o, p[1], n, p[2])
  IN  IF p[1] + len > Len(o) + 1 \/ len = 0 THEN 0
      ELSE IF after = 0 THEN p[1]
      ELSE F[<<p[1] + len, after>>]
Pairs2 == Nat \X Nat

(* From item to item, up to the end of the octets. *)
WalksOn(D, o, Stop, N) ==
  \A p \in D : p \notin Stop =>
    /\ N[p] \in D /\ N[p][1] = p[1] + ItemAt(o, p[1]) /\ N[p][1] <= Len(o) + 1

(* Either walk comes to an end. *)
LEMMA WalksEnd ==
  ASSUME NEW o \in Seq(Nat), NEW D \in SUBSET Pairs2, NEW Stop, NEW V, NEW N, WalksOn(D, o, Stop, N)
  PROVE  \E F : Recursion(D, Stop, V, N, {}, F)
<1> DEFINE left(i) == IF i <= Len(o) THEN Len(o) + 1 - i ELSE 0
           m == [p \in D |-> left(p[1])]
<1>1. Len(o) \in Nat OBVIOUS
<1>2. \A i \in Nat : left(i) \in Nat BY <1>1
<1>3. m \in [D -> Nat] BY <1>2 DEF Pairs2
<1>4. ASSUME NEW p \in D, p \notin Stop PROVE N[p] \in D /\ m[N[p]] < m[p]
  <2>1. N[p] \in D /\ N[p][1] = p[1] + ItemAt(o, p[1]) /\ N[p][1] <= Len(o) + 1
    BY <1>4 DEF WalksOn
  <2>2. p[1] \in Nat BY DEF Pairs2
  <2>3. ItemAt(o, p[1]) \in Nat /\ ItemAt(o, p[1]) >= 1
    <3>1. TagAt(o, p[1]) \in [len : Nat, number : Nat, value : Nat] BY <2>2, TagFields
    <3>2. ItemAt(o, p[1]) \in Nat /\ ItemAt(o, p[1]) >= TagAt(o, p[1]).len /\ TagAt(o, p[1]).len >= 1
      BY <2>2, ItemsHaveTags
    <3> QED BY <3>1, <3>2
  <2>4. m[p] = left(p[1]) /\ m[N[p]] = left(p[1] + ItemAt(o, p[1])) BY <2>1
  <2> HIDE DEF m
  <2>5. p[1] + ItemAt(o, p[1]) <= Len(o) + 1 BY <2>1
  <2>6. left(p[1] + ItemAt(o, p[1])) < left(p[1]) BY <1>1, <2>2, <2>3, <2>5
  <2> QED BY <2>1, <2>4, <2>6
<1> HIDE DEF m, left
<1>5. GoesDown(D, Stop, N, m) BY <1>3, <1>4 DEF GoesDown
<1> QED BY <1>5, RecursionEnds

(* The walk that NestingLeft takes. *)
LEMMA NestingWalk ==
  ASSUME NEW o \in Seq(Nat), NEW n \in Nat
  PROVE  \E F : /\ \A p \in Pairs2 : F[p] = NestingStep(n, o, F, p)
                /\ NestingLeft(n, o) = F[<<1, 0>>]
<1> DEFINE next(p) == p[1] + ItemLen(o, p[1], "any")
           open(p) == StillOpen(o, p[1], n, p[2])
           Bad(p) == next(p) > Len(o) + 1 \/ open(p) \notin 0..MOST_NESTED
           Stop == {p \in Pairs2 : p[1] = Len(o) + 1 \/ Bad(p)}
           V == [p \in Pairs2 |-> IF p[1] = Len(o) + 1 THEN p[2] ELSE -1]
           N == [p \in Pairs2 |-> <<next(p), open(p)>>]
           D == Nat \X Nat
           R(F) == [p \in D |-> NestingStep(n, o, F, p)]
<1>1. ASSUME NEW p \in Pairs2, p \notin Stop
      PROVE  N[p] \in Pairs2 /\ N[p][1] = p[1] + ItemAt(o, p[1]) /\ N[p][1] <= Len(o) + 1
  <2>1. ~Bad(p) BY <1>1
  <2>2. p[1] \in Nat BY DEF Pairs2
  <2>3. ItemAt(o, p[1]) \in Nat BY <2>2, ItemsHaveTags
  <2>4. next(p) = p[1] + ItemAt(o, p[1]) BY DEF ItemAt
  <2>5. next(p) \in Nat /\ next(p) <= Len(o) + 1 BY <2>1, <2>2, <2>3, <2>4
  <2>6. open(p) \in Nat
    <3>1. open(p) \in 0..MOST_NESTED BY <2>1
    <3>2. MOST_NESTED \in Nat BY DEF MOST_NESTED
    <3> HIDE DEF open
    <3> QED BY <3>1, <3>2
  <2>7. N[p] = <<next(p), open(p)>> OBVIOUS
  <2> HIDE DEF next, open, N
  <2> QED BY <2>4, <2>5, <2>6, <2>7 DEF Pairs2
<1>2. WalksOn(Pairs2, o, Stop, N)
  <2> HIDE DEF Stop, N
  <2> QED BY <1>1 DEF WalksOn
<1>3. PICK G : Recursion(Pairs2, Stop, V, N, {}, G)
  <2> HIDE DEF Stop, V, N
  <2> QED BY <1>2, WalksEnd
<1>4. ASSUME NEW p \in Pairs2 PROVE G[p] = NestingStep(n, o, G, p)
  <2> HIDE DEF next, open
  <2>1. G[p] = IF p \in Stop THEN V[p] ELSE G[N[p]]
    <3> HIDE DEF Stop, V, N
    <3> QED BY <1>3 DEF Recursion, Before
  <2>2. G[p] = IF p[1] = Len(o) + 1 THEN p[2] ELSE IF Bad(p) THEN -1 ELSE G[<<next(p), open(p)>>]
    BY <2>1
  <2> QED BY <2>2 DEF NestingStep, next, open
<1>5. G = R(G)
  <2>1. G = [p \in Pairs2 |-> G[p]]
    <3> HIDE DEF Stop, V, N
    <3> QED BY <1>3 DEF Recursion
  <2>2. [p \in Pairs2 |-> G[p]] = [p \in Pairs2 |-> NestingStep(n, o, G, p)] BY <1>4
  <2> QED BY <2>1, <2>2 DEF Pairs2
<1> DEFINE F == CHOOSE F : F = R(F)
<1>6. F = R(F) BY <1>5
<1>7. NestingLeft(n, o) = F[<<1, 0>>] BY DEF NestingLeft, NestingStep
<1> HIDE DEF F
<1>8. \A p \in Pairs2 : F[p] = NestingStep(n, o, F, p) BY <1>6 DEF Pairs2
<1> QED BY <1>7, <1>8

(* The walk that bacapp_data_len takes, with a counter that is not 0.       *)
Counted == Nat \X (Nat \ {0})

(* It comes to an end. *)
LEMMA EndWalk ==
  ASSUME NEW o \in Seq(Nat), NEW n \in Nat, NEW first \in Nat
  PROVE  \E F : /\ \A p \in Counted : F[p] = EndStep(n, o, F, p)
                /\ ClosingTagAt(o, first, n, "any") = F[<<first, 1>>]
<1> DEFINE len(p) == ItemLen(o, p[1], "any")
           after(p) == NestingAfter(o, p[1], n, p[2])
           Bad(p) == p[1] + len(p) > Len(o) + 1 \/ len(p) = 0
           Stop == {p \in Counted : Bad(p) \/ after(p) = 0}
           V == [p \in Counted |-> IF Bad(p) THEN 0 ELSE p[1]]
           N == [p \in Counted |-> <<p[1] + len(p), after(p)>>]
           R(F) == [p \in Counted |-> EndStep(n, o, F, p)]
<1>1. ASSUME NEW p \in Counted, p \notin Stop
      PROVE  N[p] \in Counted /\ N[p][1] = p[1] + ItemAt(o, p[1]) /\ N[p][1] <= Len(o) + 1
  <2>1. ~Bad(p) /\ after(p) # 0 BY <1>1
  <2>2. p[1] \in Nat /\ p[2] \in Nat \ {0} BY DEF Counted
  <2>3. ItemAt(o, p[1]) \in Nat /\ len(p) = ItemAt(o, p[1]) BY <2>2, ItemsHaveTags DEF ItemAt
  <2>4. p[1] + len(p) \in Nat /\ p[1] + len(p) <= Len(o) + 1 BY <2>1, <2>2, <2>3
  <2>5. after(p) \in Nat
    <3>1. (p[2] + 1) % 256 \in Nat /\ p[2] - 1 \in Nat /\ p[2] \in Nat BY <2>2
    <3>2. after(p) = (p[2] + 1) % 256 \/ after(p) = p[2] - 1 \/ after(p) = p[2] BY DEF NestingAfter
    <3> HIDE DEF after
    <3> QED BY <3>1, <3>2
  <2>6. N[p] = <<p[1] + len(p), after(p)>> OBVIOUS
  <2> HIDE DEF len, after, N
  <2> QED BY <2>1, <2>3, <2>4, <2>5, <2>6 DEF Counted
<1>2. WalksOn(Counted, o, Stop, N)
  <2> HIDE DEF Stop, N
  <2> QED BY <1>1 DEF WalksOn
<1>3. PICK G : Recursion(Counted, Stop, V, N, {}, G)
  <2> HIDE DEF Stop, V, N
  <2>1. Counted \in SUBSET Pairs2 BY DEF Counted, Pairs2
  <2> QED BY <1>2, <2>1, WalksEnd
<1>4. ASSUME NEW p \in Counted PROVE G[p] = EndStep(n, o, G, p)
  <2> HIDE DEF len, after
  <2>1. G[p] = IF p \in Stop THEN V[p] ELSE G[N[p]]
    <3> HIDE DEF Stop, V, N
    <3> QED BY <1>3 DEF Recursion, Before
  <2>2. G[p] = IF Bad(p) THEN 0 ELSE IF after(p) = 0 THEN p[1] ELSE G[<<p[1] + len(p), after(p)>>]
    BY <2>1
  <2> QED BY <2>2 DEF EndStep, len, after
<1>5. G = R(G)
  <2>1. G = [p \in Counted |-> G[p]]
    <3> HIDE DEF Stop, V, N
    <3> QED BY <1>3 DEF Recursion
  <2>2. [p \in Counted |-> G[p]] = [p \in Counted |-> EndStep(n, o, G, p)] BY <1>4
  <2> QED BY <2>1, <2>2
<1> DEFINE F == CHOOSE F : F = R(F)
<1>6. F = R(F) BY <1>5
<1>7. ClosingTagAt(o, first, n, "any") = F[<<first, 1>>] BY DEF ClosingTagAt, EndStep, Counted
<1> HIDE DEF F
<1>8. \A p \in Counted : F[p] = EndStep(n, o, F, p) BY <1>6
<1> QED BY <1>7, <1>8

-----------------------------------------------------------------------------
(* The two walks agree.                                                     *)

(* What is counted is a number. *)
LEMMA OpenIsNumber == MOST_NESTED \in Nat /\ \A open \in 0..MOST_NESTED : open \in Nat /\ open <= 254
BY DEF MOST_NESTED

(* The counter of one octet is one more than the brackets that are open.    *)
LEMMA CounterIsOpen ==
  ASSUME NEW w, NEW o, NEW n, NEW i, NEW j, NEW open \in 0..MOST_NESTED,
         Opens(w, j, n) <=> Opens(o, i, n), Closes(w, j, n) <=> Closes(o, i, n),
         StillOpen(o, i, n, open) \in 0..MOST_NESTED
  PROVE  NestingAfter(w, j, n, open + 1) = StillOpen(o, i, n, open) + 1
<1>1. open \in Nat /\ open <= 254 BY OpenIsNumber
<1>2. CASE Opens(o, i, n)
  <2>1. StillOpen(o, i, n, open) = open + 1 BY <1>2 DEF StillOpen
  <2>2. open + 1 <= 254 BY <1>1, <2>1 DEF MOST_NESTED
  <2>0. Opens(w, j, n) /\ ~Closes(w, j, n)
    <3>1. Opens(w, j, n) BY <1>2
    <3>2. ~(IsOpening(At(w, j)) /\ IsClosing(At(w, j))) BY DEF IsOpening, IsClosing
    <3> QED BY <3>1, <3>2
            DEF Opens, Closes, decode_is_opening_tag_number, decode_is_closing_tag_number
  <2>3. NestingAfter(w, j, n, open + 1) = (open + 1 + 1) % 256
    BY <2>0 DEF NestingAfter, Opens, Closes
  <2>4. (open + 1 + 1) % 256 = open + 2 BY <1>1, <2>2
  <2> QED BY <1>1, <2>1, <2>3, <2>4
<1>3. CASE ~Opens(o, i, n) /\ Closes(o, i, n)
  <2>1. StillOpen(o, i, n, open) = open - 1 BY <1>3 DEF StillOpen
  <2>2. NestingAfter(w, j, n, open + 1) = (open + 1) - 1 BY <1>3 DEF NestingAfter, Opens, Closes
  <2> QED BY <1>1, <2>1, <2>2
<1>4. CASE ~Opens(o, i, n) /\ ~Closes(o, i, n)
  <2>1. StillOpen(o, i, n, open) = open BY <1>4 DEF StillOpen
  <2>2. NestingAfter(w, j, n, open + 1) = open + 1 BY <1>4 DEF NestingAfter, Opens, Closes
  <2> QED BY <1>1, <2>1, <2>2
<1> QED BY <1>2, <1>3, <1>4

(* A closing tag of the number n at c, all of it there. *)
ClosesAt(w, c, n) ==
  Closes(w, c, n) /\ ~Opens(w, c, n) /\ ItemAt(w, c) # 0 /\ c + ItemAt(w, c) <= Len(w) + 1

(* Behind octets whose brackets are all closed, the walk stops. *)
LEMMA ClosingFound ==
  ASSUME NEW o \in Seq(Nat), NEW w \in Seq(Nat), NEW s \in Nat, NEW n \in Nat, StandsIn(o, w, s),
         NestingLeft(n, o) = 0, ClosesAt(w, s + Len(o) + 1, n)
  PROVE  ClosingTagAt(w, s + 1, n, "any") = s + Len(o) + 1
<1> DEFINE L == Len(o) c == s + L + 1
<1>1. L \in Nat /\ c \in Nat /\ Len(w) \in Nat /\ s + 1 \in Nat OBVIOUS
<1>2. ItemAt(w, c) \in Nat BY <1>1, ItemsHaveTags
<1>3. c + ItemAt(w, c) <= Len(w) + 1 /\ ItemAt(w, c) # 0 BY DEF ClosesAt
<1>4. PICK F : /\ \A p \in Pairs2 : F[p] = NestingStep(n, o, F, p)
               /\ NestingLeft(n, o) = F[<<1, 0>>]
  BY NestingWalk
<1>5. PICK E : /\ \A p \in Counted : E[p] = EndStep(n, w, E, p)
               /\ ClosingTagAt(w, s + 1, n, "any") = E[<<s + 1, 1>>]
  BY <1>1, EndWalk
<1> DEFINE Found(i, open) == F[<<i, open>>] = 0 => E[<<i + s, open + 1>>] = c
           S == {k \in Nat : \A i \in 1..(L + 1), open \in 0..MOST_NESTED : L + 1 - i <= k => Found(i, open)}
<1>6. ASSUME NEW open \in 0..MOST_NESTED PROVE Found(L + 1, open)
  <2> SUFFICES ASSUME F[<<L + 1, open>>] = 0 PROVE E[<<c, open + 1>>] = c
    <3>1. L + 1 + s = c BY <1>1
    <3> QED BY <3>1
  <2> DEFINE p == <<L + 1, open>> q == <<c, 1>>
  <2>0. open \in Nat BY OpenIsNumber
  <2>1. p \in Pairs2 BY <1>1, <2>0 DEF Pairs2
  <2>2. p[1] = L + 1 /\ p[2] = open OBVIOUS
  <2> HIDE DEF p, L
  <2>3. F[p] = p[2] BY <1>4, <2>1, <2>2 DEF NestingStep, L
  <2>4. open = 0 BY <2>2, <2>3 DEF p
  <2>5. q \in Counted /\ q[1] = c /\ q[2] = 1 BY <1>1 DEF Counted
  <2> HIDE DEF q, c
  <2>6. NestingAfter(w, c, n, 1) = 0
    <3>1. Closes(w, c, n) /\ ~Opens(w, c, n) BY DEF ClosesAt, c, L
    <3> QED BY <3>1 DEF NestingAfter, Opens, Closes
  <2>7. ItemLen(w, c, "any") = ItemAt(w, c) BY DEF ItemAt
  <2>8. ~(c + ItemAt(w, c) > Len(w) + 1) BY <1>1, <1>2, <1>3
  <2>9. EndStep(n, w, E, q) = c BY <1>3, <2>5, <2>6, <2>7, <2>8 DEF EndStep
  <2>10. E[q] = c BY <1>5, <2>5, <2>9
  <2> QED BY <2>4, <2>10 DEF q
<1>7. 0 \in S
  <2> SUFFICES ASSUME NEW i \in 1..(L + 1), NEW open \in 0..MOST_NESTED, L + 1 - i <= 0
               PROVE  Found(i, open)
    OBVIOUS
  <2>1. i = L + 1 BY <1>1
  <2> HIDE DEF Found
  <2> QED BY <1>6, <2>1
<1>8. ASSUME NEW k \in Nat, k \in S PROVE k + 1 \in S
  <2> SUFFICES ASSUME NEW i \in 1..(L + 1), NEW open \in 0..MOST_NESTED, L + 1 - i <= k + 1
               PROVE  Found(i, open)
    OBVIOUS
  <2>1. CASE i = L + 1
    <3> HIDE DEF Found
    <3> QED BY <1>6, <2>1
  <2>2. CASE i # L + 1
    <3> SUFFICES ASSUME F[<<i, open>>] = 0 PROVE E[<<i + s, open + 1>>] = c OBVIOUS
    <3> DEFINE p == <<i, open>> q == <<i + s, open + 1>>
               still == StillOpen(o, i, n, open) next == i + ItemAt(o, i)
    <3>1. i \in Nat /\ i \in Nat \ {0} /\ i >= 1 /\ open \in Nat BY <1>1, OpenIsNumber
    <3>2. p \in Pairs2 /\ p[1] = i /\ p[2] = open BY <3>1 DEF Pairs2
    <3>3. F[p] = NestingStep(n, o, F, p) BY <1>4, <3>2
    <3> HIDE DEF p
    <3>4. NestingStep(n, o, F, p)
            = IF next > L + 1 \/ still \notin 0..MOST_NESTED THEN -1 ELSE F[<<next, still>>]
      BY <2>2, <3>2 DEF NestingStep, ItemAt
    <3>5. F[p] = 0 BY DEF p
    <3> HIDE DEF next, still
    <3>6. ~(next > L + 1) /\ still \in 0..MOST_NESTED /\ F[<<next, still>>] = 0
      BY <3>3, <3>4, <3>5
    <3>7. ItemAt(o, i) \in Nat /\ ItemAt(o, i) >= 1
      <4>1. ItemAt(o, i) \in Nat /\ ItemAt(o, i) >= TagAt(o, i).len /\ TagAt(o, i).len >= 1
        BY <3>1, ItemsHaveTags
      <4>2. TagAt(o, i) \in [len : Nat, number : Nat, value : Nat] BY <3>1, TagFields
      <4> QED BY <4>1, <4>2
    <3>8. next \in Nat /\ next <= L + 1 /\ next >= 1 /\ L + 1 - next <= k
      <4>1. next \in Nat /\ next >= i + 1 BY <3>1, <3>7 DEF next
      <4>2. L + 1 - i <= k + 1 OBVIOUS
      <4> HIDE DEF L
      <4> QED BY <1>1, <3>1, <3>6, <4>1, <4>2
    <3>9. i + ItemAt(o, i) <= L + 1 BY <3>8 DEF next
    <3>10. /\ ItemAt(w, i + s) = ItemAt(o, i)
           /\ Opens(w, i + s, n) <=> Opens(o, i, n)
           /\ Closes(w, i + s, n) <=> Closes(o, i, n)
      BY <3>1, <3>9, SameItem
    <3>11. NestingAfter(w, i + s, n, open + 1) = still + 1
      <4>1. StillOpen(o, i, n, open) \in 0..MOST_NESTED BY <3>6 DEF still
      <4> QED BY <3>10, <4>1, CounterIsOpen DEF still
    <3>12. q \in Counted /\ q[1] = i + s /\ q[2] = open + 1 BY <3>1 DEF Counted
    <3> HIDE DEF q
    <3>13. ItemLen(w, i + s, "any") = ItemAt(o, i) BY <3>10 DEF ItemAt
    <3>14. ~(i + s + ItemAt(o, i) > Len(w) + 1) /\ ItemAt(o, i) # 0 /\ i + s + ItemAt(o, i) = next + s
      <4>1. c = L + 1 + s BY <1>1
      <4>2. next = i + ItemAt(o, i) BY DEF next
      <4>3. c <= Len(w) + 1 BY <1>1, <1>2, <1>3
      <4>4. i + s + ItemAt(o, i) = next + s BY <3>1, <3>7, <4>2
      <4>5. next + s <= c BY <1>1, <3>8, <4>1
      <4>6. next + s \in Nat /\ ~(next + s > Len(w) + 1) BY <1>1, <3>8, <4>3, <4>5
      <4> HIDE DEF L, c
      <4> QED BY <3>7, <4>4, <4>6
    <3>15. still + 1 # 0 BY <3>6, OpenIsNumber
    <3>16. EndStep(n, w, E, q) = E[<<next + s, still + 1>>]
      BY <3>11, <3>12, <3>13, <3>14, <3>15 DEF EndStep
    <3>17. E[q] = E[<<next + s, still + 1>>] BY <1>5, <3>12, <3>16
    <3>18. next \in 1..(L + 1) BY <1>1, <3>8
    <3>19. Found(next, still) BY <1>8, <3>6, <3>8, <3>18
    <3> HIDE DEF c
    <3>20. E[q] = c BY <3>6, <3>17, <3>19
    <3> QED BY <3>20 DEF q
  <2> QED BY <2>1, <2>2
<1>9. Nat \subseteq S
  <2> HIDE DEF S
  <2> QED BY <1>7, <1>8, SetInduction
<1>10. Found(1, 0)
  <2>1. L \in S BY <1>1, <1>9
  <2>2. 1 \in 1..(L + 1) /\ 0 \in 0..MOST_NESTED /\ L + 1 - 1 <= L BY <1>1 DEF MOST_NESTED
  <2> HIDE DEF Found
  <2> QED BY <2>1, <2>2
<1>11. 1 + s = s + 1 /\ 0 + 1 = 1 BY <1>1
<1> QED BY <1>4, <1>5, <1>10, <1>11

-----------------------------------------------------------------------------
(* Brackets around octets.                                                  *)

(* The first octet of an opening tag, for which low is 6, and of a closing  *)
(* tag, for which it is 7.                                                  *)
Lows == {6, 7}
First(n, low) == (IF n <= 14 THEN n ELSE 15) * 16 + 8 + low
BracketLen(n) == IF n <= 14 THEN 1 ELSE 2

(* The first octet, read back. *)
LEMMA BracketOctet ==
  ASSUME NEW n \in Nat, NEW low \in Lows
  PROVE  /\ First(n, low) \in Nat /\ low \in Nat
         /\ First(n, low) % 8 = low
         /\ First(n, low) \div 16 = IF n <= 14 THEN n ELSE 15
<1> DEFINE m == IF n <= 14 THEN n ELSE 15
<1>1. m \in Nat /\ First(n, low) = m * 16 + 8 + low BY DEF First
<1>2. low = 6 \/ low = 7 BY DEF Lows
<1> SUFFICES First(n, low) \in Nat /\ low \in Nat /\ First(n, low) % 8 = low /\ First(n, low) \div 16 = m
  OBVIOUS
<1> HIDE DEF m
<1>3. CASE low = 6
  <2>1. (m * 16 + 14) \in Nat /\ (m * 16 + 14) % 8 = 6 /\ (m * 16 + 14) \div 16 = m BY <1>1
  <2>2. First(n, low) = m * 16 + 14 BY <1>1, <1>3
  <2> QED BY <1>3, <2>1, <2>2
<1>4. CASE low = 7
  <2>1. (m * 16 + 15) \in Nat /\ (m * 16 + 15) % 8 = 7 /\ (m * 16 + 15) \div 16 = m BY <1>1
  <2>2. First(n, low) = m * 16 + 15 BY <1>1, <1>4
  <2> QED BY <1>4, <2>1, <2>2
<1> QED BY <1>2, <1>3, <1>4

(* A bracket that stands at c, as a decoder reads it. *)
LEMMA BracketRead ==
  ASSUME NEW w \in Seq(Nat), NEW n \in Nat, NEW low \in Lows, NEW c \in Nat,
         At(w, c) = First(n, low), n > 14 => At(w, c + 1) = n
  PROVE  /\ decode_tag_number(w, c) = [len |-> BracketLen(n), number |-> n]
         /\ ItemAt(w, c) = BracketLen(n)
         /\ IsOpening(At(w, c)) <=> low = 6
         /\ IsClosing(At(w, c)) <=> low = 7
<1>1. /\ At(w, c) \in Nat /\ At(w, c) % 8 = low
      /\ At(w, c) \div 16 = IF n <= 14 THEN n ELSE 15
  BY BracketOctet
<1>2. decode_tag_number(w, c) = [len |-> BracketLen(n), number |-> n]
  <2>1. CASE n <= 14
    <3>1. At(w, c) \div 16 = n /\ n # 15 BY <1>1, <2>1
    <3>2. decode_tag_number(w, c) = [len |-> 1, number |-> n]
      BY <3>1 DEF decode_tag_number, IsExtendedNumber
    <3> QED BY <2>1, <3>2 DEF BracketLen
  <2>2. CASE n > 14
    <3>1. At(w, c) \div 16 = 15 BY <1>1, <2>2
    <3>2. decode_tag_number(w, c) = [len |-> 2, number |-> n]
      BY <2>2, <3>1 DEF decode_tag_number, IsExtendedNumber
    <3>3. ~(n <= 14) BY <2>2
    <3> QED BY <3>2, <3>3 DEF BracketLen
  <2> QED BY <2>1, <2>2
<1>3. (IsOpening(At(w, c)) <=> low = 6) /\ (IsClosing(At(w, c)) <=> low = 7)
  BY <1>1 DEF IsOpening, IsClosing
<1>4. low = 6 \/ low = 7 BY DEF Lows
<1>5. ~IsExtendedValue(At(w, c))
  <2>1. low # 5 BY <1>4
  <2> QED BY <1>1, <2>1 DEF IsExtendedValue
<1>6. TagAt(w, c).len = BracketLen(n)
  <2> DEFINE t == [len |-> BracketLen(n), number |-> n]
  <2>1. t.len = BracketLen(n) /\ t.len \in Nat BY DEF BracketLen
  <2> HIDE DEF t
  <2>2. TagAt(w, c) = TagWith(t, 0, ShortValue(At(w, c)))
    BY <1>2, <1>5 DEF TagAt, decode_tag_number_and_value, WithValue, t
  <2>3. \A v : TagWith(t, 0, v).len = t.len + 0 BY DEF TagWith
  <2>4. TagAt(w, c).len = t.len + 0 BY <2>2, <2>3
  <2>5. TagAt(w, c).len = BracketLen(n) /\ t = [len |-> BracketLen(n), number |-> n]
    BY <2>1, <2>4 DEF t
  <2> QED BY <2>5
<1>7. ItemAt(w, c) = BracketLen(n)
  <2>1. IsOpening(At(w, c)) \/ IsClosing(At(w, c)) BY <1>3, <1>4
  <2>2. ItemAt(w, c) = decode_tag_number_and_value(w, c).len BY <2>1 DEF ItemAt, ItemLen
  <2> QED BY <1>6, <2>2 DEF TagAt
<1> QED BY <1>2, <1>3, <1>7

(* The octets of a bracket. *)
IsBracket(b, n, low) ==
  /\ b \in Seq(Nat) /\ Len(b) = BracketLen(n) /\ b[1] = First(n, low)
  /\ n > 14 => b[2] = n
LEMMA BracketIs ==
  ASSUME NEW n \in Nat
  PROVE  IsBracket(encode_opening_tag(n), n, 6) /\ IsBracket(encode_closing_tag(n), n, 7)
<1>1. FirstOctet(n, TRUE, 6) = First(n, 6) /\ FirstOctet(n, TRUE, 7) = First(n, 7)
  BY DEF FirstOctet, First
<1>2. First(n, 6) \in Nat /\ First(n, 7) \in Nat BY BracketOctet DEF Lows
<1>3. CASE n <= 14
  <2>1. encode_opening_tag(n) = <<First(n, 6)>> \o <<>> /\ encode_closing_tag(n) = <<First(n, 7)>> \o <<>>
    BY <1>1, <1>3 DEF encode_opening_tag, encode_closing_tag, NumberOctet
  <2>2. \A f \in Nat : IsBracket(<<f>> \o <<>>, n, 6) <=> f = First(n, 6)
    BY <1>3 DEF IsBracket, BracketLen
  <2>3. \A f \in Nat : IsBracket(<<f>> \o <<>>, n, 7) <=> f = First(n, 7)
    BY <1>3 DEF IsBracket, BracketLen
  <2> QED BY <1>2, <2>1, <2>2, <2>3
<1>4. CASE n > 14
  <2>0. ~(n <= 14) BY <1>4
  <2>1. encode_opening_tag(n) = <<First(n, 6)>> \o <<n>> /\ encode_closing_tag(n) = <<First(n, 7)>> \o <<n>>
    BY <1>1, <2>0 DEF encode_opening_tag, encode_closing_tag, NumberOctet
  <2>2. \A f \in Nat : IsBracket(<<f>> \o <<n>>, n, 6) <=> f = First(n, 6)
    BY <1>4, <2>0 DEF IsBracket, BracketLen
  <2>3. \A f \in Nat : IsBracket(<<f>> \o <<n>>, n, 7) <=> f = First(n, 7)
    BY <1>4, <2>0 DEF IsBracket, BracketLen
  <2> QED BY <1>2, <2>1, <2>2, <2>3
<1> QED BY <1>3, <1>4

(* Where the octets of three sequences are, one behind the other. *)
LEMMA OneBehindTheOther ==
  ASSUME NEW a \in Seq(Nat), NEW b \in Seq(Nat), NEW c \in Seq(Nat)
  PROVE  /\ a \o b \o c \in Seq(Nat) /\ Len(a \o b \o c) = Len(a) + Len(b) + Len(c)
         /\ \A k \in 1..Len(a) : At(a \o b \o c, k) = a[k]
         /\ \A k \in 1..Len(b) : At(a \o b \o c, k + Len(a)) = b[k]
         /\ \A k \in 1..Len(c) : At(a \o b \o c, Len(a) + Len(b) + k) = c[k]
<1> DEFINE w == a \o b \o c A == Len(a) B == Len(b) C == Len(c)
<1>1. A \in Nat /\ B \in Nat /\ C \in Nat OBVIOUS
<1>2. w \in Seq(Nat) /\ Len(w) = A + B + C OBVIOUS
<1>3. DOMAIN w = 1..(A + B + C) BY <1>2
<1>4. \A k \in 1..A : w[k] = a[k] OBVIOUS
<1>5. \A k \in 1..B : w[k + A] = b[k] OBVIOUS
<1>6. \A k \in 1..C : w[A + B + k] = c[k] OBVIOUS
<1> HIDE DEF w, A, B, C
<1>7. \A k \in 1..A : At(w, k) = a[k] BY <1>1, <1>3, <1>4 DEF At
<1>8. \A k \in 1..B : At(w, k + A) = b[k] BY <1>1, <1>3, <1>5 DEF At
<1>9. \A k \in 1..C : At(w, A + B + k) = c[k] BY <1>1, <1>3, <1>6 DEF At
<1> QED BY <1>2, <1>7, <1>8, <1>9 DEF w, A, B, C

(* bacapp_data_len finds the closing tag of an opening tag of any number,   *)
(* over whatever whole items stand in between, as long as every bracket of  *)
(* the same number among them has its other one and they are not nested     *)
(* deeper than its counter can count.                                       *)
THEOREM EnclosedIsFound ==
  ASSUME NEW n \in Nat, NEW o \in Seq(Nat), NestingLeft(n, o) = 0
  PROVE  /\ bacapp_data_len(Enclosed(n, o), 1, "any") = Len(o)
         /\ Slice(Enclosed(n, o), 1 + decode_tag_number(Enclosed(n, o), 1).len, Len(o)) = o
<1> DEFINE a == encode_opening_tag(n) z == encode_closing_tag(n) w == Enclosed(n, o) h == BracketLen(n) L == Len(o)
<1>1. w = a \o o \o z BY DEF Enclosed
<1>2. /\ a \in Seq(Nat) /\ Len(a) = h /\ a[1] = First(n, 6) /\ (n > 14 => a[2] = n)
      /\ z \in Seq(Nat) /\ Len(z) = h /\ z[1] = First(n, 7) /\ (n > 14 => z[2] = n)
  BY BracketIs DEF IsBracket
<1>3. h \in {1, 2} /\ (n > 14 => h = 2) /\ L \in Nat BY DEF BracketLen
<1> HIDE DEF a, z, w, h, L
<1>4. /\ w \in Seq(Nat) /\ Len(w) = h + L + h
      /\ \A k \in 1..h : At(w, k) = a[k]
      /\ \A k \in 1..L : At(w, k + h) = o[k]
      /\ \A k \in 1..h : At(w, h + L + k) = z[k]
  <2>1. \A x, y \in Seq(Nat) :
          /\ x \o o \o y \in Seq(Nat) /\ Len(x \o o \o y) = Len(x) + Len(o) + Len(y)
          /\ \A k \in 1..Len(x) : At(x \o o \o y, k) = x[k]
          /\ \A k \in 1..Len(o) : At(x \o o \o y, k + Len(x)) = o[k]
          /\ \A k \in 1..Len(y) : At(x \o o \o y, Len(x) + Len(o) + k) = y[k]
    BY OneBehindTheOther
  <2>2. a \in Seq(Nat) /\ z \in Seq(Nat) /\ Len(a) = h /\ Len(z) = h BY <1>2
  <2>3. /\ w \in Seq(Nat) /\ Len(w) = Len(a) + Len(o) + Len(z)
        /\ \A k \in 1..Len(a) : At(w, k) = a[k]
        /\ \A k \in 1..Len(o) : At(w, k + Len(a)) = o[k]
        /\ \A k \in 1..Len(z) : At(w, Len(a) + Len(o) + k) = z[k]
    <3>1. /\ a \o o \o z \in Seq(Nat) /\ Len(a \o o \o z) = Len(a) + Len(o) + Len(z)
          /\ \A k \in 1..Len(a) : At(a \o o \o z, k) = a[k]
          /\ \A k \in 1..Len(o) : At(a \o o \o z, k + Len(a)) = o[k]
          /\ \A k \in 1..Len(z) : At(a \o o \o z, Len(a) + Len(o) + k) = z[k]
      BY <2>1, <2>2
    <3> QED BY <1>1, <3>1
  <2> QED BY <2>2, <2>3 DEF L
<1> DEFINE c == h + L + 1
<1>5. At(w, 1) = First(n, 6) /\ (n > 14 => At(w, 1 + 1) = n)
  <2>1. 1 \in 1..h /\ (n > 14 => 2 \in 1..h) /\ 1 + 1 = 2 BY <1>3
  <2> QED BY <1>2, <1>4, <2>1
<1>6. At(w, c) = First(n, 7) /\ (n > 14 => At(w, c + 1) = n)
  <2>1. 1 \in 1..h /\ (n > 14 => 2 \in 1..h) /\ c + 1 = h + L + 2 BY <1>3
  <2> QED BY <1>2, <1>4, <2>1
<1>7. c \in Nat BY <1>3
<1> HIDE DEF c
<1>8. decode_tag_number(w, 1) = [len |-> h, number |-> n] /\ IsOpening(At(w, 1))
  <2>1. 6 \in Lows /\ 1 \in Nat /\ w \in Seq(Nat) BY <1>4 DEF Lows
  <2> QED BY <1>5, <2>1, BracketRead DEF h
<1>9. /\ decode_tag_number(w, c) = [len |-> h, number |-> n] /\ ItemAt(w, c) = h
      /\ ~IsOpening(At(w, c)) /\ IsClosing(At(w, c))
  <2>1. 7 \in Lows /\ 7 # 6 /\ w \in Seq(Nat) BY <1>4 DEF Lows
  <2> QED BY <1>6, <1>7, <2>1, BracketRead DEF h
<1>10. ClosesAt(w, c, n)
  <2>1. Closes(w, c, n) /\ ~Opens(w, c, n)
    BY <1>9 DEF Closes, Opens, decode_is_closing_tag_number, decode_is_opening_tag_number
  <2>2. h # 0 /\ c + h <= Len(w) + 1 BY <1>3, <1>4 DEF c
  <2> QED BY <1>9, <2>1, <2>2 DEF ClosesAt
<1>11. StandsIn(o, w, h)
  <2>1. \A k \in 1..L : At(o, k) = o[k] BY DEF At, L
  <2> QED BY <1>4, <2>1 DEF StandsIn, L
<1>12. ClosingTagAt(w, h + 1, n, "any") = c
  <2>1. h \in Nat BY <1>3
  <2> QED BY <1>4, <1>10, <1>11, <2>1, ClosingFound DEF c, L
<1>13. bacapp_data_len(w, 1, "any") = L
  <2>1. 1 + h = h + 1 /\ c # 0 /\ c - (1 + h) = L BY <1>3 DEF c
  <2>2. bacapp_data_len(w, 1, "any") = c - (1 + h)
    BY <1>8, <1>12, <2>1 DEF bacapp_data_len
  <2> QED BY <2>1, <2>2
<1>14. Slice(w, 1 + h, L) = o
  <2>1. \A k \in 1..L : At(w, 1 + h + k - 1) = o[k]
    <3>1. \A k \in 1..L : 1 + h + k - 1 = k + h BY <1>3
    <3> QED BY <1>4, <3>1
  <2>2. o = [k \in 1..L |-> o[k]] BY DEF L
  <2> QED BY <2>1, <2>2 DEF Slice
<1> QED BY <1>8, <1>13, <1>14 DEF w, L

(* What was put between brackets is on the wire between them, and is read   *)
(* as it was, if it has been read.                                          *)
OnTheWire(s, w, r, n, o) ==
  s = <<"enclosed", o>> /\ w = Enclosed(n, o) /\ (r = Idle \/ r = <<"enclosed", o>>)
EnclosedInv ==
  /\ sent = Idle => read = Idle
  /\ sent[1] = "enclosed" => \E n \in TagNumbers, o \in Brackets : OnTheWire(sent, wire, read, n, o)

(* The octets of the assumption are numbers, their brackets closed. *)
LEMMA BracketsAre ==
  \A n \in TagNumbers, o \in Brackets : n \in Nat /\ o \in Seq(Nat) /\ NestingLeft(n, o) = 0
<1> SUFFICES ASSUME NEW n \in TagNumbers, NEW o \in Brackets
             PROVE  n \in Nat /\ o \in Seq(Nat) /\ NestingLeft(n, o) = 0 OBVIOUS
<1>1. n \in 0..255 BY BracketsAssumption
<1>2. n \in Nat BY <1>1
<1>3. o \in Seq(Nat) /\ NestingLeft(n, o) = 0 BY BracketsAssumption
<1> QED BY <1>2, <1>3

(* The value of a write request is found whole between its brackets,        *)
(* whatever brackets it holds itself.                                       *)
THEOREM EnclosedIsWholeHolds == CodecSpec => []EnclosedIsWhole
<1>1. CodecInit => EnclosedInv
  <2>1. Idle[1] = "idle" BY DEF Idle
  <2> QED BY <2>1 DEF CodecInit, EnclosedInv
<1>2. ASSUME EnclosedInv, [CodecNext]_codecVars PROVE EnclosedInv'
  <2>1. ASSUME NEW m \in Messages, NEW route \in Routes, SendMessage(m, route) PROVE EnclosedInv'
    BY <2>1 DEF SendMessage, EnclosedInv, Idle
  <2>2. CASE Receive
    <3>1. sent' = sent /\ sent[1] # "enclosed" /\ sent # Idle BY <2>2 DEF Receive, Idle
    <3> QED BY <3>1 DEF EnclosedInv
  <2>3. ASSUME NEW list \in Lists, SendValues(list) PROVE EnclosedInv'
    BY <2>3 DEF SendValues, EnclosedInv, Idle
  <2>4. ASSUME NEW left \in 0..MAX_APDU, CutOff(left) PROVE EnclosedInv'
    <3>1. sent' = sent /\ sent[1] # "enclosed" /\ sent # Idle BY <2>4 DEF CutOff, Idle
    <3> QED BY <3>1 DEF EnclosedInv
  <2>5. CASE ReadValues
    <3>1. sent' = sent /\ sent[1] # "enclosed" /\ sent # Idle BY <2>5 DEF ReadValues, Idle
    <3> QED BY <3>1 DEF EnclosedInv
  <2>6. ASSUME NEW n \in TagNumbers, NEW o \in Brackets, SendEnclosed(n, o)
        PROVE  EnclosedInv'
    <3>0. read = Idle BY <1>2, <2>6 DEF EnclosedInv, SendEnclosed
    <3>1. OnTheWire(sent', wire', read', n, o) BY <2>6, <3>0 DEF SendEnclosed, OnTheWire
    <3> QED BY <3>1 DEF EnclosedInv, OnTheWire, Idle
  <2>7. CASE ReadEnclosed
    <3>1. sent' = sent /\ wire' = wire /\ sent[1] = "enclosed" BY <2>7 DEF ReadEnclosed
    <3>2. PICK n \in TagNumbers, o \in Brackets : OnTheWire(sent, wire, read, n, o)
      BY <1>2, <3>1 DEF EnclosedInv
    <3>3. n \in Nat /\ o \in Seq(Nat) /\ NestingLeft(n, o) = 0 BY BracketsAre
    <3>4. wire = Enclosed(n, o) /\ sent = <<"enclosed", o>> BY <3>2 DEF OnTheWire
    <3>5. /\ bacapp_data_len(Enclosed(n, o), 1, "any") = Len(o)
          /\ Slice(Enclosed(n, o), 1 + decode_tag_number(Enclosed(n, o), 1).len, Len(o)) = o
      BY <3>3, EnclosedIsFound
    <3>6. read' = <<"enclosed", o>> BY <2>7, <3>4, <3>5 DEF ReadEnclosed
    <3>7. OnTheWire(sent', wire', read', n, o) BY <3>1, <3>4, <3>6 DEF OnTheWire
    <3> QED BY <3>1, <3>7 DEF EnclosedInv, Idle
  <2>8. ASSUME NEW at \in Clocks, SetClock(at) PROVE EnclosedInv'
    BY <2>8 DEF SetClock, EnclosedInv, Idle
  <2>9. ASSUME NEW minutes \in Minutes, AddMinutes(minutes) PROVE EnclosedInv'
    BY <2>9 DEF AddMinutes, EnclosedInv, Idle
  <2>10. CASE Clear BY <2>10 DEF Clear, Idle, EnclosedInv
  <2>11. CASE UNCHANGED codecVars BY <1>2, <2>11 DEF codecVars, EnclosedInv
  <2> QED BY <1>2, <2>1, <2>2, <2>3, <2>4, <2>5, <2>6, <2>7, <2>8, <2>9, <2>10, <2>11
          DEF CodecNext
<1>3. EnclosedInv => EnclosedIsWhole
  <2> SUFFICES ASSUME EnclosedInv, sent[1] = "enclosed", read # Idle PROVE read[2] = sent[2]
    BY DEF EnclosedIsWhole
  <2>1. PICK n \in TagNumbers, o \in Brackets : OnTheWire(sent, wire, read, n, o) BY DEF EnclosedInv
  <2> QED BY <2>1 DEF OnTheWire
<1> QED BY <1>1, <1>2, <1>3, PTL DEF CodecSpec

-----------------------------------------------------------------------------
(* The values: what is written of them is read.                             *)

(* An octet in front of others. *)
LEMMA Prepended ==
  ASSUME NEW x \in Nat, NEW s \in Seq(Nat)
  PROVE  /\ <<x>> \o s \in Seq(Nat) /\ Len(<<x>> \o s) = Len(s) + 1
         /\ (<<x>> \o s)[1] = x /\ \A i \in 1..Len(s) : (<<x>> \o s)[i + 1] = s[i]
         /\ Tail(<<x>> \o s) = s
<1> DEFINE t == <<x>> \o s
<1>1. <<x>> \in Seq(Nat) /\ Len(<<x>>) = 1 /\ <<x>>[1] = x /\ Len(s) \in Nat OBVIOUS
<1>2. /\ t \in Seq(Nat) /\ Len(t) = 1 + Len(s)
      /\ \A i \in 1..1 + Len(s) : t[i] = IF i <= 1 THEN <<x>>[i] ELSE s[i - 1]
  BY <1>1, ConcatProperties
<1> HIDE DEF t
<1>3. Len(t) = Len(s) + 1 BY <1>1, <1>2
<1>4. t[1] = x BY <1>1, <1>2
<1>5. \A i \in 1..Len(s) : t[i + 1] = s[i] BY <1>1, <1>2
<1>6. t # <<>> BY <1>1, <1>3
<1>7. Tail(t) \in Seq(Nat) /\ Len(Tail(t)) = Len(t) - 1 /\ \A i \in 1..Len(Tail(t)) : Tail(t)[i] = t[i + 1]
  BY <1>2, <1>6, HeadTailProperties
<1>8. Tail(t) = s
  <2>1. Len(Tail(t)) = Len(s) BY <1>1, <1>3, <1>7
  <2>2. \A i \in 1..Len(Tail(t)) : Tail(t)[i] = s[i] BY <1>5, <1>7, <2>1
  <2> QED BY <1>7, <2>1, <2>2, SeqEqual
<1> QED BY <1>2, <1>3, <1>4, <1>5, <1>8 DEF t

(* Contents.  What an encoder writes for a value, its decoder reads back.   *)
(* One octet to four, and the numbers they hold.                            *)
One1(d) == <<d>>
Two(c, d) == <<c, d>>
Three(b, c, d) == <<b>> \o Two(c, d)
Four(a, b, c, d) == <<a>> \o Three(b, c, d)
Number2(c, d) == c * 256 + d
Number3(b, c, d) == b * 65536 + Number2(c, d)
Number4(a, b, c, d) == a * 16777216 + Number3(b, c, d)

AreOctets(a, b, c, d) ==
  /\ One1(d) \in Seq(Nat) /\ Len(One1(d)) = 1 /\ One1(d)[1] = d
  /\ Two(c, d) \in Seq(Nat) /\ Len(Two(c, d)) = 2 /\ Two(c, d)[1] = c /\ Two(c, d)[2] = d
  /\ Three(b, c, d) \in Seq(Nat) /\ Len(Three(b, c, d)) = 3
  /\ Three(b, c, d)[1] = b /\ Tail(Three(b, c, d)) = Two(c, d)
  /\ Four(a, b, c, d) \in Seq(Nat) /\ Len(Four(a, b, c, d)) = 4
  /\ Four(a, b, c, d)[1] = a /\ Tail(Four(a, b, c, d)) = Three(b, c, d)


(* One octet to four are sequences, of what they are made of. *)
LEMMA OctetsRead ==
  ASSUME NEW a \in Nat, NEW b \in Nat, NEW c \in Nat, NEW d \in Nat
  PROVE  AreOctets(a, b, c, d)
<1>1. One1(d) \in Seq(Nat) /\ Len(One1(d)) = 1 /\ One1(d)[1] = d BY DEF One1
<1>2. Two(c, d) \in Seq(Nat) /\ Len(Two(c, d)) = 2 /\ Two(c, d)[1] = c /\ Two(c, d)[2] = d
  BY DEF Two
<1>3. /\ Three(b, c, d) \in Seq(Nat) /\ Len(Three(b, c, d)) = Len(Two(c, d)) + 1
      /\ Three(b, c, d)[1] = b /\ Tail(Three(b, c, d)) = Two(c, d)
  BY <1>2, Prepended DEF Three
<1>4. /\ Four(a, b, c, d) \in Seq(Nat) /\ Len(Four(a, b, c, d)) = Len(Three(b, c, d)) + 1
      /\ Four(a, b, c, d)[1] = a /\ Tail(Four(a, b, c, d)) = Three(b, c, d)
  BY <1>3, Prepended DEF Four
<1> QED BY <1>1, <1>2, <1>3, <1>4 DEF AreOctets

(* What the decoders of numbers make of them. *)
LEMMA NumbersOf ==
  ASSUME NEW a \in Nat, NEW b \in Nat, NEW c \in Nat, NEW d \in Nat
  PROVE  /\ decode_unsigned(One1(d)) = d
         /\ decode_unsigned(Two(c, d)) = Number2(c, d)
         /\ decode_unsigned(Three(b, c, d)) = Number3(b, c, d)
         /\ decode_unsigned(Four(a, b, c, d)) = Number4(a, b, c, d)
         /\ decode_signed(One1(d)) = WithSign(d)
         /\ decode_signed(Two(c, d)) = Number2(WithSign(c), d)
         /\ decode_signed(Three(b, c, d)) = Number3(WithSign(b), c, d)
         /\ decode_signed(Four(a, b, c, d)) = Number4(WithSign(a), b, c, d)
<1>0. AreOctets(a, b, c, d) BY OctetsRead
<1>1. One1(d)[1] = d /\ Two(c, d)[1] = c /\ Two(c, d)[2] = d /\ Three(b, c, d)[1] = b /\ Four(a, b, c, d)[1] = a
  BY <1>0, Zenon DEF AreOctets
<1>2. Tail(Three(b, c, d)) = Two(c, d) /\ Tail(Four(a, b, c, d)) = Three(b, c, d)
  BY <1>0, Zenon DEF AreOctets
<1>3. /\ Len(One1(d)) = 1 /\ Len(Two(c, d)) = 2 /\ Len(Three(b, c, d)) = 3 /\ Len(Four(a, b, c, d)) = 4
  BY <1>0, Zenon DEF AreOctets
<1>4. decode_unsigned16(Two(c, d)) = Number2(c, d)
  <2> DEFINE x == Two(c, d)[1] y == Two(c, d)[2]
  <2>1. decode_unsigned16(Two(c, d)) = x * 256 + y BY SMT DEF decode_unsigned16
  <2>2. x = c /\ y = d BY <1>1
  <2> HIDE DEF x, y
  <2> QED BY <2>1, <2>2, SMT DEF Number2
<1>5. decode_unsigned24(Three(b, c, d)) = Number3(b, c, d)
  <2> DEFINE x == Three(b, c, d)[1] y == decode_unsigned16(Tail(Three(b, c, d)))
  <2>1. decode_unsigned24(Three(b, c, d)) = x * 65536 + y BY SMT DEF decode_unsigned24
  <2>2. x = b /\ y = Number2(c, d) BY <1>1, <1>2, <1>4
  <2> HIDE DEF x, y
  <2> QED BY <2>1, <2>2, SMT DEF Number3
<1>6. decode_unsigned32(Four(a, b, c, d)) = Number4(a, b, c, d)
  <2> DEFINE x == Four(a, b, c, d)[1] y == decode_unsigned24(Tail(Four(a, b, c, d)))
  <2>1. decode_unsigned32(Four(a, b, c, d)) = x * 16777216 + y BY SMT DEF decode_unsigned32
  <2>2. x = a /\ y = Number3(b, c, d) BY <1>1, <1>2, <1>5
  <2> HIDE DEF x, y
  <2> QED BY <2>1, <2>2, SMT DEF Number4
<1>7. decode_signed8(One1(d)) = WithSign(d) BY <1>1 DEF decode_signed8
<1>8. decode_signed16(Two(c, d)) = Number2(WithSign(c), d)
  <2> DEFINE x == WithSign(Two(c, d)[1]) y == Two(c, d)[2]
  <2>1. decode_signed16(Two(c, d)) = x * 256 + y BY SMT DEF decode_signed16
  <2>2. x = WithSign(c) /\ y = d BY <1>1
  <2> HIDE DEF x, y
  <2> QED BY <2>1, <2>2, SMT DEF Number2
<1>9. decode_signed24(Three(b, c, d)) = Number3(WithSign(b), c, d)
  <2> DEFINE x == WithSign(Three(b, c, d)[1]) y == decode_unsigned16(Tail(Three(b, c, d)))
  <2>1. decode_signed24(Three(b, c, d)) = x * 65536 + y BY SMT DEF decode_signed24
  <2>2. x = WithSign(b) /\ y = Number2(c, d) BY <1>1, <1>2, <1>4
  <2> HIDE DEF x, y
  <2> QED BY <2>1, <2>2, SMT DEF Number3
<1>10. decode_signed32(Four(a, b, c, d)) = Number4(WithSign(a), b, c, d)
  <2> DEFINE x == WithSign(Four(a, b, c, d)[1]) y == decode_unsigned24(Tail(Four(a, b, c, d)))
  <2>1. decode_signed32(Four(a, b, c, d)) = x * 16777216 + y BY SMT DEF decode_signed32
  <2>2. x = WithSign(a) /\ y = Number3(b, c, d) BY <1>1, <1>2, <1>5
  <2> HIDE DEF x, y
  <2> QED BY <2>1, <2>2, SMT DEF Number4
<1>11. ASSUME NEW o
       PROVE  /\ Len(o) = 1 => decode_unsigned(o) = o[1] /\ decode_signed(o) = decode_signed8(o)
              /\ Len(o) = 2 => decode_unsigned(o) = decode_unsigned16(o) /\ decode_signed(o) = decode_signed16(o)
              /\ Len(o) = 3 => decode_unsigned(o) = decode_unsigned24(o) /\ decode_signed(o) = decode_signed24(o)
              /\ Len(o) = 4 => decode_unsigned(o) = decode_unsigned32(o) /\ decode_signed(o) = decode_signed32(o)
  BY SMT DEF decode_unsigned, decode_signed
<1>12. /\ decode_unsigned(One1(d)) = One1(d)[1] /\ decode_signed(One1(d)) = decode_signed8(One1(d))
       /\ decode_unsigned(Two(c, d)) = decode_unsigned16(Two(c, d))
       /\ decode_signed(Two(c, d)) = decode_signed16(Two(c, d))
       /\ decode_unsigned(Three(b, c, d)) = decode_unsigned24(Three(b, c, d))
       /\ decode_signed(Three(b, c, d)) = decode_signed24(Three(b, c, d))
       /\ decode_unsigned(Four(a, b, c, d)) = decode_unsigned32(Four(a, b, c, d))
       /\ decode_signed(Four(a, b, c, d)) = decode_signed32(Four(a, b, c, d))
  BY <1>3, <1>11
<1> QED BY <1>1, <1>4, <1>5, <1>6, <1>7, <1>8, <1>9, <1>10, <1>12

(* A number of 32 bits takes one to four octets. *)
LEMMA NumberRead ==
  ASSUME NEW n \in Word
  PROVE  /\ encode_bacnet_unsigned(n) \in Seq(Nat)
         /\ Len(encode_bacnet_unsigned(n)) \in {1, 2, 3, 4}
         /\ decode_unsigned(encode_bacnet_unsigned(n)) = n
<1> DEFINE a == (n \div 16777216) % 256
           b == (n \div 65536) % 256
           c == (n \div 256) % 256
           d == n % 256
<1>1. n \in Nat /\ n \div 65536 <= 65535 BY SMT DEF Word
<1>2. a \in Nat /\ b \in Nat /\ c \in Nat /\ d \in Nat BY <1>1, SMT
<1>3. /\ n < 256 => n = d
      /\ n < 65536 => n = Number2(c, d)
      /\ n < 16777216 => n = Number3(b, c, d)
      /\ n = Number4(a, b, c, d)
  BY <1>1, SMT DEF Number2, Number3, Number4
<1>4. /\ encode_unsigned16(n) = Two(c, d)
      /\ encode_unsigned24(n) = Three(b, c, d)
      /\ encode_unsigned32(n) = Four(a, b, c, d)
  BY SMT DEF encode_unsigned16, encode_unsigned24, encode_unsigned32, Two, Three, Four
<1> HIDE DEF a, b, c, d
<1>5. \/ encode_bacnet_unsigned(n) = One1(d) /\ n = d
      \/ encode_bacnet_unsigned(n) = Two(c, d) /\ n = Number2(c, d)
      \/ encode_bacnet_unsigned(n) = Three(b, c, d) /\ n = Number3(b, c, d)
      \/ encode_bacnet_unsigned(n) = Four(a, b, c, d) /\ n = Number4(a, b, c, d)
  <2>1. /\ n < 256 => encode_bacnet_unsigned(n) = One1(n)
        /\ ~(n < 256) /\ n < 65536 => encode_bacnet_unsigned(n) = encode_unsigned16(n)
        /\ ~(n < 256) /\ ~(n < 65536) /\ n < 16777216 => encode_bacnet_unsigned(n) = encode_unsigned24(n)
        /\ ~(n < 256) /\ ~(n < 65536) /\ ~(n < 16777216) => encode_bacnet_unsigned(n) = encode_unsigned32(n)
    BY SMT DEF encode_bacnet_unsigned, One1
  <2> QED BY <1>3, <1>4, <2>1, SMT
<1>6. /\ One1(d) \in Seq(Nat) /\ Len(One1(d)) = 1 /\ Two(c, d) \in Seq(Nat) /\ Len(Two(c, d)) = 2
      /\ Three(b, c, d) \in Seq(Nat) /\ Len(Three(b, c, d)) = 3
      /\ Four(a, b, c, d) \in Seq(Nat) /\ Len(Four(a, b, c, d)) = 4
  <2>1. AreOctets(a, b, c, d) BY <1>2, OctetsRead
  <2> QED BY <2>1, Zenon DEF AreOctets
<1>7. /\ decode_unsigned(One1(d)) = d
      /\ decode_unsigned(Two(c, d)) = Number2(c, d)
      /\ decode_unsigned(Three(b, c, d)) = Number3(b, c, d)
      /\ decode_unsigned(Four(a, b, c, d)) = Number4(a, b, c, d)
  BY <1>2, NumbersOf
<1> QED BY <1>5, <1>6, <1>7

(* The sign of a signed one stands in its first octet. *)
LEMMA SignedRead ==
  ASSUME NEW n \in SignedWord
  PROVE  /\ encode_bacnet_signed(n) \in Seq(Nat)
         /\ Len(encode_bacnet_signed(n)) \in {1, 2, 3, 4}
         /\ decode_signed(encode_bacnet_signed(n)) = n
<1> DEFINE a == (n \div 16777216) % 256
           b == (n \div 65536) % 256
           c == (n \div 256) % 256
           d == n % 256
<1>1. n \in Int /\ n \div 65536 >= -32768 /\ n \div 65536 <= 32767 BY SMT DEF SignedWord
<1>2. a \in Nat /\ b \in Nat /\ c \in Nat /\ d \in Nat BY <1>1, SMT
<1>3. /\ n >= -128 /\ n < 128 => n = WithSign(d)
      /\ n >= -32768 /\ n < 32768 => n = Number2(WithSign(c), d)
      /\ n > -8388608 /\ n < 8388608 => n = Number3(WithSign(b), c, d)
      /\ n = Number4(WithSign(a), b, c, d)
  <2>1. n >= -128 /\ n < 128 => n = WithSign(d) BY <1>1, SMT DEF WithSign
  <2>2. n >= -32768 /\ n < 32768 => n = Number2(WithSign(c), d) BY <1>1, SMT DEF WithSign, Number2
  <2>3. n > -8388608 /\ n < 8388608 => n = Number3(WithSign(b), c, d)
    BY <1>1, SMT DEF WithSign, Number2, Number3
  <2>4. n = Number4(WithSign(a), b, c, d) BY <1>1, SMT DEF WithSign, Number2, Number3, Number4
  <2> QED BY <2>1, <2>2, <2>3, <2>4, SMT
<1>4. /\ encode_unsigned16(n) = Two(c, d)
      /\ encode_unsigned24(n) = Three(b, c, d)
      /\ encode_unsigned32(n) = Four(a, b, c, d)
      /\ <<n % 256>> = One1(d)
  BY SMT DEF encode_unsigned16, encode_unsigned24, encode_unsigned32, One1, Two, Three, Four
<1> HIDE DEF a, b, c, d
<1>5. \/ encode_bacnet_signed(n) = One1(d) /\ n = WithSign(d)
      \/ encode_bacnet_signed(n) = Two(c, d) /\ n = Number2(WithSign(c), d)
      \/ encode_bacnet_signed(n) = Three(b, c, d) /\ n = Number3(WithSign(b), c, d)
      \/ encode_bacnet_signed(n) = Four(a, b, c, d) /\ n = Number4(WithSign(a), b, c, d)
  <2> DEFINE fits1 == n >= -128 /\ n < 128
             fits2 == n >= -32768 /\ n < 32768
             fits3 == n > -8388608 /\ n < 8388608
  <2>1. /\ fits1 => encode_bacnet_signed(n) = <<n % 256>>
        /\ ~fits1 /\ fits2 => encode_bacnet_signed(n) = encode_unsigned16(n)
        /\ ~fits1 /\ ~fits2 /\ fits3 => encode_bacnet_signed(n) = encode_unsigned24(n)
        /\ ~fits1 /\ ~fits2 /\ ~fits3 => encode_bacnet_signed(n) = encode_unsigned32(n)
    BY SMT DEF encode_bacnet_signed, FitsThreeOctets
  <2>2. /\ fits1 => n = WithSign(d)
        /\ fits2 => n = Number2(WithSign(c), d)
        /\ fits3 => n = Number3(WithSign(b), c, d)
    BY <1>3, SMT
  <2> HIDE DEF fits1, fits2, fits3
  <2> QED BY <1>3, <1>4, <2>1, <2>2, SMT
<1>6. /\ One1(d) \in Seq(Nat) /\ Len(One1(d)) = 1 /\ Two(c, d) \in Seq(Nat) /\ Len(Two(c, d)) = 2
      /\ Three(b, c, d) \in Seq(Nat) /\ Len(Three(b, c, d)) = 3
      /\ Four(a, b, c, d) \in Seq(Nat) /\ Len(Four(a, b, c, d)) = 4
  <2>1. AreOctets(a, b, c, d) BY <1>2, OctetsRead
  <2> QED BY <2>1, Zenon DEF AreOctets
<1>7. /\ decode_signed(One1(d)) = WithSign(d)
      /\ decode_signed(Two(c, d)) = Number2(WithSign(c), d)
      /\ decode_signed(Three(b, c, d)) = Number3(WithSign(b), c, d)
      /\ decode_signed(Four(a, b, c, d)) = Number4(WithSign(a), b, c, d)
  BY <1>2, NumbersOf
<1> QED BY <1>5, <1>6, <1>7

(* The same in four octets, and in two where they are enough. *)
LEMMA WordRead ==
  ASSUME NEW n \in Word
  PROVE  /\ encode_unsigned32(n) \in Seq(Nat) /\ Len(encode_unsigned32(n)) = 4
         /\ decode_unsigned32(encode_unsigned32(n)) = n
         /\ encode_unsigned16(n) \in Seq(Nat) /\ Len(encode_unsigned16(n)) = 2
         /\ n < 65536 => decode_unsigned16(encode_unsigned16(n)) = n
<1> DEFINE a == (n \div 16777216) % 256
           b == (n \div 65536) % 256
           c == (n \div 256) % 256
           d == n % 256
<1>1. n \in Nat /\ n \div 65536 <= 65535 BY SMT DEF Word
<1>2. a \in Nat /\ b \in Nat /\ c \in Nat /\ d \in Nat BY <1>1, SMT
<1>3. (n < 65536 => n = Number2(c, d)) /\ n = Number4(a, b, c, d)
  BY <1>1, SMT DEF Number2, Number3, Number4
<1>4. encode_unsigned16(n) = Two(c, d) /\ encode_unsigned32(n) = Four(a, b, c, d)
  BY SMT DEF encode_unsigned16, encode_unsigned24, encode_unsigned32, Two, Three, Four
<1> HIDE DEF a, b, c, d
<1>5. AreOctets(a, b, c, d) BY <1>2, OctetsRead
<1>6. /\ Two(c, d) \in Seq(Nat) /\ Len(Two(c, d)) = 2
      /\ Four(a, b, c, d) \in Seq(Nat) /\ Len(Four(a, b, c, d)) = 4
  BY <1>5, Zenon DEF AreOctets
<1>7. ASSUME NEW o
      PROVE  /\ Len(o) = 2 => decode_unsigned(o) = decode_unsigned16(o)
             /\ Len(o) = 4 => decode_unsigned(o) = decode_unsigned32(o)
  BY SMT DEF decode_unsigned
<1>8. /\ decode_unsigned(Two(c, d)) = Number2(c, d)
      /\ decode_unsigned(Four(a, b, c, d)) = Number4(a, b, c, d)
  BY <1>2, NumbersOf
<1>9. /\ decode_unsigned16(Two(c, d)) = Number2(c, d)
      /\ decode_unsigned32(Four(a, b, c, d)) = Number4(a, b, c, d)
  BY <1>6, <1>7, <1>8
<1> QED BY <1>3, <1>4, <1>6, <1>9

(* A real and a double are turned round twice. *)
LEMMA ReversedTwice ==
  ASSUME NEW o \in Seq(Nat)
  PROVE  Reverse(o) \in Seq(Nat) /\ Len(Reverse(o)) = Len(o) /\ Reverse(Reverse(o)) = o
<1>1. Len(o) \in Nat /\ \A i \in 1..Len(o) : o[i] \in Nat OBVIOUS
<1> DEFINE r == Reverse(o) n == Len(o)
<1>2. r = [i \in 1..n |-> o[(n - i) + 1]] BY DEF Reverse
<1>3. \A i \in 1..n : (n - i) + 1 \in 1..n /\ (n - ((n - i) + 1)) + 1 = i BY <1>1
<1>4. r \in Seq(Nat) /\ Len(r) = n BY <1>1, <1>2, <1>3
<1>5. Reverse(r) = [i \in 1..n |-> r[(n - i) + 1]] BY <1>4 DEF Reverse
<1>6. \A i \in 1..n : Reverse(r)[i] = o[i] BY <1>2, <1>3, <1>5
<1>7. Reverse(r) \in Seq(Nat) /\ Len(Reverse(r)) = n
  <2>1. \A i \in 1..n : r[(n - i) + 1] \in Nat BY <1>1, <1>2, <1>3
  <2> QED BY <1>1, <1>5, <2>1
<1>8. Reverse(r) = o
  <2> HIDE DEF r
  <2> QED BY <1>6, <1>7, SeqEqual
<1> QED BY <1>4, <1>8

(* The bits of an octet, from the highest on. *)
Octet8(b1, b2, b3, b4, b5, b6, b7, b8) ==
  b1 * 128 + b2 * 64 + b3 * 32 + b4 * 16 + b5 * 8 + b6 * 4 + b7 * 2 + b8
OctetHolds(x, b1, b2, b3, b4, b5, b6, b7, b8) ==
  /\ x \in Nat /\ (x \div 128) % 2 = b1 /\ (x \div 64) % 2 = b2 /\ (x \div 32) % 2 = b3
  /\ (x \div 16) % 2 = b4 /\ (x \div 8) % 2 = b5 /\ (x \div 4) % 2 = b6
  /\ (x \div 2) % 2 = b7 /\ (x \div 1) % 2 = b8
Bit == {0, 1}

(* An octet holds the bits it is put together of. *)
LEMMA BitsOfOctet ==
  ASSUME NEW b1 \in Bit, NEW b2 \in Bit, NEW b3 \in Bit, NEW b4 \in Bit,
         NEW b5 \in Bit, NEW b6 \in Bit, NEW b7 \in Bit, NEW b8 \in Bit, NEW x,
         x = Octet8(b1, b2, b3, b4, b5, b6, b7, b8)
  PROVE  OctetHolds(x, b1, b2, b3, b4, b5, b6, b7, b8)
<1>1. /\ b1 \in Int /\ 0 <= b1 /\ b1 <= 1 /\ b2 \in Int /\ 0 <= b2 /\ b2 <= 1
      /\ b3 \in Int /\ 0 <= b3 /\ b3 <= 1 /\ b4 \in Int /\ 0 <= b4 /\ b4 <= 1
      /\ b5 \in Int /\ 0 <= b5 /\ b5 <= 1 /\ b6 \in Int /\ 0 <= b6 /\ b6 <= 1
      /\ b7 \in Int /\ 0 <= b7 /\ b7 <= 1 /\ b8 \in Int /\ 0 <= b8 /\ b8 <= 1
  BY DEF Bit
<1>2. x = b1 * 128 + b2 * 64 + b3 * 32 + b4 * 16 + b5 * 8 + b6 * 4 + b7 * 2 + b8
  BY SMT DEF Octet8
<1>3. x \in Nat /\ (x \div 128) % 2 = b1 /\ (x \div 64) % 2 = b2 BY <1>1, <1>2, SMT
<1>4. (x \div 32) % 2 = b3 /\ (x \div 16) % 2 = b4 BY <1>1, <1>2, SMT
<1>5. (x \div 8) % 2 = b5 /\ (x \div 4) % 2 = b6 BY <1>1, <1>2, SMT
<1>6. (x \div 2) % 2 = b7 /\ (x \div 1) % 2 = b8 BY <1>1, <1>2, SMT
<1> QED BY <1>3, <1>4, <1>5, <1>6 DEF OctetHolds

(* A bit of a string stands where it is looked for. *)
LEMMA BitAt ==
  ASSUME NEW bits \in Seq(BOOLEAN), NEW k \in Nat, NEW j \in 1..8
  PROVE  /\ byte_reverse_bits(bits, k + 1) \in Nat
         /\ (byte_reverse_bits(bits, k + 1) \div BitWeights[j]) % 2 = bitstring_bit(bits, 8 * k + j)
<1> DEFINE bit(i) == bitstring_bit(bits, 8 * k + i)
           x == byte_reverse_bits(bits, k + 1)
<1>1. \A i : bit(i) \in Bit BY DEF bitstring_bit, Bit
<1>2. 8 * ((k + 1) - 1) = 8 * k OBVIOUS
<1>3. x = Octet8(bit(1), bit(2), bit(3), bit(4), bit(5), bit(6), bit(7), bit(8))
  BY <1>2 DEF byte_reverse_bits, Octet8
<1> HIDE DEF bit, x
<1>4. OctetHolds(x, bit(1), bit(2), bit(3), bit(4), bit(5), bit(6), bit(7), bit(8))
  <2>1. /\ bit(1) \in Bit /\ bit(2) \in Bit /\ bit(3) \in Bit /\ bit(4) \in Bit
        /\ bit(5) \in Bit /\ bit(6) \in Bit /\ bit(7) \in Bit /\ bit(8) \in Bit
    BY <1>1
  <2> QED BY <1>3, <2>1, BitsOfOctet
<1>5. /\ BitWeights[1] = 128 /\ BitWeights[2] = 64 /\ BitWeights[3] = 32 /\ BitWeights[4] = 16
      /\ BitWeights[5] = 8 /\ BitWeights[6] = 4 /\ BitWeights[7] = 2 /\ BitWeights[8] = 1
  BY DEF BitWeights
<1>6. j = 1 \/ j = 2 \/ j = 3 \/ j = 4 \/ j = 5 \/ j = 6 \/ j = 7 \/ j = 8 OBVIOUS
<1>7. x \in Nat /\ (x \div BitWeights[j]) % 2 = bit(j)
  <2> USE <1>4, <1>5 DEF OctetHolds
  <2>1. CASE j = 1 BY <2>1
  <2>2. CASE j = 2 BY <2>2
  <2>3. CASE j = 3 BY <2>3
  <2>4. CASE j = 4 BY <2>4
  <2>5. CASE j = 5 BY <2>5
  <2>6. CASE j = 6 BY <2>6
  <2>7. CASE j = 7 BY <2>7
  <2>8. CASE j = 8 BY <2>8
  <2> QED BY <1>6, <2>1, <2>2, <2>3, <2>4, <2>5, <2>6, <2>7, <2>8
<1> QED BY <1>7 DEF x, bit

(* A string of bits is read as it was written. *)
LEMMA BitsRead ==
  ASSUME NEW bits \in BitString
  PROVE  /\ encode_bitstring(bits) \in Seq(Nat)
         /\ Len(encode_bitstring(bits)) >= 1 /\ Len(encode_bitstring(bits)) <= 16
         /\ decode_bitstring(encode_bitstring(bits)) = bits
<1> DEFINE L == Len(bits)
           bytes == bitstring_bytes_used(bits)
           unused == 8 * bytes - L
           octets == [k \in 1..bytes |-> byte_reverse_bits(bits, k)]
           o == encode_bitstring(bits)
<1>1. bits \in Seq(BOOLEAN) /\ L \in Nat /\ L <= 120
  <2>1. MAX_BITSTRING_BYTES = 15 BY DEF MAX_BITSTRING_BYTES
  <2> QED BY <2>1 DEF BitString
<1>2. bytes = (L + 7) \div 8 BY DEF bitstring_bytes_used
<1>3. CASE bits = <<>>
  <2>1. o = <<0>> BY <1>3 DEF encode_bitstring
  <2>2. o \in Seq(Nat) /\ Len(o) = 1 /\ o[1] = 0 /\ o # <<>> BY <2>1
  <2>3. bitstring_set_bits_used(Len(o) - 1, o[1] % 8) = 0 BY <2>2 DEF bitstring_set_bits_used
  <2>4. ~(Len(o) - 1 > MAX_BITSTRING_BYTES) BY <2>2 DEF MAX_BITSTRING_BYTES
  <2> HIDE DEF o
  <2>5. decode_bitstring(o) = <<>> BY <2>2, <2>3, <2>4 DEF decode_bitstring
  <2>6. Len(o) >= 1 /\ Len(o) <= 16 BY <2>2
  <2>7. decode_bitstring(o) = bits BY <1>3, <2>5
  <2> QED BY <2>2, <2>6, <2>7 DEF o
<1>4. CASE bits # <<>>
  <2>1. L >= 1 BY <1>1, <1>4
  <2> HIDE DEF L
  <2>2. bytes \in Nat /\ bytes >= 1 /\ bytes <= 15 /\ unused \in Nat /\ unused <= 7
    BY <1>1, <1>2, <2>1, SMT
  <2>3. o = <<unused>> \o octets BY <1>4 DEF encode_bitstring, L
  <2>4. \A k \in 1..bytes : byte_reverse_bits(bits, k) \in Nat
    <3> SUFFICES ASSUME NEW k \in 1..bytes PROVE byte_reverse_bits(bits, k) \in Nat OBVIOUS
    <3>1. k - 1 \in Nat /\ (k - 1) + 1 = k /\ 1 \in 1..8 BY <2>2
    <3> HIDE DEF bytes
    <3>2. byte_reverse_bits(bits, (k - 1) + 1) \in Nat BY <1>1, <3>1, BitAt
    <3> QED BY <3>1, <3>2
  <2>5. octets \in Seq(Nat) /\ Len(octets) = bytes /\ \A k \in 1..bytes : octets[k] = byte_reverse_bits(bits, k)
    BY <2>2, <2>4
  <2> HIDE DEF bytes, unused, octets, o
  <2>6. /\ o \in Seq(Nat) /\ Len(o) = bytes + 1 /\ o[1] = unused
        /\ \A k \in 1..bytes : o[k + 1] = byte_reverse_bits(bits, k)
    BY <2>2, <2>3, <2>5, Prepended
  <2>7. o # <<>> /\ ~(Len(o) - 1 > MAX_BITSTRING_BYTES)
    <3>1. MAX_BITSTRING_BYTES = 15 BY DEF MAX_BITSTRING_BYTES
    <3>2. Len(o) # 0 /\ ~(Len(o) - 1 > 15) BY <2>2, <2>6
    <3> QED BY <3>1, <3>2
  <2>8. bitstring_set_bits_used(Len(o) - 1, o[1] % 8) = L
    <3>1. o[1] % 8 = unused /\ Len(o) - 1 = bytes BY <2>2, <2>6
    <3>2. bitstring_set_bits_used(bytes, unused) = 8 * bytes - unused BY DEF bitstring_set_bits_used
    <3>3. 8 * bytes - unused = L BY <1>1, <2>2 DEF unused
    <3> QED BY <3>1, <3>2, <3>3
  <2>9. decode_bitstring(o)
          = [i \in 1..L |-> (o[2 + (i - 1) \div 8] \div BitWeights[1 + ((i - 1) % 8)]) % 2 = 1]
    BY <2>7, <2>8 DEF decode_bitstring
  <2>10. ASSUME NEW i \in 1..L
         PROVE  ((o[2 + (i - 1) \div 8] \div BitWeights[1 + ((i - 1) % 8)]) % 2 = 1) = bits[i]
    <3> DEFINE q == (i - 1) \div 8
               j == 1 + ((i - 1) % 8)
    <3>1. q \in Nat /\ j \in 1..8 /\ 8 * q + j = i BY <1>1
    <3>2. q + 1 \in 1..bytes BY <1>1, <1>2
    <3>3. 2 + q = (q + 1) + 1 BY <3>1
    <3> HIDE DEF q, j
    <3>4. o[2 + q] = byte_reverse_bits(bits, q + 1) BY <2>6, <3>2, <3>3
    <3>5. (byte_reverse_bits(bits, q + 1) \div BitWeights[j]) % 2 = bitstring_bit(bits, 8 * q + j)
      BY <1>1, <3>1, BitAt
    <3>6. (o[2 + q] \div BitWeights[j]) % 2 = bitstring_bit(bits, i) BY <3>1, <3>4, <3>5
    <3>7. bits[i] \in BOOLEAN /\ i \in DOMAIN bits BY <1>1 DEF L
    <3>8. (bitstring_bit(bits, i) = 1) <=> bits[i] BY <3>7 DEF bitstring_bit
    <3> DEFINE x == (o[2 + q] \div BitWeights[j]) % 2
    <3>9. (x = 1) <=> bits[i] BY <3>6, <3>8
    <3> HIDE DEF x
    <3>10. (x = 1) = bits[i] BY <3>7, <3>9
    <3> QED BY <3>10 DEF x, q, j
  <2>11. decode_bitstring(o) = [i \in 1..L |-> bits[i]] BY <2>9, <2>10
  <2>12. bits = [i \in 1..L |-> bits[i]] BY <1>1 DEF L
  <2> QED BY <2>2, <2>6, <2>11, <2>12 DEF o
<1> QED BY <1>3, <1>4

(* The type and instance of an object share a word. *)
LEMMA ObjectRead ==
  ASSUME NEW id \in ObjectId
  PROVE  /\ encode_bacnet_object_id(id) \in Seq(Nat) /\ Len(encode_bacnet_object_id(id)) = 4
         /\ decode_object_id_safe(encode_bacnet_object_id(id)) = id
<1> DEFINE n == (id[1] % 1024) * 4194304 + (id[2] % 4194304)
           o == encode_bacnet_object_id(id)
<1>1. id[1] \in Nat /\ id[2] \in Nat /\ id[1] <= 1023 /\ id[2] <= 4194303 /\ id = <<id[1], id[2]>>
  BY SMT DEF ObjectId, BACNET_MAX_OBJECT, BACNET_MAX_INSTANCE
<1>2. n \in Nat /\ n \div 65536 <= 65535 /\ n \div 4194304 = id[1] /\ n % 4194304 = id[2]
  <2> DEFINE t == id[1] k == id[2]
  <2>1. t \in Nat /\ k \in Nat /\ t <= 1023 /\ k <= 4194303 BY <1>1
  <2> HIDE DEF t, k
  <2>2. t % 1024 = t /\ k % 4194304 = k BY <2>1, SMT
  <2>3. /\ t * 4194304 + k \in Nat /\ (t * 4194304 + k) \div 65536 <= 65535
        /\ (t * 4194304 + k) \div 4194304 = t /\ (t * 4194304 + k) % 4194304 = k
    BY <2>1, SMT
  <2>4. n = (t % 1024) * 4194304 + (k % 4194304) BY SMT DEF t, k
  <2> HIDE DEF n
  <2>5. n = t * 4194304 + k BY <2>1, <2>2, <2>4, SMT
  <2> QED BY <2>3, <2>5, SMT DEF t, k
<1>3. o = encode_unsigned32(n) BY SMT DEF encode_bacnet_object_id
<1> HIDE DEF n, o
<1>4. n \in Word BY <1>2, SMT DEF Word
<1>5. o \in Seq(Nat) /\ Len(o) = 4 /\ decode_unsigned32(o) = n BY <1>3, <1>4, WordRead
<1>6. decode_object_id_safe(o) = <<n \div 4194304, n % 4194304>>
  BY <1>5, SMT DEF decode_object_id_safe, decode_object_id
<1>7. decode_object_id_safe(o) = id BY <1>1, <1>2, <1>6, SMT
<1> QED BY <1>5, <1>7 DEF o

(* One octet to four. *)
Few(k) == k \in {1, 2, 3, 4}

(* That is fewer than a message has. *)
LEMMA FewAreSome ==
  ASSUME NEW k, Few(k) PROVE k \in Nat /\ k >= 1 /\ k <= 4 /\ k <= 1470
<1>1. k = 1 \/ k = 2 \/ k = 3 \/ k = 4 BY DEF Few
<1>2. CASE k = 1 BY <1>2
<1>3. CASE k = 2 BY <1>3
<1>4. CASE k = 3 BY <1>4
<1>5. CASE k = 4 BY <1>5
<1> QED BY <1>1, <1>2, <1>3, <1>4, <1>5

(* What a value of a type with contents is written as: behind the tag of    *)
(* its type, octets that the decoder takes and reads as the value.          *)
Typed == {"unsigned", "signed", "real", "double", "octets", "string", "bits", "enumerated", "object"}
ReadAs(type, c, x) ==
  /\ c \in Seq(Nat) /\ Len(c) <= 1470 /\ (Len(c) = 0 => type = "octets")
  /\ TakenOf(type, Len(c)) = Len(c) /\ Contents(type, c) = x
WrittenAs(v, c) == bacapp_encode_application_data(v[1], v[2]) = Tagged(Tags[v[1]], FALSE, c)
HasContents(v) == \E c : WrittenAs(v, c) /\ ReadAs(v[1], c, v[2])

(* All of those types are compiled in. *)
LEMMA TypesAre ==
  /\ DOMAIN Tags = Typed \cup {"null", "boolean", "date", "time"}
  /\ \A type \in Typed \cup {"null", "boolean"} : type \in CompiledIn
  /\ Tags["null"] = 0 /\ Tags["boolean"] = 1 /\ Tags["unsigned"] = 2 /\ Tags["signed"] = 3
  /\ Tags["real"] = 4 /\ Tags["double"] = 5 /\ Tags["octets"] = 6 /\ Tags["string"] = 7
  /\ Tags["bits"] = 8 /\ Tags["enumerated"] = 9 /\ Tags["date"] = 10 /\ Tags["time"] = 11
  /\ Tags["object"] = 12
<1>1. DOMAIN Tags = Typed \cup {"null", "boolean", "date", "time"} BY DEF Tags, Typed
<1>2. \A type \in Typed \cup {"null", "boolean"} : type \in CompiledIn
  BY <1>1 DEF CompiledIn, Typed
<1>3. /\ Tags["null"] = 0 /\ Tags["boolean"] = 1 /\ Tags["unsigned"] = 2 /\ Tags["signed"] = 3
      /\ Tags["real"] = 4 /\ Tags["double"] = 5 /\ Tags["octets"] = 6 /\ Tags["string"] = 7
      /\ Tags["bits"] = 8 /\ Tags["enumerated"] = 9 /\ Tags["date"] = 10 /\ Tags["time"] = 11
      /\ Tags["object"] = 12
  BY DEF Tags
<1> QED BY <1>1, <1>2, <1>3

(* A tag's number tells the type it was written for. *)
LEMMA TypeOfTag ==
  ASSUME NEW type \in DOMAIN Tags PROVE TypeOf(Tags[type]) = type
<1>1. \A t \in DOMAIN Tags : Tags[t] = Tags[type] => t = type BY TypesAre DEF Typed
<1> QED BY <1>1 DEF TypeOf

(* The capacities of the strings, and the longest of contents. *)
LEMMA Capacities ==
  /\ MAX_APDU \in Nat /\ MAX_APDU >= 50 /\ MAX_APDU <= 1476
  /\ OCTET_STRING_CAPACITY \in Nat /\ OCTET_STRING_CAPACITY <= 1470 /\ OCTET_STRING_CAPACITY = MAX_APDU - 6
  /\ CHARACTER_STRING_CAPACITY \in Nat /\ CHARACTER_STRING_CAPACITY <= 1469
  /\ CHARACTER_STRING_CAPACITY = MAX_APDU - 7
<1>1. MAX_APDU \in Nat /\ MAX_APDU >= 50 /\ MAX_APDU <= 1476 BY ValuesAssumption
<1>2. OCTET_STRING_CAPACITY = MAX_APDU - 6 /\ CHARACTER_STRING_CAPACITY = MAX_APDU - 7
  BY DEF OCTET_STRING_CAPACITY, CHARACTER_STRING_CAPACITY
<1> QED BY <1>1, <1>2

(* Numbers and objects. *)
LEMMA NumbersHaveContents ==
  ASSUME NEW x
  PROVE  /\ x \in Word => HasContents(<<"unsigned", x>>) /\ HasContents(<<"enumerated", x>>)
         /\ x \in SignedWord => HasContents(<<"signed", x>>)
         /\ x \in Exactly(4) => HasContents(<<"real", x>>)
         /\ x \in Exactly(8) => HasContents(<<"double", x>>)
         /\ x \in ObjectId => HasContents(<<"object", x>>)
<1>1. /\ "unsigned" \in CompiledIn /\ "enumerated" \in CompiledIn /\ "signed" \in CompiledIn
      /\ "real" \in CompiledIn /\ "double" \in CompiledIn
  BY TypesAre DEF Typed
<1>2. ASSUME x \in Word PROVE HasContents(<<"unsigned", x>>) /\ HasContents(<<"enumerated", x>>)
  <2> DEFINE c == encode_bacnet_unsigned(x)
  <2>1. c \in Seq(Nat) /\ Len(c) \in {1, 2, 3, 4} /\ decode_unsigned(c) = x BY <1>2, NumberRead
  <2>2. encode_bacnet_enumerated(x) = c /\ decode_enumerated(c) = x
    BY <2>1 DEF encode_bacnet_enumerated, decode_enumerated
  <2>3. /\ WrittenAs(<<"unsigned", x>>, c) /\ WrittenAs(<<"enumerated", x>>, c)
    BY <2>2, TypesAre DEF WrittenAs, bacapp_encode_application_data, Typed, Tags,
       encode_application_unsigned, encode_application_enumerated
  <2>4. Contents("unsigned", c) = x /\ Contents("enumerated", c) = x BY <2>1, <2>2 DEF Contents
  <2> HIDE DEF c
  <2>5. Len(c) >= 1 /\ Len(c) <= 1470
    <3>1. Len(c) \in {1, 2, 3, 4} BY <2>1
    <3>2. Few(Len(c)) BY <3>1, Zenon DEF Few
    <3> QED BY <3>2, FewAreSome
  <2>6. /\ TakenOf("unsigned", Len(c)) = Len(c) /\ TakenOf("enumerated", Len(c)) = Len(c)
        /\ Len(c) # 0
    <3>1. Len(c) # 0 BY <2>1, <2>5
    <3> QED BY <1>1, <2>5, <3>1 DEF TakenOf
  <2>7. ReadAs("unsigned", c, x) /\ ReadAs("enumerated", c, x)
    BY <2>1, <2>4, <2>5, <2>6 DEF ReadAs
  <2> QED BY <2>3, <2>7 DEF HasContents
<1>3. ASSUME x \in SignedWord PROVE HasContents(<<"signed", x>>)
  <2> DEFINE c == encode_bacnet_signed(x)
  <2>1. c \in Seq(Nat) /\ Len(c) \in {1, 2, 3, 4} /\ decode_signed(c) = x BY <1>3, SignedRead
  <2>2. WrittenAs(<<"signed", x>>, c)
    BY TypesAre DEF WrittenAs, bacapp_encode_application_data, Typed, Tags, encode_application_signed
  <2>3. Contents("signed", c) = x BY <2>1 DEF Contents
  <2> HIDE DEF c
  <2>4. Len(c) >= 1 /\ Len(c) <= 1470
    <3>1. Len(c) \in {1, 2, 3, 4} BY <2>1
    <3>2. Few(Len(c)) BY <3>1, Zenon DEF Few
    <3> QED BY <3>2, FewAreSome
  <2>5. TakenOf("signed", Len(c)) = Len(c) /\ Len(c) # 0
    <3>1. Len(c) # 0 BY <2>1, <2>4
    <3> QED BY <1>1, <2>4, <3>1 DEF TakenOf
  <2>6. ReadAs("signed", c, x) BY <2>1, <2>3, <2>4, <2>5 DEF ReadAs
  <2> QED BY <2>2, <2>6 DEF HasContents
<1>4. ASSUME x \in Exactly(4) PROVE HasContents(<<"real", x>>)
  <2> DEFINE c == Reverse(x)
  <2>1. x \in Seq(Nat) /\ Len(x) = 4 BY <1>4 DEF Exactly
  <2>2. c \in Seq(Nat) /\ Len(c) = 4 /\ Reverse(c) = x BY <2>1, ReversedTwice
  <2>3. WrittenAs(<<"real", x>>, c)
    BY TypesAre DEF WrittenAs, bacapp_encode_application_data, Typed, Tags, encode_application_real,
       encode_bacnet_real
  <2>4. Contents("real", c) = x BY <2>2 DEF Contents, decode_real_safe, decode_real
  <2> HIDE DEF c
  <2>5. Len(c) >= 1 /\ Len(c) <= 1470 BY <2>2
  <2>6. TakenOf("real", Len(c)) = Len(c) /\ Len(c) # 0
    <3>1. Len(c) # 0 BY <2>2
    <3> QED BY <1>1, <2>5, <3>1 DEF TakenOf
  <2>7. ReadAs("real", c, x) BY <2>2, <2>4, <2>5, <2>6 DEF ReadAs
  <2> QED BY <2>3, <2>7 DEF HasContents
<1>5. ASSUME x \in Exactly(8) PROVE HasContents(<<"double", x>>)
  <2> DEFINE c == Reverse(x)
  <2>1. x \in Seq(Nat) /\ Len(x) = 8 BY <1>5 DEF Exactly
  <2>2. c \in Seq(Nat) /\ Len(c) = 8 /\ Reverse(c) = x BY <2>1, ReversedTwice
  <2>3. WrittenAs(<<"double", x>>, c)
    BY TypesAre DEF WrittenAs, bacapp_encode_application_data, Typed, Tags, encode_application_double,
       encode_bacnet_double
  <2>4. Contents("double", c) = x BY <2>2 DEF Contents, decode_double_safe, decode_double
  <2> HIDE DEF c
  <2>5. Len(c) >= 1 /\ Len(c) <= 1470 BY <2>2
  <2>6. TakenOf("double", Len(c)) = Len(c) /\ Len(c) # 0
    <3>1. Len(c) # 0 BY <2>2
    <3> QED BY <1>1, <2>5, <3>1 DEF TakenOf
  <2>7. ReadAs("double", c, x) BY <2>2, <2>4, <2>5, <2>6 DEF ReadAs
  <2> QED BY <2>3, <2>7 DEF HasContents
<1>6. ASSUME x \in ObjectId PROVE HasContents(<<"object", x>>)
  <2> DEFINE c == encode_bacnet_object_id(x)
  <2>1. c \in Seq(Nat) /\ Len(c) = 4 /\ decode_object_id_safe(c) = x BY <1>6, ObjectRead
  <2>2. WrittenAs(<<"object", x>>, c)
    BY TypesAre DEF WrittenAs, bacapp_encode_application_data, Typed, Tags, encode_application_object_id
  <2>3. Contents("object", c) = x BY <2>1 DEF Contents
  <2> HIDE DEF c
  <2>4. TakenOf("object", Len(c)) = Len(c)
    <3>1. "object" \in CompiledIn BY TypesAre DEF Typed
    <3> QED BY <2>1, <3>1 DEF TakenOf
  <2>5. ReadAs("object", c, x) BY <2>1, <2>3, <2>4 DEF ReadAs
  <2> QED BY <2>2, <2>5 DEF HasContents
<1> QED BY <1>2, <1>3, <1>4, <1>5, <1>6

(* The tag of an application value, and the octets it takes: the first, and *)
(* the length behind it when it does not fit there.                         *)
AppTag(n, L) == encode_tag(n, FALSE, L)
TagFits(n, L) == n \in Nat /\ L \in Nat /\ n <= 12 /\ L <= 1470
InFirst(n, low) == (n * 16) + low
High(L) == (L \div 256) % 256
Low(L) == L % 256
TwoFollow == 254
Short(L) == L <= 4
Middle(L) == L > 4 /\ L <= 253
Long(L) == L > 253
LongTag(n, L) == Four(InFirst(n, 5), TwoFollow, High(L), Low(L))

(* All of those are octets. *)
LEMMA TagIsOctets ==
  ASSUME NEW n, NEW L, TagFits(n, L)
  PROVE  /\ n \in Nat /\ L \in Nat /\ InFirst(n, 5) \in Nat /\ InFirst(n, L) \in Nat
         /\ High(L) \in Nat /\ Low(L) \in Nat /\ TwoFollow \in Nat
         /\ Number2(High(L), Low(L)) = L
         /\ Short(L) \/ Middle(L) \/ Long(L)
<1>1. n \in Nat /\ L \in Nat /\ L <= 1470 BY DEF TagFits
<1>2. InFirst(n, 5) \in Nat /\ InFirst(n, L) \in Nat /\ TwoFollow \in Nat
  BY <1>1, SMT DEF InFirst, TwoFollow
<1>3. High(L) \in Nat /\ Low(L) \in Nat BY <1>1, SMT DEF High, Low
<1>4. Number2(High(L), Low(L)) = L BY <1>1, SMT DEF High, Low, Number2
<1>5. Short(L) \/ Middle(L) \/ Long(L) BY <1>1, SMT DEF Short, Middle, Long
<1> QED BY <1>1, <1>2, <1>3, <1>4, <1>5

(* Two octets. *)
LEMMA OctetBefore ==
  ASSUME NEW a \in Nat, NEW b \in Nat PROVE <<a>> \o <<b>> = Two(a, b)
<1> DEFINE s == <<b>> t == <<a>> \o s two == Two(a, b)
<1>1. s \in Seq(Nat) /\ Len(s) = 1 /\ s[1] = b OBVIOUS
<1>2. two \in Seq(Nat) /\ Len(two) = 2 /\ two[1] = a /\ two[2] = b BY DEF Two
<1> HIDE DEF s, two
<1>3. t \in Seq(Nat) /\ Len(t) = 2 /\ t[1] = a /\ \A i \in 1..Len(s) : t[i + 1] = s[i]
  <2>1. t \in Seq(Nat) /\ Len(t) = Len(s) + 1 /\ t[1] = a BY <1>1, Prepended
  <2>2. \A i \in 1..Len(s) : t[i + 1] = s[i] BY <1>1, Prepended
  <2> QED BY <1>1, <2>1, <2>2
<1>4. t[2] = b
  <2>1. 1 \in 1..Len(s) /\ 1 + 1 = 2 BY <1>1
  <2> QED BY <1>1, <1>3, <2>1
<1> HIDE DEF t
<1>5. \A i \in 1..Len(t) : t[i] = two[i]
  <2> SUFFICES ASSUME NEW i \in 1..Len(t) PROVE t[i] = two[i] OBVIOUS
  <2>1. i = 1 \/ i = 2 BY <1>3
  <2> QED BY <1>2, <1>3, <1>4, <2>1
<1>6. Len(t) = Len(two) BY <1>2, <1>3
<1>7. t = two BY <1>2, <1>3, <1>5, <1>6, SeqEqual
<1> QED BY <1>7 DEF t, s, two

(* The tag of contents is one octet, two or four. *)
LEMMA TagOctets ==
  ASSUME NEW n, NEW L, TagFits(n, L)
  PROVE  /\ Short(L) => AppTag(n, L) = One1(InFirst(n, L))
         /\ Middle(L) => AppTag(n, L) = Two(InFirst(n, 5), L)
         /\ Long(L) => AppTag(n, L) = LongTag(n, L)
<1> DEFINE low == IF L <= 4 THEN L ELSE 5
           first == FirstOctet(n, FALSE, low)
<1>1. n \in Nat /\ L \in Nat /\ n <= 12 /\ L <= 1470 BY DEF TagFits
<1>2. NumberOctet(n) = <<>> BY <1>1, SMT DEF NumberOctet
<1>3. low \in Nat BY <1>1
<1>4. /\ Short(L) => low = L
      /\ Middle(L) => low = 5
      /\ Long(L) => low = 5
  BY <1>1, SMT DEF Short, Middle, Long
<1>5. AppTag(n, L) = <<first>> \o NumberOctet(n) \o LengthOctets(L)
  BY Zenon DEF AppTag, encode_tag
<1> HIDE DEF low
<1>6. first = InFirst(n, low)
  <2>1. first = n * 16 + 0 + low BY <1>1, <1>3, SMT DEF FirstOctet
  <2> HIDE DEF first
  <2>2. first = (n * 16) + low BY <1>1, <1>3, <2>1, SMT
  <2> QED BY <2>2, Zenon DEF InFirst
<1> HIDE DEF first
<1>7. InFirst(n, low) \in Nat BY <1>1, <1>3, SMT DEF InFirst
<1>8. <<first>> \o <<>> = <<first>> BY <1>6, <1>7, SMT
<1>9. AppTag(n, L) = <<first>> \o LengthOctets(L) BY <1>2, <1>5, <1>8, Zenon
<1>10. /\ Short(L) => LengthOctets(L) = <<>>
       /\ Middle(L) => LengthOctets(L) = <<L>>
       /\ Long(L) => LengthOctets(L) = <<TwoFollow>> \o encode_unsigned16(L)
  BY <1>1, SMT DEF LengthOctets, Short, Middle, Long, TwoFollow
<1>11. encode_unsigned16(L) = Two(High(L), Low(L))
  BY <1>1, SMT DEF encode_unsigned16, Two, High, Low
<1>12. ASSUME Short(L) PROVE AppTag(n, L) = One1(InFirst(n, L))
  <2>1. first = InFirst(n, L) BY <1>4, <1>6, <1>12, Zenon
  <2>2. AppTag(n, L) = <<first>> BY <1>8, <1>9, <1>10, <1>12, Zenon
  <2> QED BY <2>1, <2>2, Zenon DEF One1
<1>13. ASSUME Middle(L) PROVE AppTag(n, L) = Two(InFirst(n, 5), L)
  <2>1. first = InFirst(n, 5) BY <1>4, <1>6, <1>13, Zenon
  <2>2. AppTag(n, L) = <<first>> \o <<L>> BY <1>9, <1>10, <1>13, Zenon
  <2>3. <<first>> \o <<L>> = <<first, L>>
    <3>1. first \in Nat BY <1>6, <1>7, Zenon
    <3>2. <<first>> \o <<L>> = Two(first, L) BY <1>1, <3>1, OctetBefore
    <3> QED BY <3>2, Zenon DEF Two
  <2> QED BY <2>1, <2>2, <2>3, Zenon DEF Two
<1>14. ASSUME Long(L) PROVE AppTag(n, L) = LongTag(n, L)
  <2>1. first = InFirst(n, 5) BY <1>4, <1>6, <1>14, Zenon
  <2>2. AppTag(n, L) = <<first>> \o (<<TwoFollow>> \o Two(High(L), Low(L)))
    BY <1>9, <1>10, <1>11, <1>14, Zenon
  <2> QED BY <2>1, <2>2, Zenon DEF LongTag, Four, Three
<1> QED BY <1>12, <1>13, <1>14, Zenon

(* The octets of the longest tag. *)
LEMMA LongTagOctets ==
  ASSUME NEW n, NEW L, TagFits(n, L)
  PROVE  /\ LongTag(n, L) \in Seq(Nat) /\ Len(LongTag(n, L)) = 4
         /\ LongTag(n, L)[1] = InFirst(n, 5) /\ LongTag(n, L)[2] = TwoFollow
         /\ LongTag(n, L)[3] = High(L) /\ LongTag(n, L)[4] = Low(L)
<1> DEFINE a == InFirst(n, 5) x == TwoFollow c == High(L) d == Low(L)
           three == Three(x, c, d) four == Four(a, x, c, d)
<1>1. a \in Nat /\ x \in Nat /\ c \in Nat /\ d \in Nat BY TagIsOctets
<1> HIDE DEF a, x, c, d
<1>2. AreOctets(a, x, c, d) BY <1>1, OctetsRead
<1>3. Two(c, d) \in Seq(Nat) /\ Len(Two(c, d)) = 2 /\ Two(c, d)[1] = c /\ Two(c, d)[2] = d
  BY <1>2, Zenon DEF AreOctets
<1>4. three \in Seq(Nat) /\ Len(three) = 3 /\ three[1] = x BY <1>2, Zenon DEF AreOctets
<1>5. four \in Seq(Nat) /\ Len(four) = 4 /\ four[1] = a BY <1>2, Zenon DEF AreOctets
<1>6. three = <<x>> \o Two(c, d) /\ four = <<a>> \o three BY Zenon DEF Three, Four
<1> HIDE DEF three, four
<1>7. /\ \A i \in 1..Len(Two(c, d)) : three[i + 1] = Two(c, d)[i]
      /\ \A i \in 1..Len(three) : four[i + 1] = three[i]
  <2>1. \A i \in 1..Len(Two(c, d)) : (<<x>> \o Two(c, d))[i + 1] = Two(c, d)[i]
    BY <1>1, <1>3, Prepended
  <2>2. \A i \in 1..Len(three) : (<<a>> \o three)[i + 1] = three[i]
    BY <1>1, <1>4, Prepended
  <2> QED BY <1>6, <2>1, <2>2, Zenon
<1>8. three[2] = c /\ three[3] = d
  <2>1. 1 \in 1..Len(Two(c, d)) /\ 2 \in 1..Len(Two(c, d)) /\ 1 + 1 = 2 /\ 2 + 1 = 3 BY <1>3
  <2> QED BY <1>3, <1>7, <2>1
<1>9. four[2] = x /\ four[3] = c /\ four[4] = d
  <2>1. /\ 1 \in 1..Len(three) /\ 2 \in 1..Len(three) /\ 3 \in 1..Len(three)
        /\ 1 + 1 = 2 /\ 2 + 1 = 3 /\ 3 + 1 = 4
    BY <1>4
  <2> QED BY <1>4, <1>7, <1>8, <2>1
<1>10. LongTag(n, L) = four BY Zenon DEF LongTag, four, a, x, c, d
<1> QED BY <1>5, <1>9, <1>10, Zenon DEF a, x, c, d

(* Octets all, four at most. *)
LEMMA TagLength ==
  ASSUME NEW n, NEW L, TagFits(n, L)
  PROVE  /\ AppTag(n, L) \in Seq(Nat)
         /\ Len(AppTag(n, L)) \in Nat /\ Len(AppTag(n, L)) >= 1 /\ Len(AppTag(n, L)) <= 4
         /\ Short(L) => Len(AppTag(n, L)) = 1
         /\ Middle(L) => Len(AppTag(n, L)) = 2
         /\ Long(L) => Len(AppTag(n, L)) = 4
<1> DEFINE t == AppTag(n, L) a == InFirst(n, 5) b == InFirst(n, L)
<1>1. a \in Nat /\ b \in Nat /\ n \in Nat /\ L \in Nat BY TagIsOctets
<1> HIDE DEF a, b
<1>2. AreOctets(b, b, b, b) /\ AreOctets(a, a, a, L) BY <1>1, OctetsRead
<1>3. One1(b) \in Seq(Nat) /\ Len(One1(b)) = 1 BY <1>2, Zenon DEF AreOctets
<1>4. Two(a, L) \in Seq(Nat) /\ Len(Two(a, L)) = 2 BY <1>2, Zenon DEF AreOctets
<1>5. /\ Short(L) => t = One1(b)
      /\ Middle(L) => t = Two(a, L)
      /\ Long(L) => t = LongTag(n, L)
  BY TagOctets, Zenon DEF a, b
<1> HIDE DEF t
<1>6. /\ Short(L) => t \in Seq(Nat) /\ Len(t) = 1
      /\ Middle(L) => t \in Seq(Nat) /\ Len(t) = 2
      /\ Long(L) => t \in Seq(Nat) /\ Len(t) = 4
  BY <1>3, <1>4, <1>5, LongTagOctets, Zenon
<1>7. Short(L) \/ Middle(L) \/ Long(L) BY TagIsOctets, Zenon
<1>8. t \in Seq(Nat) /\ (Len(t) = 1 \/ Len(t) = 2 \/ Len(t) = 4) BY <1>6, <1>7, Zenon
<1>9. Len(t) \in Nat /\ Len(t) >= 1 /\ Len(t) <= 4
  <2>1. Few(Len(t)) BY <1>8, Zenon DEF Few
  <2> QED BY <2>1, FewAreSome
<1> QED BY <1>6, <1>8, <1>9, Zenon DEF t

(* Strings. *)
LEMMA StringsHaveContents ==
  ASSUME NEW x
  PROVE  /\ x \in UpTo(OCTET_STRING_CAPACITY) => HasContents(<<"octets", x>>)
         /\ x \in Nat \X UpTo(CHARACTER_STRING_CAPACITY) => HasContents(<<"string", x>>)
         /\ x \in BitString => HasContents(<<"bits", x>>)
<1>1. ASSUME NEW c, c \in Seq(Nat), Len(c) <= MAX_APDU - 6, NEW n, TagFits(n, Len(c))
      PROVE  IfItFits(Tagged(n, FALSE, c)) = Tagged(n, FALSE, c)
  <2> DEFINE t == AppTag(n, Len(c))
  <2>1. t \in Seq(Nat) /\ Len(t) \in Nat /\ Len(t) <= 4 BY <1>1, TagLength
  <2> HIDE DEF t
  <2>2. Len(t \o c) = Len(t) + Len(c) BY <2>1, ConcatProperties
  <2>3. Len(t \o c) < MAX_APDU BY <1>1, <2>1, <2>2, Capacities
  <2>4. Tagged(n, FALSE, c) = t \o c BY Zenon DEF Tagged, AppTag, t
  <2> QED BY <2>3, <2>4, Zenon DEF IfItFits
<1>2. ASSUME x \in UpTo(OCTET_STRING_CAPACITY) PROVE HasContents(<<"octets", x>>)
  <2>1. x \in Seq(Nat) /\ Len(x) <= OCTET_STRING_CAPACITY BY <1>2 DEF UpTo
  <2>2. Len(x) \in Nat /\ Len(x) <= 1470 /\ Len(x) <= MAX_APDU - 6 BY <2>1, Capacities
  <2>3. WrittenAs(<<"octets", x>>, x)
    <3>1. IfItFits(Tagged(Tags["octets"], FALSE, x)) = Tagged(Tags["octets"], FALSE, x)
      <4>1. TagFits(Tags["octets"], Len(x)) BY <2>2, TypesAre DEF TagFits
      <4> QED BY <1>1, <2>1, <2>2, <4>1
    <3>2. bacapp_encode_application_data("octets", x) = IfItFits(Tagged(Tags["octets"], FALSE, x))
      BY TypesAre DEF bacapp_encode_application_data, Typed, encode_application_octet_string,
         encode_octet_string
    <3> QED BY <3>1, <3>2 DEF WrittenAs
  <2>4. Contents("octets", x) = x BY <2>1 DEF Contents, decode_octet_string
  <2>5. TakenOf("octets", Len(x)) = Len(x)
    <3>1. "octets" \in CompiledIn BY TypesAre DEF Typed
    <3> QED BY <2>1, <3>1 DEF TakenOf
  <2>6. ReadAs("octets", x, x) BY <2>1, <2>2, <2>4, <2>5 DEF ReadAs
  <2> QED BY <2>3, <2>6 DEF HasContents
<1>3. ASSUME x \in Nat \X UpTo(CHARACTER_STRING_CAPACITY) PROVE HasContents(<<"string", x>>)
  <2> DEFINE enc == x[1] s == x[2] c == <<enc>> \o s
  <2>1. /\ enc \in Nat /\ s \in Seq(Nat) /\ Len(s) <= CHARACTER_STRING_CAPACITY /\ x = <<enc, s>>
    BY <1>3 DEF UpTo
  <2>2. encode_bacnet_character_string(x) = c BY DEF encode_bacnet_character_string
  <2> HIDE DEF enc, s
  <2>3. c \in Seq(Nat) /\ Len(c) = Len(s) + 1 /\ c[1] = enc /\ Tail(c) = s BY <2>1, Prepended
  <2> HIDE DEF c
  <2>4. Len(s) \in Nat /\ Len(c) \in Nat /\ Len(c) >= 1 /\ Len(c) <= 1470 /\ Len(c) <= MAX_APDU - 6
    BY <2>1, <2>3, Capacities
  <2>5. WrittenAs(<<"string", x>>, c)
    <3>1. IfItFits(Tagged(Tags["string"], FALSE, c)) = Tagged(Tags["string"], FALSE, c)
      <4>1. TagFits(Tags["string"], Len(c)) BY <2>4, TypesAre DEF TagFits
      <4> QED BY <1>1, <2>3, <2>4, <4>1
    <3>2. bacapp_encode_application_data("string", x) = IfItFits(Tagged(Tags["string"], FALSE, c))
      BY <2>2, TypesAre DEF bacapp_encode_application_data, Typed, encode_application_character_string
    <3> QED BY <3>1, <3>2 DEF WrittenAs
  <2>6. Contents("string", c) = x
    <3>1. Contents("string", c) = characterstring_init(c[1], Tail(c))
      BY DEF Contents, decode_character_string
    <3>2. characterstring_init(c[1], Tail(c)) = characterstring_init(enc, s) BY <2>3, Zenon
    <3>3. characterstring_init(enc, s) = <<enc, s>> BY <2>1 DEF characterstring_init
    <3> QED BY <2>1, <3>1, <3>2, <3>3
  <2>7. TakenOf("string", Len(c)) = Len(c)
    <3>1. "string" \in CompiledIn BY TypesAre DEF Typed
    <3>2. Len(c) - 1 \in 0..CHARACTER_STRING_CAPACITY BY <2>1, <2>3, <2>4, Capacities
    <3> QED BY <3>1, <3>2 DEF TakenOf
  <2>8. ReadAs("string", c, x) BY <2>3, <2>4, <2>6, <2>7 DEF ReadAs
  <2> QED BY <2>5, <2>8 DEF HasContents
<1>4. ASSUME x \in BitString PROVE HasContents(<<"bits", x>>)
  <2> DEFINE c == encode_bitstring(x)
  <2>1. c \in Seq(Nat) /\ Len(c) >= 1 /\ Len(c) <= 16 /\ decode_bitstring(c) = x BY <1>4, BitsRead
  <2>2. WrittenAs(<<"bits", x>>, c)
    BY TypesAre DEF WrittenAs, bacapp_encode_application_data, Typed, Tags, encode_application_bitstring
  <2>3. Contents("bits", c) = x BY <2>1 DEF Contents
  <2> HIDE DEF c
  <2>4. TakenOf("bits", Len(c)) = Len(c)
    <3>1. "bits" \in CompiledIn BY TypesAre DEF Typed
    <3>2. Len(c) - 1 \in 0..MAX_BITSTRING_BYTES
      <4>1. MAX_BITSTRING_BYTES = 15 BY DEF MAX_BITSTRING_BYTES
      <4>2. Len(c) \in Nat BY <2>1
      <4>3. /\ Len(c) - 1 \in Int /\ 0 <= Len(c) - 1 /\ Len(c) - 1 <= MAX_BITSTRING_BYTES
            /\ MAX_BITSTRING_BYTES \in Int
        BY <2>1, <4>1, <4>2
      <4> QED BY <4>3
    <3> QED BY <3>1, <3>2 DEF TakenOf
  <2>5. Len(c) \in Nat /\ Len(c) <= 1470 /\ Len(c) # 0 BY <2>1
  <2>6. ReadAs("bits", c, x) BY <2>1, <2>3, <2>4, <2>5 DEF ReadAs
  <2> QED BY <2>2, <2>6 DEF HasContents
<1> QED BY <1>2, <1>3, <1>4

(* Every value is nothing, a boolean or has contents. *)
LEMMA ValuesHaveContents ==
  ASSUME NEW v \in ApplicationValue
  PROVE  /\ v = <<v[1], v[2]>>
         /\ \/ v = <<"null", 0>>
            \/ v[1] = "boolean" /\ v[2] \in BOOLEAN
            \/ v[1] \in Typed /\ HasContents(v)
<1>1. PICK type, x : v = <<type, x>> /\ <<type, x>> \in ApplicationValue
  BY DEF ApplicationValue
<1>2. v[1] = type /\ v[2] = x BY <1>1
<1>3. \/ type = "null" /\ x = 0
      \/ type = "boolean" /\ x \in BOOLEAN
      \/ type = "bits" /\ x \in BitString
      \/ type \in {"unsigned", "enumerated"} /\ x \in Word
      \/ type = "signed" /\ x \in SignedWord
      \/ type = "real" /\ x \in Exactly(4)
      \/ type = "double" /\ x \in Exactly(8)
      \/ type = "octets" /\ x \in UpTo(OCTET_STRING_CAPACITY)
      \/ type = "string" /\ x \in Nat \X UpTo(CHARACTER_STRING_CAPACITY)
      \/ type = "object" /\ x \in ObjectId
  BY <1>1 DEF ApplicationValue
<1>4. \/ type = "null" /\ x = 0
      \/ type = "boolean" /\ x \in BOOLEAN
      \/ type \in Typed /\ HasContents(<<type, x>>)
  BY <1>3, NumbersHaveContents, StringsHaveContents DEF Typed
<1> QED BY <1>1, <1>2, <1>4

(* The first octet of a tag tells its number, its class and its length. *)
TagOctet(a, n, low) ==
  /\ ~IsExtendedNumber(a) /\ ~IsContextSpecific(a) /\ a \div 16 = n
  /\ (IsExtendedValue(a) <=> low = 5) /\ ShortValue(a) = low

(* What is written into the first octet is read from it. *)
LEMMA FirstOctetRead ==
  ASSUME NEW n, NEW low, n \in Nat, low \in Nat, n <= 12, low <= 5
  PROVE  TagOctet(InFirst(n, low), n, low)
<1> DEFINE a == InFirst(n, low)
<1>1. a \in Nat /\ a \div 16 = n /\ a \div 8 = 2 * n /\ a % 8 = low BY SMT DEF InFirst
<1> HIDE DEF a
<1>2. ~IsExtendedNumber(a) BY <1>1, SMT DEF IsExtendedNumber
<1>3. ~IsContextSpecific(a) BY <1>1, SMT DEF IsContextSpecific
<1>4. IsExtendedValue(a) <=> low = 5 BY <1>1, SMT DEF IsExtendedValue
<1>5. ShortValue(a) = low BY <1>1, SMT DEF ShortValue, IsOpening, IsClosing
<1>6. TagOctet(a, n, low) BY <1>1, <1>2, <1>3, <1>4, <1>5 DEF TagOctet
<1> QED BY <1>6 DEF a

(* The octets of t that are there, from at on. *)
Stands(t, w, at) == \A i \in 1..Len(t) : at + i - 1 <= Len(w) => w[at + i - 1] = t[i]

(* A place in the octets that have arrived, with left of them to come. *)
Place(w, at, left) ==
  w \in Seq(Nat) /\ at \in Nat /\ at >= 1 /\ left \in Nat /\ at + left = Len(w) + 1

(* So the octet at a place is the one that was sent, or none. *)
LEMMA OctetsThere ==
  ASSUME NEW w, NEW at, NEW left, Place(w, at, left), NEW t \in Seq(Nat), Stands(t, w, at)
  PROVE  \A i \in 1..Len(t) : At(w, at + i - 1) = IF i <= left THEN t[i] ELSE 0
<1> SUFFICES ASSUME NEW i \in 1..Len(t)
             PROVE  At(w, at + i - 1) = IF i <= left THEN t[i] ELSE 0
  OBVIOUS
<1>1. w \in Seq(Nat) /\ at \in Nat /\ at >= 1 /\ left \in Nat /\ at + left = Len(w) + 1 /\ Len(w) \in Nat
  BY DEF Place
<1> DEFINE j == at + i - 1
<1>2. j \in Nat /\ j >= 1 /\ (j <= Len(w) <=> i <= left) BY <1>1
<1>3. j <= Len(w) => w[j] = t[i] BY DEF Stands
<1> HIDE DEF j
<1>4. j \in DOMAIN w <=> i <= left BY <1>1, <1>2
<1>5. CASE i <= left
  <2>1. At(w, j) = t[i] BY <1>2, <1>3, <1>4, <1>5 DEF At
  <2> QED BY <1>5, <2>1 DEF j
<1>6. CASE ~(i <= left)
  <2>1. At(w, j) = 0 BY <1>4, <1>6 DEF At, NoOctet
  <2> QED BY <1>6, <2>1 DEF j
<1> QED BY <1>5, <1>6

(* The tag is read when its octets have arrived, and only then. *)
SafeTag(w, at, left) == decode_tag_number_and_value_safe(w, at, left)
ReadTag(w, at, left, t, n, L) ==
  /\ left > 0 => ~IsContextSpecific(At(w, at))
  /\ left >= Len(t) => SafeTag(w, at, left) = [len |-> Len(t), number |-> n, value |-> L]
  /\ left < Len(t) => SafeTag(w, at, left).len = 0

(* A tag that stands somewhere is read there when all of it has arrived. *)
LEMMA TagRead ==
  ASSUME NEW w, NEW at, NEW left, Place(w, at, left), NEW n, NEW L, TagFits(n, L),
         Stands(AppTag(n, L), w, at)
  PROVE  ReadTag(w, at, left, AppTag(n, L), n, L)
<1> DEFINE t == AppTag(n, L) a == InFirst(n, 5) b == InFirst(n, L) c == High(L) d == Low(L)
           T == [len |-> 1, number |-> n]
           next == At(w, at + 1)
<1>0. at \in Nat /\ left \in Nat BY DEF Place
<1>1. /\ n \in Nat /\ L \in Nat /\ a \in Nat /\ b \in Nat /\ c \in Nat /\ d \in Nat
      /\ Number2(c, d) = L /\ (Short(L) \/ Middle(L) \/ Long(L))
  BY TagIsOctets
<1>2. /\ t \in Seq(Nat) /\ Len(t) \in Nat /\ Len(t) >= 1
      /\ Short(L) => Len(t) = 1
      /\ Middle(L) => Len(t) = 2
      /\ Long(L) => Len(t) = 4
  BY TagLength, Zenon
<1>3. TagOctet(a, n, 5) /\ (Short(L) => TagOctet(b, n, L))
  <2>1. n <= 12 /\ 5 \in Nat /\ 5 <= 5 BY DEF TagFits
  <2>2. TagOctet(a, n, 5) BY <1>1, <2>1, FirstOctetRead
  <2>3. Short(L) => L <= 5 BY <1>1, SMT DEF Short
  <2>4. Short(L) => TagOctet(b, n, L) BY <1>1, <2>1, <2>3, FirstOctetRead
  <2> QED BY <2>2, <2>4, Zenon
<1> HIDE DEF a, b, c, d
<1>4. AreOctets(b, b, b, b) /\ AreOctets(a, a, a, L) BY <1>1, OctetsRead
<1>5. One1(b)[1] = b /\ Two(a, L)[1] = a /\ Two(a, L)[2] = L BY <1>4, Zenon DEF AreOctets
<1>6. /\ Short(L) => t = One1(b)
      /\ Middle(L) => t = Two(a, L)
      /\ Long(L) => t = LongTag(n, L)
  BY TagOctets, Zenon DEF a, b
<1>7. /\ Short(L) => t[1] = b
      /\ Middle(L) => t[1] = a /\ t[2] = L
      /\ Long(L) => t[1] = a /\ t[2] = TwoFollow /\ t[3] = c /\ t[4] = d
  BY <1>5, <1>6, LongTagOctets, Zenon DEF a, c, d
<1> HIDE DEF t
<1>8. \A i \in 1..Len(t) : At(w, at + i - 1) = IF i <= left THEN t[i] ELSE 0
  <2>1. Stands(t, w, at) BY Zenon DEF t
  <2> QED BY <1>2, <2>1, OctetsThere
<1>9. CASE left = 0
  <2>1. decode_tag_number_safe(w, at, left) = [len |-> 0, number |-> 0]
    BY <1>9 DEF decode_tag_number_safe
  <2>2. SafeTag(w, at, left).len = 0
    BY <2>1 DEF SafeTag, decode_tag_number_and_value_safe, WithValueSafe
  <2>3. ~(left > 0) /\ ~(left >= Len(t)) BY <1>0, <1>2, <1>9
  <2>4. ReadTag(w, at, left, t, n, L) BY <2>2, <2>3, Zenon DEF ReadTag
  <2> QED BY <2>4, Zenon DEF t
<1>10. CASE left # 0
  <2>1. left >= 1 BY <1>0, <1>10
  <2>2. At(w, at) = t[1]
    <3>1. 1 \in 1..Len(t) /\ at + 1 - 1 = at /\ 1 <= left BY <1>0, <1>2, <2>1
    <3>2. At(w, at + 1 - 1) = IF 1 <= left THEN t[1] ELSE 0 BY <1>8, <3>1
    <3> QED BY <3>1, <3>2
  <2>3. /\ Short(L) => TagOctet(At(w, at), n, L)
        /\ Middle(L) => TagOctet(At(w, at), n, 5)
        /\ Long(L) => TagOctet(At(w, at), n, 5)
    BY <1>3, <1>7, <2>2, Zenon
  <2>4. ~IsExtendedNumber(At(w, at)) /\ ~IsContextSpecific(At(w, at)) /\ At(w, at) \div 16 = n
    <3>1. \E low : TagOctet(At(w, at), n, low) BY <1>1, <2>3, Zenon
    <3> QED BY <3>1, Zenon DEF TagOctet
  <2>5. decode_tag_number_safe(w, at, left) = T
    BY <1>10, <2>4 DEF decode_tag_number_safe
  <2>6. SafeTag(w, at, left) = WithValueSafe(T, w, at, left)
    BY <2>5, Zenon DEF SafeTag, decode_tag_number_and_value_safe
  <2>7. T.len = 1 /\ T.number = n OBVIOUS
  <2> HIDE DEF T
  <2>8. CASE Short(L)
    <3>1. Len(t) = 1 BY <1>2, <2>8, Zenon
    <3>2. ~(L = 5) BY <1>1, <2>8, SMT DEF Short
    <3>3. ~IsExtendedValue(At(w, at)) /\ ShortValue(At(w, at)) = L
      BY <2>3, <2>8, <3>2, Zenon DEF TagOctet
    <3>4. WithValueSafe(T, w, at, left) = TagWith(T, 0, L)
      BY <2>7, <3>3 DEF WithValueSafe, WithValue
    <3>5. TagWith(T, 0, L) = [len |-> 1, number |-> n, value |-> L] BY <2>7 DEF TagWith
    <3>6. ~(left < 1) BY <1>0, <2>1
    <3>7. SafeTag(w, at, left) = [len |-> 1, number |-> n, value |-> L] BY <2>6, <3>4, <3>5, Zenon
    <3>8. ReadTag(w, at, left, t, n, L) BY <2>4, <3>1, <3>6, <3>7, Zenon DEF ReadTag
    <3> QED BY <3>8, Zenon DEF t
  <2>9. CASE Middle(L) \/ Long(L)
    <3>1. IsExtendedValue(At(w, at)) BY <2>3, <2>9, Zenon DEF TagOctet
    <3>2. /\ left - 1 < ValueNeeds(next) => SafeTag(w, at, left).len = 0
          /\ ~(left - 1 < ValueNeeds(next)) =>
               SafeTag(w, at, left) = LongValue(T, next, w, at + 1 + 1)
      BY <2>6, <2>7, <3>1 DEF WithValueSafe, WithValue, next
    <3>3. at + 1 + 1 = at + 2 BY <1>0
    <3>4. Len(t) >= 2
      <4>1. Len(t) = 2 \/ Len(t) = 4 BY <1>2, <2>9, Zenon
      <4> QED BY <4>1
    <3>5. next = IF 2 <= left THEN t[2] ELSE 0
      <4>1. 2 \in 1..Len(t) /\ at + 2 - 1 = at + 1 BY <1>0, <1>2, <3>4
      <4>2. At(w, at + 2 - 1) = IF 2 <= left THEN t[2] ELSE 0 BY <1>8, <4>1
      <4> QED BY <4>1, <4>2, Zenon DEF next
    <3> HIDE DEF next
    <3>6. ValueNeeds(0) = 1 BY SMT DEF ValueNeeds
    <3>7. left < 2 => SafeTag(w, at, left).len = 0
      <4> HAVE left < 2
      <4>1. next = 0 /\ left - 1 < 1 BY <1>0, <3>5
      <4> QED BY <3>2, <3>6, <4>1
    <3>8. CASE Middle(L)
      <4>1. Len(t) = 2 /\ t[2] = L BY <1>2, <1>7, <3>8, Zenon
      <4>2. ValueNeeds(L) = 1 /\ LongValue(T, L, w, at + 2) = TagWith(T, 1, L)
        <5>1. L # 255 /\ L # 254 BY <1>1, <3>8, SMT DEF Middle
        <5> QED BY <5>1, SMT DEF ValueNeeds, LongValue
      <4>3. TagWith(T, 1, L) = [len |-> 2, number |-> n, value |-> L] BY <2>7 DEF TagWith
      <4>4. left >= 2 => SafeTag(w, at, left) = [len |-> 2, number |-> n, value |-> L]
        <5> HAVE left >= 2
        <5>1. next = L /\ ~(left - 1 < 1) BY <1>0, <3>5, <4>1
        <5>2. SafeTag(w, at, left) = LongValue(T, L, w, at + 2) BY <3>2, <3>3, <4>2, <5>1
        <5> QED BY <4>2, <4>3, <5>2
      <4>5. ReadTag(w, at, left, t, n, L) BY <2>4, <3>7, <4>1, <4>4, Zenon DEF ReadTag
      <4> QED BY <4>5, Zenon DEF t
    <3>9. CASE Long(L)
      <4> DEFINE x == TwoFollow
      <4>1. Len(t) = 4 /\ t[2] = x /\ t[3] = c /\ t[4] = d BY <1>2, <1>7, <3>9, Zenon
      <4>2. ValueNeeds(x) = 3
            /\ LongValue(T, x, w, at + 2) = TagWith(T, 3, decode_unsigned16(Slice(w, at + 2, 2)))
        BY SMT DEF ValueNeeds, LongValue, TwoFollow
      <4> HIDE DEF x
      <4>3. left >= 4 => SafeTag(w, at, left) = [len |-> 4, number |-> n, value |-> L]
        <5> HAVE left >= 4
        <5>1. next = x /\ ~(left - 1 < 3) BY <1>0, <3>5, <4>1
        <5>2. SafeTag(w, at, left) = LongValue(T, x, w, at + 2) BY <3>2, <3>3, <4>2, <5>1
        <5>3. At(w, at + 2) = c /\ At(w, at + 3) = d
          <6>1. /\ 3 \in 1..Len(t) /\ 4 \in 1..Len(t) /\ at + 3 - 1 = at + 2 /\ at + 4 - 1 = at + 3
                /\ 3 <= left /\ 4 <= left
            BY <1>0, <4>1
          <6>2. /\ At(w, at + 3 - 1) = IF 3 <= left THEN t[3] ELSE 0
                /\ At(w, at + 4 - 1) = IF 4 <= left THEN t[4] ELSE 0
            BY <1>8, <6>1
          <6> QED BY <4>1, <6>1, <6>2
        <5>4. Slice(w, at + 2, 2) = Two(c, d)
          <6>1. (at + 2) + 1 - 1 = at + 2 /\ (at + 2) + 2 - 1 = at + 3 BY <1>0
          <6>2. Slice(w, at + 2, 2) = [k \in 1..2 |-> At(w, (at + 2) + k - 1)] BY DEF Slice
          <6>3. Slice(w, at + 2, 2) = <<At(w, (at + 2) + 1 - 1), At(w, (at + 2) + 2 - 1)>> BY <6>2
          <6> QED BY <5>3, <6>1, <6>3 DEF Two
        <5>5. decode_unsigned16(Two(c, d)) = L
          <6>1. decode_unsigned16(Two(c, d)) = Number2(c, d) BY <1>1, SMT DEF decode_unsigned16, Two, Number2
          <6> QED BY <1>1, <6>1, Zenon
        <5>6. SafeTag(w, at, left) = TagWith(T, 3, L) BY <4>2, <5>2, <5>4, <5>5, Zenon
        <5>7. TagWith(T, 3, L) = [len |-> 4, number |-> n, value |-> L] BY <2>7 DEF TagWith
        <5> QED BY <5>6, <5>7
      <4>4. left < 4 => SafeTag(w, at, left).len = 0
        <5> HAVE left < 4
        <5>1. CASE left < 2 BY <3>7, <5>1
        <5>2. CASE ~(left < 2)
          <6>1. next = x /\ left - 1 < 3 BY <1>0, <3>5, <4>1, <5>2
          <6> QED BY <3>2, <4>2, <6>1
        <5> QED BY <5>1, <5>2
      <4>5. ReadTag(w, at, left, t, n, L) BY <2>4, <4>1, <4>3, <4>4, Zenon DEF ReadTag
      <4> QED BY <4>5, Zenon DEF t
    <3> QED BY <2>9, <3>8, <3>9, Zenon
  <2> QED BY <1>1, <2>8, <2>9, Zenon
<1> QED BY <1>9, <1>10, Zenon

(* The octets of a value, and what is read of them: the value when they     *)
(* have all arrived, and nothing otherwise.                                 *)
OctetsOf(v) == bacapp_encode_application_data(v[1], v[2])
SafeValue(w, at) == bacapp_decode_application_data_safe(w, at)
ReadValue(w, at, left, d, v) ==
  /\ left >= Len(d) => SafeValue(w, at) = [len |-> Len(d), value |-> v, ok |-> TRUE]
  /\ left < Len(d) => ~SafeValue(w, at).ok

(* What is read is what the tag says, and what the data behind it is. *)
Behind(w, at, left, tag, type) ==
  IF tag.len # 0 /\ (type = "boolean" \/ tag.value <= left - tag.len)
  THEN [len |-> DataBehind(tag, w, at, type).len + tag.len,
        value |-> DataBehind(tag, w, at, type).value, ok |-> TRUE]
  ELSE [len |-> 0, value |-> NothingDecoded.value, ok |-> FALSE]

(* The safe decoder reads the tag and what is behind it. *)
LEMMA ValueBehind ==
  ASSUME NEW w, NEW at, NEW left, Place(w, at, left)
  PROVE  /\ left = 0 => ~SafeValue(w, at).ok
         /\ left # 0 /\ ~IsContextSpecific(At(w, at)) =>
              SafeValue(w, at)
                = Behind(w, at, left, SafeTag(w, at, left), TypeOf(SafeTag(w, at, left).number))
<1> DEFINE k == Len(w) - at + 1
<1>1. k = left
  <2>1. at \in Nat /\ left \in Nat /\ at + left = Len(w) + 1 /\ Len(w) \in Nat BY DEF Place
  <2> QED BY <2>1
<1>2. left = 0 => ~SafeValue(w, at).ok
  BY <1>1 DEF SafeValue, bacapp_decode_application_data_safe
<1>3. left # 0 /\ ~IsContextSpecific(At(w, at)) =>
        SafeValue(w, at) = Behind(w, at, k, SafeTag(w, at, k), TypeOf(SafeTag(w, at, k).number))
  BY <1>1, Zenon DEF SafeValue, bacapp_decode_application_data_safe, Behind, SafeTag
<1> HIDE DEF k
<1> QED BY <1>1, <1>2, <1>3, Zenon

(* Octets behind others. *)
LEMMA Joined ==
  ASSUME NEW a \in Seq(Nat), NEW b \in Seq(Nat)
  PROVE  /\ a \o b \in Seq(Nat) /\ Len(a \o b) = Len(a) + Len(b)
         /\ \A i \in 1..Len(a) + Len(b) : (a \o b)[i] = IF i <= Len(a) THEN a[i] ELSE b[i - Len(a)]
BY ConcatProperties

(* A value of which the tag is t, the data c behind it. *)
LEMMA TaggedRead ==
  ASSUME NEW w, NEW at, NEW left, Place(w, at, left), NEW type \in Typed, NEW c, NEW x,
         ReadAs(type, c, x), Stands(Tagged(Tags[type], FALSE, c), w, at)
  PROVE  /\ ReadValue(w, at, left, Tagged(Tags[type], FALSE, c), <<type, x>>)
         /\ Tagged(Tags[type], FALSE, c) \in Seq(Nat) /\ Len(Tagged(Tags[type], FALSE, c)) >= 1
<1> DEFINE n == Tags[type] L == Len(c) t == AppTag(n, L) d == Tagged(n, FALSE, c)
           tag == SafeTag(w, at, left)
<1>0. /\ w \in Seq(Nat) /\ at \in Nat /\ at >= 1 /\ left \in Nat /\ at + left = Len(w) + 1
      /\ Len(w) \in Nat
  BY DEF Place
<1>1. /\ c \in Seq(Nat) /\ L \in Nat /\ L <= 1470 /\ (L = 0 => type = "octets")
      /\ TakenOf(type, L) = L /\ Contents(type, c) = x
  BY DEF ReadAs
<1>2. TagFits(n, L) /\ TypeOf(n) = type
  <2>1. type \in DOMAIN Tags BY TypesAre DEF Typed
  <2>2. n \in Nat /\ n <= 12 BY TypesAre DEF Typed
  <2> QED BY <1>1, <2>1, <2>2, TypeOfTag DEF TagFits
<1>3. d = t \o c BY Zenon DEF Tagged, AppTag
<1>4. t \in Seq(Nat) /\ Len(t) \in Nat /\ Len(t) >= 1 BY <1>2, TagLength
<1> HIDE DEF t, n
<1>5. d \in Seq(Nat) /\ Len(d) = Len(t) + L
  <2>1. t \o c \in Seq(Nat) /\ Len(t \o c) = Len(t) + Len(c) BY <1>1, <1>4, Joined
  <2> QED BY <1>3, <2>1, Zenon
<1>17. \A i \in 1..Len(t) + L : d[i] = IF i <= Len(t) THEN t[i] ELSE c[i - Len(t)]
  <2>1. \A i \in 1..Len(t) + Len(c) : (t \o c)[i] = IF i <= Len(t) THEN t[i] ELSE c[i - Len(t)]
    BY <1>1, <1>4, Joined
  <2> QED BY <1>3, <2>1, Zenon
<1>6. Stands(d, w, at) BY Zenon DEF d, n
<1> HIDE DEF d, L
<1>7. Stands(t, w, at)
  <2> SUFFICES ASSUME NEW i \in 1..Len(t), at + i - 1 <= Len(w) PROVE w[at + i - 1] = t[i]
    BY DEF Stands
  <2>1. i \in 1..Len(d) /\ i \in 1..Len(t) + L /\ i <= Len(t) BY <1>1, <1>4, <1>5
  <2>2. w[at + i - 1] = d[i] BY <1>6, <2>1 DEF Stands
  <2> QED BY <1>17, <2>1, <2>2
<1>8. ReadTag(w, at, left, t, n, L) BY <1>2, <1>7, TagRead DEF t
<1>9. type # "boolean" /\ type # "null" BY DEF Typed
<1>10. /\ left = 0 => ~SafeValue(w, at).ok
       /\ left # 0 => SafeValue(w, at) = Behind(w, at, left, tag, TypeOf(tag.number))
  <2>1. left # 0 => left > 0 BY <1>0
  <2>2. left # 0 => ~IsContextSpecific(At(w, at)) BY <1>8, <2>1, Zenon DEF ReadTag
  <2> QED BY <2>2, ValueBehind, Zenon
<1> HIDE DEF tag
<1>11. left < Len(t) => tag.len = 0 BY <1>8, Zenon DEF ReadTag, tag
<1>12. left >= Len(t) => tag = [len |-> Len(t), number |-> n, value |-> L]
  BY <1>8, Zenon DEF ReadTag, tag
<1>13. left < Len(d) => ~SafeValue(w, at).ok
  <2> HAVE left < Len(d)
  <2>1. CASE left = 0 BY <1>10, <2>1
  <2>2. CASE left # 0 /\ left < Len(t)
    <3>1. ~Behind(w, at, left, tag, TypeOf(tag.number)).ok BY <1>11, <2>2 DEF Behind
    <3> QED BY <1>10, <2>2, <3>1
  <2>3. CASE left # 0 /\ ~(left < Len(t))
    <3>1. left >= Len(t) BY <1>0, <1>4, <2>3
    <3>2. tag.len = Len(t) /\ tag.value = L /\ tag.number = n BY <1>12, <3>1
    <3>3. ~(L <= left - Len(t)) BY <1>0, <1>1, <1>4, <1>5
    <3>4. ~Behind(w, at, left, tag, type).ok BY <1>9, <3>2, <3>3 DEF Behind
    <3> QED BY <1>2, <1>10, <2>3, <3>2, <3>4
  <2> QED BY <2>1, <2>2, <2>3
<1>14. left >= Len(d) => SafeValue(w, at) = [len |-> Len(d), value |-> <<type, x>>, ok |-> TRUE]
  <2> HAVE left >= Len(d)
  <2>1. left # 0 /\ left >= Len(t) /\ L <= left - Len(t)
    <3>1. \A a, b, l, s \in Nat : s = a + b /\ l >= s /\ a >= 1 => l # 0 /\ l >= a /\ b <= l - a
      OBVIOUS
    <3>2. L \in Nat /\ Len(t) \in Nat /\ Len(d) \in Nat /\ left \in Nat /\ Len(t) >= 1
      BY <1>0, <1>1, <1>4, <1>5
    <3>3. Len(d) = Len(t) + L BY <1>5
    <3>4. left >= Len(d) OBVIOUS
    <3> QED BY <3>1, <3>2, <3>3, <3>4, Zenon
  <2>2. tag.len = Len(t) /\ tag.value = L /\ tag.number = n BY <1>12, <2>1
  <2>3. Slice(w, at + Len(t), L) = c
    <3>1. Slice(w, at + Len(t), L) = [k \in 1..L |-> At(w, (at + Len(t)) + k - 1)] BY DEF Slice
    <3>2. ASSUME NEW k \in 1..L PROVE At(w, (at + Len(t)) + k - 1) = c[k]
      <4> DEFINE i == Len(t) + k
      <4>1. /\ i \in 1..Len(d) /\ i \in 1..Len(t) + L /\ ~(i <= Len(t)) /\ i - Len(t) = k
            /\ (at + Len(t)) + k - 1 = at + i - 1 /\ i <= left
        <5>1. L \in Nat /\ Len(t) \in Nat /\ k \in Nat /\ k >= 1 /\ k <= L BY <1>1, <1>4
        <5>2. at \in Nat /\ left \in Nat /\ L <= left - Len(t) BY <1>0, <2>1
        <5>3. Len(d) = Len(t) + L BY <1>5
        <5>4. i \in Nat /\ i >= 1 /\ i <= Len(t) + L /\ ~(i <= Len(t)) /\ i - Len(t) = k /\ i <= left
          BY <5>1, <5>2
        <5>5. (at + Len(t)) + k - 1 = at + i - 1 BY <5>1, <5>2
        <5> HIDE DEF i
        <5>6. i \in 1..Len(t) + L BY <5>1, <5>4
        <5>7. i \in 1..Len(d) BY <5>3, <5>6
        <5> QED BY <5>4, <5>5, <5>6, <5>7
      <4> HIDE DEF i
      <4>2. At(w, at + i - 1) = IF i <= left THEN d[i] ELSE 0 BY <1>5, <1>6, <4>1, OctetsThere
      <4>3. d[i] = c[k] BY <1>17, <4>1
      <4> QED BY <4>1, <4>2, <4>3
    <3>3. Slice(w, at + Len(t), L) = [k \in 1..L |-> c[k]] BY <3>1, <3>2
    <3>4. c = [k \in 1..L |-> c[k]] BY <1>1 DEF L
    <3> QED BY <3>3, <3>4
  <2>4. bacapp_decode_data(w, at + Len(t), type, L) = [len |-> L, value |-> <<type, x>>]
    BY <1>1, <1>9, <2>3, Zenon DEF bacapp_decode_data
  <2>5. DataBehind(tag, w, at, type) = [len |-> L, value |-> <<type, x>>]
    BY <2>2, <2>4, Zenon DEF DataBehind
  <2> DEFINE data == DataBehind(tag, w, at, type)
  <2>6. data.len = L /\ data.value = <<type, x>> BY <2>5
  <2> HIDE DEF data
  <2>7. tag.len # 0 BY <1>4, <2>2
  <2>8. Behind(w, at, left, tag, type) = [len |-> data.len + tag.len, value |-> data.value, ok |-> TRUE]
    BY <2>1, <2>2, <2>7, Zenon DEF Behind, data
  <2>9. data.len + tag.len = Len(d) BY <1>1, <1>4, <1>5, <2>2, <2>6
  <2> QED BY <1>2, <1>10, <2>1, <2>2, <2>6, <2>8, <2>9, Zenon
<1>15. ReadValue(w, at, left, d, <<type, x>>) BY <1>13, <1>14, Zenon DEF ReadValue
<1>16. Len(d) >= 1 BY <1>1, <1>4, <1>5
<1> QED BY <1>5, <1>15, <1>16 DEF d, n

(* Nothing and a boolean are a tag and no more. *)
LEMMA BareRead ==
  ASSUME NEW w, NEW at, NEW left, Place(w, at, left), NEW type \in {"null", "boolean"}, NEW L \in {0, 1},
         type = "null" => L = 0, Stands(AppTag(Tags[type], L), w, at)
  PROVE  /\ ReadValue(w, at, left, AppTag(Tags[type], L), <<type, IF type = "null" THEN 0 ELSE L # 0>>)
         /\ AppTag(Tags[type], L) \in Seq(Nat) /\ Len(AppTag(Tags[type], L)) >= 1
<1> DEFINE n == Tags[type] t == AppTag(n, L) tag == SafeTag(w, at, left)
           x == IF type = "null" THEN 0 ELSE L # 0
<1>0. at \in Nat /\ left \in Nat BY DEF Place
<1>1. TagFits(n, L) /\ TypeOf(n) = type /\ L \in Nat
  <2>1. type \in DOMAIN Tags BY TypesAre DEF Typed
  <2>2. n \in Nat /\ n <= 12 BY TypesAre
  <2>3. L \in Nat /\ L <= 1470 OBVIOUS
  <2> QED BY <2>1, <2>2, <2>3, TypeOfTag DEF TagFits
<1>2. t \in Seq(Nat) /\ Len(t) \in Nat /\ Len(t) >= 1 BY <1>1, TagLength
<1>3. ReadTag(w, at, left, t, n, L) BY <1>1, TagRead
<1> HIDE DEF t, n, x
<1>4. /\ left = 0 => ~SafeValue(w, at).ok
      /\ left # 0 => SafeValue(w, at) = Behind(w, at, left, tag, TypeOf(tag.number))
  <2>1. left # 0 => left > 0 BY <1>0
  <2>2. left # 0 => ~IsContextSpecific(At(w, at)) BY <1>3, <2>1, Zenon DEF ReadTag
  <2> QED BY <2>2, ValueBehind, Zenon
<1> HIDE DEF tag
<1>5. left < Len(t) => tag.len = 0 BY <1>3, Zenon DEF ReadTag, tag
<1>6. left >= Len(t) => tag = [len |-> Len(t), number |-> n, value |-> L]
  BY <1>3, Zenon DEF ReadTag, tag
<1>7. left < Len(t) => ~SafeValue(w, at).ok
  <2> HAVE left < Len(t)
  <2>1. CASE left = 0 BY <1>4, <2>1
  <2>2. CASE left # 0
    <3>1. ~Behind(w, at, left, tag, TypeOf(tag.number)).ok BY <1>5 DEF Behind
    <3> QED BY <1>4, <2>2, <3>1
  <2> QED BY <2>1, <2>2
<1>8. left >= Len(t) => SafeValue(w, at) = [len |-> Len(t), value |-> <<type, x>>, ok |-> TRUE]
  <2> HAVE left >= Len(t)
  <2>1. left # 0 BY <1>0, <1>2
  <2>2. tag.len = Len(t) /\ tag.value = L /\ tag.number = n BY <1>6
  <2>3. type = "boolean" \/ L <= left - Len(t)
    <3>1. type = "null" => L = 0 OBVIOUS
    <3>2. L = 0 => L <= left - Len(t) BY <1>0, <1>2
    <3> QED BY <3>1, <3>2
  <2>4. bacapp_decode_data(w, at + Len(t), type, L) = [len |-> 0, value |-> <<type, x>>]
    BY DEF bacapp_decode_data, x
  <2>5. DataBehind(tag, w, at, type) = [len |-> 0, value |-> <<type, x>>]
    BY <2>2, <2>4, Zenon DEF DataBehind
  <2> DEFINE data == DataBehind(tag, w, at, type)
  <2>6. data.len = 0 /\ data.value = <<type, x>> BY <2>5
  <2> HIDE DEF data
  <2>7. tag.len # 0 BY <1>2, <2>2
  <2>8. Behind(w, at, left, tag, type) = [len |-> data.len + tag.len, value |-> data.value, ok |-> TRUE]
    BY <2>2, <2>3, <2>7, Zenon DEF Behind, data
  <2>9. data.len + tag.len = Len(t) BY <1>2, <2>2, <2>6
  <2> QED BY <1>1, <1>4, <2>1, <2>2, <2>6, <2>8, <2>9, Zenon
<1>9. ReadValue(w, at, left, t, <<type, x>>) BY <1>7, <1>8, Zenon DEF ReadValue
<1> QED BY <1>2, <1>9 DEF t, n, x

(* Every value of the receiver's types is read as it was written. *)
LEMMA ValueRead ==
  ASSUME NEW w, NEW at, NEW left, Place(w, at, left), NEW v \in ApplicationValue,
         Stands(OctetsOf(v), w, at)
  PROVE  /\ ReadValue(w, at, left, OctetsOf(v), v)
         /\ OctetsOf(v) \in Seq(Nat) /\ Len(OctetsOf(v)) \in Nat /\ Len(OctetsOf(v)) >= 1
<1> DEFINE d == OctetsOf(v)
<1>1. /\ v = <<v[1], v[2]>>
      /\ \/ v = <<"null", 0>>
         \/ v[1] = "boolean" /\ v[2] \in BOOLEAN
         \/ v[1] \in Typed /\ HasContents(v)
  BY ValuesHaveContents
<1>2. SUFFICES ReadValue(w, at, left, d, v) /\ d \in Seq(Nat) /\ Len(d) >= 1 OBVIOUS
<1>3. CASE v = <<"null", 0>>
  <2>1. d = AppTag(Tags["null"], 0)
    BY <1>3, TypesAre DEF OctetsOf, bacapp_encode_application_data, encode_application_null, AppTag, Typed
  <2>2. /\ ReadValue(w, at, left, AppTag(Tags["null"], 0), <<"null", IF "null" = "null" THEN 0 ELSE 0 # 0>>)
        /\ AppTag(Tags["null"], 0) \in Seq(Nat) /\ Len(AppTag(Tags["null"], 0)) >= 1
    BY <2>1, BareRead
  <2> HIDE DEF d
  <2>3. v = <<"null", IF "null" = "null" THEN 0 ELSE 0 # 0>> BY <1>3
  <2> QED BY <2>1, <2>2, <2>3, Zenon
<1>4. CASE v[1] = "boolean" /\ v[2] \in BOOLEAN
  <2> DEFINE L == IF v[2] THEN 1 ELSE 0
             x == IF "boolean" = "null" THEN 0 ELSE L # 0
  <2>1. L \in {0, 1} /\ (L # 0) = v[2] BY <1>4
  <2>2. d = AppTag(Tags["boolean"], L)
    BY <1>4, TypesAre DEF OctetsOf, bacapp_encode_application_data, encode_application_boolean, AppTag, Typed
  <2> HIDE DEF L, d
  <2>3. /\ ReadValue(w, at, left, AppTag(Tags["boolean"], L), <<"boolean", x>>)
        /\ AppTag(Tags["boolean"], L) \in Seq(Nat) /\ Len(AppTag(Tags["boolean"], L)) >= 1
    <3>1. "boolean" # "null" OBVIOUS
    <3>2. Stands(AppTag(Tags["boolean"], L), w, at) BY <2>2, Zenon DEF d
    <3> QED BY <2>1, <3>1, <3>2, BareRead
  <2>4. v = <<"boolean", x>> BY <1>1, <1>4, <2>1
  <2> QED BY <2>2, <2>3, <2>4, Zenon
<1>5. CASE v[1] \in Typed /\ HasContents(v)
  <2> DEFINE type == v[1] x == v[2]
  <2>1. PICK c : WrittenAs(v, c) /\ ReadAs(type, c, x) BY <1>5 DEF HasContents
  <2>2. d = Tagged(Tags[type], FALSE, c) BY <2>1, Zenon DEF WrittenAs, OctetsOf
  <2>3. Stands(Tagged(Tags[type], FALSE, c), w, at) BY <2>2, Zenon
  <2> HIDE DEF d, type, x
  <2>4. /\ ReadValue(w, at, left, Tagged(Tags[type], FALSE, c), <<type, x>>)
        /\ Tagged(Tags[type], FALSE, c) \in Seq(Nat) /\ Len(Tagged(Tags[type], FALSE, c)) >= 1
    <3>1. type \in Typed BY <1>5 DEF type
    <3> QED BY <2>1, <2>3, <3>1, TaggedRead
  <2>5. v = <<type, x>> BY <1>1, Zenon DEF type, x
  <2> QED BY <2>2, <2>4, <2>5, Zenon
<1> QED BY <1>1, <1>3, <1>4, <1>5

(* A value that is read is there, and takes an octet at least: reading a    *)
(* list comes to an end wherever it begins.                                 *)
LEMMA ReadingGoesOn ==
  ASSUME NEW w \in Seq(Nat), NEW at \in Nat, SafeValue(w, at).ok
  PROVE  at <= Len(w) /\ SafeValue(w, at).len \in Nat /\ SafeValue(w, at).len >= 1
<1> DEFINE left == Len(w) - at + 1
           tag == SafeTag(w, at, left)
           type == TypeOf(tag.number)
           t == decode_tag_number_safe(w, at, left)
           next == At(w, at + t.len)
           after == at + t.len + 1
           data == DataBehind(tag, w, at, type)
<1>0. left \in Int OBVIOUS
<1>1. /\ left # 0 /\ SafeValue(w, at) = Behind(w, at, left, tag, type)
  <2>1. left # 0 /\ ~IsContextSpecific(At(w, at))
    <3> HIDE DEF left
    <3>1. ASSUME left = 0 \/ IsContextSpecific(At(w, at)) PROVE ~SafeValue(w, at).ok
      BY <3>1 DEF SafeValue, bacapp_decode_application_data_safe, left
    <3> QED BY <3>1
  <2>2. SafeValue(w, at) = Behind(w, at, left, tag, type)
    BY <2>1, Zenon DEF SafeValue, bacapp_decode_application_data_safe, Behind, SafeTag
  <2> QED BY <2>1, <2>2
<1>2. /\ tag.len # 0 /\ (type = "boolean" \/ tag.value <= left - tag.len)
      /\ SafeValue(w, at).len = data.len + tag.len
  <2> HIDE DEF tag, type, left
  <2>1. tag.len # 0 /\ (type = "boolean" \/ tag.value <= left - tag.len)
    BY <1>1 DEF Behind
  <2>2. Behind(w, at, left, tag, type).len = data.len + tag.len
    <3> DEFINE n == data.len + tag.len
    <3> HIDE DEF n
    <3>1. Behind(w, at, left, tag, type) = [len |-> n, value |-> data.value, ok |-> TRUE]
      BY <2>1, Zenon DEF Behind, n
    <3> HIDE DEF data
    <3>2. Behind(w, at, left, tag, type).len = n BY <3>1
    <3> QED BY <3>2, Zenon DEF n
  <2> HIDE DEF data
  <2> QED BY <1>1, <2>1, <2>2, Zenon
<1>3. At(w, at) \in Nat /\ At(w, at + 1) \in Nat BY OctetAt
<1> HIDE DEF left
<1>4. t.len \in {0, 1, 2} /\ t.number \in Nat
  <2>1. At(w, at) \div 16 \in Nat BY <1>3
  <2> QED BY <1>3, <2>1 DEF decode_tag_number_safe
<1> HIDE DEF t
<1>5. tag = WithValueSafe(t, w, at, left) BY Zenon DEF tag, SafeTag, decode_tag_number_and_value_safe, t
<1>6. t.len # 0 /\ tag = WithValue(t, w, at)
  <2> HIDE DEF tag
  <2>1. WithValueSafe(t, w, at, left).len # 0 BY <1>2, <1>5
  <2> DEFINE nothing == [len |-> 0, number |-> t.number, value |-> 0]
             short == IsExtendedValue(At(w, at)) /\ left - t.len < ValueNeeds(At(w, at + t.len))
  <2>2. WithValueSafe(t, w, at, left) = IF t.len = 0 \/ short THEN nothing ELSE WithValue(t, w, at)
    BY Zenon DEF WithValueSafe
  <2>3. nothing.len = 0 OBVIOUS
  <2> HIDE DEF short, nothing
  <2> QED BY <1>5, <2>1, <2>2, <2>3
<1>7. next \in Nat /\ after \in Nat BY <1>4, OctetAt
<1>8. /\ decode_unsigned16(Slice(w, after, 2)) \in Nat
      /\ decode_unsigned32(Slice(w, after, 4)) \in Nat
  BY <1>7, LongNumbers
<1>9. \A more \in {0, 1, 3, 5}, value \in Nat : Whole(TagWith(t, more, value), t)
  BY <1>4 DEF TagWith, Whole
<1>10. ShortValue(At(w, at)) \in Nat BY <1>3 DEF ShortValue
<1> HIDE DEF next, after
<1>11. Whole(tag, t)
  <2> HIDE DEF tag
  <2>1. CASE IsExtendedValue(At(w, at)) /\ next = 255
    <3>1. tag = TagWith(t, 5, decode_unsigned32(Slice(w, after, 4)))
      BY <1>6, <2>1 DEF WithValue, LongValue, next, after
    <3> QED BY <1>8, <1>9, <3>1
  <2>2. CASE IsExtendedValue(At(w, at)) /\ next = 254
    <3>1. tag = TagWith(t, 3, decode_unsigned16(Slice(w, after, 2)))
      BY <1>6, <2>2 DEF WithValue, LongValue, next, after
    <3> QED BY <1>8, <1>9, <3>1
  <2>3. CASE IsExtendedValue(At(w, at)) /\ next # 254 /\ next # 255
    <3>1. tag = TagWith(t, 1, next) BY <1>6, <2>3 DEF WithValue, LongValue, next
    <3> QED BY <1>7, <1>9, <3>1
  <2>4. CASE ~IsExtendedValue(At(w, at))
    <3>1. tag = TagWith(t, 0, ShortValue(At(w, at))) BY <1>6, <2>4 DEF WithValue
    <3> QED BY <1>9, <1>10, <3>1
  <2> QED BY <2>1, <2>2, <2>3, <2>4
<1>12. tag.len \in Nat /\ tag.value \in Nat /\ tag.number = t.number /\ tag.len >= 1
  <2> HIDE DEF tag
  <2>1. tag.len \in Nat /\ tag.value \in Nat /\ tag.number = t.number /\ tag.len >= t.len
    BY <1>11 DEF Whole
  <2> QED BY <1>4, <1>6, <2>1
<1>13. data.len \in Nat
  <2> HIDE DEF tag
  <2>1. TakenOf(type, tag.value) \in Nat
    <3> HIDE DEF type
    <3>1. TakenOf(type, tag.value) \in {0, 4, tag.value} BY DEF TakenOf
    <3> QED BY <1>12, <3>1
  <2> DEFINE k == bacapp_decode_data(w, at + tag.len, type, tag.value).len
  <2>2. k = 0 \/ k = TakenOf(type, tag.value)
    <3> HIDE DEF type
    <3> QED BY DEF bacapp_decode_data
  <2>3. data.len = k BY Zenon DEF DataBehind
  <2> HIDE DEF data, k, type
  <2> QED BY <2>1, <2>2, <2>3
<1>14. at <= Len(w)
  <2> SUFFICES ASSUME ~(at <= Len(w)) PROVE FALSE OBVIOUS
  <2>1. left <= 0 /\ at \notin DOMAIN w BY DEF left
  <2>2. At(w, at) = 0 BY <2>1 DEF At, NoOctet
  <2>3. t.number = 0 BY <2>1, <2>2 DEF decode_tag_number_safe, t, IsExtendedNumber
  <2> HIDE DEF tag, type
  <2>4. type = "boolean" BY <1>0, <1>2, <1>12, <2>1
  <2>5. tag.number = 0 BY <1>12, <2>3
  <2>6. TypeOf(0) = "null"
    <3>1. "null" \in DOMAIN Tags /\ Tags["null"] = 0 BY TypesAre
    <3> QED BY <3>1, TypeOfTag
  <2>7. type = "null" BY <2>5, <2>6, Zenon DEF type
  <2> QED BY <2>4, <2>7
<1> HIDE DEF tag, data, type
<1>15. SafeValue(w, at).len \in Nat /\ SafeValue(w, at).len >= 1
  <2>1. data.len + tag.len \in Nat /\ data.len + tag.len >= 1 BY <1>12, <1>13
  <2> QED BY <1>2, <2>1, Zenon
<1> QED BY <1>14, <1>15

(* Reading from a place: the value there, and what is read behind it.       *)
ReadsFrom(w, F) ==
  /\ bacapp_decode_list(w) = F[1]
  /\ \A at \in Nat : F[at] = IF SafeValue(w, at).ok
                             THEN <<SafeValue(w, at).value>> \o F[at + SafeValue(w, at).len] ELSE <<>>

(* The loop over the values ends, as each has an octet at least. *)
LEMMA ListIsRead ==
  ASSUME NEW w \in Seq(Nat) PROVE \E F : ReadsFrom(w, F)
<1> DEFINE Stop == {at \in Nat : ~SafeValue(w, at).ok}
           V == [at \in Nat |-> IF at \in Stop THEN <<>> ELSE SafeValue(w, at).value]
           N == [at \in Nat |-> at + SafeValue(w, at).len]
           m == [at \in Nat |-> IF at <= Len(w) THEN Len(w) + 1 - at ELSE 0]
           Body(F, at) == IF SafeValue(w, at).ok
                          THEN <<SafeValue(w, at).value>> \o F[at + SafeValue(w, at).len] ELSE <<>>
           F == CHOOSE F : F = [at \in Nat |-> Body(F, at)]
<1>1. GoesDown(Nat, Stop, N, m)
  <2>1. m \in [Nat -> Nat] OBVIOUS
  <2>2. ASSUME NEW p \in Nat, p \notin Stop PROVE N[p] \in Nat /\ m[N[p]] < m[p]
    <3>1. SafeValue(w, p).ok BY <2>2
    <3> DEFINE len == SafeValue(w, p).len
    <3>2. p <= Len(w) /\ len \in Nat /\ len >= 1 BY <3>1, ReadingGoesOn
    <3> HIDE DEF len
    <3>3. N[p] = p + len BY DEF len
    <3> HIDE DEF N
    <3> QED BY <3>2, <3>3
  <2> HIDE DEF Stop, N, m
  <2> QED BY <2>1, <2>2 DEF GoesDown
<1>2. PICK G : Recursion(Nat, Stop, V, N, Nat, G)
  <2> HIDE DEF Stop, V, N, m
  <2> QED BY <1>1, RecursionEnds
<1>3. ASSUME NEW at \in Nat PROVE G[at] = Body(G, at)
  <2>1. G[at] = IF at \in Stop THEN V[at] ELSE <<V[at]>> \o G[N[at]]
    <3> HIDE DEF Stop, V, N
    <3> QED BY <1>2, Zenon DEF Recursion, Before
  <2>2. N[at] = at + SafeValue(w, at).len OBVIOUS
  <2>3. CASE at \in Stop
    <3>1. V[at] = <<>> /\ ~SafeValue(w, at).ok BY <2>3
    <3> HIDE DEF Stop, V, N
    <3> QED BY <2>1, <2>3, <3>1, Zenon
  <2>4. CASE at \notin Stop
    <3>1. V[at] = SafeValue(w, at).value /\ SafeValue(w, at).ok BY <2>4
    <3> HIDE DEF Stop, V, N
    <3> QED BY <2>1, <2>2, <2>4, <3>1, Zenon
  <2> QED BY <2>3, <2>4
<1>4. G = [at \in Nat |-> Body(G, at)]
  <2>1. G = [at \in Nat |-> G[at]]
    <3> HIDE DEF Stop, V, N
    <3> QED BY <1>2 DEF Recursion
  <2> HIDE DEF Body
  <2> QED BY <1>3, <2>1
<1>5. F = [at \in Nat |-> Body(F, at)]
  <2> HIDE DEF Body
  <2> QED BY <1>4, Zenon
<1>6. bacapp_decode_list(w) = F[1] BY Zenon DEF bacapp_decode_list, SafeValue
<1>7. ASSUME NEW at \in Nat PROVE F[at] = Body(F, at)
  <2> HIDE DEF Body, F
  <2> QED BY <1>5
<1> HIDE DEF F
<1> QED BY <1>6, <1>7, Zenon DEF ReadsFrom

(* The octets of a list, one value's behind another's: s of the values, put *)
(* together up to the n-th.                                                 *)
Together(s, n, F) == F = [i \in 1..n |-> IF i = 1 THEN s[i] ELSE F[i - 1] \o s[i]]

(* There is such a sequence of every length. *)
LEMMA TogetherExists ==
  ASSUME NEW s, NEW n \in Nat PROVE \E F : Together(s, n, F)
<1> DEFINE Body(F, i) == IF i = 1 THEN s[i] ELSE F[i - 1] \o s[i]
           T == {k \in Nat : \E F : \A i \in 1..k : F[i] = Body(F, i)}
<1>1. 0 \in T OBVIOUS
<1>2. ASSUME NEW k \in Nat, k \in T PROVE k + 1 \in T
  <2>1. PICK P : \A i \in 1..k : P[i] = Body(P, i) BY <1>2
  <2> DEFINE Q == [i \in 1..k + 1 |-> IF i <= k THEN P[i] ELSE Body(P, i)]
  <2>2. ASSUME NEW i \in 1..k + 1 PROVE Q[i] = Body(Q, i)
    <3>1. Q[i] = Body(P, i)
      <4>1. Q[i] = IF i <= k THEN P[i] ELSE Body(P, i) OBVIOUS
      <4>2. i <= k => i \in 1..k OBVIOUS
      <4> HIDE DEF Q, Body
      <4> QED BY <2>1, <4>1, <4>2
    <3>2. CASE i = 1 BY <3>1, <3>2
    <3>3. CASE i # 1
      <4>1. i - 1 \in 1..k + 1 /\ i - 1 <= k BY <3>3
      <4>2. Q[i - 1] = P[i - 1] BY <4>1
      <4> HIDE DEF Q
      <4> QED BY <3>1, <3>3, <4>2
    <3> QED BY <3>2, <3>3
  <2> HIDE DEF Q, Body
  <2> QED BY <2>2
<1>3. Nat \subseteq T
  <2> HIDE DEF T
  <2> QED BY <1>1, <1>2, SetInduction
<1>4. PICK F : \A i \in 1..n : F[i] = Body(F, i) BY <1>3
<1> DEFINE G == [i \in 1..n |-> F[i]]
<1>5. ASSUME NEW i \in 1..n PROVE G[i] = Body(G, i)
  <2>1. G[i] = Body(F, i)
    <3>1. G[i] = F[i] OBVIOUS
    <3> HIDE DEF G, Body
    <3> QED BY <1>4, <3>1
  <2>2. CASE i = 1 BY <2>1, <2>2
  <2>3. CASE i # 1
    <3>1. i - 1 \in 1..n BY <2>3
    <3>2. G[i - 1] = F[i - 1] BY <3>1
    <3> HIDE DEF G
    <3> QED BY <2>1, <2>3, <3>2
  <2> QED BY <2>2, <2>3
<1>6. G = [i \in 1..n |-> Body(G, i)]
  <2> DEFINE H == [i \in 1..n |-> Body(G, i)]
  <2>1. G = [i \in 1..n |-> G[i]] OBVIOUS
  <2> HIDE DEF G, Body
  <2>2. H = [i \in 1..n |-> G[i]] BY <1>5
  <2> HIDE DEF H
  <2>3. G = H BY <2>1, <2>2, Zenon
  <2> QED BY <2>3, Zenon DEF H
<1>7. Together(s, n, G)
  <2> HIDE DEF G
  <2> QED BY <1>6, Zenon DEF Together
<1> QED BY <1>7

(* It is the same of a longer sequence that begins with s. *)
SameTo(n, s, t) == \A i \in 1..n : s[i] = t[i]

(* Putting together looks at nothing further on. *)
LEMMA TogetherSame ==
  ASSUME NEW s, NEW t, NEW n \in Nat, NEW m \in Nat, n <= m, NEW F, NEW G,
         Together(s, n, F), Together(t, m, G), SameTo(n, s, t)
  PROVE  SameTo(n, F, G)
<1>0. \A i \in 1..n : s[i] = t[i] BY DEF SameTo
<1>1. \A i \in 1..n : F[i] = IF i = 1 THEN s[i] ELSE F[i - 1] \o s[i] BY DEF Together
<1>2. \A i \in 1..m : G[i] = IF i = 1 THEN t[i] ELSE G[i - 1] \o t[i] BY DEF Together
<1> DEFINE T == {k \in Nat : k \in 1..n => F[k] = G[k]}
<1>3. 0 \in T OBVIOUS
<1>4. ASSUME NEW k \in Nat, k \in T PROVE k + 1 \in T
  <2> SUFFICES ASSUME k + 1 \in 1..n PROVE F[k + 1] = G[k + 1] OBVIOUS
  <2>1. k + 1 \in 1..m /\ s[k + 1] = t[k + 1] BY <1>0
  <2>2. /\ F[k + 1] = IF k + 1 = 1 THEN s[k + 1] ELSE F[(k + 1) - 1] \o s[k + 1]
        /\ G[k + 1] = IF k + 1 = 1 THEN t[k + 1] ELSE G[(k + 1) - 1] \o t[k + 1]
    BY <1>1, <1>2, <2>1
  <2>3. CASE k = 0
    <3>1. k + 1 = 1 BY <2>3
    <3> QED BY <2>1, <2>2, <3>1
  <2>4. CASE k # 0
    <3>1. k \in 1..n /\ (k + 1) - 1 = k /\ ~(k + 1 = 1) BY <2>4
    <3>2. F[k] = G[k] BY <1>4, <3>1
    <3> QED BY <2>1, <2>2, <3>1, <3>2
  <2> QED BY <2>3, <2>4
<1>5. Nat \subseteq T
  <2> HIDE DEF T
  <2> QED BY <1>3, <1>4, SetInduction
<1> SUFFICES ASSUME NEW i \in 1..n PROVE F[i] = G[i] BY DEF SameTo
<1>6. i \in Nat OBVIOUS
<1> QED BY <1>5, <1>6

(* The octets of the first k values of a list. *)
FirstValues(list, k) == SubSeq(list, 1, k)
OctetsTo(list, k) == DataOctets(FirstValues(list, k))
Parts(list) == [i \in DOMAIN list |-> OctetsOf(list[i])]

(* FlattenSeq is the last of the sequences put together. *)
LEMMA FlattenIsTogether ==
  ASSUME NEW s, NEW n \in Nat, Len(s) = n
  PROVE  /\ n = 0 => FlattenSeq(s) = s
         /\ n # 0 => \E F : Together(s, n, F) /\ FlattenSeq(s) = F[n]
<1> DEFINE F == CHOOSE F : F = [i \in 1..Len(s) |-> IF i = 1 THEN s[i] ELSE F[i - 1] \o s[i]]
<1>1. n = 0 => FlattenSeq(s) = s BY DEF FlattenSeq
<1>2. ASSUME n # 0 PROVE FlattenSeq(s) = F[Len(s)] BY <1>2, Zenon DEF FlattenSeq
<1>3. \E G : G = [i \in 1..Len(s) |-> IF i = 1 THEN s[i] ELSE G[i - 1] \o s[i]]
  BY TogetherExists, Zenon DEF Together
<1>4. F = [i \in 1..Len(s) |-> IF i = 1 THEN s[i] ELSE F[i - 1] \o s[i]] BY <1>3, Zenon
<1> HIDE DEF F
<1>5. Together(s, n, F) BY <1>4, Zenon DEF Together
<1> QED BY <1>1, <1>2, <1>5, Zenon

(* One value more: its octets behind those of the others. *)
LEMMA ValueBehindValues ==
  ASSUME NEW list \in Seq(ApplicationValue), \A v \in ApplicationValue : OctetsOf(v) \in Seq(Nat)
  PROVE  /\ OctetsTo(list, 0) = <<>>
         /\ \A k \in 0..Len(list) - 1 : OctetsTo(list, k + 1) = OctetsTo(list, k) \o OctetsOf(list[k + 1])
         /\ OctetsTo(list, Len(list)) = DataOctets(list)
<1> DEFINE L == Len(list) S(k) == Parts(FirstValues(list, k))
<1>0. L \in Nat /\ \A i \in 1..L : list[i] \in ApplicationValue OBVIOUS
<1>1. ASSUME NEW k \in 0..L
      PROVE  /\ Len(S(k)) = k /\ S(k) \in Seq(Seq(Nat))
             /\ \A i \in 1..k : S(k)[i] = OctetsOf(list[i])
             /\ OctetsTo(list, k) = FlattenSeq(S(k))
  <2> DEFINE f == FirstValues(list, k)
  <2>1. f \in Seq(ApplicationValue) /\ Len(f) = k /\ \A i \in 1..k : f[i] = list[i]
    <3>1. k \in Nat /\ k <= L BY <1>0
    <3> QED BY <1>0, <3>1, SubSeqProperties DEF FirstValues
  <2>2. OctetsTo(list, k) = FlattenSeq(S(k))
    BY Zenon DEF OctetsTo, DataOctets, Concatenated, Parts, OctetsOf
  <2> HIDE DEF f
  <2>3. DOMAIN f = 1..k BY <2>1
  <2>4. S(k) = [i \in 1..k |-> OctetsOf(f[i])] BY <2>3, Zenon DEF Parts, f
  <2> DEFINE P == [i \in 1..k |-> OctetsOf(f[i])]
  <2>5. \A i \in 1..k : OctetsOf(f[i]) \in Seq(Nat)
    <3> SUFFICES ASSUME NEW i \in 1..k PROVE OctetsOf(f[i]) \in Seq(Nat) OBVIOUS
    <3>1. f[i] \in ApplicationValue BY <2>1, <2>3
    <3> QED BY <3>1
  <2>6. P \in Seq(Seq(Nat)) /\ Len(P) = k
    <3>1. k \in Nat BY <1>0
    <3> QED BY <2>5, <3>1
  <2>7. \A i \in 1..k : P[i] = OctetsOf(list[i])
    <3> SUFFICES ASSUME NEW i \in 1..k PROVE P[i] = OctetsOf(list[i]) OBVIOUS
    <3>1. f[i] = list[i] BY <2>1
    <3> QED BY <3>1
  <2> HIDE DEF P
  <2>8. S(k) = P BY <2>4, Zenon DEF P
  <2> HIDE DEF S
  <2> QED BY <2>2, <2>6, <2>7, <2>8
<1> HIDE DEF S
<1>2. OctetsTo(list, 0) = <<>>
  <2>1. 0 \in 0..L BY <1>0
  <2>2. Len(S(0)) = 0 /\ S(0) \in Seq(Seq(Nat)) /\ OctetsTo(list, 0) = FlattenSeq(S(0)) BY <1>1, <2>1
  <2>3. FlattenSeq(S(0)) = S(0) BY <2>2, FlattenIsTogether
  <2>4. S(0) = <<>> BY <2>2, EmptySeq
  <2> QED BY <2>2, <2>3, <2>4
<1>3. ASSUME NEW k \in 0..L - 1
      PROVE  OctetsTo(list, k + 1) = OctetsTo(list, k) \o OctetsOf(list[k + 1])
  <2>1. k \in 0..L /\ k + 1 \in 0..L /\ k \in Nat /\ k + 1 \in Nat /\ k + 1 # 0 /\ k <= k + 1 /\ k + 1 \in 1..k + 1
    BY <1>0
  <2> DEFINE s == S(k) t == S(k + 1) x == OctetsOf(list[k + 1])
  <2>2. Len(s) = k /\ OctetsTo(list, k) = FlattenSeq(s) /\ \A i \in 1..k : s[i] = OctetsOf(list[i])
    BY <1>1, <2>1
  <2>3. /\ Len(t) = k + 1 /\ OctetsTo(list, k + 1) = FlattenSeq(t)
        /\ \A i \in 1..k + 1 : t[i] = OctetsOf(list[i])
    BY <1>1, <2>1
  <2>4. t[k + 1] = x BY <2>1, <2>3
  <2>5. x \in Seq(Nat)
    <3>1. k + 1 \in 1..L BY <1>0
    <3> QED BY <1>0, <3>1
  <2> HIDE DEF s, t, x
  <2>6. PICK G : Together(t, k + 1, G) /\ FlattenSeq(t) = G[k + 1] BY <2>1, <2>3, FlattenIsTogether
  <2>7. G[k + 1] = IF k + 1 = 1 THEN t[k + 1] ELSE G[(k + 1) - 1] \o t[k + 1]
    BY <2>1, <2>6 DEF Together
  <2>8. CASE k = 0
    <3>1. OctetsTo(list, k) = <<>> BY <1>2, <2>8
    <3>2. FlattenSeq(t) = x BY <2>4, <2>6, <2>7, <2>8
    <3>3. <<>> \o x = x BY <2>5, ConcatEmptySeq
    <3> QED BY <2>3, <3>1, <3>2, <3>3 DEF x
  <2>9. CASE k # 0
    <3>1. PICK F : Together(s, k, F) /\ FlattenSeq(s) = F[k] BY <2>1, <2>2, <2>9, FlattenIsTogether
    <3>2. SameTo(k, s, t)
      <4>1. \A i \in 1..k : i \in 1..k + 1 BY <2>1
      <4> QED BY <2>2, <2>3, <4>1 DEF SameTo
    <3>3. F[k] = G[k]
      <4>1. k \in 1..k BY <2>1, <2>9
      <4>2. SameTo(k, F, G) BY <2>1, <2>6, <3>1, <3>2, TogetherSame
      <4> QED BY <4>1, <4>2 DEF SameTo
    <3>4. (k + 1) - 1 = k /\ ~(k + 1 = 1) BY <2>1, <2>9
    <3>5. FlattenSeq(t) = FlattenSeq(s) \o x BY <2>4, <2>6, <2>7, <3>1, <3>3, <3>4, Zenon
    <3> QED BY <2>2, <2>3, <3>5, Zenon DEF x
  <2> QED BY <2>8, <2>9
<1>4. OctetsTo(list, L) = DataOctets(list)
  <2>1. SubSeq(list, 1, Len(list)) = list BY SubSeqFull
  <2> QED BY <2>1, Zenon DEF OctetsTo, FirstValues
<1> QED BY <1>2, <1>3, <1>4

(* The octets of a value of the receiver's types are octets, one at least. *)
LEMMA OctetsAreOctets ==
  \A v \in ApplicationValue :
    OctetsOf(v) \in Seq(Nat) /\ Len(OctetsOf(v)) \in Nat /\ Len(OctetsOf(v)) >= 1
<1> SUFFICES ASSUME NEW v \in ApplicationValue
             PROVE  OctetsOf(v) \in Seq(Nat) /\ Len(OctetsOf(v)) \in Nat /\ Len(OctetsOf(v)) >= 1
  OBVIOUS
<1> DEFINE w == <<>>
<1>1. Place(w, 1, 0) BY DEF Place
<1>2. Stands(OctetsOf(v), w, 1)
  <2> SUFFICES ASSUME NEW i \in 1..Len(OctetsOf(v)), 1 + i - 1 <= Len(w) PROVE FALSE BY DEF Stands
  <2>1. i \in Int /\ i >= 1 /\ Len(w) = 0 OBVIOUS
  <2> QED BY <2>1
<1> HIDE DEF w
<1> QED BY <1>1, <1>2, ValueRead

(* What is in front of the k-th value stays in front of it. *)
InFront(list, k, m) ==
  /\ Len(OctetsTo(list, k)) <= Len(OctetsTo(list, m))
  /\ \A i \in 1..Len(OctetsTo(list, k)) : OctetsTo(list, m)[i] = OctetsTo(list, k)[i]

(* The octets of a list are octets, and those of its first values come first. *)
LEMMA ValuesInOrder ==
  ASSUME NEW list \in Seq(ApplicationValue)
  PROVE  /\ \A k \in 0..Len(list) : OctetsTo(list, k) \in Seq(Nat)
         /\ \A k \in 0..Len(list) : InFront(list, k, Len(list))
         /\ \A k \in 0..Len(list) - 1 :
              /\ Len(OctetsTo(list, k + 1)) = Len(OctetsTo(list, k)) + Len(OctetsOf(list[k + 1]))
              /\ \A i \in 1..Len(OctetsOf(list[k + 1])) :
                   OctetsTo(list, k + 1)[Len(OctetsTo(list, k)) + i] = OctetsOf(list[k + 1])[i]
<1> DEFINE L == Len(list) O(k) == OctetsTo(list, k) x(k) == OctetsOf(list[k])
<1>0. L \in Nat OBVIOUS
<1>1. /\ O(0) = <<>>
      /\ \A k \in 0..L - 1 : O(k + 1) = O(k) \o x(k + 1)
  BY OctetsAreOctets, ValueBehindValues
<1>2. \A k \in 0..L - 1 : x(k + 1) \in Seq(Nat) /\ Len(x(k + 1)) \in Nat
  <2> SUFFICES ASSUME NEW k \in 0..L - 1 PROVE x(k + 1) \in Seq(Nat) /\ Len(x(k + 1)) \in Nat OBVIOUS
  <2>1. k + 1 \in 1..L BY <1>0
  <2>2. list[k + 1] \in ApplicationValue BY <2>1
  <2> QED BY <2>2, OctetsAreOctets
<1> HIDE DEF O, x, L
<1>3. \A k \in 0..L : O(k) \in Seq(Nat)
  <2> DEFINE T == {k \in Nat : k \in 0..L => O(k) \in Seq(Nat)}
  <2>1. 0 \in T
    <3>1. O(0) \in Seq(Nat) BY <1>1, EmptySeq
    <3> QED BY <3>1
  <2>2. ASSUME NEW k \in Nat, k \in T PROVE k + 1 \in T
    <3> SUFFICES ASSUME k + 1 \in 0..L PROVE O(k + 1) \in Seq(Nat) OBVIOUS
    <3>1. k \in 0..L /\ k \in 0..L - 1 BY <1>0
    <3>2. O(k) \in Seq(Nat) BY <2>2, <3>1
    <3>3. O(k) \o x(k + 1) \in Seq(Nat) BY <1>2, <3>1, <3>2, Joined
    <3> QED BY <1>1, <3>1, <3>3
  <2>3. Nat \subseteq T
    <3> HIDE DEF T
    <3> QED BY <2>1, <2>2, SetInduction
  <2> SUFFICES ASSUME NEW k \in 0..L PROVE O(k) \in Seq(Nat) OBVIOUS
  <2>4. k \in Nat BY <1>0
  <2> QED BY <2>3, <2>4
<1>4. ASSUME NEW k \in 0..L - 1
      PROVE  /\ Len(O(k + 1)) = Len(O(k)) + Len(x(k + 1))
             /\ \A i \in 1..Len(x(k + 1)) : O(k + 1)[Len(O(k)) + i] = x(k + 1)[i]
             /\ \A i \in 1..Len(O(k)) : O(k + 1)[i] = O(k)[i]
             /\ Len(O(k)) <= Len(O(k + 1))
  <2> DEFINE a == O(k) b == x(k + 1) c == O(k + 1)
  <2>1. k \in 0..L BY <1>0
  <2>2. a \in Seq(Nat) /\ b \in Seq(Nat) /\ Len(a) \in Nat /\ Len(b) \in Nat BY <1>2, <1>3, <2>1
  <2>3. c = a \o b BY <1>1
  <2> HIDE DEF a, b, c
  <2>4. /\ Len(a \o b) = Len(a) + Len(b)
        /\ \A i \in 1..Len(a) + Len(b) : (a \o b)[i] = IF i <= Len(a) THEN a[i] ELSE b[i - Len(a)]
    BY <2>2, Joined
  <2>5. Len(c) = Len(a) + Len(b) BY <2>3, <2>4, Zenon
  <2>6. \A i \in 1..Len(a) + Len(b) : c[i] = IF i <= Len(a) THEN a[i] ELSE b[i - Len(a)]
    BY <2>3, <2>4, Zenon
  <2>7. \A i \in 1..Len(b) : c[Len(a) + i] = b[i]
    <3> SUFFICES ASSUME NEW i \in 1..Len(b) PROVE c[Len(a) + i] = b[i] OBVIOUS
    <3>1. Len(a) + i \in 1..Len(a) + Len(b) /\ ~(Len(a) + i <= Len(a)) /\ (Len(a) + i) - Len(a) = i
      BY <2>2
    <3> QED BY <2>6, <3>1
  <2>8. \A i \in 1..Len(a) : c[i] = a[i]
    <3> SUFFICES ASSUME NEW i \in 1..Len(a) PROVE c[i] = a[i] OBVIOUS
    <3>1. i \in 1..Len(a) + Len(b) /\ i <= Len(a) BY <2>2
    <3> QED BY <2>6, <3>1
  <2>9. Len(a) <= Len(c) BY <2>2, <2>5
  <2> QED BY <2>5, <2>7, <2>8, <2>9, Zenon DEF a, b, c
<1>5. ASSUME NEW k \in 0..L PROVE InFront(list, k, L)
  <2> DEFINE Same(m) == /\ Len(O(k)) <= Len(O(m))
                        /\ \A i \in 1..Len(O(k)) : O(m)[i] = O(k)[i]
             T == {j \in Nat : k + j \in 0..L => Same(k + j)}
  <2>0. k \in Nat /\ Len(O(k)) \in Nat BY <1>0, <1>3
  <2>1. 0 \in T
    <3>1. k + 0 = k BY <2>0
    <3>2. Same(k) BY <2>0
    <3> HIDE DEF Same
    <3> QED BY <3>1, <3>2
  <2>2. ASSUME NEW j \in Nat, j \in T PROVE j + 1 \in T
    <3> DEFINE m == k + j
    <3> SUFFICES ASSUME k + (j + 1) \in 0..L PROVE Same(k + (j + 1)) OBVIOUS
    <3>1. m \in 0..L /\ m \in 0..L - 1 /\ k + (j + 1) = m + 1 BY <1>0, <2>0
    <3>2. Same(m) BY <2>2, <3>1
    <3> HIDE DEF m
    <3>3. /\ \A i \in 1..Len(O(m)) : O(m + 1)[i] = O(m)[i]
          /\ Len(O(m)) <= Len(O(m + 1))
      BY <1>4, <3>1
    <3>4. Len(O(m)) \in Nat /\ Len(O(m + 1)) \in Nat
      <4>1. m + 1 \in 0..L BY <1>0, <3>1
      <4> QED BY <1>3, <3>1, <4>1
    <3>5. \A i \in 1..Len(O(k)) : i \in 1..Len(O(m)) BY <2>0, <3>2, <3>4
    <3>6. Len(O(k)) <= Len(O(m + 1)) BY <2>0, <3>2, <3>3, <3>4
    <3>7. \A i \in 1..Len(O(k)) : O(m + 1)[i] = O(k)[i] BY <3>2, <3>3, <3>5
    <3>8. Same(m + 1) BY <3>6, <3>7
    <3> HIDE DEF Same
    <3> QED BY <3>1, <3>8
  <2>3. Nat \subseteq T
    <3> HIDE DEF T
    <3> QED BY <2>1, <2>2, SetInduction
  <2>4. L - k \in Nat /\ k + (L - k) = L /\ L \in 0..L BY <1>0, <2>0
  <2> HIDE DEF Same
  <2>5. Same(L) BY <2>3, <2>4
  <2> QED BY <2>5, Zenon DEF Same, InFront, O
<1> QED BY <1>3, <1>4, <1>5, Zenon DEF O, x, L

(* In what has arrived of the octets of a list, the octets of a value stand *)
(* behind those of the values in front of it.                               *)
LEMMA ValuesStand ==
  ASSUME NEW list \in Seq(ApplicationValue), NEW left \in Nat, left <= Len(DataOctets(list)),
         NEW k \in 0..Len(list), Len(OctetsTo(list, k)) <= left
  PROVE  /\ SubSeq(DataOctets(list), 1, left) \in Seq(Nat)
         /\ Place(SubSeq(DataOctets(list), 1, left), 1 + Len(OctetsTo(list, k)),
                  left - Len(OctetsTo(list, k)))
         /\ k < Len(list) =>
              Stands(OctetsOf(list[k + 1]), SubSeq(DataOctets(list), 1, left),
                     1 + Len(OctetsTo(list, k)))
<1> DEFINE L == Len(list) D == DataOctets(list) w == SubSeq(D, 1, left) p == Len(OctetsTo(list, k))
           d == OctetsOf(list[k + 1])
<1>0. L \in Nat /\ k \in Nat OBVIOUS
<1>1. OctetsTo(list, L) = D BY OctetsAreOctets, ValueBehindValues
<1>2. D \in Seq(Nat) /\ Len(D) \in Nat /\ p \in Nat
  <2>1. L \in 0..L BY <1>0
  <2>2. OctetsTo(list, L) \in Seq(Nat) /\ OctetsTo(list, k) \in Seq(Nat) BY <2>1, ValuesInOrder
  <2> QED BY <1>1, <2>2
<1>3. left <= Len(D) /\ p <= left OBVIOUS
<1> HIDE DEF D, p
<1>4. w \in Seq(Nat) /\ Len(w) = left /\ \A i \in 1..left : w[i] = D[i]
  BY <1>2, <1>3, SubSeqProperties
<1> HIDE DEF w
<1>5. Place(w, 1 + p, left - p) BY <1>2, <1>3, <1>4 DEF Place
<1>6. ASSUME k < L PROVE Stands(d, w, 1 + p)
  <2>1. k \in 0..L - 1 /\ k + 1 \in 0..L BY <1>0, <1>6
  <2>2. /\ Len(OctetsTo(list, k + 1)) = p + Len(d)
        /\ \A i \in 1..Len(d) : OctetsTo(list, k + 1)[p + i] = d[i]
    BY <2>1, ValuesInOrder, Zenon DEF p
  <2>3. \A i \in 1..Len(OctetsTo(list, k + 1)) : D[i] = OctetsTo(list, k + 1)[i]
    <3>1. InFront(list, k + 1, L) BY <2>1, ValuesInOrder
    <3> QED BY <1>1, <3>1, Zenon DEF InFront
  <2>4. Len(d) \in Nat
    <3>1. list[k + 1] \in ApplicationValue BY <1>0, <2>1
    <3> QED BY <3>1, OctetsAreOctets
  <2> HIDE DEF d
  <2> SUFFICES ASSUME NEW i \in 1..Len(d), (1 + p) + i - 1 <= Len(w)
               PROVE  w[(1 + p) + i - 1] = d[i]
    BY DEF Stands
  <2>5. (1 + p) + i - 1 = p + i /\ p + i \in 1..left /\ p + i \in 1..p + Len(d) BY <1>2, <1>4, <2>4
  <2>6. p + i \in 1..Len(OctetsTo(list, k + 1)) BY <2>2, <2>5
  <2>7. w[p + i] = D[p + i] BY <1>4, <2>5
  <2>8. D[p + i] = OctetsTo(list, k + 1)[p + i] BY <2>3, <2>6
  <2>9. OctetsTo(list, k + 1)[p + i] = d[i] BY <2>2
  <2> QED BY <2>5, <2>7, <2>8, <2>9
<1> QED BY <1>4, <1>5, <1>6, Zenon DEF w, D, p, d, L

(* The octets of a list that have arrived, and how many of its values are whole in them. *)
WholeTo(list, left, k) ==
  /\ k \in 0..Len(list) /\ Len(OctetsTo(list, k)) <= left
  /\ k < Len(list) => ~(Len(OctetsTo(list, k + 1)) <= left)
Arrived(list, left) == SubSeq(DataOctets(list), 1, left)

(* Of the octets that have arrived of a list, the values that are whole are *)
(* read as they were written, and nothing of the rest.                      *)
THEOREM ValuesAreRead ==
  ASSUME NEW list \in Seq(ApplicationValue), NEW left \in Nat, left <= Len(DataOctets(list))
  PROVE  \E k : WholeTo(list, left, k) /\ bacapp_decode_list(Arrived(list, left)) = SubSeq(list, 1, k)
<1> DEFINE L == Len(list) P(k) == Len(OctetsTo(list, k)) w == Arrived(list, left)
           x(k) == OctetsOf(list[k])
<1>0. L \in Nat OBVIOUS
<1>1. \A k \in 0..L : P(k) \in Nat
  <2>1. \A k \in 0..L : OctetsTo(list, k) \in Seq(Nat) BY ValuesInOrder
  <2> QED BY <2>1
<1>2. \A k \in 0..L - 1 : P(k + 1) = P(k) + Len(x(k + 1)) BY ValuesInOrder, Zenon
<1>3. P(0) = 0
  <2>1. OctetsTo(list, 0) = <<>> BY OctetsAreOctets, ValueBehindValues
  <2> QED BY <2>1
<1>4. left <= P(L)
  <2>1. OctetsTo(list, L) = DataOctets(list) BY OctetsAreOctets, ValueBehindValues
  <2> QED BY <2>1
<1>5. ASSUME NEW k \in 0..L, P(k) <= left
      PROVE  /\ w \in Seq(Nat) /\ Place(w, 1 + P(k), left - P(k))
             /\ k < L => Stands(x(k + 1), w, 1 + P(k))
  BY <1>5, ValuesStand, Zenon DEF Arrived
<1> HIDE DEF P, w, x, L
<1>6. \E k : WholeTo(list, left, k)
  <2> SUFFICES ASSUME \A k : ~WholeTo(list, left, k) PROVE FALSE OBVIOUS
  <2> DEFINE T == {k \in Nat : k \in 0..L => P(k) <= left}
  <2>1. 0 \in T BY <1>3
  <2>2. ASSUME NEW k \in Nat, k \in T PROVE k + 1 \in T
    <3> SUFFICES ASSUME k + 1 \in 0..L PROVE P(k + 1) <= left OBVIOUS
    <3>1. k \in 0..L /\ k < L BY <1>0
    <3>2. P(k) <= left BY <2>2, <3>1
    <3>3. ~WholeTo(list, left, k) OBVIOUS
    <3> QED BY <3>1, <3>2, <3>3, Zenon DEF WholeTo, P, L
  <2>3. Nat \subseteq T
    <3> HIDE DEF T
    <3> QED BY <2>1, <2>2, SetInduction
  <2>4. L \in 0..L /\ ~(L < L) /\ P(L) <= left BY <1>0, <2>3
  <2>5. WholeTo(list, left, L) BY <2>4, Zenon DEF WholeTo, P, L
  <2> QED BY <2>5
<1>7. PICK k : WholeTo(list, left, k) BY <1>6
<1>8. k \in 0..L /\ P(k) <= left /\ (k < L => ~(P(k + 1) <= left))
  BY <1>7, Zenon DEF WholeTo, P, L
<1>9. w \in Seq(Nat) BY <1>5, <1>8
<1>10. PICK F : ReadsFrom(w, F) BY <1>9, ListIsRead
<1>11. /\ bacapp_decode_list(w) = F[1]
       /\ \A at \in Nat : F[at] = IF SafeValue(w, at).ok
                                  THEN <<SafeValue(w, at).value>> \o F[at + SafeValue(w, at).len]
                                  ELSE <<>>
  BY <1>10, Zenon DEF ReadsFrom
<1>12. ASSUME NEW i \in 0..L, i < L, P(i) <= left
       PROVE  /\ ReadValue(w, 1 + P(i), left - P(i), x(i + 1), list[i + 1])
              /\ Len(x(i + 1)) \in Nat /\ P(i + 1) = P(i) + Len(x(i + 1))
  <2>1. i \in 0..L - 1 /\ i + 1 \in 1..L BY <1>0, <1>12
  <2>2. Place(w, 1 + P(i), left - P(i)) /\ Stands(x(i + 1), w, 1 + P(i)) BY <1>5, <1>12
  <2>3. list[i + 1] \in ApplicationValue BY <2>1 DEF L
  <2>4. Stands(OctetsOf(list[i + 1]), w, 1 + P(i)) BY <2>2, Zenon DEF x
  <2>5. /\ ReadValue(w, 1 + P(i), left - P(i), OctetsOf(list[i + 1]), list[i + 1])
        /\ Len(OctetsOf(list[i + 1])) \in Nat
    BY <2>2, <2>3, <2>4, ValueRead
  <2> QED BY <1>2, <2>1, <2>5, Zenon DEF x
<1>13. F[1 + P(k)] = <<>>
  <2>1. P(k) \in Nat /\ 1 + P(k) \in Nat BY <1>1, <1>8
  <2>2. ~SafeValue(w, 1 + P(k)).ok
    <3>1. CASE k < L
      <4>1. /\ ReadValue(w, 1 + P(k), left - P(k), x(k + 1), list[k + 1])
            /\ Len(x(k + 1)) \in Nat /\ P(k + 1) = P(k) + Len(x(k + 1))
        BY <1>8, <1>12, <3>1
      <4>2. left - P(k) < Len(x(k + 1)) BY <1>8, <2>1, <3>1, <4>1
      <4> QED BY <4>1, <4>2 DEF ReadValue
    <3>2. CASE ~(k < L)
      <4>1. k = L BY <1>0, <1>8, <3>2
      <4>2. left - P(k) = 0
        <5>1. left <= P(k) /\ P(k) <= left BY <1>4, <1>8, <4>1
        <5> QED BY <2>1, <5>1
      <4>3. Place(w, 1 + P(k), 0) BY <1>5, <1>8, <4>2
      <4> QED BY <4>3, ValueBehind
    <3> QED BY <3>1, <3>2
  <2> QED BY <1>11, <2>1, <2>2
<1> DEFINE Rest(i) == F[1 + P(i)] = SubSeq(list, i + 1, k)
           T == {j \in Nat : k - j \in 0..L => Rest(k - j)}
<1>14. 0 \in T
  <2>1. k \in Int /\ k - 0 = k /\ k < k + 1 /\ k + 1 \in Int BY <1>0, <1>8
  <2>2. SubSeq(list, k + 1, k) = <<>> BY <2>1, SubSeqEmpty
  <2>3. Rest(k - 0) BY <1>13, <2>1, <2>2
  <2> HIDE DEF Rest
  <2> QED BY <2>3
<1>15. ASSUME NEW j \in Nat, j \in T PROVE j + 1 \in T
  <2> DEFINE i == k - (j + 1)
  <2> SUFFICES ASSUME i \in 0..L PROVE Rest(i) OBVIOUS
  <2>1. i + 1 = k - j /\ i + 1 \in 0..L /\ i \in Nat /\ i < L /\ i + 1 \in 1..L /\ k \in (i + 1)..L /\ i + 1 <= k
    BY <1>0, <1>8
  <2>2. Rest(i + 1)
    <3> HIDE DEF Rest
    <3> QED BY <1>15, <2>1
  <2> HIDE DEF i
  <2>3. P(i + 1) <= left /\ P(i) <= left /\ P(i) \in Nat /\ P(i + 1) \in Nat
    <3>1. P(i) \in Nat /\ P(i + 1) \in Nat BY <1>1, <2>1
    <3>2. \A a, b \in 0..L : a <= b => P(a) <= P(b)
      <4> DEFINE U == {n \in Nat : \A a \in 0..L : a + n \in 0..L => P(a) <= P(a + n)}
      <4>1. 0 \in U
        <5> SUFFICES ASSUME NEW a \in 0..L PROVE P(a) <= P(a + 0) OBVIOUS
        <5>1. a + 0 = a BY <1>0
        <5>2. P(a) \in Nat BY <1>1
        <5> QED BY <5>1, <5>2
      <4>2. ASSUME NEW n \in Nat, n \in U PROVE n + 1 \in U
        <5> SUFFICES ASSUME NEW a \in 0..L, a + (n + 1) \in 0..L PROVE P(a) <= P(a + (n + 1)) OBVIOUS
        <5>1. /\ a + n \in 0..L /\ a + n \in 0..L - 1 /\ a + (n + 1) = (a + n) + 1
              /\ (a + n) + 1 \in 1..L
          BY <1>0
        <5>2. P(a) <= P(a + n) BY <4>2, <5>1
        <5>3. P((a + n) + 1) = P(a + n) + Len(x((a + n) + 1)) BY <1>2, <5>1
        <5>4. Len(x((a + n) + 1)) \in Nat
          <6>1. list[(a + n) + 1] \in ApplicationValue BY <5>1 DEF L
          <6> QED BY <6>1, OctetsAreOctets DEF x
        <5>5. P(a) \in Nat /\ P(a + n) \in Nat BY <1>1, <5>1
        <5> QED BY <5>1, <5>2, <5>3, <5>4, <5>5
      <4>3. Nat \subseteq U
        <5> HIDE DEF U
        <5> QED BY <4>1, <4>2, SetInduction
      <4> SUFFICES ASSUME NEW a \in 0..L, NEW b \in 0..L, a <= b PROVE P(a) <= P(b) OBVIOUS
      <4>4. b - a \in Nat /\ a + (b - a) = b BY <1>0
      <4> QED BY <4>3, <4>4
    <3>3. P(i) <= P(i + 1) /\ P(i + 1) <= P(k)
      <4>1. i \in 0..L /\ i <= i + 1 BY <1>0, <2>1
      <4> QED BY <1>8, <2>1, <3>2, <4>1
    <3>4. P(k) \in Nat BY <1>1, <1>8
    <3> QED BY <1>8, <3>1, <3>3, <3>4
  <2>4. /\ ReadValue(w, 1 + P(i), left - P(i), x(i + 1), list[i + 1])
        /\ Len(x(i + 1)) \in Nat /\ P(i + 1) = P(i) + Len(x(i + 1))
    <3>1. i \in 0..L BY <1>0, <2>1
    <3> QED BY <1>12, <2>1, <2>3, <3>1
  <2>5. left - P(i) >= Len(x(i + 1)) BY <2>3, <2>4
  <2> DEFINE at == 1 + P(i) len == Len(x(i + 1)) v == list[i + 1]
  <2>6. SafeValue(w, at) = [len |-> len, value |-> v, ok |-> TRUE]
    BY <2>4, <2>5, Zenon DEF ReadValue
  <2>7. at \in Nat /\ at + len = 1 + P(i + 1) BY <2>3, <2>4
  <2> HIDE DEF at, len, v
  <2>8. SafeValue(w, at).ok /\ SafeValue(w, at).value = v /\ SafeValue(w, at).len = len BY <2>6
  <2>9. F[at] = IF SafeValue(w, at).ok
                THEN <<SafeValue(w, at).value>> \o F[at + SafeValue(w, at).len] ELSE <<>>
    BY <1>11, <2>7
  <2>10. F[at] = <<v>> \o F[1 + P(i + 1)] BY <2>7, <2>8, <2>9, Zenon
  <2>11. F[1 + P(i + 1)] = SubSeq(list, (i + 1) + 1, k) BY <2>2, Zenon
  <2>12. SubSeq(list, i + 1, k) = <<list[i + 1]>> \o SubSeq(list, (i + 1) + 1, k)
    <3>1. i + 1 \in 1..Len(list) /\ k \in (i + 1)..Len(list) BY <2>1, Zenon DEF L
    <3> QED BY <3>1, SubSeqRecursiveFirst
  <2> QED BY <2>10, <2>11, <2>12, Zenon DEF Rest, at, v
<1>16. Nat \subseteq T
  <2> HIDE DEF T
  <2> QED BY <1>14, <1>15, SetInduction
<1>17. Rest(0)
  <2>1. k \in Nat /\ k - k = 0 /\ 0 \in 0..L BY <1>0, <1>8
  <2> HIDE DEF Rest
  <2> QED BY <1>16, <2>1
<1>18. bacapp_decode_list(w) = SubSeq(list, 1, k)
  <2>1. 1 + P(0) = 1 /\ 0 + 1 = 1 BY <1>3
  <2> QED BY <1>11, <1>17, <2>1, Zenon
<1> QED BY <1>7, <1>18, Zenon DEF w

(* A list is sent, and read of what has arrived of it. *)
OfValues(s, w, r, list, left) ==
  /\ s = <<"values", list>> /\ left <= Len(DataOctets(list)) /\ w = Arrived(list, left)
  /\ r = Idle \/ r = <<"values", bacapp_decode_list(w)>>
ValuesInv ==
  /\ sent = Idle => read = Idle
  /\ sent[1] = "values" =>
       \E list \in Lists, left \in Nat : OfValues(sent, wire, read, list, left)

(* All the octets of a list, and some of what has arrived. *)
LEMMA ArrivedOf ==
  ASSUME NEW list \in Lists
  PROVE  /\ list \in Seq(ApplicationValue) /\ Len(DataOctets(list)) \in Nat
         /\ DataOctets(list) = Arrived(list, Len(DataOctets(list)))
<1>1. list \in Seq(ApplicationValue) BY ValuesAssumption
<1>2. DataOctets(list) \in Seq(Nat)
  <2>1. Len(list) \in 0..Len(list) BY <1>1
  <2>2. OctetsTo(list, Len(list)) \in Seq(Nat) BY <1>1, <2>1, ValuesInOrder
  <2>3. OctetsTo(list, Len(list)) = DataOctets(list) BY <1>1, OctetsAreOctets, ValueBehindValues
  <2> QED BY <2>2, <2>3
<1>3. DataOctets(list) = Arrived(list, Len(DataOctets(list))) BY <1>2, SubSeqFull DEF Arrived
<1> QED BY <1>1, <1>2, <1>3

(* From a list of values that lost its end, the values that are whole are   *)
(* read as they were sent, and nothing is made of the rest.                 *)
THEOREM WholeValuesAreReadHolds == CodecSpec => []WholeValuesAreRead
<1>1. CodecInit => ValuesInv
  <2>1. Idle[1] = "idle" BY DEF Idle
  <2> QED BY <2>1 DEF CodecInit, ValuesInv
<1>2. ASSUME ValuesInv, [CodecNext]_codecVars PROVE ValuesInv'
  <2>1. ASSUME NEW m \in Messages, NEW route \in Routes, SendMessage(m, route) PROVE ValuesInv'
    BY <2>1 DEF SendMessage, ValuesInv, Idle
  <2>2. CASE Receive
    <3>1. sent' = sent /\ sent[1] # "values" /\ sent # Idle BY <2>2 DEF Receive, Idle
    <3> QED BY <3>1 DEF ValuesInv
  <2>3. ASSUME NEW list \in Lists, SendValues(list) PROVE ValuesInv'
    <3>0. read = Idle BY <1>2, <2>3 DEF ValuesInv, SendValues
    <3> DEFINE n == Len(DataOctets(list))
    <3>1. n \in Nat /\ DataOctets(list) = Arrived(list, n) BY ArrivedOf
    <3> HIDE DEF n
    <3>2. OfValues(sent', wire', read', list, n)
      <4>1. sent' = <<"values", list>> /\ wire' = DataOctets(list) /\ read' = Idle
        BY <2>3, <3>0 DEF SendValues
      <4>2. n <= Len(DataOctets(list)) BY <3>1 DEF n
      <4> QED BY <3>1, <4>1, <4>2 DEF OfValues
    <3>3. sent' # Idle BY <2>3 DEF SendValues, Idle
    <3> QED BY <3>1, <3>2, <3>3 DEF ValuesInv
  <2>4. ASSUME NEW left \in 0..MAX_APDU, CutOff(left) PROVE ValuesInv'
    <3>1. /\ sent' = sent /\ read' = read /\ sent[1] = "values" /\ read = Idle
          /\ wire = DataOctets(sent[2]) /\ left < Len(wire) /\ wire' = SubSeq(wire, 1, left)
      BY <2>4 DEF CutOff
    <3>2. PICK list \in Lists, n \in Nat : OfValues(sent, wire, read, list, n)
      BY <1>2, <3>1 DEF ValuesInv
    <3>3. sent = <<"values", list>> /\ sent[2] = list BY <3>2 DEF OfValues
    <3>4. left \in Nat
      <4>1. MAX_APDU \in Nat BY ValuesAssumption
      <4> QED BY <4>1
    <3>5. left <= Len(DataOctets(list))
      <4>1. Len(DataOctets(list)) \in Nat BY ArrivedOf
      <4> QED BY <3>1, <3>3, <3>4, <4>1
    <3>6. wire' = Arrived(list, left) BY <3>1, <3>3 DEF Arrived
    <3>7. OfValues(sent', wire', read', list, left) BY <3>1, <3>3, <3>5, <3>6 DEF OfValues
    <3>8. sent # Idle BY <3>1 DEF Idle
    <3> QED BY <3>1, <3>4, <3>7, <3>8 DEF ValuesInv
  <2>5. CASE ReadValues
    <3>1. /\ sent' = sent /\ wire' = wire /\ sent[1] = "values"
          /\ read' = <<"values", bacapp_decode_list(wire)>>
      BY <2>5 DEF ReadValues
    <3>2. PICK list \in Lists, n \in Nat : OfValues(sent, wire, read, list, n)
      BY <1>2, <3>1 DEF ValuesInv
    <3>3. OfValues(sent', wire', read', list, n) BY <3>1, <3>2 DEF OfValues
    <3>4. sent # Idle BY <3>1 DEF Idle
    <3> QED BY <3>1, <3>3, <3>4 DEF ValuesInv
  <2>6. ASSUME NEW n \in TagNumbers, NEW o \in Brackets, SendEnclosed(n, o)
        PROVE  ValuesInv'
    BY <2>6 DEF SendEnclosed, ValuesInv, Idle
  <2>7. CASE ReadEnclosed
    <3>1. sent' = sent /\ sent[1] # "values" /\ sent # Idle BY <2>7 DEF ReadEnclosed, Idle
    <3> QED BY <3>1 DEF ValuesInv
  <2>8. ASSUME NEW at \in Clocks, SetClock(at) PROVE ValuesInv'
    BY <2>8 DEF SetClock, ValuesInv, Idle
  <2>9. ASSUME NEW minutes \in Minutes, AddMinutes(minutes) PROVE ValuesInv'
    BY <2>9 DEF AddMinutes, ValuesInv, Idle
  <2>10. CASE Clear BY <2>10 DEF Clear, Idle, ValuesInv
  <2>11. CASE UNCHANGED codecVars BY <1>2, <2>11 DEF codecVars, ValuesInv
  <2> QED BY <1>2, <2>1, <2>2, <2>3, <2>4, <2>5, <2>6, <2>7, <2>8, <2>9, <2>10, <2>11
          DEF CodecNext
<1>3. ValuesInv => WholeValuesAreRead
  <2> SUFFICES ASSUME ValuesInv, sent[1] = "values", read # Idle
               PROVE  WholeValuesAreRead
    BY DEF WholeValuesAreRead
  <2>1. PICK list \in Lists, left \in Nat : OfValues(sent, wire, read, list, left) BY DEF ValuesInv
  <2>2. /\ sent[2] = list /\ left <= Len(DataOctets(list)) /\ wire = Arrived(list, left)
        /\ read[2] = bacapp_decode_list(wire)
    BY <2>1 DEF OfValues
  <2>3. list \in Seq(ApplicationValue) /\ Len(DataOctets(list)) \in Nat /\ Len(list) \in Nat BY ArrivedOf
  <2>4. PICK k : WholeTo(list, left, k) /\ bacapp_decode_list(Arrived(list, left)) = SubSeq(list, 1, k)
    BY <2>2, <2>3, ValuesAreRead
  <2>5. Len(wire) = left
    <3>1. Len(list) \in 0..Len(list) BY <2>3
    <3>2. OctetsTo(list, Len(list)) = DataOctets(list) /\ OctetsTo(list, Len(list)) \in Seq(Nat)
      BY <2>3, <3>1, OctetsAreOctets, ValueBehindValues, ValuesInOrder
    <3>3. DataOctets(list) \in Seq(Nat) BY <3>2
    <3> QED BY <2>2, <2>3, <3>3, SubSeqProperties DEF Arrived
  <2> DEFINE whole == {n \in 0..Len(list) : Len(DataOctets(SubSeq(list, 1, n))) <= Len(wire)}
  <2>6. k \in whole /\ k + 1 \notin whole
    <3>1. /\ k \in 0..Len(list) /\ Len(DataOctets(SubSeq(list, 1, k))) <= left
          /\ k < Len(list) => ~(Len(DataOctets(SubSeq(list, 1, k + 1))) <= left)
      BY <2>4 DEF WholeTo, OctetsTo, FirstValues
    <3>2. k + 1 \in 0..Len(list) => k < Len(list) BY <2>3, <3>1
    <3> QED BY <2>5, <3>1, <3>2
  <2>7. read[2] = SubSeq(list, 1, k) BY <2>2, <2>4
  <2> HIDE DEF whole
  <2>8. \E n \in whole : n + 1 \notin whole /\ read[2] = SubSeq(list, 1, n) BY <2>6, <2>7
  <2> QED BY <2>2, <2>8, Zenon DEF WholeValuesAreRead, whole
<1> QED BY <1>1, <1>2, <1>3, PTL DEF CodecSpec
=============================================================================
