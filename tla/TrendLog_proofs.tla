-------------------------- MODULE TrendLog_proofs --------------------------
(***************************************************************************)
(* Proofs about the trend log, for every size of its buffer, every number  *)
(* of sequence numbers and every configuration that requests can leave:    *)
(* the ring and its counters show a log of the latest records, and a log   *)
(* that polls does not fall asleep.                                        *)
(***************************************************************************)
EXTENDS TrendLog, TLAPS, SequenceTheorems, FiniteSetTheorems, WellFoundedInduction

----------------------------------------------------------------------------
(* Logs.                                                                   *)

Cells == 0 .. TL_MAX_ENTRIES - 1

LogInfo ==
    [Enable : BOOLEAN, Stop_When_Full : BOOLEAN, Trigger : BOOLEAN,
     Align_Intervals : BOOLEAN,
     Logging_Type : {"POLLED", "TRIGGERED", "NO_TYPE"},
     Start_Time : Int, Stop_Time : Int,
     Source : {<<"REFERENCE", "ANALOG_INPUT">>, <<"REFERENCE", "DEVICE">>},
     Log_Interval : Nat, Interval_Offset : Nat, Index : Cells,
     Record_Count : 0 .. TL_MAX_ENTRIES,
     Total_Record_Count : 0 .. SEQUENCES - 1, Last_Data_Time : Nat]

(* The next place of a ring that is not full is after its last record, and *)
(* a log that polls has an interval to divide by.                          *)
InfoOK(o) ==
    /\ o \in LogInfo
    /\ o.Record_Count < TL_MAX_ENTRIES => o.Index = o.Record_Count
    /\ o.Logging_Type = "POLLED" => o.Log_Interval > 0

IsLog(l) ==
    /\ l = [info |-> l.info, ring |-> l.ring]
    /\ InfoOK(l.info)
    /\ DOMAIN l.ring = Cells

(* What is read of a log by position.                                      *)
View(l) == [p \in 1 .. l.info.Record_Count |-> Entry(l, p)]

----------------------------------------------------------------------------
(* The ring.                                                               *)

LEMMA MinOfTwo ==
    ASSUME NEW a \in Int, NEW b \in Int
    PROVE  Min({a, b}) = IF a <= b THEN a ELSE b
<1>1. \E x \in {a, b} : \A y \in {a, b} : x <= y
  OBVIOUS
<1>2. Min({a, b}) \in {a, b} /\ \A y \in {a, b} : Min({a, b}) <= y
  BY <1>1 DEF Min
<1>3. QED
  BY <1>2

LEMMA MaxOfTwo ==
    ASSUME NEW a \in Int, NEW b \in Int
    PROVE  Max({a, b}) = IF a >= b THEN a ELSE b
<1>1. \E x \in {a, b} : \A y \in {a, b} : x >= y
  OBVIOUS
<1>2. Max({a, b}) \in {a, b} /\ \A y \in {a, b} : Max({a, b}) >= y
  BY <1>1 DEF Max
<1>3. QED
  BY <1>2

(* Places in the ring wrap at most once.                                   *)
LEMMA Wraps ==
    ASSUME NEW a \in 0 .. 2 * TL_MAX_ENTRIES - 1
    PROVE  /\ a % TL_MAX_ENTRIES =
                IF a < TL_MAX_ENTRIES THEN a ELSE a - TL_MAX_ENTRIES
           /\ a % TL_MAX_ENTRIES \in Cells
<1> USE TrendLogConstants
<1>1. CASE a < TL_MAX_ENTRIES
  <2>1. a % TL_MAX_ENTRIES = a
    BY <1>1
  <2>2. QED
    BY <1>1, <2>1 DEF Cells
<1>2. CASE a >= TL_MAX_ENTRIES
  <2>1. a \in TL_MAX_ENTRIES .. 2 * TL_MAX_ENTRIES - 1
    BY <1>2
  <2>2. a % TL_MAX_ENTRIES = a - TL_MAX_ENTRIES
    BY <2>1
  <2>3. QED
    BY <2>1, <2>2 DEF Cells
<1>3. QED
  BY <1>1, <1>2

(* Where a position is in the ring: index is the place for the next record *)
(* and count the number of records.                                        *)
Spot(index, count, p) ==
    LET start == IF count < TL_MAX_ENTRIES THEN 0 ELSE index
        a == start + p - 1
    IN  IF a < TL_MAX_ENTRIES THEN a ELSE a - TL_MAX_ENTRIES

Place(o, p) == Spot(o.Index, o.Record_Count, p)

(* A record more: the last position is where the next record was to be,    *)
(* and those before it are where they were.                                *)
LEMMA Spots ==
    ASSUME NEW i \in Cells, NEW n \in 0 .. TL_MAX_ENTRIES,
           n < TL_MAX_ENTRIES => i = n,
           NEW j, NEW m,
           m = IF n < TL_MAX_ENTRIES THEN n + 1 ELSE TL_MAX_ENTRIES,
           j = IF i + 1 < TL_MAX_ENTRIES THEN i + 1 ELSE 0
    PROVE  /\ Spot(j, m, m) = i
           /\ \A p \in 1 .. m : p < m =>
                LET q == IF n < TL_MAX_ENTRIES THEN p ELSE p + 1
                IN  /\ q \in 1 .. n
                    /\ Spot(j, m, p) = Spot(i, n, q)
                    /\ Spot(i, n, q) \in Cells /\ Spot(i, n, q) # i
<1> USE TrendLogConstants
<1>1. CASE n < TL_MAX_ENTRIES
  <2>1. m = n + 1 /\ i = n
    BY <1>1
  <2>2. Spot(j, m, m) = i
    BY <1>1, <2>1 DEF Spot, Cells
  <2>3. ASSUME NEW p \in 1 .. m, p < m
        PROVE  /\ p \in 1 .. n
               /\ Spot(j, m, p) = p - 1 /\ Spot(i, n, p) = p - 1
               /\ p - 1 \in Cells /\ p - 1 # i
    BY <1>1, <2>1, <2>3 DEF Spot, Cells
  <2>4. QED
    BY <1>1, <2>2, <2>3
<1>2. CASE n = TL_MAX_ENTRIES
  <2>1. m = n /\ m = TL_MAX_ENTRIES
    BY <1>2
  <2>2. Spot(j, m, m) = i
    BY <1>2, <2>1 DEF Spot, Cells
  <2>3. ASSUME NEW p \in 1 .. m, p < m
        PROVE  /\ p + 1 \in 1 .. n
               /\ Spot(j, m, p) = Spot(i, n, p + 1)
               /\ Spot(i, n, p + 1) \in Cells /\ Spot(i, n, p + 1) # i
    BY <1>2, <2>1, <2>3 DEF Spot, Cells
  <2>4. QED
    BY <1>2, <2>2, <2>3
<1>3. QED
  BY <1>1, <1>2

LEMMA EntryPlace ==
    ASSUME NEW l, IsLog(l), NEW p \in 1 .. l.info.Record_Count
    PROVE  Entry(l, p) = l.ring[Place(l.info, p)]
<1> DEFINE start == IF l.info.Record_Count < TL_MAX_ENTRIES THEN 0
                    ELSE l.info.Index
           a == start + p - 1
<1>1. a \in 0 .. 2 * TL_MAX_ENTRIES - 1
  <2>1. start \in Cells /\ l.info.Record_Count \in 0 .. TL_MAX_ENTRIES
    BY TrendLogConstants, SMTT(60) DEF IsLog, InfoOK, LogInfo, Cells
  <2> HIDE DEF start
  <2>2. QED
    BY <2>1, TrendLogConstants DEF Cells
<1> HIDE DEF a
<1>2. a % TL_MAX_ENTRIES = IF a < TL_MAX_ENTRIES THEN a ELSE a - TL_MAX_ENTRIES
  BY <1>1, Wraps
<1>3. Entry(l, p) = l.ring[a % TL_MAX_ENTRIES]
  BY DEF Entry, a
<1>4. Place(l.info, p) = IF a < TL_MAX_ENTRIES THEN a ELSE a - TL_MAX_ENTRIES
  BY Zenon DEF Place, Spot, a
<1>5. QED
  BY <1>2, <1>3, <1>4

(* A record goes into the place after the last one, and the counters with  *)
(* it.                                                                     *)
LEMMA InsertedLog ==
    ASSUME NEW l, IsLog(l), NEW record
    PROVE  LET new == Insert(l, record)
               o == l.info
               n == o.Record_Count
           IN  /\ IsLog(new)
               /\ new.ring = [l.ring EXCEPT ![o.Index] = record]
               /\ new.info.Record_Count =
                    IF n < TL_MAX_ENTRIES THEN n + 1 ELSE TL_MAX_ENTRIES
               /\ new.info.Index =
                    IF o.Index + 1 < TL_MAX_ENTRIES THEN o.Index + 1 ELSE 0
               /\ new.info = [o EXCEPT !.Index = new.info.Index,
                                !.Record_Count = new.info.Record_Count,
                                !.Total_Record_Count = new.info.Total_Record_Count]
<1> USE TrendLogConstants
<1> DEFINE o == l.info
           n == o.Record_Count
           new == Insert(l, record)
           i == (o.Index + 1) % TL_MAX_ENTRIES
           m == Min({n + 1, TL_MAX_ENTRIES})
           t == (o.Total_Record_Count + 1) % SEQUENCES
<1>1. o \in LogInfo /\ o.Index \in Cells /\ n \in 0 .. TL_MAX_ENTRIES
      /\ o.Total_Record_Count \in 0 .. SEQUENCES - 1
      /\ (n < TL_MAX_ENTRIES => o.Index = n)
  BY DEF IsLog, InfoOK, LogInfo
<1>2. i = IF o.Index + 1 < TL_MAX_ENTRIES THEN o.Index + 1 ELSE 0
  <2>1. o.Index + 1 \in 0 .. 2 * TL_MAX_ENTRIES - 1
    BY <1>1 DEF Cells
  <2> DEFINE a == o.Index + 1
  <2> HIDE DEF a
  <2>2. a % TL_MAX_ENTRIES =
            IF a < TL_MAX_ENTRIES THEN a ELSE a - TL_MAX_ENTRIES
    BY <2>1, Wraps DEF a
  <2>3. a < TL_MAX_ENTRIES \/ a = TL_MAX_ENTRIES
    BY <1>1 DEF Cells, a
  <2>4. TL_MAX_ENTRIES - TL_MAX_ENTRIES = 0
    OBVIOUS
  <2>5. QED
    BY <2>2, <2>3, <2>4 DEF a
<1>3. m = IF n < TL_MAX_ENTRIES THEN n + 1 ELSE TL_MAX_ENTRIES
  <2>1. n + 1 \in Int /\ TL_MAX_ENTRIES \in Int
    BY <1>1
  <2>2. m = IF n + 1 <= TL_MAX_ENTRIES THEN n + 1 ELSE TL_MAX_ENTRIES
    BY <2>1, MinOfTwo
  <2>3. QED
    BY <1>1, <2>2
<1>4. t \in 0 .. SEQUENCES - 1
  BY <1>1
<1>5. /\ new.info = [o EXCEPT !.Index = i, !.Total_Record_Count = t,
                              !.Record_Count = m]
      /\ new.ring = [l.ring EXCEPT ![o.Index] = record]
      /\ new = [info |-> new.info, ring |-> new.ring]
  BY DEF Insert
<1> HIDE DEF new, i, m, t
<1>6. new.info.Index = i /\ new.info.Record_Count = m
      /\ new.info.Total_Record_Count = t
      /\ new.info.Logging_Type = o.Logging_Type
      /\ new.info.Log_Interval = o.Log_Interval
  BY <1>1, <1>5 DEF LogInfo
<1>7. i \in Cells /\ m \in 0 .. TL_MAX_ENTRIES /\ (m < TL_MAX_ENTRIES => i = m)
  BY <1>1, <1>2, <1>3 DEF Cells
<1>8. new.info \in LogInfo
  BY <1>1, <1>4, <1>5, <1>7 DEF LogInfo
<1>9. InfoOK(new.info)
  BY <1>6, <1>7, <1>8 DEF InfoOK, IsLog
<1>10. DOMAIN new.ring = Cells
  BY <1>5 DEF IsLog
<1>11. IsLog(new)
  BY <1>5, <1>9, <1>10 DEF IsLog
<1>12. new.info = [o EXCEPT !.Index = new.info.Index,
                     !.Record_Count = new.info.Record_Count,
                     !.Total_Record_Count = new.info.Total_Record_Count]
  BY <1>1, <1>5, <1>6 DEF LogInfo
<1>13. QED
  BY <1>2, <1>3, <1>5, <1>6, <1>11, <1>12 DEF new

(* An insertion moves the ring on and leaves the configuration.            *)
LEMMA InsertedInfo ==
    ASSUME NEW l, IsLog(l), NEW record
    PROVE  LET new == Insert(l, record).info
           IN  new = [l.info EXCEPT !.Index = new.Index,
                        !.Record_Count = new.Record_Count,
                        !.Total_Record_Count = new.Total_Record_Count]
  BY InsertedLog, ZenonT(60)

(* What is read of a log by position is a sequence of its records.         *)
LEMMA ViewIs ==
    ASSUME NEW l, IsLog(l), NEW S,
           \A p \in 1 .. l.info.Record_Count : Entry(l, p) \in S
    PROVE  /\ View(l) \in Seq(S)
           /\ Len(View(l)) = l.info.Record_Count
           /\ \A p \in 1 .. l.info.Record_Count : View(l)[p] = Entry(l, p)
<1> DEFINE n == l.info.Record_Count
<1>1. n \in Nat
  BY TrendLogConstants DEF IsLog, InfoOK, LogInfo
<1>2. View(l) \in [1 .. n -> S]
  BY DEF View
<1>3. \A p \in 1 .. n : View(l)[p] = Entry(l, p)
  BY DEF View
<1> HIDE DEF n
<1>4. View(l) \in Seq(S) /\ Len(View(l)) = n
  BY <1>1, <1>2
<1>5. QED
  BY <1>3, <1>4 DEF n

(* A record that is put into the ring is shown after those before it, of   *)
(* which the oldest goes when there is no more room.                       *)
LEMMA InsertShows ==
    ASSUME NEW l, IsLog(l), NEW record
    PROVE  LET new == Insert(l, record)
           IN  /\ View(new) = Shown!Latest(Append(View(l), record))
               /\ Entry(new, new.info.Record_Count) = record
               /\ new.info.Record_Count \in 1 .. TL_MAX_ENTRIES
<1> USE TrendLogConstants
<1> DEFINE o == l.info
           n == o.Record_Count
           new == Insert(l, record)
           m == new.info.Record_Count
           S == {Entry(l, p) : p \in 1 .. n} \cup {record}
<1>1. /\ IsLog(new)
      /\ new.ring = [l.ring EXCEPT ![o.Index] = record]
      /\ m = IF n < TL_MAX_ENTRIES THEN n + 1 ELSE TL_MAX_ENTRIES
      /\ new.info.Index =
            IF o.Index + 1 < TL_MAX_ENTRIES THEN o.Index + 1 ELSE 0
  BY InsertedLog, ZenonT(60)
<1>2. /\ o.Index \in Cells /\ n \in 0 .. TL_MAX_ENTRIES
      /\ (n < TL_MAX_ENTRIES => o.Index = n)
      /\ DOMAIN l.ring = Cells
  BY DEF IsLog, InfoOK, LogInfo
<1> HIDE DEF new
<1>3. m \in 1 .. TL_MAX_ENTRIES
  BY <1>1, <1>2
<1>4. \A p \in 1 .. m : Entry(new, p) = new.ring[Place(new.info, p)]
  BY <1>1, EntryPlace
<1>5. \A p \in 1 .. n : Entry(l, p) = l.ring[Place(o, p)]
  BY EntryPlace
<1>6. Place(new.info, m) = o.Index
  BY <1>1, <1>2, Spots DEF Place
<1>7. Entry(new, m) = record
  BY <1>1, <1>2, <1>3, <1>4, <1>6
<1>8. ASSUME NEW p \in 1 .. m, p < m
      PROVE  LET q == IF n < TL_MAX_ENTRIES THEN p ELSE p + 1
             IN  /\ q \in 1 .. n
                 /\ Place(new.info, p) = Place(o, q)
                 /\ Place(o, q) \in Cells /\ Place(o, q) # o.Index
  <2> DEFINE i == o.Index
             j == new.info.Index
             q == IF n < TL_MAX_ENTRIES THEN p ELSE p + 1
  <2>1. Place(new.info, p) = Spot(j, m, p) /\ Place(o, q) = Spot(i, n, q)
    BY DEF Place
  <2> HIDE DEF m, n, j, i
  <2>2. /\ i \in Cells /\ n \in 0 .. TL_MAX_ENTRIES
        /\ n < TL_MAX_ENTRIES => i = n
        /\ m = IF n < TL_MAX_ENTRIES THEN n + 1 ELSE TL_MAX_ENTRIES
        /\ j = IF i + 1 < TL_MAX_ENTRIES THEN i + 1 ELSE 0
    BY <1>1, <1>2 DEF i, j, m, n
  <2>3. /\ q \in 1 .. n
        /\ Spot(j, m, p) = Spot(i, n, q)
        /\ Spot(i, n, q) \in Cells /\ Spot(i, n, q) # i
    <3>1. \A r \in 1 .. m : r < m =>
            LET to == IF n < TL_MAX_ENTRIES THEN r ELSE r + 1
            IN  /\ to \in 1 .. n
                /\ Spot(j, m, r) = Spot(i, n, to)
                /\ Spot(i, n, to) \in Cells /\ Spot(i, n, to) # i
      BY ONLY <2>2, Spots
    <3>2. QED
      BY <1>8, <3>1, Zenon
  <2>4. QED
    BY <2>1, <2>3 DEF i
<1>9. ASSUME NEW p \in 1 .. m, p < m
      PROVE  Entry(new, p) = Entry(l, IF n < TL_MAX_ENTRIES THEN p ELSE p + 1)
  <2> DEFINE q == IF n < TL_MAX_ENTRIES THEN p ELSE p + 1
  <2>1. /\ q \in 1 .. n /\ Place(new.info, p) = Place(o, q)
        /\ Place(o, q) \in Cells /\ Place(o, q) # o.Index
    BY <1>8, <1>9
  <2> HIDE DEF q
  <2>2. new.ring[Place(o, q)] = l.ring[Place(o, q)]
    BY <1>1, <1>2, <2>1
  <2>3. QED
    BY <1>4, <1>5, <2>1, <2>2 DEF q
<1> DEFINE s == Append(View(l), record)
<1>10. /\ View(l) \in Seq(S) /\ Len(View(l)) = n
       /\ \A p \in 1 .. n : View(l)[p] = Entry(l, p)
  <2>1. \A p \in 1 .. n : Entry(l, p) \in S
    OBVIOUS
  <2> HIDE DEF S
  <2>2. QED
    BY <2>1, ViewIs
<1>11. /\ s \in Seq(S) /\ Len(s) = n + 1 /\ s[n + 1] = record
       /\ \A p \in 1 .. n : s[p] = Entry(l, p)
  <2>1. record \in S
    OBVIOUS
  <2> HIDE DEF S
  <2>2. QED
    BY <1>2, <1>10, <2>1
<1>12. \A p \in 1 .. m : Entry(new, p) \in S
  <2>1. ASSUME NEW p \in 1 .. m, p < m PROVE Entry(new, p) \in S
    BY <1>2, <1>8, <1>9, <2>1
  <2>2. QED
    BY <1>3, <1>7, <2>1
<1>13. /\ View(new) \in Seq(S) /\ Len(View(new)) = m
       /\ \A p \in 1 .. m : View(new)[p] = Entry(new, p)
  <2> HIDE DEF S
  <2>1. QED
    BY <1>1, <1>12, ViewIs
<1> HIDE DEF S, s, n, m
<1>14. View(new) = Shown!Latest(s)
  <2>1. CASE n < TL_MAX_ENTRIES
    <3>1. Shown!Latest(s) = s
      BY <1>2, <1>11, <2>1 DEF Shown!Latest, n
    <3>2. m = n + 1
      BY <1>1, <2>1
    <3>3. \A p \in 1 .. m : View(new)[p] = s[p]
      <4>1. ASSUME NEW p \in 1 .. m, p < m PROVE View(new)[p] = s[p]
        BY <1>8, <1>9, <1>11, <1>13, <2>1, <4>1
      <4>2. View(new)[m] = s[m]
        BY <1>3, <1>7, <1>11, <1>13, <3>2
      <4>3. QED
        BY <1>3, <4>1, <4>2
    <3>4. QED
      BY <1>11, <1>13, <3>1, <3>2, <3>3, SeqEqual
  <2>2. CASE n = TL_MAX_ENTRIES
    <3>1. Shown!Latest(s) = Tail(s)
      BY <1>2, <1>11, <2>2 DEF Shown!Latest, n
    <3>2. m = n
      BY <1>1, <2>2
    <3>3. s # <<>>
      BY <1>11, <1>3, <3>2
    <3> DEFINE rest == Tail(s)
    <3>4. /\ rest \in Seq(S) /\ Len(rest) = n
          /\ \A p \in 1 .. n : rest[p] = s[p + 1]
      BY <1>11, <1>3, <3>2, <3>3, HeadTailProperties
    <3> HIDE DEF rest
    <3>5. \A p \in 1 .. m : View(new)[p] = rest[p]
      <4>1. ASSUME NEW p \in 1 .. m, p < m PROVE View(new)[p] = rest[p]
        <5>1. p + 1 \in 1 .. n /\ p \in 1 .. n
          BY <1>2, <2>2, <3>2, <4>1 DEF n
        <5>2. Entry(new, p) = Entry(l, p + 1)
          BY <1>9, <2>2, <4>1
        <5>3. QED
          BY <1>11, <1>13, <3>4, <5>1, <5>2
      <4>2. View(new)[m] = rest[m]
        BY <1>3, <1>7, <1>11, <1>13, <3>2, <3>4
      <4>3. QED
        BY <1>3, <4>1, <4>2
    <3>6. QED
      BY <1>13, <3>1, <3>2, <3>4, <3>5, SeqEqual DEF rest
  <2>3. QED
    BY <1>2, <2>1, <2>2 DEF n
<1>15. QED
  BY <1>3, <1>7, <1>14 DEF new, s, m

----------------------------------------------------------------------------
(* What requests do.                                                       *)

(* A configuration that leaves the counters alone.                         *)
Configured(o, new) ==
    /\ InfoOK(new)
    /\ new.Index = o.Index /\ new.Record_Count = o.Record_Count
    /\ new.Total_Record_Count = o.Total_Record_Count

SwitchedAlike(o, new, t) == TL_Is_Enabled(new, t) = TL_Is_Enabled(o, t)

(* A request leaves the records and the log as switched as it was; or it   *)
(* switches the log, and the last record says so; or it purges the log.    *)
Outcome(l, new, t) ==
    /\ IsLog(new)
    /\ \/ /\ new.ring = l.ring /\ Configured(l.info, new.info)
          /\ SwitchedAlike(l.info, new.info, t)
       \/ \E o : /\ Configured(l.info, o)
                 /\ new = TL_Insert_Status_Rec([l EXCEPT !.info = o],
                            IF TL_Is_Enabled(o, t) THEN {} ELSE {"LOG_DISABLED"}, t)
       \/ /\ new.info.Record_Count = 1 /\ SwitchedAlike(l.info, new.info, t)
          /\ Entry(new, 1).time = t

LEMMA Reconfigured ==
    ASSUME NEW l, IsLog(l), NEW o, InfoOK(o)
    PROVE  LET new == [l EXCEPT !.info = o]
           IN  IsLog(new) /\ new.info = o /\ new.ring = l.ring
<1>1. [l EXCEPT !.info = o] = [info |-> o, ring |-> l.ring]
  BY DEF IsLog
<1>2. QED
  BY <1>1 DEF IsLog

LEMMA UnchangedOutcome ==
    ASSUME NEW l, IsLog(l), NEW t
    PROVE  Outcome(l, l, t)
  BY DEF Outcome, IsLog, Configured, SwitchedAlike

LEMMA ConfiguredOutcome ==
    ASSUME NEW l, IsLog(l), NEW t, NEW o, Configured(l.info, o),
           SwitchedAlike(l.info, o, t)
    PROVE  Outcome(l, [l EXCEPT !.info = o], t)
  BY Reconfigured DEF Outcome, Configured

LEMMA StatusOutcome ==
    ASSUME NEW l, IsLog(l), NEW t, NEW o, Configured(l.info, o)
    PROVE  Outcome(l, TL_Insert_Status_Rec([l EXCEPT !.info = o],
                        IF TL_Is_Enabled(o, t) THEN {} ELSE {"LOG_DISABLED"}, t), t)
<1>1. IsLog([l EXCEPT !.info = o])
  BY Reconfigured DEF Configured
<1>2. IsLog(TL_Insert_Status_Rec([l EXCEPT !.info = o],
                IF TL_Is_Enabled(o, t) THEN {} ELSE {"LOG_DISABLED"}, t))
  BY <1>1, InsertedLog DEF TL_Insert_Status_Rec
<1>3. QED
  BY <1>2 DEF Outcome

LEMMA SwitchedOutcome ==
    ASSUME NEW l, IsLog(l), NEW t, NEW o, Configured(l.info, o)
    PROVE  Outcome(l, Switched(l, o, t), t)
<1>1. CASE TL_Is_Enabled(l.info, t) = TL_Is_Enabled(o, t)
  <2>1. Switched(l, o, t) = [l EXCEPT !.info = o]
    BY <1>1 DEF Switched
  <2>2. QED
    BY <1>1, <2>1, ConfiguredOutcome DEF SwitchedAlike
<1>2. CASE TL_Is_Enabled(l.info, t) # TL_Is_Enabled(o, t)
  <2>1. Switched(l, o, t) =
            TL_Insert_Status_Rec([l EXCEPT !.info = o],
                IF TL_Is_Enabled(o, t) THEN {} ELSE {"LOG_DISABLED"}, t)
    BY <1>2 DEF Switched
  <2>2. QED
    BY <2>1, StatusOutcome
<1>3. QED
  BY <1>1, <1>2

LEMMA PurgedLog ==
    ASSUME NEW l, IsLog(l), NEW t
    PROVE  /\ IsLog(Purged(l, t))
           /\ Purged(l, t).info.Record_Count = 1
           /\ Entry(Purged(l, t), 1).time = t
           /\ Purged(l, t).info =
                [l.info EXCEPT !.Index = Purged(l, t).info.Index,
                    !.Record_Count = 1,
                    !.Total_Record_Count = Purged(l, t).info.Total_Record_Count]
<1> DEFINE o == [l.info EXCEPT !.Record_Count = 0, !.Index = 0]
           new == Purged(l, t)
           record == [time |-> t, datum |-> <<"LOG_STATUS", {"BUFFER_PURGED"}>>,
                      status |-> {}]
<1>1. l.info \in LogInfo /\ l.info.Logging_Type = o.Logging_Type
      /\ l.info.Log_Interval = o.Log_Interval
  BY DEF IsLog, InfoOK, LogInfo
<1>2. o \in LogInfo
  <2>1. 0 \in Cells /\ 0 \in 0 .. TL_MAX_ENTRIES
    BY TrendLogConstants DEF Cells
  <2>2. QED
    BY <1>1, <2>1 DEF LogInfo
<1>3. InfoOK(o) /\ o.Record_Count = 0
  BY <1>1, <1>2 DEF InfoOK, IsLog, LogInfo
<1>4. Emptied(l) = [l EXCEPT !.info = o]
  BY DEF Emptied, IsLog
<1>5. IsLog(Emptied(l)) /\ Emptied(l).info = o
  BY <1>3, <1>4, Reconfigured
<1>6. new = Insert(Emptied(l), record)
  BY DEF Purged, TL_Insert_Status_Rec
<1> HIDE DEF new, record, o
<1>7. /\ IsLog(new) /\ new.info.Record_Count = 1
      /\ new.info = [o EXCEPT !.Index = new.info.Index,
                        !.Record_Count = new.info.Record_Count,
                        !.Total_Record_Count = new.info.Total_Record_Count]
      /\ Entry(new, 1) = record
  <2> DEFINE base == Emptied(l)
             after == Insert(base, record)
  <2>1. IsLog(base) /\ base.info = o
    BY <1>5
  <2> HIDE DEF base
  <2>2. /\ IsLog(after)
        /\ after.info.Record_Count =
                IF base.info.Record_Count < TL_MAX_ENTRIES
                THEN base.info.Record_Count + 1 ELSE TL_MAX_ENTRIES
        /\ after.info = [base.info EXCEPT !.Index = after.info.Index,
                            !.Record_Count = after.info.Record_Count,
                            !.Total_Record_Count = after.info.Total_Record_Count]
    BY <2>1, InsertedLog, ZenonT(60)
  <2>3. Entry(after, after.info.Record_Count) = record
    BY <2>1, InsertShows
  <2>4. new = after
    BY <1>6 DEF base
  <2> HIDE DEF after
  <2>5. new.info.Record_Count = 1
    BY <1>3, <2>1, <2>2, <2>4, TrendLogConstants
  <2>6. QED
    BY <2>1, <2>2, <2>3, <2>4, <2>5
<1>8. new.info = [l.info EXCEPT !.Index = new.info.Index,
                    !.Record_Count = 1,
                    !.Total_Record_Count = new.info.Total_Record_Count]
  BY <1>1, <1>7 DEF o, LogInfo
<1>9. record.time = t
  BY DEF record
<1>10. QED
  BY <1>7, <1>8, <1>9 DEF new

LEMMA PurgedAlike ==
    ASSUME NEW l, IsLog(l), NEW t
    PROVE  SwitchedAlike(l.info, Purged(l, t).info, t)
<1> DEFINE new == Purged(l, t).info
           o == l.info
<1>1. o \in LogInfo
  BY DEF IsLog, InfoOK
<1>2. new = [o EXCEPT !.Index = new.Index, !.Record_Count = 1,
                      !.Total_Record_Count = new.Total_Record_Count]
  BY PurgedLog, ZenonT(60)
<1> HIDE DEF new
<1>3. /\ new.Enable = o.Enable /\ new.Start_Time = o.Start_Time
      /\ new.Stop_Time = o.Stop_Time
  BY <1>1, <1>2 DEF LogInfo
<1>4. QED
  BY <1>3 DEF SwitchedAlike, TL_Is_Enabled, new

LEMMA PurgedOutcome ==
    ASSUME NEW l, IsLog(l), NEW t
    PROVE  Outcome(l, Purged(l, t), t)
  BY PurgedLog, PurgedAlike, ZenonT(60) DEF Outcome

(* Fields of a configuration that a request may set to anything.           *)
LEMMA PlainFields ==
    ASSUME NEW o, InfoOK(o), NEW b \in BOOLEAN, NEW m \in Int
    PROVE  /\ Configured(o, [o EXCEPT !.Enable = b])
           /\ Configured(o, [o EXCEPT !.Stop_When_Full = b])
           /\ Configured(o, [o EXCEPT !.Start_Time = m])
           /\ Configured(o, [o EXCEPT !.Stop_Time = m])
<1>1. o \in LogInfo
  BY DEF InfoOK
<1>2. Configured(o, [o EXCEPT !.Enable = b])
  BY <1>1 DEF Configured, InfoOK, LogInfo
<1>3. Configured(o, [o EXCEPT !.Stop_When_Full = b])
  BY <1>1 DEF Configured, InfoOK, LogInfo
<1>4. Configured(o, [o EXCEPT !.Start_Time = m])
  BY <1>1 DEF Configured, InfoOK, LogInfo
<1>5. Configured(o, [o EXCEPT !.Stop_Time = m])
  BY <1>1 DEF Configured, InfoOK, LogInfo
<1>6. QED
  BY <1>2, <1>3, <1>4, <1>5

(* Fields that have no say in whether the log is switched on.              *)
LEMMA QuietFields ==
    ASSUME NEW o, InfoOK(o), NEW t, NEW b \in BOOLEAN, NEW n \in Nat
    PROVE  /\ Configured(o, [o EXCEPT !.Trigger = b])
           /\ SwitchedAlike(o, [o EXCEPT !.Trigger = b], t)
           /\ Configured(o, [o EXCEPT !.Align_Intervals = b])
           /\ SwitchedAlike(o, [o EXCEPT !.Align_Intervals = b], t)
           /\ SwitchedAlike(o, [o EXCEPT !.Stop_When_Full = b], t)
           /\ Configured(o, [o EXCEPT !.Interval_Offset = n])
           /\ SwitchedAlike(o, [o EXCEPT !.Interval_Offset = n], t)
           /\ n > 0 => Configured(o, [o EXCEPT !.Log_Interval = n])
           /\ SwitchedAlike(o, [o EXCEPT !.Log_Interval = n], t)
<1>1. o \in LogInfo
  BY DEF InfoOK
<1>2. Configured(o, [o EXCEPT !.Trigger = b])
  BY <1>1 DEF Configured, InfoOK, LogInfo
<1>3. Configured(o, [o EXCEPT !.Align_Intervals = b])
  BY <1>1 DEF Configured, InfoOK, LogInfo
<1>4. Configured(o, [o EXCEPT !.Interval_Offset = n])
  BY <1>1 DEF Configured, InfoOK, LogInfo
<1>5. n > 0 => Configured(o, [o EXCEPT !.Log_Interval = n])
  BY <1>1 DEF Configured, InfoOK, LogInfo
<1>6. /\ SwitchedAlike(o, [o EXCEPT !.Trigger = b], t)
      /\ SwitchedAlike(o, [o EXCEPT !.Align_Intervals = b], t)
      /\ SwitchedAlike(o, [o EXCEPT !.Stop_When_Full = b], t)
      /\ SwitchedAlike(o, [o EXCEPT !.Interval_Offset = n], t)
      /\ SwitchedAlike(o, [o EXCEPT !.Log_Interval = n], t)
  BY <1>1 DEF SwitchedAlike, TL_Is_Enabled, LogInfo
<1>7. QED
  BY <1>2, <1>3, <1>4, <1>5, <1>6

(* A type of logging, with the interval that goes with it.                 *)
LEMMA TypedConfiguration ==
    ASSUME NEW o, InfoOK(o), NEW t,
           NEW type \in {"POLLED", "TRIGGERED", "NO_TYPE"}
    PROVE  Configured(o, Typed(o, type)) /\ SwitchedAlike(o, Typed(o, type), t)
<1>1. o \in LogInfo
  BY DEF InfoOK
<1>2. Typed(o, type) \in LogInfo
  <2> DEFINE n == CASE type = "POLLED" /\ o.Log_Interval = 0 -> 900
                    [] type = "TRIGGERED" -> 0
                    [] OTHER -> o.Log_Interval
  <2>1. n \in Nat
    <3>1. o.Log_Interval \in Nat
      BY <1>1 DEF LogInfo
    <3>2. QED
      BY <3>1
  <2>2. Typed(o, type) = [o EXCEPT !.Logging_Type = type, !.Log_Interval = n]
    BY <1>1 DEF Typed, LogInfo
  <2> HIDE DEF n
  <2>3. QED
    BY <1>1, <2>1, <2>2 DEF LogInfo
<1>3. type = "POLLED" => Typed(o, type).Log_Interval > 0
  BY <1>1 DEF Typed, LogInfo
<1>4. /\ Typed(o, type).Logging_Type = type
      /\ Typed(o, type).Index = o.Index
      /\ Typed(o, type).Record_Count = o.Record_Count
      /\ Typed(o, type).Total_Record_Count = o.Total_Record_Count
      /\ Typed(o, type).Enable = o.Enable
      /\ Typed(o, type).Start_Time = o.Start_Time
      /\ Typed(o, type).Stop_Time = o.Stop_Time
  BY <1>1 DEF Typed, LogInfo
<1>5. Configured(o, Typed(o, type))
  BY <1>2, <1>3, <1>4 DEF Configured, InfoOK
<1>6. QED
  BY <1>4, <1>5 DEF SwitchedAlike, TL_Is_Enabled

(* A log that is told to stop when it is full, and is full, is switched    *)
(* off.                                                                    *)
LEMMA StopWhenFullOutcome ==
    ASSUME NEW l, IsLog(l), NEW t, NEW b \in BOOLEAN
    PROVE  Outcome(l, WriteStopWhenFull(l, b, t).object, t)
<1> DEFINE o == l.info
           new == [o EXCEPT !.Stop_When_Full = b]
           off == [new EXCEPT !.Enable = FALSE]
<1>1. InfoOK(o)
  BY DEF IsLog
<1>2. Configured(o, new) /\ SwitchedAlike(o, new, t)
  BY <1>1, PlainFields, QuietFields, 0 \in Nat, 0 \in Int
<1>3. Configured(new, off)
  BY <1>2, PlainFields, 0 \in Int DEF Configured
<1>4. Configured(o, off)
  BY <1>2, <1>3 DEF Configured
<1>5. ~TL_Is_Enabled(off, t)
  BY <1>2 DEF Configured, InfoOK, LogInfo, TL_Is_Enabled
<1>6. \/ WriteStopWhenFull(l, b, t).object = [l EXCEPT !.info = new]
      \/ WriteStopWhenFull(l, b, t).object =
            TL_Insert_Status_Rec([l EXCEPT !.info = off], {"LOG_DISABLED"}, t)
  BY DEF WriteStopWhenFull, Accept
<1> HIDE DEF new, off
<1>7. CASE WriteStopWhenFull(l, b, t).object = [l EXCEPT !.info = new]
  BY <1>2, <1>7, ConfiguredOutcome
<1>8. CASE WriteStopWhenFull(l, b, t).object =
            TL_Insert_Status_Rec([l EXCEPT !.info = off], {"LOG_DISABLED"}, t)
  <2>1. TL_Insert_Status_Rec([l EXCEPT !.info = off], {"LOG_DISABLED"}, t) =
        TL_Insert_Status_Rec([l EXCEPT !.info = off],
            IF TL_Is_Enabled(off, t) THEN {} ELSE {"LOG_DISABLED"}, t)
    BY <1>5
  <2>2. QED
    BY <1>4, <1>8, <2>1, StatusOutcome
<1>9. QED
  BY <1>6, <1>7, <1>8

(* Another source: what the log has of the old one is purged.              *)
LEMMA SourceOutcome ==
    ASSUME NEW l, IsLog(l), NEW t, NEW gaps,
           NEW v \in {<<"REFERENCE", "ANALOG_INPUT">>, <<"REFERENCE", "DEVICE">>}
    PROVE  Outcome(l, WriteSource(l, v, gaps, t).object, t)
<1>1. ASSUME NEW k, IsLog(k)
      PROVE  /\ IsLog([k EXCEPT !.info.Source = v])
             /\ [k EXCEPT !.info.Source = v].ring = k.ring
             /\ Configured(k.info, [k EXCEPT !.info.Source = v].info)
             /\ SwitchedAlike(k.info, [k EXCEPT !.info.Source = v].info, t)
  <2> DEFINE o == [k.info EXCEPT !.Source = v]
  <2>1. k.info \in LogInfo /\ InfoOK(k.info)
    BY <1>1 DEF IsLog, InfoOK
  <2>2. Configured(k.info, o)
    BY <2>1 DEF Configured, InfoOK, LogInfo
  <2>3. SwitchedAlike(k.info, o, t)
    BY <2>1 DEF SwitchedAlike, TL_Is_Enabled, LogInfo
  <2>4. [k EXCEPT !.info.Source = v] = [k EXCEPT !.info = o]
    BY <1>1 DEF IsLog
  <2> HIDE DEF o
  <2>5. QED
    BY <1>1, <2>2, <2>3, <2>4, Reconfigured, ZenonT(60) DEF Configured
<1>2. WriteSource(l, v, gaps, t).object \in
        {[Purged(l, t) EXCEPT !.info.Source = v], [l EXCEPT !.info.Source = v]}
  BY DEF WriteSource, Accept, Tag, Content
<1>3. Outcome(l, [l EXCEPT !.info.Source = v], t)
  BY <1>1 DEF Outcome
<1>4. Outcome(l, [Purged(l, t) EXCEPT !.info.Source = v], t)
  <2> DEFINE k == Purged(l, t)
             new == [k EXCEPT !.info.Source = v]
  <2>1. IsLog(k) /\ k.info.Record_Count = 1 /\ Entry(k, 1).time = t
    BY PurgedLog, ZenonT(60)
  <2>2. SwitchedAlike(l.info, k.info, t)
    BY PurgedAlike
  <2> HIDE DEF k
  <2>3. /\ IsLog(new) /\ new.ring = k.ring /\ Configured(k.info, new.info)
        /\ SwitchedAlike(k.info, new.info, t)
    BY <1>1, <2>1
  <2> HIDE DEF new
  <2>4. new.info.Record_Count = 1 /\ SwitchedAlike(l.info, new.info, t)
    BY <2>1, <2>2, <2>3 DEF Configured, SwitchedAlike
  <2>5. Entry(new, 1) = Entry(k, 1)
    BY <2>3 DEF Configured, Entry
  <2>6. QED
    BY <2>1, <2>3, <2>4, <2>5 DEF Outcome, k, new
<1>5. QED
  BY <1>2, <1>3, <1>4

(* The request that the handler makes of what a client writes, and what    *)
(* the handler does with it.                                               *)
Written(r) == [property |-> r.property, values |-> r.values,
               index |-> BACNET_ARRAY_ALL]

Wrote(l, r, gaps, t) == Trend_Log_Write_Property(l, Written(r), gaps, t)

FlagWritten(l, r, gaps, t, b) ==
    LET write == Wrote(l, r, gaps, t)
    IN  /\ r.values = <<Boolean(b)>>
        /\ \/ r.property = "ENABLE" /\ write = WriteEnable(l, b, t)
           \/ r.property = "STOP_WHEN_FULL" /\ write = WriteStopWhenFull(l, b, t)
           \/ /\ r.property = "ALIGN_INTERVALS"
              /\ write = Accept([l EXCEPT !.info =
                                    [l.info EXCEPT !.Align_Intervals = b]])
           \/ r.property = "TRIGGER" /\ write = WriteTrigger(l, b)

MomentWritten(l, r, gaps, t, m) ==
    LET write == Wrote(l, r, gaps, t)
    IN  /\ r.values = <<Date(m), Time(m)>>
        /\ \/ /\ r.property = "START_TIME"
              /\ write = Accept(Switched(l, [l.info EXCEPT !.Start_Time = m], t))
           \/ /\ r.property = "STOP_TIME"
              /\ write = Accept(Switched(l, [l.info EXCEPT !.Stop_Time = m], t))

ValueWritten(l, r, gaps, t, v) ==
    LET write == Wrote(l, r, gaps, t)
    IN  /\ r.values = <<v>>
        /\ \/ /\ r.property = "RECORD_COUNT" /\ v = Unsigned(0)
              /\ write = Accept(Purged(l, t))
           \/ /\ r.property = "LOGGING_TYPE"
              /\ \E type \in {"POLLED", "TRIGGERED", "NO_TYPE"} :
                    /\ v = Enumerated(type)
                    /\ write = Accept([l EXCEPT !.info = Typed(l.info, type)])
           \/ /\ r.property = "LOG_INTERVAL"
              /\ \E n \in {0, 100, 300} :
                    v = Unsigned(n) /\ write = WriteInterval(l, Unsigned(n))
           \/ /\ r.property = "INTERVAL_OFFSET" /\ v = Unsigned(100)
              /\ write = Accept([l EXCEPT !.info =
                            [l.info EXCEPT !.Interval_Offset = Hundredths(100)]])
           \/ /\ r.property = "LOG_DEVICE_OBJECT_PROPERTY"
              /\ v \in {<<"REFERENCE", "ANALOG_INPUT">>, <<"REFERENCE", "DEVICE">>}
              /\ write = WriteSource(l, v, gaps, t)

LEMMA WriteIs ==
    ASSUME NEW l, NEW t, NEW gaps, NEW r \in Requests
    PROVE  \/ \E b \in BOOLEAN : FlagWritten(l, r, gaps, t, b)
           \/ \E m \in {Wildcard, 1, 2} : MomentWritten(l, r, gaps, t, m)
           \/ \E v : ValueWritten(l, r, gaps, t, v)
<1> DEFINE write == Wrote(l, r, gaps, t)
           o == l.info
           first == r.values[1]
           content == Content(first)
<1>1. Tag(first) = "BOOLEAN" =>
        /\ r.property = "ENABLE" => write = WriteEnable(l, content, t)
        /\ r.property = "STOP_WHEN_FULL" => write = WriteStopWhenFull(l, content, t)
        /\ r.property = "ALIGN_INTERVALS" =>
                write = Accept([l EXCEPT !.info = [o EXCEPT !.Align_Intervals = content]])
        /\ r.property = "TRIGGER" => write = WriteTrigger(l, content)
  BY DEF Wrote, Trend_Log_Write_Property, Writing, WPValidateArgType, Written,
         Tag, Content
<1>2. Len(r.values) = 2 /\ Tag(first) = "DATE" /\ Tag(r.values[2]) = "TIME" =>
        /\ r.property = "START_TIME" =>
                write = Accept(Switched(l, [o EXCEPT !.Start_Time = content], t))
        /\ r.property = "STOP_TIME" =>
                write = Accept(Switched(l, [o EXCEPT !.Stop_Time = content], t))
  BY DEF Wrote, Trend_Log_Write_Property, Writing, WPValidateArgType, WriteMoment,
         Written, Tag, Content
<1>3. r.property = "RECORD_COUNT" /\ first = Unsigned(0)
      => write = Accept(Purged(l, t))
  BY DEF Wrote, Trend_Log_Write_Property, Writing, WPValidateArgType, Written,
         Unsigned, Tag, Content
<1>4. /\ r.property = "LOGGING_TYPE"
      /\ Tag(first) = "ENUMERATED" /\ content # "COV"
      => write = Accept([l EXCEPT !.info = Typed(o, content)])
  BY DEF Wrote, Trend_Log_Write_Property, Writing, WPValidateArgType, Written,
         Check, Tag, Content
<1>5. r.property = "LOG_DEVICE_OBJECT_PROPERTY" /\ Tag(first) # "LARGE"
      => write = WriteSource(l, first, gaps, t)
  BY DEF Wrote, Trend_Log_Write_Property, Writing, Written, Tag
<1>6. r.property = "LOG_INTERVAL" /\ Tag(first) = "UNSIGNED_INT"
      => write = WriteInterval(l, first)
  BY DEF Wrote, Trend_Log_Write_Property, Writing, Written, Tag
<1>7. r.property = "INTERVAL_OFFSET" /\ Tag(first) = "UNSIGNED_INT"
      => write = Accept([l EXCEPT !.info =
                        [o EXCEPT !.Interval_Offset = Hundredths(content)]])
  BY DEF Wrote, Trend_Log_Write_Property, Writing, WPValidateArgType, Written, Tag,
         Content
<1> HIDE DEF write, o
<1>8. CASE r \in UNION {Flag("ENABLE"), Flag("STOP_WHEN_FULL"),
                        Flag("ALIGN_INTERVALS"), Flag("TRIGGER")}
  <2>1. PICK p \in {"ENABLE", "STOP_WHEN_FULL", "ALIGN_INTERVALS", "TRIGGER"},
             b \in BOOLEAN : r = [property |-> p, values |-> <<Boolean(b)>>]
    BY <1>8 DEF Flag
  <2>2. Tag(first) = "BOOLEAN" /\ content = b
    BY <2>1 DEF Boolean, Tag, Content
  <2>3. FlagWritten(l, r, gaps, t, b)
    BY <1>1, <2>1, <2>2 DEF FlagWritten, write, o
  <2>4. QED
    BY <2>3
<1>9. CASE r \in Moments("START_TIME") \cup Moments("STOP_TIME")
  <2>1. PICK p \in {"START_TIME", "STOP_TIME"}, m \in {Wildcard, 1, 2} :
            r = [property |-> p, values |-> <<Date(m), Time(m)>>]
    BY <1>9 DEF Moments
  <2>2. /\ Len(r.values) = 2 /\ Tag(first) = "DATE" /\ content = m
        /\ Tag(r.values[2]) = "TIME"
    BY <2>1 DEF Date, Time, Tag, Content
  <2>3. MomentWritten(l, r, gaps, t, m)
    BY <1>2, <2>1, <2>2 DEF MomentWritten, write, o
  <2>4. QED
    BY <2>3
<1>10. CASE r \in Value("RECORD_COUNT", {Unsigned(0)})
  <2>1. r = [property |-> "RECORD_COUNT", values |-> <<Unsigned(0)>>]
    BY <1>10 DEF Value
  <2>2. ValueWritten(l, r, gaps, t, Unsigned(0))
    BY <1>3, <2>1 DEF ValueWritten, write
  <2>3. QED
    BY <2>2
<1>11. CASE r \in Value("LOGGING_TYPE", {Enumerated("POLLED"),
                                         Enumerated("TRIGGERED"),
                                         Enumerated("NO_TYPE")})
  <2>1. PICK type \in {"POLLED", "TRIGGERED", "NO_TYPE"} :
            r = [property |-> "LOGGING_TYPE", values |-> <<Enumerated(type)>>]
    BY <1>11 DEF Value
  <2>2. Tag(first) = "ENUMERATED" /\ content = type
    BY <2>1 DEF Enumerated, Tag, Content
  <2>3. ValueWritten(l, r, gaps, t, Enumerated(type))
    BY <1>4, <2>1, <2>2 DEF ValueWritten, write, o
  <2>4. QED
    BY <2>3
<1>12. CASE r \in Value("LOG_INTERVAL", {Unsigned(0), Unsigned(100), Unsigned(300)})
  <2>1. PICK n \in {0, 100, 300} :
            r = [property |-> "LOG_INTERVAL", values |-> <<Unsigned(n)>>]
    BY <1>12 DEF Value
  <2>2. Tag(first) = "UNSIGNED_INT"
    BY <2>1 DEF Unsigned, Tag
  <2>3. ValueWritten(l, r, gaps, t, Unsigned(n))
    BY <1>6, <2>1, <2>2 DEF ValueWritten, write
  <2>4. QED
    BY <2>3
<1>13. CASE r \in Value("INTERVAL_OFFSET", {Unsigned(100)})
  <2>1. r = [property |-> "INTERVAL_OFFSET", values |-> <<Unsigned(100)>>]
    BY <1>13 DEF Value
  <2>2. Tag(first) = "UNSIGNED_INT" /\ content = 100
    BY <2>1 DEF Unsigned, Tag, Content
  <2>3. ValueWritten(l, r, gaps, t, Unsigned(100))
    BY <1>7, <2>1, <2>2 DEF ValueWritten, write, o
  <2>4. QED
    BY <2>3
<1>14. CASE r \in Value("LOG_DEVICE_OBJECT_PROPERTY",
                        {<<"REFERENCE", "ANALOG_INPUT">>, <<"REFERENCE", "DEVICE">>})
  <2>1. PICK v \in {<<"REFERENCE", "ANALOG_INPUT">>, <<"REFERENCE", "DEVICE">>} :
            r = [property |-> "LOG_DEVICE_OBJECT_PROPERTY", values |-> <<v>>]
    BY <1>14 DEF Value
  <2>2. Tag(first) # "LARGE" /\ first = v
    BY <2>1 DEF Tag
  <2>3. ValueWritten(l, r, gaps, t, v)
    BY <1>5, <2>1, <2>2 DEF ValueWritten, write
  <2>4. QED
    BY <2>3
<1>15. QED
  BY <1>8, <1>9, <1>10, <1>11, <1>12, <1>13, <1>14 DEF Requests

(* What any request leaves of a log.                                       *)
LEMMA WriteOutcome ==
    ASSUME NEW l, IsLog(l), NEW t, NEW gaps, NEW r \in Requests
    PROVE  Outcome(l, Wrote(l, r, gaps, t).object, t)
<1> DEFINE write == Wrote(l, r, gaps, t)
           o == l.info
<1> SUFFICES Outcome(l, write.object, t)
  OBVIOUS
<1> HIDE DEF write
<1>1. InfoOK(o)
  BY DEF IsLog
<1>2. Outcome(l, l, t)
  BY UnchangedOutcome
<1>3. ASSUME NEW new, Outcome(l, new, t), NEW valid, NEW code
      PROVE  Outcome(l, Check(l, valid, code, new).object, t)
  BY <1>2, <1>3 DEF Check, Accept, Refuse
<1>4. \A new : Accept(new).object = new
  BY DEF Accept
<1>5. ASSUME NEW b \in BOOLEAN, FlagWritten(l, r, gaps, t, b)
      PROVE  Outcome(l, write.object, t)
  <2>1. Outcome(l, Switched(l, [o EXCEPT !.Enable = b], t), t)
    BY <1>1, PlainFields, SwitchedOutcome, 0 \in Int
  <2>2. CASE write = WriteEnable(l, b, t)
    BY <1>3, <2>1, <2>2 DEF WriteEnable
  <2>3. CASE write = WriteStopWhenFull(l, b, t)
    BY <2>3, StopWhenFullOutcome
  <2>4. Outcome(l, [l EXCEPT !.info = [o EXCEPT !.Align_Intervals = b]], t)
    BY <1>1, QuietFields, ConfiguredOutcome, 0 \in Nat
  <2>5. Outcome(l, [l EXCEPT !.info = [o EXCEPT !.Trigger = b]], t)
    BY <1>1, QuietFields, ConfiguredOutcome, 0 \in Nat
  <2>6. [l EXCEPT !.info.Trigger = b] = [l EXCEPT !.info = [o EXCEPT !.Trigger = b]]
    BY DEF IsLog
  <2>7. CASE write = WriteTrigger(l, b)
    BY <1>3, <2>5, <2>6, <2>7 DEF WriteTrigger
  <2>8. CASE write = Accept([l EXCEPT !.info = [o EXCEPT !.Align_Intervals = b]])
    BY <1>4, <2>4, <2>8
  <2>9. QED
    BY <1>5, <2>2, <2>3, <2>7, <2>8 DEF FlagWritten, write
<1>6. ASSUME NEW m \in {Wildcard, 1, 2}, MomentWritten(l, r, gaps, t, m)
      PROVE  Outcome(l, write.object, t)
  <2>1. m \in Int
    BY DEF Wildcard
  <2>2. /\ Outcome(l, Switched(l, [o EXCEPT !.Start_Time = m], t), t)
        /\ Outcome(l, Switched(l, [o EXCEPT !.Stop_Time = m], t), t)
    BY <1>1, <2>1, PlainFields, SwitchedOutcome
  <2>3. QED
    BY <1>4, <1>6, <2>2 DEF MomentWritten, write
<1>7. ASSUME NEW type \in {"POLLED", "TRIGGERED", "NO_TYPE"}
      PROVE  Outcome(l, [l EXCEPT !.info = Typed(o, type)], t)
  BY <1>1, TypedConfiguration, ConfiguredOutcome
<1>8. ASSUME NEW n \in {0, 100, 300}
      PROVE  Outcome(l, WriteInterval(l, Unsigned(n)).object, t)
  <2> DEFINE interval == Max({1, Hundredths(n)})
  <2>1. interval \in Nat /\ interval > 0
    <3>1. Hundredths(n) \in Int
      BY DEF Hundredths
    <3>2. interval = IF 1 >= Hundredths(n) THEN 1 ELSE Hundredths(n)
      BY <3>1, MaxOfTwo, 1 \in Int
    <3>3. QED
      BY <3>1, <3>2
  <2> HIDE DEF interval
  <2>2. Outcome(l, [l EXCEPT !.info = [o EXCEPT !.Log_Interval = interval]], t)
    <3>1. /\ Configured(o, [o EXCEPT !.Log_Interval = interval])
          /\ SwitchedAlike(o, [o EXCEPT !.Log_Interval = interval], t)
      <4> HIDE DEF o
      <4>1. QED
        BY <1>1, <2>1, QuietFields, TRUE \in BOOLEAN
    <3>2. QED
      BY <3>1, ConfiguredOutcome
  <2>3. [l EXCEPT !.info.Log_Interval = interval] =
            [l EXCEPT !.info = [o EXCEPT !.Log_Interval = interval]]
    BY DEF IsLog
  <2>4. \/ WriteInterval(l, Unsigned(n)).object = l
        \/ \E valid, code :
                WriteInterval(l, Unsigned(n)) =
                    Check(l, valid, code, [l EXCEPT !.info.Log_Interval = interval])
    BY DEF WriteInterval, WPValidateArgType, Refuse, Unsigned, Tag, Content,
       interval
  <2>5. QED
    BY <1>2, <1>3, <2>2, <2>3, <2>4
<1>9. Outcome(l, [l EXCEPT !.info = [o EXCEPT !.Interval_Offset = Hundredths(100)]], t)
  <2>1. Hundredths(100) \in Nat
    BY DEF Hundredths
  <2>2. QED
    BY <1>1, <2>1, QuietFields, ConfiguredOutcome, TRUE \in BOOLEAN
<1>10. ASSUME NEW v, ValueWritten(l, r, gaps, t, v)
       PROVE  Outcome(l, write.object, t)
  BY <1>4, <1>7, <1>8, <1>9, <1>10, PurgedOutcome, SourceOutcome
  DEF ValueWritten, write
<1>11. QED
  BY <1>5, <1>6, <1>10, WriteIs

----------------------------------------------------------------------------
(* What is shown.                                                          *)

LEMMA ViewLength ==
    ASSUME NEW l, IsLog(l)
    PROVE  /\ Len(View(l)) = l.info.Record_Count
           /\ \A p \in 1 .. l.info.Record_Count : View(l)[p] = Entry(l, p)
<1> DEFINE S == {Entry(l, p) : p \in 1 .. l.info.Record_Count}
<1>1. \A p \in 1 .. l.info.Record_Count : Entry(l, p) \in S
  OBVIOUS
<1> HIDE DEF S
<1>2. QED
  BY <1>1, ViewIs

(* A log with its records where they were shows what it showed.            *)
LEMMA SameView ==
    ASSUME NEW l, NEW new, new.ring = l.ring,
           new.info.Index = l.info.Index,
           new.info.Record_Count = l.info.Record_Count
    PROVE  View(new) = View(l)
<1>1. \A p : Entry(new, p) = Entry(l, p)
  BY DEF Entry
<1>2. QED
  BY <1>1 DEF View

(* One log shows one record more than another.                             *)
ShowsOneMore(l, new) ==
    /\ View(new) # <<>>
    /\ View(new) = Shown!Latest(Append(View(l), View(new)[Len(View(new))]))

LEMMA InsertShowsOneMore ==
    ASSUME NEW l, IsLog(l), NEW record
    PROVE  ShowsOneMore(l, Insert(l, record))
<1> DEFINE new == Insert(l, record)
           m == new.info.Record_Count
<1>1. IsLog(new)
  BY InsertedLog
<1>2. /\ View(new) = Shown!Latest(Append(View(l), record))
      /\ Entry(new, m) = record
      /\ m \in 1 .. TL_MAX_ENTRIES
  BY InsertShows
<1> HIDE DEF new
<1>3. Len(View(new)) = m /\ \A p \in 1 .. m : View(new)[p] = Entry(new, p)
  BY <1>1, ViewLength
<1>4. m \in Nat /\ m > 0 /\ m \in 1 .. m
  BY <1>2, TrendLogConstants
<1>5. View(new)[Len(View(new))] = record
  BY <1>2, <1>3, <1>4
<1>6. View(new) # <<>>
  <2>1. Len(<<>>) = 0
    OBVIOUS
  <2>2. QED
    BY <1>3, <1>4, <2>1
<1>7. QED
  BY <1>2, <1>5, <1>6 DEF ShowsOneMore, new

(* What a request leaves shows the same, one record more or the purge.     *)
LEMMA OutcomeShows ==
    ASSUME NEW l, IsLog(l), NEW t, NEW new, Outcome(l, new, t)
    PROVE  \/ View(new) = View(l)
           \/ ShowsOneMore(l, new)
           \/ Len(View(new)) = 1
<1>1. CASE new.ring = l.ring /\ Configured(l.info, new.info)
  BY <1>1, SameView DEF Configured
<1>2. ASSUME NEW o, Configured(l.info, o), NEW flags,
             new = TL_Insert_Status_Rec([l EXCEPT !.info = o], flags, t)
      PROVE  ShowsOneMore(l, new)
  <2> DEFINE base == [l EXCEPT !.info = o]
  <2>1. IsLog(base) /\ base.info = o /\ base.ring = l.ring
    BY <1>2, Reconfigured DEF Configured
  <2>2. View(base) = View(l)
    BY <1>2, <2>1, SameView DEF Configured
  <2> HIDE DEF base
  <2>3. ShowsOneMore(base, new)
    BY <1>2, <2>1, InsertShowsOneMore DEF TL_Insert_Status_Rec, base
  <2>4. QED
    BY <2>2, <2>3 DEF ShowsOneMore
<1>3. CASE new.info.Record_Count = 1
  BY <1>3, ViewLength DEF Outcome
<1>4. QED
  BY <1>1, <1>2, <1>3 DEF Outcome

(* The last record of a log that a request has switched says so.           *)
LEMMA OutcomeSays ==
    ASSUME NEW l, IsLog(l), NEW t, NEW new, Outcome(l, new, t),
           ~SwitchedAlike(l.info, new.info, t)
    PROVE  Newest(new) =
                <<"LOG_STATUS",
                  IF TL_Is_Enabled(new.info, t) THEN {} ELSE {"LOG_DISABLED"}>>
<1>1. PICK o : /\ Configured(l.info, o)
               /\ new = TL_Insert_Status_Rec([l EXCEPT !.info = o],
                            IF TL_Is_Enabled(o, t) THEN {} ELSE {"LOG_DISABLED"}, t)
  BY DEF Outcome
<1> DEFINE base == [l EXCEPT !.info = o]
           flags == IF TL_Is_Enabled(o, t) THEN {} ELSE {"LOG_DISABLED"}
           record == [time |-> t, datum |-> <<"LOG_STATUS", flags>>, status |-> {}]
<1>2. IsLog(base) /\ base.info = o
  BY <1>1, Reconfigured DEF Configured
<1>3. new = Insert(base, record)
  BY <1>1 DEF TL_Insert_Status_Rec
<1> HIDE DEF base, record
<1>4. Entry(new, new.info.Record_Count) = record
  BY <1>2, <1>3, InsertShows
<1>5. new.info = [o EXCEPT !.Index = new.info.Index,
                     !.Record_Count = new.info.Record_Count,
                     !.Total_Record_Count = new.info.Total_Record_Count]
  BY <1>2, <1>3, InsertedInfo
<1>6. o \in LogInfo
  BY <1>1 DEF Configured, InfoOK
<1>7. TL_Is_Enabled(new.info, t) = TL_Is_Enabled(o, t)
  <2> DEFINE info == new.info
  <2>1. info = [o EXCEPT !.Index = info.Index,
                   !.Record_Count = info.Record_Count,
                   !.Total_Record_Count = info.Total_Record_Count]
    BY <1>5
  <2> HIDE DEF info
  <2>2. info.Enable = o.Enable /\ info.Start_Time = o.Start_Time
        /\ info.Stop_Time = o.Stop_Time
    BY <1>6, <2>1 DEF LogInfo
  <2>3. QED
    BY <2>2 DEF TL_Is_Enabled, info
<1>8. Newest(new) = <<"LOG_STATUS", flags>>
  BY <1>4 DEF Newest, record
<1>9. QED
  BY <1>7, <1>8

----------------------------------------------------------------------------
(* What the timer does.                                                    *)

(* A reading is one record more, and the moment of the last one.           *)
LEMMA Fetched ==
    ASSUME NEW l, IsLog(l), NEW read, NEW t \in Nat
    PROVE  LET new == TL_fetch_property(l, read, t)
           IN  /\ IsLog(new) /\ ShowsOneMore(l, new)
               /\ new.info.Last_Data_Time = t
               /\ new.info.Logging_Type = l.info.Logging_Type
<1> DEFINE o == [l.info EXCEPT !.Last_Data_Time = t]
           base == [l EXCEPT !.info = o]
           new == TL_fetch_property(l, read, t)
<1>1. l.info \in LogInfo /\ InfoOK(l.info)
  BY DEF IsLog, InfoOK
<1>2. /\ InfoOK(o) /\ o.Last_Data_Time = t
      /\ o.Index = l.info.Index /\ o.Record_Count = l.info.Record_Count
      /\ o.Logging_Type = l.info.Logging_Type
  BY <1>1 DEF InfoOK, LogInfo
<1>3. o \in LogInfo
  BY <1>2 DEF InfoOK
<1>4. PICK record : new = Insert([l EXCEPT !.info.Last_Data_Time = t], record)
  BY DEF TL_fetch_property
<1>5. [l EXCEPT !.info.Last_Data_Time = t] = base
  BY DEF IsLog
<1> HIDE DEF o, new
<1>6. IsLog(base) /\ base.info = o /\ base.ring = l.ring
  BY <1>2, Reconfigured
<1>7. View(base) = View(l)
  BY <1>2, <1>6, SameView
<1> HIDE DEF base
<1>8. new = Insert(base, record)
  BY <1>4, <1>5
<1>9. IsLog(new) /\ ShowsOneMore(base, new)
  BY <1>6, <1>8, InsertedLog, InsertShowsOneMore
<1>10. new.info = [o EXCEPT !.Index = new.info.Index,
                      !.Record_Count = new.info.Record_Count,
                      !.Total_Record_Count = new.info.Total_Record_Count]
  BY <1>6, <1>8, InsertedInfo
<1>11. /\ new.info.Last_Data_Time = o.Last_Data_Time
       /\ new.info.Logging_Type = o.Logging_Type
  <2> DEFINE info == new.info
  <2>1. info = [o EXCEPT !.Index = info.Index,
                   !.Record_Count = info.Record_Count,
                   !.Total_Record_Count = info.Total_Record_Count]
    BY <1>10
  <2> HIDE DEF info
  <2>2. QED
    BY <1>3, <2>1 DEF LogInfo, info
<1>12. ShowsOneMore(l, new)
  BY <1>7, <1>9 DEF ShowsOneMore
<1>13. QED
  BY <1>2, <1>9, <1>11, <1>12 DEF new

(* The trigger is spent when there is a reading.                           *)
LEMMA SpentLog ==
    ASSUME NEW l, IsLog(l)
    PROVE  LET new == [l EXCEPT !.info.Trigger = FALSE]
           IN  /\ IsLog(new) /\ View(new) = View(l)
               /\ new.info.Last_Data_Time = l.info.Last_Data_Time
               /\ new.info.Logging_Type = l.info.Logging_Type
<1> DEFINE o == [l.info EXCEPT !.Trigger = FALSE]
           new == [l EXCEPT !.info = o]
<1>1. l.info \in LogInfo /\ InfoOK(l.info)
  BY DEF IsLog, InfoOK
<1>2. /\ InfoOK(o) /\ o.Last_Data_Time = l.info.Last_Data_Time
      /\ o.Index = l.info.Index /\ o.Record_Count = l.info.Record_Count
      /\ o.Logging_Type = l.info.Logging_Type
  BY <1>1 DEF InfoOK, LogInfo
<1>3. [l EXCEPT !.info.Trigger = FALSE] = new
  BY DEF IsLog
<1> HIDE DEF o
<1>4. IsLog(new) /\ new.info = o /\ new.ring = l.ring
  BY <1>2, Reconfigured
<1>5. View(new) = View(l)
  BY <1>2, <1>4, SameView
<1> HIDE DEF new
<1>6. QED
  BY <1>2, <1>3, <1>4, <1>5

(* A log that polls and is not due has had a reading in time; one that is  *)
(* has it now.                                                             *)
LEMMA DueInTime ==
    ASSUME NEW o, InfoOK(o), NEW t \in Nat, ~Due(o, t)
    PROVE  t - o.Last_Data_Time <= o.Log_Interval
<1>1. o.Last_Data_Time \in Nat /\ o.Log_Interval \in Nat
  BY DEF InfoOK, LogInfo
<1>2. CASE o.Align_Intervals
  <2>1. ~(t - o.Last_Data_Time > o.Log_Interval)
    BY <1>2 DEF Due
  <2>2. QED
    BY <1>1, <2>1
<1>3. CASE ~o.Align_Intervals
  <2>1. ~(t - o.Last_Data_Time >= o.Log_Interval)
    BY <1>3 DEF Due
  <2>2. QED
    BY <1>1, <2>1
<1>4. QED
  BY <1>2, <1>3

LEMMA TimerOutcome ==
    ASSUME NEW l, IsLog(l), NEW read, NEW t \in Nat
    PROVE  LET new == trend_log_timer(l, read, t)
           IN  /\ IsLog(new)
               /\ View(new) = View(l) \/ ShowsOneMore(l, new)
               /\ new.info.Logging_Type = l.info.Logging_Type
               /\ TL_Is_Enabled(l.info, t) /\ l.info.Logging_Type = "POLLED"
                  => t - new.info.Last_Data_Time <= l.info.Log_Interval
<1> DEFINE o == l.info
           new == trend_log_timer(l, read, t)
           reading == TL_fetch_property(l, read, t)
           Spent(k) == [k EXCEPT !.info.Trigger = FALSE]
<1>1. InfoOK(o) /\ o.Log_Interval \in Nat /\ t - t = 0
  BY DEF IsLog, InfoOK, LogInfo
<1>2. /\ IsLog(reading) /\ ShowsOneMore(l, reading)
      /\ reading.info.Last_Data_Time = t
      /\ reading.info.Logging_Type = o.Logging_Type
  BY Fetched
<1>3. \/ new = l /\ ~(TL_Is_Enabled(o, t) /\ o.Logging_Type = "POLLED")
      \/ new = Spent(l) /\ ~Due(o, t)
      \/ new = Spent(reading)
  BY DEF trend_log_timer
<1> HIDE DEF new, reading
<1>4. /\ IsLog(Spent(reading)) /\ View(Spent(reading)) = View(reading)
      /\ Spent(reading).info.Last_Data_Time = t
      /\ Spent(reading).info.Logging_Type = o.Logging_Type
  BY <1>2, SpentLog
<1>5. /\ IsLog(Spent(l)) /\ View(Spent(l)) = View(l)
      /\ Spent(l).info.Last_Data_Time = o.Last_Data_Time
      /\ Spent(l).info.Logging_Type = o.Logging_Type
  BY SpentLog
<1>6. ~Due(o, t) => t - o.Last_Data_Time <= o.Log_Interval
  BY <1>1, DueInTime
<1>7. ShowsOneMore(l, Spent(reading))
  BY <1>2, <1>4 DEF ShowsOneMore
<1> HIDE DEF o, Spent
<1>8. CASE new = l /\ ~(TL_Is_Enabled(o, t) /\ o.Logging_Type = "POLLED")
  BY <1>8 DEF o, new
<1>9. CASE new = Spent(l) /\ ~Due(o, t)
  BY <1>5, <1>6, <1>9 DEF o, new
<1>10. CASE new = Spent(reading)
  <2>1. t - Spent(reading).info.Last_Data_Time <= o.Log_Interval
    BY <1>1, <1>4
  <2>2. QED
    BY <1>4, <1>7, <1>10, <2>1 DEF o, new
<1>11. QED
  BY <1>3, <1>8, <1>9, <1>10

----------------------------------------------------------------------------
(* Behaviours.                                                             *)

(* The inductive invariant: what is configured is a configuration, the     *)
(* counters are within the ring, and a ring that is not full is filled     *)
(* from its start.                                                         *)
LogInv == IsLog(Current) /\ now \in Nat

LEMMA InitiallyLog == Init => LogInv
<1> SUFFICES ASSUME Init PROVE LogInv
  OBVIOUS
<1> USE TrendLogConstants
<1>1. log \in LogInfo
  <2>1. 0 \in Cells /\ TL_MAX_ENTRIES \in 0 .. TL_MAX_ENTRIES
        /\ STOP_TIME \in Int
    BY DEF Cells
  <2>2. QED
    BY <2>1 DEF Init, Trend_Log_Init, LogInfo
<1>2. InfoOK(log)
  BY <1>1 DEF InfoOK, Init, Trend_Log_Init
<1>3. DOMAIN Logs = Cells
  BY DEF Init, Trend_Log_Init, Cells
<1>4. Current.info = log /\ Current.ring = Logs
      /\ Current = [info |-> Current.info, ring |-> Current.ring]
  BY DEF Current
<1>5. IsLog(Current)
  BY <1>2, <1>3, <1>4 DEF IsLog
<1>6. QED
  BY <1>5 DEF LogInv, Init

LEMMA Becomes ==
    ASSUME NEW new, IsLog(new), Become(new)
    PROVE  Current' = new
  BY DEF Become, Current, IsLog

(* A step is a request with its outcome or a second of the timer, or it    *)
(* leaves the log alone.                                                   *)
LEMMA Steps ==
    ASSUME LogInv, [Next]_vars
    PROVE  \/ /\ Outcome(Current, Current', now)
              /\ now' = now
           \/ /\ now' = now + 1 /\ writes' = writes
              /\ \E read : Current' = trend_log_timer(Current, read, now')
           \/ Current' = Current /\ UNCHANGED vars
<1>1. IsLog(Current) /\ now \in Nat
  BY DEF LogInv
<1>2. CASE WriteProperty
  <2>1. PICK r \in Requests, gaps \in BOOLEAN :
            Become(Wrote(Current, r, gaps, now).object)
    BY <1>2 DEF WriteProperty, Wrote, Written
  <2> DEFINE new == Wrote(Current, r, gaps, now).object
  <2>2. Outcome(Current, new, now)
    BY <1>1, WriteOutcome
  <2>3. Become(new)
    BY <2>1
  <2> HIDE DEF new
  <2>4. Current' = new
    BY <2>2, <2>3, Becomes DEF Outcome
  <2>5. Outcome(Current, Current', now)
    BY <2>2, <2>4
  <2>6. now' = now
    BY <1>2 DEF WriteProperty
  <2>7. QED
    BY <2>5, <2>6
<1>3. CASE Second
  <2>1. PICK read \in Reads : Become(trend_log_timer(Current, read, now'))
    BY <1>3 DEF Second
  <2>2. now' = now + 1 /\ now' \in Nat /\ writes' = writes
    BY <1>1, <1>3 DEF Second
  <2>3. IsLog(trend_log_timer(Current, read, now'))
    BY <1>1, <2>2, TimerOutcome
  <2>4. Current' = trend_log_timer(Current, read, now')
    BY <2>1, <2>3, Becomes
  <2>5. QED
    BY <2>2, <2>4
<1>4. CASE UNCHANGED vars
  BY <1>4 DEF vars, Current
<1>5. QED
  BY <1>2, <1>3, <1>4 DEF Next

LEMMA StaysLog == LogInv /\ [Next]_vars => LogInv'
<1> SUFFICES ASSUME LogInv, [Next]_vars PROVE IsLog(Current') /\ now' \in Nat
  BY DEF LogInv
<1>1. IsLog(Current) /\ now \in Nat
  BY DEF LogInv
<1>2. CASE Outcome(Current, Current', now) /\ now' = now
  BY <1>1, <1>2 DEF Outcome
<1>3. ASSUME NEW read, now' = now + 1,
             Current' = trend_log_timer(Current, read, now')
      PROVE  IsLog(Current') /\ now' \in Nat
  <2>1. now' \in Nat
    BY <1>1, <1>3
  <2>2. QED
    BY <1>1, <1>3, <2>1, TimerOutcome
<1>4. CASE Current' = Current /\ UNCHANGED vars
  BY <1>1, <1>4 DEF vars
<1>5. QED
  BY <1>2, <1>3, <1>4, Steps

(* Whatever is written and logged, the counters stay within the ring, a    *)
(* ring that is not full is filled from its start, and a log that polls    *)
(* has an interval to divide by (trend_log_timer takes the remainder).     *)
THEOREM TrendLogStaysOne == Spec => []LogInv
  BY InitiallyLog, StaysLog, PTL DEF Spec

(* The ring of trendlog.c, read by position, is a log of the latest        *)
(* records, oldest first: every insertion adds one at the end, a purge     *)
(* leaves one, and nothing else that is written or read changes them.      *)
THEOREM RingImplementsRecordLog == Spec => ImplementsRecordLog
<1> DEFINE shown == [p \in Positions |-> Entry(Current, p)]
<1>1. shown = View(Current)
  BY DEF View, Positions, Current
<1>2. Init => Shown!Init
  <2> SUFFICES ASSUME Init PROVE Len(View(Current)) <= TL_MAX_ENTRIES
    BY <1>1 DEF Shown!Init
  <2>1. IsLog(Current)
    BY InitiallyLog DEF LogInv
  <2>2. Current.info.Record_Count \in 0 .. TL_MAX_ENTRIES
    BY <2>1 DEF IsLog, InfoOK, LogInfo
  <2>3. QED
    BY <2>1, <2>2, ViewLength, TrendLogConstants
<1>3. LogInv /\ [Next]_vars => [Shown!Add \/ Shown!Purge]_shown
  <2> SUFFICES ASSUME LogInv, [Next]_vars
               PROVE  \/ View(Current') = View(Current)
                      \/ ShowsOneMore(Current, Current')
                      \/ Len(View(Current')) = 1
    BY <1>1 DEF Shown!Add, Shown!Purge, ShowsOneMore, View, Positions, Current
  <2>1. IsLog(Current) /\ now \in Nat
    BY DEF LogInv
  <2>2. CASE Outcome(Current, Current', now)
    BY <2>1, <2>2, OutcomeShows
  <2>3. ASSUME NEW read, now' = now + 1,
               Current' = trend_log_timer(Current, read, now')
        PROVE  View(Current') = View(Current) \/ ShowsOneMore(Current, Current')
    <3>1. now' \in Nat
      BY <2>1, <2>3
    <3>2. QED
      BY <2>1, <2>3, <3>1, TimerOutcome
  <2>4. QED
    BY <2>2, <2>3, Steps
<1>4. QED
  BY <1>2, <1>3, TrendLogStaysOne, PTL DEF Spec, ImplementsRecordLog, Shown!Spec

(* A request that switches the log on or off, by Enable, by its moments of *)
(* start and stop or because it is full, leaves a record that says which.  *)
THEOREM SwitchesAreLogged == Spec => SwitchingIsLogged
<1>1. ASSUME LogInv, [Next]_vars, writes' # writes,
             TL_Is_Enabled(log, now) # TL_Is_Enabled(log', now)
      PROVE  Newest(Current') =
                <<"LOG_STATUS",
                  IF TL_Is_Enabled(log', now) THEN {} ELSE {"LOG_DISABLED"}>>
  <2>1. IsLog(Current)
    BY <1>1 DEF LogInv
  <2>2. Current.info = log /\ Current'.info = log'
    BY DEF Current
  <2>3. Outcome(Current, Current', now)
    BY <1>1, Steps DEF vars
  <2>4. ~SwitchedAlike(Current.info, Current'.info, now)
    BY <1>1, <2>2 DEF SwitchedAlike
  <2>5. QED
    BY <2>1, <2>2, <2>3, <2>4, OutcomeSays
<1>2. QED
  BY <1>1, TrendLogStaysOne, PTL DEF Spec, SwitchingIsLogged

(* A log that polls keeps polling: no request leaves it without an         *)
(* interval, and no second passes on which its last reading is older.      *)
THEOREM PollsInTime == Spec => PolledInTime
<1>1. ASSUME LogInv, LogInv', [Next]_vars
      PROVE  /\ log'.Logging_Type = "POLLED" => log'.Log_Interval > 0
             /\ /\ now' # now
                /\ TL_Is_Enabled(log, now') /\ log.Logging_Type = "POLLED"
                => now' - log'.Last_Data_Time <= log.Log_Interval
  <2>1. IsLog(Current) /\ IsLog(Current') /\ now \in Nat
    BY <1>1 DEF LogInv
  <2>2. Current.info = log /\ Current'.info = log'
    BY DEF Current
  <2>3. log'.Logging_Type = "POLLED" => log'.Log_Interval > 0
    BY <2>1, <2>2 DEF IsLog, InfoOK
  <2>4. ASSUME now' # now, TL_Is_Enabled(log, now'), log.Logging_Type = "POLLED"
        PROVE  now' - log'.Last_Data_Time <= log.Log_Interval
    <3>1. now' = now + 1
          /\ \E read : Current' = trend_log_timer(Current, read, now')
      BY <1>1, <2>4, Steps DEF vars
    <3>2. now' \in Nat
      BY <2>1, <3>1
    <3>3. QED
      BY <2>1, <2>2, <2>4, <3>1, <3>2, TimerOutcome
  <2>5. QED
    BY <2>3, <2>4
<1>2. QED
  BY <1>1, TrendLogStaysOne, PTL DEF Spec, PolledInTime

----------------------------------------------------------------------------
(* What is written is read.                                                *)

ReadOf(o, p) == Trend_Log_Read_Property(o, p, BACNET_ARRAY_ALL)

(* Every property that is listed, but for the buffer, has an answer.       *)
LEMMA CanBeRead ==
    ASSUME NEW o,
           NEW p \in (Trend_Log_Properties_Required
                        \cup Trend_Log_Properties_Optional) \ {"LOG_BUFFER"}
    PROVE  ReadOf(o, p).error = "none"
<1>1. CASE p \in {"START_TIME", "STOP_TIME"}
  BY <1>1 DEF ReadOf, Trend_Log_Read_Property, Answer
<1>2. ASSUME NEW values, p \in DOMAIN values
      PROVE  Reading(values, <<>>, p, BACNET_ARRAY_ALL).error = "none"
  BY <1>2 DEF Reading, Answer
<1>3. CASE p \in {"OBJECT_IDENTIFIER", "OBJECT_NAME", "DESCRIPTION", "OBJECT_TYPE",
                  "BUFFER_SIZE", "EVENT_STATE"}
  BY <1>2, <1>3 DEF ReadOf, Trend_Log_Read_Property, Fixed
<1>4. CASE p \in {"ENABLE", "STATUS_FLAGS", "STOP_WHEN_FULL", "RECORD_COUNT",
                  "TOTAL_RECORD_COUNT", "LOGGING_TYPE",
                  "LOG_DEVICE_OBJECT_PROPERTY", "LOG_INTERVAL", "ALIGN_INTERVALS",
                  "INTERVAL_OFFSET", "TRIGGER"}
  BY <1>2, <1>4 DEF ReadOf, Trend_Log_Read_Property
<1>5. QED
  BY <1>1, <1>3, <1>4
  DEF Trend_Log_Properties_Required, Trend_Log_Properties_Optional

(* What the properties that are written to are read from.                  *)
Held(o, p, values) ==
    \/ p = "ENABLE" /\ values = <<Boolean(o.Enable)>>
    \/ p = "STOP_WHEN_FULL" /\ values = <<Boolean(o.Stop_When_Full)>>
    \/ p = "ALIGN_INTERVALS" /\ values = <<Boolean(o.Align_Intervals)>>
    \/ p = "TRIGGER" /\ values = <<Boolean(o.Trigger)>>
    \/ p = "LOGGING_TYPE" /\ values = <<Enumerated(o.Logging_Type)>>
    \/ p = "LOG_DEVICE_OBJECT_PROPERTY" /\ values = <<o.Source>>
    \/ p = "INTERVAL_OFFSET" /\ values = <<Unsigned(o.Interval_Offset * 100)>>
    \/ p = "START_TIME" /\ values = <<Date(o.Start_Time), Time(o.Start_Time)>>
    \/ p = "STOP_TIME" /\ values = <<Date(o.Stop_Time), Time(o.Stop_Time)>>

LEMMA HeldIsRead ==
    ASSUME NEW o, NEW p, NEW values, Held(o, p, values)
    PROVE  ReadOf(o, p) = Answer(values)
<1>1. CASE p = "START_TIME"
  BY <1>1 DEF Held, ReadOf, Trend_Log_Read_Property
<1>2. CASE p = "STOP_TIME"
  BY <1>2 DEF Held, ReadOf, Trend_Log_Read_Property
<1>3. CASE p = "ENABLE"
  BY <1>3 DEF Held, ReadOf, Trend_Log_Read_Property, Reading
<1>4. CASE p = "STOP_WHEN_FULL"
  BY <1>4 DEF Held, ReadOf, Trend_Log_Read_Property, Reading
<1>5. CASE p = "ALIGN_INTERVALS"
  BY <1>5 DEF Held, ReadOf, Trend_Log_Read_Property, Reading
<1>6. CASE p = "TRIGGER"
  BY <1>6 DEF Held, ReadOf, Trend_Log_Read_Property, Reading
<1>7. CASE p = "LOGGING_TYPE"
  BY <1>7 DEF Held, ReadOf, Trend_Log_Read_Property, Reading
<1>8. CASE p = "LOG_DEVICE_OBJECT_PROPERTY"
  BY <1>8 DEF Held, ReadOf, Trend_Log_Read_Property, Reading
<1>9. CASE p = "INTERVAL_OFFSET"
  BY <1>9 DEF Held, ReadOf, Trend_Log_Read_Property, Reading
<1>10. QED
  BY <1>1, <1>2, <1>3, <1>4, <1>5, <1>6, <1>7, <1>8, <1>9 DEF Held

(* A record that a request leaves changes nothing that was configured.     *)
LEMMA StatusKeeps ==
    ASSUME NEW l, IsLog(l), NEW o, InfoOK(o), NEW flags, NEW t
    PROVE  LET new == TL_Insert_Status_Rec([l EXCEPT !.info = o], flags, t).info
           IN  /\ new.Enable = o.Enable /\ new.Stop_When_Full = o.Stop_When_Full
               /\ new.Start_Time = o.Start_Time /\ new.Stop_Time = o.Stop_Time
<1> DEFINE base == [l EXCEPT !.info = o]
           record == [time |-> t, datum |-> <<"LOG_STATUS", flags>>, status |-> {}]
           new == Insert(base, record).info
<1>1. IsLog(base) /\ base.info = o
  BY Reconfigured
<1>2. TL_Insert_Status_Rec([l EXCEPT !.info = o], flags, t).info = new
  BY DEF TL_Insert_Status_Rec
<1> HIDE DEF base, record
<1>3. new = [o EXCEPT !.Index = new.Index, !.Record_Count = new.Record_Count,
                      !.Total_Record_Count = new.Total_Record_Count]
  BY <1>1, InsertedInfo
<1>4. o \in LogInfo
  BY DEF InfoOK
<1> HIDE DEF new
<1>5. QED
  BY <1>2, <1>3, <1>4 DEF LogInfo

LEMMA SwitchedKeeps ==
    ASSUME NEW l, IsLog(l), NEW o, InfoOK(o), NEW t
    PROVE  /\ Switched(l, o, t).info.Enable = o.Enable
           /\ Switched(l, o, t).info.Start_Time = o.Start_Time
           /\ Switched(l, o, t).info.Stop_Time = o.Stop_Time
<1>1. CASE TL_Is_Enabled(l.info, t) = TL_Is_Enabled(o, t)
  BY <1>1, Reconfigured DEF Switched
<1>2. CASE TL_Is_Enabled(l.info, t) # TL_Is_Enabled(o, t)
  <2>1. \E flags : Switched(l, o, t) =
                        TL_Insert_Status_Rec([l EXCEPT !.info = o], flags, t)
    BY <1>2 DEF Switched
  <2>2. QED
    BY <2>1, StatusKeeps
<1>3. QED
  BY <1>1, <1>2

(* What was written and acknowledged is read, but for an interval and a    *)
(* count.                                                                  *)
ReadsAs(outcome, r) ==
    outcome.reply = "ack" =>
        \/ ReadOf(outcome.object.info, r.property) = Answer(r.values)
        \/ r.property \in {"LOG_INTERVAL", "RECORD_COUNT"}

LEMMA AsRead ==
    ASSUME NEW outcome, NEW r,
           outcome.reply = "ack" => Held(outcome.object.info, r.property, r.values)
    PROVE  ReadsAs(outcome, r)
  BY HeldIsRead, Zenon DEF ReadsAs

LEMMA FlagReads ==
    ASSUME NEW l, IsLog(l), NEW t, NEW gaps, NEW r, NEW b \in BOOLEAN,
           FlagWritten(l, r, gaps, t, b)
    PROVE  ReadsAs(Wrote(l, r, gaps, t), r)
<1> DEFINE o == l.info
           write == Wrote(l, r, gaps, t)
<1>1. InfoOK(o) /\ o \in LogInfo
  BY DEF IsLog, InfoOK
<1>2. r.values = <<Boolean(b)>>
  BY DEF FlagWritten
<1>3. \A new : Accept(new).object = new
  BY DEF Accept
<1>4. ASSUME NEW new, NEW valid, NEW code, write = Check(l, valid, code, new),
             write.reply = "ack", code # "ack"
      PROVE  write.object = new
  BY <1>4 DEF Check, Accept, Refuse
<1> SUFFICES ReadsAs(write, r)
  OBVIOUS
<1> HIDE DEF write
<1>5. CASE r.property = "ENABLE" /\ write = WriteEnable(l, b, t)
  <2> DEFINE new == [o EXCEPT !.Enable = b]
  <2>1. InfoOK(new) /\ new.Enable = b
    BY <1>1, PlainFields, 0 \in Int DEF Configured, LogInfo
  <2>2. \E valid : write = Check(l, valid, "LOG_BUFFER_FULL", Switched(l, new, t))
    BY <1>5 DEF WriteEnable
  <2> HIDE DEF new
  <2>3. write.reply = "ack" => write.object = Switched(l, new, t)
    BY <1>4, <2>2
  <2>4. write.reply = "ack" => write.object.info.Enable = b
    BY <2>1, <2>3, SwitchedKeeps
  <2>5. QED
    BY <1>2, <1>5, <2>4, AsRead DEF Held
<1>6. CASE r.property = "STOP_WHEN_FULL" /\ write = WriteStopWhenFull(l, b, t)
  <2> DEFINE new == [o EXCEPT !.Stop_When_Full = b]
             off == [new EXCEPT !.Enable = FALSE]
  <2>1. InfoOK(new) /\ new.Stop_When_Full = b
    BY <1>1, PlainFields, 0 \in Int DEF Configured, LogInfo
  <2>2. InfoOK(off) /\ off.Stop_When_Full = b
    <3> HIDE DEF new
    <3>1. InfoOK(off)
      BY <2>1, PlainFields, 0 \in Int DEF Configured
    <3>2. off.Stop_When_Full = new.Stop_When_Full
      BY <2>1 DEF InfoOK, LogInfo
    <3>3. QED
      BY <2>1, <3>1, <3>2
  <2>3. \/ write.object = [l EXCEPT !.info = new]
        \/ write.object =
            TL_Insert_Status_Rec([l EXCEPT !.info = off], {"LOG_DISABLED"}, t)
    BY <1>6 DEF WriteStopWhenFull, Accept
  <2> HIDE DEF new, off
  <2>4. CASE write.object = [l EXCEPT !.info = new]
    <3>1. write.object.info = new
      BY <2>1, <2>4, Reconfigured
    <3>2. QED
      BY <1>2, <1>6, <2>1, <3>1, AsRead DEF Held
  <2>5. CASE write.object =
                TL_Insert_Status_Rec([l EXCEPT !.info = off], {"LOG_DISABLED"}, t)
    <3>1. write.object.info.Stop_When_Full = off.Stop_When_Full
      BY <2>2, <2>5, StatusKeeps
    <3>2. QED
      BY <1>2, <1>6, <2>2, <3>1, AsRead DEF Held
  <2>6. QED
    BY <2>3, <2>4, <2>5
<1>7. CASE /\ r.property = "ALIGN_INTERVALS"
           /\ write = Accept([l EXCEPT !.info = [o EXCEPT !.Align_Intervals = b]])
  <2>1. write.object.info.Align_Intervals = b
    BY <1>1, <1>3, <1>7 DEF IsLog, LogInfo
  <2>2. QED
    BY <1>2, <1>7, <2>1, AsRead DEF Held
<1>8. CASE r.property = "TRIGGER" /\ write = WriteTrigger(l, b)
  <2>1. write.reply = "ack" => write.object = [l EXCEPT !.info.Trigger = b]
    BY <1>4, <1>8 DEF WriteTrigger
  <2>2. [l EXCEPT !.info.Trigger = b].info.Trigger = b
    BY <1>1 DEF IsLog, LogInfo
  <2>3. write.reply = "ack" => write.object.info.Trigger = b
    BY <2>1, <2>2
  <2>4. QED
    BY <1>2, <1>8, <2>3, AsRead DEF Held
<1>9. QED
  BY <1>5, <1>6, <1>7, <1>8 DEF FlagWritten, write

LEMMA MomentReads ==
    ASSUME NEW l, IsLog(l), NEW t, NEW gaps, NEW r, NEW m \in Int,
           MomentWritten(l, r, gaps, t, m)
    PROVE  ReadsAs(Wrote(l, r, gaps, t), r)
<1> DEFINE o == l.info
           write == Wrote(l, r, gaps, t)
<1>1. InfoOK(o) /\ o \in LogInfo
  BY DEF IsLog, InfoOK
<1>2. r.values = <<Date(m), Time(m)>>
  BY DEF MomentWritten
<1>3. \A new : Accept(new).object = new
  BY DEF Accept
<1> SUFFICES ReadsAs(write, r)
  OBVIOUS
<1> HIDE DEF write
<1>4. CASE /\ r.property = "START_TIME"
           /\ write = Accept(Switched(l, [o EXCEPT !.Start_Time = m], t))
  <2> DEFINE new == [o EXCEPT !.Start_Time = m]
  <2>1. InfoOK(new) /\ new.Start_Time = m
    BY <1>1, PlainFields, TRUE \in BOOLEAN DEF Configured, LogInfo
  <2>2. write.object = Switched(l, new, t)
    BY <1>3, <1>4
  <2> HIDE DEF new
  <2>3. write.object.info.Start_Time = m
    BY <2>1, <2>2, SwitchedKeeps
  <2>4. QED
    BY <1>2, <1>4, <2>3, AsRead DEF Held
<1>5. CASE /\ r.property = "STOP_TIME"
           /\ write = Accept(Switched(l, [o EXCEPT !.Stop_Time = m], t))
  <2> DEFINE new == [o EXCEPT !.Stop_Time = m]
  <2>1. InfoOK(new) /\ new.Stop_Time = m
    BY <1>1, PlainFields, TRUE \in BOOLEAN DEF Configured, LogInfo
  <2>2. write.object = Switched(l, new, t)
    BY <1>3, <1>5
  <2> HIDE DEF new
  <2>3. write.object.info.Stop_Time = m
    BY <2>1, <2>2, SwitchedKeeps
  <2>4. QED
    BY <1>2, <1>5, <2>3, AsRead DEF Held
<1>6. QED
  BY <1>4, <1>5 DEF MomentWritten, write

LEMMA ValueReads ==
    ASSUME NEW l, IsLog(l), NEW t, NEW gaps, NEW r, NEW v,
           ValueWritten(l, r, gaps, t, v)
    PROVE  ReadsAs(Wrote(l, r, gaps, t), r)
<1> DEFINE o == l.info
           write == Wrote(l, r, gaps, t)
<1>1. o \in LogInfo
  BY DEF IsLog, InfoOK
<1>2. r.values = <<v>>
  BY DEF ValueWritten
<1>3. \A new : Accept(new).object = new
  BY DEF Accept
<1> SUFFICES ReadsAs(write, r)
  OBVIOUS
<1> HIDE DEF write
<1>4. CASE r.property \in {"LOG_INTERVAL", "RECORD_COUNT"}
  BY <1>4 DEF ReadsAs
<1>5. ASSUME r.property = "LOGGING_TYPE",
             NEW type \in {"POLLED", "TRIGGERED", "NO_TYPE"}, v = Enumerated(type),
             write = Accept([l EXCEPT !.info = Typed(o, type)])
      PROVE  ReadsAs(write, r)
  <2>1. Typed(o, type).Logging_Type = type
    BY <1>1 DEF Typed, LogInfo
  <2>2. write.object.info.Logging_Type = type
    BY <1>3, <1>5, <2>1 DEF IsLog
  <2>3. QED
    BY <1>2, <1>5, <2>2, AsRead DEF Held
<1>6. CASE /\ r.property = "INTERVAL_OFFSET" /\ v = Unsigned(100)
           /\ write = Accept([l EXCEPT !.info =
                                [o EXCEPT !.Interval_Offset = Hundredths(100)]])
  <2>1. Hundredths(100) * 100 = 100
    BY DEF Hundredths
  <2>2. write.object.info.Interval_Offset = Hundredths(100)
    BY <1>1, <1>3, <1>6 DEF IsLog, LogInfo
  <2>3. QED
    BY <1>2, <1>6, <2>1, <2>2, AsRead DEF Held
<1>7. CASE r.property = "LOG_DEVICE_OBJECT_PROPERTY" /\ write = WriteSource(l, v, gaps, t)
  <2>1. write.reply = "ack" =>
            \E k : IsLog(k) /\ write.object = [k EXCEPT !.info.Source = v]
    BY <1>7, PurgedLog DEF WriteSource, Accept, Refuse
  <2>2. \A k : IsLog(k) => [k EXCEPT !.info.Source = v].info.Source = v
    BY DEF IsLog, InfoOK, LogInfo
  <2>3. write.reply = "ack" => write.object.info.Source = v
    BY <2>1, <2>2
  <2>4. QED
    BY <1>2, <1>7, <2>3, AsRead DEF Held
<1>8. QED
  BY <1>4, <1>5, <1>6, <1>7 DEF ValueWritten, write

(* Whatever the log went through, its listed properties can be read, and a *)
(* request that is acknowledged is read back: also one that switches the   *)
(* log or purges it, and so writes a record of its own as well.            *)
THEOREM LogReadsWhatWasWritten == Spec => []WritesAreRead
<1>1. ASSUME LogInv PROVE WritesAreRead
  <2>1. IsLog(Current)
    BY <1>1 DEF LogInv
  <2>2. ASSUME NEW r \in Requests
        PROVE  ReadsAs(Wrote(Current, r, FALSE, now), r)
    <3>1. \A m \in {Wildcard, 1, 2} : m \in Int
      BY DEF Wildcard
    <3>2. \A b \in BOOLEAN :
            FlagWritten(Current, r, FALSE, now, b)
            => ReadsAs(Wrote(Current, r, FALSE, now), r)
      BY <2>1, FlagReads
    <3>3. \A m \in {Wildcard, 1, 2} :
            MomentWritten(Current, r, FALSE, now, m)
            => ReadsAs(Wrote(Current, r, FALSE, now), r)
      BY <2>1, <3>1, MomentReads
    <3>4. \A v : ValueWritten(Current, r, FALSE, now, v)
                => ReadsAs(Wrote(Current, r, FALSE, now), r)
      BY <2>1, ValueReads
    <3>5. QED
      BY <3>2, <3>3, <3>4, WriteIs
  <2>3. QED
    BY <2>2, CanBeRead DEF WritesAreRead, ReadsAs, ReadOf, Wrote, Written
<1>2. QED
  BY <1>1, TrendLogStaysOne, PTL

----------------------------------------------------------------------------
(* The order of the records.                                               *)

(* Records from before a moment, none of them before the one it follows.   *)
InOrder(s, t) ==
    /\ \A p \in 1 .. Len(s) : s[p].time \in Nat /\ s[p].time <= t
    /\ \A p, q \in 1 .. Len(s) : p < q => s[p].time <= s[q].time

LEMMA LaterInOrder ==
    ASSUME NEW s, NEW t \in Nat, NEW u \in Nat, t <= u, InOrder(s, t)
    PROVE  InOrder(s, u)
<1>1. ASSUME NEW p \in 1 .. Len(s)
      PROVE  s[p].time \in Nat /\ s[p].time <= u
  <2>1. s[p].time \in Nat /\ s[p].time <= t
    BY DEF InOrder
  <2>2. QED
    BY <2>1
<1>2. QED
  BY <1>1 DEF InOrder

LEMMA AppendInOrder ==
    ASSUME NEW S, NEW s \in Seq(S), NEW e \in S, NEW t \in Nat,
           InOrder(s, t), e.time = t
    PROVE  InOrder(Append(s, e), t)
<1> DEFINE a == Append(s, e)
           n == Len(s)
<1>1. /\ n \in Nat /\ Len(a) = n + 1 /\ a[n + 1] = e
      /\ \A p \in 1 .. n : a[p] = s[p]
  OBVIOUS
<1> HIDE DEF a
<1>2. /\ \A p \in 1 .. n : s[p].time \in Nat /\ s[p].time <= t
      /\ \A p, q \in 1 .. n : p < q => s[p].time <= s[q].time
  BY DEF InOrder
<1> HIDE DEF n
<1>3. ASSUME NEW p \in 1 .. n + 1
      PROVE  p \in 1 .. n \/ p = n + 1
  BY <1>1
<1>4. ASSUME NEW p \in 1 .. n + 1
      PROVE  a[p].time \in Nat /\ a[p].time <= t
  BY <1>1, <1>2, <1>3
<1>5. ASSUME NEW p \in 1 .. n + 1, NEW q \in 1 .. n + 1, p < q
      PROVE  a[p].time <= a[q].time
  <2>1. p \in 1 .. n
    BY <1>1, <1>5
  <2>2. CASE q \in 1 .. n
    BY <1>1, <1>2, <1>5, <2>1, <2>2
  <2>3. CASE q = n + 1
    BY <1>1, <1>2, <2>1, <2>3
  <2>4. QED
    BY <1>3, <2>2, <2>3
<1>6. QED
  BY <1>1, <1>4, <1>5 DEF InOrder, a

LEMMA TailInOrder ==
    ASSUME NEW S, NEW s \in Seq(S), s # <<>>, NEW t, InOrder(s, t)
    PROVE  InOrder(Tail(s), t)
<1> DEFINE a == Tail(s)
           n == Len(s)
<1>1. /\ n \in Nat /\ n > 0 /\ Len(a) = n - 1
      /\ \A p \in 1 .. n - 1 : a[p] = s[p + 1]
  BY HeadTailProperties, EmptySeq
<1> HIDE DEF a
<1>2. /\ \A p \in 1 .. n : s[p].time \in Nat /\ s[p].time <= t
      /\ \A p, q \in 1 .. n : p < q => s[p].time <= s[q].time
  BY DEF InOrder
<1> HIDE DEF n
<1>3. \A p \in 1 .. n - 1 : p + 1 \in 1 .. n
  BY <1>1
<1>4. ASSUME NEW p \in 1 .. n - 1, NEW q \in 1 .. n - 1, p < q
      PROVE  a[p].time <= a[q].time
  <2>1. p + 1 < q + 1
    BY <1>4
  <2>2. QED
    BY <1>1, <1>2, <1>3, <2>1
<1>5. QED
  BY <1>1, <1>2, <1>3, <1>4 DEF InOrder, a

LEMMA InsertInOrder ==
    ASSUME NEW l, IsLog(l), NEW t \in Nat, InOrder(View(l), t),
           NEW record, record.time = t
    PROVE  InOrder(View(Insert(l, record)), t)
<1> DEFINE S == {Entry(l, p) : p \in 1 .. l.info.Record_Count} \cup {record}
           s == View(l)
           a == Append(s, record)
<1>1. \A p \in 1 .. l.info.Record_Count : Entry(l, p) \in S
  OBVIOUS
<1>2. record \in S
  OBVIOUS
<1> HIDE DEF S
<1>3. s \in Seq(S)
  BY <1>1, ViewIs
<1> HIDE DEF s
<1>4. InOrder(a, t) /\ a \in Seq(S) /\ a # <<>>
  BY <1>2, <1>3, AppendInOrder DEF s
<1> HIDE DEF a
<1>5. InOrder(Shown!Latest(a), t)
  BY <1>4, TailInOrder DEF Shown!Latest
<1>6. QED
  BY <1>5, InsertShows DEF a, s

LEMMA OutcomeInOrder ==
    ASSUME NEW l, IsLog(l), NEW t \in Nat, InOrder(View(l), t),
           NEW new, Outcome(l, new, t)
    PROVE  InOrder(View(new), t)
<1>1. CASE new.ring = l.ring /\ Configured(l.info, new.info)
  BY <1>1, SameView DEF Configured
<1>2. ASSUME NEW o, Configured(l.info, o), NEW flags,
             new = TL_Insert_Status_Rec([l EXCEPT !.info = o], flags, t)
      PROVE  InOrder(View(new), t)
  <2> DEFINE base == [l EXCEPT !.info = o]
             record == [time |-> t, datum |-> <<"LOG_STATUS", flags>>,
                        status |-> {}]
  <2>1. IsLog(base) /\ base.info = o /\ base.ring = l.ring
    BY <1>2, Reconfigured DEF Configured
  <2>2. View(base) = View(l)
    BY <1>2, <2>1, SameView DEF Configured
  <2>3. new = Insert(base, record) /\ record.time = t
    BY <1>2 DEF TL_Insert_Status_Rec
  <2> HIDE DEF base, record
  <2>4. QED
    BY <2>1, <2>2, <2>3, InsertInOrder
<1>3. CASE new.info.Record_Count = 1 /\ Entry(new, 1).time = t
  <2>1. Len(View(new)) = 1 /\ View(new)[1] = Entry(new, 1)
    <3>1. IsLog(new) /\ 1 \in 1 .. 1
      BY DEF Outcome
    <3>2. QED
      BY <1>3, <3>1, ViewLength
  <2>2. \A p, q \in 1 .. 1 : p = 1 /\ ~(p < q)
    OBVIOUS
  <2>3. t <= t
    OBVIOUS
  <2>4. QED
    BY <1>3, <2>1, <2>2, <2>3 DEF InOrder
<1>4. QED
  BY <1>1, <1>2, <1>3 DEF Outcome

LEMMA TimerInOrder ==
    ASSUME NEW l, IsLog(l), NEW read, NEW t \in Nat, InOrder(View(l), t)
    PROVE  InOrder(View(trend_log_timer(l, read, t)), t)
<1> DEFINE reading == TL_fetch_property(l, read, t)
           Spent(k) == [k EXCEPT !.info.Trigger = FALSE]
<1>1. IsLog(reading)
  BY Fetched
<1>2. InOrder(View(reading), t)
  <2> DEFINE o == [l.info EXCEPT !.Last_Data_Time = t]
             base == [l EXCEPT !.info = o]
  <2>1. l.info \in LogInfo /\ InfoOK(l.info)
    BY DEF IsLog, InfoOK
  <2>2. /\ InfoOK(o)
        /\ o.Index = l.info.Index /\ o.Record_Count = l.info.Record_Count
    BY <2>1 DEF InfoOK, LogInfo
  <2>3. PICK record : /\ reading = Insert([l EXCEPT !.info.Last_Data_Time = t], record)
                      /\ record.time = t
    BY DEF TL_fetch_property
  <2>4. [l EXCEPT !.info.Last_Data_Time = t] = base
    BY DEF IsLog
  <2> HIDE DEF o, reading
  <2>5. IsLog(base) /\ base.info = o /\ base.ring = l.ring
    BY <2>2, Reconfigured
  <2>6. View(base) = View(l)
    BY <2>2, <2>5, SameView
  <2> HIDE DEF base
  <2>7. QED
    BY <2>3, <2>4, <2>5, <2>6, InsertInOrder
<1>3. trend_log_timer(l, read, t) \in {l, Spent(l), Spent(reading)}
  BY DEF trend_log_timer
<1>4. View(Spent(l)) = View(l)
  BY SpentLog
<1>5. View(Spent(reading)) = View(reading)
  BY <1>1, SpentLog
<1> HIDE DEF reading, Spent
<1>6. QED
  BY <1>2, <1>3, <1>4, <1>5

OrderInv == LogInv /\ InOrder(View(Current), now)

LEMMA InitiallyInOrder == Init => OrderInv
<1> SUFFICES ASSUME Init PROVE InOrder(View(Current), 0)
  BY InitiallyLog DEF OrderInv, Init
<1> DEFINE l == Current
           n == l.info.Record_Count
<1>1. IsLog(l)
  BY InitiallyLog DEF LogInv
<1>2. ASSUME NEW p \in 1 .. n PROVE View(l)[p].time = 0
  <2>1. /\ n \in 0 .. TL_MAX_ENTRIES /\ l.info.Index \in Cells
        /\ n < TL_MAX_ENTRIES => l.info.Index = n
    BY <1>1 DEF IsLog, InfoOK, LogInfo
  <2>2. Entry(l, p) = l.ring[Place(l.info, p)]
    BY <1>1, EntryPlace
  <2>3. Place(l.info, p) \in Cells
    <3> DEFINE i == l.info.Index
    <3> HIDE DEF n, i
    <3>1. i \in Cells /\ n \in 0 .. TL_MAX_ENTRIES
      BY <2>1 DEF i
    <3>2. Spot(i, n, p) \in Cells
      BY <3>1, TrendLogConstants DEF Spot, Cells
    <3>3. QED
      BY <3>2 DEF Place, i, n
  <2>4. \A c \in Cells : l.ring[c].time = 0
    BY DEF Current, Init, Trend_Log_Init, Cells
  <2>5. View(l)[p] = Entry(l, p)
    BY <1>1, ViewLength
  <2>6. QED
    BY <2>2, <2>3, <2>4, <2>5
<1>3. Len(View(l)) = n
  BY <1>1, ViewLength
<1> HIDE DEF l, n
<1>4. QED
  BY <1>2, <1>3 DEF InOrder, l

LEMMA StaysInOrder == OrderInv /\ [Next]_vars => OrderInv'
<1> SUFFICES ASSUME OrderInv, [Next]_vars
             PROVE  InOrder(View(Current'), now')
  BY StaysLog DEF OrderInv
<1>1. LogInv /\ IsLog(Current) /\ now \in Nat /\ InOrder(View(Current), now)
  BY DEF OrderInv, LogInv
<1>2. CASE Outcome(Current, Current', now) /\ now' = now
  BY <1>1, <1>2, OutcomeInOrder
<1>3. ASSUME NEW read, now' = now + 1,
             Current' = trend_log_timer(Current, read, now')
      PROVE  InOrder(View(Current'), now')
  <2>1. now' \in Nat /\ now <= now'
    BY <1>1, <1>3
  <2>2. InOrder(View(Current), now')
    BY <1>1, <2>1, LaterInOrder
  <2>3. QED
    BY <1>1, <1>3, <2>1, <2>2, TimerInOrder
<1>4. CASE Current' = Current /\ UNCHANGED vars
  BY <1>1, <1>4 DEF vars
<1>5. QED
  BY <1>1, <1>2, <1>3, <1>4, Steps

(* Whatever is written, purged and logged, the records that are shown are  *)
(* in the order of their times: what ReadRange by time relies on.          *)
THEOREM RecordsStayInOrder == Spec => []OrderInv
  BY InitiallyInOrder, StaysInOrder, PTL DEF Spec

----------------------------------------------------------------------------
(* What ReadRange answers.                                                 *)

(* A nonempty set of naturals has a least element.                         *)
LEMMA Minimum ==
    ASSUME NEW S \in SUBSET Nat, S # {}
    PROVE  \E m \in S : \A n \in S : m <= n
<1> DEFINE R == {ss \in Nat \X Nat : ss[1] < ss[2]}
<1>1. IsWellFoundedOn(R, Nat)
  BY NatLessThanWellFounded, Zenon DEF OpToRel
<1>2. PICK m \in S : \A n \in S : ~(<<n, m>> \in R)
  BY <1>1, WFMin, Zenon
<1>3. ASSUME NEW n \in S PROVE m <= n
  <2>1. ~(<<n, m>> \in R)
    BY <1>2, Zenon
  <2>2. n \in Nat /\ m \in Nat
    OBVIOUS
  <2>3. ~(n < m)
    BY <2>1, <2>2
  <2>4. QED
    BY <2>2, <2>3
<1>4. QED
  BY <1>3

LEMMA MinOfPositions ==
    ASSUME NEW n \in Nat, NEW S \in SUBSET (1 .. n), S # {}
    PROVE  Min(S) \in S /\ \A p \in S : Min(S) <= p
<1>1. \E m \in S : \A p \in S : m <= p
  BY Minimum
<1>2. QED
  BY <1>1 DEF Min

LEMMA MaxOfPositions ==
    ASSUME NEW n \in Nat, NEW S \in SUBSET (1 .. n), S # {}
    PROVE  Max(S) \in S /\ \A p \in S : Max(S) >= p
<1> DEFINE T == {n - p : p \in S}
<1>1. T \in SUBSET Nat /\ T # {}
  <2>1. \A p \in S : n - p \in Nat
    OBVIOUS
  <2>2. QED
    BY <2>1
<1>2. PICK m \in T : \A k \in T : m <= k
  BY <1>1, Minimum
<1>3. PICK q \in S : m = n - q
  BY <1>2
<1>4. ASSUME NEW p \in S PROVE q >= p
  <2>1. n - q <= n - p
    BY <1>2, <1>3
  <2>2. QED
    BY <2>1
<1>5. QED
  BY <1>4 DEF Max

LEMMA MinOfRange ==
    ASSUME NEW first \in Int, NEW last \in Int, first <= last
    PROVE  Min(first .. last) = first
<1>1. first \in first .. last /\ \A p \in first .. last : first <= p
  OBVIOUS
<1>2. ASSUME NEW m \in first .. last, \A p \in first .. last : m <= p
      PROVE  m = first
  BY <1>1, <1>2
<1>3. QED
  BY <1>1, <1>2 DEF Min

(* An answer with the records from one position to another, where those    *)
(* are what was asked for; or with none, where nothing was.                *)
Told(l, answer, asked, numbered) ==
    \/ asked = {} /\ answer = Nothing
    \/ \E first \in 1 .. l.info.Record_Count :
        \E last \in first .. l.info.Record_Count : \E sequence :
            /\ asked = first .. last
            /\ answer = Entries(l, first, last, TL_MAX_ENTRIES, sequence)
            /\ numbered =>
                sequence = (OldestSequence(l.info) + first - 1) % SEQUENCES

(* What RangesAgree says of an answer.                                     *)
Agrees(l, answer, asked, numbered) ==
    /\ Len(answer.entries) = Cardinality(asked)
    /\ asked # {} =>
        /\ \A i \in DOMAIN answer.entries :
            answer.entries[i] = Entry(l, Min(asked) + i - 1)
        /\ answer.FIRST_ITEM = (1 \in asked)
        /\ answer.LAST_ITEM = (l.info.Record_Count \in asked)
        /\ numbered => answer.firstSequence =
            (OldestSequence(l.info) + Min(asked) - 1) % SEQUENCES

LEMMA ToldAgrees ==
    ASSUME NEW l, IsLog(l), NEW answer, NEW asked, NEW numbered,
           Told(l, answer, asked, numbered)
    PROVE  Agrees(l, answer, asked, numbered)
<1> DEFINE n == l.info.Record_Count
<1>1. CASE asked = {} /\ answer = Nothing
  <2>1. Cardinality({}) = 0
    BY FS_EmptySet
  <2>2. QED
    BY <1>1, <2>1 DEF Agrees, Nothing
<1>2. ASSUME NEW first \in 1 .. n, NEW last \in first .. n, NEW sequence,
             asked = first .. last,
             answer = Entries(l, first, last, TL_MAX_ENTRIES, sequence),
             numbered =>
                sequence = (OldestSequence(l.info) + first - 1) % SEQUENCES
      PROVE  Agrees(l, answer, asked, numbered)
  <2>1. n \in 0 .. TL_MAX_ENTRIES /\ TL_MAX_ENTRIES \in Nat
    BY TrendLogConstants DEF IsLog, InfoOK, LogInfo
  <2> HIDE DEF n
  <2>2. first \in Int /\ last \in Int /\ first <= last /\ 1 <= first /\ last <= n
        /\ first + TL_MAX_ENTRIES - 1 \in Int
        /\ last <= first + TL_MAX_ENTRIES - 1
    BY <2>1
  <2>3. Min({last, first + TL_MAX_ENTRIES - 1}) = last
    BY <2>2, MinOfTwo
  <2>4. /\ answer.entries =
                [i \in 1 .. last - first + 1 |-> Entry(l, first + i - 1)]
        /\ answer.FIRST_ITEM = (first = 1) /\ answer.LAST_ITEM = (last = n)
        /\ answer.firstSequence = sequence
    BY <1>2, <2>3 DEF Entries, n
  <2> DEFINE entries == answer.entries
             k == last - first + 1
  <2>5. k \in Nat
    BY <2>2
  <2>6. Len(entries) = k
    <3> HIDE DEF k
    <3> SUFFICES Len([i \in 1 .. k |-> Entry(l, first + i - 1)]) = k
      BY <2>4 DEF k
    <3>1. QED
      BY <2>5
  <2>7. Cardinality(asked) = k
    BY <1>2, <2>2, FS_Interval
  <2>8. Min(asked) = first
    BY <1>2, <2>2, MinOfRange
  <2>9. (1 \in asked) = (first = 1) /\ (n \in asked) = (last = n)
    <3>1. (1 \in first .. last) <=> (first = 1)
      BY <2>2
    <3>2. (n \in first .. last) <=> (last = n)
      BY <2>1, <2>2
    <3>3. QED
      BY <1>2, <3>1, <3>2
  <2>10. \A i \in DOMAIN entries : entries[i] = Entry(l, first + i - 1)
    BY <2>4
  <2>11. QED
    BY <1>2, <2>4, <2>6, <2>7, <2>8, <2>9, <2>10 DEF Agrees, n
<1>3. QED
  BY <1>1, <1>2 DEF Told

----------------------------------------------------------------------------
(* By position.                                                            *)

AskedPositions(l, ref, count) ==
    {p \in 1 .. l.info.Record_Count :
        IF count > 0 THEN p - ref \in 0 .. count - 1
        ELSE p - ref \in count + 1 .. 0}

LEMMA PositionsTold ==
    ASSUME NEW l, IsLog(l), NEW ref \in Nat \ {0}, NEW count \in Int \ {0}
    PROVE  Told(l, TL_encode_by_position(l, ref, count, TL_MAX_ENTRIES),
                AskedPositions(l, ref, count), FALSE)
<1> DEFINE n == l.info.Record_Count
           asked == {p \in 1 .. n : IF count > 0 THEN p - ref \in 0 .. count - 1
                                    ELSE p - ref \in count + 1 .. 0}
           answer == TL_encode_by_position(l, ref, count, TL_MAX_ENTRIES)
           first == IF count > 0 THEN ref ELSE Max({1, ref + count + 1})
           end == IF count > 0 THEN ref + count - 1 ELSE ref
           last == Min({end, n})
<1>1. n \in Nat
  BY TrendLogConstants DEF IsLog, InfoOK, LogInfo
<1>2. answer = IF first > n THEN Nothing
               ELSE Entries(l, first, last, TL_MAX_ENTRIES, 0)
  BY DEF TL_encode_by_position
<1> SUFFICES Told(l, answer, asked, FALSE)
  BY DEF AskedPositions
<1> HIDE DEF answer, n
<1>3. /\ first \in Int /\ first >= 1 /\ end \in Int /\ first <= end
      /\ \A p \in 1 .. n : p \in asked <=> first <= p /\ p <= end
  <2>1. CASE count > 0
    <3>1. first = ref /\ end = ref + count - 1
      BY <2>1
    <3>2. ASSUME NEW p \in 1 .. n
          PROVE  p \in asked <=> first <= p /\ p <= end
      BY <1>1, <2>1, <3>1
    <3>3. QED
      BY <2>1, <3>1, <3>2
  <2>2. CASE ~(count > 0)
    <3>1. Max({1, ref + count + 1}) =
            IF 1 >= ref + count + 1 THEN 1 ELSE ref + count + 1
      BY MaxOfTwo
    <3>2. end = ref /\ first = IF 1 >= ref + count + 1 THEN 1 ELSE ref + count + 1
      BY <2>2, <3>1
    <3> HIDE DEF first, end
    <3>3. ASSUME NEW p \in 1 .. n
          PROVE  p \in asked <=> first <= p /\ p <= end
      BY <1>1, <2>2, <3>2
    <3>4. first \in Int /\ first >= 1 /\ end \in Int /\ first <= end
      BY <2>2, <3>2
    <3>5. QED
      BY <3>3, <3>4
  <2>3. QED
    BY <2>1, <2>2
<1>4. asked \subseteq 1 .. n
  OBVIOUS
<1> HIDE DEF asked, first, end
<1>5. last = IF end <= n THEN end ELSE n
  BY <1>1, <1>3, MinOfTwo
<1> HIDE DEF last
<1>6. CASE first > n
  <2>1. asked = {}
    BY <1>1, <1>3, <1>4, <1>6
  <2>2. QED
    BY <1>2, <1>6, <2>1 DEF Told
<1>7. CASE first <= n
  <2>1. asked = first .. last
    <3>1. last \in Int /\ last <= n /\ last <= end
      BY <1>1, <1>3, <1>5
    <3>2. ASSUME NEW p \in asked PROVE p \in first .. last
      <4>1. p \in 1 .. n /\ first <= p /\ p <= end
        BY <1>3, <1>4
      <4>2. QED
        BY <1>1, <1>3, <1>5, <4>1
    <3>3. ASSUME NEW p \in first .. last PROVE p \in asked
      <4>1. p \in 1 .. n /\ first <= p /\ p <= end
        BY <1>1, <1>3, <3>1
      <4>2. QED
        BY <1>3, <4>1
    <3>4. QED
      BY <3>2, <3>3
  <2>2. first \in 1 .. n /\ last \in first .. n
    BY <1>1, <1>3, <1>5, <1>7
  <2>3. answer = Entries(l, first, last, TL_MAX_ENTRIES, 0)
    BY <1>1, <1>2, <1>3, <1>7
  <2>4. QED
    BY <2>1, <2>2, <2>3 DEF Told, n
<1>8. first > n \/ first <= n
  BY <1>1, <1>3
<1>9. QED
  BY <1>6, <1>7, <1>8

----------------------------------------------------------------------------
(* By sequence number.                                                     *)

LEMMA Residues ==
    ASSUME NEW a \in Int
    PROVE  /\ a \in 0 .. SEQUENCES - 1 => a % SEQUENCES = a
           /\ a \in -SEQUENCES .. -1 => a % SEQUENCES = a + SEQUENCES
           /\ a \in SEQUENCES .. 2 * SEQUENCES - 1
              => a % SEQUENCES = a - SEQUENCES
<1> USE TrendLogConstants
<1>1. a \in 0 .. SEQUENCES - 1 => a % SEQUENCES = a
  OBVIOUS
<1>2. a \in -SEQUENCES .. -1 => a % SEQUENCES = a + SEQUENCES
  OBVIOUS
<1>3. a \in SEQUENCES .. 2 * SEQUENCES - 1 => a % SEQUENCES = a - SEQUENCES
  OBVIOUS
<1>4. QED
  BY <1>1, <1>2, <1>3

(* The numbers that a request asks for, begin to end, which may start      *)
(* again at 0 in between.                                                  *)
Between(begin, end, s) ==
    IF begin <= end THEN begin <= s /\ s <= end ELSE begin <= s \/ s <= end

(* The place of a number among those that a request asks for: forward from *)
(* its reference, and back to it.                                          *)
LEMMA PlaceForward ==
    ASSUME NEW ref \in 0 .. SEQUENCES - 1, NEW s \in 0 .. SEQUENCES - 1,
           NEW count \in 1 .. SEQUENCES
    PROVE  LET d == (s - ref) % SEQUENCES
               end == (ref + count - 1) % SEQUENCES
           IN  /\ end \in 0 .. SEQUENCES - 1
               /\ ref > end => ref - end = SEQUENCES + 1 - count
               /\ d \in 0 .. count - 1 <=> Between(ref, end, s)
<1> USE TrendLogConstants
<1> DEFINE d == (s - ref) % SEQUENCES
           e == ref + count - 1
           end == e % SEQUENCES
<1>1. d = IF s >= ref THEN s - ref ELSE s - ref + SEQUENCES
  <2>1. s - ref \in Int
    OBVIOUS
  <2>2. CASE s >= ref
    <3>1. s - ref \in 0 .. SEQUENCES - 1
      BY <2>2
    <3>2. QED
      BY <2>1, <2>2, <3>1, Residues
  <2>3. CASE s < ref
    <3>1. s - ref \in -SEQUENCES .. -1
      BY <2>3
    <3>2. QED
      BY <2>1, <2>3, <3>1, Residues
  <2>4. QED
    BY <2>2, <2>3
<1>2. end = IF e < SEQUENCES THEN e ELSE e - SEQUENCES
  <2>1. e \in Int /\ e \in 0 .. 2 * SEQUENCES - 1
    OBVIOUS
  <2> HIDE DEF e
  <2>2. CASE e < SEQUENCES
    <3>1. e \in 0 .. SEQUENCES - 1
      BY <2>1, <2>2
    <3>2. QED
      BY <2>1, <2>2, <3>1, Residues
  <2>3. CASE e >= SEQUENCES
    <3>1. e \in SEQUENCES .. 2 * SEQUENCES - 1
      BY <2>1, <2>3
    <3>2. QED
      BY <2>1, <2>3, <3>1, Residues
  <2>4. QED
    BY <2>1, <2>2, <2>3
<1> HIDE DEF d, end
<1>3. /\ end \in 0 .. SEQUENCES - 1
      /\ ref > end => ref - end = SEQUENCES + 1 - count
  BY <1>2
<1>4. d \in 0 .. count - 1 <=> Between(ref, end, s)
  <2>1. CASE e < SEQUENCES
    BY <1>1, <1>2, <2>1 DEF Between
  <2>2. CASE e >= SEQUENCES
    BY <1>1, <1>2, <2>2 DEF Between
  <2>3. QED
    BY <2>1, <2>2
<1>5. QED
  BY <1>3, <1>4 DEF d, end

LEMMA PlaceBack ==
    ASSUME NEW ref \in 0 .. SEQUENCES - 1, NEW s \in 0 .. SEQUENCES - 1,
           NEW count \in -SEQUENCES .. -1
    PROVE  LET d == (s - ref) % SEQUENCES
               begin == (ref + count + 1) % SEQUENCES
               place == IF d = 0 THEN d ELSE d - SEQUENCES
           IN  /\ begin \in 0 .. SEQUENCES - 1
               /\ begin > ref => begin - ref = SEQUENCES + 1 + count
               /\ place \in count + 1 .. 0 <=> Between(begin, ref, s)
<1> USE TrendLogConstants
<1> DEFINE d == (s - ref) % SEQUENCES
           b == ref + count + 1
           begin == b % SEQUENCES
           place == IF d = 0 THEN d ELSE d - SEQUENCES
<1>1. d = IF s >= ref THEN s - ref ELSE s - ref + SEQUENCES
  <2>1. s - ref \in Int
    OBVIOUS
  <2>2. CASE s >= ref
    <3>1. s - ref \in 0 .. SEQUENCES - 1
      BY <2>2
    <3>2. QED
      BY <2>1, <2>2, <3>1, Residues
  <2>3. CASE s < ref
    <3>1. s - ref \in -SEQUENCES .. -1
      BY <2>3
    <3>2. QED
      BY <2>1, <2>3, <3>1, Residues
  <2>4. QED
    BY <2>2, <2>3
<1>2. begin = IF b >= 0 THEN b ELSE b + SEQUENCES
  <2>1. b \in Int /\ b \in -SEQUENCES .. SEQUENCES - 1
    OBVIOUS
  <2> HIDE DEF b
  <2>2. CASE b >= 0
    <3>1. b \in 0 .. SEQUENCES - 1
      BY <2>1, <2>2
    <3>2. QED
      BY <2>1, <2>2, <3>1, Residues
  <2>3. CASE b < 0
    <3>1. b \in -SEQUENCES .. -1
      BY <2>1, <2>3
    <3>2. QED
      BY <2>1, <2>3, <3>1, Residues
  <2>4. QED
    BY <2>1, <2>2, <2>3
<1> HIDE DEF d, begin
<1>3. /\ begin \in 0 .. SEQUENCES - 1
      /\ begin > ref => begin - ref = SEQUENCES + 1 + count
  BY <1>2
<1>4. place = IF s > ref THEN s - ref - SEQUENCES ELSE s - ref
  BY <1>1
<1> HIDE DEF place
<1>5. place \in count + 1 .. 0 <=> Between(begin, ref, s)
  <2>1. CASE b >= 0
    BY <1>2, <1>4, <2>1 DEF Between
  <2>2. CASE b < 0
    BY <1>2, <1>4, <2>2 DEF Between
  <2>3. QED
    BY <2>1, <2>2
<1>6. QED
  BY <1>3, <1>5 DEF d, begin, place

(* What is asked for of the numbers of a log that does not start again at  *)
(* 0: those from one to another.                                           *)
Outside(begin, end, oldest, total) ==
    IF begin > end THEN begin > total /\ end < oldest
    ELSE end < oldest \/ begin > total

From(begin, end, oldest) ==
    IF begin > end /\ end >= oldest THEN oldest
    ELSE IF begin >= oldest THEN begin ELSE oldest

To(begin, end, oldest, total) ==
    IF begin > end /\ end < oldest THEN total
    ELSE IF end <= total THEN end ELSE total

LEMMA Window ==
    ASSUME NEW oldest \in Nat, NEW total \in Nat, oldest <= total,
           NEW begin \in Nat, NEW end \in Nat,
           begin > end => begin - end > total - oldest
    PROVE  LET from == From(begin, end, oldest)
               to == To(begin, end, oldest, total)
           IN  IF Outside(begin, end, oldest, total)
               THEN \A s \in oldest .. total : ~Between(begin, end, s)
               ELSE /\ from \in oldest .. total /\ to \in from .. total
                    /\ \A s \in oldest .. total :
                        Between(begin, end, s) <=> from <= s /\ s <= to
<1> USE DEF Outside, From, To
<1>1. CASE begin > end
  <2>1. CASE begin > total /\ end < oldest
    BY <1>1, <2>1 DEF Between
  <2>2. CASE end >= oldest
    <3>1. begin > total
      BY <1>1, <2>2
    <3>2. QED
      BY <1>1, <2>2, <3>1 DEF Between
  <2>3. CASE end < oldest /\ begin <= total
    BY <1>1, <2>3 DEF Between
  <2>4. QED
    BY <2>1, <2>2, <2>3
<1>2. CASE begin <= end
  BY <1>2 DEF Between
<1>3. QED
  BY <1>1, <1>2

(* Sequence numbers that a log of this size cannot hold twice: the code    *)
(* has 1000 records and 2^32 numbers.                                      *)
NumbersSuffice == 2 * TL_MAX_ENTRIES <= SEQUENCES

Asks(ref, count, s) ==
    LET d == (s - ref) % SEQUENCES
        place == IF count > 0 \/ d = 0 THEN d ELSE d - SEQUENCES
    IN  IF count > 0 THEN place \in 0 .. count - 1
        ELSE place \in count + 1 .. 0

AskedNumber(l, ref, count, p) ==
    Asks(ref, count, OldestSequence(l.info) + p - 1)

AskedNumbers(l, ref, count) ==
    {p \in 1 .. l.info.Record_Count : AskedNumber(l, ref, count, p)}

LEMMA SequencesTold ==
    ASSUME NumbersSuffice, NEW l, IsLog(l), l.info.Record_Count > 0,
           OldestSequence(l.info) <= l.info.Total_Record_Count,
           NEW ref \in 0 .. SEQUENCES - 1,
           NEW count \in -(TL_MAX_ENTRIES + 1) .. TL_MAX_ENTRIES + 1, count # 0
    PROVE  Told(l, TL_encode_by_sequence(l, ref, count, TL_MAX_ENTRIES),
                AskedNumbers(l, ref, count), TRUE)
<1> USE TrendLogConstants
<1> DEFINE n == l.info.Record_Count
           total == l.info.Total_Record_Count
           oldest == OldestSequence(l.info)
           asked == {p \in 1 .. n : AskedNumber(l, ref, count, p)}
           answer == TL_encode_by_sequence(l, ref, count, TL_MAX_ENTRIES)
           begin == IF count > 0 THEN ref ELSE (ref + count + 1) % SEQUENCES
           end == IF count > 0 THEN (ref + count - 1) % SEQUENCES ELSE ref
           outside == Outside(begin, end, oldest, total)
           from == From(begin, end, oldest)
           to == To(begin, end, oldest, total)
           first == from - oldest + 1
           last == to - oldest + 1
<1>1. /\ n \in 1 .. TL_MAX_ENTRIES /\ total \in 0 .. SEQUENCES - 1
      /\ oldest = (total - (n - 1)) % SEQUENCES
      /\ oldest <= total
  BY DEF IsLog, InfoOK, LogInfo, OldestSequence
<1> SUFFICES Told(l, answer, asked, TRUE)
  BY DEF AskedNumbers
<1>2. oldest = total - n + 1 /\ oldest \in Nat /\ total - oldest = n - 1
  <2> DEFINE a == total - (n - 1)
  <2> HIDE DEF n, total, oldest
  <2>1. a \in Int /\ a \in -SEQUENCES .. SEQUENCES - 1
    BY <1>1
  <2>2. CASE a >= 0
    <3>1. a \in 0 .. SEQUENCES - 1
      BY <2>1, <2>2
    <3>2. oldest = a
      BY <1>1, <2>1, <3>1, Residues
    <3>3. QED
      BY <1>1, <2>1, <2>2, <3>2
  <2>3. CASE a < 0
    <3>1. a \in -SEQUENCES .. -1
      BY <2>1, <2>3
    <3>2. oldest = a + SEQUENCES
      BY <1>1, <2>1, <3>1, Residues
    <3>3. FALSE
      BY <1>1, <3>2
    <3>4. QED
      BY <3>3
  <2>4. QED
    BY <2>1, <2>2, <2>3
<1>3. count > 0 => count \in 1 .. SEQUENCES
  OBVIOUS
<1>4. ~(count > 0) => count \in -SEQUENCES .. -1
  OBVIOUS
<1> HIDE DEF n, total, oldest
<1>5. ASSUME NEW p \in 1 .. n
      PROVE  oldest + p - 1 \in oldest .. total /\ oldest + p - 1 \in 0 .. SEQUENCES - 1
  BY <1>1, <1>2
<1>6. /\ begin \in 0 .. SEQUENCES - 1 /\ end \in 0 .. SEQUENCES - 1
      /\ begin > end => begin - end > total - oldest
      /\ \A p \in 1 .. n : p \in asked <=> Between(begin, end, oldest + p - 1)
  <2>1. CASE count > 0
    <3>1. /\ end \in 0 .. SEQUENCES - 1
          /\ ref > end => ref - end = SEQUENCES + 1 - count
      BY <1>3, <2>1, PlaceForward
    <3>2. ASSUME NEW p \in 1 .. n
          PROVE  AskedNumber(l, ref, count, p) <=> Between(ref, end, oldest + p - 1)
      <4> DEFINE s == oldest + p - 1
      <4>1. s \in 0 .. SEQUENCES - 1
        BY <1>5
      <4>2. AskedNumber(l, ref, count, p) <=> Asks(ref, count, s)
        BY DEF AskedNumber, oldest
      <4> HIDE DEF s
      <4>3. Asks(ref, count, s) <=> (s - ref) % SEQUENCES \in 0 .. count - 1
        BY <2>1 DEF Asks
      <4>4. (s - ref) % SEQUENCES \in 0 .. count - 1 <=> Between(ref, end, s)
        BY <1>3, <2>1, <4>1, PlaceForward
      <4>5. QED
        BY <4>2, <4>3, <4>4 DEF s
    <3>3. begin = ref
      BY <2>1
    <3> HIDE DEF begin, end
    <3>4. begin > end => begin - end > total - oldest
      BY <1>1, <1>2, <3>1, <3>3 DEF NumbersSuffice
    <3>5. QED
      BY <3>1, <3>2, <3>3, <3>4
  <2>2. CASE ~(count > 0)
    <3>1. /\ begin \in 0 .. SEQUENCES - 1
          /\ begin > ref => begin - ref = SEQUENCES + 1 + count
      BY <1>4, <2>2, PlaceBack
    <3>2. ASSUME NEW p \in 1 .. n
          PROVE  AskedNumber(l, ref, count, p) <=> Between(begin, ref, oldest + p - 1)
      <4> DEFINE s == oldest + p - 1
                 d == (s - ref) % SEQUENCES
                 place == IF d = 0 THEN d ELSE d - SEQUENCES
      <4>1. s \in 0 .. SEQUENCES - 1
        BY <1>5
      <4>2. AskedNumber(l, ref, count, p) <=> Asks(ref, count, s)
        BY DEF AskedNumber, oldest
      <4> HIDE DEF s
      <4>3. Asks(ref, count, s) <=> place \in count + 1 .. 0
        BY <2>2 DEF Asks
      <4>4. place \in count + 1 .. 0 <=> Between(begin, ref, s)
        BY <1>4, <2>2, <4>1, PlaceBack
      <4> HIDE DEF place
      <4>5. QED
        BY <4>2, <4>3, <4>4 DEF s
    <3>3. end = ref
      BY <2>2
    <3> HIDE DEF begin, end
    <3>4. begin > end => begin - end > total - oldest
      BY <1>1, <1>2, <3>1, <3>3 DEF NumbersSuffice
    <3>5. QED
      BY <3>1, <3>2, <3>3, <3>4
  <2>3. QED
    BY <2>1, <2>2
<1>7. answer = IF outside THEN Nothing
               ELSE Entries(l, ((from - oldest) % SEQUENCES) + 1,
                            ((from - oldest) % SEQUENCES) + 1
                                + ((to - from) % SEQUENCES),
                            TL_MAX_ENTRIES, from)
  <2>1. Max({begin, oldest}) = IF begin >= oldest THEN begin ELSE oldest
    <3> HIDE DEF begin, end
    <3>1. QED
      BY <1>2, <1>6, MaxOfTwo
  <2>2. Min({end, total}) = IF end <= total THEN end ELSE total
    <3> HIDE DEF begin, end
    <3>1. QED
      BY <1>1, <1>6, MinOfTwo
  <2>3. ~(oldest > total)
    BY <1>1, <1>2
  <2>4. QED
    BY <2>1, <2>2, <2>3, ZenonT(60)
       DEF TL_encode_by_sequence, oldest, total, Outside, From, To
<1>8. asked \subseteq 1 .. n
  OBVIOUS
<1> HIDE DEF answer, asked, begin, end
<1>9. IF outside
      THEN \A s \in oldest .. total : ~Between(begin, end, s)
      ELSE /\ from \in oldest .. total /\ to \in from .. total
           /\ \A s \in oldest .. total :
                    Between(begin, end, s) <=> from <= s /\ s <= to
  <2>1. /\ oldest \in Nat /\ total \in Nat /\ oldest <= total
        /\ begin \in Nat /\ end \in Nat
        /\ begin > end => begin - end > total - oldest
    BY <1>1, <1>2, <1>6
  <2>2. QED
    BY <2>1, Window, Zenon
<1> HIDE DEF outside, from, to
<1>10. CASE outside
  <2>1. asked = {}
    BY <1>5, <1>6, <1>8, <1>9, <1>10
  <2>2. QED
    BY <1>7, <1>10, <2>1 DEF Told
<1>11. CASE ~outside
  <2>1. from \in oldest .. total /\ to \in from .. total
    BY <1>9, <1>11
  <2>2. first \in 1 .. n /\ last \in first .. n
    BY <1>1, <1>2, <2>1
  <2>3. /\ (from - oldest) % SEQUENCES = from - oldest
        /\ (to - from) % SEQUENCES = to - from
    <3>1. from - oldest \in 0 .. SEQUENCES - 1 /\ to - from \in 0 .. SEQUENCES - 1
      BY <1>1, <1>2, <2>1
    <3> DEFINE a == from - oldest
               b == to - from
    <3> HIDE DEF a, b
    <3>2. a % SEQUENCES = a /\ b % SEQUENCES = b
      BY <3>1, Residues DEF a, b
    <3>3. QED
      BY <3>2 DEF a, b
  <2>4. from - oldest + 1 + (to - from) = last
    BY <1>1, <1>2, <2>1
  <2>5. answer = Entries(l, first, last, TL_MAX_ENTRIES, from)
    BY <1>7, <1>11, <2>3, <2>4
  <2>6. asked = first .. last
    <3>1. ASSUME NEW p \in 1 .. n
          PROVE  p \in asked <=> p \in first .. last
      <4> DEFINE s == oldest + p - 1
      <4>1. s \in oldest .. total
        BY <1>5
      <4>2. p \in asked <=> from <= s /\ s <= to
        BY <1>6, <1>9, <1>11, <4>1
      <4>3. QED
        BY <1>1, <1>2, <2>1, <4>2
    <3>2. first .. last \subseteq 1 .. n
      BY <1>1, <2>2
    <3>3. QED
      BY <1>8, <3>1, <3>2
  <2>7. from = (oldest + first - 1) % SEQUENCES
    <3>1. oldest + first - 1 = from /\ from \in 0 .. SEQUENCES - 1
      BY <1>1, <1>2, <2>1
    <3>2. QED
      BY <3>1, Residues
  <2> HIDE DEF first, last
  <2>8. QED
    BY <2>2, <2>5, <2>6, <2>7 DEF Told, n, oldest
<1>12. QED
  BY <1>10, <1>11

----------------------------------------------------------------------------
(* By time.                                                                *)

AskedTime(l, ref, count) ==
    LET later == {p \in 1 .. l.info.Record_Count : Entry(l, p).time > ref}
        earlier == {p \in 1 .. l.info.Record_Count : Entry(l, p).time < ref}
    IN  IF count > 0 THEN {p \in later : p < Min(later) + count}
        ELSE {p \in earlier : p > Max(earlier) + count}

(* The records after a moment are the last ones, and those before it the   *)
(* first ones.                                                             *)
LEMMA TimesTold ==
    ASSUME NEW l, IsLog(l), NEW t, InOrder(View(l), t), NEW ref \in Int,
           NEW count \in Int \ {0}
    PROVE  Told(l, TL_encode_by_time(l, ref, count, TL_MAX_ENTRIES),
                AskedTime(l, ref, count), TRUE)
<1> DEFINE n == l.info.Record_Count
           later == {p \in 1 .. n : Entry(l, p).time > ref}
           earlier == {p \in 1 .. n : Entry(l, p).time < ref}
           asked == AskedTime(l, ref, count)
           answer == TL_encode_by_time(l, ref, count, TL_MAX_ENTRIES)
           Run(first, last) == Entries(l, first, last, TL_MAX_ENTRIES,
                                (OldestSequence(l.info) + first - 1) % SEQUENCES)
<1> SUFFICES Told(l, answer, asked, TRUE)
  OBVIOUS
<1>1. n \in Nat
  BY TrendLogConstants DEF IsLog, InfoOK, LogInfo
<1>2. /\ \A p \in 1 .. n : Entry(l, p).time \in Nat
      /\ \A p, q \in 1 .. n : p < q => Entry(l, p).time <= Entry(l, q).time
  BY ViewLength DEF InOrder
<1>3. ASSUME NEW first \in 1 .. n, NEW last \in first .. n,
             asked = first .. last, answer = Run(first, last)
      PROVE  Told(l, answer, asked, TRUE)
  BY <1>3 DEF Told
<1>4. CASE count > 0
  <2>1. asked = {p \in later : p < Min(later) + count}
    BY <1>4 DEF AskedTime
  <2>2. answer = IF later = {} THEN Nothing
                 ELSE Run(Min(later), Min({n, Min(later) + count - 1}))
    BY <1>4 DEF TL_encode_by_time
  <2>3. CASE later = {}
    BY <2>1, <2>2, <2>3 DEF Told
  <2>4. CASE later # {}
    <3> DEFINE first == Min(later)
               last == Min({n, first + count - 1})
    <3>1. first \in later /\ \A p \in later : first <= p
      BY <1>1, <2>4, MinOfPositions
    <3>2. first \in 1 .. n /\ Entry(l, first).time > ref
      BY <3>1
    <3>3. ASSUME NEW p \in 1 .. n PROVE p \in later <=> first <= p
      <4>1. first <= p => Entry(l, first).time <= Entry(l, p).time
        BY <1>2, <3>2
      <4>2. first <= p => Entry(l, p).time > ref
        BY <1>2, <3>2, <4>1
      <4>3. QED
        BY <3>1, <4>2
    <3>4. later \subseteq 1 .. n
      OBVIOUS
    <3> HIDE DEF first, later, n
    <3>5. last = IF n <= first + count - 1 THEN n ELSE first + count - 1
      BY <1>1, <3>2, MinOfTwo
    <3> HIDE DEF last
    <3>6. last \in first .. n
      BY <1>1, <1>4, <3>2, <3>5
    <3>7. ASSUME NEW p \in 1 .. n PROVE p \in asked <=> p \in first .. last
      <4>1. p \in asked <=> first <= p /\ p < first + count
        BY <2>1, <3>3 DEF first
      <4>2. QED
        BY <1>1, <3>2, <3>5, <4>1
    <3>8. asked \subseteq 1 .. n /\ first .. last \subseteq 1 .. n
      <4>1. first .. last \subseteq 1 .. n
        BY <1>1, <3>2, <3>6
      <4>2. QED
        BY <2>1, <3>4, <4>1
    <3>9. asked = first .. last
      BY <3>7, <3>8
    <3>10. answer = Run(first, last)
      BY <2>2, <2>4 DEF first, last
    <3>11. QED
      BY <1>3, <3>2, <3>6, <3>9, <3>10 DEF n
  <2>5. QED
    BY <2>3, <2>4
<1>5. CASE count < 0
  <2>1. asked = {p \in earlier : p > Max(earlier) + count}
    BY <1>5 DEF AskedTime
  <2>2. answer = IF earlier = {} THEN Nothing
                 ELSE Run(Max({1, Max(earlier) + count + 1}), Max(earlier))
    BY <1>5 DEF TL_encode_by_time
  <2>3. CASE earlier = {}
    BY <2>1, <2>2, <2>3 DEF Told
  <2>4. CASE earlier # {}
    <3> DEFINE last == Max(earlier)
               first == Max({1, last + count + 1})
    <3>1. last \in earlier /\ \A p \in earlier : last >= p
      BY <1>1, <2>4, MaxOfPositions
    <3>2. last \in 1 .. n /\ Entry(l, last).time < ref
      BY <3>1
    <3>3. ASSUME NEW p \in 1 .. n PROVE p \in earlier <=> p <= last
      <4>1. p <= last => Entry(l, p).time <= Entry(l, last).time
        BY <1>2, <3>2
      <4>2. p <= last => Entry(l, p).time < ref
        BY <1>2, <3>2, <4>1
      <4>3. QED
        BY <3>1, <4>2
    <3>4. earlier \subseteq 1 .. n
      OBVIOUS
    <3> HIDE DEF last, earlier, n
    <3>5. first = IF 1 >= last + count + 1 THEN 1 ELSE last + count + 1
      BY <1>1, <3>2, MaxOfTwo
    <3> HIDE DEF first
    <3>6. first \in 1 .. n /\ last \in first .. n
      BY <1>1, <1>5, <3>2, <3>5
    <3>7. ASSUME NEW p \in 1 .. n PROVE p \in asked <=> p \in first .. last
      <4>1. p \in asked <=> p <= last /\ p > last + count
        BY <2>1, <3>3 DEF last
      <4>2. QED
        BY <1>1, <3>2, <3>5, <4>1
    <3>8. asked \subseteq 1 .. n /\ first .. last \subseteq 1 .. n
      <4>1. first .. last \subseteq 1 .. n
        BY <1>1, <3>2, <3>6
      <4>2. QED
        BY <2>1, <3>4, <4>1
    <3>9. asked = first .. last
      BY <3>7, <3>8
    <3>10. answer = Run(first, last)
      BY <2>2, <2>4 DEF first, last
    <3>11. QED
      BY <1>3, <3>6, <3>9, <3>10 DEF n
  <2>5. QED
    BY <2>3, <2>4
<1>6. count > 0 \/ count < 0
  OBVIOUS
<1>7. QED
  BY <1>4, <1>5, <1>6

----------------------------------------------------------------------------
(* A request for a range.                                                  *)

LEMMA AskedIs ==
    ASSUME OldestSequence(log) \in Int, NEW ref \in Int, NEW count
    PROVE  /\ Asked("POSITION", ref, count) = AskedPositions(Current, ref, count)
           /\ Asked("SEQUENCE", ref, count) = AskedNumbers(Current, ref, count)
           /\ Asked("TIME", ref, count) = AskedTime(Current, ref, count)
<1>1. Current.info = log
  BY DEF Current
<1>2. Asked("POSITION", ref, count) = AskedPositions(Current, ref, count)
  BY <1>1 DEF Asked, Positions, AskedPositions
<1>3. Asked("SEQUENCE", ref, count) = AskedNumbers(Current, ref, count)
  <2> DEFINE Off(d) == IF count > 0 \/ d = 0 THEN d ELSE d - SEQUENCES
             In(d) == IF count > 0 THEN Off(d) \in 0 .. count - 1
                      ELSE Off(d) \in count + 1 .. 0
             oldest == OldestSequence(log)
  <2>1. Asked("SEQUENCE", ref, count) =
            {p \in Positions : In((oldest + p - 1 - ref) % SEQUENCES)}
    BY Zenon DEF Asked
  <2>2. \A s : Asks(ref, count, s) <=> In((s - ref) % SEQUENCES)
    BY DEF Asks
  <2> HIDE DEF In, oldest
  <2>3. \A p \in Positions : oldest + p - 1 - ref = (oldest + p - 1) - ref
    BY DEF Positions, oldest
  <2>4. QED
    BY <1>1, <2>1, <2>2, <2>3 DEF AskedNumbers, AskedNumber, Positions, oldest
<1>4. Asked("TIME", ref, count) = AskedTime(Current, ref, count)
  BY <1>1 DEF Asked, Positions, AskedTime
<1>5. QED
  BY <1>2, <1>3, <1>4

Ranged(type, ref, count) ==
    rr_trend_log_encode(Current, [type |-> type, ref |-> ref, count |-> count],
                        TL_MAX_ENTRIES)

(* Nothing is asked for of a log without records, and nothing is answered. *)
LEMMA NothingTold ==
    ASSUME IsLog(Current), log.Record_Count = 0, NEW numbered, NEW ref, NEW count,
           NEW type \in {"POSITION", "SEQUENCE", "TIME"}
    PROVE  Told(Current, Ranged(type, ref, count), Asked(type, ref, count), numbered)
<1>1. Current.info = log
  BY DEF Current
<1>2. Ranged(type, ref, count) = Nothing
  BY <1>1 DEF Ranged, rr_trend_log_encode
<1>3. Asked(type, ref, count) = {}
  BY DEF Asked, Positions
<1>4. QED
  BY <1>2, <1>3 DEF Told

(* ReadRange answers with the records that were asked for, as many as there*)
(* are, by position, by sequence number (of a log that does not start      *)
(* again at 0) and by time.                                                *)
THEOREM RangesAreAnswered ==
    ASSUME NumbersSuffice
    PROVE  Spec => []RangesAgree
<1>1. ASSUME OrderInv PROVE RangesAgree
  <2>1. IsLog(Current) /\ InOrder(View(Current), now)
    BY <1>1 DEF OrderInv, LogInv
  <2>2. Current.info = log
    BY DEF Current
  <2>3. /\ log.Record_Count \in Nat /\ log.Total_Record_Count \in Int
        /\ OldestSequence(log) \in Int
    BY <2>1, <2>2, TrendLogConstants DEF IsLog, InfoOK, LogInfo, OldestSequence
  <2>4. \A count \in Counts : /\ count \in Int \ {0}
                              /\ count \in -(TL_MAX_ENTRIES + 1) .. TL_MAX_ENTRIES + 1
    BY TrendLogConstants DEF Counts
  <2>5. ASSUME NEW count \in Counts, NEW ref \in 1 .. TL_MAX_ENTRIES + 1
        PROVE  Told(Current, Ranged("POSITION", ref, count),
                    Asked("POSITION", ref, count), FALSE)
    <3>1. CASE log.Record_Count = 0
      BY <2>1, <3>1, NothingTold
    <3>2. CASE log.Record_Count # 0
      <4>1. Ranged("POSITION", ref, count) =
                TL_encode_by_position(Current, ref, count, TL_MAX_ENTRIES)
        BY <2>2, <3>2 DEF Ranged, rr_trend_log_encode
      <4>2. ref \in Nat \ {0} /\ ref \in Int
        BY TrendLogConstants
      <4>3. Told(Current, TL_encode_by_position(Current, ref, count, TL_MAX_ENTRIES),
                 AskedPositions(Current, ref, count), FALSE)
        BY <2>1, <2>4, <4>2, PositionsTold
      <4>4. QED
        BY <2>3, <4>1, <4>2, <4>3, AskedIs
    <3>3. QED
      BY <3>1, <3>2
  <2>6. ASSUME NEW count \in Counts, NEW ref \in 0 .. SEQUENCES - 1, ~LogWraps
        PROVE  Told(Current, Ranged("SEQUENCE", ref, count),
                    Asked("SEQUENCE", ref, count), TRUE)
    <3>1. CASE log.Record_Count = 0
      BY <2>1, <3>1, NothingTold
    <3>2. CASE log.Record_Count # 0
      <4>1. Ranged("SEQUENCE", ref, count) =
                TL_encode_by_sequence(Current, ref, count, TL_MAX_ENTRIES)
        BY <2>2, <3>2 DEF Ranged, rr_trend_log_encode
      <4>2. ref \in Int
        BY TrendLogConstants
      <4>3. OldestSequence(log) <= log.Total_Record_Count
        BY <2>3, <2>6 DEF LogWraps
      <4>4. log.Record_Count > 0
        BY <2>3, <3>2
      <4>5. QED
        BY <2>1, <2>2, <2>3, <2>4, <4>1, <4>2, <4>3, <4>4, AskedIs, SequencesTold,
           ZenonT(60)
    <3>3. QED
      BY <3>1, <3>2
  <2>7. ASSUME NEW count \in Counts, NEW ref \in 0 .. MAX_TIME
        PROVE  Told(Current, Ranged("TIME", ref, count),
                    Asked("TIME", ref, count), TRUE)
    <3>1. CASE log.Record_Count = 0
      BY <2>1, <3>1, NothingTold
    <3>2. CASE log.Record_Count # 0
      <4>1. Ranged("TIME", ref, count) =
                TL_encode_by_time(Current, ref, count, TL_MAX_ENTRIES)
        BY <2>2, <3>2 DEF Ranged, rr_trend_log_encode
      <4>2. ref \in Int
        OBVIOUS
      <4>3. Told(Current, TL_encode_by_time(Current, ref, count, TL_MAX_ENTRIES),
                 AskedTime(Current, ref, count), TRUE)
        BY <2>1, <2>4, <4>2, TimesTold
      <4>4. QED
        BY <2>3, <4>1, <4>2, <4>3, AskedIs
    <3>3. QED
      BY <3>1, <3>2
  <2>8. /\ \A count \in Counts, ref \in 1 .. TL_MAX_ENTRIES + 1 :
                Agrees(Current, Ranged("POSITION", ref, count),
                       Asked("POSITION", ref, count), FALSE)
        /\ \A count \in Counts, ref \in 0 .. SEQUENCES - 1 :
                ~LogWraps => Agrees(Current, Ranged("SEQUENCE", ref, count),
                                    Asked("SEQUENCE", ref, count), TRUE)
        /\ \A count \in Counts, ref \in 0 .. MAX_TIME :
                Agrees(Current, Ranged("TIME", ref, count),
                       Asked("TIME", ref, count), TRUE)
    BY <2>1, <2>5, <2>6, <2>7, ToldAgrees
  <2>9. SUFFICES ASSUME NEW type \in {"POSITION", "SEQUENCE", "TIME"},
                        NEW count \in Counts,
                        NEW ref \in CASE type = "POSITION" -> 1 .. TL_MAX_ENTRIES + 1
                                      [] type = "SEQUENCE" -> 0 .. SEQUENCES - 1
                                      [] type = "TIME" -> 0 .. MAX_TIME
                 PROVE  \/ type = "SEQUENCE" /\ LogWraps
                        \/ Agrees(Current, Ranged(type, ref, count),
                                  Asked(type, ref, count), type # "POSITION")
    BY <2>2 DEF RangesAgree, Agrees, Ranged
  <2>10. QED
    BY <2>8, <2>9
<1>2. QED
  BY <1>1, RecordsStayInOrder, PTL
=============================================================================
