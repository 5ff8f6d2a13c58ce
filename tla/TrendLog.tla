------------------------------ MODULE TrendLog ------------------------------
(***************************************************************************)
(* The trend log of trendlog.c: a ring of records that a timer fills once  *)
(* a second at most, that a client configures by WriteProperty and reads   *)
(* by ReadRange.  Moments are seconds; a start or stop time with wildcards *)
(* is Wildcard.  Intervals are kept in seconds and written in hundredths.  *)
(***************************************************************************)
EXTENDS Properties, SequencesExt, FiniteSetsExt

CONSTANTS
    TL_MAX_ENTRIES,     \* 1000
    SEQUENCES,          \* 2^32: sequence numbers start again at 0
    TOTAL,              \* 10000, the records that are said to have been
    STOP_TIME,          \* the end of 2020 in this log's first configuration
    MAX_TIME,           \* bound: seconds the model runs
    MAX_WRITES          \* bound: writes in a behaviour

ASSUME TrendLogConstants ==
    /\ TL_MAX_ENTRIES \in Nat \ {0} /\ SEQUENCES \in Nat \ {0}
    /\ TOTAL \in 0 .. SEQUENCES - 1 /\ TL_MAX_ENTRIES < SEQUENCES
    /\ {STOP_TIME, MAX_TIME, MAX_WRITES} \subseteq Nat

VARIABLES
    log,        \* LogInfo[0]: the configuration and the counters
    Logs,       \* Logs[0]: the ring, from 0
    now,        \* time(NULL)
    writes      \* WriteProperty requests so far

vars == <<log, Logs, now, writes>>

Wildcard == -1
Date(t) == <<"DATE", t>>
Time(t) == <<"TIME", t>>

----------------------------------------------------------------------------
(* The object and its properties.                                          *)

Trend_Log_Properties_Required ==
    {"OBJECT_IDENTIFIER", "OBJECT_NAME", "OBJECT_TYPE", "ENABLE", "STOP_WHEN_FULL",
     "BUFFER_SIZE", "LOG_BUFFER", "RECORD_COUNT", "TOTAL_RECORD_COUNT",
     "EVENT_STATE", "LOGGING_TYPE", "STATUS_FLAGS"}

Trend_Log_Properties_Optional ==
    {"DESCRIPTION", "START_TIME", "STOP_TIME", "LOG_DEVICE_OBJECT_PROPERTY",
     "LOG_INTERVAL", "ALIGN_INTERVALS", "INTERVAL_OFFSET", "TRIGGER"}

Trend_Log_Init ==
    /\ log = [Enable |-> TRUE, Stop_When_Full |-> FALSE, Trigger |-> FALSE,
              Align_Intervals |-> TRUE, Logging_Type |-> "POLLED",
              Start_Time |-> 0, Stop_Time |-> STOP_TIME,
              Source |-> <<"REFERENCE", "ANALOG_INPUT">>,
              Log_Interval |-> 2, Interval_Offset |-> 0, Index |-> 0,
              Record_Count |-> TL_MAX_ENTRIES, Total_Record_Count |-> TOTAL,
              Last_Data_Time |-> 0]
    /\ Logs = [i \in 0 .. TL_MAX_ENTRIES - 1 |->
                    [time |-> 0, datum |-> Real(i), status |-> {}]]

Trend_Log_Read_Property(o, p, index) ==
    IF p = "LOG_BUFFER" THEN Error("READ_ACCESS_DENIED")
    ELSE IF index = BACNET_ARRAY_ALL /\ p \in {"START_TIME", "STOP_TIME"}
    THEN LET t == IF p = "START_TIME" THEN o.Start_Time ELSE o.Stop_Time
         IN  Answer(<<Date(t), Time(t)>>)
    ELSE LET fixed == {"OBJECT_IDENTIFIER", "OBJECT_NAME", "DESCRIPTION",
                       "OBJECT_TYPE", "BUFFER_SIZE", "EVENT_STATE", "START_TIME",
                       "STOP_TIME"}
             kept == [ENABLE |-> Boolean(o.Enable), STATUS_FLAGS |-> Bits({}),
                      STOP_WHEN_FULL |-> Boolean(o.Stop_When_Full),
                      RECORD_COUNT |-> Unsigned(o.Record_Count),
                      TOTAL_RECORD_COUNT |-> Unsigned(o.Total_Record_Count),
                      LOGGING_TYPE |-> Enumerated(o.Logging_Type),
                      LOG_DEVICE_OBJECT_PROPERTY |-> o.Source,
                      LOG_INTERVAL |-> Unsigned(o.Log_Interval * 100),
                      ALIGN_INTERVALS |-> Boolean(o.Align_Intervals),
                      INTERVAL_OFFSET |-> Unsigned(o.Interval_Offset * 100),
                      TRIGGER |-> Boolean(o.Trigger)]
         IN  Reading(IF p \in fixed THEN Fixed(fixed) ELSE kept, <<>>, p, index)

TL_Is_Enabled(o, t) ==
    /\ o.Enable
    /\ o.Start_Time = Wildcard \/ o.Start_Time <= t
    /\ o.Stop_Time = Wildcard \/ t <= o.Stop_Time

----------------------------------------------------------------------------
(* The ring.  A log is the pair of its configuration and its records.      *)

Insert(l, record) ==
    [info |-> [l.info EXCEPT !.Index = (@ + 1) % TL_MAX_ENTRIES,
                             !.Total_Record_Count = (@ + 1) % SEQUENCES,
                             !.Record_Count = Min({@ + 1, TL_MAX_ENTRIES})],
     ring |-> [l.ring EXCEPT ![l.info.Index] = record]]

TL_Insert_Status_Rec(l, flags, t) ==
    Insert(l, [time |-> t, datum |-> <<"LOG_STATUS", flags>>, status |-> {}])

(* Fault: the place for the next record is where it was.                   *)
EmptiedOnly(l) == [l EXCEPT !.info.Record_Count = 0]

Emptied(l) == [l EXCEPT !.info.Record_Count = 0, !.info.Index = 0]

Purged(l, t) == TL_Insert_Status_Rec(Emptied(l), {"BUFFER_PURGED"}, t)

(* Fault: the log does not say that it was switched.                       *)
SwitchedQuietly(l, new, t) == [l EXCEPT !.info = new]

(* Whether the log works is written to it when a write changes it.         *)
Switched(l, new, t) ==
    LET was == TL_Is_Enabled(l.info, t)
        is == TL_Is_Enabled(new, t)
        next == [l EXCEPT !.info = new]
    IN  IF was = is THEN next
        ELSE TL_Insert_Status_Rec(next, IF is THEN {} ELSE {"LOG_DISABLED"}, t)

(* The value that was read, with its flags, if it has a type to be logged. *)
TL_fetch_property(l, read, t) ==
    LET loggable == {"NULL", "BOOLEAN", "UNSIGNED_INT", "SIGNED_INT", "REAL",
                     "BIT_STRING", "ENUMERATED"}
        v == read.values[1]
        datum == IF read.error # "none" THEN <<"ERROR", read.error>>
                 ELSE IF Tag(v) \in loggable THEN v
                 ELSE <<"ERROR", "DATATYPE_NOT_SUPPORTED">>
    IN  Insert([l EXCEPT !.info.Last_Data_Time = t],
            [time |-> t, datum |-> datum,
             status |-> IF read.error = "none" THEN read.flags ELSE {}])

(* Fault: an interval that has passed over without a reading is not made   *)
(* up for.                                                                 *)
OnTheDot(o, t) ==
    (t % o.Log_Interval) = (o.Interval_Offset % o.Log_Interval)

Due(o, t) ==
    IF o.Align_Intervals
    THEN \/ (t % o.Log_Interval) = (o.Interval_Offset % o.Log_Interval)
         \/ t - o.Last_Data_Time > o.Log_Interval
    ELSE t - o.Last_Data_Time >= o.Log_Interval \/ o.Trigger

trend_log_timer(l, read, t) ==
    LET o == l.info
        Spent(k) == [k EXCEPT !.info.Trigger = FALSE]
    IN  IF ~TL_Is_Enabled(o, t) THEN l
        ELSE IF o.Logging_Type = "POLLED"
        THEN Spent(IF Due(o, t) THEN TL_fetch_property(l, read, t) ELSE l)
        ELSE IF o.Logging_Type = "TRIGGERED" /\ o.Trigger
        THEN Spent(TL_fetch_property(l, read, t))
        ELSE l

----------------------------------------------------------------------------
(* WriteProperty.                                                          *)

Typed(o, type) ==
    [o EXCEPT !.Logging_Type = type,
              !.Log_Interval = CASE type = "POLLED" /\ @ = 0 -> 900
                                 [] type = "TRIGGERED" -> 0
                                 [] OTHER -> @]

(* The date and the time of a request that has both; a date alone is       *)
(* acknowledged and forgotten.                                             *)
WriteMoment(l, values, Set(_), t) ==
    LET Of(v, tag, outcome) == WPValidateArgType(l, v, tag, outcome)
    IN  Of(values[1], "DATE",
           IF Len(values) = 1 THEN Accept(l)
           ELSE Of(values[2], "TIME", Accept(Switched(l, Set(Content(values[1])), t))))

WriteEnable(l, on, t) ==
    LET o == l.info
        full == o.Record_Count = TL_MAX_ENTRIES
    IN  Check(l, ~(on /\ ~o.Enable /\ o.Stop_When_Full /\ full), "LOG_BUFFER_FULL",
              Switched(l, [o EXCEPT !.Enable = on], t))

(* Fault: a log that is stopped by the request forgets the request.        *)
StoppedOnce(l, on, t) ==
    IF on /\ l.info.Record_Count = TL_MAX_ENTRIES /\ l.info.Enable
    THEN Accept(TL_Insert_Status_Rec([l EXCEPT !.info.Enable = FALSE], {"LOG_DISABLED"}, t))
    ELSE Accept([l EXCEPT !.info.Stop_When_Full = on])

WriteStopWhenFull(l, on, t) ==
    LET o == l.info
        new == [o EXCEPT !.Stop_When_Full = on]
    IN  Accept(IF /\ on /\ ~o.Stop_When_Full
                  /\ o.Record_Count = TL_MAX_ENTRIES /\ o.Enable
               THEN TL_Insert_Status_Rec([l EXCEPT !.info = [new EXCEPT !.Enable = FALSE]],
                                         {"LOG_DISABLED"}, t)
               ELSE [l EXCEPT !.info = new])

(* A reference that is the same may still differ in the bytes between its  *)
(* fields, which are compared as well.                                     *)
WriteSource(l, v, gaps, t) ==
    IF Tag(v) # "REFERENCE" THEN Refuse(l, "OTHER")
    ELSE IF Content(v) = "ANOTHER_DEVICE"
    THEN Refuse(l, "OPTIONAL_FUNCTIONALITY_NOT_SUPPORTED")
    ELSE LET kept == IF v # l.info.Source \/ gaps THEN Purged(l, t) ELSE l
         IN  Accept([kept EXCEPT !.info.Source = v])

Hundredths(n) == n \div 100

WriteInterval(l, v) ==
    IF l.info.Logging_Type = "TRIGGERED" THEN Refuse(l, "WRITE_ACCESS_DENIED")
    ELSE WPValidateArgType(l, v, "UNSIGNED_INT",
            Check(l, l.info.Logging_Type # "POLLED" \/ Content(v) # 0,
                  "OPTIONAL_FUNCTIONALITY_NOT_SUPPORTED",
                  [l EXCEPT !.info.Log_Interval = Max({1, Hundredths(Content(v))})]))

WriteTrigger(l, on) ==
    Check(l, ~(l.info.Logging_Type = "POLLED" /\ l.info.Align_Intervals),
          "NOT_CONFIGURED_FOR_TRIGGERED_LOGGING", [l EXCEPT !.info.Trigger = on])

Trend_Log_Write_Property(l, w, gaps, t) ==
    LET o == l.info
        v == w.values[1]
        To(tag, outcome) == WPValidateArgType(l, v, tag, outcome)
        Keep(new) == Accept([l EXCEPT !.info = new])
    IN  Writing(l, w, {"EVENT_TIME_STAMPS"},
            [ENABLE |-> To("BOOLEAN", WriteEnable(l, Content(v), t)),
             STOP_WHEN_FULL |-> To("BOOLEAN", WriteStopWhenFull(l, Content(v), t)),
             RECORD_COUNT |->
                To("UNSIGNED_INT", Accept(IF Content(v) = 0 THEN Purged(l, t) ELSE l)),
             LOGGING_TYPE |->
                To("ENUMERATED",
                   Check(l, Content(v) # "COV", "OPTIONAL_FUNCTIONALITY_NOT_SUPPORTED",
                         [l EXCEPT !.info = Typed(o, Content(v))])),
             START_TIME |->
                WriteMoment(l, w.values, LAMBDA m : [o EXCEPT !.Start_Time = m], t),
             STOP_TIME |->
                WriteMoment(l, w.values, LAMBDA m : [o EXCEPT !.Stop_Time = m], t),
             LOG_DEVICE_OBJECT_PROPERTY |-> WriteSource(l, v, gaps, t),
             LOG_INTERVAL |-> WriteInterval(l, v),
             ALIGN_INTERVALS |->
                To("BOOLEAN", Keep([o EXCEPT !.Align_Intervals = Content(v)])),
             INTERVAL_OFFSET |->
                To("UNSIGNED_INT", Keep([o EXCEPT !.Interval_Offset = Hundredths(Content(v))])),
             TRIGGER |-> To("BOOLEAN", WriteTrigger(l, Content(v)))],
            {w.property})

----------------------------------------------------------------------------
(* ReadRange.  Room for so many entries is left in the answer.             *)

Entry(l, position) ==
    LET start == IF l.info.Record_Count < TL_MAX_ENTRIES THEN 0 ELSE l.info.Index
    IN  l.ring[(start + position - 1) % TL_MAX_ENTRIES]

Nothing == [entries |-> <<>>, FIRST_ITEM |-> FALSE, LAST_ITEM |-> FALSE,
            MORE_ITEMS |-> FALSE, firstSequence |-> 0]

(* The entries from one position to another, as many as there is room for. *)
Entries(l, first, last, room, sequence) ==
    LET sent == Min({last, first + room - 1})
    IN  [entries |-> [i \in 1 .. sent - first + 1 |-> Entry(l, first + i - 1)],
         FIRST_ITEM |-> first = 1, LAST_ITEM |-> sent = l.info.Record_Count,
         MORE_ITEMS |-> sent < last, firstSequence |-> sequence]

(* Fault: a count below zero goes back from before the reference.          *)
FromBefore(l, ref, count, room) ==
    LET first == IF count > 0 THEN ref ELSE Max({1, ref + count})
        last == IF count > 0 THEN ref + count - 1 ELSE ref
    IN  IF first > l.info.Record_Count THEN Nothing
        ELSE Entries(l, first, Min({last, l.info.Record_Count}), room, 0)

(* A count below zero goes back from the reference.                        *)
TL_encode_by_position(l, ref, count, room) ==
    LET first == IF count > 0 THEN ref ELSE Max({1, ref + count + 1})
        last == IF count > 0 THEN ref + count - 1 ELSE ref
    IN  IF first > l.info.Record_Count THEN Nothing
        ELSE Entries(l, first, Min({last, l.info.Record_Count}), room, 0)

OldestSequence(o) == (o.Total_Record_Count - (o.Record_Count - 1)) % SEQUENCES

(* The range cut to the log, each of which may run over the highest number.*)
TL_encode_by_sequence(l, ref, count, room) ==
    LET total == l.info.Total_Record_Count
        oldest == OldestSequence(l.info)
        begin == IF count > 0 THEN ref ELSE (ref + count + 1) % SEQUENCES
        end == IF count > 0 THEN (ref + count - 1) % SEQUENCES ELSE ref
        wrapReq == begin > end
        wrapLog == oldest > total
        outside == IF wrapReq \/ wrapLog THEN begin > total /\ end < oldest
                   ELSE end < oldest \/ begin > total
        from == CASE ~wrapLog /\ wrapReq /\ end >= oldest -> oldest
                  [] wrapLog /\ ~wrapReq ->
                        IF begin > total /\ begin > oldest THEN oldest ELSE begin
                  [] OTHER -> Max({begin, oldest})
        to == CASE ~wrapLog /\ wrapReq /\ end < oldest -> total
                [] wrapLog /\ ~wrapReq /\ begin > total -> end
                [] OTHER -> Min({end, total})
        first == ((from - oldest) % SEQUENCES) + 1
    IN  IF outside THEN Nothing
        ELSE Entries(l, first, first + ((to - from) % SEQUENCES), room, from)

(* Back from the last record before the moment, or on from the first after *)
(* it.                                                                     *)
TL_encode_by_time(l, ref, count, room) ==
    LET n == l.info.Record_Count
        before == {p \in 1 .. n : Entry(l, p).time < ref}
        after == {p \in 1 .. n : Entry(l, p).time > ref}
        At(p) == (OldestSequence(l.info) + p - 1) % SEQUENCES
        Run(first, last) == Entries(l, first, last, room, At(first))
    IN  IF count < 0
        THEN IF before = {} THEN Nothing
             ELSE Run(Max({1, Max(before) + count + 1}), Max(before))
        ELSE IF after = {} THEN Nothing
             ELSE Run(Min(after), Min({n, Min(after) + count - 1}))

rr_trend_log_encode(l, request, room) ==
    LET ref == request.ref
        count == request.count
    IN  IF l.info.Record_Count = 0 THEN Nothing
        ELSE CASE request.type = "ALL" ->
                    TL_encode_by_position(l, 1, l.info.Record_Count, room)
               [] request.type = "POSITION" -> TL_encode_by_position(l, ref, count, room)
               [] request.type = "SEQUENCE" -> TL_encode_by_sequence(l, ref, count, room)
               [] request.type = "TIME" -> TL_encode_by_time(l, ref, count, room)

----------------------------------------------------------------------------
(* The machine: a client that writes, and the timer once a second.         *)

Current == [info |-> log, ring |-> Logs]

Become(l) == log' = l.info /\ Logs' = l.ring

Init == Trend_Log_Init /\ now = 0 /\ writes = 0

Flag(p) == {[property |-> p, values |-> <<Boolean(b)>>] : b \in BOOLEAN}
Value(p, values) == {[property |-> p, values |-> <<v>>] : v \in values}
Moments(p) ==
    {[property |-> p, values |-> <<Date(t), Time(t)>>] : t \in {Wildcard, 1, 2}}

(* What clients write here, one value of every kind that is told apart.    *)
Requests ==
    UNION {Flag("ENABLE"), Flag("STOP_WHEN_FULL"), Flag("ALIGN_INTERVALS"),
           Flag("TRIGGER"), Moments("START_TIME"), Moments("STOP_TIME"),
           Value("RECORD_COUNT", {Unsigned(0)}),
           Value("LOGGING_TYPE",
                 {Enumerated("POLLED"), Enumerated("TRIGGERED"), Enumerated("NO_TYPE")}),
           Value("LOG_INTERVAL", {Unsigned(0), Unsigned(100), Unsigned(300)}),
           Value("INTERVAL_OFFSET", {Unsigned(100)}),
           Value("LOG_DEVICE_OBJECT_PROPERTY",
                 {<<"REFERENCE", "ANALOG_INPUT">>, <<"REFERENCE", "DEVICE">>})}

WriteProperty ==
    /\ writes < MAX_WRITES
    /\ \E r \in Requests, gaps \in BOOLEAN :
        LET w == [property |-> r.property, values |-> r.values,
                  index |-> BACNET_ARRAY_ALL]
        IN  Become(Trend_Log_Write_Property(Current, w, gaps, now).object)
    /\ writes' = writes + 1
    /\ UNCHANGED now

(* What the source of the log may answer.                                  *)
Reads == {[error |-> "none", values |-> <<Real(7)>>, flags |-> {}],
          [error |-> "none", values |-> <<Text("")>>, flags |-> {"IN_ALARM"}],
          [error |-> "UNKNOWN_OBJECT", values |-> <<>>, flags |-> {}]}

Second ==
    /\ now < MAX_TIME
    /\ now' = now + 1
    /\ \E read \in Reads : Become(trend_log_timer(Current, read, now'))
    /\ UNCHANGED writes

Next == WriteProperty \/ Second

Spec == Init /\ [][Next]_vars

----------------------------------------------------------------------------
(* Properties.                                                             *)

Positions == 1 .. log.Record_Count

(* The ring is an array and three counters that every insertion, purge and *)
(* change of the source moves; read by position it is the latest records,  *)
(* oldest first, whatever was written and logged in between.               *)
Shown == INSTANCE RecordLog WITH
            ROOM <- TL_MAX_ENTRIES,
            records <- [p \in Positions |-> Entry(Current, p)]

ImplementsRecordLog == Shown!Spec

Counts == {c \in -(TL_MAX_ENTRIES + 1) .. TL_MAX_ENTRIES + 1 : c # 0}

(* The positions a request asks for, counted from the definition of the    *)
(* request and not by its bounds.                                          *)
Asked(type, ref, count) ==
    LET Place(p) == CASE type = "POSITION" -> p - ref
                      [] type = "SEQUENCE" ->
                            LET d == (OldestSequence(log) + p - 1 - ref) % SEQUENCES
                            IN  IF count > 0 \/ d = 0 THEN d ELSE d - SEQUENCES
        later == {p \in Positions : Entry(Current, p).time > ref}
        earlier == {p \in Positions : Entry(Current, p).time < ref}
    IN  IF type = "TIME"
        THEN IF count > 0 THEN {p \in later : p < Min(later) + count}
             ELSE {p \in earlier : p > Max(earlier) + count}
        ELSE {p \in Positions : IF count > 0 THEN Place(p) \in 0 .. count - 1
                                ELSE Place(p) \in count + 1 .. 0}

(* A log that itself runs over the highest number is cut wrongly: a        *)
(* request that does so as well is answered with nothing, and one that     *)
(* ends in its upper part with other records.                              *)
LogWraps == OldestSequence(log) > log.Total_Record_Count

(* A client that walks through the log with ReadRange gets the records it  *)
(* asks for, by position, by sequence number and by time, also after a     *)
(* purge and when the numbers it asks for start again at 0; and it is told *)
(* whether it has seen the first and the last of them.                     *)
RangesAgree ==
    \A type \in {"POSITION", "SEQUENCE", "TIME"}, count \in Counts :
        \A ref \in CASE type = "POSITION" -> 1 .. TL_MAX_ENTRIES + 1
                     [] type = "SEQUENCE" -> 0 .. SEQUENCES - 1
                     [] type = "TIME" -> 0 .. MAX_TIME :
            LET answer == rr_trend_log_encode(Current,
                            [type |-> type, ref |-> ref, count |-> count], TL_MAX_ENTRIES)
                asked == Asked(type, ref, count)
            IN  \/ type = "SEQUENCE" /\ LogWraps
                \/ /\ Len(answer.entries) = Cardinality(asked)
                   /\ asked # {} =>
                        /\ \A i \in DOMAIN answer.entries :
                            answer.entries[i] = Entry(Current, Min(asked) + i - 1)
                        /\ answer.FIRST_ITEM = (1 \in asked)
                        /\ answer.LAST_ITEM = (log.Record_Count \in asked)
                        /\ type # "POSITION" => answer.firstSequence =
                            (OldestSequence(log) + Min(asked) - 1) % SEQUENCES

Newest(l) == Entry(l, l.info.Record_Count).datum

(* Whoever reads the log can tell when it was switched off and on by       *)
(* requests: the newest record says so.                                    *)
SwitchingIsLogged ==
    [][LET was == TL_Is_Enabled(log, now)
           is == TL_Is_Enabled(log', now)
       IN  writes' # writes /\ was # is =>
                Newest(Current') = <<"LOG_STATUS", IF is THEN {} ELSE {"LOG_DISABLED"}>>]_vars

(* A log that polls does not fall asleep: whatever the order of writes to  *)
(* its type, its interval and its switch, it has an interval to divide by, *)
(* and while it is enabled no more than this interval passes without a     *)
(* reading, counted from the last.                                         *)
PolledInTime ==
    [][/\ log'.Logging_Type = "POLLED" => log'.Log_Interval > 0
       /\ /\ now' # now
          /\ TL_Is_Enabled(log, now') /\ log.Logging_Type = "POLLED"
          => now' - log'.Last_Data_Time <= log.Log_Interval]_vars

(* Whoever has a write acknowledged reads what was written, of properties  *)
(* that are all listed and, but for the buffer, can be read; intervals are *)
(* kept in whole seconds, and a count is only ever written to purge.       *)
WritesAreRead ==
    LET Read(o, p) == Trend_Log_Read_Property(o, p, BACNET_ARRAY_ALL)
        listed == Trend_Log_Properties_Required \cup Trend_Log_Properties_Optional
    IN  /\ \A p \in listed \ {"LOG_BUFFER"} : Read(log, p).error = "none"
        /\ \A r \in Requests :
            LET w == [property |-> r.property, values |-> r.values,
                      index |-> BACNET_ARRAY_ALL]
                outcome == Trend_Log_Write_Property(Current, w, FALSE, now)
                read == Read(outcome.object.info, r.property)
            IN  outcome.reply = "ack" =>
                    \/ read = Answer(r.values)
                    \/ r.property \in {"LOG_INTERVAL", "RECORD_COUNT"}

(* trendlog.h says of bStopWhenFull that the log halts when it is full; no *)
(* oldest record is lost to a reading then.                                *)
HaltsWhenFull ==
    [][now' # now /\ log.Stop_When_Full /\ log.Record_Count = TL_MAX_ENTRIES
       => Logs' = Logs]_vars
=============================================================================
