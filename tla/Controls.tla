------------------------------ MODULE Controls ------------------------------
(***************************************************************************)
(* The objects that act by the clock: Load Control on its Analog Output,   *)
(* Schedule, and the Lighting Output, whose timer does nothing yet (lc.c,  *)
(* schedule.c, lo.c).  Moments are minutes; a moment with wildcards is     *)
(* Wildcard.                                                               *)
(***************************************************************************)
EXTENDS Points

CONSTANTS
    LOAD_PRIORITY,      \* 4, at which a load is controlled
    SHED_LEVELS         \* the initial Shed_Levels: <<1, 2, 3>>

ASSUME ControlsConstants ==
    /\ LOAD_PRIORITY \in 1 .. BACNET_MAX_PRIORITY
    /\ LOAD_PRIORITY # RESERVED_PRIORITY
    /\ SHED_LEVELS \in Seq(Nat) /\ SHED_LEVELS # <<>>

Wildcard == -1

----------------------------------------------------------------------------
(* Load Control.  A shed level is a percentage, a level or an amount of    *)
(* power; Full_Duty_Baseline, 1.5 kW, is two units of it.                  *)

Percent(n) == <<"PERCENT", n>>
Level(n) == <<"LEVEL", n>>
Amount(n) == <<"AMOUNT", n>>
Full_Duty_Baseline == 2

Load_Control_Property_Lists ==
    Always \cup {"EVENT_STATE", "REQUESTED_SHED_LEVEL", "START_TIME",
                 "SHED_DURATION", "DUTY_WINDOW", "ENABLE",
                 "EXPECTED_SHED_LEVEL", "ACTUAL_SHED_LEVEL", "SHED_LEVELS",
                 "SHED_LEVEL_DESCRIPTIONS", "DESCRIPTION", "FULL_DUTY_BASELINE"}

Load_Control_Init ==
    [State |-> "SHED_INACTIVE", Enable |-> TRUE,
     Requested_Shed_Level |-> Level(0), Expected_Shed_Level |-> Level(0),
     Actual_Shed_Level |-> Level(0), Start_Time |-> Wildcard,
     Shed_Duration |-> 0, Duty_Window |-> 0,
     Shed_Levels |-> [n \in DOMAIN SHED_LEVELS |-> Unsigned(SHED_LEVELS[n])],
     Request_Written |-> FALSE, Start_Time_Written |-> FALSE]

(* Present_Value is never assigned after the start.                        *)
Load_Control_Read_Property(o, p, index) ==
    Reading(Fixed(Always \cup {"EVENT_STATE", "DESCRIPTION", "FULL_DUTY_BASELINE"})
            ++ [REQUESTED_SHED_LEVEL |-> o.Requested_Shed_Level,
                EXPECTED_SHED_LEVEL |-> o.Expected_Shed_Level,
                ACTUAL_SHED_LEVEL |-> o.Actual_Shed_Level,
                START_TIME |-> <<"DATETIME", o.Start_Time>>,
                SHED_DURATION |-> Unsigned(o.Shed_Duration),
                DUTY_WINDOW |-> Unsigned(o.Duty_Window),
                ENABLE |-> Boolean(o.Enable)],
        [SHED_LEVELS |-> o.Shed_Levels,
         SHED_LEVEL_DESCRIPTIONS |->
            [n \in DOMAIN SHED_LEVELS |-> <<"FIXED", n>>]], p, index)

(* A start time is a date and a time.  The levels of the whole array are   *)
(* acknowledged and forgotten.                                             *)
Load_Control_Write_Property(o, w) ==
    LET v == w.values[1]
        Number(new) == WPValidateArgType(o, v, "UNSIGNED_INT", new)
    IN  Writing(o, w, {"SHED_LEVELS"},
            [REQUESTED_SHED_LEVEL |->
                Check(o, Tag(v) \in {"PERCENT", "LEVEL", "AMOUNT"}, "INVALID_DATA_TYPE",
                      [o EXCEPT !.Requested_Shed_Level = v, !.Request_Written = TRUE]),
             START_TIME |->
                WPValidateArgType(o, v, "DATETIME",
                    Accept([o EXCEPT !.Start_Time = Content(v), !.Start_Time_Written = TRUE])),
             SHED_DURATION |->
                Number(Accept([o EXCEPT !.Shed_Duration = Content(v),
                                        !.Request_Written = TRUE])),
             DUTY_WINDOW |->
                Number(Accept([o EXCEPT !.Duty_Window = Content(v),
                                        !.Request_Written = TRUE])),
             SHED_LEVELS |->
                Number(IF w.index = BACNET_ARRAY_ALL THEN Accept(o)
                       ELSE IF w.index = 0 THEN Refuse(o, "WRITE_ACCESS_DENIED")
                       ELSE Check(o, w.index \in DOMAIN SHED_LEVELS, "OTHER",
                                  [o EXCEPT !.Shed_Levels[w.index] = v])),
             ENABLE |->
                WPValidateArgType(o, v, "BOOLEAN",
                    Accept([o EXCEPT !.Enable = Content(v)]))]
            ++ [p \in {w.property} |-> Refuse(o, "WRITE_ACCESS_DENIED")],
            {})

(* The output that a request asks for: the last of the levels that it      *)
(* reaches, whatever their order, is "dimmed" by ten percent a step.       *)
Requested_Shed_Level_Value(o) ==
    LET n == Content(o.Requested_Shed_Level)
        reached == {i \in DOMAIN SHED_LEVELS : Content(o.Shed_Levels[i]) <= n}
        i == IF reached = {} THEN 1 ELSE CHOOSE j \in reached : \A k \in reached : k <= j
    IN  CASE Tag(o.Requested_Shed_Level) = "PERCENT" -> 2 * n
          [] Tag(o.Requested_Shed_Level) = "AMOUNT" ->
                (200 * (Full_Duty_Baseline - n)) \div Full_Duty_Baseline
          [] OTHER -> 200 - 20 * i

Shed_Level_Default_Set(level) ==
    IF Tag(level) = "PERCENT" THEN Percent(100) ELSE <<Tag(level), 0>>

(* 0: no priority is active.                                               *)
Analog_Output_Present_Value_Priority(output) ==
    LET active == {p \in Priorities : output.Level[p] # Null}
    IN  IF active = {} THEN 0 ELSE CHOOSE p \in active : \A q \in active : p <= q

Analog_Output_Present_Value_Set(output, value, priority) ==
    IF priority # RESERVED_PRIORITY /\ value \in 0 .. 200
    THEN [output EXCEPT !.Level[priority] = Real(Whole(value))] ELSE output

(* Fault: whoever has set the output, it is lowered.                       *)
AbleWheneverHigh(o, output) ==
    Content(Analog_Output_Present_Value(output)) >= Requested_Shed_Level_Value(o)

(* An output that nobody commands cannot be lowered.                       *)
Able_To_Meet_Shed_Request(o, output) ==
    /\ Analog_Output_Present_Value_Priority(output) >= LOAD_PRIORITY
    /\ Content(Analog_Output_Present_Value(output)) >= Requested_Shed_Level_Value(o)

(* A moment with wildcards, and what is added to it, lies in 1900.         *)
Over(o, now) == o.Start_Time = Wildcard \/ o.Start_Time + o.Shed_Duration < now

(* Expected and actual level, and the output, when the request is met; and *)
(* when it is not.                                                         *)
Shedding(o, output) ==
    [load |-> [o EXCEPT !.State = "SHED_COMPLIANT",
                        !.Expected_Shed_Level = o.Requested_Shed_Level,
                        !.Actual_Shed_Level = o.Requested_Shed_Level],
     output |-> Analog_Output_Present_Value_Set(output, Requested_Shed_Level_Value(o),
                                                LOAD_PRIORITY)]

NotShedding(o, output) ==
    LET default == Shed_Level_Default_Set(o.Requested_Shed_Level)
    IN  [load |-> [o EXCEPT !.State = "SHED_NON_COMPLIANT",
                            !.Expected_Shed_Level = default,
                            !.Actual_Shed_Level = default],
         output |-> output]

(* The request is not carried out yet: expected, but not actual.           *)
Expecting(o) ==
    [o EXCEPT !.Expected_Shed_Level = o.Requested_Shed_Level,
              !.Actual_Shed_Level = Shed_Level_Default_Set(o.Requested_Shed_Level)]

Pending(o, output, now) ==
    LET Cancel(new) == [load |-> [new EXCEPT !.State = "SHED_INACTIVE"], output |-> output]
        seen == [o EXCEPT !.Request_Written = FALSE]
        started == [seen EXCEPT !.Start_Time_Written = FALSE]
        default == o.Requested_Shed_Level = Shed_Level_Default_Set(o.Requested_Shed_Level)
    IN  IF o.Request_Written /\ default THEN Cancel(seen)
        ELSE IF Over(o, now) THEN Cancel(started)
        ELSE IF now < o.Start_Time THEN [load |-> Expecting(started), output |-> output]
        ELSE IF now = o.Start_Time THEN [load |-> started, output |-> output]
        ELSE IF Able_To_Meet_Shed_Request(o, output) THEN Shedding(started, output)
        ELSE NotShedding(started, output)

(* One run of the state machine.  That a finished request clears the start *)
(* time of the first load control, not of this one, is the same where      *)
(* there is one.                                                           *)
Load_Control_State_Machine(o, output, now) ==
    LET To(state) == [load |-> [o EXCEPT !.State = state], output |-> output]
        written == o.Request_Written \/ o.Start_Time_Written
    IN  IF ~o.Enable THEN To("SHED_INACTIVE")
        ELSE CASE o.State = "SHED_REQUEST_PENDING" -> Pending(o, output, now)
               [] o.State = "SHED_NON_COMPLIANT" ->
                    IF Over(o, now) THEN To("SHED_INACTIVE")
                    ELSE IF written THEN To("SHED_REQUEST_PENDING")
                    ELSE IF Able_To_Meet_Shed_Request(o, output) THEN Shedding(o, output)
                    ELSE To(o.State)
               [] o.State = "SHED_COMPLIANT" ->
                    IF Over(o, now)
                    THEN [load |-> [o EXCEPT !.State = "SHED_INACTIVE",
                                             !.Start_Time = Wildcard],
                          output |-> [output EXCEPT !.Level[LOAD_PRIORITY] = Null]]
                    ELSE IF written THEN To("SHED_REQUEST_PENDING")
                    ELSE IF ~Able_To_Meet_Shed_Request(o, output)
                    THEN NotShedding(o, output)
                    ELSE To(o.State)
               [] OTHER ->
                    IF o.Start_Time_Written
                    THEN [load |-> [Expecting(o) EXCEPT !.State = "SHED_REQUEST_PENDING"],
                          output |-> output]
                    ELSE To("SHED_INACTIVE")

----------------------------------------------------------------------------
(* Schedule.  Nothing fills the weekly schedule, and nobody recalculates   *)
(* the value by it.                                                        *)

Schedule_Property_Lists ==
    Base \cup {"PRESENT_VALUE", "EFFECTIVE_PERIOD", "SCHEDULE_DEFAULT",
               "LIST_OF_OBJECT_PROPERTY_REFERENCES", "PRIORITY_FOR_WRITING",
               "STATUS_FLAGS", "RELIABILITY", "OUT_OF_SERVICE", "WEEKLY_SCHEDULE"}

Schedule_Init ==
    [Schedule_Default |-> Real(42), Present_Value |-> Real(42),
     Weekly_Schedule |-> [d \in 1 .. 7 |-> <<"DAY">>], Out_Of_Service |-> FALSE]

Schedule_Read_Property(o, p, index) ==
    Reading(Fixed(Base \cup {"EFFECTIVE_PERIOD", "LIST_OF_OBJECT_PROPERTY_REFERENCES",
                             "PRIORITY_FOR_WRITING", "STATUS_FLAGS", "RELIABILITY"})
            ++ [PRESENT_VALUE |-> o.Present_Value, SCHEDULE_DEFAULT |-> o.Schedule_Default,
                OUT_OF_SERVICE |-> Boolean(o.Out_Of_Service)],
        [WEEKLY_SCHEDULE |-> o.Weekly_Schedule], p, index)

(* Nobody looks at the index.                                              *)
Schedule_Write_Property(o, w) ==
    Writing(o, w, {w.property},
        [OUT_OF_SERVICE |-> WriteOutOfService(o, w.values[1])],
        Schedule_Property_Lists)

----------------------------------------------------------------------------
(* Lighting Output: any real is a level.                                   *)

Lighting_Output_Property_Lists ==
    Always \cup Commandable \cup
        {"OUT_OF_SERVICE", "TRACKING_VALUE", "LIGHTING_COMMAND", "IN_PROGRESS",
         "BLINK_WARN_ENABLE", "EGRESS_TIME", "EGRESS_ACTIVE", "DEFAULT_FADE_TIME",
         "DEFAULT_RAMP_RATE", "DEFAULT_STEP_INCREMENT",
         "LIGHTING_COMMAND_DEFAULT_PRIORITY"}

Lighting_Output_Init ==
    [Level |-> NoCommands, Lighting_Command |-> <<"LIGHTING_COMMAND", "NONE">>,
     Out_Of_Service |-> FALSE]

Lighting_Output_Present_Value(o) == Highest(o.Level, Real(0))

Lighting_Output_Read_Property(o, p, index) ==
    Reading([PRESENT_VALUE |-> Lighting_Output_Present_Value(o),
             LIGHTING_COMMAND |-> o.Lighting_Command, RELINQUISH_DEFAULT |-> Real(0)]
            ++ Status(FALSE, o.Out_Of_Service)
            ++ Fixed(Lighting_Output_Property_Lists),
        [PRIORITY_ARRAY |-> o.Level], p, index)

Lighting_Output_Present_Value_Relinquish(o, w) ==
    Check(o, w.priority # RESERVED_PRIORITY, "WRITE_ACCESS_DENIED",
          [o EXCEPT !.Level[w.priority] = Null])

Lighting_Output_Write_Property(o, w) ==
    LET v == w.values[1]
    IN  Writing(o, w, {"PRIORITY_ARRAY"},
            [PRESENT_VALUE |->
                IF Tag(v) = "REAL" THEN Commanding(o, w, "REAL", TRUE, v)
                ELSE WPValidateArgType(o, v, "NULL",
                        Lighting_Output_Present_Value_Relinquish(o, w)),
             LIGHTING_COMMAND |->
                WPValidateArgType(o, v, "LIGHTING_COMMAND",
                    Accept([o EXCEPT !.Lighting_Command = v])),
             OUT_OF_SERVICE |-> WriteOutOfService(o, v)],
            Base \cup Commandable \cup
                {"TRACKING_VALUE", "IN_PROGRESS", "STATUS_FLAGS", "BLINK_WARN_ENABLE",
                 "EGRESS_TIME", "EGRESS_ACTIVE", "DEFAULT_FADE_TIME", "DEFAULT_RAMP_RATE",
                 "DEFAULT_STEP_INCREMENT"})

(* Fading and ramping have no code yet: time changes nothing.              *)
Lighting_Output_Timer_Handler(o) == o
=============================================================================
