--------------------------- MODULE Objects_proofs ---------------------------
(***************************************************************************)
(* Proofs about the objects that act of themselves: the analog input and   *)
(* value with their alarms, and the load control with the output it        *)
(* commands; and about all objects that clients read and write: what is    *)
(* answered agrees, and what is acknowledged is read.                      *)
(* They hold for any group of objects, any numbers of priorities and       *)
(* recipients, and for as long as the device runs.                         *)
(***************************************************************************)
EXTENDS Objects, SequenceTheorems, TLAPS, WellFoundedInduction

----------------------------------------------------------------------------
(* Objects are records: of these fields.                                   *)

IsRecord(o, fields) == o = [f \in fields |-> o[f]]

AlarmFields ==
    {"Event_State", "Time_Delay", "Remaining_Time_Delay", "Notification_Class",
     "High_Limit", "Low_Limit", "Deadband", "Limit_Enable", "Event_Enable",
     "Notify_Type", "Event_Time_Stamps", "Acked_Transitions", "bSendAckNotify"}

ValueFields == AlarmFields \cup {"Present_Value", "Out_Of_Service", "Units"}

InputFields ==
    ValueFields \cup {"Measured", "Prior_Value", "COV_Increment", "Changed"}

OutputFields == {"Level", "Out_Of_Service"}

LoadFields ==
    {"State", "Enable", "Requested_Shed_Level", "Expected_Shed_Level",
     "Actual_Shed_Level", "Start_Time", "Shed_Duration", "Duty_Window",
     "Shed_Levels", "Request_Written", "Start_Time_Written"}

Three == {"TO_OFFNORMAL", "TO_FAULT", "TO_NORMAL"}

LEMMA ThreeTransitions == ToSet(Transitions) = Three
  BY DEF ToSet, Transitions, Three

LEMMA OneOfThree == \A s : TransitionOf(s) \in Three
  BY DEF TransitionOf, Three

(* A change of one field, and of two.                                      *)
LEMMA Changed1 ==
    ASSUME NEW o, NEW F, IsRecord(o, F), NEW a \in F, NEW x
    PROVE  /\ IsRecord([o EXCEPT ![a] = x], F)
           /\ [o EXCEPT ![a] = x][a] = x
           /\ \A f \in F \ {a} : [o EXCEPT ![a] = x][f] = o[f]
  BY DEF IsRecord

----------------------------------------------------------------------------
(* The inductive invariant.                                                *)

(* A transition that waits for its acknowledgement was stamped when it was *)
(* marked, or again since.                                                 *)
AlarmsOK(o, time) ==
    /\ o.Event_Time_Stamps \in [Three -> 0 .. time]
    /\ o.Acked_Transitions \in [Three -> [bIsAcked : BOOLEAN, Time_Stamp : Nat]]
    /\ \A t \in Three :
            o.Acked_Transitions[t].bIsAcked
            \/ o.Acked_Transitions[t].Time_Stamp <= o.Event_Time_Stamps[t]

InputOK(o, time) == IsRecord(o, InputFields) /\ AlarmsOK(o, time)

ValueOK(o, time) == IsRecord(o, ValueFields) /\ AlarmsOK(o, time)

OutputOK(o) ==
    IsRecord(o, OutputFields) /\ o.Level = [p \in Priorities |-> o.Level[p]]

LoadOK(o) == IsRecord(o, LoadFields)

ObjectOK(k, o, time) ==
    /\ k = "ANALOG_INPUT" => InputOK(o, time)
    /\ k = "ANALOG_VALUE" => ValueOK(o, time)
    /\ k = "ANALOG_OUTPUT" => OutputOK(o)
    /\ k = "LOAD_CONTROL" => LoadOK(o)

DeviceInv ==
    /\ now \in Nat
    /\ IsRecord(device, DOMAIN device)
    /\ \A k \in DOMAIN device : ObjectOK(k, device[k], now)

----------------------------------------------------------------------------
(* What a write leaves as it was.                                          *)

Watched == {"Event_Time_Stamps", "Acked_Transitions"}

Same(o, n, fields) ==
    IsRecord(n, fields) /\ \A f \in Watched \cap fields : n[f] = o[f]

LEMMA SameInput ==
    ASSUME NEW o, NEW n, NEW time, InputOK(o, time), Same(o, n, InputFields)
    PROVE  InputOK(n, time)
<1>1. Watched \subseteq InputFields
  BY DEF Watched, InputFields, ValueFields, AlarmFields
<1>2. \A f \in Watched : n[f] = o[f]
  BY <1>1 DEF Same
<1>3. /\ n.Event_Time_Stamps = o.Event_Time_Stamps
      /\ n.Acked_Transitions = o.Acked_Transitions
  BY <1>2 DEF Watched
<1>4. IsRecord(n, InputFields)
  BY DEF Same
<1>5. QED
  BY <1>3, <1>4 DEF InputOK, AlarmsOK

LEMMA SameValue ==
    ASSUME NEW o, NEW n, NEW time, ValueOK(o, time), Same(o, n, ValueFields)
    PROVE  ValueOK(n, time)
<1>1. \A f \in {"Event_Time_Stamps", "Acked_Transitions"} : f \in Watched \cap ValueFields
  BY DEF Watched, ValueFields, AlarmFields
<1>2. /\ n.Event_Time_Stamps = o.Event_Time_Stamps
      /\ n.Acked_Transitions = o.Acked_Transitions
  BY <1>1 DEF Same
<1>3. IsRecord(n, ValueFields)
  BY DEF Same
<1>4. QED
  BY <1>2, <1>3 DEF ValueOK, AlarmsOK

(* A field that is not watched may be written.                             *)
LEMMA OtherField ==
    ASSUME NEW o, NEW F, IsRecord(o, F), NEW a \in F \ Watched, NEW x
    PROVE  Same(o, [o EXCEPT ![a] = x], F)
  BY Changed1 DEF Same

LEMMA Unwritten ==
    ASSUME NEW o, NEW F, IsRecord(o, F)
    PROVE  Same(o, o, F)
  BY DEF Same

(* The properties that both kinds of alarm have.                           *)
LEMMA ReportedWritten ==
    ASSUME NEW o, NEW F, AlarmFields \subseteq F, IsRecord(o, F), NEW v,
           NEW p \in DOMAIN WriteReported(o, v)
    PROVE  Same(o, WriteReported(o, v)[p].object, F)
<1> DEFINE W == WriteReported(o, v)
           Free == {"Time_Delay", "Remaining_Time_Delay", "Notification_Class",
                    "High_Limit", "Low_Limit", "Deadband", "Limit_Enable",
                    "Event_Enable", "Notify_Type"}
<1>1. \A f \in Free : f \in F \ Watched
  BY DEF AlarmFields, Watched
<1>2. \A f \in Free : \A x : Same(o, [o EXCEPT ![f] = x], F)
  BY <1>1, OtherField
<1>3. \A x, y : Same(o, [o EXCEPT !.Time_Delay = x, !.Remaining_Time_Delay = y], F)
  BY <1>1 DEF Same, IsRecord
<1>4. Same(o, o, F)
  BY Unwritten
<1>5. \A n, code : Refuse(o, code).object = o /\ Accept(n).object = n
  BY DEF Refuse, Accept
<1>6. ASSUME NEW n, Same(o, n, F), NEW tag, NEW valid, NEW code
      PROVE  /\ Same(o, WPValidateArgType(o, v, tag, Accept(n)).object, F)
             /\ Same(o, WPValidateArgType(o, v, tag, Check(o, valid, code, n)).object, F)
  BY <1>4, <1>5, <1>6 DEF WPValidateArgType, Check
<1>7. /\ Same(o, [o EXCEPT !.Notification_Class = Content(v)], F)
      /\ Same(o, [o EXCEPT !.High_Limit = Content(v)], F)
      /\ Same(o, [o EXCEPT !.Low_Limit = Content(v)], F)
      /\ Same(o, [o EXCEPT !.Deadband = Content(v)], F)
      /\ Same(o, [o EXCEPT !.Limit_Enable = Content(v)], F)
      /\ Same(o, [o EXCEPT !.Event_Enable = Content(v)], F)
      /\ Same(o, [o EXCEPT !.Notify_Type = Content(v)], F)
  BY <1>2
<1>8. DOMAIN W = {"TIME_DELAY", "NOTIFICATION_CLASS", "HIGH_LIMIT", "LOW_LIMIT",
                  "DEADBAND", "LIMIT_ENABLE", "EVENT_ENABLE", "NOTIFY_TYPE"}
  BY DEF WriteReported
<1>9. CASE p = "TIME_DELAY"
  BY <1>3, <1>6, <1>9 DEF WriteReported
<1>10. CASE p = "NOTIFICATION_CLASS"
  BY <1>7, <1>6, <1>10 DEF WriteReported
<1>11. CASE p = "HIGH_LIMIT"
  BY <1>7, <1>6, <1>11 DEF WriteReported
<1>12. CASE p = "LOW_LIMIT"
  BY <1>7, <1>6, <1>12 DEF WriteReported
<1>13. CASE p = "DEADBAND"
  BY <1>7, <1>6, <1>13 DEF WriteReported
<1>14. CASE p = "LIMIT_ENABLE"
  BY <1>7, <1>6, <1>14 DEF WriteReported
<1>15. CASE p = "EVENT_ENABLE"
  BY <1>7, <1>6, <1>15 DEF WriteReported
<1>16. CASE p = "NOTIFY_TYPE"
  BY <1>7, <1>6, <1>16 DEF WriteReported
<1>17. QED
  BY <1>8, <1>9, <1>10, <1>11, <1>12, <1>13, <1>14, <1>15, <1>16

(* The frame of a write: either nothing is changed or the switch decides.  *)
LEMMA WritingIs ==
    ASSUME NEW o, NEW w, NEW arrays, NEW changes, NEW denied
    PROVE  \/ Writing(o, w, arrays, changes, denied).object = o
           \/ /\ w.property \in DOMAIN changes
              /\ Writing(o, w, arrays, changes, denied) = changes[w.property]
  BY DEF Writing, Refuse

(* A look for a change sets the flag and what was seen last, or nothing.   *)
LEMMA DetectsSame ==
    ASSUME NEW o, IsRecord(o, InputFields), NEW value
    PROVE  Same(o, Analog_Input_COV_Detect(o, value), InputFields)
<1> DEFINE d == Analog_Input_COV_Detect(o, value)
<1>1. \A f \in {"Changed", "Prior_Value"} : f \in InputFields \ Watched
  BY DEF Watched, InputFields
<1>2. Same(o, [o EXCEPT !.Changed = TRUE, !.Prior_Value = value], InputFields)
  BY <1>1 DEF Same, IsRecord
<1>3. d = o \/ d = [o EXCEPT !.Changed = TRUE, !.Prior_Value = value]
  BY DEF Analog_Input_COV_Detect
<1>4. QED
  BY <1>2, <1>3, Unwritten

LEMMA SameTwice ==
    ASSUME NEW o, NEW m, NEW n, NEW F, Same(o, m, F), Same(m, n, F)
    PROVE  Same(o, n, F)
  BY DEF Same

LEMMA ValueSet ==
    ASSUME NEW o, IsRecord(o, InputFields), NEW value
    PROVE  Same(o, Analog_Input_Present_Value_Set(o, value), InputFields)
<1> DEFINE d == Analog_Input_COV_Detect(o, value)
<1>1. Same(o, d, InputFields) /\ IsRecord(d, InputFields)
  BY DetectsSame DEF Same
<1>2. "Present_Value" \in InputFields \ Watched
  BY DEF Watched, InputFields, ValueFields
<1> HIDE DEF d
<1>3. Same(d, [d EXCEPT !.Present_Value = value], InputFields)
  BY <1>1, <1>2, OtherField
<1>4. QED
  BY <1>1, <1>3, SameTwice DEF Analog_Input_Present_Value_Set, d

LEMMA IncrementSet ==
    ASSUME NEW o, IsRecord(o, InputFields), NEW increment
    PROVE  Same(o, Analog_Input_COV_Increment_Set(o, increment), InputFields)
<1> DEFINE c == [o EXCEPT !.COV_Increment = increment]
<1>1. "COV_Increment" \in InputFields \ Watched
  BY DEF Watched, InputFields
<1>2. Same(o, c, InputFields)
  BY <1>1, OtherField
<1> HIDE DEF c
<1>own. IsRecord(c, InputFields)
  BY <1>2 DEF Same
<1>3. Same(c, Analog_Input_COV_Detect(c, o.Present_Value), InputFields)
  BY <1>own, DetectsSame
<1>4. QED
  BY <1>2, <1>3, SameTwice DEF Analog_Input_COV_Increment_Set, c

(* A write of an analog input keeps it as it should be.                    *)
LEMMA InputWritten ==
    ASSUME NEW o, NEW time, InputOK(o, time), NEW w
    PROVE  InputOK(Analog_Input_Write_Property(o, w).object, time)
<1> DEFINE v == w.values[1]
           first == WriteReported(o, v)
           second ==
            [PRESENT_VALUE |->
                    WPValidateArgType(o, v, "REAL",
                        Check(o, o.Out_Of_Service, "WRITE_ACCESS_DENIED",
                              Analog_Input_Present_Value_Set(o, Content(v)))),
                OUT_OF_SERVICE |->
                    WPValidateArgType(o, v, "BOOLEAN",
                        Accept(Analog_Input_Out_Of_Service_Set(o, Content(v)))),
                UNITS |->
                    WPValidateArgType(o, v, "ENUMERATED",
                        Accept([o EXCEPT !.Units = Enumerated(Content(v) % Octet)])),
                COV_INCREMENT |->
                    WPValidateArgType(o, v, "REAL",
                        Check(o, Content(v) >= 0, "VALUE_OUT_OF_RANGE",
                              Analog_Input_COV_Increment_Set(o, Content(v))))]
           changes == first ++ second
           reply == Analog_Input_Write_Property(o, w)
<1>1. IsRecord(o, InputFields)
  BY DEF InputOK
<1>2. \A n, code : Refuse(o, code).object = o /\ Accept(n).object = n
  BY DEF Refuse, Accept
<1>3. ASSUME NEW p \in DOMAIN first
      PROVE  InputOK(first[p].object, time)
  <2>1. AlarmFields \subseteq InputFields
    BY DEF InputFields, ValueFields
  <2>2. Same(o, first[p].object, InputFields)
    BY <1>1, <2>1, ReportedWritten
  <2> HIDE DEF first
  <2>3. QED
    BY <2>2, SameInput
<1>4. InputOK(second.PRESENT_VALUE.object, time)
  <2>1. InputOK(Analog_Input_Present_Value_Set(o, Content(v)), time)
    BY <1>1, ValueSet, SameInput
  <2>2. QED
    BY <1>2, <2>1 DEF WPValidateArgType, Check
<1>5. InputOK(second.COV_INCREMENT.object, time)
  <2>1. InputOK(Analog_Input_COV_Increment_Set(o, Content(v)), time)
    BY <1>1, IncrementSet, SameInput
  <2>2. QED
    BY <1>2, <2>1 DEF WPValidateArgType, Check
<1>6. InputOK(second.UNITS.object, time)
  <2>1. "Units" \in InputFields \ Watched
    BY DEF InputFields, ValueFields, Watched
  <2>2. InputOK([o EXCEPT !.Units = Enumerated(Content(v) % Octet)], time)
    BY <1>1, <2>1, OtherField, SameInput
  <2>3. QED
    BY <1>2, <2>2 DEF WPValidateArgType
<1>7. InputOK(second.OUT_OF_SERVICE.object, time)
  <2>1. {"Changed", "Out_Of_Service"} \subseteq InputFields \ Watched
    BY DEF InputFields, ValueFields, Watched
  <2> DEFINE n == Analog_Input_Out_Of_Service_Set(o, Content(v))
  <2>2. Same(o, n, InputFields)
    BY <1>1, <2>1 DEF Same, IsRecord, Analog_Input_Out_Of_Service_Set
  <2> HIDE DEF n
  <2>3. InputOK(n, time)
    BY <2>2, SameInput
  <2>4. QED
    BY <1>2, <2>3 DEF WPValidateArgType, n
<1>8. DOMAIN second = {"PRESENT_VALUE", "OUT_OF_SERVICE", "UNITS", "COV_INCREMENT"}
  OBVIOUS
<1> HIDE DEF first, second
<1>9. \A p \in DOMAIN changes : InputOK(changes[p].object, time)
  <2>1. \A p \in DOMAIN second : InputOK(second[p].object, time)
    BY <1>4, <1>5, <1>6, <1>7, <1>8
  <2>2. QED
    BY <1>3, <2>1 DEF ++
<1>10. \E denied : reply = Writing(o, w, {"EVENT_TIME_STAMPS"}, changes, denied)
  BY DEF Analog_Input_Write_Property, first, second
<1> HIDE DEF changes, reply
<1>11. reply.object = o \/ (w.property \in DOMAIN changes /\ reply = changes[w.property])
  BY <1>10, WritingIs
<1>12. QED
  BY <1>9, <1>11 DEF reply

(* And of an analog value.                                                 *)
LEMMA ValueWritten ==
    ASSUME NEW o, NEW time, ValueOK(o, time), NEW w
    PROVE  ValueOK(Analog_Value_Write_Property(o, w).object, time)
<1> DEFINE v == w.values[1]
           first == WriteReported(o, v)
           second ==
            [PRESENT_VALUE |->
                    IF Tag(v) = "REAL"
                    THEN Accept([o EXCEPT !.Present_Value = Content(v)])
                    ELSE Refuse(o, "VALUE_OUT_OF_RANGE"),
                OUT_OF_SERVICE |-> WriteOutOfService(o, v),
                UNITS |->
                    WPValidateArgType(o, v, "ENUMERATED",
                        Accept([o EXCEPT !.Units = Enumerated(Content(v) % Word)]))]
           changes == first ++ second
           reply == Analog_Value_Write_Property(o, w)
           Others == ValueFields \ {"Event_Time_Stamps", "Acked_Transitions"}
<1>1. IsRecord(o, ValueFields)
  BY DEF ValueOK
<1>2. \A n, code : Refuse(o, code).object = o /\ Accept(n).object = n
  BY DEF Refuse, Accept
<1>3. ASSUME NEW p \in DOMAIN first
      PROVE  ValueOK(first[p].object, time)
  <2>1. AlarmFields \subseteq ValueFields
    BY DEF ValueFields
  <2>2. Same(o, first[p].object, ValueFields)
    BY <1>1, <2>1, ReportedWritten
  <2> HIDE DEF first
  <2>3. QED
    BY <2>2, SameValue
<1>4. ASSUME NEW f \in Others, NEW x
      PROVE  ValueOK([o EXCEPT ![f] = x], time)
  <2> DEFINE n == [o EXCEPT ![f] = x]
  <2>1. {"Event_Time_Stamps", "Acked_Transitions"} \subseteq ValueFields
    BY DEF ValueFields, AlarmFields
  <2>2. /\ IsRecord(n, ValueFields)
        /\ n.Event_Time_Stamps = o.Event_Time_Stamps
        /\ n.Acked_Transitions = o.Acked_Transitions
    BY <1>1, <1>4, <2>1, Changed1
  <2> HIDE DEF n
  <2>3. ValueOK(n, time)
    BY <2>2 DEF ValueOK, AlarmsOK
  <2>4. QED
    BY <2>3 DEF n
<1>5. {"Present_Value", "Out_Of_Service", "Units"} \subseteq Others
  BY DEF ValueFields
<1> HIDE DEF Others
<1>6. /\ ValueOK([o EXCEPT !.Present_Value = Content(v)], time)
      /\ ValueOK([o EXCEPT !.Out_Of_Service = Content(v)], time)
      /\ ValueOK([o EXCEPT !.Units = Enumerated(Content(v) % Word)], time)
  BY <1>4, <1>5
<1>7. ValueOK(second.PRESENT_VALUE.object, time)
  BY <1>2, <1>6
<1>8. ValueOK(second.OUT_OF_SERVICE.object, time)
  BY <1>2, <1>6 DEF WriteOutOfService, WPValidateArgType
<1>9. ValueOK(second.UNITS.object, time)
  BY <1>2, <1>6 DEF WPValidateArgType
<1>10. DOMAIN second = {"PRESENT_VALUE", "OUT_OF_SERVICE", "UNITS"}
  OBVIOUS
<1> HIDE DEF first, second
<1>11. \A p \in DOMAIN changes : ValueOK(changes[p].object, time)
  <2>1. \A p \in DOMAIN second : ValueOK(second[p].object, time)
    BY <1>7, <1>8, <1>9, <1>10
  <2>2. QED
    BY <1>3, <2>1 DEF ++
<1>12. \E arrays, denied : reply = Writing(o, w, arrays, changes, denied)
  BY DEF Analog_Value_Write_Property, first, second
<1> HIDE DEF changes, reply
<1>13. reply.object = o \/ (w.property \in DOMAIN changes /\ reply = changes[w.property])
  BY <1>12, WritingIs
<1>14. QED
  BY <1>11, <1>13 DEF reply

(* A write of an analog output is to one of its priorities, or none.       *)
LEMMA LevelChanged ==
    ASSUME NEW o, OutputOK(o), NEW p, NEW x
    PROVE  OutputOK([o EXCEPT !.Level[p] = x])
<1> DEFINE n == [o EXCEPT !.Level[p] = x]
<1>1. IsRecord(o, OutputFields) /\ "Level" \in OutputFields
  BY DEF OutputOK, OutputFields
<1>2. IsRecord(n, OutputFields) /\ n.Level = [o.Level EXCEPT ![p] = x]
  BY <1>1 DEF IsRecord
<1> HIDE DEF n
<1>3. n.Level = [q \in Priorities |-> n.Level[q]]
  BY <1>2 DEF OutputOK
<1>4. OutputOK(n)
  BY <1>2, <1>3 DEF OutputOK
<1>5. QED
  BY <1>4 DEF n

LEMMA OutputWritten ==
    ASSUME NEW o, OutputOK(o), NEW w
    PROVE  OutputOK(Analog_Output_Write_Property(o, w).object)
<1> DEFINE v == w.values[1]
           changes ==
            [PRESENT_VALUE |->
                IF Tag(v) = "REAL"
                THEN Commanding(o, w, "REAL", Content(v) \in 0 .. 200,
                                Real(Whole(Content(v))))
                ELSE WPValidateArgType(o, v, "NULL",
                        Analog_Output_Present_Value_Relinquish(o, w)),
             OUT_OF_SERVICE |-> WriteOutOfService(o, v)]
           reply == Analog_Output_Write_Property(o, w)
<1>1. \A n, code : Refuse(o, code).object = o /\ Accept(n).object = n
  BY DEF Refuse, Accept
<1>2. \A x : OutputOK([o EXCEPT !.Level[w.priority] = x])
  BY LevelChanged
<1>3. OutputOK([o EXCEPT !.Out_Of_Service = Content(v)])
  <2> DEFINE n == [o EXCEPT !.Out_Of_Service = Content(v)]
  <2>1. IsRecord(n, OutputFields) /\ n.Level = o.Level
    BY DEF OutputOK, IsRecord, OutputFields
  <2> HIDE DEF n
  <2>2. OutputOK(n)
    BY <2>1 DEF OutputOK
  <2>3. QED
    BY <2>2 DEF n
<1>4. OutputOK(changes.PRESENT_VALUE.object)
  BY <1>1, <1>2 DEF Commanding, Check, WPValidateArgType,
                    Analog_Output_Present_Value_Relinquish
<1>5. OutputOK(changes.OUT_OF_SERVICE.object)
  BY <1>1, <1>3 DEF WriteOutOfService, WPValidateArgType
<1>6. \A p \in DOMAIN changes : OutputOK(changes[p].object)
  <2>1. DOMAIN changes = {"PRESENT_VALUE", "OUT_OF_SERVICE"}
    OBVIOUS
  <2> HIDE DEF changes
  <2>2. QED
    BY <1>4, <1>5, <2>1
<1>7. \E arrays, denied : reply = Writing(o, w, arrays, changes, denied)
  BY DEF Analog_Output_Write_Property
<1> HIDE DEF changes, reply
<1>8. reply.object = o \/ (w.property \in DOMAIN changes /\ reply = changes[w.property])
  BY <1>7, WritingIs
<1>9. QED
  BY <1>6, <1>8 DEF reply

(* A write of a load control changes fields, whichever they are.           *)
LEMMA LoadWritten ==
    ASSUME NEW o, LoadOK(o), NEW w
    PROVE  LoadOK(Load_Control_Write_Property(o, w).object)
<1> DEFINE v == w.values[1]
           Number(new) == WPValidateArgType(o, v, "UNSIGNED_INT", new)
           first ==
            [REQUESTED_SHED_LEVEL |->
                Check(o, Tag(v) \in {"PERCENT", "LEVEL", "AMOUNT"}, "INVALID_DATA_TYPE",
                      [o EXCEPT !.Requested_Shed_Level = v, !.Request_Written = TRUE]),
             START_TIME |->
                WPValidateArgType(o, v, "DATETIME",
                    Accept([o EXCEPT !.Start_Time = Content(v), !.Start_Time_Written = TRUE])),
             SHED_DURATION |->
                Number(Accept([o EXCEPT !.Shed_Duration = Content(v),
                                        !.Request_Written = TRUE])),
             DUTY_WINDOW |->
                Number(Accept([o EXCEPT !.Duty_Window = Content(v),
                                        !.Request_Written = TRUE])),
             SHED_LEVELS |->
                Number(IF w.index = BACNET_ARRAY_ALL THEN Accept(o)
                       ELSE IF w.index = 0 THEN Refuse(o, "WRITE_ACCESS_DENIED")
                       ELSE Check(o, w.index \in DOMAIN SHED_LEVELS, "OTHER",
                                  [o EXCEPT !.Shed_Levels[w.index] = v])),
             ENABLE |->
                WPValidateArgType(o, v, "BOOLEAN",
                    Accept([o EXCEPT !.Enable = Content(v)]))]
           second == [p \in {w.property} |-> Refuse(o, "WRITE_ACCESS_DENIED")]
           changes == first ++ second
           reply == Load_Control_Write_Property(o, w)
<1>1. \A n, code : Refuse(o, code).object = o /\ Accept(n).object = n
  BY DEF Refuse, Accept
<1>2. ASSUME NEW new, LoadOK(new), NEW tag, NEW valid, NEW code
      PROVE  /\ LoadOK(WPValidateArgType(o, v, tag, Accept(new)).object)
             /\ LoadOK(Check(o, valid, code, new).object)
  BY <1>1, <1>2 DEF WPValidateArgType, Check
<1>3. \A x : /\ LoadOK([o EXCEPT !.Requested_Shed_Level = x, !.Request_Written = TRUE])
             /\ LoadOK([o EXCEPT !.Start_Time = x, !.Start_Time_Written = TRUE])
             /\ LoadOK([o EXCEPT !.Shed_Duration = x, !.Request_Written = TRUE])
             /\ LoadOK([o EXCEPT !.Duty_Window = x, !.Request_Written = TRUE])
             /\ LoadOK([o EXCEPT !.Enable = x])
             /\ \A i : LoadOK([o EXCEPT !.Shed_Levels[i] = x])
  BY DEF LoadOK, IsRecord
<1>4. /\ LoadOK(first.REQUESTED_SHED_LEVEL.object)
      /\ LoadOK(first.START_TIME.object)
      /\ LoadOK(first.SHED_DURATION.object)
      /\ LoadOK(first.DUTY_WINDOW.object)
      /\ LoadOK(first.ENABLE.object)
  BY <1>2, <1>3
<1>5. LoadOK(first.SHED_LEVELS.object)
  <2>1. LoadOK([o EXCEPT !.Shed_Levels[w.index] = v])
    BY <1>3
  <2>2. LoadOK(Check(o, w.index \in DOMAIN SHED_LEVELS, "OTHER",
                     [o EXCEPT !.Shed_Levels[w.index] = v]).object)
    BY <1>2, <2>1
  <2>3. QED
    BY <1>1, <2>2 DEF WPValidateArgType
<1>6. DOMAIN first = {"REQUESTED_SHED_LEVEL", "START_TIME", "SHED_DURATION",
                      "DUTY_WINDOW", "SHED_LEVELS", "ENABLE"}
  OBVIOUS
<1>7. \A p \in DOMAIN second : LoadOK(second[p].object)
  BY <1>1
<1> HIDE DEF first, second
<1>8. \A p \in DOMAIN changes : LoadOK(changes[p].object)
  <2>1. \A p \in DOMAIN first : LoadOK(first[p].object)
    BY <1>4, <1>5, <1>6
  <2>2. QED
    BY <1>7, <2>1 DEF ++
<1>9. \E arrays, denied : reply = Writing(o, w, arrays, changes, denied)
  BY DEF Load_Control_Write_Property, first, second
<1> HIDE DEF changes, reply
<1>10. reply.object = o \/ (w.property \in DOMAIN changes /\ reply = changes[w.property])
  BY <1>9, WritingIs
<1>11. QED
  BY <1>8, <1>10 DEF reply

----------------------------------------------------------------------------
(* Alarms.                                                                 *)

(* What is true of the stamps stays true as time passes.                   *)
LEMMA AlarmsLater ==
    ASSUME NEW o, NEW time \in Nat, AlarmsOK(o, time)
    PROVE  AlarmsOK(o, time + 1)
<1>1. 0 .. time \subseteq 0 .. (time + 1)
  OBVIOUS
<1>2. o.Event_Time_Stamps \in [Three -> 0 .. (time + 1)]
  BY <1>1 DEF AlarmsOK
<1>3. QED
  BY <1>2 DEF AlarmsOK

(* The countdown touches neither stamps nor acknowledgements.              *)
LEMMA CountedKeeps ==
    ASSUME NEW o, NEW F, AlarmFields \subseteq F, IsRecord(o, F), NEW value
    PROVE  /\ IsRecord(Counted(o, value), F)
           /\ \A f \in F \ {"Event_State", "Remaining_Time_Delay"} :
                    Counted(o, value)[f] = o[f]
<1>1. {"Event_State", "Remaining_Time_Delay"} \subseteq F
  BY DEF AlarmFields
<1>2. \A x : /\ IsRecord([o EXCEPT !.Event_State = x], F)
             /\ IsRecord([o EXCEPT !.Remaining_Time_Delay = x], F)
             /\ \A f \in F \ {"Event_State", "Remaining_Time_Delay"} :
                    /\ [o EXCEPT !.Event_State = x][f] = o[f]
                    /\ [o EXCEPT !.Remaining_Time_Delay = x][f] = o[f]
  BY <1>1 DEF IsRecord
<1> DEFINE to == Demanded(o, value)
<1> HIDE DEF to
<1>3. \/ \E x : Counted(o, value) = [o EXCEPT !.Event_State = x]
      \/ \E x : Counted(o, value) = [o EXCEPT !.Remaining_Time_Delay = x]
  BY DEF Counted, to
<1>4. QED
  BY <1>2, <1>3

(* A transition is stamped no earlier than it is marked.                   *)
LEMMA StampedKeeps ==
    ASSUME NEW o, NEW F, AlarmFields \subseteq F, IsRecord(o, F),
           NEW time \in Nat, AlarmsOK(o, time), NEW t \in Three, NEW unacked
    PROVE  /\ IsRecord(Stamped(o, t, time + 1, unacked), F)
           /\ AlarmsOK(Stamped(o, t, time + 1, unacked), time + 1)
           /\ \A f \in F \ AlarmFields : Stamped(o, t, time + 1, unacked)[f] = o[f]
<1> DEFINE n == Stamped(o, t, time + 1, unacked)
           mark == [bIsAcked |-> FALSE, Time_Stamp |-> time + 1]
<1>1. {"Event_Time_Stamps", "Acked_Transitions"} \subseteq AlarmFields
  BY DEF AlarmFields
<1>2. \/ n = [o EXCEPT !.Acked_Transitions[t] = mark, !.Event_Time_Stamps[t] = time + 1]
      \/ n = [o EXCEPT !.Event_Time_Stamps[t] = time + 1]
  BY DEF Stamped
<1> HIDE DEF n, mark
<1>3. /\ IsRecord(n, F)
      /\ n.Event_Time_Stamps = [o.Event_Time_Stamps EXCEPT ![t] = time + 1]
      /\ \/ n.Acked_Transitions = [o.Acked_Transitions EXCEPT ![t] = mark]
         \/ n.Acked_Transitions = o.Acked_Transitions
      /\ \A f \in F \ AlarmFields : n[f] = o[f]
  <2>1. CASE n = [o EXCEPT !.Acked_Transitions[t] = mark, !.Event_Time_Stamps[t] = time + 1]
    BY <1>1, <2>1 DEF IsRecord
  <2>2. CASE n = [o EXCEPT !.Event_Time_Stamps[t] = time + 1]
    BY <1>1, <2>2 DEF IsRecord
  <2>3. QED
    BY <1>2, <2>1, <2>2
<1>4. mark \in [bIsAcked : BOOLEAN, Time_Stamp : Nat] /\ mark.Time_Stamp = time + 1
  BY DEF mark
<1>5. AlarmsOK(o, time + 1)
  BY AlarmsLater
<1>6. n.Event_Time_Stamps \in [Three -> 0 .. (time + 1)]
  <2>1. time + 1 \in 0 .. (time + 1)
    OBVIOUS
  <2>2. QED
    BY <1>3, <1>5, <2>1 DEF AlarmsOK
<1>7. n.Acked_Transitions \in [Three -> [bIsAcked : BOOLEAN, Time_Stamp : Nat]]
  BY <1>3, <1>4, <1>5 DEF AlarmsOK
<1>8. ASSUME NEW s \in Three
      PROVE  \/ n.Acked_Transitions[s].bIsAcked
             \/ n.Acked_Transitions[s].Time_Stamp <= n.Event_Time_Stamps[s]
  <2>1. CASE s = t
    <3>1. n.Event_Time_Stamps[s] = time + 1
      BY <1>3, <2>1 DEF AlarmsOK
    <3>2. CASE n.Acked_Transitions = [o.Acked_Transitions EXCEPT ![t] = mark]
      <4>1. n.Acked_Transitions[s].Time_Stamp = time + 1
        BY <1>4, <2>1, <3>2 DEF AlarmsOK
      <4>2. QED
        BY <3>1, <4>1
    <3>3. CASE n.Acked_Transitions = o.Acked_Transitions
      <4>1. o.Event_Time_Stamps[s] \in 0 .. time
        BY DEF AlarmsOK
      <4>2. o.Acked_Transitions[s].Time_Stamp \in Nat
        BY DEF AlarmsOK
      <4>3. QED
        BY <3>1, <3>3, <4>1, <4>2 DEF AlarmsOK
    <3>4. QED
      BY <1>3, <3>2, <3>3
  <2>2. CASE s # t
    <3>1. /\ n.Event_Time_Stamps[s] = o.Event_Time_Stamps[s]
          /\ n.Acked_Transitions[s] = o.Acked_Transitions[s]
      BY <1>3, <2>2 DEF AlarmsOK
    <3>2. QED
      BY <3>1 DEF AlarmsOK
  <2>3. QED
    BY <2>1, <2>2
<1>9. AlarmsOK(n, time + 1)
  BY <1>6, <1>7, <1>8 DEF AlarmsOK
<1>10. QED
  BY <1>3, <1>9 DEF n

(* A second of intrinsic reporting.                                        *)
LEMMA ReportingKeeps ==
    ASSUME NEW o, NEW F, AlarmFields \subseteq F, IsRecord(o, F),
           NEW time \in Nat, AlarmsOK(o, time),
           NEW value, NEW classes, NEW bound, NEW garbage
    PROVE  LET n == Intrinsic_Reporting(o, value, classes, time + 1, bound, garbage).object
           IN  /\ IsRecord(n, F) /\ AlarmsOK(n, time + 1)
               /\ \A f \in F \ AlarmFields : n[f] = o[f]
<1> DEFINE n == Intrinsic_Reporting(o, value, classes, time + 1, bound, garbage).object
           new == Counted(o, value)
           t == TransitionOf(new.Event_State)
           silent == [o EXCEPT !.bSendAckNotify = FALSE]
<1>1. {"Event_State", "Remaining_Time_Delay", "bSendAckNotify", "Event_Time_Stamps",
       "Acked_Transitions"} \subseteq AlarmFields
  BY DEF AlarmFields
<1>2. \/ n = o \/ n = silent \/ n = new
      \/ \E unacked : n = Stamped(new, t, time + 1, unacked)
  BY DEF Intrinsic_Reporting
<1>3. /\ IsRecord(new, F)
      /\ \A f \in F \ {"Event_State", "Remaining_Time_Delay"} : new[f] = o[f]
  BY CountedKeeps
<1>4. /\ IsRecord(silent, F)
      /\ \A f \in F \ {"bSendAckNotify"} : silent[f] = o[f]
  BY <1>1 DEF IsRecord
<1>5. t \in Three
  BY OneOfThree
<1> HIDE DEF n, new, t, silent
<1>6. /\ new.Event_Time_Stamps = o.Event_Time_Stamps
      /\ new.Acked_Transitions = o.Acked_Transitions
      /\ silent.Event_Time_Stamps = o.Event_Time_Stamps
      /\ silent.Acked_Transitions = o.Acked_Transitions
  BY <1>1, <1>3, <1>4
<1>7. AlarmsOK(new, time) /\ AlarmsOK(silent, time)
  BY <1>6 DEF AlarmsOK
<1>8. AlarmsOK(o, time + 1) /\ AlarmsOK(new, time + 1) /\ AlarmsOK(silent, time + 1)
  BY <1>7, AlarmsLater
<1>9. \A unacked : /\ IsRecord(Stamped(new, t, time + 1, unacked), F)
                   /\ AlarmsOK(Stamped(new, t, time + 1, unacked), time + 1)
                   /\ \A f \in F \ AlarmFields :
                            Stamped(new, t, time + 1, unacked)[f] = new[f]
  BY <1>3, <1>5, <1>7, StampedKeeps
<1>10. \A f \in F \ AlarmFields : new[f] = o[f] /\ silent[f] = o[f]
  BY <1>1, <1>3, <1>4
<1>11. /\ IsRecord(n, F) /\ AlarmsOK(n, time + 1)
       /\ \A f \in F \ AlarmFields : n[f] = o[f]
  BY <1>2, <1>3, <1>4, <1>8, <1>9, <1>10
<1>12. QED
  BY <1>11 DEF n

(* An acknowledgement takes a mark away.                                   *)
LEMMA AcknowledgeKeeps ==
    ASSUME NEW o, NEW F, AlarmFields \subseteq F, IsRecord(o, F),
           NEW time, AlarmsOK(o, time), NEW a, NEW looked
    PROVE  LET n == Acknowledge(o, a, looked).object
           IN  /\ IsRecord(n, F) /\ AlarmsOK(n, time)
               /\ \A f \in F \ AlarmFields : n[f] = o[f]
<1> DEFINE n == Acknowledge(o, a, looked).object
           t == TransitionOf(a.eventStateAcked)
           acked == [o EXCEPT !.Acked_Transitions[t].bIsAcked = TRUE,
                              !.bSendAckNotify = TRUE]
<1>1. {"bSendAckNotify", "Event_Time_Stamps", "Acked_Transitions"} \subseteq AlarmFields
  BY DEF AlarmFields
<1>2. n = o \/ n = acked
  BY DEF Acknowledge, Accept, Refuse
<1>3. /\ IsRecord(acked, F)
      /\ acked.Event_Time_Stamps = o.Event_Time_Stamps
      /\ acked.Acked_Transitions = [o.Acked_Transitions EXCEPT ![t].bIsAcked = TRUE]
      /\ \A f \in F \ AlarmFields : acked[f] = o[f]
  BY <1>1 DEF IsRecord
<1>4. t \in Three
  BY OneOfThree
<1> HIDE DEF n, t, acked
<1>5. AlarmsOK(acked, time)
  <2>1. acked.Acked_Transitions \in [Three -> [bIsAcked : BOOLEAN, Time_Stamp : Nat]]
    BY <1>3 DEF AlarmsOK
  <2>2. ASSUME NEW s \in Three
        PROVE  \/ acked.Acked_Transitions[s].bIsAcked
               \/ acked.Acked_Transitions[s].Time_Stamp <= acked.Event_Time_Stamps[s]
    <3>1. CASE s = t
      BY <1>3, <3>1 DEF AlarmsOK
    <3>2. CASE s # t
      BY <1>3, <3>2 DEF AlarmsOK
    <3>3. QED
      BY <3>1, <3>2
  <2>3. QED
    BY <1>3, <2>1, <2>2 DEF AlarmsOK
<1>6. /\ IsRecord(n, F) /\ AlarmsOK(n, time)
      /\ \A f \in F \ AlarmFields : n[f] = o[f]
  BY <1>2, <1>3, <1>5
<1>7. QED
  BY <1>6 DEF n

----------------------------------------------------------------------------
(* The load control and its output.                                        *)

(* What the load control says of the output, when it says it.              *)
Told(load, output) ==
    LET commanded == output.Level[LOAD_PRIORITY]
        Shed(level) == Content(level) <= Requested_Shed_Level_Value(load)
    IN  load.State = "SHED_COMPLIANT"
            => \/ commanded = Null \/ ~Shed(commanded)
               \/ Shed(Analog_Output_Present_Value(output))

LEMMA LeastPriority ==
    ASSUME NEW S \in SUBSET Priorities, S # {}
    PROVE  LET m == CHOOSE p \in S : \A q \in S : p <= q
           IN  m \in S /\ \A q \in S : m <= q
<1> DEFINE R == {ss \in Nat \X Nat : ss[1] < ss[2]}
<1>1. IsWellFoundedOn(R, Nat)
  BY NatLessThanWellFounded, Zenon DEF OpToRel
<1>2. BACNET_MAX_PRIORITY \in Nat
  BY PropertiesConstants
<1>3. S \in SUBSET Nat
  BY <1>2 DEF Priorities
<1>4. PICK m \in S : \A n \in S : ~(<<n, m>> \in R)
  BY <1>1, <1>3, WFMin, Zenon
<1>5. ASSUME NEW n \in S PROVE m <= n
  <2>1. ~(<<n, m>> \in R)
    BY <1>4, Zenon
  <2>2. n \in Nat /\ m \in Nat
    BY <1>3
  <2>3. QED
    BY <2>1, <2>2
<1>6. QED
  BY <1>5

(* The output is what the highest active priority commands.                *)
LEMMA PresentValueIs ==
    ASSUME NEW o, NEW m \in Priorities, o.Level[m] # Null,
           \A q \in Priorities : o.Level[q] # Null => m <= q
    PROVE  Analog_Output_Present_Value(o) = o.Level[m]
<1> DEFINE active == {p \in Priorities : o.Level[p] # Null}
           c == CHOOSE p \in active : \A q \in active : p <= q
<1>1. active \in SUBSET Priorities /\ active # {} /\ m \in active
  OBVIOUS
<1>2. Analog_Output_Present_Value(o) = o.Level[c]
  BY <1>1 DEF Analog_Output_Present_Value, Highest
<1>3. \A q \in active : m <= q
  OBVIOUS
<1> HIDE DEF active, c
<1>4. c \in active /\ \A q \in active : c <= q
  BY <1>1, LeastPriority DEF c
<1>5. c <= m /\ m <= c
  BY <1>1, <1>3, <1>4
<1>6. c \in Int /\ m \in Int
  <2>1. BACNET_MAX_PRIORITY \in Nat
    BY PropertiesConstants
  <2>2. QED
    BY <1>1, <1>4, <2>1 DEF Priorities
<1>7. c = m
  BY <1>5, <1>6
<1>8. QED
  BY <1>2, <1>7

(* While the request can be met nobody above the load control commands the *)
(* output.                                                                 *)
LEMMA NobodyAbove ==
    ASSUME NEW o, NEW output, Able_To_Meet_Shed_Request(o, output),
           NEW q \in Priorities, output.Level[q] # Null
    PROVE  LOAD_PRIORITY <= q
<1> DEFINE active == {p \in Priorities : output.Level[p] # Null}
           c == CHOOSE p \in active : \A r \in active : p <= r
<1>1. active \in SUBSET Priorities /\ q \in active
  OBVIOUS
<1>2. Analog_Output_Present_Value_Priority(output) = c
  BY <1>1 DEF Analog_Output_Present_Value_Priority
<1>3. LOAD_PRIORITY <= c
  BY <1>2 DEF Able_To_Meet_Shed_Request
<1> HIDE DEF active, c
<1>4. c \in active /\ c <= q
  BY <1>1, LeastPriority DEF c
<1>5. c \in Int /\ q \in Int /\ LOAD_PRIORITY \in Int
  <2>1. BACNET_MAX_PRIORITY \in Nat
    BY PropertiesConstants
  <2>2. QED
    BY <1>1, <1>4, <2>1, ControlsConstants DEF Priorities
<1>6. QED
  BY <1>3, <1>4, <1>5

(* With the load control's own command the output is at that level.        *)
LEMMA CommandedIsShown ==
    ASSUME NEW output, NEW n,
           \A q \in Priorities : n.Level[q] # Null => LOAD_PRIORITY <= q
    PROVE  \/ n.Level[LOAD_PRIORITY] = Null
           \/ Analog_Output_Present_Value(n) = n.Level[LOAD_PRIORITY]
<1>1. LOAD_PRIORITY \in Priorities
  BY ControlsConstants DEF Priorities
<1>2. QED
  BY <1>1, PresentValueIs

LEMMA SheddingTells ==
    ASSUME NEW o, LoadOK(o), NEW output, OutputOK(output),
           NEW asked, Able_To_Meet_Shed_Request(asked, output)
    PROVE  /\ LoadOK(Shedding(o, output).load)
           /\ OutputOK(Shedding(o, output).output)
           /\ Told(Shedding(o, output).load, Shedding(o, output).output)
<1> DEFINE load == Shedding(o, output).load
           n == Shedding(o, output).output
           value == Requested_Shed_Level_Value(o)
<1>1. LoadOK(load)
  BY DEF Shedding, LoadOK, IsRecord
<1>2. \/ n = output
      \/ n = [output EXCEPT !.Level[LOAD_PRIORITY] = Real(Whole(value))]
  BY DEF Shedding, Analog_Output_Present_Value_Set
<1>3. OutputOK(n)
  BY <1>2, LevelChanged
<1>4. LOAD_PRIORITY \in Priorities
  BY ControlsConstants DEF Priorities
<1>5. \A q \in Priorities : output.Level[q] # Null => LOAD_PRIORITY <= q
  BY NobodyAbove
<1> HIDE DEF load, n, value
<1>6. \A q \in Priorities : n.Level[q] = output.Level[q] \/ q = LOAD_PRIORITY
  <2>1. output = [f \in OutputFields |-> output[f]] /\ "Level" \in OutputFields
    BY DEF OutputOK, IsRecord, OutputFields
  <2>2. CASE n = output
    BY <2>2
  <2>3. CASE n = [output EXCEPT !.Level[LOAD_PRIORITY] = Real(Whole(value))]
    <3>1. n.Level = [output.Level EXCEPT ![LOAD_PRIORITY] = Real(Whole(value))]
      BY <2>1, <2>3
    <3>2. QED
      BY <3>1 DEF OutputOK
  <2>4. QED
    BY <1>2, <2>2, <2>3
<1>7. \A q \in Priorities : n.Level[q] # Null => LOAD_PRIORITY <= q
  <2>1. LOAD_PRIORITY \in Int
    BY ControlsConstants
  <2>2. QED
    BY <1>5, <1>6, <2>1
<1>8. \/ n.Level[LOAD_PRIORITY] = Null
      \/ Analog_Output_Present_Value(n) = n.Level[LOAD_PRIORITY]
  BY <1>7, CommandedIsShown
<1>9. Told(load, n)
  BY <1>8 DEF Told
<1>10. QED
  BY <1>1, <1>3, <1>9 DEF load, n

(* Staying compliant is like becoming it.                                  *)
LEMMA AbleTells ==
    ASSUME NEW o, NEW load, NEW output, Able_To_Meet_Shed_Request(o, output)
    PROVE  Told(load, output)
<1>1. \A q \in Priorities : output.Level[q] # Null => LOAD_PRIORITY <= q
  BY NobodyAbove
<1>2. QED
  BY <1>1, CommandedIsShown DEF Told

(* A load control in another state than compliant says nothing.            *)
Sound(r) == LoadOK(r.load) /\ OutputOK(r.output) /\ Told(r.load, r.output)

LEMMA Silent ==
    ASSUME NEW load, LoadOK(load), NEW output, OutputOK(output),
           load.State # "SHED_COMPLIANT"
    PROVE  Sound([load |-> load, output |-> output])
  BY DEF Sound, Told

LEMMA NotSheddingSound ==
    ASSUME NEW o, LoadOK(o), NEW output, OutputOK(output)
    PROVE  Sound(NotShedding(o, output))
<1> DEFINE r == NotShedding(o, output)
<1>1. r.load.State = "SHED_NON_COMPLIANT" /\ LoadOK(r.load)
  BY DEF NotShedding, LoadOK, IsRecord, LoadFields
<1>2. r.output = output
  BY DEF NotShedding
<1> HIDE DEF r
<1>3. Sound(r)
  BY <1>1, <1>2 DEF Sound, Told
<1>4. QED
  BY <1>3 DEF r

LEMMA PendingSound ==
    ASSUME NEW o, LoadOK(o), NEW output, OutputOK(output), NEW time,
           o.State = "SHED_REQUEST_PENDING"
    PROVE  Sound(Pending(o, output, time))
<1> DEFINE seen == [o EXCEPT !.Request_Written = FALSE]
           started == [seen EXCEPT !.Start_Time_Written = FALSE]
           expecting == Expecting(started)
           r == Pending(o, output, time)
<1>1. /\ LoadOK(seen) /\ seen.State = "SHED_REQUEST_PENDING"
      /\ LoadOK(started) /\ started.State = "SHED_REQUEST_PENDING"
  BY DEF LoadOK, IsRecord, LoadFields
<1> HIDE DEF started
<1>2. LoadOK(expecting) /\ expecting.State = "SHED_REQUEST_PENDING"
  BY <1>1 DEF Expecting, LoadOK, IsRecord, LoadFields
<1>3. ASSUME NEW new, LoadOK(new)
      PROVE  Sound([load |-> [new EXCEPT !.State = "SHED_INACTIVE"], output |-> output])
  <2> DEFINE n == [new EXCEPT !.State = "SHED_INACTIVE"]
  <2>1. LoadOK(n) /\ n.State = "SHED_INACTIVE"
    BY <1>3 DEF LoadOK, IsRecord, LoadFields
  <2> HIDE DEF n
  <2>2. Sound([load |-> n, output |-> output])
    BY <2>1, Silent
  <2>3. QED
    BY <2>2 DEF n
<1>4. /\ Sound([load |-> expecting, output |-> output])
      /\ Sound([load |-> started, output |-> output])
  BY <1>1, <1>2, Silent
<1>5. Able_To_Meet_Shed_Request(o, output) => Sound(Shedding(started, output))
  BY <1>1, SheddingTells DEF Sound
<1>6. Sound(NotShedding(started, output))
  BY <1>1, NotSheddingSound
<1>7. /\ Sound([load |-> [seen EXCEPT !.State = "SHED_INACTIVE"], output |-> output])
      /\ Sound([load |-> [started EXCEPT !.State = "SHED_INACTIVE"], output |-> output])
  BY <1>1, <1>3
<1> DEFINE first == [load |-> [seen EXCEPT !.State = "SHED_INACTIVE"], output |-> output]
           second == [load |-> [started EXCEPT !.State = "SHED_INACTIVE"], output |-> output]
           default == o.Requested_Shed_Level
                        = Shed_Level_Default_Set(o.Requested_Shed_Level)
<1>8. r = IF o.Request_Written /\ default THEN first
          ELSE IF Over(o, time) THEN second
          ELSE IF time < o.Start_Time THEN [load |-> expecting, output |-> output]
          ELSE IF time = o.Start_Time THEN [load |-> started, output |-> output]
          ELSE IF Able_To_Meet_Shed_Request(o, output) THEN Shedding(started, output)
          ELSE NotShedding(started, output)
  BY Zenon DEF Pending, started
<1>9. Sound(first) /\ Sound(second)
  BY <1>7
<1> HIDE DEF seen, expecting, r, first, second, default
<1>10. Sound(r)
  BY <1>4, <1>5, <1>6, <1>8, <1>9
<1>11. QED
  BY <1>10 DEF r

LEMMA LoadRuns ==
    ASSUME NEW o, LoadOK(o), NEW output, OutputOK(output), NEW time
    PROVE  Sound(Load_Control_State_Machine(o, output, time))
<1> DEFINE To(state) == [load |-> [o EXCEPT !.State = state], output |-> output]
           r == Load_Control_State_Machine(o, output, time)
           finished == [load |-> [o EXCEPT !.State = "SHED_INACTIVE",
                                           !.Start_Time = Wildcard],
                        output |-> [output EXCEPT !.Level[LOAD_PRIORITY] = Null]]
           begun == [load |-> [Expecting(o) EXCEPT !.State = "SHED_REQUEST_PENDING"],
                     output |-> output]
<1>1. ASSUME NEW state, state # "SHED_COMPLIANT"
      PROVE  Sound(To(state))
  <2> DEFINE n == [o EXCEPT !.State = state]
  <2>1. LoadOK(n) /\ n.State = state
    BY DEF LoadOK, IsRecord, LoadFields
  <2> HIDE DEF n
  <2>2. Sound([load |-> n, output |-> output])
    BY <1>1, <2>1, Silent
  <2>3. QED
    BY <2>2 DEF n
<1>2. Sound(finished)
  <2>1. LoadOK(finished.load) /\ finished.load.State = "SHED_INACTIVE"
    BY DEF LoadOK, IsRecord, LoadFields
  <2>2. OutputOK(finished.output)
    BY LevelChanged
  <2> HIDE DEF finished
  <2>3. QED
    BY <2>1, <2>2 DEF Sound, Told
<1>3. Sound(begun)
  <2>1. LoadOK(begun.load) /\ begun.load.State = "SHED_REQUEST_PENDING"
    BY DEF Expecting, LoadOK, IsRecord, LoadFields
  <2>2. begun.output = output
    OBVIOUS
  <2> HIDE DEF begun
  <2>3. QED
    BY <2>1, <2>2 DEF Sound, Told
<1>4. o.State = "SHED_REQUEST_PENDING" => Sound(Pending(o, output, time))
  BY PendingSound
<1>5. /\ Able_To_Meet_Shed_Request(o, output) => Sound(Shedding(o, output))
      /\ Sound(NotShedding(o, output))
  BY SheddingTells, NotSheddingSound DEF Sound
<1>6. ASSUME Able_To_Meet_Shed_Request(o, output)
      PROVE  Sound(To(o.State))
  <2>1. To(o.State).load = o
    BY DEF LoadOK, IsRecord, LoadFields
  <2>2. To(o.State).output = output
    OBVIOUS
  <2>3. Told(o, output)
    BY <1>6, AbleTells
  <2>4. QED
    BY <2>1, <2>2, <2>3 DEF Sound
<1>7. CASE ~o.Enable
  <2>1. r = To("SHED_INACTIVE")
    BY <1>7 DEF Load_Control_State_Machine
  <2>2. QED
    BY <1>1, <2>1
<1>8. CASE o.Enable /\ o.State = "SHED_REQUEST_PENDING"
  <2>1. r = Pending(o, output, time)
    BY <1>8 DEF Load_Control_State_Machine
  <2>2. QED
    BY <1>4, <1>8, <2>1
<1>9. CASE o.Enable /\ o.State = "SHED_NON_COMPLIANT"
  <2>1. \/ r = To("SHED_INACTIVE") \/ r = To("SHED_REQUEST_PENDING")
        \/ Able_To_Meet_Shed_Request(o, output) /\ r = Shedding(o, output)
        \/ r = To(o.State)
    BY <1>9 DEF Load_Control_State_Machine
  <2>2. Sound(To("SHED_INACTIVE")) /\ Sound(To("SHED_REQUEST_PENDING")) /\ Sound(To(o.State))
    BY <1>1, <1>9
  <2> HIDE DEF To, r
  <2>3. Sound(r)
    BY <1>5, <2>1, <2>2
  <2>4. QED
    BY <2>3 DEF r
<1>10. CASE o.Enable /\ o.State = "SHED_COMPLIANT"
  <2>1. \/ r = finished \/ r = To("SHED_REQUEST_PENDING")
        \/ r = NotShedding(o, output)
        \/ Able_To_Meet_Shed_Request(o, output) /\ r = To(o.State)
    BY <1>10 DEF Load_Control_State_Machine
  <2>2. Sound(To("SHED_REQUEST_PENDING"))
    BY <1>1
  <2> HIDE DEF To, r, finished
  <2>3. Sound(r)
    BY <1>2, <1>5, <1>6, <2>1, <2>2
  <2>4. QED
    BY <2>3 DEF r
<1>11. CASE o.Enable /\ o.State \notin {"SHED_REQUEST_PENDING", "SHED_NON_COMPLIANT",
                                         "SHED_COMPLIANT"}
  <2>1. r = begun \/ r = To("SHED_INACTIVE")
    BY <1>11 DEF Load_Control_State_Machine
  <2>2. Sound(To("SHED_INACTIVE"))
    BY <1>1
  <2> HIDE DEF To, r, begun
  <2>3. Sound(r)
    BY <1>3, <2>1, <2>2
  <2>4. QED
    BY <2>3 DEF r
<1>12. QED
  BY <1>7, <1>8, <1>9, <1>10, <1>11

----------------------------------------------------------------------------
(* The invariant: at the start.                                            *)

LEMMA QuietIs ==
    /\ DOMAIN Quiet = AlarmFields
    /\ Quiet.Event_Time_Stamps = [t \in Three |-> 0]
    /\ Quiet.Acked_Transitions = [t \in Three |-> [bIsAcked |-> TRUE, Time_Stamp |-> 0]]
<1>1. DOMAIN Quiet = AlarmFields
  BY DEF Quiet, AlarmFields
<1>2. Quiet.Event_Time_Stamps = [t \in ToSet(Transitions) |-> Never]
  BY DEF Quiet
<1>3. Quiet.Acked_Transitions =
        [t \in ToSet(Transitions) |-> [bIsAcked |-> TRUE, Time_Stamp |-> Never]]
  BY DEF Quiet
<1>4. QED
  BY <1>1, <1>2, <1>3, ThreeTransitions DEF Never

(* An object to which the fields of its kind are added is quiet.           *)
LEMMA QuietAlarms ==
    ASSUME NEW r, NEW o, o = Quiet ++ r,
           {"Event_Time_Stamps", "Acked_Transitions"} \cap DOMAIN r = {}
    PROVE  IsRecord(o, AlarmFields \cup DOMAIN r) /\ AlarmsOK(o, 0)
<1>1. o = [f \in AlarmFields \cup DOMAIN r |-> IF f \in AlarmFields THEN Quiet[f] ELSE r[f]]
  BY QuietIs DEF ++
<1>2. IsRecord(o, AlarmFields \cup DOMAIN r)
  BY <1>1 DEF IsRecord
<1>3. {"Event_Time_Stamps", "Acked_Transitions"} \subseteq AlarmFields
  BY DEF AlarmFields
<1>4. /\ o.Event_Time_Stamps = [t \in Three |-> 0]
      /\ o.Acked_Transitions = [t \in Three |-> [bIsAcked |-> TRUE, Time_Stamp |-> 0]]
  BY <1>1, <1>3, QuietIs
<1>5. AlarmsOK(o, 0)
  BY <1>4 DEF AlarmsOK
<1>6. QED
  BY <1>2, <1>5

LEMMA InitialObject ==
    ASSUME NEW k
    PROVE  ObjectOK(k, SetUp(k), 0)
<1>1. CASE k = "ANALOG_INPUT"
  <2> DEFINE i == Analog_Input_Init
             r == [Measured |-> 0, Present_Value |-> 0, Prior_Value |-> 0,
                   COV_Increment |-> 2, Changed |-> FALSE, Out_Of_Service |-> FALSE,
                   Units |-> Enumerated(0)]
             s == [i EXCEPT !.Notification_Class = 1, !.High_Limit = 4,
                !.Deadband = 1, !.Limit_Enable = {"HIGH", "LOW"},
                !.Event_Enable = ToSet(Transitions)]
  <2>1. i = Quiet ++ r
    BY DEF Analog_Input_Init
  <2>2. DOMAIN r = {"Measured", "Present_Value", "Prior_Value", "COV_Increment",
                    "Changed", "Out_Of_Service", "Units"}
    OBVIOUS
  <2>3. SetUp(k) = s
    BY <1>1 DEF SetUp, Object_Init
  <2> HIDE DEF r, i
  <2>4. AlarmFields \cup DOMAIN r = InputFields
    BY <2>2 DEF InputFields, ValueFields
  <2>5. IsRecord(i, InputFields) /\ AlarmsOK(i, 0)
    BY <2>1, <2>2, <2>4, QuietAlarms
  <2>7. IsRecord(s, InputFields) /\ \A f \in Watched : s[f] = i[f]
    BY <2>5 DEF IsRecord, Watched, InputFields, ValueFields, AlarmFields
  <2>8. InputOK(i, 0)
    BY <2>5 DEF InputOK
  <2> HIDE DEF s
  <2>9. InputOK(s, 0)
    BY <2>7, <2>8, SameInput DEF Same
  <2>10. QED
    BY <1>1, <2>3, <2>9 DEF ObjectOK
<1>2. CASE k = "ANALOG_VALUE"
  <2> DEFINE i == Analog_Value_Init
             r == [Present_Value |-> 0, Out_Of_Service |-> FALSE, Units |-> Enumerated(0)]
             s == [i EXCEPT !.Notification_Class = 1, !.High_Limit = 4,
                !.Deadband = 1, !.Limit_Enable = {"HIGH", "LOW"},
                !.Event_Enable = ToSet(Transitions)]
  <2>1. i = Quiet ++ r
    BY DEF Analog_Value_Init
  <2>2. DOMAIN r = {"Present_Value", "Out_Of_Service", "Units"}
    OBVIOUS
  <2>3. SetUp(k) = s
    BY <1>2 DEF SetUp, Object_Init
  <2> HIDE DEF r, i
  <2>4. AlarmFields \cup DOMAIN r = ValueFields
    BY <2>2 DEF ValueFields
  <2>5. ValueOK(i, 0)
    BY <2>1, <2>2, <2>4, QuietAlarms DEF ValueOK
  <2>6. IsRecord(s, ValueFields) /\ \A f \in Watched \cap ValueFields : s[f] = i[f]
    BY <2>5 DEF ValueOK, IsRecord, Watched, ValueFields, AlarmFields
  <2> HIDE DEF s
  <2>7. ValueOK(s, 0)
    BY <2>5, <2>6, SameValue DEF Same
  <2>8. QED
    BY <1>2, <2>3, <2>7 DEF ObjectOK
<1>3. CASE k = "ANALOG_OUTPUT"
  <2>1. OutputOK(Analog_Output_Init)
    BY DEF Analog_Output_Init, NoCommands, OutputOK, IsRecord, OutputFields
  <2>2. SetUp(k) = [Analog_Output_Init EXCEPT !.Level[BACNET_MAX_PRIORITY] = Real(200)]
    BY <1>3 DEF SetUp, Object_Init
  <2>3. OutputOK(SetUp(k))
    BY <2>1, <2>2, LevelChanged
  <2>4. QED
    BY <1>3, <2>3 DEF ObjectOK
<1>4. CASE k = "LOAD_CONTROL"
  <2>1. LoadOK(Load_Control_Init)
    BY DEF Load_Control_Init, LoadOK, IsRecord, LoadFields
  <2>2. SetUp(k) = [Load_Control_Init EXCEPT !.Shed_Duration = 3, !.Request_Written = TRUE]
    BY <1>4 DEF SetUp, Object_Init
  <2>3. LoadOK(SetUp(k))
    BY <2>1, <2>2 DEF LoadOK, IsRecord
  <2>4. QED
    BY <1>4, <2>3 DEF ObjectOK
<1>5. QED
  BY <1>1, <1>2, <1>3, <1>4 DEF ObjectOK

LEMMA InitOK == Init => DeviceInv
<1> SUFFICES ASSUME Init PROVE DeviceInv
  OBVIOUS
<1>1. PICK g \in Groups : device = [k \in g |-> SetUp(k)]
  BY DEF Init
<1>2. now = 0
  BY DEF Init
<1>3. DOMAIN device = g /\ IsRecord(device, g)
  BY <1>1 DEF IsRecord
<1>4. \A k \in g : ObjectOK(k, device[k], now)
  BY <1>1, <1>2, InitialObject
<1>5. QED
  BY <1>2, <1>3, <1>4 DEF DeviceInv

----------------------------------------------------------------------------
(* The invariant: step by step.                                            *)

LEMMA WrittenOK ==
    ASSUME NEW k, NEW o, NEW time, ObjectOK(k, o, time), NEW w \in Requests(k)
    PROVE  ObjectOK(k, Device_Write_Property(k, o, w).object, time)
<1>1. CASE k = "ANALOG_INPUT"
  <2>1. InputOK(o, time)
    BY <1>1 DEF ObjectOK
  <2>2. Device_Write_Property(k, o, w) = Analog_Input_Write_Property(o, w)
    BY <1>1 DEF Device_Write_Property
  <2>3. QED
    BY <1>1, <2>1, <2>2, InputWritten DEF ObjectOK
<1>2. CASE k = "ANALOG_VALUE"
  <2>1. Device_Write_Property(k, o, w) = Analog_Value_Write_Property(o, w)
    BY <1>2 DEF Device_Write_Property
  <2>2. QED
    BY <1>2, <2>1, ValueWritten DEF ObjectOK
<1>3. CASE k = "ANALOG_OUTPUT"
  <2>1. Device_Write_Property(k, o, w) = Analog_Output_Write_Property(o, w)
    BY <1>3 DEF Device_Write_Property
  <2>2. QED
    BY <1>3, <2>1, OutputWritten DEF ObjectOK
<1>4. CASE k = "LOAD_CONTROL"
  <2>1. Device_Write_Property(k, o, w) = Load_Control_Write_Property(o, w)
    BY <1>4 DEF Device_Write_Property
  <2>2. QED
    BY <1>4, <2>1, LoadWritten DEF ObjectOK
<1>5. QED
  BY <1>1, <1>2, <1>3, <1>4 DEF ObjectOK

(* One object of the device is replaced by another.                        *)
LEMMA OneReplaced ==
    ASSUME DeviceInv, now' = now, NEW k \in DOMAIN device, NEW n,
           device' = [device EXCEPT ![k] = n], ObjectOK(k, n, now)
    PROVE  DeviceInv'
<1>1. DOMAIN device' = DOMAIN device /\ IsRecord(device', DOMAIN device')
  BY DEF DeviceInv, IsRecord
<1>2. \A j \in DOMAIN device : device'[j] = IF j = k THEN n ELSE device[j]
  BY DEF DeviceInv, IsRecord
<1>3. \A j \in DOMAIN device' : ObjectOK(j, device'[j], now)
  BY <1>1, <1>2 DEF DeviceInv
<1>4. now' \in Nat /\ \A j \in DOMAIN device' : ObjectOK(j, device'[j], now')
  BY <1>3 DEF DeviceInv
<1>5. QED
  BY <1>1, <1>4 DEF DeviceInv

LEMMA WritePropertyOK == DeviceInv /\ WriteProperty => DeviceInv'
<1> SUFFICES ASSUME DeviceInv, WriteProperty PROVE DeviceInv'
  OBVIOUS
<1>1. PICK k \in DOMAIN device : \E w \in Requests(k) :
        device' = [device EXCEPT ![k] = Device_Write_Property(k, @, w).object]
  BY DEF WriteProperty
<1>2. PICK w \in Requests(k) :
        device' = [device EXCEPT ![k] = Device_Write_Property(k, device[k], w).object]
  BY <1>1
<1>3. ObjectOK(k, Device_Write_Property(k, device[k], w).object, now)
  BY WrittenOK DEF DeviceInv
<1>4. now' = now
  BY DEF WriteProperty
<1>5. QED
  BY <1>2, <1>3, <1>4, OneReplaced

LEMMA MeasureOK == DeviceInv /\ Measure => DeviceInv'
<1> SUFFICES ASSUME DeviceInv, Measure PROVE DeviceInv'
  OBVIOUS
<1> DEFINE o == device["ANALOG_INPUT"]
<1>1. PICK v \in {0, 6} :
        device' = [device EXCEPT !["ANALOG_INPUT"] = [o EXCEPT !.Measured = v]]
  BY DEF Measure
<1>2. "ANALOG_INPUT" \in DOMAIN device /\ now' = now
  BY DEF Measure
<1>3. InputOK(o, now)
  BY <1>2 DEF DeviceInv, ObjectOK
<1>4. InputOK([o EXCEPT !.Measured = v], now)
  <2>1. "Measured" \in InputFields \ Watched
    BY DEF InputFields, Watched
  <2>2. IsRecord(o, InputFields)
    BY <1>3 DEF InputOK
  <2>3. Same(o, [o EXCEPT !.Measured = v], InputFields)
    BY <2>1, <2>2, OtherField
  <2>4. QED
    BY <1>3, <2>3, SameInput
<1> HIDE DEF o
<1>5. ObjectOK("ANALOG_INPUT", [o EXCEPT !.Measured = v], now)
  BY <1>4 DEF ObjectOK
<1>6. QED
  BY <1>1, <1>2, <1>5, OneReplaced

(* An object that alarms, at a later time or after an acknowledgement.     *)
LEMMA AlarmsReplaced ==
    ASSUME NEW k \in {"ANALOG_INPUT", "ANALOG_VALUE"}, NEW o, NEW n, NEW time, NEW later,
           ObjectOK(k, o, time),
           LET F == IF k = "ANALOG_INPUT" THEN InputFields ELSE ValueFields
           IN  /\ IsRecord(n, F) /\ AlarmsOK(n, later)
               /\ \A f \in F \ AlarmFields : n[f] = o[f]
    PROVE  ObjectOK(k, n, later)
<1>1. CASE k = "ANALOG_INPUT"
  BY <1>1 DEF ObjectOK, InputOK
<1>2. CASE k = "ANALOG_VALUE"
  BY <1>2 DEF ObjectOK, ValueOK
<1>3. QED
  BY <1>1, <1>2

LEMMA AlarmObject ==
    ASSUME NEW k \in {"ANALOG_INPUT", "ANALOG_VALUE"}, NEW o, NEW time,
           ObjectOK(k, o, time)
    PROVE  LET F == IF k = "ANALOG_INPUT" THEN InputFields ELSE ValueFields
           IN  AlarmFields \subseteq F /\ IsRecord(o, F) /\ AlarmsOK(o, time)
  BY DEF ObjectOK, InputOK, ValueOK, InputFields, ValueFields

LEMMA AcknowledgeAlarmOK == DeviceInv /\ AcknowledgeAlarm => DeviceInv'
<1> SUFFICES ASSUME DeviceInv, AcknowledgeAlarm PROVE DeviceInv'
  OBVIOUS
<1>1. PICK k \in DOMAIN device \cap {"ANALOG_INPUT", "ANALOG_VALUE"},
           a \in Acknowledgements :
        device' = [device EXCEPT ![k] = Alarm_Ack(k, a).object]
  BY DEF AcknowledgeAlarm
<1> DEFINE F == IF k = "ANALOG_INPUT" THEN InputFields ELSE ValueFields
           n == Alarm_Ack(k, a).object
<1>2. ObjectOK(k, device[k], now)
  BY DEF DeviceInv
<1>3. AlarmFields \subseteq F /\ IsRecord(device[k], F) /\ AlarmsOK(device[k], now)
  BY <1>2, AlarmObject
<1>4. \E looked : n = Acknowledge(device[k], a, looked).object
  BY DEF Alarm_Ack, Analog_Input_Alarm_Ack, Analog_Value_Alarm_Ack
<1> HIDE DEF F, n
<1>5. /\ IsRecord(n, F) /\ AlarmsOK(n, now)
      /\ \A f \in F \ AlarmFields : n[f] = device[k][f]
  BY <1>3, <1>4, AcknowledgeKeeps
<1>6. ObjectOK(k, n, now)
  BY <1>2, <1>5, AlarmsReplaced DEF F
<1>7. now' = now
  BY DEF AcknowledgeAlarm
<1>8. QED
  BY <1>1, <1>6, <1>7, OneReplaced DEF n

LEMMA AlarmedOK ==
    ASSUME DeviceInv, now' = now + 1,
           NEW k \in DOMAIN device \cap {"ANALOG_INPUT", "ANALOG_VALUE"}, NEW garbage
    PROVE  ObjectOK(k, Alarmed(k, garbage).object, now')
<1> DEFINE F == IF k = "ANALOG_INPUT" THEN InputFields ELSE ValueFields
           o == device[k]
           n == Alarmed(k, garbage).object
<1>1. now \in Nat /\ ObjectOK(k, o, now)
  BY DEF DeviceInv
<1>2. AlarmFields \subseteq F /\ IsRecord(o, F) /\ AlarmsOK(o, now)
  BY <1>1, AlarmObject
<1>3. \E value : n = Intrinsic_Reporting(o, value, Classes, now + 1, Found, garbage).object
  BY DEF Alarmed, Analog_Input_Intrinsic_Reporting, Analog_Value_Intrinsic_Reporting
<1> HIDE DEF F, n, o
<1>4. /\ IsRecord(n, F) /\ AlarmsOK(n, now + 1)
      /\ \A f \in F \ AlarmFields : n[f] = o[f]
  BY <1>1, <1>2, <1>3, ReportingKeeps
<1>5. ObjectOK(k, n, now + 1)
  BY <1>1, <1>4, AlarmsReplaced DEF F
<1>6. QED
  BY <1>5 DEF n

(* What the timers make of the load control and its output.                *)
LEMMA TimersRun ==
    ASSUME DeviceInv, Timers, {"LOAD_CONTROL", "ANALOG_OUTPUT"} \subseteq DOMAIN device
    PROVE  /\ Sound([load |-> device'["LOAD_CONTROL"], output |-> device'["ANALOG_OUTPUT"]])
<1> DEFINE r == Load_Control_State_Machine(device["LOAD_CONTROL"],
                                           device["ANALOG_OUTPUT"], now')
<1>1. device'["LOAD_CONTROL"] = r.load /\ device'["ANALOG_OUTPUT"] = r.output
  BY DEF Timers
<1>2. LoadOK(device["LOAD_CONTROL"]) /\ OutputOK(device["ANALOG_OUTPUT"])
  BY DEF DeviceInv, ObjectOK
<1>3. Sound(r)
  BY <1>2, LoadRuns
<1> HIDE DEF r
<1>4. QED
  BY <1>1, <1>3 DEF Sound

LEMMA TimersOK == DeviceInv /\ Timers => DeviceInv'
<1> SUFFICES ASSUME DeviceInv, Timers PROVE DeviceInv'
  OBVIOUS
<1>1. now \in Nat /\ now' = now + 1
  BY DEF DeviceInv, Timers
<1> DEFINE alarms == DOMAIN device \cap {"ANALOG_INPUT", "ANALOG_VALUE"}
           controls == {"LOAD_CONTROL", "ANALOG_OUTPUT"}
<1>2. DOMAIN device' = DOMAIN device /\ IsRecord(device', DOMAIN device')
  BY DEF Timers, IsRecord
<1>3. ASSUME NEW k \in DOMAIN device
      PROVE  ObjectOK(k, device'[k], now')
  <2>1. CASE k \in alarms
    <3>1. PICK garbage \in BOOLEAN : device'[k] = Alarmed(k, garbage).object
      BY <2>1 DEF Timers
    <3>2. ObjectOK(k, Alarmed(k, garbage).object, now')
      BY <1>1, <2>1, AlarmedOK
    <3>3. QED
      BY <3>1, <3>2
  <2>2. CASE k \in controls /\ controls \subseteq DOMAIN device
    <3>1. LoadOK(device'["LOAD_CONTROL"]) /\ OutputOK(device'["ANALOG_OUTPUT"])
      BY <2>2, TimersRun DEF Sound
    <3>2. QED
      BY <2>2, <3>1 DEF ObjectOK
  <2>3. CASE k \notin alarms /\ ~(k \in controls /\ controls \subseteq DOMAIN device)
    <3>1. device'[k] = device[k]
      BY <2>3 DEF Timers
    <3>2. k \notin {"ANALOG_INPUT", "ANALOG_VALUE"}
      BY <2>3
    <3>3. ObjectOK(k, device[k], now)
      BY DEF DeviceInv
    <3>4. QED
      BY <3>1, <3>2, <3>3 DEF ObjectOK
  <2>4. QED
    BY <2>1, <2>2, <2>3
<1>4. QED
  BY <1>1, <1>2, <1>3 DEF DeviceInv

LEMMA NextOK == DeviceInv /\ [Next]_vars => DeviceInv'
<1> SUFFICES ASSUME DeviceInv, [Next]_vars PROVE DeviceInv'
  OBVIOUS
<1>1. CASE WriteProperty
  BY <1>1, WritePropertyOK
<1>2. CASE Measure
  BY <1>2, MeasureOK
<1>3. CASE Timers
  BY <1>3, TimersOK
<1>4. CASE AcknowledgeAlarm
  BY <1>4, AcknowledgeAlarmOK
<1>5. CASE UNCHANGED vars
  <2>1. device' = device /\ now' = now
    BY <1>5 DEF vars
  <2>2. QED
    BY <2>1 DEF DeviceInv
<1>6. QED
  BY <1>1, <1>2, <1>3, <1>4, <1>5 DEF Next

----------------------------------------------------------------------------
(* Theorems.                                                               *)

(* Whatever clients write and acknowledge and however the sensor moves,    *)
(* the stamps of an alarming object are of moments that have been, and a   *)
(* transition that waits to be acknowledged is stamped no earlier than it  *)
(* was marked.                                                             *)
THEOREM ObjectsStayWhole == Spec => []DeviceInv
  BY InitOK, NextOK, PTL DEF Spec

LEMMA AcknowledgedIs ==
    ASSUME NEW o, NEW a, NEW looked, ~o.Acked_Transitions[looked].bIsAcked,
           Tag(a.timeStamp) = "DATETIME",
           ~(o.Acked_Transitions[looked].Time_Stamp > Content(a.timeStamp))
    PROVE  Acknowledge(o, a, looked).reply = "ack"
  BY DEF Acknowledge, Accept

LEMMA ReportedIsTaken ==
    ASSUME DeviceInv, NEW k \in DOMAIN device \cap {"ANALOG_INPUT", "ANALOG_VALUE"},
           NEW s \in AlarmStates,
           ~device[k].Acked_Transitions[TransitionOf(s)].bIsAcked
    PROVE  \/ Alarm_Ack(k, [eventStateAcked |-> s, timeStamp |->
                    Moment(device[k].Event_Time_Stamps[TransitionOf(s)])]).reply = "ack"
           \/ k = "ANALOG_VALUE" /\ TransitionOf(s) # "TO_OFFNORMAL"
<1> DEFINE o == device[k]
           t == TransitionOf(s)
           a == [eventStateAcked |-> s, timeStamp |-> Moment(o.Event_Time_Stamps[t])]
<1>1. t \in Three /\ AlarmsOK(o, now)
  BY OneOfThree DEF DeviceInv, ObjectOK, InputOK, ValueOK
<1>2. /\ o.Acked_Transitions[t].Time_Stamp <= o.Event_Time_Stamps[t]
      /\ o.Acked_Transitions[t].Time_Stamp \in Nat
      /\ o.Event_Time_Stamps[t] \in 0 .. now
  BY <1>1 DEF AlarmsOK
<1>3. /\ a.eventStateAcked = s
      /\ Tag(a.timeStamp) = "DATETIME" /\ Content(a.timeStamp) = o.Event_Time_Stamps[t]
  BY DEF Moment, Tag, Content
<1>4. ~o.Acked_Transitions[t].bIsAcked
  OBVIOUS
<1> HIDE DEF o, t, a
<1>5. ~(o.Acked_Transitions[t].Time_Stamp > Content(a.timeStamp))
  BY <1>2, <1>3
<1>6. Acknowledge(o, a, t).reply = "ack"
  BY <1>3, <1>4, <1>5, AcknowledgedIs
<1>7. CASE k = "ANALOG_INPUT"
  <2>1. Alarm_Ack(k, a) = Acknowledge(o, a, t)
    BY <1>3, <1>7 DEF Alarm_Ack, Analog_Input_Alarm_Ack, o, t
  <2>2. QED
    BY <1>6, <2>1 DEF a, o, t
<1>8. CASE k = "ANALOG_VALUE" /\ t = "TO_OFFNORMAL"
  <2>1. s # "FAULT" /\ s # "NORMAL"
    BY <1>8 DEF t, TransitionOf
  <2>2. Alarm_Ack(k, a) = Acknowledge(o, a, t)
    BY <1>3, <1>8, <2>1 DEF Alarm_Ack, Analog_Value_Alarm_Ack, o
  <2>3. QED
    BY <1>6, <2>2 DEF a, o, t
<1>9. QED
  BY <1>7, <1>8 DEF t

(* An operator who acknowledges a transition with the stamp that the       *)
(* device reports for it is never refused, at any time and after any       *)
(* further transitions; of an analog value where it is to off-normal.      *)
THEOREM ReportedStampsAreTaken == Spec => []ReportedStampAcknowledges
<1>1. ASSUME DeviceInv
      PROVE  ReportedStampAcknowledges
  <2> SUFFICES ASSUME NEW k \in DOMAIN device \cap {"ANALOG_INPUT", "ANALOG_VALUE"}
               PROVE  LET o == device[k]
                          info == Event_Information(o)
                      IN  /\ (info = <<>>) =>
                                /\ o.Event_State = "NORMAL"
                                /\ AckedTransitions(o) = ToSet(Transitions)
                          /\ \A s \in AlarmStates :
                                LET t == TransitionOf(s)
                                IN  info # <<>> /\ t \notin info[1].acknowledgedTransitions =>
                                    \/ Alarm_Ack(k, [eventStateAcked |-> s, timeStamp |->
                                            Moment(info[1].eventTimeStamps[t])]).reply = "ack"
                                    \/ k = "ANALOG_VALUE" /\ t # "TO_OFFNORMAL"
    BY DEF ReportedStampAcknowledges
  <2> DEFINE o == device[k]
             info == Event_Information(o)
  <2>1. (info = <<>>) => o.Event_State = "NORMAL" /\ AckedTransitions(o) = ToSet(Transitions)
    BY DEF Event_Information
  <2>2. ASSUME NEW s \in AlarmStates, info # <<>>,
               TransitionOf(s) \notin info[1].acknowledgedTransitions
        PROVE  \/ Alarm_Ack(k, [eventStateAcked |-> s, timeStamp |->
                        Moment(info[1].eventTimeStamps[TransitionOf(s)])]).reply = "ack"
               \/ k = "ANALOG_VALUE" /\ TransitionOf(s) # "TO_OFFNORMAL"
    <3>1. /\ info[1].acknowledgedTransitions = AckedTransitions(o)
          /\ info[1].eventTimeStamps = o.Event_Time_Stamps
      BY <2>2 DEF Event_Information
    <3>2. ~o.Acked_Transitions[TransitionOf(s)].bIsAcked
      BY <2>2, <3>1, OneOfThree, ThreeTransitions DEF AckedTransitions
    <3> HIDE DEF info
    <3>3. QED
      BY <1>1, <3>1, <3>2, ReportedIsTaken
  <2> HIDE DEF o, info
  <2>3. QED
    BY <2>1, <2>2 DEF o, info
<1>2. QED
  BY <1>1, ObjectsStayWhole, PTL

(* Whenever the load control runs and then reports to be compliant, its    *)
(* output is at the level of its command, so not above the requested one   *)
(* by anybody else's: nobody commands the output at a higher priority.     *)
THEOREM CompliantLoadsAreShed == Spec => CompliantIsShed
<1> DEFINE P == now' # now /\ {"LOAD_CONTROL", "ANALOG_OUTPUT"} \subseteq DOMAIN device =>
                    Told(device'["LOAD_CONTROL"], device'["ANALOG_OUTPUT"])
<1>1. ASSUME DeviceInv, [Next]_vars
      PROVE  P
  <2>1. CASE Timers
    BY <1>1, <2>1, TimersRun DEF Sound
  <2>2. CASE ~Timers
    <3>1. now' = now
      BY <1>1, <2>2 DEF Next, vars, WriteProperty, Measure, AcknowledgeAlarm
    <3>2. QED
      BY <3>1
  <2>3. QED
    BY <2>1, <2>2
<1>2. DeviceInv /\ [Next]_vars => [P]_vars
  BY <1>1
<1>3. [][P]_vars => CompliantIsShed
  BY PTL DEF CompliantIsShed, Told
<1> HIDE DEF P
<1>4. QED
  BY <1>2, <1>3, ObjectsStayWhole, PTL DEF Spec

----------------------------------------------------------------------------
(* What requests leave of an object.                                       *)

(* The fields that are arrays.                                             *)
ArrayFields == {"Level", "State_Text", "Priority", "Shed_Levels", "Weekly_Schedule"}

(* An object is like another one when it has the same fields, the arrays   *)
(* among them with the same places, and a flag where it has to have one.   *)
Like(o, s) ==
    /\ IsRecord(o, DOMAIN s)
    /\ "Out_Of_Service" \in DOMAIN s => o.Out_Of_Service \in BOOLEAN
    /\ \A a \in ArrayFields \cap DOMAIN s : IsRecord(o[a], DOMAIN s[a])

(* A field that is no array may be written, the flag with a flag.          *)
LEMMA FieldSet ==
    ASSUME NEW o, NEW s, Like(o, s), NEW a, a \notin ArrayFields, NEW x,
           a = "Out_Of_Service" => x \in BOOLEAN
    PROVE  Like([o EXCEPT ![a] = x], s)
  BY DEF Like, IsRecord, ArrayFields

(* So may two.                                                             *)
LEMMA FieldsSet ==
    ASSUME NEW o, NEW s, Like(o, s), NEW a, a \notin ArrayFields, NEW x,
           a = "Out_Of_Service" => x \in BOOLEAN,
           NEW b, b \notin ArrayFields, NEW y,
           b = "Out_Of_Service" => y \in BOOLEAN
    PROVE  Like([o EXCEPT ![a] = x, ![b] = y], s)
  BY DEF Like, IsRecord, ArrayFields

(* A place of an array may be written.                                     *)
LEMMA PlaceSet ==
    ASSUME NEW o, NEW s, Like(o, s), NEW a \in ArrayFields, NEW i, NEW x
    PROVE  Like([o EXCEPT ![a][i] = x], s)
<1> DEFINE n == [o EXCEPT ![a][i] = x]
<1>1. IsRecord(n, DOMAIN s) /\ \A b \in DOMAIN s \ {a} : n[b] = o[b]
  BY DEF Like, IsRecord
<1>2. a \in DOMAIN s => n[a] = [o[a] EXCEPT ![i] = x]
  BY DEF Like, IsRecord
<1> HIDE DEF n
<1>3. a # "Out_Of_Service"
  BY DEF ArrayFields
<1>4. a \in DOMAIN s => IsRecord(n[a], DOMAIN s[a])
  BY <1>2 DEF Like, IsRecord
<1>5. \A b \in ArrayFields \cap DOMAIN s : IsRecord(n[b], DOMAIN s[b])
  BY <1>1, <1>4 DEF Like
<1>6. Like(n, s)
  BY <1>1, <1>3, <1>5 DEF Like
<1>7. QED
  BY <1>6 DEF n

(* And so may an array as a whole.                                         *)
LEMMA ArraySet ==
    ASSUME NEW o, NEW s, Like(o, s), NEW a \in ArrayFields, NEW x,
           a \in DOMAIN s => IsRecord(x, DOMAIN s[a])
    PROVE  Like([o EXCEPT ![a] = x], s)
<1> DEFINE n == [o EXCEPT ![a] = x]
<1>1. /\ IsRecord(n, DOMAIN s) /\ \A b \in DOMAIN s \ {a} : n[b] = o[b]
      /\ a \in DOMAIN s => n[a] = x
  BY DEF Like, IsRecord
<1> HIDE DEF n
<1>2. a # "Out_Of_Service"
  BY DEF ArrayFields
<1>3. Like(n, s)
  BY <1>1, <1>2 DEF Like
<1>4. QED
  BY <1>3 DEF n

----------------------------------------------------------------------------
(* What a write does: nothing, or, of one property, a change.              *)

(* A write is refused, or taken with this new object.                      *)
Refused(r, o) == r.reply # "ack" /\ r.object = o
Taken(r, w, p, new) == r.reply = "ack" /\ w.property = p /\ r.object = new

(* The flag, of all objects that have one but the analog input.            *)
FlagTaken(r, o, w) ==
    /\ Tag(w.values[1]) = "BOOLEAN"
    /\ Taken(r, w, "OUT_OF_SERVICE", [o EXCEPT !.Out_Of_Service = Content(w.values[1])])

(* A command to one of the priorities.                                     *)
CommandTaken(r, o, w, tag, kept) ==
    \/ /\ Tag(w.values[1]) = tag
       /\ Taken(r, w, "PRESENT_VALUE", [o EXCEPT !.Level[w.priority] = kept])
    \/ /\ Tag(w.values[1]) = "NULL"
       /\ Taken(r, w, "PRESENT_VALUE", [o EXCEPT !.Level[w.priority] = Null])

(* What the operators of the frame give.                                   *)
Given(r, new) == r.reply = "ack" /\ r.object = new

(* A change that is checked first is refused, or valid and made.           *)
LEMMA Checked ==
    ASSUME NEW o, NEW valid, NEW code, code # "ack", NEW new
    PROVE  LET r == Check(o, valid, code, new) IN Refused(r, o) \/ (valid /\ Given(r, new))
  BY DEF Check, Accept, Refuse, Refused, Given

(* A value of another type is refused.                                     *)
LEMMA TypeChecked ==
    ASSUME NEW o, NEW v, NEW tag, NEW outcome
    PROVE  LET r == WPValidateArgType(o, v, tag, outcome)
           IN  Refused(r, o) \/ (Tag(v) = tag /\ r = outcome)
  BY DEF WPValidateArgType, Refuse, Refused

(* The flag of an object is written with a flag or not at all              *)
(* (WriteOutOfService).                                                    *)
LEMMA FlagWritten ==
    ASSUME NEW o, NEW v
    PROVE  LET r == WriteOutOfService(o, v)
           IN  \/ Refused(r, o)
               \/ Tag(v) = "BOOLEAN" /\ Given(r, [o EXCEPT !.Out_Of_Service = Content(v)])
  BY DEF WriteOutOfService, WPValidateArgType, Accept, Refuse, Refused, Given

(* A command is refused, takes a priority or gives it up (Commanding).     *)
LEMMA CommandWritten ==
    ASSUME NEW o, NEW w, NEW tag, NEW valid, NEW kept
    PROVE  LET r == Commanding(o, w, tag, valid, kept)
               v == w.values[1]
           IN  \/ Refused(r, o)
               \/ Tag(v) = tag /\ valid /\ Given(r, [o EXCEPT !.Level[w.priority] = kept])
               \/ Tag(v) = "NULL" /\ Given(r, [o EXCEPT !.Level[w.priority] = Null])
  BY DEF Commanding, Check, WPValidateArgType, Accept, Refuse, Refused, Given

(* A write goes by the table of the changes of an object, or is refused    *)
(* (Writing).                                                              *)
LEMMA FrameWritten ==
    ASSUME NEW o, NEW w, NEW arrays, NEW changes, NEW denied
    PROVE  LET r == Writing(o, w, arrays, changes, denied)
           IN  \/ Refused(r, o)
               \/ w.property \in DOMAIN changes /\ r = changes[w.property]
  BY DEF Writing, Refuse, Refused

(* Life_Safety_Point_Write_Property writes the mode or the flag.           *)
LEMMA LifeSafetyPointWrites ==
    ASSUME NEW o, NEW w
    PROVE  LET r == Life_Safety_Point_Write_Property(o, w)
               v == w.values[1]
           IN  \/ Refused(r, o) \/ FlagTaken(r, o, w)
               \/ /\ Tag(v) = "ENUMERATED"
                  /\ Taken(r, w, "MODE", [o EXCEPT !.Mode = v])
  BY DEF Life_Safety_Point_Write_Property, Writing, WPValidateArgType, Check, WriteOutOfService,
         Accept, Refuse, Refused, FlagTaken, Taken

(* Lighting_Output_Write_Property takes a command, a lighting command or   *)
(* the flag.                                                               *)
LEMMA LightingOutputWrites ==
    ASSUME NEW o, NEW w
    PROVE  LET r == Lighting_Output_Write_Property(o, w)
               v == w.values[1]
           IN  \/ Refused(r, o) \/ FlagTaken(r, o, w)
               \/ CommandTaken(r, o, w, "REAL", v)
               \/ /\ Tag(v) = "LIGHTING_COMMAND"
                  /\ Taken(r, w, "LIGHTING_COMMAND", [o EXCEPT !.Lighting_Command = v])
  BY DEF Lighting_Output_Write_Property, Writing, WPValidateArgType, Check, WriteOutOfService,
         Commanding, Lighting_Output_Present_Value_Relinquish,
         Accept, Refuse, Refused, FlagTaken, Taken, CommandTaken

(* Analog_Output_Write_Property takes whole percentages of at most 100, or *)
(* the flag.                                                               *)
LEMMA AnalogOutputWrites ==
    ASSUME NEW o, NEW w
    PROVE  LET r == Analog_Output_Write_Property(o, w)
               v == w.values[1]
           IN  \/ Refused(r, o) \/ FlagTaken(r, o, w)
               \/ /\ CommandTaken(r, o, w, "REAL", Real(Whole(Content(v))))
                  /\ Tag(v) = "REAL" => Content(v) \in 0 .. 200
<1> DEFINE v == w.values[1]
           level == Commanding(o, w, "REAL", Content(v) \in 0 .. 200, Real(Whole(Content(v))))
           none == WPValidateArgType(o, v, "NULL", Analog_Output_Present_Value_Relinquish(o, w))
           flag == WriteOutOfService(o, v)
           changes == [PRESENT_VALUE |-> IF Tag(v) = "REAL" THEN level ELSE none,
                       OUT_OF_SERVICE |-> flag]
<1>1. \/ Refused(level, o)
      \/ /\ Tag(v) = "REAL" /\ Content(v) \in 0 .. 200
         /\ Given(level, [o EXCEPT !.Level[w.priority] = Real(Whole(Content(v)))])
      \/ Tag(v) = "NULL" /\ Given(level, [o EXCEPT !.Level[w.priority] = Null])
  BY CommandWritten
<1>2. \/ Refused(none, o)
      \/ Tag(v) = "NULL" /\ Given(none, [o EXCEPT !.Level[w.priority] = Null])
  BY TypeChecked, Checked DEF Analog_Output_Present_Value_Relinquish
<1>3. \/ Refused(flag, o)
      \/ Tag(v) = "BOOLEAN" /\ Given(flag, [o EXCEPT !.Out_Of_Service = Content(v)])
  BY FlagWritten
<1>4. \/ Refused(Analog_Output_Write_Property(o, w), o)
      \/ /\ w.property \in DOMAIN changes
         /\ Analog_Output_Write_Property(o, w) = changes[w.property]
  BY FrameWritten DEF Analog_Output_Write_Property
<1> HIDE DEF level, none, flag
<1>5. QED
  BY <1>1, <1>2, <1>3, <1>4, SMT DEF Given, Taken, FlagTaken, CommandTaken, Refused, Null

(* A command and a flag, of the objects that take the value as it is.      *)
LEMMA LevelOrFlag ==
    ASSUME NEW o, NEW w, NEW arrays, NEW denied, NEW tag, NEW valid
    PROVE  LET v == w.values[1]
               r == Writing(o, w, arrays,
                        [PRESENT_VALUE |-> Commanding(o, w, tag, valid, v),
                         OUT_OF_SERVICE |-> WriteOutOfService(o, v)], denied)
           IN  Refused(r, o) \/ FlagTaken(r, o, w) \/ CommandTaken(r, o, w, tag, v)
<1> DEFINE v == w.values[1]
           level == Commanding(o, w, tag, valid, v)
           flag == WriteOutOfService(o, v)
           changes == [PRESENT_VALUE |-> level, OUT_OF_SERVICE |-> flag]
           r == Writing(o, w, arrays, changes, denied)
<1>1. \/ Refused(level, o)
      \/ Tag(v) = tag /\ Given(level, [o EXCEPT !.Level[w.priority] = v])
      \/ Tag(v) = "NULL" /\ Given(level, [o EXCEPT !.Level[w.priority] = Null])
  BY CommandWritten
<1>2. \/ Refused(flag, o)
      \/ Tag(v) = "BOOLEAN" /\ Given(flag, [o EXCEPT !.Out_Of_Service = Content(v)])
  BY FlagWritten
<1>3. Refused(r, o) \/ (w.property \in DOMAIN changes /\ r = changes[w.property])
  BY FrameWritten
<1> HIDE DEF level, flag, r
<1>4. Refused(r, o) \/ FlagTaken(r, o, w) \/ CommandTaken(r, o, w, tag, v)
  BY <1>1, <1>2, <1>3, SMT DEF Given, Taken, FlagTaken, CommandTaken, Refused
<1>5. QED
  BY <1>4 DEF level, flag, r

(* Binary_Value_Write_Property takes a command or the flag.                *)
LEMMA BinaryValueWrites ==
    ASSUME NEW o, NEW w
    PROVE  LET r == Binary_Value_Write_Property(o, w)
               v == w.values[1]
           IN  \/ Refused(r, o) \/ FlagTaken(r, o, w) \/ CommandTaken(r, o, w, "ENUMERATED", v)
  BY LevelOrFlag DEF Binary_Value_Write_Property

(* Binary_Output_Write_Property takes a command or the flag.               *)
LEMMA BinaryOutputWrites ==
    ASSUME NEW o, NEW w
    PROVE  LET r == Binary_Output_Write_Property(o, w)
               v == w.values[1]
           IN  \/ Refused(r, o) \/ FlagTaken(r, o, w) \/ CommandTaken(r, o, w, "ENUMERATED", v)
  BY LevelOrFlag DEF Binary_Output_Write_Property

(* Multistate_Output_Write_Property takes a command or the flag.           *)
LEMMA MultistateOutputWrites ==
    ASSUME NEW o, NEW w
    PROVE  LET r == Multistate_Output_Write_Property(o, w)
               v == w.values[1]
           IN  \/ Refused(r, o) \/ FlagTaken(r, o, w) \/ CommandTaken(r, o, w, "UNSIGNED_INT", v)
  BY LevelOrFlag DEF Multistate_Output_Write_Property

(* Binary_Input_Write_Property sets the value, the polarity or the flag.   *)
LEMMA BinaryInputWrites ==
    ASSUME NEW o, NEW w
    PROVE  LET r == Binary_Input_Write_Property(o, w)
               v == w.values[1]
           IN  \/ Refused(r, o)
               \/ /\ Tag(v) = "ENUMERATED"
                  /\ Taken(r, w, "PRESENT_VALUE", Binary_Input_Present_Value_Set(o, Content(v)))
               \/ /\ Tag(v) = "ENUMERATED"
                  /\ Taken(r, w, "POLARITY", [o EXCEPT !.Polarity = Content(v)])
               \/ /\ Tag(v) = "BOOLEAN"
                  /\ Taken(r, w, "OUT_OF_SERVICE", Binary_Input_Out_Of_Service_Set(o, Content(v)))
  BY DEF Binary_Input_Write_Property, Writing, WPValidateArgType, Check, WriteOutOfService,
         Accept, Refuse, Refused, FlagTaken, Taken

(* A value of the right type.                                              *)
ValueTaken(r, o, w, tag) ==
    /\ Tag(w.values[1]) = tag
    /\ Taken(r, w, "PRESENT_VALUE", [o EXCEPT !.Present_Value = w.values[1]])

(* A value and a flag, of the objects that have nothing else.              *)
LEMMA ValueOrFlag ==
    ASSUME NEW o, NEW w, NEW tag, NEW outcome,
           \/ Refused(outcome, o)
           \/ /\ Tag(w.values[1]) = tag
              /\ Given(outcome, [o EXCEPT !.Present_Value = w.values[1]]),
           NEW arrays, NEW denied
    PROVE  LET r == Writing(o, w, arrays,
                        [PRESENT_VALUE |-> outcome,
                         OUT_OF_SERVICE |-> WriteOutOfService(o, w.values[1])], denied)
           IN  Refused(r, o) \/ FlagTaken(r, o, w) \/ ValueTaken(r, o, w, tag)
<1> DEFINE v == w.values[1]
           flag == WriteOutOfService(o, v)
           changes == [PRESENT_VALUE |-> outcome, OUT_OF_SERVICE |-> flag]
           r == Writing(o, w, arrays, changes, denied)
<1>1. \/ Refused(flag, o)
      \/ Tag(v) = "BOOLEAN" /\ Given(flag, [o EXCEPT !.Out_Of_Service = Content(v)])
  BY FlagWritten
<1>2. Refused(r, o) \/ (w.property \in DOMAIN changes /\ r = changes[w.property])
  BY FrameWritten
<1> HIDE DEF flag, r
<1>3. Refused(r, o) \/ FlagTaken(r, o, w) \/ ValueTaken(r, o, w, tag)
  BY <1>1, <1>2, SMT DEF Given, Taken, FlagTaken, ValueTaken, Refused
<1>4. QED
  BY <1>3 DEF flag, r

(* A switch that takes any value of its type.                              *)
LEMMA AnyValue ==
    ASSUME NEW o, NEW v, NEW tag, NEW code, code # "ack"
    PROVE  \/ Refused(WriteValue(o, v, tag, code), o)
           \/ /\ Tag(v) = tag
              /\ Given(WriteValue(o, v, tag, code), [o EXCEPT !.Present_Value = v])
  BY DEF WriteValue, Accept, Refuse, Refused, Given

(* CharacterString_Value_Write_Property stores a string or the flag.       *)
LEMMA CharacterStringWrites ==
    ASSUME NEW o, NEW w
    PROVE  LET r == CharacterString_Value_Write_Property(o, w)
               v == w.values[1]
           IN  \/ Refused(r, o) \/ FlagTaken(r, o, w)
               \/ ValueTaken(r, o, w, "CHARACTER_STRING")
<1> DEFINE v == w.values[1]
           outcome == WriteValue(o, v, "CHARACTER_STRING", "INVALID_DATA_TYPE")
<1>1. \/ Refused(outcome, o)
      \/ Tag(v) = "CHARACTER_STRING" /\ Given(outcome, [o EXCEPT !.Present_Value = v])
  BY AnyValue
<1> HIDE DEF outcome
<1>2. QED
  BY <1>1, ValueOrFlag DEF CharacterString_Value_Write_Property, outcome

(* OctetString_Value_Write_Property stores octets or the flag.             *)
LEMMA OctetStringWrites ==
    ASSUME NEW o, NEW w
    PROVE  LET r == OctetString_Value_Write_Property(o, w)
               v == w.values[1]
           IN  \/ Refused(r, o) \/ FlagTaken(r, o, w)
               \/ ValueTaken(r, o, w, "OCTET_STRING")
<1> DEFINE v == w.values[1]
           outcome == WriteValue(o, v, "OCTET_STRING", "VALUE_OUT_OF_RANGE")
<1>1. \/ Refused(outcome, o)
      \/ Tag(v) = "OCTET_STRING" /\ Given(outcome, [o EXCEPT !.Present_Value = v])
  BY AnyValue
<1> HIDE DEF outcome
<1>2. QED
  BY <1>1, ValueOrFlag DEF OctetString_Value_Write_Property, outcome

(* PositiveInteger_Value_Write_Property stores a number or the flag.       *)
LEMMA PositiveIntegerWrites ==
    ASSUME NEW o, NEW w
    PROVE  LET r == PositiveInteger_Value_Write_Property(o, w)
               v == w.values[1]
           IN  \/ Refused(r, o) \/ FlagTaken(r, o, w)
               \/ ValueTaken(r, o, w, "UNSIGNED_INT")
<1> DEFINE v == w.values[1]
           outcome == WriteValue(o, v, "UNSIGNED_INT", "VALUE_OUT_OF_RANGE")
<1>1. \/ Refused(outcome, o)
      \/ Tag(v) = "UNSIGNED_INT" /\ Given(outcome, [o EXCEPT !.Present_Value = v])
  BY AnyValue
<1> HIDE DEF outcome
<1>2. QED
  BY <1>1, ValueOrFlag DEF PositiveInteger_Value_Write_Property, outcome

(* Multistate_Value_Write_Property stores a state or the flag.             *)
LEMMA MultistateValueWrites ==
    ASSUME NEW o, NEW w
    PROVE  LET r == Multistate_Value_Write_Property(o, w)
               v == w.values[1]
           IN  \/ Refused(r, o) \/ FlagTaken(r, o, w)
               \/ ValueTaken(r, o, w, "UNSIGNED_INT")
<1> DEFINE v == w.values[1]
           new == [o EXCEPT !.Present_Value = v]
           outcome == WPValidateArgType(o, v, "UNSIGNED_INT",
                        Check(o, Content(v) \in States, "VALUE_OUT_OF_RANGE", new))
<1>1. Refused(outcome, o) \/ (Tag(v) = "UNSIGNED_INT" /\ Given(outcome, new))
  BY TypeChecked, Checked
<1> HIDE DEF outcome
<1>2. QED
  BY <1>1, ValueOrFlag DEF Multistate_Value_Write_Property, outcome

(* Multistate_Input_Write_Property stores the state, the flag, a name, a   *)
(* description, or texts of states.                                        *)
LEMMA MultistateInputWrites ==
    ASSUME NEW o, NEW w
    PROVE  LET r == Multistate_Input_Write_Property(o, w)
               v == w.values[1]
           IN  \/ Refused(r, o) \/ FlagTaken(r, o, w)
               \/ ValueTaken(r, o, w, "UNSIGNED_INT")
               \/ /\ Tag(v) = "CHARACTER_STRING" /\ r.reply = "ack"
                  /\ \/ Taken(r, w, "OBJECT_NAME", [o EXCEPT !.Object_Name = v])
                     \/ Taken(r, w, "OBJECT_NAME", o) /\ v = o.Object_Name
                     \/ Taken(r, w, "DESCRIPTION", [o EXCEPT !.Object_Description = v])
               \/ /\ w.property = "STATE_TEXT"
                  /\ \/ \E i : r.object = [o EXCEPT !.State_Text[i] = v]
                     \/ r.object = WriteStateTexts(o, w.values).object
<1> DEFINE v == w.values[1]
           Texts(outcome) == WPValidateArgType(o, v, "CHARACTER_STRING", outcome)
           name == Texts(WriteName(o, v))
           description == Texts(Multistate_Input_Description_Write(o, v))
           value == WPValidateArgType(o, v, "UNSIGNED_INT",
                        Check(o, Content(v) \in States, "VALUE_OUT_OF_RANGE",
                              [o EXCEPT !.Present_Value = v]))
           flag == WriteOutOfService(o, v)
           one == Multistate_Input_State_Text_Write(o, w.index, v)
           inner == IF w.index = BACNET_ARRAY_ALL THEN WriteStateTexts(o, w.values)
                    ELSE IF w.index \in States THEN one
                    ELSE Refuse(o, "WRITE_ACCESS_DENIED")
           states == Texts(inner)
           changes == [OBJECT_NAME |-> name, DESCRIPTION |-> description,
                       PRESENT_VALUE |-> value, OUT_OF_SERVICE |-> flag,
                       STATE_TEXT |-> states]
           r == Multistate_Input_Write_Property(o, w)
<1>1. \A new : LET n == Check(o, TextReply(v) = "ack", TextReply(v), new)
               IN  Refused(n, o) \/ Given(n, new)
  BY DEF Check, Accept, Refuse, Refused, Given
<1>2. \/ Refused(name, o)
      \/ /\ Tag(v) = "CHARACTER_STRING"
         /\ \/ Given(name, [o EXCEPT !.Object_Name = v])
            \/ v = o.Object_Name /\ Given(name, o)
  <2> DEFINE n == WriteName(o, v)
  <2>1. \/ Refused(n, o) \/ Given(n, [o EXCEPT !.Object_Name = v])
        \/ v = o.Object_Name /\ Given(n, o)
    <3>1. LET m == Multistate_Input_Object_Name_Write(o, v)
          IN  Refused(m, o) \/ Given(m, [o EXCEPT !.Object_Name = v])
      BY <1>1 DEF Multistate_Input_Object_Name_Write
    <3>2. Refused(Refuse(o, "DUPLICATE_NAME"), o) /\ Given(Accept(o), o)
      BY DEF Refuse, Accept, Refused, Given
    <3>3. QED
      BY <3>1, <3>2 DEF WriteName
  <2> HIDE DEF n
  <2>2. QED
    BY <2>1, TypeChecked DEF n
<1>3. \/ Refused(description, o)
      \/ /\ Tag(v) = "CHARACTER_STRING"
         /\ Given(description, [o EXCEPT !.Object_Description = v])
  BY <1>1, TypeChecked DEF Multistate_Input_Description_Write
<1>4. \/ Refused(value, o)
      \/ Tag(v) = "UNSIGNED_INT" /\ Given(value, [o EXCEPT !.Present_Value = v])
  BY TypeChecked, Checked
<1>5. \/ Refused(flag, o)
      \/ Tag(v) = "BOOLEAN" /\ Given(flag, [o EXCEPT !.Out_Of_Service = Content(v)])
  BY FlagWritten
<1>6. \/ Refused(states, o)
      \/ states.object = [o EXCEPT !.State_Text[w.index] = v]
      \/ states.object = WriteStateTexts(o, w.values).object
  <2>1. Refused(one, o) \/ Given(one, [o EXCEPT !.State_Text[w.index] = v])
    BY <1>1 DEF Multistate_Input_State_Text_Write
  <2>2. Refused(Refuse(o, "WRITE_ACCESS_DENIED"), o)
    BY DEF Refuse, Refused
  <2> HIDE DEF one
  <2>3. \/ Refused(inner, o) \/ Given(inner, [o EXCEPT !.State_Text[w.index] = v])
        \/ inner = WriteStateTexts(o, w.values)
    BY <2>1, <2>2
  <2> HIDE DEF inner
  <2>4. QED
    BY <2>3, TypeChecked DEF Given
<1>7. Refused(r, o) \/ (w.property \in DOMAIN changes /\ r = changes[w.property])
  BY FrameWritten DEF Multistate_Input_Write_Property
<1> HIDE DEF name, description, value, flag, states, r
<1>8. w.property \in DOMAIN changes =>
        \/ w.property = "OBJECT_NAME" /\ changes[w.property] = name
        \/ w.property = "DESCRIPTION" /\ changes[w.property] = description
        \/ w.property = "PRESENT_VALUE" /\ changes[w.property] = value
        \/ w.property = "OUT_OF_SERVICE" /\ changes[w.property] = flag
        \/ w.property = "STATE_TEXT" /\ changes[w.property] = states
  OBVIOUS
<1> HIDE DEF changes
<1>9. /\ w.property = "OBJECT_NAME" /\ r = name =>
            \/ Refused(r, o)
            \/ /\ Tag(v) = "CHARACTER_STRING"
               /\ \/ Taken(r, w, "OBJECT_NAME", [o EXCEPT !.Object_Name = v])
                  \/ Taken(r, w, "OBJECT_NAME", o) /\ v = o.Object_Name
      /\ w.property = "DESCRIPTION" /\ r = description =>
            \/ Refused(r, o)
            \/ /\ Tag(v) = "CHARACTER_STRING"
               /\ Taken(r, w, "DESCRIPTION", [o EXCEPT !.Object_Description = v])
      /\ w.property = "PRESENT_VALUE" /\ r = value =>
            Refused(r, o) \/ ValueTaken(r, o, w, "UNSIGNED_INT")
      /\ w.property = "OUT_OF_SERVICE" /\ r = flag => Refused(r, o) \/ FlagTaken(r, o, w)
      /\ w.property = "STATE_TEXT" /\ r = states =>
            \/ Refused(r, o)
            \/ r.object = [o EXCEPT !.State_Text[w.index] = v]
            \/ r.object = WriteStateTexts(o, w.values).object
  BY <1>2, <1>3, <1>4, <1>5, <1>6 DEF Given, Taken, FlagTaken, ValueTaken
<1> HIDE DEF v
<1>10. QED
  BY <1>7, <1>8, <1>9 DEF r, v, Taken

(* Load_Control_Write_Property notes the request, or turns the load on or  *)
(* off.                                                                    *)
LEMMA LoadControlWrites ==
    ASSUME NEW o, NEW w
    PROVE  LET r == Load_Control_Write_Property(o, w)
               v == w.values[1]
           IN  \/ Refused(r, o)
               \/ Taken(r, w, "REQUESTED_SHED_LEVEL", [o EXCEPT !.Requested_Shed_Level = v,
                                                                 !.Request_Written = TRUE])
               \/ /\ Tag(v) = "DATETIME"
                  /\ Taken(r, w, "START_TIME", [o EXCEPT !.Start_Time = Content(v),
                                                          !.Start_Time_Written = TRUE])
               \/ /\ Tag(v) = "UNSIGNED_INT"
                  /\ Taken(r, w, "SHED_DURATION", [o EXCEPT !.Shed_Duration = Content(v),
                                                             !.Request_Written = TRUE])
               \/ /\ Tag(v) = "UNSIGNED_INT"
                  /\ Taken(r, w, "DUTY_WINDOW", [o EXCEPT !.Duty_Window = Content(v),
                                                           !.Request_Written = TRUE])
               \/ /\ w.property = "SHED_LEVELS" /\ r.reply = "ack"
                  /\ r.object = o \/ r.object = [o EXCEPT !.Shed_Levels[w.index] = v]
               \/ /\ Tag(v) = "BOOLEAN"
                  /\ Taken(r, w, "ENABLE", [o EXCEPT !.Enable = Content(v)])
<1> DEFINE v == w.values[1]
           Number(new) == WPValidateArgType(o, v, "UNSIGNED_INT", new)
           requested == [o EXCEPT !.Requested_Shed_Level = v, !.Request_Written = TRUE]
           begun == [o EXCEPT !.Start_Time = Content(v), !.Start_Time_Written = TRUE]
           lasting == [o EXCEPT !.Shed_Duration = Content(v), !.Request_Written = TRUE]
           windowed == [o EXCEPT !.Duty_Window = Content(v), !.Request_Written = TRUE]
           enabled == [o EXCEPT !.Enable = Content(v)]
           levelled == [o EXCEPT !.Shed_Levels[w.index] = v]
           level == Check(o, Tag(v) \in {"PERCENT", "LEVEL", "AMOUNT"},
                          "INVALID_DATA_TYPE", requested)
           start == WPValidateArgType(o, v, "DATETIME", Accept(begun))
           duration == Number(Accept(lasting))
           window == Number(Accept(windowed))
           inner == IF w.index = BACNET_ARRAY_ALL THEN Accept(o)
                    ELSE IF w.index = 0 THEN Refuse(o, "WRITE_ACCESS_DENIED")
                    ELSE Check(o, w.index \in DOMAIN SHED_LEVELS, "OTHER", levelled)
           levels == Number(inner)
           enable == WPValidateArgType(o, v, "BOOLEAN", Accept(enabled))
           first == [REQUESTED_SHED_LEVEL |-> level, START_TIME |-> start,
                     SHED_DURATION |-> duration, DUTY_WINDOW |-> window,
                     SHED_LEVELS |-> levels, ENABLE |-> enable]
           second == [p \in {w.property} |-> Refuse(o, "WRITE_ACCESS_DENIED")]
           r == Load_Control_Write_Property(o, w)
<1>1. \A new : Given(Accept(new), new)
  BY DEF Given, Accept
<1>2. /\ Refused(level, o) \/ Given(level, requested)
      /\ Refused(start, o) \/ (Tag(v) = "DATETIME" /\ Given(start, begun))
      /\ Refused(duration, o) \/ (Tag(v) = "UNSIGNED_INT" /\ Given(duration, lasting))
      /\ Refused(window, o) \/ (Tag(v) = "UNSIGNED_INT" /\ Given(window, windowed))
      /\ Refused(enable, o) \/ (Tag(v) = "BOOLEAN" /\ Given(enable, enabled))
  <2> HIDE DEF requested, begun, lasting, windowed, enabled
  <2>1. QED
    BY <1>1, TypeChecked, Checked
<1>3. Refused(levels, o) \/ Given(levels, o) \/ Given(levels, levelled)
  <2> HIDE DEF levelled
  <2>1. Refused(Refuse(o, "WRITE_ACCESS_DENIED"), o)
    BY DEF Refuse, Refused
  <2>2. Refused(inner, o) \/ Given(inner, o) \/ Given(inner, levelled)
    BY <1>1, <2>1, Checked
  <2> HIDE DEF inner
  <2>3. QED
    BY <2>2, TypeChecked
<1>4. Refused(second[w.property], o) /\ DOMAIN second = {w.property}
  BY DEF Refuse, Refused
<1>5. \/ Refused(r, o)
      \/ w.property \in DOMAIN (first ++ second) /\ r = (first ++ second)[w.property]
  BY FrameWritten DEF Load_Control_Write_Property
<1> HIDE DEF requested, begun, lasting, windowed, enabled, levelled, level, start, duration,
             window, levels, enable, second, r
<1>6. \/ Refused(r, o)
      \/ w.property = "REQUESTED_SHED_LEVEL" /\ r = level
      \/ w.property = "START_TIME" /\ r = start
      \/ w.property = "SHED_DURATION" /\ r = duration
      \/ w.property = "DUTY_WINDOW" /\ r = window
      \/ w.property = "SHED_LEVELS" /\ r = levels
      \/ w.property = "ENABLE" /\ r = enable
  <2>1. (first ++ second)[w.property] = IF w.property \in DOMAIN first THEN first[w.property]
                                        ELSE second[w.property]
    <3> HIDE DEF first
    <3>1. QED
      BY <1>4 DEF ++
  <2> HIDE DEF first, second
  <2>2. Refused(r, o) \/ (w.property \in DOMAIN first /\ r = first[w.property])
    BY <1>4, <1>5, <2>1
  <2>3. QED
    BY <2>2 DEF first
<1>7. QED
  BY <1>2, <1>3, <1>6, SMT DEF Given, Taken, requested, begun, lasting, windowed, enabled,
     levelled, r

(* Schedule_Write_Property takes nothing but the flag.                     *)
LEMMA ScheduleWrites ==
    ASSUME NEW o, NEW w
    PROVE  LET r == Schedule_Write_Property(o, w)
               v == w.values[1]
           IN  \/ Refused(r, o) \/ FlagTaken(r, o, w)
  BY DEF Schedule_Write_Property, Writing, WPValidateArgType, Check, WriteOutOfService,
         Accept, Refuse, Refused, FlagTaken, Taken

(* A number, and a choice, that is kept in fewer bits than it is sent in.  *)
Kept(v, width) == Unsigned(Content(v) % width)
Shortened(v, width) == Enumerated(Content(v) % width)

(* Notification_Class_Write_Property changes a priority, what is to be     *)
(* acknowledged, or a whole list of recipients.                            *)
LEMMA NotificationClassWrites ==
    ASSUME NEW o, NEW w
    PROVE  LET r == Notification_Class_Write_Property(o, w)
               v == w.values[1]
           IN  \/ Refused(r, o)
               \/ /\ w.property = "PRIORITY" /\ r.reply = "ack"
                  /\ \/ r.object = o
                     \/ r.object = [o EXCEPT !.Priority[w.index] = Kept(v, Octet)]
               \/ /\ w.property = "ACK_REQUIRED" /\ r.reply = "ack"
                  /\ r.object = o \/ r.object = [o EXCEPT !.Ack_Required = Content(v)]
               \/ /\ RecipientsReply(IF Tag(v) = "EMPTY" THEN <<>> ELSE w.values) = "ack"
                  /\ w.property = "RECIPIENT_LIST" /\ r.reply = "ack"
                  /\ \E list : r.object = Destined(o, list)
  BY DEF Notification_Class_Write_Property, WriteRecipients, Writing, WPValidateArgType,
     Check, WriteOutOfService, Kept,
         Accept, Refuse, Refused, FlagTaken, Taken

(* bacfile_write_property leaves the object as it is.                      *)
LEMMA FileWrites ==
    ASSUME NEW o, NEW w
    PROVE  LET r == bacfile_write_property(o, w)
               v == w.values[1]
           IN  r.object = o
  BY DEF bacfile_write_property, Writing, WPValidateArgType, Check, WriteOutOfService,
         Accept, Refuse, Refused, FlagTaken, Taken

(* An array that fits into a reply, and whose index of all of it is no     *)
(* place.                                                                  *)
Fits(a) ==
    /\ Len(a) \in Nat /\ Len(a) <= MAX_APDU_ELEMENTS /\ Len(a) < BACNET_ARRAY_ALL
    /\ DOMAIN a = 1 .. Len(a)

(* An array of so many places fits when its number of places does.         *)
LEMMA PlacesFit ==
    ASSUME NEW n \in Nat, n <= MAX_APDU_ELEMENTS, n < BACNET_ARRAY_ALL,
           NEW a, IsRecord(a, 1 .. n)
    PROVE  Fits(a) /\ Len(a) = n
<1> DEFINE S == {a[i] : i \in 1 .. n}
<1>1. a \in [1 .. n -> S]
  BY DEF IsRecord
<1>2. a \in Seq(S) /\ Len(a) = n
  BY <1>1, SeqDef, LenProperties
<1>3. DOMAIN a = 1 .. n
  BY DEF IsRecord
<1>4. QED
  BY <1>2, <1>3 DEF Fits

(* The elements of an array are the array.                                 *)
LEMMA ElementsAgree ==
    ASSUME NEW values, NEW arrays, \A q \in DOMAIN arrays : Fits(arrays[q]),
           BACNET_ARRAY_ALL # 0, NEW p,
           Reading(values, arrays, p, 0).error = "none"
    PROVE  \A i \in 1 .. Content(Reading(values, arrays, p, 0).values[1]) :
              Reading(values, arrays, p, i)
                = Answer(<<Reading(values, arrays, p, BACNET_ARRAY_ALL).values[i]>>)
<1>1. p \in DOMAIN arrays
  BY DEF Reading, Error
<1> DEFINE a == arrays[p]
<1>2. Fits(a)
  BY <1>1
<1> HIDE DEF a
<1>3. \A i : Reading(values, arrays, p, i) = Element(a, i)
  BY <1>1 DEF Reading, a
<1>4. Content(Element(a, 0).values[1]) = Len(a)
  BY DEF Element, Answer, Content, Unsigned
<1>5. Element(a, BACNET_ARRAY_ALL).values = a
  BY <1>2 DEF Element, Answer, Fits
<1>6. \A i \in 1 .. Len(a) : Element(a, i) = Answer(<<a[i]>>)
  BY <1>2, PropertiesConstants DEF Element, Fits
<1>7. QED
  BY <1>3, <1>4, <1>5, <1>6

(* A property that is an array, and one that is not.                       *)
LEMMA ArrayRead ==
    ASSUME NEW values, NEW arrays, NEW p \in DOMAIN arrays, Fits(arrays[p]),
           BACNET_ARRAY_ALL # 0
    PROVE  Reading(values, arrays, p, BACNET_ARRAY_ALL) = Answer(arrays[p])
  BY DEF Reading, Element, Fits

(* A property that is no array is read without an index.                   *)
LEMMA ValueRead ==
    ASSUME NEW values, NEW p \in DOMAIN values, NEW arrays, p \notin DOMAIN arrays
    PROVE  Reading(values, arrays, p, BACNET_ARRAY_ALL) = Answer(<<values[p]>>)
  BY DEF Reading

----------------------------------------------------------------------------
(* What an object answers.                                                 *)

(* The reads that are not answered from the tables of the frame.           *)
Special(k, p, i) ==
    \/ k = "BINARY_VALUE" /\ p = "PRIORITY_ARRAY" /\ i \in Priorities
    \/ k \in {"ANALOG_INPUT", "ANALOG_VALUE"} /\ p = "EVENT_TIME_STAMPS" /\ i \in 1 .. 3
    \/ k = "NOTIFICATION_CLASS" /\ p = "RECIPIENT_LIST" /\ i = BACNET_ARRAY_ALL
    \/ k = "FILE" /\ i # BACNET_ARRAY_ALL

(* An object answers with these values and these arrays.                   *)
Answers(k, o, values, arrays) ==
    /\ \A q \in DOMAIN arrays : Fits(arrays[q])
    /\ \A p \in Device_Objects_Property_List(k) : p \in DOMAIN values \/ p \in DOMAIN arrays
    /\ \A p, i : \/ Special(k, p, i)
                 \/ Device_Read_Property(k, o, p, i) = Reading(values, arrays, p, i)

(* An object answers whatever it lists.                                    *)
Answering(k, o) == \E values, arrays : Answers(k, o, values, arrays)

(* A property shows a value.                                               *)
Shows(k, o, p, v) == Device_Read_Property(k, o, p, BACNET_ARRAY_ALL) = Answer(<<v>>)

(* No index of an array means the whole of it.                             *)
LEMMA ValueShown ==
    ASSUME NEW k, NEW o, NEW values, NEW arrays, Answers(k, o, values, arrays),
           NEW p \in DOMAIN values, p \notin DOMAIN arrays, ~Special(k, p, BACNET_ARRAY_ALL)
    PROVE  Shows(k, o, p, values[p])
<1>1. Device_Read_Property(k, o, p, BACNET_ARRAY_ALL)
        = Reading(values, arrays, p, BACNET_ARRAY_ALL)
  BY DEF Answers
<1>2. QED
  BY <1>1, ValueRead DEF Shows

(* The flags of status, and that they are shown.                           *)
Flags(alarm, o) ==
    Bits((IF alarm THEN {"IN_ALARM"} ELSE {}) \cup
         (IF o.Out_Of_Service THEN {"OUT_OF_SERVICE"} ELSE {}))

(* The values that objects with priorities have.                           *)
Commanded(k, o, default) ==
    /\ Answering(k, o)
    /\ Shows(k, o, "PRESENT_VALUE", Highest(o.Level, default))
    /\ Shows(k, o, "RELINQUISH_DEFAULT", default)
    /\ Device_Read_Property(k, o, "PRIORITY_ARRAY", BACNET_ARRAY_ALL) = Answer(o.Level)
    /\ Shows(k, o, "OUT_OF_SERVICE", Boolean(o.Out_Of_Service))

Flagged(k, o, alarm) == Shows(k, o, "STATUS_FLAGS", Flags(alarm, o))

(* What an object with priorities answers from its tables.                 *)
LEMMA LevelsShown ==
    ASSUME NEW k, NEW o, NEW values, NEW default,
           Answers(k, o, values, [PRIORITY_ARRAY |-> o.Level]), Fits(o.Level),
           {"PRESENT_VALUE", "RELINQUISH_DEFAULT", "OUT_OF_SERVICE"} \subseteq DOMAIN values,
           values["PRESENT_VALUE"] = Highest(o.Level, default),
           values["RELINQUISH_DEFAULT"] = default,
           values["OUT_OF_SERVICE"] = Boolean(o.Out_Of_Service),
           BACNET_ARRAY_ALL # 0, BACNET_ARRAY_ALL \notin Priorities
    PROVE  Commanded(k, o, default)
<1> DEFINE arrays == [PRIORITY_ARRAY |-> o.Level]
<1>1. DOMAIN arrays = {"PRIORITY_ARRAY"} /\ arrays["PRIORITY_ARRAY"] = o.Level
  OBVIOUS
<1>2. Answers(k, o, values, arrays)
  OBVIOUS
<1> HIDE DEF arrays
<1>3. /\ ~Special(k, "PRESENT_VALUE", BACNET_ARRAY_ALL)
      /\ ~Special(k, "RELINQUISH_DEFAULT", BACNET_ARRAY_ALL)
      /\ ~Special(k, "OUT_OF_SERVICE", BACNET_ARRAY_ALL)
      /\ ~Special(k, "PRIORITY_ARRAY", BACNET_ARRAY_ALL)
  BY DEF Special
<1>4. /\ Shows(k, o, "PRESENT_VALUE", values["PRESENT_VALUE"])
      /\ Shows(k, o, "RELINQUISH_DEFAULT", values["RELINQUISH_DEFAULT"])
      /\ Shows(k, o, "OUT_OF_SERVICE", values["OUT_OF_SERVICE"])
  BY <1>1, <1>2, <1>3, ValueShown
<1>5. Device_Read_Property(k, o, "PRIORITY_ARRAY", BACNET_ARRAY_ALL)
        = Reading(values, arrays, "PRIORITY_ARRAY", BACNET_ARRAY_ALL)
  BY <1>2, <1>3 DEF Answers
<1>6. Reading(values, arrays, "PRIORITY_ARRAY", BACNET_ARRAY_ALL) = Answer(o.Level)
  BY <1>1, ArrayRead
<1>7. Answering(k, o)
  BY <1>2 DEF Answering
<1>8. QED
  BY <1>4, <1>5, <1>6, <1>7 DEF Commanded

(* Analog_Output_Read_Property: the command of the highest priority, else  *)
(* 0.                                                                      *)
LEMMA AnalogOutputReads ==
    ASSUME NEW o, Fits(o.Level), BACNET_ARRAY_ALL # 0, BACNET_ARRAY_ALL \notin Priorities
    PROVE  Commanded("ANALOG_OUTPUT", o, Real(0)) /\ Flagged("ANALOG_OUTPUT", o, FALSE)
<1> DEFINE values == Fixed(Base \cup {"DESCRIPTION", "EVENT_STATE", "UNITS"})
            ++ Status(FALSE, o.Out_Of_Service)
            ++ [PRESENT_VALUE |-> Analog_Output_Present_Value(o),
                RELINQUISH_DEFAULT |-> Real(0)]
           arrays == [PRIORITY_ARRAY |-> o.Level]
<1>1. /\ \A p \in Device_Objects_Property_List("ANALOG_OUTPUT") :
            p \in DOMAIN values \/ p = "PRIORITY_ARRAY"
      /\ {"PRESENT_VALUE", "RELINQUISH_DEFAULT", "OUT_OF_SERVICE", "STATUS_FLAGS"}
            \subseteq DOMAIN values
      /\ values["PRESENT_VALUE"] = Analog_Output_Present_Value(o)
      /\ values["RELINQUISH_DEFAULT"] = Real(0)
      /\ values["OUT_OF_SERVICE"] = Boolean(o.Out_Of_Service)
      /\ values["STATUS_FLAGS"] = Flags(FALSE, o)
  BY DEF Device_Objects_Property_List, Analog_Output_Property_Lists,
     Common, Always, Base, Commandable, Fixed, Status, ++, Flags
<1>2. DOMAIN arrays = {"PRIORITY_ARRAY"} /\ arrays["PRIORITY_ARRAY"] = o.Level
  OBVIOUS
<1>3. \A p, i : Device_Read_Property("ANALOG_OUTPUT", o, p, i) = Reading(values, arrays, p, i)
  BY DEF Device_Read_Property, Analog_Output_Read_Property
<1> HIDE DEF values
<1>4. Answers("ANALOG_OUTPUT", o, values, arrays)
  <2> HIDE DEF arrays
  <2>1. QED
    BY <1>1, <1>2, <1>3 DEF Answers
<1>5. ~Special("ANALOG_OUTPUT", "STATUS_FLAGS", BACNET_ARRAY_ALL)
  BY DEF Special
<1>6. QED
  BY <1>1, <1>2, <1>4, <1>5, LevelsShown, ValueShown
     DEF Analog_Output_Present_Value, Flagged

(* Binary_Input_Read_Property: the value as the polarity has it.           *)
LEMMA BinaryInputReads ==
    ASSUME NEW o
    PROVE  /\ Answering("BINARY_INPUT", o)
           /\ Shows("BINARY_INPUT", o, "PRESENT_VALUE", Enumerated(Binary_Input_Present_Value(o)))
           /\ Shows("BINARY_INPUT", o, "POLARITY", Enumerated(o.Polarity))
           /\ Shows("BINARY_INPUT", o, "OUT_OF_SERVICE", Boolean(o.Out_Of_Service))
           /\ Flagged("BINARY_INPUT", o, FALSE)
<1> DEFINE values ==
            Fixed(Base \cup {"DESCRIPTION", "EVENT_STATE"})
            ++ Status(FALSE, o.Out_Of_Service)
            ++ [PRESENT_VALUE |-> Enumerated(Binary_Input_Present_Value(o)),
                POLARITY |-> Enumerated(o.Polarity)]
           arrays == <<>>
<1>1. /\ \A p \in Device_Objects_Property_List("BINARY_INPUT") :
            p \in DOMAIN values \/ p \in {}
      /\ "PRESENT_VALUE" \in DOMAIN values
      /\ values["PRESENT_VALUE"] = Enumerated(Binary_Input_Present_Value(o))
      /\ "POLARITY" \in DOMAIN values /\ values["POLARITY"] = Enumerated(o.Polarity)
      /\ "OUT_OF_SERVICE" \in DOMAIN values
      /\ values["OUT_OF_SERVICE"] = Boolean(o.Out_Of_Service)
      /\ "STATUS_FLAGS" \in DOMAIN values /\ values["STATUS_FLAGS"] = Flags(FALSE, o)
  BY DEF Device_Objects_Property_List, Binary_Input_Property_Lists,
     Common, Always, Base, Commandable, Fixed, Status, ++, Flags
<1>2. /\ DOMAIN arrays = {}
  OBVIOUS
<1>3. \A p, i : \/ Special("BINARY_INPUT", p, i)
                \/ Device_Read_Property("BINARY_INPUT", o, p, i) = Reading(values, arrays, p, i)
  BY DEF Device_Read_Property, Binary_Input_Read_Property, Special
<1> HIDE DEF values
<1>4. Answers("BINARY_INPUT", o, values, arrays)
  <2> HIDE DEF arrays
  <2>1. QED
    BY <1>1, <1>2, <1>3 DEF Answers
<1>5. Answering("BINARY_INPUT", o)
  <2> HIDE DEF arrays
  <2>1. QED
    BY <1>4 DEF Answering
<1>6. \A p \in {"PRESENT_VALUE", "POLARITY", "OUT_OF_SERVICE", "STATUS_FLAGS"} :
          ~Special("BINARY_INPUT", p, BACNET_ARRAY_ALL)
  BY DEF Special
<1> HIDE DEF arrays
<1>7. \A p \in {"PRESENT_VALUE", "POLARITY", "OUT_OF_SERVICE", "STATUS_FLAGS"} :
          Shows("BINARY_INPUT", o, p, values[p])
  BY <1>1, <1>2, <1>4, <1>6, ValueShown
<1>8. QED
  BY <1>1, <1>5, <1>7 DEF Flagged

(* CharacterString_Value_Read_Property: the string and the flag.           *)
LEMMA CharacterStringReads ==
    ASSUME NEW o
    PROVE  /\ Answering("CHARACTERSTRING_VALUE", o)
           /\ Shows("CHARACTERSTRING_VALUE", o, "PRESENT_VALUE", o.Present_Value)
           /\ Shows("CHARACTERSTRING_VALUE", o, "OUT_OF_SERVICE", Boolean(o.Out_Of_Service))
           /\ Flagged("CHARACTERSTRING_VALUE", o, FALSE)
<1> DEFINE values ==
            Fixed(Base \cup {"DESCRIPTION", "EVENT_STATE"})
            ++ Status(FALSE, o.Out_Of_Service)
            ++ [PRESENT_VALUE |-> o.Present_Value]
           arrays == <<>>
<1>1. /\ \A p \in Device_Objects_Property_List("CHARACTERSTRING_VALUE") :
            p \in DOMAIN values \/ p \in {}
      /\ "PRESENT_VALUE" \in DOMAIN values /\ values["PRESENT_VALUE"] = o.Present_Value
      /\ "OUT_OF_SERVICE" \in DOMAIN values
      /\ values["OUT_OF_SERVICE"] = Boolean(o.Out_Of_Service)
      /\ "STATUS_FLAGS" \in DOMAIN values /\ values["STATUS_FLAGS"] = Flags(FALSE, o)
  BY DEF Device_Objects_Property_List, CharacterString_Value_Property_Lists,
     Common, Always, Base, Commandable, Fixed, Status, ++, Flags
<1>2. /\ DOMAIN arrays = {}
  OBVIOUS
<1>3. \A p, i : \/ Special("CHARACTERSTRING_VALUE", p, i)
                \/ Device_Read_Property("CHARACTERSTRING_VALUE", o, p, i)
                     = Reading(values, arrays, p, i)
  BY DEF Device_Read_Property, CharacterString_Value_Read_Property, Special
<1> HIDE DEF values
<1>4. Answers("CHARACTERSTRING_VALUE", o, values, arrays)
  <2> HIDE DEF arrays
  <2>1. QED
    BY <1>1, <1>2, <1>3 DEF Answers
<1>5. Answering("CHARACTERSTRING_VALUE", o)
  <2> HIDE DEF arrays
  <2>1. QED
    BY <1>4 DEF Answering
<1>6. \A p \in {"PRESENT_VALUE", "OUT_OF_SERVICE", "STATUS_FLAGS"} :
          ~Special("CHARACTERSTRING_VALUE", p, BACNET_ARRAY_ALL)
  BY DEF Special
<1> HIDE DEF arrays
<1>7. \A p \in {"PRESENT_VALUE", "OUT_OF_SERVICE", "STATUS_FLAGS"} :
          Shows("CHARACTERSTRING_VALUE", o, p, values[p])
  BY <1>1, <1>2, <1>4, <1>6, ValueShown
<1>8. QED
  BY <1>1, <1>5, <1>7 DEF Flagged

(* OctetString_Value_Read_Property: the octets and the flag.               *)
LEMMA OctetStringReads ==
    ASSUME NEW o
    PROVE  /\ Answering("OCTETSTRING_VALUE", o)
           /\ Shows("OCTETSTRING_VALUE", o, "PRESENT_VALUE", o.Present_Value)
           /\ Shows("OCTETSTRING_VALUE", o, "OUT_OF_SERVICE", Boolean(o.Out_Of_Service))
           /\ Flagged("OCTETSTRING_VALUE", o, FALSE)
<1> DEFINE values ==
            Fixed(Base \cup {"DESCRIPTION", "EVENT_STATE"})
            ++ Status(FALSE, o.Out_Of_Service)
            ++ [PRESENT_VALUE |-> o.Present_Value]
           arrays == <<>>
<1>1. /\ \A p \in Device_Objects_Property_List("OCTETSTRING_VALUE") :
            p \in DOMAIN values \/ p \in {}
      /\ "PRESENT_VALUE" \in DOMAIN values /\ values["PRESENT_VALUE"] = o.Present_Value
      /\ "OUT_OF_SERVICE" \in DOMAIN values
      /\ values["OUT_OF_SERVICE"] = Boolean(o.Out_Of_Service)
      /\ "STATUS_FLAGS" \in DOMAIN values /\ values["STATUS_FLAGS"] = Flags(FALSE, o)
  BY DEF Device_Objects_Property_List, OctetString_Value_Property_Lists,
     Common, Always, Base, Commandable, Fixed, Status, ++, Flags
<1>2. /\ DOMAIN arrays = {}
  OBVIOUS
<1>3. \A p, i : \/ Special("OCTETSTRING_VALUE", p, i)
                \/ Device_Read_Property("OCTETSTRING_VALUE", o, p, i)
                     = Reading(values, arrays, p, i)
  BY DEF Device_Read_Property, OctetString_Value_Read_Property, Special
<1> HIDE DEF values
<1>4. Answers("OCTETSTRING_VALUE", o, values, arrays)
  <2> HIDE DEF arrays
  <2>1. QED
    BY <1>1, <1>2, <1>3 DEF Answers
<1>5. Answering("OCTETSTRING_VALUE", o)
  <2> HIDE DEF arrays
  <2>1. QED
    BY <1>4 DEF Answering
<1>6. \A p \in {"PRESENT_VALUE", "OUT_OF_SERVICE", "STATUS_FLAGS"} :
          ~Special("OCTETSTRING_VALUE", p, BACNET_ARRAY_ALL)
  BY DEF Special
<1> HIDE DEF arrays
<1>7. \A p \in {"PRESENT_VALUE", "OUT_OF_SERVICE", "STATUS_FLAGS"} :
          Shows("OCTETSTRING_VALUE", o, p, values[p])
  BY <1>1, <1>2, <1>4, <1>6, ValueShown
<1>8. QED
  BY <1>1, <1>5, <1>7 DEF Flagged

(* PositiveInteger_Value_Read_Property: the number and the flag.           *)
LEMMA PositiveIntegerReads ==
    ASSUME NEW o
    PROVE  /\ Answering("POSITIVE_INTEGER_VALUE", o)
           /\ Shows("POSITIVE_INTEGER_VALUE", o, "PRESENT_VALUE", o.Present_Value)
           /\ Shows("POSITIVE_INTEGER_VALUE", o, "OUT_OF_SERVICE", Boolean(o.Out_Of_Service))
           /\ Flagged("POSITIVE_INTEGER_VALUE", o, FALSE)
<1> DEFINE values ==
            Fixed(Base \cup {"UNITS"})
            ++ Status(FALSE, o.Out_Of_Service)
            ++ [PRESENT_VALUE |-> o.Present_Value]
           arrays == <<>>
<1>1. /\ \A p \in Device_Objects_Property_List("POSITIVE_INTEGER_VALUE") :
            p \in DOMAIN values \/ p \in {}
      /\ "PRESENT_VALUE" \in DOMAIN values /\ values["PRESENT_VALUE"] = o.Present_Value
      /\ "OUT_OF_SERVICE" \in DOMAIN values
      /\ values["OUT_OF_SERVICE"] = Boolean(o.Out_Of_Service)
      /\ "STATUS_FLAGS" \in DOMAIN values /\ values["STATUS_FLAGS"] = Flags(FALSE, o)
  BY DEF Device_Objects_Property_List, PositiveInteger_Value_Property_Lists,
     Common, Always, Base, Commandable, Fixed, Status, ++, Flags
<1>2. /\ DOMAIN arrays = {}
  OBVIOUS
<1>3. \A p, i : \/ Special("POSITIVE_INTEGER_VALUE", p, i)
                \/ Device_Read_Property("POSITIVE_INTEGER_VALUE", o, p, i)
                     = Reading(values, arrays, p, i)
  BY DEF Device_Read_Property, PositiveInteger_Value_Read_Property, Special
<1> HIDE DEF values
<1>4. Answers("POSITIVE_INTEGER_VALUE", o, values, arrays)
  <2> HIDE DEF arrays
  <2>1. QED
    BY <1>1, <1>2, <1>3 DEF Answers
<1>5. Answering("POSITIVE_INTEGER_VALUE", o)
  <2> HIDE DEF arrays
  <2>1. QED
    BY <1>4 DEF Answering
<1>6. \A p \in {"PRESENT_VALUE", "OUT_OF_SERVICE", "STATUS_FLAGS"} :
          ~Special("POSITIVE_INTEGER_VALUE", p, BACNET_ARRAY_ALL)
  BY DEF Special
<1> HIDE DEF arrays
<1>7. \A p \in {"PRESENT_VALUE", "OUT_OF_SERVICE", "STATUS_FLAGS"} :
          Shows("POSITIVE_INTEGER_VALUE", o, p, values[p])
  BY <1>1, <1>2, <1>4, <1>6, ValueShown
<1>8. QED
  BY <1>1, <1>5, <1>7 DEF Flagged

(* Multistate_Value_Read_Property: the state and the flag.                 *)
LEMMA MultistateValueReads ==
    ASSUME NEW o,
           MULTISTATE_NUMBER_OF_STATES <= MAX_APDU_ELEMENTS,
           MULTISTATE_NUMBER_OF_STATES < BACNET_ARRAY_ALL
    PROVE  /\ Answering("MULTI_STATE_VALUE", o)
           /\ Shows("MULTI_STATE_VALUE", o, "PRESENT_VALUE", o.Present_Value)
           /\ Shows("MULTI_STATE_VALUE", o, "OUT_OF_SERVICE", Boolean(o.Out_Of_Service))
           /\ Flagged("MULTI_STATE_VALUE", o, FALSE)
<1> DEFINE values ==
            Fixed(Base \cup {"DESCRIPTION", "EVENT_STATE", "NUMBER_OF_STATES"})
            ++ Status(FALSE, o.Out_Of_Service)
            ++ [PRESENT_VALUE |-> o.Present_Value]
           arrays == [STATE_TEXT |-> [s \in States |-> Text("")]]
<1>1. /\ \A p \in Device_Objects_Property_List("MULTI_STATE_VALUE") :
            p \in DOMAIN values \/ p \in {"STATE_TEXT"}
      /\ "PRESENT_VALUE" \in DOMAIN values /\ values["PRESENT_VALUE"] = o.Present_Value
      /\ "OUT_OF_SERVICE" \in DOMAIN values
      /\ values["OUT_OF_SERVICE"] = Boolean(o.Out_Of_Service)
      /\ "STATUS_FLAGS" \in DOMAIN values /\ values["STATUS_FLAGS"] = Flags(FALSE, o)
  BY DEF Device_Objects_Property_List, Multistate_Value_Property_Lists,
     Common, Always, Base, Commandable, Fixed, Status, ++, Flags
<1>2. /\ DOMAIN arrays = {"STATE_TEXT"}
      /\ Fits(arrays["STATE_TEXT"])
  BY PointsConstants, PlacesFit DEF IsRecord, States
<1>3. \A p, i : \/ Special("MULTI_STATE_VALUE", p, i)
                \/ Device_Read_Property("MULTI_STATE_VALUE", o, p, i)
                     = Reading(values, arrays, p, i)
  BY DEF Device_Read_Property, Multistate_Value_Read_Property, Special
<1> HIDE DEF values
<1>4. Answers("MULTI_STATE_VALUE", o, values, arrays)
  <2> HIDE DEF arrays
  <2>1. QED
    BY <1>1, <1>2, <1>3 DEF Answers
<1>5. Answering("MULTI_STATE_VALUE", o)
  <2> HIDE DEF arrays
  <2>1. QED
    BY <1>4 DEF Answering
<1>6. \A p \in {"PRESENT_VALUE", "OUT_OF_SERVICE", "STATUS_FLAGS"} :
          ~Special("MULTI_STATE_VALUE", p, BACNET_ARRAY_ALL)
  BY DEF Special
<1> HIDE DEF arrays
<1>7. \A p \in {"PRESENT_VALUE", "OUT_OF_SERVICE", "STATUS_FLAGS"} :
          Shows("MULTI_STATE_VALUE", o, p, values[p])
  BY <1>1, <1>2, <1>4, <1>6, ValueShown
<1>8. QED
  BY <1>1, <1>5, <1>7 DEF Flagged

(* Multistate_Input_Read_Property: the state, the flag, the name and the   *)
(* description.                                                            *)
LEMMA MultistateInputReads ==
    ASSUME NEW o, Fits(o.State_Text)
    PROVE  /\ Answering("MULTI_STATE_INPUT", o)
           /\ Shows("MULTI_STATE_INPUT", o, "PRESENT_VALUE", o.Present_Value)
           /\ Shows("MULTI_STATE_INPUT", o, "OUT_OF_SERVICE", Boolean(o.Out_Of_Service))
           /\ Shows("MULTI_STATE_INPUT", o, "OBJECT_NAME", o.Object_Name)
           /\ Shows("MULTI_STATE_INPUT", o, "DESCRIPTION", o.Object_Description)
           /\ Flagged("MULTI_STATE_INPUT", o, FALSE)
<1> DEFINE values ==
            Fixed({"OBJECT_IDENTIFIER", "OBJECT_TYPE", "EVENT_STATE", "NUMBER_OF_STATES"})
            ++ Status(FALSE, o.Out_Of_Service)
            ++ [PRESENT_VALUE |-> o.Present_Value,
                OBJECT_NAME |-> o.Object_Name,
                DESCRIPTION |-> o.Object_Description]
           arrays == [STATE_TEXT |-> o.State_Text]
<1>1. /\ \A p \in Device_Objects_Property_List("MULTI_STATE_INPUT") :
            p \in DOMAIN values \/ p \in {"STATE_TEXT"}
      /\ "PRESENT_VALUE" \in DOMAIN values /\ values["PRESENT_VALUE"] = o.Present_Value
      /\ "OUT_OF_SERVICE" \in DOMAIN values
      /\ values["OUT_OF_SERVICE"] = Boolean(o.Out_Of_Service)
      /\ "OBJECT_NAME" \in DOMAIN values /\ values["OBJECT_NAME"] = o.Object_Name
      /\ "DESCRIPTION" \in DOMAIN values /\ values["DESCRIPTION"] = o.Object_Description
      /\ "STATUS_FLAGS" \in DOMAIN values /\ values["STATUS_FLAGS"] = Flags(FALSE, o)
  BY DEF Device_Objects_Property_List, Multistate_Input_Property_Lists,
     Common, Always, Base, Commandable, Fixed, Status, ++, Flags
<1>2. /\ DOMAIN arrays = {"STATE_TEXT"}
      /\ Fits(arrays["STATE_TEXT"])
  OBVIOUS
<1>3. \A p, i : \/ Special("MULTI_STATE_INPUT", p, i)
                \/ Device_Read_Property("MULTI_STATE_INPUT", o, p, i)
                     = Reading(values, arrays, p, i)
  BY DEF Device_Read_Property, Multistate_Input_Read_Property, Special
<1> HIDE DEF values
<1>4. Answers("MULTI_STATE_INPUT", o, values, arrays)
  <2> HIDE DEF arrays
  <2>1. QED
    BY <1>1, <1>2, <1>3 DEF Answers
<1>5. Answering("MULTI_STATE_INPUT", o)
  <2> HIDE DEF arrays
  <2>1. QED
    BY <1>4 DEF Answering
<1>6. \A p \in {"PRESENT_VALUE", "OUT_OF_SERVICE", "OBJECT_NAME", "DESCRIPTION",
                "STATUS_FLAGS"} :
          ~Special("MULTI_STATE_INPUT", p, BACNET_ARRAY_ALL)
  BY DEF Special
<1> HIDE DEF arrays
<1>7. \A p \in {"PRESENT_VALUE", "OUT_OF_SERVICE", "OBJECT_NAME", "DESCRIPTION",
                "STATUS_FLAGS"} :
          Shows("MULTI_STATE_INPUT", o, p, values[p])
  BY <1>1, <1>2, <1>4, <1>6, ValueShown
<1>8. QED
  BY <1>1, <1>5, <1>7 DEF Flagged

(* Life_Safety_Point_Read_Property: the mode and the flag.                 *)
LEMMA LifeSafetyPointReads ==
    ASSUME NEW o
    PROVE  /\ Answering("LIFE_SAFETY_POINT", o)
           /\ Shows("LIFE_SAFETY_POINT", o, "MODE", o.Mode)
           /\ Shows("LIFE_SAFETY_POINT", o, "OUT_OF_SERVICE", Boolean(o.Out_Of_Service))
<1> DEFINE values ==
            [STATUS_FLAGS |-> Bits({}), OUT_OF_SERVICE |-> Boolean(o.Out_Of_Service),
             MODE |-> o.Mode]
            ++ Fixed(Life_Safety_Point_Property_Lists)
           arrays == <<>>
<1>1. /\ \A p \in Device_Objects_Property_List("LIFE_SAFETY_POINT") :
            p \in DOMAIN values \/ p \in {}
      /\ "MODE" \in DOMAIN values /\ values["MODE"] = o.Mode
      /\ "OUT_OF_SERVICE" \in DOMAIN values
      /\ values["OUT_OF_SERVICE"] = Boolean(o.Out_Of_Service)
  BY DEF Device_Objects_Property_List, Life_Safety_Point_Property_Lists,
     Common, Always, Base, Commandable, Fixed, Status, ++, Flags
<1>2. /\ DOMAIN arrays = {}
  OBVIOUS
<1>3. \A p, i : \/ Special("LIFE_SAFETY_POINT", p, i)
                \/ Device_Read_Property("LIFE_SAFETY_POINT", o, p, i)
                     = Reading(values, arrays, p, i)
  BY DEF Device_Read_Property, Life_Safety_Point_Read_Property, Special
<1> HIDE DEF values
<1>4. Answers("LIFE_SAFETY_POINT", o, values, arrays)
  <2> HIDE DEF arrays
  <2>1. QED
    BY <1>1, <1>2, <1>3 DEF Answers
<1>5. Answering("LIFE_SAFETY_POINT", o)
  <2> HIDE DEF arrays
  <2>1. QED
    BY <1>4 DEF Answering
<1>6. \A p \in {"MODE", "OUT_OF_SERVICE"} :
          ~Special("LIFE_SAFETY_POINT", p, BACNET_ARRAY_ALL)
  BY DEF Special
<1> HIDE DEF arrays
<1>7. \A p \in {"MODE", "OUT_OF_SERVICE"} :
          Shows("LIFE_SAFETY_POINT", o, p, values[p])
  BY <1>1, <1>2, <1>4, <1>6, ValueShown
<1>8. QED
  BY <1>1, <1>5, <1>7 DEF Flagged

(* Load_Control_Read_Property: the request as it was written.              *)
LEMMA LoadControlReads ==
    ASSUME NEW o, Fits(o.Shed_Levels),
           Len(SHED_LEVELS) <= MAX_APDU_ELEMENTS, Len(SHED_LEVELS) < BACNET_ARRAY_ALL
    PROVE  /\ Answering("LOAD_CONTROL", o)
           /\ Shows("LOAD_CONTROL", o, "REQUESTED_SHED_LEVEL", o.Requested_Shed_Level)
           /\ Shows("LOAD_CONTROL", o, "START_TIME", <<"DATETIME", o.Start_Time>>)
           /\ Shows("LOAD_CONTROL", o, "SHED_DURATION", Unsigned(o.Shed_Duration))
           /\ Shows("LOAD_CONTROL", o, "DUTY_WINDOW", Unsigned(o.Duty_Window))
           /\ Shows("LOAD_CONTROL", o, "ENABLE", Boolean(o.Enable))
<1> DEFINE values ==
            Fixed(Always \cup {"EVENT_STATE", "DESCRIPTION", "FULL_DUTY_BASELINE"})
            ++ [REQUESTED_SHED_LEVEL |-> o.Requested_Shed_Level,
                EXPECTED_SHED_LEVEL |-> o.Expected_Shed_Level,
                ACTUAL_SHED_LEVEL |-> o.Actual_Shed_Level,
                START_TIME |-> <<"DATETIME", o.Start_Time>>,
                SHED_DURATION |-> Unsigned(o.Shed_Duration),
                DUTY_WINDOW |-> Unsigned(o.Duty_Window),
                ENABLE |-> Boolean(o.Enable)]
           arrays == [SHED_LEVELS |-> o.Shed_Levels,
                      SHED_LEVEL_DESCRIPTIONS |-> [n \in DOMAIN SHED_LEVELS |-> <<"FIXED", n>>]]
<1>1. /\ \A p \in Device_Objects_Property_List("LOAD_CONTROL") :
            p \in DOMAIN values \/ p \in {"SHED_LEVELS", "SHED_LEVEL_DESCRIPTIONS"}
      /\ "REQUESTED_SHED_LEVEL" \in DOMAIN values
      /\ values["REQUESTED_SHED_LEVEL"] = o.Requested_Shed_Level
      /\ "START_TIME" \in DOMAIN values /\ values["START_TIME"] = <<"DATETIME", o.Start_Time>>
      /\ "SHED_DURATION" \in DOMAIN values
      /\ values["SHED_DURATION"] = Unsigned(o.Shed_Duration)
      /\ "DUTY_WINDOW" \in DOMAIN values /\ values["DUTY_WINDOW"] = Unsigned(o.Duty_Window)
      /\ "ENABLE" \in DOMAIN values /\ values["ENABLE"] = Boolean(o.Enable)
  BY DEF Device_Objects_Property_List, Load_Control_Property_Lists,
     Common, Always, Base, Commandable, Fixed, Status, ++, Flags
<1>2. /\ DOMAIN arrays = {"SHED_LEVELS", "SHED_LEVEL_DESCRIPTIONS"}
      /\ Fits(arrays["SHED_LEVELS"])
      /\ Fits(arrays["SHED_LEVEL_DESCRIPTIONS"])
  BY ControlsConstants, LenProperties, PlacesFit DEF IsRecord
<1>3. \A p, i : \/ Special("LOAD_CONTROL", p, i)
                \/ Device_Read_Property("LOAD_CONTROL", o, p, i) = Reading(values, arrays, p, i)
  BY DEF Device_Read_Property, Load_Control_Read_Property, Special
<1> HIDE DEF values
<1>4. Answers("LOAD_CONTROL", o, values, arrays)
  <2> HIDE DEF arrays
  <2>1. QED
    BY <1>1, <1>2, <1>3 DEF Answers
<1>5. Answering("LOAD_CONTROL", o)
  <2> HIDE DEF arrays
  <2>1. QED
    BY <1>4 DEF Answering
<1>6. \A p \in {"REQUESTED_SHED_LEVEL", "START_TIME", "SHED_DURATION", "DUTY_WINDOW",
                "ENABLE"} :
          ~Special("LOAD_CONTROL", p, BACNET_ARRAY_ALL)
  BY DEF Special
<1> HIDE DEF arrays
<1>7. \A p \in {"REQUESTED_SHED_LEVEL", "START_TIME", "SHED_DURATION", "DUTY_WINDOW",
                "ENABLE"} :
          Shows("LOAD_CONTROL", o, p, values[p])
  BY <1>1, <1>2, <1>4, <1>6, ValueShown
<1>8. QED
  BY <1>1, <1>5, <1>7 DEF Flagged

(* Schedule_Read_Property: the flag, and the days of a week as an array.   *)
LEMMA ScheduleReads ==
    ASSUME NEW o, Fits(o.Weekly_Schedule)
    PROVE  /\ Answering("SCHEDULE", o)
           /\ Shows("SCHEDULE", o, "OUT_OF_SERVICE", Boolean(o.Out_Of_Service))
<1> DEFINE values ==
            Fixed(Base \cup {"EFFECTIVE_PERIOD", "LIST_OF_OBJECT_PROPERTY_REFERENCES",
                             "PRIORITY_FOR_WRITING", "STATUS_FLAGS", "RELIABILITY"})
            ++ [PRESENT_VALUE |-> o.Present_Value, SCHEDULE_DEFAULT |-> o.Schedule_Default,
                OUT_OF_SERVICE |-> Boolean(o.Out_Of_Service)]
           arrays == [WEEKLY_SCHEDULE |-> o.Weekly_Schedule]
<1>1. /\ \A p \in Device_Objects_Property_List("SCHEDULE") :
            p \in DOMAIN values \/ p \in {"WEEKLY_SCHEDULE"}
      /\ "OUT_OF_SERVICE" \in DOMAIN values
      /\ values["OUT_OF_SERVICE"] = Boolean(o.Out_Of_Service)
  BY DEF Device_Objects_Property_List, Schedule_Property_Lists,
     Common, Always, Base, Commandable, Fixed, Status, ++, Flags
<1>2. /\ DOMAIN arrays = {"WEEKLY_SCHEDULE"}
      /\ Fits(arrays["WEEKLY_SCHEDULE"])
  OBVIOUS
<1>3. \A p, i : \/ Special("SCHEDULE", p, i)
                \/ Device_Read_Property("SCHEDULE", o, p, i) = Reading(values, arrays, p, i)
  BY DEF Device_Read_Property, Schedule_Read_Property, Special
<1> HIDE DEF values
<1>4. Answers("SCHEDULE", o, values, arrays)
  <2> HIDE DEF arrays
  <2>1. QED
    BY <1>1, <1>2, <1>3 DEF Answers
<1>5. Answering("SCHEDULE", o)
  <2> HIDE DEF arrays
  <2>1. QED
    BY <1>4 DEF Answering
<1>6. \A p \in {"OUT_OF_SERVICE"} :
          ~Special("SCHEDULE", p, BACNET_ARRAY_ALL)
  BY DEF Special
<1> HIDE DEF arrays
<1>7. \A p \in {"OUT_OF_SERVICE"} :
          Shows("SCHEDULE", o, p, values[p])
  BY <1>1, <1>2, <1>4, <1>6, ValueShown
<1>8. QED
  BY <1>1, <1>5, <1>7 DEF Flagged

(* bacfile_read_property answers whatever a file lists.                    *)
LEMMA FileReads ==
    ASSUME NEW o
    PROVE  Answering("FILE", o)
<1> DEFINE values ==
            [ARCHIVE |-> Boolean(TRUE), FILE_SIZE |-> Unsigned(o.File_Size)]
            ++ Fixed(BACfile_Property_Lists)
           arrays == <<>>
<1>1. /\ \A p \in Device_Objects_Property_List("FILE") :
            p \in DOMAIN values \/ p \in {}
  BY DEF Device_Objects_Property_List, BACfile_Property_Lists,
     Common, Always, Base, Commandable, Fixed, Status, ++, Flags
<1>2. /\ DOMAIN arrays = {}
  OBVIOUS
<1>3. \A p, i : \/ Special("FILE", p, i)
                \/ Device_Read_Property("FILE", o, p, i) = Reading(values, arrays, p, i)
  BY DEF Device_Read_Property, bacfile_read_property, Special
<1> HIDE DEF values
<1>4. Answers("FILE", o, values, arrays)
  <2> HIDE DEF arrays
  <2>1. QED
    BY <1>1, <1>2, <1>3 DEF Answers
<1>5. Answering("FILE", o)
  <2> HIDE DEF arrays
  <2>1. QED
    BY <1>4 DEF Answering
<1>6. QED
  BY <1>5

(* Notification_Class_Read_Property answers whatever a class lists.        *)
LEMMA NotificationClassReads ==
    ASSUME NEW o, Fits(o.Priority)
    PROVE  Answering("NOTIFICATION_CLASS", o)
<1> DEFINE values ==
            Fixed(Base \cup {"DESCRIPTION", "NOTIFICATION_CLASS", "RECIPIENT_LIST"})
                 ++ [ACK_REQUIRED |-> Bits(o.Ack_Required)]
           arrays == [PRIORITY |-> o.Priority]
<1>1. /\ \A p \in Device_Objects_Property_List("NOTIFICATION_CLASS") :
            p \in DOMAIN values \/ p \in {"PRIORITY"}
  BY DEF Device_Objects_Property_List, Notification_Class_Property_Lists,
     Common, Always, Base, Commandable, Fixed, Status, ++, Flags
<1>2. /\ DOMAIN arrays = {"PRIORITY"}
      /\ Fits(arrays["PRIORITY"])
  OBVIOUS
<1>3. \A p, i : \/ Special("NOTIFICATION_CLASS", p, i)
                \/ Device_Read_Property("NOTIFICATION_CLASS", o, p, i)
                     = Reading(values, arrays, p, i)
  BY DEF Device_Read_Property, Notification_Class_Read_Property, Special
<1> HIDE DEF values
<1>4. Answers("NOTIFICATION_CLASS", o, values, arrays)
  <2> HIDE DEF arrays
  <2>1. QED
    BY <1>1, <1>2, <1>3 DEF Answers
<1>5. Answering("NOTIFICATION_CLASS", o)
  <2> HIDE DEF arrays
  <2>1. QED
    BY <1>4 DEF Answering
<1>6. QED
  BY <1>5

(* Device_Read_Property_Local: the identity, names and numbers of the      *)
(* device.                                                                 *)
LEMMA DeviceReads ==
    ASSUME NEW o, Fits(Device_Object_List)
    PROVE  /\ Answering("DEVICE", o)
           /\ Shows("DEVICE", o, "OBJECT_IDENTIFIER", o.Object_Identifier)
           /\ Shows("DEVICE", o, "OBJECT_NAME", o.Object_Name)
           /\ Shows("DEVICE", o, "DESCRIPTION", o.Description)
           /\ Shows("DEVICE", o, "LOCATION", o.Location)
           /\ Shows("DEVICE", o, "MODEL_NAME", o.Model_Name)
           /\ Shows("DEVICE", o, "VENDOR_IDENTIFIER", o.Vendor_Identifier)
           /\ Shows("DEVICE", o, "SYSTEM_STATUS", o.System_Status)
           /\ Shows("DEVICE", o, "APDU_TIMEOUT", o.Timeout)
           /\ Shows("DEVICE", o, "NUMBER_OF_APDU_RETRIES", o.Retries)
<1> DEFINE values ==
            [OBJECT_IDENTIFIER |-> o.Object_Identifier, OBJECT_NAME |-> o.Object_Name,
             DESCRIPTION |-> o.Description, LOCATION |-> o.Location,
             MODEL_NAME |-> o.Model_Name, VENDOR_IDENTIFIER |-> o.Vendor_Identifier,
             SYSTEM_STATUS |-> o.System_Status, APDU_TIMEOUT |-> o.Timeout,
             NUMBER_OF_APDU_RETRIES |-> o.Retries,
             DATABASE_REVISION |-> Unsigned(o.Database_Revision)]
            ++ Fixed(Device_Properties)
           arrays == [OBJECT_LIST |-> Device_Object_List]
<1>1. /\ \A p \in Device_Objects_Property_List("DEVICE") :
            p \in DOMAIN values \/ p \in {"OBJECT_LIST"}
      /\ "OBJECT_IDENTIFIER" \in DOMAIN values
      /\ values["OBJECT_IDENTIFIER"] = o.Object_Identifier
      /\ "OBJECT_NAME" \in DOMAIN values /\ values["OBJECT_NAME"] = o.Object_Name
      /\ "DESCRIPTION" \in DOMAIN values /\ values["DESCRIPTION"] = o.Description
      /\ "LOCATION" \in DOMAIN values /\ values["LOCATION"] = o.Location
      /\ "MODEL_NAME" \in DOMAIN values /\ values["MODEL_NAME"] = o.Model_Name
      /\ "VENDOR_IDENTIFIER" \in DOMAIN values
      /\ values["VENDOR_IDENTIFIER"] = o.Vendor_Identifier
      /\ "SYSTEM_STATUS" \in DOMAIN values /\ values["SYSTEM_STATUS"] = o.System_Status
      /\ "APDU_TIMEOUT" \in DOMAIN values /\ values["APDU_TIMEOUT"] = o.Timeout
      /\ "NUMBER_OF_APDU_RETRIES" \in DOMAIN values
      /\ values["NUMBER_OF_APDU_RETRIES"] = o.Retries
  BY DEF Device_Objects_Property_List, Device_Properties, Device_Properties_Required,
     Device_Properties_Optional,
     Common, Always, Base, Commandable, Fixed, Status, ++, Flags
<1>2. /\ DOMAIN arrays = {"OBJECT_LIST"}
      /\ Fits(arrays["OBJECT_LIST"])
  OBVIOUS
<1>3. \A p, i : \/ Special("DEVICE", p, i)
                \/ Device_Read_Property("DEVICE", o, p, i) = Reading(values, arrays, p, i)
  BY DEF Device_Read_Property, Device_Read_Property_Local, Special
<1> HIDE DEF values
<1>4. Answers("DEVICE", o, values, arrays)
  <2> HIDE DEF arrays
  <2>1. QED
    BY <1>1, <1>2, <1>3 DEF Answers
<1>5. Answering("DEVICE", o)
  <2> HIDE DEF arrays
  <2>1. QED
    BY <1>4 DEF Answering
<1>6. \A p \in {"OBJECT_IDENTIFIER", "OBJECT_NAME", "DESCRIPTION", "LOCATION", "MODEL_NAME",
                "VENDOR_IDENTIFIER", "SYSTEM_STATUS", "APDU_TIMEOUT",
                "NUMBER_OF_APDU_RETRIES"} :
          ~Special("DEVICE", p, BACNET_ARRAY_ALL)
  BY DEF Special
<1> HIDE DEF arrays
<1>7. \A p \in {"OBJECT_IDENTIFIER", "OBJECT_NAME", "DESCRIPTION", "LOCATION", "MODEL_NAME",
                "VENDOR_IDENTIFIER", "SYSTEM_STATUS", "APDU_TIMEOUT",
                "NUMBER_OF_APDU_RETRIES"} :
          Shows("DEVICE", o, p, values[p])
  BY <1>1, <1>2, <1>4, <1>6, ValueShown
<1>8. QED
  BY <1>1, <1>5, <1>7 DEF Flagged

(* Analog_Input_Read_Property: limits, delay, class, flags and increment.  *)
LEMMA AnalogInputReads ==
    ASSUME NEW o, Fits(Stamps(o))
    PROVE  /\ Answering("ANALOG_INPUT", o)
           /\ Shows("ANALOG_INPUT", o, "OUT_OF_SERVICE", Boolean(o.Out_Of_Service))
           /\ Shows("ANALOG_INPUT", o, "EVENT_STATE", Enumerated(o.Event_State))
           /\ Shows("ANALOG_INPUT", o, "TIME_DELAY", Unsigned(o.Time_Delay))
           /\ Shows("ANALOG_INPUT", o, "NOTIFICATION_CLASS", Unsigned(o.Notification_Class))
           /\ Shows("ANALOG_INPUT", o, "HIGH_LIMIT", Real(o.High_Limit))
           /\ Shows("ANALOG_INPUT", o, "LOW_LIMIT", Real(o.Low_Limit))
           /\ Shows("ANALOG_INPUT", o, "DEADBAND", Real(o.Deadband))
           /\ Shows("ANALOG_INPUT", o, "LIMIT_ENABLE", Bits(o.Limit_Enable))
           /\ Shows("ANALOG_INPUT", o, "EVENT_ENABLE", Bits(o.Event_Enable))
           /\ Shows("ANALOG_INPUT", o, "NOTIFY_TYPE", Enumerated(o.Notify_Type))
           /\ Shows("ANALOG_INPUT", o, "UNITS", o.Units)
           /\ Shows("ANALOG_INPUT", o, "COV_INCREMENT", Real(o.COV_Increment))
           /\ Flagged("ANALOG_INPUT", o, o.Event_State # "NORMAL")
<1> DEFINE values ==
            Fixed(Base \cup {"DESCRIPTION", "RELIABILITY", "9997", "9998", "9999"})
                 ++ ReadReported(o)
                 ++ [PRESENT_VALUE |-> Real(Analog_Input_Present_Value(o)),
                     UNITS |-> o.Units, COV_INCREMENT |-> Real(o.COV_Increment)]
           arrays == [EVENT_TIME_STAMPS |-> Stamps(o)]
<1>1. /\ \A p \in Device_Objects_Property_List("ANALOG_INPUT") :
            p \in DOMAIN values \/ p \in {"EVENT_TIME_STAMPS"}
      /\ "OUT_OF_SERVICE" \in DOMAIN values
      /\ values["OUT_OF_SERVICE"] = Boolean(o.Out_Of_Service)
      /\ "EVENT_STATE" \in DOMAIN values /\ values["EVENT_STATE"] = Enumerated(o.Event_State)
      /\ "TIME_DELAY" \in DOMAIN values /\ values["TIME_DELAY"] = Unsigned(o.Time_Delay)
      /\ "NOTIFICATION_CLASS" \in DOMAIN values
      /\ values["NOTIFICATION_CLASS"] = Unsigned(o.Notification_Class)
      /\ "HIGH_LIMIT" \in DOMAIN values /\ values["HIGH_LIMIT"] = Real(o.High_Limit)
      /\ "LOW_LIMIT" \in DOMAIN values /\ values["LOW_LIMIT"] = Real(o.Low_Limit)
      /\ "DEADBAND" \in DOMAIN values /\ values["DEADBAND"] = Real(o.Deadband)
      /\ "LIMIT_ENABLE" \in DOMAIN values /\ values["LIMIT_ENABLE"] = Bits(o.Limit_Enable)
      /\ "EVENT_ENABLE" \in DOMAIN values /\ values["EVENT_ENABLE"] = Bits(o.Event_Enable)
      /\ "NOTIFY_TYPE" \in DOMAIN values /\ values["NOTIFY_TYPE"] = Enumerated(o.Notify_Type)
      /\ "UNITS" \in DOMAIN values /\ values["UNITS"] = o.Units
      /\ "COV_INCREMENT" \in DOMAIN values /\ values["COV_INCREMENT"] = Real(o.COV_Increment)
      /\ "STATUS_FLAGS" \in DOMAIN values
      /\ values["STATUS_FLAGS"] = Flags(o.Event_State # "NORMAL", o)
  BY DEF Device_Objects_Property_List, Analog_Input_Property_Lists, Reported, ReadReported,
     Common, Always, Base, Commandable, Fixed, Status, ++, Flags
<1>2. /\ DOMAIN arrays = {"EVENT_TIME_STAMPS"}
      /\ Fits(arrays["EVENT_TIME_STAMPS"])
  OBVIOUS
<1>3. \A p, i : \/ Special("ANALOG_INPUT", p, i)
                \/ Device_Read_Property("ANALOG_INPUT", o, p, i) = Reading(values, arrays, p, i)
  BY DEF Device_Read_Property, Analog_Input_Read_Property, Special
<1> HIDE DEF values
<1>4. Answers("ANALOG_INPUT", o, values, arrays)
  <2> HIDE DEF arrays
  <2>1. QED
    BY <1>1, <1>2, <1>3 DEF Answers
<1>5. Answering("ANALOG_INPUT", o)
  <2> HIDE DEF arrays
  <2>1. QED
    BY <1>4 DEF Answering
<1>6. \A p \in {"OUT_OF_SERVICE", "EVENT_STATE", "TIME_DELAY", "NOTIFICATION_CLASS",
                "HIGH_LIMIT", "LOW_LIMIT", "DEADBAND", "LIMIT_ENABLE", "EVENT_ENABLE",
                "NOTIFY_TYPE", "UNITS", "COV_INCREMENT", "STATUS_FLAGS"} :
          ~Special("ANALOG_INPUT", p, BACNET_ARRAY_ALL)
  BY DEF Special
<1> HIDE DEF arrays
<1>7. \A p \in {"OUT_OF_SERVICE", "EVENT_STATE", "TIME_DELAY", "NOTIFICATION_CLASS",
                "HIGH_LIMIT", "LOW_LIMIT", "DEADBAND", "LIMIT_ENABLE", "EVENT_ENABLE",
                "NOTIFY_TYPE", "UNITS", "COV_INCREMENT", "STATUS_FLAGS"} :
          Shows("ANALOG_INPUT", o, p, values[p])
  BY <1>1, <1>2, <1>4, <1>6, ValueShown
<1>8. QED
  BY <1>1, <1>5, <1>7 DEF Flagged

(* Analog_Value_Read_Property: limits, delay, class, flags and value.      *)
LEMMA AnalogValueReads ==
    ASSUME NEW o, Fits(Stamps(o))
    PROVE  /\ Answering("ANALOG_VALUE", o)
           /\ Shows("ANALOG_VALUE", o, "OUT_OF_SERVICE", Boolean(o.Out_Of_Service))
           /\ Shows("ANALOG_VALUE", o, "EVENT_STATE", Enumerated(o.Event_State))
           /\ Shows("ANALOG_VALUE", o, "TIME_DELAY", Unsigned(o.Time_Delay))
           /\ Shows("ANALOG_VALUE", o, "NOTIFICATION_CLASS", Unsigned(o.Notification_Class))
           /\ Shows("ANALOG_VALUE", o, "HIGH_LIMIT", Real(o.High_Limit))
           /\ Shows("ANALOG_VALUE", o, "LOW_LIMIT", Real(o.Low_Limit))
           /\ Shows("ANALOG_VALUE", o, "DEADBAND", Real(o.Deadband))
           /\ Shows("ANALOG_VALUE", o, "LIMIT_ENABLE", Bits(o.Limit_Enable))
           /\ Shows("ANALOG_VALUE", o, "EVENT_ENABLE", Bits(o.Event_Enable))
           /\ Shows("ANALOG_VALUE", o, "NOTIFY_TYPE", Enumerated(o.Notify_Type))
           /\ Shows("ANALOG_VALUE", o, "UNITS", o.Units)
           /\ Shows("ANALOG_VALUE", o, "PRESENT_VALUE", Real(o.Present_Value))
           /\ Flagged("ANALOG_VALUE", o, o.Event_State # "NORMAL")
<1> DEFINE values ==
            Fixed(Base \cup {"DESCRIPTION"})
                 ++ ReadReported(o)
                 ++ [PRESENT_VALUE |-> Real(o.Present_Value), UNITS |-> o.Units]
           arrays == [EVENT_TIME_STAMPS |-> Stamps(o)]
<1>1. /\ \A p \in Device_Objects_Property_List("ANALOG_VALUE") :
            p \in DOMAIN values \/ p \in {"EVENT_TIME_STAMPS"}
      /\ "OUT_OF_SERVICE" \in DOMAIN values
      /\ values["OUT_OF_SERVICE"] = Boolean(o.Out_Of_Service)
      /\ "EVENT_STATE" \in DOMAIN values /\ values["EVENT_STATE"] = Enumerated(o.Event_State)
      /\ "TIME_DELAY" \in DOMAIN values /\ values["TIME_DELAY"] = Unsigned(o.Time_Delay)
      /\ "NOTIFICATION_CLASS" \in DOMAIN values
      /\ values["NOTIFICATION_CLASS"] = Unsigned(o.Notification_Class)
      /\ "HIGH_LIMIT" \in DOMAIN values /\ values["HIGH_LIMIT"] = Real(o.High_Limit)
      /\ "LOW_LIMIT" \in DOMAIN values /\ values["LOW_LIMIT"] = Real(o.Low_Limit)
      /\ "DEADBAND" \in DOMAIN values /\ values["DEADBAND"] = Real(o.Deadband)
      /\ "LIMIT_ENABLE" \in DOMAIN values /\ values["LIMIT_ENABLE"] = Bits(o.Limit_Enable)
      /\ "EVENT_ENABLE" \in DOMAIN values /\ values["EVENT_ENABLE"] = Bits(o.Event_Enable)
      /\ "NOTIFY_TYPE" \in DOMAIN values /\ values["NOTIFY_TYPE"] = Enumerated(o.Notify_Type)
      /\ "UNITS" \in DOMAIN values /\ values["UNITS"] = o.Units
      /\ "PRESENT_VALUE" \in DOMAIN values /\ values["PRESENT_VALUE"] = Real(o.Present_Value)
      /\ "STATUS_FLAGS" \in DOMAIN values
      /\ values["STATUS_FLAGS"] = Flags(o.Event_State # "NORMAL", o)
  BY DEF Device_Objects_Property_List, Analog_Value_Property_Lists, Reported, ReadReported,
     Common, Always, Base, Commandable, Fixed, Status, ++, Flags
<1>2. /\ DOMAIN arrays = {"EVENT_TIME_STAMPS"}
      /\ Fits(arrays["EVENT_TIME_STAMPS"])
  OBVIOUS
<1>3. \A p, i : \/ Special("ANALOG_VALUE", p, i)
                \/ Device_Read_Property("ANALOG_VALUE", o, p, i) = Reading(values, arrays, p, i)
  BY DEF Device_Read_Property, Analog_Value_Read_Property, Special
<1> HIDE DEF values
<1>4. Answers("ANALOG_VALUE", o, values, arrays)
  <2> HIDE DEF arrays
  <2>1. QED
    BY <1>1, <1>2, <1>3 DEF Answers
<1>5. Answering("ANALOG_VALUE", o)
  <2> HIDE DEF arrays
  <2>1. QED
    BY <1>4 DEF Answering
<1>6. \A p \in {"OUT_OF_SERVICE", "EVENT_STATE", "TIME_DELAY", "NOTIFICATION_CLASS",
                "HIGH_LIMIT", "LOW_LIMIT", "DEADBAND", "LIMIT_ENABLE", "EVENT_ENABLE",
                "NOTIFY_TYPE", "UNITS", "PRESENT_VALUE", "STATUS_FLAGS"} :
          ~Special("ANALOG_VALUE", p, BACNET_ARRAY_ALL)
  BY DEF Special
<1> HIDE DEF arrays
<1>7. \A p \in {"OUT_OF_SERVICE", "EVENT_STATE", "TIME_DELAY", "NOTIFICATION_CLASS",
                "HIGH_LIMIT", "LOW_LIMIT", "DEADBAND", "LIMIT_ENABLE", "EVENT_ENABLE",
                "NOTIFY_TYPE", "UNITS", "PRESENT_VALUE", "STATUS_FLAGS"} :
          Shows("ANALOG_VALUE", o, p, values[p])
  BY <1>1, <1>2, <1>4, <1>6, ValueShown
<1>8. QED
  BY <1>1, <1>5, <1>7 DEF Flagged

(* Binary_Output_Read_Property: the command of the highest priority, else  *)
(* inactive.                                                               *)
LEMMA BinaryOutputReads ==
    ASSUME NEW o, Fits(o.Level), BACNET_ARRAY_ALL # 0, BACNET_ARRAY_ALL \notin Priorities
    PROVE  /\ Commanded("BINARY_OUTPUT", o, Enumerated(0))
           /\ Flagged("BINARY_OUTPUT", o, FALSE)
<1> DEFINE values ==
            Fixed(Base \cup {"DESCRIPTION", "EVENT_STATE", "POLARITY",
                             "ACTIVE_TEXT", "INACTIVE_TEXT"})
            ++ Status(FALSE, o.Out_Of_Service)
            ++ [PRESENT_VALUE |-> Highest(o.Level, Enumerated(0)),
                RELINQUISH_DEFAULT |-> Enumerated(0)]
           arrays == [PRIORITY_ARRAY |-> o.Level]
<1>1. /\ \A p \in Device_Objects_Property_List("BINARY_OUTPUT") :
            p \in DOMAIN values \/ p = "PRIORITY_ARRAY"
      /\ {"PRESENT_VALUE", "RELINQUISH_DEFAULT", "OUT_OF_SERVICE", "STATUS_FLAGS"}
            \subseteq DOMAIN values
      /\ values["PRESENT_VALUE"] = Highest(o.Level, Enumerated(0))
      /\ values["RELINQUISH_DEFAULT"] = Enumerated(0)
      /\ values["OUT_OF_SERVICE"] = Boolean(o.Out_Of_Service)
      /\ values["STATUS_FLAGS"] = Flags(FALSE, o)
  BY DEF Device_Objects_Property_List, Binary_Output_Property_Lists,
     Common, Always, Base, Commandable, Fixed, Status, ++, Flags
<1>2. DOMAIN arrays = {"PRIORITY_ARRAY"} /\ arrays["PRIORITY_ARRAY"] = o.Level
  OBVIOUS
<1>3. \A p, i : \/ Special("BINARY_OUTPUT", p, i)
                \/ Device_Read_Property("BINARY_OUTPUT", o, p, i)
                     = Reading(values, arrays, p, i)
  BY DEF Device_Read_Property, Binary_Output_Read_Property, Special
<1> HIDE DEF values
<1>4. Answers("BINARY_OUTPUT", o, values, arrays)
  <2> HIDE DEF arrays
  <2>1. QED
    BY <1>1, <1>2, <1>3 DEF Answers
<1>5. ~Special("BINARY_OUTPUT", "STATUS_FLAGS", BACNET_ARRAY_ALL)
  BY DEF Special
<1>6. QED
  BY <1>1, <1>2, <1>4, <1>5, LevelsShown, ValueShown
     DEF Flagged

(* Binary_Value_Read_Property: the command of the highest priority, else   *)
(* inactive.                                                               *)
LEMMA BinaryValueReads ==
    ASSUME NEW o, Fits(o.Level), BACNET_ARRAY_ALL # 0, BACNET_ARRAY_ALL \notin Priorities
    PROVE  /\ Commanded("BINARY_VALUE", o, Enumerated(0))
           /\ Flagged("BINARY_VALUE", o, FALSE)
<1> DEFINE values ==
            Fixed(Base \cup {"DESCRIPTION", "EVENT_STATE"})
            ++ Status(FALSE, o.Out_Of_Service)
            ++ [PRESENT_VALUE |-> Binary_Value_Present_Value(o),
                RELINQUISH_DEFAULT |-> Enumerated(0)]
           arrays == [PRIORITY_ARRAY |-> o.Level]
<1>1. /\ \A p \in Device_Objects_Property_List("BINARY_VALUE") :
            p \in DOMAIN values \/ p = "PRIORITY_ARRAY"
      /\ {"PRESENT_VALUE", "RELINQUISH_DEFAULT", "OUT_OF_SERVICE", "STATUS_FLAGS"}
            \subseteq DOMAIN values
      /\ values["PRESENT_VALUE"] = Binary_Value_Present_Value(o)
      /\ values["RELINQUISH_DEFAULT"] = Enumerated(0)
      /\ values["OUT_OF_SERVICE"] = Boolean(o.Out_Of_Service)
      /\ values["STATUS_FLAGS"] = Flags(FALSE, o)
  BY DEF Device_Objects_Property_List, Binary_Value_Property_Lists,
     Common, Always, Base, Commandable, Fixed, Status, ++, Flags
<1>2. DOMAIN arrays = {"PRIORITY_ARRAY"} /\ arrays["PRIORITY_ARRAY"] = o.Level
  OBVIOUS
<1>3. \A p, i : \/ Special("BINARY_VALUE", p, i)
                \/ Device_Read_Property("BINARY_VALUE", o, p, i) = Reading(values, arrays, p, i)
  BY DEF Device_Read_Property, Binary_Value_Read_Property, Special
<1> HIDE DEF values
<1>4. Answers("BINARY_VALUE", o, values, arrays)
  <2> HIDE DEF arrays
  <2>1. QED
    BY <1>1, <1>2, <1>3 DEF Answers
<1>5. ~Special("BINARY_VALUE", "STATUS_FLAGS", BACNET_ARRAY_ALL)
  BY DEF Special
<1>6. QED
  BY <1>1, <1>2, <1>4, <1>5, LevelsShown, ValueShown
     DEF Flagged, Binary_Value_Present_Value

(* Multistate_Output_Read_Property: the command of the highest priority,   *)
(* else 1.                                                                 *)
LEMMA MultistateOutputReads ==
    ASSUME NEW o, Fits(o.Level), BACNET_ARRAY_ALL # 0, BACNET_ARRAY_ALL \notin Priorities
    PROVE  /\ Commanded("MULTI_STATE_OUTPUT", o, Unsigned(1))
           /\ Flagged("MULTI_STATE_OUTPUT", o, FALSE)
<1> DEFINE values ==
            Fixed(Base \cup {"DESCRIPTION", "EVENT_STATE", "NUMBER_OF_STATES"})
            ++ Status(FALSE, o.Out_Of_Service)
            ++ [PRESENT_VALUE |-> Multistate_Output_Present_Value(o),
                RELINQUISH_DEFAULT |-> Unsigned(1)]
           arrays == [PRIORITY_ARRAY |-> o.Level]
<1>1. /\ \A p \in Device_Objects_Property_List("MULTI_STATE_OUTPUT") :
            p \in DOMAIN values \/ p = "PRIORITY_ARRAY"
      /\ {"PRESENT_VALUE", "RELINQUISH_DEFAULT", "OUT_OF_SERVICE", "STATUS_FLAGS"}
            \subseteq DOMAIN values
      /\ values["PRESENT_VALUE"] = Multistate_Output_Present_Value(o)
      /\ values["RELINQUISH_DEFAULT"] = Unsigned(1)
      /\ values["OUT_OF_SERVICE"] = Boolean(o.Out_Of_Service)
      /\ values["STATUS_FLAGS"] = Flags(FALSE, o)
  BY DEF Device_Objects_Property_List, Multistate_Output_Property_Lists,
     Common, Always, Base, Commandable, Fixed, Status, ++, Flags
<1>2. DOMAIN arrays = {"PRIORITY_ARRAY"} /\ arrays["PRIORITY_ARRAY"] = o.Level
  OBVIOUS
<1>3. \A p, i : \/ Special("MULTI_STATE_OUTPUT", p, i)
                \/ Device_Read_Property("MULTI_STATE_OUTPUT", o, p, i)
                     = Reading(values, arrays, p, i)
  BY DEF Device_Read_Property, Multistate_Output_Read_Property, Special
<1> HIDE DEF values
<1>4. Answers("MULTI_STATE_OUTPUT", o, values, arrays)
  <2> HIDE DEF arrays
  <2>1. QED
    BY <1>1, <1>2, <1>3 DEF Answers
<1>5. ~Special("MULTI_STATE_OUTPUT", "STATUS_FLAGS", BACNET_ARRAY_ALL)
  BY DEF Special
<1>6. QED
  BY <1>1, <1>2, <1>4, <1>5, LevelsShown, ValueShown
     DEF Flagged, Multistate_Output_Present_Value

(* Lighting_Output_Read_Property: the command of the highest priority,     *)
(* else 0, and the last lighting command.                                  *)
LEMMA LightingOutputReads ==
    ASSUME NEW o, Fits(o.Level), BACNET_ARRAY_ALL # 0, BACNET_ARRAY_ALL \notin Priorities
    PROVE  /\ Commanded("LIGHTING_OUTPUT", o, Real(0))
           /\ Flagged("LIGHTING_OUTPUT", o, FALSE)
           /\ Shows("LIGHTING_OUTPUT", o, "LIGHTING_COMMAND", o.Lighting_Command)
<1> DEFINE values ==
            [PRESENT_VALUE |-> Lighting_Output_Present_Value(o),
             LIGHTING_COMMAND |-> o.Lighting_Command, RELINQUISH_DEFAULT |-> Real(0)]
            ++ Status(FALSE, o.Out_Of_Service)
            ++ Fixed(Lighting_Output_Property_Lists)
           arrays == [PRIORITY_ARRAY |-> o.Level]
<1>1. /\ \A p \in Device_Objects_Property_List("LIGHTING_OUTPUT") :
            p \in DOMAIN values \/ p = "PRIORITY_ARRAY"
      /\ {"PRESENT_VALUE", "RELINQUISH_DEFAULT", "OUT_OF_SERVICE", "STATUS_FLAGS"}
            \subseteq DOMAIN values
      /\ values["PRESENT_VALUE"] = Lighting_Output_Present_Value(o)
      /\ values["RELINQUISH_DEFAULT"] = Real(0)
      /\ values["OUT_OF_SERVICE"] = Boolean(o.Out_Of_Service)
      /\ values["STATUS_FLAGS"] = Flags(FALSE, o)
      /\ "LIGHTING_COMMAND" \in DOMAIN values /\ values["LIGHTING_COMMAND"] = o.Lighting_Command
  BY DEF Device_Objects_Property_List, Lighting_Output_Property_Lists,
     Common, Always, Base, Commandable, Fixed, Status, ++, Flags
<1>2. DOMAIN arrays = {"PRIORITY_ARRAY"} /\ arrays["PRIORITY_ARRAY"] = o.Level
  OBVIOUS
<1>3. \A p, i : \/ Special("LIGHTING_OUTPUT", p, i)
                \/ Device_Read_Property("LIGHTING_OUTPUT", o, p, i)
                     = Reading(values, arrays, p, i)
  BY DEF Device_Read_Property, Lighting_Output_Read_Property, Special
<1> HIDE DEF values
<1>4. Answers("LIGHTING_OUTPUT", o, values, arrays)
  <2> HIDE DEF arrays
  <2>1. QED
    BY <1>1, <1>2, <1>3 DEF Answers
<1>5. /\ ~Special("LIGHTING_OUTPUT", "STATUS_FLAGS", BACNET_ARRAY_ALL)
      /\ ~Special("LIGHTING_OUTPUT", "LIGHTING_COMMAND", BACNET_ARRAY_ALL)
  BY DEF Special
<1>6. QED
  BY <1>1, <1>2, <1>4, <1>5, LevelsShown, ValueShown
     DEF Flagged, Lighting_Output_Present_Value

(* What a write of a property that both kinds of alarms have leaves.       *)
ReportedTaken(r, o, v, p) ==
    \/ /\ p = "TIME_DELAY" /\ Tag(v) = "UNSIGNED_INT"
       /\ Given(r, [o EXCEPT !.Time_Delay = Content(v), !.Remaining_Time_Delay = Content(v)])
    \/ /\ p = "NOTIFICATION_CLASS" /\ Tag(v) = "UNSIGNED_INT"
       /\ Given(r, [o EXCEPT !.Notification_Class = Content(v)])
    \/ /\ p = "HIGH_LIMIT" /\ Tag(v) = "REAL"
       /\ Given(r, [o EXCEPT !.High_Limit = Content(v)])
    \/ /\ p = "LOW_LIMIT" /\ Tag(v) = "REAL"
       /\ Given(r, [o EXCEPT !.Low_Limit = Content(v)])
    \/ /\ p = "DEADBAND" /\ Tag(v) = "REAL"
       /\ Given(r, [o EXCEPT !.Deadband = Content(v)])
    \/ /\ p = "LIMIT_ENABLE" /\ Tag(v) = "BIT_STRING"
       /\ Given(r, [o EXCEPT !.Limit_Enable = Content(v)])
    \/ /\ p = "EVENT_ENABLE" /\ Tag(v) = "BIT_STRING"
       /\ Given(r, [o EXCEPT !.Event_Enable = Content(v)])
    \/ /\ p = "NOTIFY_TYPE" /\ Tag(v) = "ENUMERATED"
       /\ Given(r, [o EXCEPT !.Notify_Type = Content(v)])

(* A write to what objects with alarms have in common changes one of       *)
(* these.                                                                  *)
LEMMA ReportedWrites ==
    ASSUME NEW o, NEW v, NEW p \in DOMAIN WriteReported(o, v)
    PROVE  LET r == WriteReported(o, v)[p] IN Refused(r, o) \/ ReportedTaken(r, o, v, p)
<1> DEFINE W == WriteReported(o, v)
           As(tag, new) == WPValidateArgType(o, v, tag, Accept(new))
           BitsOf(new) == WPValidateArgType(o, v, "BIT_STRING",
                            Check(o, ~WrongSize(v), "VALUE_OUT_OF_RANGE", new))
           delayed == [o EXCEPT !.Time_Delay = Content(v), !.Remaining_Time_Delay = Content(v)]
           classed == [o EXCEPT !.Notification_Class = Content(v)]
           high == [o EXCEPT !.High_Limit = Content(v)]
           low == [o EXCEPT !.Low_Limit = Content(v)]
           dead == [o EXCEPT !.Deadband = Content(v)]
           limits == [o EXCEPT !.Limit_Enable = Content(v)]
           events == [o EXCEPT !.Event_Enable = Content(v)]
           notify == [o EXCEPT !.Notify_Type = Content(v)]
           typed == WPValidateArgType(o, v, "ENUMERATED",
                        Check(o, v \in {Enumerated(0), Enumerated(1)},
                              "VALUE_OUT_OF_RANGE", notify))
<1>1. W = [TIME_DELAY |-> As("UNSIGNED_INT", delayed),
           NOTIFICATION_CLASS |-> As("UNSIGNED_INT", classed),
           HIGH_LIMIT |-> As("REAL", high), LOW_LIMIT |-> As("REAL", low),
           DEADBAND |-> As("REAL", dead), LIMIT_ENABLE |-> BitsOf(limits),
           EVENT_ENABLE |-> BitsOf(events), NOTIFY_TYPE |-> typed]
  BY DEF WriteReported
<1>2. \A tag, new : Refused(As(tag, new), o) \/ (Tag(v) = tag /\ Given(As(tag, new), new))
  BY DEF WPValidateArgType, Accept, Refuse, Refused, Given
<1>3. \A new : Refused(BitsOf(new), o) \/ (Tag(v) = "BIT_STRING" /\ Given(BitsOf(new), new))
  BY TypeChecked, Checked
<1> HIDE DEF As, BitsOf, delayed, classed, high, low, dead, limits, events
<1>4. Refused(typed, o) \/ (Tag(v) = "ENUMERATED" /\ Given(typed, notify))
  BY TypeChecked, Checked
<1> HIDE DEF notify, typed, W
<1>5. \/ p = "TIME_DELAY" /\ W[p] = As("UNSIGNED_INT", delayed)
      \/ p = "NOTIFICATION_CLASS" /\ W[p] = As("UNSIGNED_INT", classed)
      \/ p = "HIGH_LIMIT" /\ W[p] = As("REAL", high)
      \/ p = "LOW_LIMIT" /\ W[p] = As("REAL", low)
      \/ p = "DEADBAND" /\ W[p] = As("REAL", dead)
      \/ p = "LIMIT_ENABLE" /\ W[p] = BitsOf(limits)
      \/ p = "EVENT_ENABLE" /\ W[p] = BitsOf(events)
      \/ p = "NOTIFY_TYPE" /\ W[p] = typed
  <2>1. p \in DOMAIN W
    BY DEF W
  <2>2. QED
    BY <1>1, <2>1
<1>6. Refused(W[p], o) \/ ReportedTaken(W[p], o, v, p)
  BY <1>2, <1>3, <1>4, <1>5
     DEF ReportedTaken, delayed, classed, high, low, dead, limits, events, notify
<1>7. QED
  BY <1>6 DEF W

(* Analog_Input_Write_Property: what alarms go by, the value, the units,   *)
(* the increment or the flag.                                              *)
LEMMA AnalogInputWrites ==
    ASSUME NEW o, NEW w
    PROVE  LET r == Analog_Input_Write_Property(o, w)
               v == w.values[1]
           IN  \/ Refused(r, o)
               \/ ReportedTaken(r, o, v, w.property)
               \/ /\ Tag(v) = "REAL"
                  /\ Taken(r, w, "PRESENT_VALUE", Analog_Input_Present_Value_Set(o, Content(v)))
               \/ /\ Tag(v) = "BOOLEAN"
                  /\ Taken(r, w, "OUT_OF_SERVICE", Analog_Input_Out_Of_Service_Set(o, Content(v)))
               \/ /\ Tag(v) = "ENUMERATED"
                  /\ Taken(r, w, "UNITS", [o EXCEPT !.Units = Shortened(v, Octet)])
               \/ /\ Tag(v) = "REAL"
                  /\ Taken(r, w, "COV_INCREMENT", Analog_Input_COV_Increment_Set(o, Content(v)))
<1> DEFINE v == w.values[1]
           set == Analog_Input_Present_Value_Set(o, Content(v))
           flagged == Analog_Input_Out_Of_Service_Set(o, Content(v))
           unit == [o EXCEPT !.Units = Shortened(v, Octet)]
           increased == Analog_Input_COV_Increment_Set(o, Content(v))
           value == WPValidateArgType(o, v, "REAL",
                        Check(o, o.Out_Of_Service, "WRITE_ACCESS_DENIED", set))
           flag == WPValidateArgType(o, v, "BOOLEAN", Accept(flagged))
           units == WPValidateArgType(o, v, "ENUMERATED", Accept(unit))
           increment == WPValidateArgType(o, v, "REAL",
                            Check(o, Content(v) >= 0, "VALUE_OUT_OF_RANGE", increased))
           first == WriteReported(o, v)
           second == [PRESENT_VALUE |-> value, OUT_OF_SERVICE |-> flag, UNITS |-> units,
                      COV_INCREMENT |-> increment]
           r == Analog_Input_Write_Property(o, w)
<1>1. \A new : Given(Accept(new), new)
  BY DEF Given, Accept
<1>2. \/ Refused(r, o)
      \/ w.property \in DOMAIN (first ++ second) /\ r = (first ++ second)[w.property]
  BY FrameWritten DEF Analog_Input_Write_Property, Shortened
<1> HIDE DEF set, flagged, unit, increased, r
<1>3. /\ Refused(value, o) \/ (Tag(v) = "REAL" /\ Given(value, set))
      /\ Refused(flag, o) \/ (Tag(v) = "BOOLEAN" /\ Given(flag, flagged))
      /\ Refused(units, o) \/ (Tag(v) = "ENUMERATED" /\ Given(units, unit))
      /\ Refused(increment, o) \/ (Tag(v) = "REAL" /\ Given(increment, increased))
  BY <1>1, TypeChecked, Checked
<1> HIDE DEF value, flag, units, increment
<1>4. \A p \in DOMAIN second :
        \/ p = "PRESENT_VALUE" /\ second[p] = value
        \/ p = "OUT_OF_SERVICE" /\ second[p] = flag
        \/ p = "UNITS" /\ second[p] = units
        \/ p = "COV_INCREMENT" /\ second[p] = increment
  OBVIOUS
<1>5. \A p \in DOMAIN first : Refused(first[p], o) \/ ReportedTaken(first[p], o, v, p)
  BY ReportedWrites
<1> HIDE DEF first, second
<1>6. \/ Refused(r, o)
      \/ w.property \in DOMAIN first /\ r = first[w.property]
      \/ w.property \in DOMAIN second /\ r = second[w.property]
  BY <1>2 DEF ++
<1>7. \/ Refused(r, o)
      \/ ReportedTaken(r, o, v, w.property)
      \/ Tag(v) = "REAL" /\ Taken(r, w, "PRESENT_VALUE", set)
      \/ Tag(v) = "BOOLEAN" /\ Taken(r, w, "OUT_OF_SERVICE", flagged)
      \/ Tag(v) = "ENUMERATED" /\ Taken(r, w, "UNITS", unit)
      \/ Tag(v) = "REAL" /\ Taken(r, w, "COV_INCREMENT", increased)
  <2> HIDE DEF v
  <2>1. QED
    BY <1>3, <1>4, <1>5, <1>6 DEF Given, Taken
<1>8. QED
  BY <1>7 DEF r, set, flagged, unit, increased

(* Analog_Value_Write_Property: what alarms go by, the value, the units or *)
(* the flag.                                                               *)
LEMMA AnalogValueWrites ==
    ASSUME NEW o, NEW w
    PROVE  LET r == Analog_Value_Write_Property(o, w)
               v == w.values[1]
           IN  \/ Refused(r, o) \/ FlagTaken(r, o, w)
               \/ ReportedTaken(r, o, v, w.property)
               \/ /\ Tag(v) = "REAL"
                  /\ Taken(r, w, "PRESENT_VALUE", [o EXCEPT !.Present_Value = Content(v)])
               \/ /\ Tag(v) = "ENUMERATED"
                  /\ Taken(r, w, "UNITS", [o EXCEPT !.Units = Shortened(v, Word)])
<1> DEFINE v == w.values[1]
           set == [o EXCEPT !.Present_Value = Content(v)]
           flagged == [o EXCEPT !.Out_Of_Service = Content(v)]
           unit == [o EXCEPT !.Units = Shortened(v, Word)]
           value == IF Tag(v) = "REAL" THEN Accept(set) ELSE Refuse(o, "VALUE_OUT_OF_RANGE")
           flag == WriteOutOfService(o, v)
           units == WPValidateArgType(o, v, "ENUMERATED", Accept(unit))
           first == WriteReported(o, v)
           second == [PRESENT_VALUE |-> value, OUT_OF_SERVICE |-> flag, UNITS |-> units]
           r == Analog_Value_Write_Property(o, w)
<1>1. /\ \A new : Given(Accept(new), new)
      /\ Refused(Refuse(o, "VALUE_OUT_OF_RANGE"), o)
  BY DEF Given, Accept, Refuse, Refused
<1>2. \/ Refused(r, o)
      \/ w.property \in DOMAIN (first ++ second) /\ r = (first ++ second)[w.property]
  BY FrameWritten DEF Analog_Value_Write_Property, Shortened
<1>3. Refused(flag, o) \/ (Tag(v) = "BOOLEAN" /\ Given(flag, flagged))
  BY FlagWritten
<1> HIDE DEF set, flagged, unit, r
<1>4. /\ Refused(value, o) \/ (Tag(v) = "REAL" /\ Given(value, set))
      /\ Refused(units, o) \/ (Tag(v) = "ENUMERATED" /\ Given(units, unit))
  BY <1>1, TypeChecked
<1> HIDE DEF value, flag, units
<1>5. \A p \in DOMAIN second :
        \/ p = "PRESENT_VALUE" /\ second[p] = value
        \/ p = "OUT_OF_SERVICE" /\ second[p] = flag
        \/ p = "UNITS" /\ second[p] = units
  OBVIOUS
<1>6. \A p \in DOMAIN first : Refused(first[p], o) \/ ReportedTaken(first[p], o, v, p)
  BY ReportedWrites
<1> HIDE DEF first, second
<1>7. \/ Refused(r, o)
      \/ w.property \in DOMAIN first /\ r = first[w.property]
      \/ w.property \in DOMAIN second /\ r = second[w.property]
  BY <1>2 DEF ++
<1>8. \/ Refused(r, o)
      \/ ReportedTaken(r, o, v, w.property)
      \/ Tag(v) = "REAL" /\ Taken(r, w, "PRESENT_VALUE", set)
      \/ Tag(v) = "BOOLEAN" /\ Taken(r, w, "OUT_OF_SERVICE", flagged)
      \/ Tag(v) = "ENUMERATED" /\ Taken(r, w, "UNITS", unit)
  <2> HIDE DEF v
  <2>1. QED
    BY <1>3, <1>4, <1>5, <1>6, <1>7 DEF Given, Taken
<1>9. QED
  BY <1>8 DEF r, set, flagged, unit, FlagTaken

(* Only a string is written to a property that is one.                     *)
LEMMA StringWritten ==
    ASSUME NEW o, NEW v, NEW allowed, NEW outcome
    PROVE  LET r == WPValidateString(o, v, allowed, outcome)
           IN  Refused(r, o) \/ (Tag(v) = "CHARACTER_STRING" /\ r = outcome)
  BY DEF WPValidateString, WPValidateArgType, Refuse, Refused

(* Device_Write_Property_Local writes one property of the device, numbers  *)
(* in as many bits as they are kept in.                                    *)
LEMMA DeviceWrites ==
    ASSUME NEW o, NEW w
    PROVE  LET r == Device_Write_Property_Local(o, w)
               v == w.values[1]
           IN  \/ Refused(r, o)
               \/ Taken(r, w, "OBJECT_IDENTIFIER", Device_Set_Object_Instance_Number(o, v))
               \/ /\ Tag(v) = "UNSIGNED_INT"
                  /\ Taken(r, w, "NUMBER_OF_APDU_RETRIES", [o EXCEPT !.Retries = Kept(v, Octet)])
               \/ /\ Tag(v) = "UNSIGNED_INT"
                  /\ Taken(r, w, "APDU_TIMEOUT", [o EXCEPT !.Timeout = Kept(v, Word)])
               \/ /\ Tag(v) = "UNSIGNED_INT"
                  /\ Taken(r, w, "VENDOR_IDENTIFIER",
                           [o EXCEPT !.Vendor_Identifier = Kept(v, Word)])
               \/ Taken(r, w, "SYSTEM_STATUS", [o EXCEPT !.System_Status = v])
               \/ v = o.Object_Name /\ Taken(r, w, "OBJECT_NAME", o)
               \/ /\ Tag(v) = "CHARACTER_STRING"
                  /\ Taken(r, w, "OBJECT_NAME", Device_Set_Object_Name(o, v))
               \/ Taken(r, w, "LOCATION", [o EXCEPT !.Location = v])
               \/ Taken(r, w, "DESCRIPTION", [o EXCEPT !.Description = v])
               \/ Taken(r, w, "MODEL_NAME", [o EXCEPT !.Model_Name = v])
<1> DEFINE v == w.values[1]
           numbered == Device_Set_Object_Instance_Number(o, v)
           retries == [o EXCEPT !.Retries = Kept(v, Octet)]
           timeout == [o EXCEPT !.Timeout = Kept(v, Word)]
           vendor == [o EXCEPT !.Vendor_Identifier = Kept(v, Word)]
           status == [o EXCEPT !.System_Status = v]
           named == Device_Set_Object_Name(o, v)
           located == [o EXCEPT !.Location = v]
           described == [o EXCEPT !.Description = v]
           model == [o EXCEPT !.Model_Name = v]
           Number(new) == WPValidateArgType(o, v, "UNSIGNED_INT", Accept(new))
           String(new) == WPValidateString(o, v, TRUE, Accept(new))
           identifier == WPValidateArgType(o, v, "OBJECT_ID",
                            Check(o, v[2] = "DEVICE" /\ v[3] <= 4194303,
                                  "VALUE_OUT_OF_RANGE", numbered))
           system == WPValidateArgType(o, v, "ENUMERATED", Device_Set_System_Status(o, v))
           name == WPValidateString(o, v, FALSE, WriteDeviceName(o, v))
           changes == [OBJECT_IDENTIFIER |-> identifier,
                       NUMBER_OF_APDU_RETRIES |-> Number(retries),
                       APDU_TIMEOUT |-> Number(timeout),
                       VENDOR_IDENTIFIER |-> Number(vendor),
                       SYSTEM_STATUS |-> system, OBJECT_NAME |-> name,
                       LOCATION |-> String(located), DESCRIPTION |-> String(described),
                       MODEL_NAME |-> String(model)]
           r == Device_Write_Property_Local(o, w)
<1>1. \A new : Given(Accept(new), new)
  BY DEF Given, Accept
<1>2. \A code : code # "ack" => Refused(Refuse(o, code), o)
  BY DEF Refused, Refuse
<1>3. Refused(r, o) \/ (w.property \in DOMAIN changes /\ r = changes[w.property])
  BY FrameWritten DEF Device_Write_Property_Local, Kept
<1> HIDE DEF numbered, retries, timeout, vendor, located, described, model, r
<1>4. \A new : \/ Refused(Number(new), o)
               \/ Tag(v) = "UNSIGNED_INT" /\ Given(Number(new), new)
  <2>1. ASSUME NEW new
        PROVE  \/ Refused(Number(new), o)
               \/ Tag(v) = "UNSIGNED_INT" /\ Given(Number(new), new)
    <3>1. Refused(Number(new), o) \/ (Tag(v) = "UNSIGNED_INT" /\ Number(new) = Accept(new))
      BY TypeChecked
    <3>2. Given(Accept(new), new)
      BY <1>1
    <3> HIDE DEF Number
    <3>3. QED
      BY <3>1, <3>2
  <2> HIDE DEF Number
  <2>2. QED
    BY <2>1
<1>5. \A new : Refused(String(new), o) \/ Given(String(new), new)
  BY <1>1, StringWritten
<1>6. Refused(identifier, o) \/ Given(identifier, numbered)
  BY TypeChecked, Checked
<1>7. Refused(system, o) \/ Given(system, status)
  <2>1. LET s == Device_Set_System_Status(o, v) IN Refused(s, o) \/ Given(s, status)
    BY <1>1, <1>2 DEF Device_Set_System_Status
  <2> HIDE DEF status
  <2>2. QED
    BY <2>1, TypeChecked
<1>8. \/ Refused(name, o) \/ (v = o.Object_Name /\ Given(name, o))
      \/ Tag(v) = "CHARACTER_STRING" /\ Given(name, named)
  <2>1. LET n == WriteDeviceName(o, v)
        IN  Refused(n, o) \/ (v = o.Object_Name /\ Given(n, o)) \/ Given(n, named)
    BY <1>1, <1>2 DEF WriteDeviceName
  <2>2. PICK allowed : name = WPValidateString(o, v, allowed, WriteDeviceName(o, v))
    OBVIOUS
  <2> HIDE DEF named, name
  <2>3. QED
    BY <2>1, <2>2, StringWritten
<1> HIDE DEF Number, String, identifier, system, name, status, named
<1>9. w.property \in DOMAIN changes =>
        \/ w.property = "OBJECT_IDENTIFIER" /\ changes[w.property] = identifier
        \/ w.property = "NUMBER_OF_APDU_RETRIES" /\ changes[w.property] = Number(retries)
        \/ w.property = "APDU_TIMEOUT" /\ changes[w.property] = Number(timeout)
        \/ w.property = "VENDOR_IDENTIFIER" /\ changes[w.property] = Number(vendor)
        \/ w.property = "SYSTEM_STATUS" /\ changes[w.property] = system
        \/ w.property = "OBJECT_NAME" /\ changes[w.property] = name
        \/ w.property = "LOCATION" /\ changes[w.property] = String(located)
        \/ w.property = "DESCRIPTION" /\ changes[w.property] = String(described)
        \/ w.property = "MODEL_NAME" /\ changes[w.property] = String(model)
  OBVIOUS
<1> HIDE DEF changes
<1>10. \/ Refused(r, o)
       \/ Taken(r, w, "OBJECT_IDENTIFIER", numbered)
       \/ Tag(v) = "UNSIGNED_INT" /\ Taken(r, w, "NUMBER_OF_APDU_RETRIES", retries)
       \/ Tag(v) = "UNSIGNED_INT" /\ Taken(r, w, "APDU_TIMEOUT", timeout)
       \/ Tag(v) = "UNSIGNED_INT" /\ Taken(r, w, "VENDOR_IDENTIFIER", vendor)
       \/ Taken(r, w, "SYSTEM_STATUS", status)
       \/ v = o.Object_Name /\ Taken(r, w, "OBJECT_NAME", o)
       \/ Tag(v) = "CHARACTER_STRING" /\ Taken(r, w, "OBJECT_NAME", named)
       \/ Taken(r, w, "LOCATION", located)
       \/ Taken(r, w, "DESCRIPTION", described)
       \/ Taken(r, w, "MODEL_NAME", model)
  <2> HIDE DEF v
  <2>1. QED
    BY <1>3, <1>4, <1>5, <1>6, <1>7, <1>8, <1>9 DEF Given, Taken
<1>11. QED
  BY <1>10 DEF r, numbered, retries, timeout, vendor, status, named, located, described, model

----------------------------------------------------------------------------
(* The shape of every object.                                              *)

(* Objects with priorities, and objects with a value of their own.         *)
WithPriorities == {"ANALOG_OUTPUT", "BINARY_OUTPUT", "BINARY_VALUE", "LIGHTING_OUTPUT",
                   "MULTI_STATE_OUTPUT"}
WithValue == {"CHARACTERSTRING_VALUE", "OCTETSTRING_VALUE", "POSITIVE_INTEGER_VALUE",
              "MULTI_STATE_VALUE"}

(* The fields and the places of its array that an object has.              *)
Shaped(k, fields, array, places) ==
    LET s == SetUp(k)
    IN  /\ IsRecord(s, fields) /\ ArrayFields \cap fields \subseteq {array}
        /\ array \in fields => IsRecord(s[array], places)
        /\ "Out_Of_Service" \in fields => s.Out_Of_Service = FALSE

(* The objects with priorities have one place for each.                    *)
LEMMA PriorityShape ==
    ASSUME NEW k \in WithPriorities
    PROVE  \E fields : /\ {"Level", "Out_Of_Service"} \subseteq fields
                       /\ k = "LIGHTING_OUTPUT" => "Lighting_Command" \in fields
                       /\ Shaped(k, fields, "Level", Priorities)
<1>0. /\ IsRecord(NoCommands, Priorities)
      /\ IsRecord([NoCommands EXCEPT ![BACNET_MAX_PRIORITY] = Real(200)], Priorities)
  BY DEF IsRecord, NoCommands
<1>1. CASE k \in {"BINARY_OUTPUT", "BINARY_VALUE", "MULTI_STATE_OUTPUT"}
  <2>1. SetUp(k) = [Level |-> NoCommands, Out_Of_Service |-> FALSE]
    BY <1>1 DEF SetUp, Object_Init, Binary_Output_Init, Binary_Value_Init,
       Multistate_Output_Init
  <2>2. Shaped(k, {"Level", "Out_Of_Service"}, "Level", Priorities)
    <3>1. IsRecord(SetUp(k), {"Level", "Out_Of_Service"})
      BY <2>1 DEF IsRecord
    <3>2. QED
      BY <1>0, <2>1, <3>1 DEF Shaped, ArrayFields
  <2>3. QED
    BY <1>1, <2>2
<1>2. CASE k = "ANALOG_OUTPUT"
  <2>1. SetUp(k) = [Analog_Output_Init EXCEPT !.Level[BACNET_MAX_PRIORITY] = Real(200)]
    BY <1>2 DEF SetUp, Object_Init
  <2>2. SetUp(k) = [Level |-> [NoCommands EXCEPT ![BACNET_MAX_PRIORITY] = Real(200)],
                    Out_Of_Service |-> FALSE]
    BY <2>1 DEF Analog_Output_Init
  <2>3. Shaped(k, {"Level", "Out_Of_Service"}, "Level", Priorities)
    <3>1. IsRecord(SetUp(k), {"Level", "Out_Of_Service"})
      BY <2>2 DEF IsRecord
    <3>2. QED
      BY <1>0, <2>2, <3>1 DEF Shaped, ArrayFields
  <2>4. QED
    BY <1>2, <2>3
<1>3. CASE k = "LIGHTING_OUTPUT"
  <2>1. SetUp(k) = [Level |-> NoCommands, Lighting_Command |-> <<"LIGHTING_COMMAND", "NONE">>,
                    Out_Of_Service |-> FALSE]
    BY <1>3 DEF SetUp, Object_Init, Lighting_Output_Init
  <2>2. Shaped(k, {"Level", "Lighting_Command", "Out_Of_Service"}, "Level", Priorities)
    <3>1. IsRecord(SetUp(k), {"Level", "Lighting_Command", "Out_Of_Service"})
      BY <2>1 DEF IsRecord
    <3>2. QED
      BY <1>0, <2>1, <3>1 DEF Shaped, ArrayFields
  <2>3. QED
    BY <2>2
<1>4. QED
  BY <1>1, <1>2, <1>3 DEF WithPriorities

(* The objects with a value of their own have it and a flag.               *)
LEMMA ValueShape ==
    ASSUME NEW k \in WithValue
    PROVE  Shaped(k, {"Present_Value", "Out_Of_Service"}, "Level", {})
<1>1. \E x : SetUp(k) = [Present_Value |-> x, Out_Of_Service |-> FALSE]
  BY DEF WithValue, SetUp, Object_Init, ValueObject, CharacterString_Value_Init,
     OctetString_Value_Init, PositiveInteger_Value_Init, Multistate_Value_Init
<1>2. QED
  BY <1>1 DEF Shaped, IsRecord, ArrayFields

(* The fields of the objects with alarms.                                  *)
AlarmKindFields(k) == IF k = "ANALOG_INPUT" THEN InputFields ELSE ValueFields

(* The analog input and value have no array.                               *)
LEMMA AlarmShape ==
    ASSUME NEW k \in {"ANALOG_INPUT", "ANALOG_VALUE"}
    PROVE  Shaped(k, AlarmKindFields(k), "Level", {})
<1>1. IsRecord(SetUp(k), AlarmKindFields(k))
  BY InitialObject DEF ObjectOK, InputOK, ValueOK, AlarmKindFields
<1>2. ArrayFields \cap AlarmKindFields(k) = {}
  BY DEF ArrayFields, AlarmKindFields, InputFields, ValueFields, AlarmFields
<1>3. SetUp(k).Out_Of_Service = FALSE
  <2>1. DOMAIN Quiet = AlarmFields /\ "Out_Of_Service" \notin AlarmFields
    BY QuietIs DEF AlarmFields
  <2>2. /\ "Out_Of_Service" \in DOMAIN Analog_Input_Init
        /\ Analog_Input_Init.Out_Of_Service = FALSE
    BY <2>1 DEF Analog_Input_Init, ++
  <2>3. /\ "Out_Of_Service" \in DOMAIN Analog_Value_Init
        /\ Analog_Value_Init.Out_Of_Service = FALSE
    BY <2>1 DEF Analog_Value_Init, ++
  <2>4. QED
    BY <2>2, <2>3 DEF SetUp, Object_Init
<1>4. QED
  BY <1>1, <1>2, <1>3 DEF Shaped, ArrayFields

(* A list of recipients changes nothing else.                              *)
LEMMA DestinedKeeps ==
    ASSUME NEW o, NEW F, IsRecord(o, F), NEW list
    PROVE  LET n == Destined(o, list)
           IN  /\ IsRecord(n, F)
               /\ \A f \in F \ {"Recipient_List", "Wanted"} : n[f] = o[f]
<1> DEFINE wanted == o.Wanted \cup {Content(list[d][4]) :
                          d \in {e \in DOMAIN list : Tag(list[e][4]) = "DEVICE"}}
<1>1. Destined(o, list) = [o EXCEPT !.Recipient_List = list, !.Wanted = wanted]
  BY Zenon DEF Destined
<1> HIDE DEF wanted
<1>2. QED
  BY <1>1 DEF IsRecord

(* The shapes of all other objects.                                        *)
LEMMA OtherShapes ==
    /\ Shaped("BINARY_INPUT", {"Present_Value", "Polarity", "Out_Of_Service",
                               "Change_Of_Value"}, "Level", {})
    /\ Shaped("DEVICE", {"Object_Identifier", "Object_Name", "Description", "Location",
                         "Model_Name", "Vendor_Identifier", "System_Status", "Retries",
                         "Timeout", "Database_Revision"}, "Level", {})
    /\ Shaped("FILE", {"File_Size"}, "Level", {})
    /\ Shaped("LIFE_SAFETY_POINT", {"Mode", "Out_Of_Service"}, "Level", {})
    /\ Shaped("LOAD_CONTROL", LoadFields, "Shed_Levels", DOMAIN SHED_LEVELS)
    /\ Shaped("MULTI_STATE_INPUT", {"Present_Value", "Out_Of_Service", "Object_Name",
                                    "Object_Description", "State_Text"},
              "State_Text", States)
    /\ Shaped("NOTIFICATION_CLASS", {"Priority", "Ack_Required", "Recipient_List", "Wanted"},
              "Priority", 1 .. 3)
    /\ Shaped("SCHEDULE", {"Schedule_Default", "Present_Value", "Weekly_Schedule",
                           "Out_Of_Service"}, "Weekly_Schedule", 1 .. 7)
<1>1. /\ SetUp("BINARY_INPUT") = Binary_Input_Init
      /\ SetUp("DEVICE") = Device_Init
      /\ SetUp("FILE") = BACfile_Init
      /\ SetUp("LIFE_SAFETY_POINT") = Life_Safety_Point_Init
      /\ SetUp("LOAD_CONTROL")
            = [Load_Control_Init EXCEPT !.Shed_Duration = 3, !.Request_Written = TRUE]
      /\ SetUp("MULTI_STATE_INPUT") = Multistate_Input_Init
      /\ SetUp("NOTIFICATION_CLASS")
            = Destined([Notification_Class_Init EXCEPT !.Ack_Required = ToSet(Transitions)],
                       <<Destination("D1")>>)
      /\ SetUp("SCHEDULE") = Schedule_Init
  BY DEF SetUp, Object_Init
<1>2. Shaped("BINARY_INPUT", {"Present_Value", "Polarity", "Out_Of_Service",
                              "Change_Of_Value"}, "Level", {})
  BY <1>1 DEF Shaped, IsRecord, ArrayFields, Binary_Input_Init
<1>3. Shaped("DEVICE", {"Object_Identifier", "Object_Name", "Description", "Location",
                        "Model_Name", "Vendor_Identifier", "System_Status", "Retries",
                        "Timeout", "Database_Revision"}, "Level", {})
  BY <1>1 DEF Shaped, IsRecord, ArrayFields, Device_Init
<1>4. Shaped("FILE", {"File_Size"}, "Level", {})
  BY <1>1 DEF Shaped, IsRecord, ArrayFields, BACfile_Init
<1>5. Shaped("LIFE_SAFETY_POINT", {"Mode", "Out_Of_Service"}, "Level", {})
  BY <1>1 DEF Shaped, IsRecord, ArrayFields, Life_Safety_Point_Init
<1>6. Shaped("LOAD_CONTROL", LoadFields, "Shed_Levels", DOMAIN SHED_LEVELS)
  <2>1. /\ IsRecord(Load_Control_Init, LoadFields)
        /\ IsRecord(Load_Control_Init.Shed_Levels, DOMAIN SHED_LEVELS)
    BY DEF IsRecord, LoadFields, Load_Control_Init
  <2> DEFINE s == [Load_Control_Init EXCEPT !.Shed_Duration = 3, !.Request_Written = TRUE]
  <2>2. IsRecord(s, LoadFields) /\ s.Shed_Levels = Load_Control_Init.Shed_Levels
    BY <2>1 DEF IsRecord, LoadFields
  <2>3. s = SetUp("LOAD_CONTROL")
    BY <1>1
  <2> HIDE DEF s
  <2>4. QED
    BY <2>1, <2>2, <2>3 DEF Shaped, ArrayFields, LoadFields
<1>7. Shaped("MULTI_STATE_INPUT", {"Present_Value", "Out_Of_Service", "Object_Name",
                                   "Object_Description", "State_Text"},
             "State_Text", States)
  <2> DEFINE s == SetUp("MULTI_STATE_INPUT")
             texts == [i \in States |-> Text("")]
  <2>1. IsRecord(texts, States)
    BY DEF IsRecord
  <2>2. s = [Present_Value |-> Unsigned(1), Out_Of_Service |-> FALSE,
             Object_Name |-> Text(""), Object_Description |-> Text(""),
             State_Text |-> texts]
    BY <1>1 DEF Multistate_Input_Init
  <2> HIDE DEF texts, s
  <2>3. /\ IsRecord(s, {"Present_Value", "Out_Of_Service", "Object_Name",
                        "Object_Description", "State_Text"})
        /\ s.State_Text = texts /\ s.Out_Of_Service = FALSE
    BY <2>2 DEF IsRecord
  <2>4. QED
    BY <2>1, <2>3 DEF Shaped, ArrayFields, s
<1>8. Shaped("NOTIFICATION_CLASS", {"Priority", "Ack_Required", "Recipient_List", "Wanted"},
             "Priority", 1 .. 3)
  <2> DEFINE i == Notification_Class_Init
             s == SetUp("NOTIFICATION_CLASS")
             p == [t \in 1 .. 3 |-> Unsigned(255)]
  <2>0. IsRecord(p, 1 .. 3) /\ i = [Priority |-> p, Ack_Required |-> {},
                                    Recipient_List |-> <<>>, Wanted |-> {}]
    BY DEF IsRecord, Notification_Class_Init
  <2> HIDE DEF p
  <2>1. /\ IsRecord(i, {"Priority", "Ack_Required", "Recipient_List", "Wanted"})
        /\ IsRecord(i.Priority, 1 .. 3)
    <3> HIDE DEF i
    <3>1. QED
      BY <2>0 DEF IsRecord
  <2> DEFINE a == [i EXCEPT !.Ack_Required = ToSet(Transitions)]
  <2>2. s = Destined(a, <<Destination("D1")>>)
    BY <1>1
  <2> HIDE DEF i, s
  <2>3. IsRecord(a, {"Priority", "Ack_Required", "Recipient_List", "Wanted"})
        /\ a.Priority = i.Priority
    BY <2>1 DEF IsRecord
  <2> HIDE DEF a
  <2>4. /\ IsRecord(s, {"Priority", "Ack_Required", "Recipient_List", "Wanted"})
        /\ s.Priority = i.Priority
    BY <2>2, <2>3, DestinedKeeps
  <2>5. QED
    BY <2>1, <2>4 DEF Shaped, ArrayFields, s
<1>9. Shaped("SCHEDULE", {"Schedule_Default", "Present_Value", "Weekly_Schedule",
                          "Out_Of_Service"}, "Weekly_Schedule", 1 .. 7)
  BY <1>1 DEF Shaped, IsRecord, ArrayFields, Schedule_Init
<1>10. QED
  BY <1>2, <1>3, <1>4, <1>5, <1>6, <1>7, <1>8, <1>9

(* Every object is like itself at the start.                               *)
LEMMA ShapedLike ==
    ASSUME NEW k, NEW fields, NEW array, NEW places, Shaped(k, fields, array, places)
    PROVE  Like(SetUp(k), SetUp(k))
  BY DEF Shaped, Like, IsRecord

(* An object that is like one of a shape has that shape.                   *)
LEMMA LikeShaped ==
    ASSUME NEW k, NEW fields, NEW array \in ArrayFields, NEW places,
           Shaped(k, fields, array, places), NEW o, Like(o, SetUp(k))
    PROVE  /\ IsRecord(o, fields)
           /\ array \in fields => IsRecord(o[array], places)
           /\ "Out_Of_Service" \in fields => o.Out_Of_Service \in BOOLEAN
  BY DEF Shaped, Like, IsRecord

(* Every object starts in its own shape.                                   *)
LEMMA InitLike == \A k \in Kinds : Like(SetUp(k), SetUp(k))
  BY PriorityShape, ValueShape, AlarmShape, OtherShapes, ShapedLike
     DEF Kinds, WithPriorities, WithValue

(* What is written to the flag as a flag is one.                           *)
FlagTyped(v) == Tag(v) = "BOOLEAN" => Content(v) \in BOOLEAN

(* Every value of a request carries what its type says.                    *)
LEMMA TypedValues ==
    /\ \A b \in BOOLEAN : FlagTyped(Boolean(b))
    /\ \A n : /\ FlagTyped(Real(n)) /\ FlagTyped(Enumerated(n)) /\ FlagTyped(Unsigned(n))
              /\ FlagTyped(Text(n)) /\ FlagTyped(Bits(n)) /\ FlagTyped(Percent(n))
              /\ FlagTyped(Level(n)) /\ FlagTyped(Amount(n))
              /\ FlagTyped(<<"DATETIME", n>>) /\ FlagTyped(<<"OCTET_STRING", n>>)
    /\ FlagTyped(Null) /\ FlagTyped(<<"EMPTY">>)
  BY DEF FlagTyped, Tag, Content, Boolean, Real, Enumerated, Unsigned, Text, Bits, Percent,
     Level, Amount, Null

(* Requests that carry a value.                                            *)
TypedRequest(w) == FlagTyped(w.values[1])

(* So does a request with such a value.                                    *)
LEMMA RequestTyped ==
    ASSUME NEW v, FlagTyped(v)
    PROVE  /\ \A p : TypedRequest(Simple(p, v))
           /\ \A p, i, j : TypedRequest(Request(p, <<v>>, i, j))
<1>1. /\ \A p : Simple(p, v).values[1] = v
      /\ \A p, i, j : Request(p, <<v>>, i, j).values[1] = v
  BY DEF Simple, Request
<1>2. QED
  BY <1>1 DEF TypedRequest

(* So do commands.                                                         *)
LEMMA CommandsTyped ==
    ASSUME NEW values, \A v \in values : FlagTyped(v), NEW c \in Commands(values)
    PROVE  TypedRequest(c)
<1>1. PICK v \in values \cup {Null}, p \in Priorities :
          c = Request("PRESENT_VALUE", <<v>>, BACNET_ARRAY_ALL, p)
  BY DEF Commands
<1>2. FlagTyped(v)
  BY TypedValues
<1>3. QED
  BY <1>1, <1>2, RequestTyped

(* Writes of the flag carry flags.                                         *)
LEMMA FlagsRequested ==
    ASSUME NEW k, NEW w \in Requests(k)
    PROVE  TypedRequest(w)
<1> DEFINE oos == {Simple("OUT_OF_SERVICE", Boolean(b)) : b \in BOOLEAN}
<1>1. CASE w \in oos
  BY <1>1, TypedValues, RequestTyped
<1>2. CASE w \notin oos /\ k = "ANALOG_INPUT"
  <2> DEFINE S0 == {Simple("PRESENT_VALUE", Real(n)) : n \in {0, 1, 3}}
             S1 == {Simple("COV_INCREMENT", Real(n)) : n \in {1, 4}}
             S2 == {Simple("TIME_DELAY", Unsigned(1))}
  <2>0. Requests(k) = oos \cup (S0 \cup S1 \cup S2)
    BY <1>2 DEF Requests
  <2>1. w \in S0 => TypedRequest(w)
    BY TypedValues, RequestTyped
  <2>2. w \in S1 => TypedRequest(w)
    BY TypedValues, RequestTyped
  <2>3. w \in S2 => TypedRequest(w)
    BY TypedValues, RequestTyped
  <2> HIDE DEF oos, S0, S1, S2
  <2>4. QED
    BY <1>2, <2>0, <2>1, <2>2, <2>3
<1>3. CASE w \notin oos /\ k = "ANALOG_VALUE"
  <2> DEFINE S0 == {Simple("PRESENT_VALUE", Real(n)) : n \in {-6, 0, 6}}
  <2>0. Requests(k) = oos \cup S0
    BY <1>3 DEF Requests
  <2>1. w \in S0 => TypedRequest(w)
    <3>1. \A n : TypedRequest(Simple("PRESENT_VALUE", Real(n)))
      BY TypedValues, RequestTyped
    <3>2. QED
      BY <3>1
  <2> HIDE DEF oos, S0
  <2>2. QED
    BY <1>3, <2>0, <2>1
<1>4. CASE w \notin oos /\ k = "BINARY_INPUT"
  <2> DEFINE S0 == {Simple(p, Enumerated(n)) : p \in {"PRESENT_VALUE", "POLARITY"}, n \in {0,
                                                                                           1}}
  <2>0. Requests(k) = oos \cup S0
    BY <1>4 DEF Requests
  <2>1. w \in S0 => TypedRequest(w)
    <3>1. \A p, n : TypedRequest(Simple(p, Enumerated(n)))
      BY TypedValues, RequestTyped
    <3>2. QED
      BY <3>1
  <2> HIDE DEF oos, S0
  <2>2. QED
    BY <1>4, <2>0, <2>1
<1>5. CASE w \notin oos /\ k = "NOTIFICATION_CLASS"
  <2> DEFINE S0 == {Simple("ACK_REQUIRED", Bits({}))}
             S1 == {Simple("RECIPIENT_LIST", <<"EMPTY">>)}
             S2 == {Request("PRIORITY", <<Unsigned(9)>>, 2, BACNET_MAX_PRIORITY)}
  <2>0. Requests(k) = oos \cup (S0 \cup S1 \cup S2)
    BY <1>5 DEF Requests
  <2>1. w \in S0 => TypedRequest(w)
    BY TypedValues, RequestTyped
  <2>2. w \in S1 => TypedRequest(w)
    BY TypedValues, RequestTyped
  <2>3. w \in S2 => TypedRequest(w)
    BY TypedValues, RequestTyped
  <2> HIDE DEF oos, S0, S1, S2
  <2>4. QED
    BY <1>5, <2>0, <2>1, <2>2, <2>3
<1>6. CASE w \notin oos /\ k = "LOAD_CONTROL"
  <2> DEFINE S0 == {Simple("REQUESTED_SHED_LEVEL", l) : l \in {Level(0), Level(3),
                                                               Percent(20), Percent(80), Amount(1)}}
             S1 == {Simple("START_TIME", <<"DATETIME", t>>) : t \in {Wildcard, 1}}
             S2 == {Simple("SHED_DURATION", Unsigned(0))}
             S3 == {Simple("ENABLE", Boolean(FALSE))}
  <2>0. Requests(k) = oos \cup (S0 \cup S1 \cup S2 \cup S3)
    BY <1>6 DEF Requests
  <2>1. w \in S0 => TypedRequest(w)
    BY TypedValues, RequestTyped
  <2>2. w \in S1 => TypedRequest(w)
    BY TypedValues, RequestTyped
  <2>3. w \in S2 => TypedRequest(w)
    BY TypedValues, RequestTyped
  <2>4. w \in S3 => TypedRequest(w)
    BY TypedValues, RequestTyped
  <2> HIDE DEF oos, S0, S1, S2, S3
  <2>5. QED
    BY <1>6, <2>0, <2>1, <2>2, <2>3, <2>4
<1>7. CASE w \notin oos /\ k = "DEVICE"
  <2> DEFINE S0 == {Simple("OBJECT_NAME", Text(s)) : s \in {"other", "taken", "longer_than_32"}}
             S1 == {Simple("SYSTEM_STATUS", Enumerated(NON_OPERATIONAL))}
  <2>0. Requests(k) = oos \cup (S0 \cup S1)
    BY <1>7 DEF Requests
  <2>1. w \in S0 => TypedRequest(w)
    BY TypedValues, RequestTyped
  <2>2. w \in S1 => TypedRequest(w)
    BY TypedValues, RequestTyped
  <2> HIDE DEF oos, S0, S1
  <2>3. QED
    BY <1>7, <2>0, <2>1, <2>2
<1>8. CASE w \notin oos /\ k = "LIFE_SAFETY_POINT"
  <2> DEFINE S0 == {Simple("MODE", Enumerated(n)) : n \in 0 .. 2}
  <2>0. Requests(k) = oos \cup S0
    BY <1>8 DEF Requests
  <2>1. w \in S0 => TypedRequest(w)
    BY TypedValues, RequestTyped
  <2> HIDE DEF oos, S0
  <2>2. QED
    BY <1>8, <2>0, <2>1
<1>9. CASE w \notin oos /\ k = "MULTI_STATE_INPUT"
  <2> DEFINE S0 == {Simple("OBJECT_NAME", Text("other"))}
             S1 == {Request("STATE_TEXT", <<Text("one")>>, 2, BACNET_MAX_PRIORITY)}
  <2>0. Requests(k) = oos \cup (S0 \cup S1)
    BY <1>9 DEF Requests
  <2>1. w \in S0 => TypedRequest(w)
    BY TypedValues, RequestTyped
  <2>2. w \in S1 => TypedRequest(w)
    BY TypedValues, RequestTyped
  <2> HIDE DEF oos, S0, S1
  <2>3. QED
    BY <1>9, <2>0, <2>1, <2>2
<1>10. CASE w \notin oos /\ k = "ANALOG_OUTPUT"
  <2>1. w \in Commands({Real(60), Real(200)})
    BY <1>10 DEF Requests
  <2>2. QED
    <3>1. \A v \in {Real(60), Real(200)} : FlagTyped(v)
      BY TypedValues
    <3>2. QED
      BY <2>1, <3>1, CommandsTyped
<1>11. CASE w \notin oos /\ k = "BINARY_OUTPUT"
  <2>1. w \in Commands({Enumerated(0), Enumerated(1), Enumerated(2)})
    BY <1>11 DEF Requests
  <2>2. QED
    BY <2>1, TypedValues, CommandsTyped
<1>12. CASE w \notin oos /\ k = "BINARY_VALUE"
  <2>1. w \in Commands({Enumerated(0), Enumerated(1), Enumerated(2)})
    BY <1>12 DEF Requests
  <2>2. QED
    BY <2>1, TypedValues, CommandsTyped
<1>13. CASE w \notin oos /\ k = "LIGHTING_OUTPUT"
  <2>1. w \in Commands({Real(0), Real(60)})
    BY <1>13 DEF Requests
  <2>2. QED
    BY <2>1, TypedValues, CommandsTyped
<1>14. CASE w \notin oos /\ k = "MULTI_STATE_OUTPUT"
  <2>1. w \in Commands({Unsigned(1), Unsigned(2)})
    BY <1>14 DEF Requests
  <2>2. QED
    BY <2>1, TypedValues, CommandsTyped
<1>15. CASE w \notin oos /\ k \notin {"ANALOG_INPUT", "ANALOG_VALUE", "BINARY_INPUT",
                                      "NOTIFICATION_CLASS", "LOAD_CONTROL", "DEVICE",
                                      "LIFE_SAFETY_POINT", "MULTI_STATE_INPUT",
                                      "ANALOG_OUTPUT", "BINARY_OUTPUT", "BINARY_VALUE",
                                      "LIGHTING_OUTPUT", "MULTI_STATE_OUTPUT"}
  <2> DEFINE S == {Simple("PRESENT_VALUE", v) :
                    v \in {Unsigned(2), Text("other"), <<"OCTET_STRING", "other">>}}
  <2>0. Requests(k) = oos \cup S
    <3>1. /\ k # "ANALOG_INPUT" /\ k # "ANALOG_VALUE" /\ k # "ANALOG_OUTPUT"
          /\ k # "BINARY_OUTPUT" /\ k # "BINARY_VALUE" /\ k # "LIGHTING_OUTPUT"
          /\ k # "MULTI_STATE_OUTPUT" /\ k # "BINARY_INPUT" /\ k # "NOTIFICATION_CLASS"
          /\ k # "LOAD_CONTROL" /\ k # "LIFE_SAFETY_POINT" /\ k # "MULTI_STATE_INPUT"
          /\ k # "DEVICE"
      BY <1>15
    <3>2. QED
      BY <3>1 DEF Requests
  <2>1. w \in S => TypedRequest(w)
    BY TypedValues, RequestTyped
  <2> HIDE DEF oos, S
  <2>2. QED
    BY <1>15, <2>0, <2>1
<1>16. QED
  BY <1>1, <1>2, <1>3, <1>4, <1>5, <1>6, <1>7, <1>8, <1>9, <1>10, <1>11, <1>12, <1>13, <1>14,
     <1>15

(* A write leaves an object with the fields and the places that it had.    *)
LEMMA CommandLike ==
    ASSUME NEW o, NEW s, Like(o, s), NEW w, NEW r, NEW tag, NEW kept,
           CommandTaken(r, o, w, tag, kept)
    PROVE  Like(r.object, s)
<1>1. "Level" \in ArrayFields
  BY DEF ArrayFields
<1>2. /\ Like([o EXCEPT !.Level[w.priority] = kept], s)
      /\ Like([o EXCEPT !.Level[w.priority] = Null], s)
  BY <1>1, PlaceSet
<1>3. QED
  BY <1>2 DEF CommandTaken, Taken

(* The flag leaves the shape of an object.                                 *)
LEMMA FlagLike ==
    ASSUME NEW o, NEW s, Like(o, s), NEW w, TypedRequest(w), NEW r,
           FlagTaken(r, o, w)
    PROVE  Like(r.object, s)
<1>1. "Out_Of_Service" \notin ArrayFields
  BY DEF ArrayFields
<1>2. Tag(w.values[1]) = "BOOLEAN" => Like([o EXCEPT !.Out_Of_Service = Content(w.values[1])], s)
  BY <1>1, FieldSet DEF TypedRequest, FlagTyped, TypedRequest
<1>3. QED
  BY <1>2 DEF FlagTaken, Taken

(* So does a value.                                                        *)
LEMMA ValueLike ==
    ASSUME NEW o, NEW s, Like(o, s), NEW w, NEW r, NEW tag, ValueTaken(r, o, w, tag)
    PROVE  Like(r.object, s)
<1>1. "Present_Value" \notin ArrayFields
  BY DEF ArrayFields
<1>2. Like([o EXCEPT !.Present_Value = w.values[1]], s)
  BY <1>1, FieldSet
<1>3. QED
  BY <1>2 DEF ValueTaken, Taken

(* So does what alarms go by.                                              *)
LEMMA ReportedLike ==
    ASSUME NEW o, NEW s, Like(o, s), NEW v, NEW p, NEW r, ReportedTaken(r, o, v, p)
    PROVE  Like(r.object, s)
<1>1. \A f \in {"Time_Delay", "Remaining_Time_Delay", "Notification_Class", "High_Limit",
                "Low_Limit", "Deadband", "Limit_Enable", "Event_Enable", "Notify_Type"} :
        f \notin ArrayFields /\ f # "Out_Of_Service"
  BY DEF ArrayFields
<1>2. /\ Like([o EXCEPT !.Time_Delay = Content(v), !.Remaining_Time_Delay = Content(v)], s)
      /\ Like([o EXCEPT !.Notification_Class = Content(v)], s)
      /\ Like([o EXCEPT !.High_Limit = Content(v)], s)
      /\ Like([o EXCEPT !.Low_Limit = Content(v)], s)
      /\ Like([o EXCEPT !.Deadband = Content(v)], s)
      /\ Like([o EXCEPT !.Limit_Enable = Content(v)], s)
      /\ Like([o EXCEPT !.Event_Enable = Content(v)], s)
      /\ Like([o EXCEPT !.Notify_Type = Content(v)], s)
  BY <1>1, FieldSet, FieldsSet
<1>3. QED
  BY <1>2 DEF ReportedTaken, Given

(* A field of a record that is no array and not the flag.                  *)
LEMMA Free ==
    \A f \in {"Mode", "Lighting_Command", "Present_Value", "Change_Of_Value", "Polarity",
              "Object_Name", "Object_Description", "Requested_Shed_Level", "Request_Written",
              "Start_Time", "Start_Time_Written", "Shed_Duration", "Duty_Window", "Enable",
              "State", "Expected_Shed_Level", "Actual_Shed_Level",
              "Ack_Required", "Recipient_List", "Wanted", "Changed", "Prior_Value",
              "COV_Increment", "Units", "Measured", "Object_Identifier", "Database_Revision",
              "Retries", "Timeout", "Vendor_Identifier", "System_Status", "Location",
              "Description", "Model_Name", "Event_State", "Remaining_Time_Delay"} :
        f \notin ArrayFields /\ f # "Out_Of_Service"
  BY DEF ArrayFields

(* No write changes the shape of an object, whatever its type.             *)
LEMMA WrittenLike ==
    ASSUME NEW k \in Kinds, NEW o, Like(o, SetUp(k)), NEW w, TypedRequest(w)
    PROVE  Like(Device_Write_Property(k, o, w).object, SetUp(k))
<1> DEFINE s == SetUp(k)
           v == w.values[1]
           r == Device_Write_Property(k, o, w)
<1>0. SUFFICES ASSUME ~Refused(r, o) PROVE Like(r.object, s)
  BY DEF Refused
<1>own. Like(o, s)
  OBVIOUS
<1>1. CASE k = "ANALOG_OUTPUT"
  BY <1>0, <1>1, AnalogOutputWrites, CommandLike, FlagLike DEF Device_Write_Property
<1>2. CASE k = "BINARY_OUTPUT"
  BY <1>0, <1>2, BinaryOutputWrites, CommandLike, FlagLike DEF Device_Write_Property
<1>3. CASE k = "BINARY_VALUE"
  BY <1>0, <1>3, BinaryValueWrites, CommandLike, FlagLike DEF Device_Write_Property
<1>4. CASE k = "MULTI_STATE_OUTPUT"
  BY <1>0, <1>4, MultistateOutputWrites, CommandLike, FlagLike DEF Device_Write_Property
<1>5. CASE k = "LIGHTING_OUTPUT"
  <2>1. Like([o EXCEPT !.Lighting_Command = v], s)
    BY Free, FieldSet
  <2>2. QED
    BY <1>0, <1>5, <2>1, LightingOutputWrites, CommandLike, FlagLike
       DEF Device_Write_Property, Taken
<1>6. CASE k = "CHARACTERSTRING_VALUE"
  BY <1>0, <1>6, CharacterStringWrites, ValueLike, FlagLike DEF Device_Write_Property
<1>7. CASE k = "OCTETSTRING_VALUE"
  BY <1>0, <1>7, OctetStringWrites, ValueLike, FlagLike DEF Device_Write_Property
<1>8. CASE k = "POSITIVE_INTEGER_VALUE"
  BY <1>0, <1>8, PositiveIntegerWrites, ValueLike, FlagLike DEF Device_Write_Property
<1>9. CASE k = "MULTI_STATE_VALUE"
  BY <1>0, <1>9, MultistateValueWrites, ValueLike, FlagLike DEF Device_Write_Property
<1>10. CASE k = "SCHEDULE"
  BY <1>0, <1>10, ScheduleWrites, FlagLike DEF Device_Write_Property
<1>11. CASE k = "FILE"
  BY <1>11, FileWrites DEF Device_Write_Property
<1>12. CASE k = "LIFE_SAFETY_POINT"
  <2>1. Like([o EXCEPT !.Mode = v], s)
    BY Free, FieldSet
  <2>2. QED
    BY <1>0, <1>12, <2>1, LifeSafetyPointWrites, FlagLike DEF Device_Write_Property, Taken
<1>13. CASE k = "BINARY_INPUT"
  <2>1. \A x : /\ Like([o EXCEPT !.Polarity = x], s)
               /\ Like(Binary_Input_Present_Value_Set(o, x), s)
    BY Free, FieldSet, FieldsSet DEF Binary_Input_Present_Value_Set
  <2>2. Tag(v) = "BOOLEAN" => Like(Binary_Input_Out_Of_Service_Set(o, Content(v)), s)
    <3>1. "Out_Of_Service" \notin ArrayFields
      BY DEF ArrayFields
    <3>2. QED
      BY <3>1, Free, FieldsSet DEF Binary_Input_Out_Of_Service_Set, FlagTyped, TypedRequest
  <2>3. QED
    BY <1>0, <1>13, <2>1, <2>2, BinaryInputWrites DEF Device_Write_Property, Taken
<1>14. CASE k = "MULTI_STATE_INPUT"
  <2> DEFINE n1 == [o EXCEPT !.Object_Name = v]
             n2 == [o EXCEPT !.Object_Description = v]
             n3(i) == [o EXCEPT !.State_Text[i] = v]
             n4 == WriteStateTexts(o, w.values).object
  <2>1. \/ Refused(r, o) \/ FlagTaken(r, o, w) \/ ValueTaken(r, o, w, "UNSIGNED_INT")
        \/ r.object = n1 \/ r.object = n2 \/ r.object = o \/ r.object = n4
        \/ \E i : r.object = n3(i)
    <3> DEFINE q == Multistate_Input_Write_Property(o, w)
    <3>1. \/ Refused(q, o) \/ FlagTaken(q, o, w) \/ ValueTaken(q, o, w, "UNSIGNED_INT")
          \/ /\ Tag(v) = "CHARACTER_STRING" /\ q.reply = "ack"
             /\ \/ Taken(q, w, "OBJECT_NAME", n1)
                \/ Taken(q, w, "OBJECT_NAME", o) /\ v = o.Object_Name
                \/ Taken(q, w, "DESCRIPTION", n2)
          \/ /\ w.property = "STATE_TEXT"
             /\ \/ \E i : q.object = n3(i)
                \/ q.object = n4
      BY MultistateInputWrites
    <3>2. r = q
      BY <1>14 DEF Device_Write_Property
    <3> HIDE DEF n1, n2, n3, n4, r, q
    <3>3. QED
      BY <3>1, <3>2 DEF Taken
  <2>2. Like(n1, s) /\ Like(n2, s)
    BY Free, FieldSet
  <2>3. \A i : Like(n3(i), s)
    BY PlaceSet DEF ArrayFields
  <2>4. Like(n4, s)
    <3> DEFINE usable == {n \in 1 .. Len(w.values) :
                            \A i \in 1 .. n : Tag(w.values[i]) # "LARGE"}
               taken == {n \in usable : n <= MULTISTATE_NUMBER_OF_STATES}
               new == [t \in States |->
                        IF t \in taken /\ TextReply(w.values[t]) = "ack"
                        THEN w.values[t] ELSE o.State_Text[t]]
    <3>1. n4 = [o EXCEPT !.State_Text = new]
      <4>1. \E x : WriteStateTexts(o, w.values)
                    = [reply |-> x, object |-> [o EXCEPT !.State_Text = new]]
        BY Zenon DEF WriteStateTexts
      <4> HIDE DEF new
      <4>2. QED
        BY <4>1
    <3>0. IsRecord(new, States)
      BY DEF IsRecord
    <3> HIDE DEF new
    <3>2. DOMAIN s.State_Text = States /\ "State_Text" \in ArrayFields
      BY <1>14, OtherShapes DEF Shaped, IsRecord, ArrayFields
    <3>3. QED
      BY <3>0, <3>1, <3>2, ArraySet
  <2>5. FlagTaken(r, o, w) => Like(r.object, s)
    BY FlagLike
  <2>6. ValueTaken(r, o, w, "UNSIGNED_INT") => Like(r.object, s)
    BY ValueLike
  <2> HIDE DEF n1, n2, n3, n4, r, s
  <2>7. QED
    BY <1>own, <1>0, <2>1, <2>2, <2>3, <2>4, <2>5, <2>6
<1>15. CASE k = "LOAD_CONTROL"
  <2> DEFINE n1 == [o EXCEPT !.Requested_Shed_Level = v, !.Request_Written = TRUE]
             n2 == [o EXCEPT !.Start_Time = Content(v), !.Start_Time_Written = TRUE]
             n3 == [o EXCEPT !.Shed_Duration = Content(v), !.Request_Written = TRUE]
             n4 == [o EXCEPT !.Duty_Window = Content(v), !.Request_Written = TRUE]
             n5 == [o EXCEPT !.Enable = Content(v)]
             n6 == [o EXCEPT !.Shed_Levels[w.index] = v]
  <2>1. r.object \in {o, n1, n2, n3, n4, n5, n6}
    <3>1. r = Load_Control_Write_Property(o, w)
      BY <1>15 DEF Device_Write_Property
    <3> HIDE DEF r
    <3>2. \/ Refused(r, o)
          \/ Taken(r, w, "REQUESTED_SHED_LEVEL", n1)
          \/ Taken(r, w, "START_TIME", n2)
          \/ Taken(r, w, "SHED_DURATION", n3)
          \/ Taken(r, w, "DUTY_WINDOW", n4)
          \/ r.object = o \/ r.object = n6
          \/ Taken(r, w, "ENABLE", n5)
      BY <3>1, LoadControlWrites
    <3> HIDE DEF n1, n2, n3, n4, n5, n6
    <3>3. QED
      BY <3>2 DEF Refused, Taken
  <2>2. Like(n1, s) /\ Like(n2, s) /\ Like(n3, s) /\ Like(n4, s) /\ Like(n5, s)
    BY Free, FieldSet, FieldsSet
  <2>3. Like(n6, s)
    BY PlaceSet DEF ArrayFields
  <2> HIDE DEF n1, n2, n3, n4, n5, n6, r, s
  <2>4. QED
    BY <1>own, <2>1, <2>2, <2>3
<1>16. CASE k = "NOTIFICATION_CLASS"
  <2> DEFINE n1 == [o EXCEPT !.Ack_Required = Content(v)]
             n2 == [o EXCEPT !.Priority[w.index] = Kept(v, Octet)]
  <2>1. \/ r.object \in {o, n1, n2}
        \/ \E list : r.object = Destined(o, list)
    <3> DEFINE q == Notification_Class_Write_Property(o, w)
    <3>1. \/ Refused(q, o)
          \/ /\ w.property = "PRIORITY" /\ q.reply = "ack"
             /\ q.object = o \/ q.object = n2
          \/ /\ w.property = "ACK_REQUIRED" /\ q.reply = "ack"
             /\ q.object = o \/ q.object = n1
          \/ /\ RecipientsReply(IF Tag(v) = "EMPTY" THEN <<>> ELSE w.values) = "ack"
             /\ w.property = "RECIPIENT_LIST" /\ q.reply = "ack"
             /\ \E list : q.object = Destined(o, list)
      BY NotificationClassWrites
    <3>2. r = q
      BY <1>16 DEF Device_Write_Property
    <3> HIDE DEF n1, n2, q, r
    <3>3. QED
      BY <3>1, <3>2 DEF Refused
  <2>2. Like(n1, s)
    BY Free, FieldSet
  <2>3. Like(n2, s)
    BY PlaceSet DEF ArrayFields
  <2>4. ASSUME NEW list PROVE Like(Destined(o, list), s)
    <3>1. \E x : Destined(o, list) = [o EXCEPT !.Recipient_List = list, !.Wanted = x]
      BY Zenon DEF Destined
    <3>2. PICK x : Destined(o, list) = [o EXCEPT !.Recipient_List = list, !.Wanted = x]
      BY <3>1
    <3>3. /\ "Recipient_List" \notin ArrayFields /\ "Recipient_List" # "Out_Of_Service"
          /\ "Wanted" \notin ArrayFields /\ "Wanted" # "Out_Of_Service"
      BY DEF ArrayFields
    <3> HIDE DEF s
    <3>4. Like([o EXCEPT !.Recipient_List = list, !.Wanted = x], s)
      BY <3>3, FieldsSet DEF s
    <3>5. QED
      BY <3>2, <3>4
  <2> HIDE DEF n1, n2, r, s
  <2>5. QED
    BY <1>own, <2>1, <2>2, <2>3, <2>4
<1>17. CASE k = "DEVICE"
  <2> DEFINE n1 == Device_Set_Object_Instance_Number(o, v)
             n2 == [o EXCEPT !.Retries = Kept(v, Octet)]
             word == Kept(v, Word)
             n3 == [o EXCEPT !.Timeout = word]
             n4 == [o EXCEPT !.Vendor_Identifier = word]
             n5 == [o EXCEPT !.System_Status = v]
             n6 == Device_Set_Object_Name(o, v)
             n7 == [o EXCEPT !.Location = v]
             n8 == [o EXCEPT !.Description = v]
             n9 == [o EXCEPT !.Model_Name = v]
  <2>1. r.object \in {o, n1, n2, n3, n4, n5, n6, n7, n8, n9}
    <3>1. r = Device_Write_Property_Local(o, w)
      BY <1>17 DEF Device_Write_Property
    <3> HIDE DEF r
    <3>2. \/ Refused(r, o)
          \/ Taken(r, w, "OBJECT_IDENTIFIER", n1)
          \/ Taken(r, w, "NUMBER_OF_APDU_RETRIES", n2)
          \/ Taken(r, w, "APDU_TIMEOUT", n3)
          \/ Taken(r, w, "VENDOR_IDENTIFIER", n4)
          \/ Taken(r, w, "SYSTEM_STATUS", n5)
          \/ Taken(r, w, "OBJECT_NAME", o)
          \/ Taken(r, w, "OBJECT_NAME", n6)
          \/ Taken(r, w, "LOCATION", n7)
          \/ Taken(r, w, "DESCRIPTION", n8)
          \/ Taken(r, w, "MODEL_NAME", n9)
      BY <3>1, DeviceWrites
    <3> HIDE DEF n1, n2, n3, n4, n5, n6, n7, n8, n9
    <3>3. QED
      BY <3>2 DEF Refused, Taken
  <2>2. /\ Like(n2, s) /\ Like(n3, s) /\ Like(n4, s) /\ Like(n5, s)
        /\ Like(n7, s) /\ Like(n8, s) /\ Like(n9, s)
    <3>1. \A x : /\ Like([o EXCEPT !.Retries = x], s) /\ Like([o EXCEPT !.Timeout = x], s)
                 /\ Like([o EXCEPT !.Vendor_Identifier = x], s)
                 /\ Like([o EXCEPT !.System_Status = x], s)
                 /\ Like([o EXCEPT !.Location = x], s)
                 /\ Like([o EXCEPT !.Description = x], s)
                 /\ Like([o EXCEPT !.Model_Name = x], s)
      BY Free, FieldSet
    <3> HIDE DEF s, word
    <3>2. Like(n2, s)
      BY <3>1, Zenon
    <3>3. Like(n3, s)
      BY <3>1, Zenon
    <3>4. Like(n4, s)
      BY <3>1, Zenon
    <3>5. Like(n5, s)
      BY <3>1, Zenon
    <3>6. Like(n7, s) /\ Like(n8, s) /\ Like(n9, s)
      BY <3>1, Zenon
    <3>7. QED
      BY <3>2, <3>3, <3>4, <3>5, <3>6
  <2>3. Like(n1, s) /\ Like(n6, s)
    BY Free, FieldsSet DEF Device_Set_Object_Instance_Number, Device_Set_Object_Name
  <2> HIDE DEF n1, n2, n3, n4, n5, n6, n7, n8, n9, r, s
  <2>4. QED
    BY <1>own, <2>1, <2>2, <2>3
<1>18. CASE k = "ANALOG_VALUE"
  <2> DEFINE n1 == [o EXCEPT !.Present_Value = Content(v)]
             n2 == [o EXCEPT !.Units = Shortened(v, Word)]
  <2>1. \/ r.object \in {o, n1, n2} \/ FlagTaken(r, o, w)
        \/ ReportedTaken(r, o, v, w.property)
    <3>1. r = Analog_Value_Write_Property(o, w)
      BY <1>18 DEF Device_Write_Property
    <3> HIDE DEF r
    <3>2. \/ Refused(r, o) \/ FlagTaken(r, o, w)
          \/ Taken(r, w, "PRESENT_VALUE", n1) \/ Taken(r, w, "UNITS", n2)
          \/ ReportedTaken(r, o, v, w.property)
      BY <3>1, AnalogValueWrites
    <3> HIDE DEF n1, n2
    <3>3. QED
      BY <3>2 DEF Refused, Taken
  <2>2. Like(n1, s) /\ Like(n2, s)
    BY Free, FieldSet
  <2>3. FlagTaken(r, o, w) => Like(r.object, s)
    BY FlagLike
  <2>4. ReportedTaken(r, o, v, w.property) => Like(r.object, s)
    BY ReportedLike
  <2> HIDE DEF n1, n2, r, s
  <2>5. QED
    BY <1>own, <2>1, <2>2, <2>3, <2>4
<1>19. CASE k = "ANALOG_INPUT"
  <2>1. \A n, x : Like(n, s) => Like(Analog_Input_COV_Detect(n, x), s)
    BY Free, FieldsSet DEF Analog_Input_COV_Detect
  <2>2. \A x : /\ Like([o EXCEPT !.Units = x], s)
               /\ Like(Analog_Input_COV_Increment_Set(o, x), s)
               /\ Like(Analog_Input_Present_Value_Set(o, x), s)
    BY <2>1, Free, FieldSet DEF Analog_Input_COV_Increment_Set, Analog_Input_Present_Value_Set
  <2>3. Tag(v) = "BOOLEAN" => Like(Analog_Input_Out_Of_Service_Set(o, Content(v)), s)
    <3>1. "Out_Of_Service" \notin ArrayFields
      BY DEF ArrayFields
    <3>2. QED
      BY <3>1, Free, FieldsSet DEF Analog_Input_Out_Of_Service_Set, FlagTyped, TypedRequest
  <2> DEFINE n1 == Analog_Input_Present_Value_Set(o, Content(v))
             n2 == Analog_Input_Out_Of_Service_Set(o, Content(v))
             n3 == [o EXCEPT !.Units = Shortened(v, Octet)]
             n4 == Analog_Input_COV_Increment_Set(o, Content(v))
  <2>4. \/ r.object \in {o, n1, n3, n4} \/ ReportedTaken(r, o, v, w.property)
        \/ Tag(v) = "BOOLEAN" /\ r.object = n2
    <3>1. r = Analog_Input_Write_Property(o, w)
      BY <1>19 DEF Device_Write_Property
    <3> HIDE DEF r
    <3>2. \/ Refused(r, o) \/ ReportedTaken(r, o, v, w.property)
          \/ Taken(r, w, "PRESENT_VALUE", n1)
          \/ Tag(v) = "BOOLEAN" /\ Taken(r, w, "OUT_OF_SERVICE", n2)
          \/ Taken(r, w, "UNITS", n3)
          \/ Taken(r, w, "COV_INCREMENT", n4)
      BY <3>1, AnalogInputWrites
    <3> HIDE DEF n1, n2, n3, n4
    <3>3. QED
      BY <3>2 DEF Refused, Taken
  <2>5. ReportedTaken(r, o, v, w.property) => Like(r.object, s)
    BY ReportedLike
  <2>6. Like(n1, s) /\ (Tag(v) = "BOOLEAN" => Like(n2, s)) /\ Like(n3, s) /\ Like(n4, s)
    BY <2>2, <2>3
  <2> HIDE DEF n1, n2, n3, n4, r, s
  <2>7. QED
    BY <1>own, <2>4, <2>5, <2>6
<1>20. QED
  BY <1>1, <1>2, <1>3, <1>4, <1>5, <1>6, <1>7, <1>8, <1>9, <1>10, <1>11, <1>12, <1>13,
     <1>14, <1>15, <1>16, <1>17, <1>18, <1>19 DEF Kinds

----------------------------------------------------------------------------
(* The objects of a device keep their shape.                               *)

(* Three fields that are no arrays may be written, too.                    *)
LEMMA ThreeSet ==
    ASSUME NEW o, NEW s, Like(o, s), NEW x, NEW y, NEW z
    PROVE  Like([o EXCEPT !.State = x, !.Expected_Shed_Level = y, !.Actual_Shed_Level = z], s)
<1> DEFINE m == [o EXCEPT !.State = x, !.Expected_Shed_Level = y]
           n == [m EXCEPT !.Actual_Shed_Level = z]
<1>1. Like(m, s)
  BY Free, FieldsSet
<1>2. Like(n, s)
  <2> HIDE DEF m
  <2>1. QED
    BY <1>1, Free, FieldSet
<1>3. n = [o EXCEPT !.State = x, !.Expected_Shed_Level = y, !.Actual_Shed_Level = z]
  OBVIOUS
<1>4. QED
  BY <1>2, <1>3

(* What the state machine of load control makes of a load and its output.  *)
Alike(r, s, t) == Like(r.load, s) /\ Like(r.output, t)

(* To shed leaves the shapes of a load and its output.                     *)
LEMMA SheddingLike ==
    ASSUME NEW o, NEW s, Like(o, s), NEW output, NEW t, Like(output, t)
    PROVE  Alike(Shedding(o, output), s, t) /\ Alike(NotShedding(o, output), s, t)
<1>1. \A v, p : Like(Analog_Output_Present_Value_Set(output, v, p), t)
  <2>1. \A p, x : Like([output EXCEPT !.Level[p] = x], t)
    BY PlaceSet DEF ArrayFields
  <2>2. QED
    BY <2>1 DEF Analog_Output_Present_Value_Set
<1>2. Alike(Shedding(o, output), s, t)
  <2>1. Like([o EXCEPT !.State = "SHED_COMPLIANT",
                       !.Expected_Shed_Level = o.Requested_Shed_Level,
                       !.Actual_Shed_Level = o.Requested_Shed_Level], s)
    BY ThreeSet
  <2>2. QED
    BY <1>1, <2>1 DEF Shedding, Alike
<1>3. Alike(NotShedding(o, output), s, t)
  <2> DEFINE default == Shed_Level_Default_Set(o.Requested_Shed_Level)
  <2>1. Like([o EXCEPT !.State = "SHED_NON_COMPLIANT", !.Expected_Shed_Level = default,
                       !.Actual_Shed_Level = default], s)
    BY ThreeSet
  <2>2. QED
    BY <2>1 DEF NotShedding, Alike
<1>4. QED
  BY <1>2, <1>3

(* So does what is noted before.                                           *)
LEMMA ExpectingLike ==
    ASSUME NEW o, NEW s, Like(o, s)
    PROVE  Like(Expecting(o), s)
  BY Free, FieldsSet DEF Expecting

(* So does the wait for the start of a request.                            *)
LEMMA PendingLike ==
    ASSUME NEW o, NEW s, Like(o, s), NEW output, NEW t, Like(output, t), NEW time
    PROVE  Alike(Pending(o, output, time), s, t)
<1> DEFINE seen == [o EXCEPT !.Request_Written = FALSE]
           started == [seen EXCEPT !.Start_Time_Written = FALSE]
           Cancel(new) == [load |-> [new EXCEPT !.State = "SHED_INACTIVE"], output |-> output]
<1>1. Like(seen, s)
  BY Free, FieldSet
<1>2. Like(started, s)
  <2> HIDE DEF seen
  <2>1. QED
    BY <1>1, Free, FieldSet
<1>3. \A n : Like(n, s) => Alike(Cancel(n), s, t)
  <2>1. \A n : Like(n, s) => Like([n EXCEPT !.State = "SHED_INACTIVE"], s)
    BY Free, FieldSet
  <2>2. QED
    BY <2>1 DEF Alike
<1>4. Pending(o, output, time) \in
        {Cancel(seen), Cancel(started), [load |-> Expecting(started), output |-> output],
         [load |-> started, output |-> output], Shedding(started, output),
         NotShedding(started, output)}
  BY DEF Pending
<1> HIDE DEF seen, started, Cancel
<1>5. Alike(Cancel(seen), s, t) /\ Alike(Cancel(started), s, t)
  BY <1>1, <1>2, <1>3
<1>6. /\ Alike([load |-> Expecting(started), output |-> output], s, t)
      /\ Alike([load |-> started, output |-> output], s, t)
  BY <1>2, ExpectingLike DEF Alike
<1>7. Alike(Shedding(started, output), s, t) /\ Alike(NotShedding(started, output), s, t)
  BY <1>2, SheddingLike
<1>8. QED
  BY <1>4, <1>5, <1>6, <1>7

(* So does every state of the state machine of load control.               *)
LEMMA LoadLike ==
    ASSUME NEW o, NEW s, Like(o, s), NEW output, NEW t, Like(output, t), NEW time
    PROVE  Alike(Load_Control_State_Machine(o, output, time), s, t)
<1> DEFINE To(state) == [load |-> [o EXCEPT !.State = state], output |-> output]
           over == [load |-> [o EXCEPT !.State = "SHED_INACTIVE", !.Start_Time = Wildcard],
                    output |-> [output EXCEPT !.Level[LOAD_PRIORITY] = Null]]
           asked == [load |-> [Expecting(o) EXCEPT !.State = "SHED_REQUEST_PENDING"],
                     output |-> output]
<1>1. \/ \E state : Load_Control_State_Machine(o, output, time) = To(state)
      \/ Load_Control_State_Machine(o, output, time) \in
            {over, asked, Pending(o, output, time), Shedding(o, output),
             NotShedding(o, output)}
  BY DEF Load_Control_State_Machine
<1>2. \A state : Alike(To(state), s, t)
  <2>1. \A state : Like([o EXCEPT !.State = state], s)
    BY Free, FieldSet
  <2>2. QED
    BY <2>1 DEF Alike
<1>3. Alike(over, s, t)
  <2>1. Like([o EXCEPT !.State = "SHED_INACTIVE", !.Start_Time = Wildcard], s)
    BY Free, FieldsSet
  <2>2. Like([output EXCEPT !.Level[LOAD_PRIORITY] = Null], t)
    BY PlaceSet DEF ArrayFields
  <2>3. QED
    BY <2>1, <2>2 DEF Alike
<1>4. Alike(asked, s, t)
  <2>1. Like([Expecting(o) EXCEPT !.State = "SHED_REQUEST_PENDING"], s)
    BY ExpectingLike, Free, FieldSet
  <2>2. QED
    BY <2>1 DEF Alike
<1> HIDE DEF To, over, asked
<1>5. QED
  BY <1>1, <1>2, <1>3, <1>4, PendingLike, SheddingLike

(* Every object of the device has the shape that it had at the start.      *)
Shapely ==
    /\ DOMAIN device \subseteq Kinds /\ IsRecord(device, DOMAIN device)
    /\ DOMAIN device \in Groups
    /\ \A k \in DOMAIN device : Like(device[k], SetUp(k))

(* At the start every object has its shape.                                *)
LEMMA ShapelyInit == Init => Shapely
<1> SUFFICES ASSUME Init PROVE Shapely
  OBVIOUS
<1>1. PICK g \in Groups : device = [k \in g |-> SetUp(k)]
  BY DEF Init
<1>2. g \subseteq Kinds
  BY ObjectsConstants
<1>3. \A k \in g : Like(SetUp(k), SetUp(k))
  BY <1>2, InitLike
<1>4. QED
  BY <1>1, <1>2, <1>3 DEF Shapely, IsRecord

(* A step that leaves the shape of one object and every other object       *)
(* leaves all shapes.                                                      *)
LEMMA OneReshaped ==
    ASSUME Shapely, NEW k \in DOMAIN device, NEW n, Like(n, SetUp(k)),
           device' = [device EXCEPT ![k] = n]
    PROVE  Shapely'
<1>1. DOMAIN device' = DOMAIN device /\ IsRecord(device', DOMAIN device')
  BY DEF Shapely, IsRecord
<1>2. \A j \in DOMAIN device : device'[j] = IF j = k THEN n ELSE device[j]
  BY DEF Shapely, IsRecord
<1>3. \A j \in DOMAIN device' : Like(device'[j], SetUp(j))
  BY <1>1, <1>2 DEF Shapely
<1>4. QED
  BY <1>1, <1>3 DEF Shapely

(* Writes leave the shapes.                                                *)
LEMMA WritePropertyShapely == Shapely /\ WriteProperty => Shapely'
<1> SUFFICES ASSUME Shapely, WriteProperty PROVE Shapely'
  OBVIOUS
<1>1. PICK k \in DOMAIN device : \E w \in Requests(k) :
        device' = [device EXCEPT ![k] = Device_Write_Property(k, @, w).object]
  BY DEF WriteProperty
<1>2. PICK w \in Requests(k) :
        device' = [device EXCEPT ![k] = Device_Write_Property(k, device[k], w).object]
  BY <1>1
<1>3. k \in Kinds /\ Like(device[k], SetUp(k))
  BY DEF Shapely
<1>4. Like(Device_Write_Property(k, device[k], w).object, SetUp(k))
  BY <1>3, FlagsRequested, WrittenLike
<1>5. QED
  BY <1>2, <1>4, OneReshaped

(* Sensors leave the shapes.                                               *)
LEMMA MeasureShapely == Shapely /\ Measure => Shapely'
<1> SUFFICES ASSUME Shapely, Measure PROVE Shapely'
  OBVIOUS
<1> DEFINE o == device["ANALOG_INPUT"]
<1>1. PICK v \in {0, 6} :
        device' = [device EXCEPT !["ANALOG_INPUT"] = [o EXCEPT !.Measured = v]]
  BY DEF Measure
<1>2. "ANALOG_INPUT" \in DOMAIN device
  BY DEF Measure
<1>3. Like(o, SetUp("ANALOG_INPUT"))
  BY <1>2 DEF Shapely
<1> HIDE DEF o
<1>4. Like([o EXCEPT !.Measured = v], SetUp("ANALOG_INPUT"))
  BY <1>3, Free, FieldSet
<1>5. QED
  BY <1>1, <1>2, <1>4, OneReshaped

(* What acknowledgements and alarms change of an object is no array.       *)
LEMMA AlarmsLike ==
    ASSUME NEW k \in {"ANALOG_INPUT", "ANALOG_VALUE"}, NEW o, Like(o, SetUp(k)),
           NEW n, IsRecord(n, AlarmKindFields(k)),
           \A f \in AlarmKindFields(k) \ AlarmFields : n[f] = o[f]
    PROVE  Like(n, SetUp(k))
<1> DEFINE s == SetUp(k)
           F == AlarmKindFields(k)
<1>1. DOMAIN s = F /\ ArrayFields \cap F = {} /\ "Out_Of_Service" \in F \ AlarmFields
  BY AlarmShape
     DEF Shaped, IsRecord, AlarmKindFields, InputFields, ValueFields, AlarmFields, ArrayFields
<1>2. n.Out_Of_Service = o.Out_Of_Service
  BY <1>1
<1> HIDE DEF s, F
<1>3. QED
  BY <1>1, <1>2 DEF Like, s, F

(* Acknowledgements leave the shapes.                                      *)
LEMMA AcknowledgeShapely == DeviceInv /\ Shapely /\ AcknowledgeAlarm => Shapely'
<1> SUFFICES ASSUME DeviceInv, Shapely, AcknowledgeAlarm PROVE Shapely'
  OBVIOUS
<1>1. PICK k \in DOMAIN device \cap {"ANALOG_INPUT", "ANALOG_VALUE"},
           a \in Acknowledgements :
        device' = [device EXCEPT ![k] = Alarm_Ack(k, a).object]
  BY DEF AcknowledgeAlarm
<1> DEFINE F == AlarmKindFields(k)
           n == Alarm_Ack(k, a).object
<1>2. ObjectOK(k, device[k], now)
  BY DEF DeviceInv
<1>3. AlarmFields \subseteq F /\ IsRecord(device[k], F) /\ AlarmsOK(device[k], now)
  BY <1>2, AlarmObject DEF AlarmKindFields
<1>4. \E looked : n = Acknowledge(device[k], a, looked).object
  BY DEF Alarm_Ack, Analog_Input_Alarm_Ack, Analog_Value_Alarm_Ack
<1> HIDE DEF F, n
<1>5. IsRecord(n, F) /\ \A f \in F \ AlarmFields : n[f] = device[k][f]
  BY <1>3, <1>4, AcknowledgeKeeps
<1>6. Like(device[k], SetUp(k))
  BY DEF Shapely
<1>7. Like(n, SetUp(k))
  BY <1>5, <1>6, AlarmsLike DEF F
<1>8. QED
  BY <1>1, <1>7, OneReshaped DEF n

(* The timers of alarms leave the shape of an object.                      *)
LEMMA AlarmedLike ==
    ASSUME DeviceInv, Shapely, now' = now + 1,
           NEW k \in DOMAIN device \cap {"ANALOG_INPUT", "ANALOG_VALUE"}, NEW garbage
    PROVE  Like(Alarmed(k, garbage).object, SetUp(k))
<1> DEFINE F == AlarmKindFields(k)
           o == device[k]
           n == Alarmed(k, garbage).object
<1>1. now \in Nat /\ ObjectOK(k, o, now)
  BY DEF DeviceInv
<1>2. AlarmFields \subseteq F /\ IsRecord(o, F) /\ AlarmsOK(o, now)
  BY <1>1, AlarmObject DEF AlarmKindFields
<1>3. \E value : n = Intrinsic_Reporting(o, value, Classes, now + 1, Found, garbage).object
  BY DEF Alarmed, Analog_Input_Intrinsic_Reporting, Analog_Value_Intrinsic_Reporting
<1>4. Like(o, SetUp(k))
  BY DEF Shapely
<1> HIDE DEF F, n, o
<1>5. IsRecord(n, F) /\ \A f \in F \ AlarmFields : n[f] = o[f]
  BY <1>1, <1>2, <1>3, ReportingKeeps
<1>6. Like(n, SetUp(k))
  BY <1>4, <1>5, AlarmsLike DEF F
<1>7. QED
  BY <1>6 DEF n

(* Timers leave the shapes.                                                *)
LEMMA TimersShapely == DeviceInv /\ Shapely /\ Timers => Shapely'
<1> SUFFICES ASSUME DeviceInv, Shapely, Timers PROVE Shapely'
  OBVIOUS
<1>1. now' = now + 1
  BY DEF Timers
<1> DEFINE alarms == DOMAIN device \cap {"ANALOG_INPUT", "ANALOG_VALUE"}
           controls == {"LOAD_CONTROL", "ANALOG_OUTPUT"}
<1>2. DOMAIN device' = DOMAIN device /\ IsRecord(device', DOMAIN device')
  BY DEF Timers, IsRecord
<1>3. ASSUME NEW k \in DOMAIN device
      PROVE  Like(device'[k], SetUp(k))
  <2>1. CASE k \in alarms
    <3>1. PICK garbage \in BOOLEAN : device'[k] = Alarmed(k, garbage).object
      BY <2>1 DEF Timers
    <3>2. QED
      BY <1>1, <2>1, <3>1, AlarmedLike
  <2>2. CASE k \in controls /\ controls \subseteq DOMAIN device
    <3> DEFINE r == Load_Control_State_Machine(device["LOAD_CONTROL"],
                                               device["ANALOG_OUTPUT"], now')
    <3>1. /\ device'["LOAD_CONTROL"] = r.load /\ device'["ANALOG_OUTPUT"] = r.output
      BY <2>2 DEF Timers
    <3>2. /\ Like(device["LOAD_CONTROL"], SetUp("LOAD_CONTROL"))
          /\ Like(device["ANALOG_OUTPUT"], SetUp("ANALOG_OUTPUT"))
      BY <2>2 DEF Shapely
    <3>3. Alike(r, SetUp("LOAD_CONTROL"), SetUp("ANALOG_OUTPUT"))
      BY <3>2, LoadLike
    <3> HIDE DEF r
    <3>4. QED
      BY <2>2, <3>1, <3>3 DEF Alike
  <2>3. CASE k \notin alarms /\ ~(k \in controls /\ controls \subseteq DOMAIN device)
    <3>1. device'[k] = device[k]
      BY <2>3 DEF Timers
    <3>2. QED
      BY <3>1 DEF Shapely
  <2>4. QED
    BY <2>1, <2>2, <2>3
<1>4. QED
  BY <1>2, <1>3 DEF Shapely

(* Every step leaves the shapes.                                           *)
LEMMA ShapelyNext == DeviceInv /\ Shapely /\ [Next]_vars => Shapely'
<1> SUFFICES ASSUME DeviceInv, Shapely, [Next]_vars PROVE Shapely'
  OBVIOUS
<1>1. CASE UNCHANGED vars
  BY <1>1 DEF vars, Shapely
<1>2. QED
  BY <1>1, WritePropertyShapely, MeasureShapely, TimersShapely, AcknowledgeShapely DEF Next

(* Whatever is written, measured, acknowledged and timed: an object has    *)
(* the fields and the arrays that it was made with.                        *)
LEMMA ObjectsStayShapely == Spec => []Shapely
<1>1. Spec => []DeviceInv
  BY ObjectsStayWhole
<1>2. QED
  BY <1>1, ShapelyInit, ShapelyNext, PTL DEF Spec

----------------------------------------------------------------------------
(* Every object answers.                                                   *)

(* How many places the arrays of an object have.                           *)
Places(k) ==
    CASE k \in WithPriorities -> BACNET_MAX_PRIORITY
      [] k \in {"MULTI_STATE_INPUT", "MULTI_STATE_VALUE"} -> MULTISTATE_NUMBER_OF_STATES
      [] k = "LOAD_CONTROL" -> Len(SHED_LEVELS)
      [] k = "SCHEDULE" -> 7
      [] k \in {"ANALOG_INPUT", "ANALOG_VALUE", "NOTIFICATION_CLASS"} -> 3
      [] OTHER -> 0

(* A reply has room for every array, and the index that asks for all of an *)
(* array is none of its places.                                            *)
ArraysFit ==
    \A g \in Groups : \A k \in g :
        /\ Places(k) <= MAX_APDU_ELEMENTS /\ Places(k) < BACNET_ARRAY_ALL
        /\ k = "DEVICE" => Fits(Device_Object_List)

(* What is shown when nothing is commanded.                                *)
Default(k) ==
    CASE k \in {"BINARY_OUTPUT", "BINARY_VALUE"} -> Enumerated(0)
      [] k = "MULTI_STATE_OUTPUT" -> Unsigned(1)
      [] OTHER -> Real(0)

(* Objects that show their flag in the flags of status.                    *)
WithFlags == Kinds \ {"DEVICE", "FILE", "NOTIFICATION_CLASS", "LOAD_CONTROL",
                      "LIFE_SAFETY_POINT", "SCHEDULE"}

(* An object is in alarm.                                                  *)
InAlarm(k, o) == k \in {"ANALOG_INPUT", "ANALOG_VALUE"} /\ o.Event_State # "NORMAL"

(* The arrays of one object.                                               *)
Roomy(k) == /\ Places(k) <= MAX_APDU_ELEMENTS /\ Places(k) < BACNET_ARRAY_ALL
            /\ k = "DEVICE" => Fits(Device_Object_List)

(* The priorities of an object fit into a reply, and none of them is the   *)
(* index that means all of them.                                           *)
LEMMA LevelsFit ==
    ASSUME NEW k \in WithPriorities, Roomy(k), NEW o, Like(o, SetUp(k))
    PROVE  /\ Fits(o.Level) /\ IsRecord(o.Level, Priorities)
           /\ BACNET_ARRAY_ALL # 0 /\ BACNET_ARRAY_ALL \notin Priorities
           /\ o.Out_Of_Service \in BOOLEAN
<1>1. PICK fields : /\ {"Level", "Out_Of_Service"} \subseteq fields
                    /\ Shaped(k, fields, "Level", Priorities)
  BY PriorityShape
<1>2. IsRecord(o.Level, Priorities) /\ o.Out_Of_Service \in BOOLEAN
  BY <1>1, LikeShaped DEF ArrayFields
<1>3. BACNET_MAX_PRIORITY \in Nat \ {0} /\ BACNET_ARRAY_ALL \in Nat
  BY PropertiesConstants
<1>4. BACNET_MAX_PRIORITY <= MAX_APDU_ELEMENTS /\ BACNET_MAX_PRIORITY < BACNET_ARRAY_ALL
  BY DEF Roomy, Places, WithPriorities
<1>5. Fits(o.Level)
  BY <1>2, <1>3, <1>4, PlacesFit DEF Priorities
<1>6. QED
  BY <1>2, <1>3, <1>4, <1>5 DEF Priorities

(* An array with the places of its object fits into a reply.               *)
LEMMA ArrayFits ==
    ASSUME NEW k, Roomy(k), NEW o, Like(o, SetUp(k)), NEW fields, NEW array \in ArrayFields,
           array \in fields, NEW n \in Nat, Shaped(k, fields, array, 1 .. n), Places(k) = n
    PROVE  Fits(o[array])
<1>1. IsRecord(o[array], 1 .. n)
  BY LikeShaped
<1>2. QED
  BY <1>1, PlacesFit DEF Roomy

(* What an object answers, of what the properties look at.                 *)
Answered(k, o) ==
    /\ Answering(k, o)
    /\ k \in WithPriorities =>
        Commanded(k, o, Default(k)) /\ IsRecord(o.Level, Priorities)
    /\ k \in WithFlags =>
        /\ Flagged(k, o, InAlarm(k, o)) /\ o.Out_Of_Service \in BOOLEAN
        /\ Shows(k, o, "OUT_OF_SERVICE", Boolean(o.Out_Of_Service))
    /\ k \in {"ANALOG_INPUT", "ANALOG_VALUE"} =>
        Shows(k, o, "EVENT_STATE", Enumerated(o.Event_State))

(* Objects with priorities answer.                                         *)
LEMMA CommandsAnswered ==
    ASSUME NEW k \in WithPriorities, Roomy(k), NEW o, Like(o, SetUp(k))
    PROVE  Answered(k, o)
<1>1. /\ Fits(o.Level) /\ IsRecord(o.Level, Priorities)
      /\ BACNET_ARRAY_ALL # 0 /\ BACNET_ARRAY_ALL \notin Priorities
      /\ o.Out_Of_Service \in BOOLEAN
  BY LevelsFit
<1>2. Commanded(k, o, Default(k)) /\ Flagged(k, o, FALSE)
  BY <1>1, AnalogOutputReads, BinaryOutputReads, BinaryValueReads, MultistateOutputReads,
     LightingOutputReads DEF WithPriorities, Default
<1>3. InAlarm(k, o) = FALSE /\ k \notin {"ANALOG_INPUT", "ANALOG_VALUE"}
  BY DEF InAlarm, WithPriorities
<1>4. QED
  BY <1>1, <1>2, <1>3 DEF Answered, Commanded

(* Objects with alarms answer.                                             *)
LEMMA AlarmsAnswered ==
    ASSUME NEW k \in {"ANALOG_INPUT", "ANALOG_VALUE"}, Roomy(k), NEW o, Like(o, SetUp(k))
    PROVE  Answered(k, o)
<1>1. IsRecord(Stamps(o), 1 .. 3)
  BY DEF Stamps, IsRecord
<1>2. 3 <= MAX_APDU_ELEMENTS /\ 3 < BACNET_ARRAY_ALL
  BY DEF Roomy, Places, WithPriorities
<1>3. Fits(Stamps(o))
  BY <1>1, <1>2, PlacesFit
<1>4. o.Out_Of_Service \in BOOLEAN
  <2>1. "Out_Of_Service" \in AlarmKindFields(k) /\ "Level" \in ArrayFields
    BY DEF AlarmKindFields, InputFields, ValueFields, AlarmFields, ArrayFields
  <2>2. QED
    BY <2>1, AlarmShape, LikeShaped
<1>5. /\ Answering(k, o) /\ Shows(k, o, "OUT_OF_SERVICE", Boolean(o.Out_Of_Service))
      /\ Shows(k, o, "EVENT_STATE", Enumerated(o.Event_State))
      /\ Flagged(k, o, o.Event_State # "NORMAL")
  <2>1. CASE k = "ANALOG_INPUT"
    BY <1>3, <2>1, AnalogInputReads
  <2>2. CASE k = "ANALOG_VALUE"
    BY <1>3, <2>2, AnalogValueReads
  <2>3. QED
    BY <2>1, <2>2
<1>6. InAlarm(k, o) = (o.Event_State # "NORMAL") /\ k \notin WithPriorities
  BY DEF InAlarm, WithPriorities
<1>7. QED
  BY <1>4, <1>5, <1>6 DEF Answered

(* Objects with a value of their own answer.                               *)
LEMMA ValuesAnswered ==
    ASSUME NEW k \in WithValue, Roomy(k), NEW o, Like(o, SetUp(k))
    PROVE  Answered(k, o)
<1>1. o.Out_Of_Service \in BOOLEAN
  BY ValueShape, LikeShaped DEF ArrayFields
<1>2. k = "MULTI_STATE_VALUE" => /\ MULTISTATE_NUMBER_OF_STATES <= MAX_APDU_ELEMENTS
                                 /\ MULTISTATE_NUMBER_OF_STATES < BACNET_ARRAY_ALL
  BY DEF Roomy, Places, WithPriorities
<1>3. /\ Answering(k, o) /\ Shows(k, o, "OUT_OF_SERVICE", Boolean(o.Out_Of_Service))
      /\ Flagged(k, o, FALSE)
  BY <1>2, CharacterStringReads, OctetStringReads, PositiveIntegerReads, MultistateValueReads
     DEF WithValue
<1>4. InAlarm(k, o) = FALSE /\ k \notin {"ANALOG_INPUT", "ANALOG_VALUE"}
      /\ k \notin WithPriorities
  BY DEF InAlarm, WithPriorities, WithValue
<1>5. QED
  BY <1>1, <1>3, <1>4 DEF Answered

(* All other objects answer.                                               *)
LEMMA OthersAnswered ==
    ASSUME NEW k \in {"BINARY_INPUT", "DEVICE", "FILE", "LIFE_SAFETY_POINT", "LOAD_CONTROL",
                      "MULTI_STATE_INPUT", "NOTIFICATION_CLASS", "SCHEDULE"},
           Roomy(k), NEW o, Like(o, SetUp(k))
    PROVE  Answered(k, o)
<1>1. InAlarm(k, o) = FALSE /\ k \notin {"ANALOG_INPUT", "ANALOG_VALUE"}
      /\ k \notin WithPriorities
  BY DEF InAlarm, WithPriorities
<1>2. CASE k \in {"BINARY_INPUT", "MULTI_STATE_INPUT"}
  <2>1. o.Out_Of_Service \in BOOLEAN
    BY <1>2, OtherShapes, LikeShaped DEF ArrayFields
  <2>2. k = "MULTI_STATE_INPUT" => Fits(o.State_Text)
    <3>1. MULTISTATE_NUMBER_OF_STATES \in Nat
      BY PointsConstants
    <3>2. Shaped("MULTI_STATE_INPUT", {"Present_Value", "Out_Of_Service", "Object_Name",
                                       "Object_Description", "State_Text"},
                 "State_Text", 1 .. MULTISTATE_NUMBER_OF_STATES)
      BY OtherShapes DEF States
    <3>3. k = "MULTI_STATE_INPUT" => Places(k) = MULTISTATE_NUMBER_OF_STATES
      BY DEF Places, WithPriorities
    <3>4. QED
      BY <3>1, <3>2, <3>3, ArrayFits DEF ArrayFields
  <2>3. /\ Answering(k, o) /\ Shows(k, o, "OUT_OF_SERVICE", Boolean(o.Out_Of_Service))
        /\ Flagged(k, o, FALSE)
    BY <1>2, <2>2, BinaryInputReads, MultistateInputReads
  <2>4. QED
    BY <1>1, <2>1, <2>3 DEF Answered
<1>3. CASE k \notin {"BINARY_INPUT", "MULTI_STATE_INPUT"}
  <2>1. k = "LOAD_CONTROL" =>
            /\ Fits(o.Shed_Levels)
            /\ Len(SHED_LEVELS) <= MAX_APDU_ELEMENTS /\ Len(SHED_LEVELS) < BACNET_ARRAY_ALL
    <3>1. Len(SHED_LEVELS) \in Nat /\ DOMAIN SHED_LEVELS = 1 .. Len(SHED_LEVELS)
      BY ControlsConstants, LenProperties
    <3>2. Shaped("LOAD_CONTROL", LoadFields, "Shed_Levels", 1 .. Len(SHED_LEVELS))
      BY <3>1, OtherShapes
    <3>3. k = "LOAD_CONTROL" => Places(k) = Len(SHED_LEVELS)
      BY DEF Places, WithPriorities
    <3>4. QED
      BY <3>1, <3>2, <3>3, ArrayFits DEF ArrayFields, LoadFields, Roomy
  <2>2. k = "SCHEDULE" => Fits(o.Weekly_Schedule)
    <3>1. k = "SCHEDULE" => Places(k) = 7
      BY DEF Places, WithPriorities
    <3>2. QED
      BY <3>1, OtherShapes, ArrayFits DEF ArrayFields
  <2>3. k = "NOTIFICATION_CLASS" => Fits(o.Priority)
    <3>1. k = "NOTIFICATION_CLASS" => Places(k) = 3
      BY DEF Places, WithPriorities
    <3>2. QED
      BY <3>1, OtherShapes, ArrayFits DEF ArrayFields
  <2>4. k = "DEVICE" => Fits(Device_Object_List)
    BY DEF Roomy
  <2>5. Answering(k, o)
    BY <1>3, <2>1, <2>2, <2>3, <2>4, DeviceReads, FileReads, LifeSafetyPointReads,
       LoadControlReads, NotificationClassReads, ScheduleReads
  <2>6. k \notin WithFlags
    BY <1>3 DEF WithFlags
  <2>7. QED
    BY <1>1, <2>5, <2>6 DEF Answered
<1>4. QED
  BY <1>2, <1>3

(* So every object of a shape answers.                                     *)
LEMMA EveryoneAnswers ==
    ASSUME NEW k \in Kinds, Roomy(k), NEW o, Like(o, SetUp(k))
    PROVE  Answered(k, o)
  BY CommandsAnswered, AlarmsAnswered, ValuesAnswered, OthersAnswered
     DEF Kinds, WithPriorities, WithValue

----------------------------------------------------------------------------
(* The ways to ask for a value agree.                                      *)

(* Who has priorities and flags lists them.                                *)
LEMMA PrioritiesListed ==
    ASSUME NEW k \in Kinds, "PRIORITY_ARRAY" \in Device_Objects_Property_List(k)
    PROVE  k \in WithPriorities
<1> SUFFICES ASSUME k \notin WithPriorities PROVE FALSE
  OBVIOUS
<1>1. CASE k \in {"ANALOG_INPUT", "ANALOG_VALUE", "BINARY_INPUT"}
  BY <1>1 DEF Device_Objects_Property_List, Analog_Input_Property_Lists,
     Analog_Value_Property_Lists, Binary_Input_Property_Lists, Common, Always, Base,
     Reported
<1>2. CASE k \in WithValue
  BY <1>2 DEF WithValue, Device_Objects_Property_List, CharacterString_Value_Property_Lists,
     OctetString_Value_Property_Lists, PositiveInteger_Value_Property_Lists,
     Multistate_Value_Property_Lists, Common, Always, Base
<1>3. CASE k \in {"DEVICE", "FILE", "NOTIFICATION_CLASS"}
  BY <1>3 DEF Device_Objects_Property_List, Device_Properties, Device_Properties_Required,
     Device_Properties_Optional, BACfile_Property_Lists, Notification_Class_Property_Lists,
     Common, Always, Base
<1>4. CASE k \in {"LIFE_SAFETY_POINT", "LOAD_CONTROL", "MULTI_STATE_INPUT", "SCHEDULE"}
  BY <1>4 DEF Device_Objects_Property_List, Life_Safety_Point_Property_Lists,
     Load_Control_Property_Lists, Multistate_Input_Property_Lists, Schedule_Property_Lists,
     Common, Always, Base
<1>5. QED
  BY <1>1, <1>2, <1>3, <1>4 DEF Kinds, WithPriorities, WithValue

(* Who lists the flag and the flags of status shows both.                  *)
LEMMA FlagsListed ==
    ASSUME NEW k \in Kinds, k \notin {"LIFE_SAFETY_POINT", "SCHEDULE"},
           "OUT_OF_SERVICE" \in Device_Objects_Property_List(k),
           "STATUS_FLAGS" \in Device_Objects_Property_List(k)
    PROVE  k \in WithFlags
<1> SUFFICES ASSUME k \in {"DEVICE", "FILE", "NOTIFICATION_CLASS", "LOAD_CONTROL"} PROVE FALSE
  BY DEF WithFlags
<1>1. CASE k = "DEVICE"
  BY <1>1 DEF Device_Objects_Property_List, Device_Properties, Device_Properties_Required,
     Device_Properties_Optional, Base
<1>2. CASE k = "FILE"
  BY <1>2 DEF Device_Objects_Property_List, BACfile_Property_Lists, Base
<1>3. CASE k = "NOTIFICATION_CLASS"
  BY <1>3 DEF Device_Objects_Property_List, Notification_Class_Property_Lists, Base
<1>4. CASE k = "LOAD_CONTROL"
  BY <1>4 DEF Device_Objects_Property_List, Load_Control_Property_Lists, Always, Base
<1>5. QED
  BY <1>1, <1>2, <1>3, <1>4

(* The present value is the command of the least number of a priority.     *)
LEMMA HighestIs ==
    ASSUME NEW level, NEW default
    PROVE  LET commanded == {p \in Priorities : level[p] # Null}
           IN  <<Highest(level, default)>> =
                    IF commanded = {} THEN <<default>> ELSE <<level[Min(commanded)]>>
<1> DEFINE commanded == {p \in Priorities : level[p] # Null}
           least == CHOOSE p \in commanded : \A q \in commanded : p <= q
<1>1. least = Min(commanded)
  BY Zenon DEF Min
<1>2. Highest(level, default) = IF commanded = {} THEN default ELSE level[least]
  BY Zenon DEF Highest
<1> HIDE DEF commanded, least
<1>3. <<Highest(level, default)>> =
        IF commanded = {} THEN <<default>> ELSE <<level[Min(commanded)]>>
  BY <1>1, <1>2
<1>4. QED
  BY <1>3 DEF commanded

(* The elements of an array are the array.                                 *)
LEMMA PlacesAgree ==
    ASSUME NEW k, NEW o, Answering(k, o), BACNET_ARRAY_ALL # 0, k # "FILE",
           NEW p, ~(k = "BINARY_VALUE" /\ p = "PRIORITY_ARRAY"), p # "EVENT_TIME_STAMPS",
           Device_Read_Property(k, o, p, 0).error = "none",
           NEW i \in 1 .. Content(Device_Read_Property(k, o, p, 0).values[1])
    PROVE  Device_Read_Property(k, o, p, i)
             = Answer(<<Device_Read_Property(k, o, p, BACNET_ARRAY_ALL).values[i]>>)
<1>1. PICK values, arrays : Answers(k, o, values, arrays)
  BY DEF Answering
<1>2. ASSUME k = "NOTIFICATION_CLASS", p = "RECIPIENT_LIST" PROVE FALSE
  <2>1. Device_Read_Property(k, o, p, 0) = Notification_Class_Read_Property(o, p, 0)
    BY <1>2 DEF Device_Read_Property
  <2>2. Notification_Class_Read_Property(o, p, 0).error # "none"
    BY <1>2 DEF Notification_Class_Read_Property, Reading, Error
  <2>3. QED
    BY <2>1, <2>2
<1>3. \A j : Device_Read_Property(k, o, p, j) = Reading(values, arrays, p, j)
  BY <1>1, <1>2 DEF Answers, Special
<1>4. \A q \in DOMAIN arrays : Fits(arrays[q])
  BY <1>1 DEF Answers
<1>5. QED
  BY <1>3, <1>4, ElementsAgree

(* The ways to ask one object agree.                                       *)
AgreedBy(k, o) ==
    LET Listed(p) == p \in Device_Objects_Property_List(k)
        At(p, i) == Device_Read_Property(k, o, p, i)
        ReadOf(p) == At(p, BACNET_ARRAY_ALL)
        levels == ReadOf("PRIORITY_ARRAY").values
        commanded == {p \in Priorities : levels[p] # Null}
        Shifted(p) == \/ k = "BINARY_VALUE" /\ p = "PRIORITY_ARRAY"
                      \/ p = "EVENT_TIME_STAMPS"
        flags == Content(ReadOf("STATUS_FLAGS").values[1])
    IN  /\ Listed("PRIORITY_ARRAY") =>
            ReadOf("PRESENT_VALUE").values =
                IF commanded = {} THEN ReadOf("RELINQUISH_DEFAULT").values
                ELSE <<levels[Min(commanded)]>>
        /\ \A p \in Device_Objects_Property_List(k) :
            At(p, 0).error = "none" /\ k # "FILE" =>
                \A i \in 1 .. Content(At(p, 0).values[1]) :
                    Shifted(p) \/ At(p, i) = Answer(<<ReadOf(p).values[i]>>)
        /\ Listed("OUT_OF_SERVICE") /\ Listed("STATUS_FLAGS") =>
            \/ k \in {"LIFE_SAFETY_POINT", "SCHEDULE"}
            \/ ("OUT_OF_SERVICE" \in flags)
                    = Content(ReadOf("OUT_OF_SERVICE").values[1])
        /\ k \in {"ANALOG_INPUT", "ANALOG_VALUE"} =>
            ("IN_ALARM" \in flags) = (ReadOf("EVENT_STATE").values # <<Enumerated("NORMAL")>>)

(* The ways to ask an object of a shape agree.                             *)
LEMMA ObjectAgrees ==
    ASSUME NEW k \in Kinds, Roomy(k), NEW o, Like(o, SetUp(k))
    PROVE  AgreedBy(k, o)
<1> DEFINE Listed(p) == p \in Device_Objects_Property_List(k)
           At(p, i) == Device_Read_Property(k, o, p, i)
           ReadOf(p) == At(p, BACNET_ARRAY_ALL)
           levels == ReadOf("PRIORITY_ARRAY").values
           commanded == {p \in Priorities : levels[p] # Null}
           Shifted(p) == \/ k = "BINARY_VALUE" /\ p = "PRIORITY_ARRAY"
                         \/ p = "EVENT_TIME_STAMPS"
           flags == Content(ReadOf("STATUS_FLAGS").values[1])
<1>0. \A x : Answer(x).values = x
  BY DEF Answer
<1>1. Answered(k, o)
  BY EveryoneAnswers
<1>2. Listed("PRIORITY_ARRAY") =>
        ReadOf("PRESENT_VALUE").values =
            IF commanded = {} THEN ReadOf("RELINQUISH_DEFAULT").values
            ELSE <<levels[Min(commanded)]>>
  <2> SUFFICES ASSUME Listed("PRIORITY_ARRAY")
               PROVE  ReadOf("PRESENT_VALUE").values =
                        IF commanded = {} THEN ReadOf("RELINQUISH_DEFAULT").values
                        ELSE <<levels[Min(commanded)]>>
    OBVIOUS
  <2>1. Commanded(k, o, Default(k))
    BY <1>1, PrioritiesListed DEF Answered
  <2>2. /\ ReadOf("PRESENT_VALUE").values = <<Highest(o.Level, Default(k))>>
        /\ ReadOf("RELINQUISH_DEFAULT").values = <<Default(k)>>
        /\ levels = o.Level
    BY <1>0, <2>1 DEF Commanded, Shows
  <2>3. commanded = {p \in Priorities : o.Level[p] # Null}
    BY <2>2
  <2>4. QED
    <3> HIDE DEF ReadOf, levels
    <3>1. <<Highest(o.Level, Default(k))>> =
             IF commanded = {} THEN <<Default(k)>> ELSE <<o.Level[Min(commanded)]>>
      BY <2>3, HighestIs
    <3> HIDE DEF commanded
    <3>2. QED
      BY <2>2, <3>1
<1>3. \A p \in Device_Objects_Property_List(k) :
        At(p, 0).error = "none" /\ k # "FILE" =>
            \A i \in 1 .. Content(At(p, 0).values[1]) :
                Shifted(p) \/ At(p, i) = Answer(<<ReadOf(p).values[i]>>)
  <2>1. BACNET_ARRAY_ALL # 0
    <3>1. Places(k) \in Nat
      BY PropertiesConstants, PointsConstants, ControlsConstants, LenProperties DEF Places
    <3>2. QED
      BY <3>1 DEF Roomy
  <2>2. QED
    BY <1>1, <2>1, PlacesAgree DEF Answered
<1>4. ASSUME k \in WithFlags
      PROVE  /\ ("OUT_OF_SERVICE" \in flags) = Content(ReadOf("OUT_OF_SERVICE").values[1])
             /\ ("IN_ALARM" \in flags) = InAlarm(k, o)
  <2>1. /\ ReadOf("STATUS_FLAGS") = Answer(<<Flags(InAlarm(k, o), o)>>)
        /\ ReadOf("OUT_OF_SERVICE") = Answer(<<Boolean(o.Out_Of_Service)>>)
        /\ o.Out_Of_Service \in BOOLEAN
    BY <1>1, <1>4 DEF Answered, Flagged, Shows
  <2>2. flags = Content(Flags(InAlarm(k, o), o))
    BY <1>0, <2>1
  <2>3. Content(ReadOf("OUT_OF_SERVICE").values[1]) = o.Out_Of_Service
    BY <1>0, <2>1 DEF Content, Boolean
  <2>4. flags = (IF InAlarm(k, o) THEN {"IN_ALARM"} ELSE {}) \cup
                (IF o.Out_Of_Service THEN {"OUT_OF_SERVICE"} ELSE {})
    BY <2>2 DEF Flags, Content, Bits
  <2> HIDE DEF flags, ReadOf
  <2>5. ("OUT_OF_SERVICE" \in flags) <=> o.Out_Of_Service
    BY <2>4
  <2>6. ("IN_ALARM" \in flags) <=> InAlarm(k, o)
    BY <2>4
  <2>7. InAlarm(k, o) \in BOOLEAN
    BY DEF InAlarm
  <2>8. QED
    BY <2>1, <2>3, <2>5, <2>6, <2>7
<1>5. Listed("OUT_OF_SERVICE") /\ Listed("STATUS_FLAGS") =>
        \/ k \in {"LIFE_SAFETY_POINT", "SCHEDULE"}
        \/ ("OUT_OF_SERVICE" \in flags) = Content(ReadOf("OUT_OF_SERVICE").values[1])
  BY <1>4, FlagsListed
<1>6. k \in {"ANALOG_INPUT", "ANALOG_VALUE"} =>
        ("IN_ALARM" \in flags) = (ReadOf("EVENT_STATE").values # <<Enumerated("NORMAL")>>)
  <2> SUFFICES ASSUME k \in {"ANALOG_INPUT", "ANALOG_VALUE"}
               PROVE  ("IN_ALARM" \in flags)
                        = (ReadOf("EVENT_STATE").values # <<Enumerated("NORMAL")>>)
    OBVIOUS
  <2>1. ReadOf("EVENT_STATE").values = <<Enumerated(o.Event_State)>>
    BY <1>0, <1>1 DEF Answered, Shows
  <2>2. (<<Enumerated(o.Event_State)>> # <<Enumerated("NORMAL")>>)
            = (o.Event_State # "NORMAL")
    BY DEF Enumerated
  <2>3. ("IN_ALARM" \in flags) = (o.Event_State # "NORMAL")
    BY <1>4 DEF WithFlags, Kinds, InAlarm
  <2> HIDE DEF flags, ReadOf
  <2>4. QED
    BY <2>1, <2>2, <2>3
<1> HIDE DEF At, Listed
<1>7. QED
  BY <1>2, <1>3, <1>5, <1>6 DEF AgreedBy, At, Listed

(* The present value is the command of the highest priority, the elements  *)
(* of an array are the array, and the flags of status say what the         *)
(* properties say, of every object, whatever clients have written and the  *)
(* timers have done (the Read_Property functions of demo/object).          *)
THEOREM ReadsAlwaysAgree == ASSUME ArraysFit PROVE Spec => []ReadsAgree
<1>1. Shapely => ReadsAgree
  <2> SUFFICES ASSUME Shapely, NEW k \in DOMAIN device PROVE AgreedBy(k, device[k])
    BY Zenon DEF ReadsAgree, AgreedBy, Read
  <2>1. k \in Kinds /\ Like(device[k], SetUp(k)) /\ Roomy(k)
    BY DEF Shapely, ArraysFit, Roomy
  <2>2. QED
    BY <2>1, ObjectAgrees
<1>2. QED
  BY <1>1, ObjectsStayShapely, PTL

----------------------------------------------------------------------------
(* What is acknowledged is read.                                           *)

(* The values that are written.                                            *)
LEMMA WrittenValues ==
    ASSUME NEW v \in Values
    PROVE  /\ Tag(v) = "BOOLEAN" => v = Boolean(Content(v)) /\ Content(v) \in BOOLEAN
           /\ Tag(v) = "REAL" => v = Real(Content(v)) /\ Content(v) \in {-1, 0, 60, 61, 201}
           /\ Tag(v) = "ENUMERATED" =>
                v = Enumerated(Content(v)) /\ Content(v) \in Enumerations
           /\ Tag(v) = "UNSIGNED_INT" =>
                v = Unsigned(Content(v)) /\ Content(v) \in Numbers
           /\ Tag(v) = "BIT_STRING" => v = Bits(Content(v))
           /\ Tag(v) = "DATETIME" => v = <<"DATETIME", Content(v)>>
           /\ Tag(v) = "NULL" => v = Null
           /\ Tag(v) = "CHARACTER_STRING" => Content(v) # "longer_than_32"
           /\ Tag(v) # "EMPTY"
<1> DEFINE Plain == {Null, <<"LARGE">>, <<"OCTET_STRING", "other">>, <<"DATETIME", 1>>,
                     <<"OBJECT_ID", "DEVICE", 2>>, <<"LIGHTING_COMMAND", "FADE">>,
                     Percent(20), Level(2), Amount(1), Bits({"HIGH"}), Bits({"WRONG_SIZE"})}
<1>1. CASE v \in {Real(n) : n \in {-1, 0, 60, 61, 201}}
  <2>1. PICK n \in {-1, 0, 60, 61, 201} : v = Real(n)
    BY <1>1
  <2>2. QED
    BY <2>1 DEF Tag, Content, Real
<1>2. CASE v \in {Enumerated(n) : n \in Enumerations}
  <2>1. PICK n \in Enumerations : v = Enumerated(n)
    BY <1>2
  <2>2. QED
    BY <2>1 DEF Tag, Content, Enumerated
<1>3. CASE v \in {Unsigned(n) : n \in Numbers}
  <2>1. PICK n \in Numbers : v = Unsigned(n)
    BY <1>3
  <2>2. QED
    BY <2>1 DEF Tag, Content, Unsigned
<1>4. CASE v \in {Boolean(b) : b \in BOOLEAN}
  <2>1. PICK b \in BOOLEAN : v = Boolean(b)
    BY <1>4
  <2>2. QED
    BY <2>1 DEF Tag, Content, Boolean
<1>5. CASE v \in {Text(s) : s \in {"", "other", "taken", "full", "long", "foreign"}}
  <2>1. PICK s \in {"", "other", "taken", "full", "long", "foreign"} : v = Text(s)
    BY <1>5
  <2>2. QED
    BY <2>1 DEF Tag, Content, Text
<1>6. CASE v \in Plain
  BY <1>6 DEF Tag, Content, Null, Percent, Level, Amount, Bits
<1>7. QED
  <2>1. Values = Plain \cup {Real(n) : n \in {-1, 0, 60, 61, 201}}
                       \cup {Enumerated(n) : n \in Enumerations}
                       \cup {Unsigned(n) : n \in Numbers}
                       \cup {Boolean(b) : b \in BOOLEAN}
                       \cup {Text(s) : s \in {"", "other", "taken", "full", "long", "foreign"}}
    BY DEF Values
  <2> HIDE DEF Plain
  <2>2. QED
    BY <1>1, <1>2, <1>3, <1>4, <1>5, <1>6, <2>1

(* A choice or number that is written survives the narrower field, unless  *)
(* it is too large for it.                                                 *)
LEMMA Narrowed ==
    ASSUME NEW v \in Values
    PROVE  /\ Tag(v) = "UNSIGNED_INT" =>
                /\ Content(v) >= Octet \/ Kept(v, Octet) = v
                /\ Content(v) >= Word \/ Kept(v, Word) = v
           /\ Tag(v) = "ENUMERATED" =>
                /\ Content(v) >= Octet \/ Shortened(v, Octet) = v
                /\ Content(v) >= Word \/ Shortened(v, Word) = v
<1> DEFINE c == Content(v)
<1>1. /\ Tag(v) = "UNSIGNED_INT" => v = Unsigned(c) /\ c \in Numbers
      /\ Tag(v) = "ENUMERATED" => v = Enumerated(c) /\ c \in Enumerations
  BY WrittenValues
<1>2. \A n \in Numbers \cup Enumerations :
        /\ n >= Octet \/ n % Octet = n
        /\ n >= Word \/ n % Word = n
  BY SMT DEF Numbers, Enumerations, Octet, Word
<1> HIDE DEF c
<1>3. QED
  BY <1>1, <1>2 DEF Kept, Shortened, c

(* A write of one value, of the highest priority.                          *)
Writes1(w) == w.values[1] \in Values /\ w.values = <<w.values[1]>>
              /\ w.priority = 1 /\ w.index = BACNET_ARRAY_ALL

(* The values that are written carry what their types say.                 *)
LEMMA WritesTyped == ASSUME NEW w, Writes1(w) PROVE TypedRequest(w)
  BY WrittenValues DEF TypedRequest, FlagTyped, Writes1

(* A write that is acknowledged is read, and one that is refused changes   *)
(* nothing.                                                                *)
Stays(k, o, w) ==
    LET r == Device_Write_Property(k, o, w)
    IN  IF r.reply = "ack"
        THEN Shows(k, r.object, w.property, w.values[1]) \/ NotKept(k, w.property, w.values[1])
        ELSE r.object = o \/ (k = "MULTI_STATE_INPUT" /\ w.property = "STATE_TEXT")

(* A write that is refused leaves what it found.                           *)
LEMMA RefusedStays ==
    ASSUME NEW k, NEW o, NEW w, Refused(Device_Write_Property(k, o, w), o)
    PROVE  Stays(k, o, w)
  BY DEF Stays, Refused

(* A write that is taken is read when its new object shows the value.      *)
LEMMA TakenStays ==
    ASSUME NEW k, NEW o, NEW w, NEW p, NEW n, Taken(Device_Write_Property(k, o, w), w, p, n),
           Shows(k, n, p, w.values[1]) \/ NotKept(k, p, w.values[1])
    PROVE  Stays(k, o, w)
  BY DEF Stays, Taken

(* The flag.                                                               *)
LEMMA FlagStays ==
    ASSUME NEW k, NEW o, NEW w, Writes1(w), FlagTaken(Device_Write_Property(k, o, w), o, w),
           "Out_Of_Service" \in DOMAIN o, Like(o, SetUp(k)),
           \A n : Like(n, SetUp(k)) => Shows(k, n, "OUT_OF_SERVICE", Boolean(n.Out_Of_Service))
    PROVE  Stays(k, o, w)
<1> DEFINE v == w.values[1]
           n == [o EXCEPT !.Out_Of_Service = Content(v)]
<1>1. Tag(v) = "BOOLEAN" /\ Taken(Device_Write_Property(k, o, w), w, "OUT_OF_SERVICE", n)
  BY DEF FlagTaken
<1>2. v = Boolean(Content(v)) /\ Content(v) \in BOOLEAN
  BY <1>1, WrittenValues DEF Writes1
<1>3. Like(n, SetUp(k))
  <2>1. "Out_Of_Service" \notin ArrayFields
    BY DEF ArrayFields
  <2>2. QED
    BY <1>2, <2>1, FieldSet
<1>4. n.Out_Of_Service = Content(v)
  OBVIOUS
<1> HIDE DEF n
<1>5. Shows(k, n, "OUT_OF_SERVICE", v)
  BY <1>2, <1>3, <1>4
<1>6. QED
  BY <1>1, <1>5, TakenStays

(* A command.                                                              *)
LEMMA HighestFirst ==
    ASSUME NEW level, IsRecord(level, Priorities), NEW kept, kept # Null, NEW default
    PROVE  Highest([level EXCEPT ![1] = kept], default) = kept
<1> DEFINE new == [level EXCEPT ![1] = kept]
           commanded == {p \in Priorities : new[p] # Null}
           least == CHOOSE p \in commanded : \A q \in commanded : p <= q
<1>1. BACNET_MAX_PRIORITY \in Nat \ {0}
  BY PropertiesConstants
<1>2. 1 \in Priorities /\ \A p \in Priorities : p \in Nat /\ 1 <= p
  BY <1>1 DEF Priorities
<1>3. new[1] = kept
  BY <1>2 DEF IsRecord
<1>4. Highest(new, default) = IF commanded = {} THEN default ELSE new[least]
  BY Zenon DEF Highest
<1>5. 1 \in commanded /\ commanded \in SUBSET Priorities
  BY <1>2, <1>3
<1>6. least \in commanded /\ \A q \in commanded : least <= q
  <2> HIDE DEF commanded
  <2>1. commanded # {}
    BY <1>5
  <2>2. QED
    BY <1>5, <2>1, LeastPriority
<1> HIDE DEF new, commanded, least
<1>7. least = 1
  BY <1>2, <1>5, <1>6
<1>8. Highest(new, default) = kept
  BY <1>3, <1>4, <1>5, <1>7
<1>9. QED
  BY <1>8 DEF new

(* A command of the highest priority is the present value.                 *)
LEMMA CommandStays ==
    ASSUME NEW k \in WithPriorities, Roomy(k), NEW o, Like(o, SetUp(k)), NEW w, Writes1(w),
           NEW tag, NEW kept,
           CommandTaken(Device_Write_Property(k, o, w), o, w, tag, kept),
           Tag(w.values[1]) = tag => kept # Null /\ kept = w.values[1]
    PROVE  Stays(k, o, w)
<1> DEFINE v == w.values[1]
           r == Device_Write_Property(k, o, w)
           n == [o EXCEPT !.Level[1] = kept]
<1>1. w.priority = 1 /\ v \in Values
  BY DEF Writes1
<1>2. CASE Tag(v) = "NULL" /\ Taken(r, w, "PRESENT_VALUE", [o EXCEPT !.Level[1] = Null])
  <2>1. NotKept(k, "PRESENT_VALUE", v)
    BY <1>1, <1>2, WrittenValues DEF NotKept
  <2> HIDE DEF r
  <2>2. QED
    BY <1>2, <2>1, TakenStays DEF r
<1>3. CASE Tag(v) = tag /\ Taken(r, w, "PRESENT_VALUE", n)
  <2>1. Like(n, SetUp(k))
    BY PlaceSet DEF ArrayFields
  <2>2. Shows(k, n, "PRESENT_VALUE", Highest(n.Level, Default(k)))
    <3> HIDE DEF n
    <3>1. Answered(k, n)
      BY <2>1, EveryoneAnswers DEF WithPriorities, Kinds
    <3>2. QED
      BY <3>1 DEF Answered, Commanded
  <2>3. IsRecord(o.Level, Priorities) /\ "Level" \in DOMAIN o
    <3>1. IsRecord(o.Level, Priorities)
      BY LevelsFit
    <3>2. PICK fields : /\ {"Level", "Out_Of_Service"} \subseteq fields
                        /\ Shaped(k, fields, "Level", Priorities)
      BY PriorityShape
    <3>3. IsRecord(o, fields)
      BY <3>2, LikeShaped DEF ArrayFields
    <3>4. QED
      BY <3>1, <3>2, <3>3 DEF IsRecord
  <2>4. n.Level = [o.Level EXCEPT ![1] = kept]
    BY <2>3
  <2>5. Highest(n.Level, Default(k)) = kept
    BY <1>3, <2>3, <2>4, HighestFirst
  <2> HIDE DEF n, r
  <2>6. Shows(k, n, "PRESENT_VALUE", v)
    BY <1>3, <2>2, <2>5
  <2>7. QED
    BY <1>3, <2>6, TakenStays DEF r
<1>4. QED
  BY <1>1, <1>2, <1>3 DEF CommandTaken

(* What a write leaves is like the object that it found.                   *)
LEMMA WriteLeavesLike ==
    ASSUME NEW k \in Kinds, NEW o, Like(o, SetUp(k)), NEW w, Writes1(w)
    PROVE  Like(Device_Write_Property(k, o, w).object, SetUp(k))
  BY WritesTyped, WrittenLike

(* The objects with priorities.                                            *)
LEMMA OutputFlagStays ==
    ASSUME NEW k \in WithPriorities, Roomy(k), NEW o, Like(o, SetUp(k)), NEW w, Writes1(w),
           FlagTaken(Device_Write_Property(k, o, w), o, w)
    PROVE  Stays(k, o, w)
<1>1. k \in Kinds /\ k \in WithFlags
  BY DEF WithPriorities, Kinds, WithFlags
<1>2. \A n : Like(n, SetUp(k)) => Shows(k, n, "OUT_OF_SERVICE", Boolean(n.Out_Of_Service))
  BY <1>1, EveryoneAnswers DEF Answered
<1>3. PICK fields : /\ {"Level", "Out_Of_Service"} \subseteq fields
                    /\ Shaped(k, fields, "Level", Priorities)
  BY PriorityShape
<1>4. IsRecord(o, fields)
  BY <1>3, LikeShaped DEF ArrayFields
<1>5. "Out_Of_Service" \in DOMAIN o
  BY <1>3, <1>4 DEF IsRecord
<1>6. QED
  BY <1>2, <1>5, FlagStays

(* What is written to an object with priorities is read.                   *)
LEMMA OutputStays ==
    ASSUME NEW k \in WithPriorities, Roomy(k), NEW o, Like(o, SetUp(k)), NEW w, Writes1(w)
    PROVE  Stays(k, o, w)
<1> DEFINE v == w.values[1]
           r == Device_Write_Property(k, o, w)
<1>1. v \in Values
  BY WrittenValues DEF Writes1
<1>2. /\ Tag(v) = "REAL" => v # Null
      /\ Tag(v) = "ENUMERATED" => v # Null
      /\ Tag(v) = "UNSIGNED_INT" => v # Null
  BY DEF Tag, Null
<1>3. Refused(r, o) => Stays(k, o, w)
  BY RefusedStays
<1>4. FlagTaken(r, o, w) => Stays(k, o, w)
  BY OutputFlagStays
<1>5. \A tag \in {"REAL", "ENUMERATED", "UNSIGNED_INT"} :
        CommandTaken(r, o, w, tag, v) => Stays(k, o, w)
  BY <1>2, CommandStays
<1>6. CASE k = "BINARY_VALUE"
  <2>1. Refused(r, o) \/ FlagTaken(r, o, w) \/ CommandTaken(r, o, w, "ENUMERATED", v)
    BY <1>6, BinaryValueWrites DEF Device_Write_Property
  <2>2. QED
    BY <1>3, <1>4, <1>5, <2>1
<1>7. CASE k = "BINARY_OUTPUT"
  <2>1. Refused(r, o) \/ FlagTaken(r, o, w) \/ CommandTaken(r, o, w, "ENUMERATED", v)
    BY <1>7, BinaryOutputWrites DEF Device_Write_Property
  <2>2. QED
    BY <1>3, <1>4, <1>5, <2>1
<1>8. CASE k = "MULTI_STATE_OUTPUT"
  <2>1. Refused(r, o) \/ FlagTaken(r, o, w) \/ CommandTaken(r, o, w, "UNSIGNED_INT", v)
    BY <1>8, MultistateOutputWrites DEF Device_Write_Property
  <2>2. QED
    BY <1>3, <1>4, <1>5, <2>1
<1>9. CASE k = "ANALOG_OUTPUT"
  <2> DEFINE kept == Real(Whole(Content(v)))
  <2>1. \/ Refused(r, o) \/ FlagTaken(r, o, w)
        \/ CommandTaken(r, o, w, "REAL", kept) /\ (Tag(v) = "REAL" => Content(v) \in 0 .. 200)
    BY <1>9, AnalogOutputWrites DEF Device_Write_Property
  <2>2. Tag(v) = "REAL" /\ Content(v) \in 0 .. 200 => kept = v \/ v = Real(61)
    <3>1. Whole(0) = 0 /\ Whole(60) = 60
      BY DEF Whole
    <3>2. Tag(v) = "REAL" => v = Real(Content(v)) /\ Content(v) \in {-1, 0, 60, 61, 201}
      BY <1>1, WrittenValues
    <3>3. QED
      BY <3>1, <3>2
  <2> HIDE DEF kept
  <2>3. CommandTaken(r, o, w, "REAL", kept) /\ (Tag(v) = "REAL" => kept = v)
            => Stays(k, o, w)
    BY <1>2, CommandStays
  <2>4. CommandTaken(r, o, w, "REAL", kept) /\ v = Real(61) => Stays(k, o, w)
    <3>1. v = Real(61) => NotKept(k, "PRESENT_VALUE", v)
      BY <1>9 DEF NotKept
    <3>2. CommandTaken(r, o, w, "REAL", kept) =>
            \E n : Taken(r, w, "PRESENT_VALUE", n)
      <4> HIDE DEF r
      <4>1. QED
        BY DEF CommandTaken
    <3> HIDE DEF v
    <3>3. QED
      BY <3>1, <3>2, TakenStays DEF v
  <2> HIDE DEF v, r
  <2>5. QED
    BY <1>3, <1>4, <2>1, <2>2, <2>3, <2>4
<1>10. CASE k = "LIGHTING_OUTPUT"
  <2> DEFINE lit == [o EXCEPT !.Lighting_Command = v]
  <2>1. \/ Refused(r, o) \/ FlagTaken(r, o, w) \/ CommandTaken(r, o, w, "REAL", v)
        \/ Taken(r, w, "LIGHTING_COMMAND", lit)
    BY <1>10, LightingOutputWrites DEF Device_Write_Property
  <2>2. CASE Taken(r, w, "LIGHTING_COMMAND", lit)
    <3>1. Like(lit, SetUp(k))
      BY <2>2, WriteLeavesLike DEF Taken, WithPriorities, Kinds
    <3>2. Shows(k, lit, "LIGHTING_COMMAND", lit.Lighting_Command)
      <4> HIDE DEF lit
      <4>1. QED
        BY <1>10, <3>1, LevelsFit, LightingOutputReads
    <3>3. "Lighting_Command" \in DOMAIN o
      <4>1. PICK fields : /\ "Lighting_Command" \in fields
                          /\ Shaped(k, fields, "Level", Priorities)
        BY <1>10, PriorityShape
      <4>2. IsRecord(o, fields)
        BY <4>1, LikeShaped DEF ArrayFields
      <4>3. QED
        BY <4>1, <4>2 DEF IsRecord
    <3>4. lit.Lighting_Command = v
      BY <3>3
    <3> HIDE DEF lit, r
    <3>5. QED
      BY <2>2, <3>2, <3>4, TakenStays DEF r
  <2> HIDE DEF lit
  <2>3. QED
    BY <1>3, <1>4, <1>5, <2>1, <2>2
<1>11. QED
  BY <1>6, <1>7, <1>8, <1>9, <1>10 DEF WithPriorities

(* The objects with one value.                                             *)
LEMMA ValueStays ==
    ASSUME NEW k \in WithValue, Roomy(k), NEW o, Like(o, SetUp(k)), NEW w, Writes1(w)
    PROVE  Stays(k, o, w)
<1> DEFINE v == w.values[1]
           r == Device_Write_Property(k, o, w)
           n == [o EXCEPT !.Present_Value = v]
<1>1. k \in Kinds /\ k \in WithFlags
  BY DEF WithValue, Kinds, WithFlags
<1>2. \A m : Like(m, SetUp(k)) => /\ Shows(k, m, "OUT_OF_SERVICE", Boolean(m.Out_Of_Service))
                                  /\ Shows(k, m, "PRESENT_VALUE", m.Present_Value)
  <2>1. k = "MULTI_STATE_VALUE" => /\ MULTISTATE_NUMBER_OF_STATES <= MAX_APDU_ELEMENTS
                                   /\ MULTISTATE_NUMBER_OF_STATES < BACNET_ARRAY_ALL
    BY DEF Roomy, Places, WithPriorities
  <2>2. QED
    BY <2>1, CharacterStringReads, OctetStringReads, PositiveIntegerReads, MultistateValueReads
       DEF WithValue
<1>3. {"Present_Value", "Out_Of_Service"} \subseteq DOMAIN o
  <2>1. IsRecord(o, {"Present_Value", "Out_Of_Service"})
    BY ValueShape, LikeShaped DEF ArrayFields
  <2>2. QED
    BY <2>1 DEF IsRecord
<1>4. \/ Refused(r, o) \/ FlagTaken(r, o, w) \/ Taken(r, w, "PRESENT_VALUE", n)
  BY CharacterStringWrites, OctetStringWrites, PositiveIntegerWrites, MultistateValueWrites
     DEF WithValue, Device_Write_Property, ValueTaken
<1>5. Refused(r, o) => Stays(k, o, w)
  BY RefusedStays
<1>6. FlagTaken(r, o, w) => Stays(k, o, w)
  BY <1>2, <1>3, FlagStays
<1>7. CASE Taken(r, w, "PRESENT_VALUE", n)
  <2>1. Like(n, SetUp(k))
    BY <1>1, <1>7, WriteLeavesLike DEF Taken
  <2>2. n.Present_Value = v
    BY <1>3
  <2> HIDE DEF n, r
  <2>3. QED
    BY <1>2, <1>7, <2>1, <2>2, TakenStays DEF r
<1> HIDE DEF n, r
<1>8. QED
  BY <1>4, <1>5, <1>6, <1>7

(* A change that is read.                                                  *)
LEMMA ChangeStays ==
    ASSUME NEW k \in Kinds, NEW o, Like(o, SetUp(k)), NEW w, Writes1(w), NEW p, NEW n,
           Taken(Device_Write_Property(k, o, w), w, p, n),
           Like(n, SetUp(k)) => Shows(k, n, p, w.values[1]) \/ NotKept(k, p, w.values[1])
    PROVE  Stays(k, o, w)
<1>1. Like(n, SetUp(k))
  BY WriteLeavesLike DEF Taken
<1>2. QED
  BY <1>1, TakenStays

(* What is written to a binary input is read, through its polarity.        *)
LEMMA BinaryInputStays ==
    ASSUME NEW o, Like(o, SetUp("BINARY_INPUT")), NEW w, Writes1(w)
    PROVE  Stays("BINARY_INPUT", o, w)
<1> DEFINE k == "BINARY_INPUT"
           v == w.values[1]
           r == Device_Write_Property(k, o, w)
           valued == Binary_Input_Present_Value_Set(o, Content(v))
           polar == [o EXCEPT !.Polarity = Content(v)]
           flagged == Binary_Input_Out_Of_Service_Set(o, Content(v))
<1>1. /\ Tag(v) = "BOOLEAN" => v = Boolean(Content(v))
      /\ Tag(v) = "ENUMERATED" => v = Enumerated(Content(v)) /\ Content(v) \in Nat
  BY WrittenValues DEF Writes1, Enumerations
<1>2. DOMAIN o = {"Present_Value", "Polarity", "Out_Of_Service", "Change_Of_Value"}
  <2>1. IsRecord(o, {"Present_Value", "Polarity", "Out_Of_Service", "Change_Of_Value"})
    BY OtherShapes, LikeShaped DEF ArrayFields
  <2>2. QED
    BY <2>1 DEF IsRecord
<1>3. /\ Binary_Input_Present_Value(valued) = Content(v) \/ ~(Content(v) \in Nat)
      /\ polar.Polarity = Content(v) /\ flagged.Out_Of_Service = Content(v)
  BY <1>2 DEF Binary_Input_Present_Value, Binary_Input_Present_Value_Set,
     Binary_Input_Out_Of_Service_Set
<1>4. \/ Refused(r, o)
      \/ Tag(v) = "ENUMERATED" /\ Taken(r, w, "PRESENT_VALUE", valued)
      \/ Tag(v) = "ENUMERATED" /\ Taken(r, w, "POLARITY", polar)
      \/ Tag(v) = "BOOLEAN" /\ Taken(r, w, "OUT_OF_SERVICE", flagged)
  BY BinaryInputWrites DEF Device_Write_Property
<1>5. /\ Shows(k, valued, "PRESENT_VALUE", Enumerated(Binary_Input_Present_Value(valued)))
      /\ Shows(k, polar, "POLARITY", Enumerated(polar.Polarity))
      /\ Shows(k, flagged, "OUT_OF_SERVICE", Boolean(flagged.Out_Of_Service))
  <2> HIDE DEF valued, polar, flagged
  <2>1. QED
    BY BinaryInputReads
<1> HIDE DEF valued, polar, flagged, v, r
<1>6. QED
  BY <1>1, <1>3, <1>4, <1>5, RefusedStays, TakenStays DEF v, r

(* What is written to a multistate input is read.                          *)
LEMMA MultistateInputStays ==
    ASSUME Roomy("MULTI_STATE_INPUT"), NEW o, Like(o, SetUp("MULTI_STATE_INPUT")),
           NEW w, Writes1(w)
    PROVE  Stays("MULTI_STATE_INPUT", o, w)
<1> DEFINE k == "MULTI_STATE_INPUT"
           v == w.values[1]
           r == Device_Write_Property(k, o, w)
           valued == [o EXCEPT !.Present_Value = v]
           named == [o EXCEPT !.Object_Name = v]
           described == [o EXCEPT !.Object_Description = v]
<1>1. DOMAIN o = {"Present_Value", "Out_Of_Service", "Object_Name", "Object_Description",
                  "State_Text"}
  <2>1. IsRecord(o, {"Present_Value", "Out_Of_Service", "Object_Name", "Object_Description",
                     "State_Text"})
    BY OtherShapes, LikeShaped DEF ArrayFields
  <2>2. QED
    BY <2>1 DEF IsRecord
<1>2. /\ valued.Present_Value = v /\ named.Object_Name = v /\ described.Object_Description = v
  BY <1>1
<1>3. \A m : Like(m, SetUp(k)) =>
        /\ Shows(k, m, "PRESENT_VALUE", m.Present_Value)
        /\ Shows(k, m, "OUT_OF_SERVICE", Boolean(m.Out_Of_Service))
        /\ Shows(k, m, "OBJECT_NAME", m.Object_Name)
        /\ Shows(k, m, "DESCRIPTION", m.Object_Description)
  <2>1. MULTISTATE_NUMBER_OF_STATES \in Nat
    BY PointsConstants
  <2>2. Shaped(k, {"Present_Value", "Out_Of_Service", "Object_Name",
                   "Object_Description", "State_Text"},
               "State_Text", 1 .. MULTISTATE_NUMBER_OF_STATES)
    BY OtherShapes DEF States
  <2>3. Places(k) = MULTISTATE_NUMBER_OF_STATES
    BY DEF Places, WithPriorities
  <2>4. \A m : Like(m, SetUp(k)) => Fits(m.State_Text)
    BY <2>1, <2>2, <2>3, ArrayFits DEF ArrayFields
  <2>5. QED
    BY <2>4, MultistateInputReads
<1>4. \/ Refused(r, o) \/ FlagTaken(r, o, w)
      \/ Taken(r, w, "PRESENT_VALUE", valued)
      \/ Taken(r, w, "OBJECT_NAME", named)
      \/ Taken(r, w, "OBJECT_NAME", o) /\ v = o.Object_Name
      \/ Taken(r, w, "DESCRIPTION", described)
      \/ w.property = "STATE_TEXT"
  BY MultistateInputWrites DEF Device_Write_Property, ValueTaken
<1>5. w.property = "STATE_TEXT" => Stays(k, o, w)
  BY DEF Stays, NotKept
<1>6. FlagTaken(r, o, w) => Stays(k, o, w)
  BY <1>1, <1>3, FlagStays
<1>7. Refused(r, o) => Stays(k, o, w)
  BY RefusedStays
<1>8. k \in Kinds
  BY DEF Kinds
<1> HIDE DEF valued, named, described, v, r, k
<1>9. Taken(r, w, "PRESENT_VALUE", valued) => Stays(k, o, w)
  BY <1>2, <1>3, <1>8, ChangeStays DEF v, r, k
<1>10. Taken(r, w, "OBJECT_NAME", named) => Stays(k, o, w)
  BY <1>2, <1>3, <1>8, ChangeStays DEF v, r, k
<1>11. Taken(r, w, "DESCRIPTION", described) => Stays(k, o, w)
  BY <1>2, <1>3, <1>8, ChangeStays DEF v, r, k
<1>12. Taken(r, w, "OBJECT_NAME", o) /\ v = o.Object_Name => Stays(k, o, w)
  BY <1>3, <1>8, ChangeStays DEF v, r, k
<1>13. QED
  BY <1>4, <1>5, <1>6, <1>7, <1>9, <1>10, <1>11, <1>12 DEF k

(* What is written to a life safety point is read.                         *)
LEMMA LifeSafetyPointStays ==
    ASSUME NEW o, Like(o, SetUp("LIFE_SAFETY_POINT")), NEW w, Writes1(w)
    PROVE  Stays("LIFE_SAFETY_POINT", o, w)
<1> DEFINE k == "LIFE_SAFETY_POINT"
           v == w.values[1]
           r == Device_Write_Property(k, o, w)
           moded == [o EXCEPT !.Mode = v]
<1>1. DOMAIN o = {"Mode", "Out_Of_Service"}
  <2>1. IsRecord(o, {"Mode", "Out_Of_Service"})
    BY OtherShapes, LikeShaped DEF ArrayFields
  <2>2. QED
    BY <2>1 DEF IsRecord
<1>2. moded.Mode = v
  BY <1>1
<1>3. \A m : /\ Shows(k, m, "MODE", m.Mode)
             /\ Shows(k, m, "OUT_OF_SERVICE", Boolean(m.Out_Of_Service))
  BY LifeSafetyPointReads
<1>4. Refused(r, o) \/ FlagTaken(r, o, w) \/ Taken(r, w, "MODE", moded)
  BY LifeSafetyPointWrites DEF Device_Write_Property
<1>5. FlagTaken(r, o, w) => Stays(k, o, w)
  BY <1>1, <1>3, FlagStays
<1> HIDE DEF moded, v, r, k
<1>6. QED
  BY <1>2, <1>3, <1>4, <1>5, RefusedStays, TakenStays DEF v, r, k

(* What is written to a schedule is read.                                  *)
LEMMA ScheduleStays ==
    ASSUME Roomy("SCHEDULE"), NEW o, Like(o, SetUp("SCHEDULE")), NEW w, Writes1(w)
    PROVE  Stays("SCHEDULE", o, w)
<1> DEFINE k == "SCHEDULE"
           r == Device_Write_Property(k, o, w)
<1>1. DOMAIN o = {"Schedule_Default", "Present_Value", "Weekly_Schedule", "Out_Of_Service"}
  <2>1. IsRecord(o, {"Schedule_Default", "Present_Value", "Weekly_Schedule", "Out_Of_Service"})
    BY OtherShapes, LikeShaped DEF ArrayFields
  <2>2. QED
    BY <2>1 DEF IsRecord
<1>2. \A m : Like(m, SetUp(k)) => Shows(k, m, "OUT_OF_SERVICE", Boolean(m.Out_Of_Service))
  <2>1. Places(k) = 7
    BY DEF Places, WithPriorities
  <2>2. \A m : Like(m, SetUp(k)) => Fits(m.Weekly_Schedule)
    BY <2>1, OtherShapes, ArrayFits DEF ArrayFields
  <2>3. QED
    BY <2>2, ScheduleReads
<1>3. Refused(r, o) \/ FlagTaken(r, o, w)
  BY ScheduleWrites DEF Device_Write_Property
<1>4. QED
  BY <1>1, <1>2, <1>3, FlagStays, RefusedStays

(* A file keeps nothing of what is written to its properties.              *)
LEMMA FileStays ==
    ASSUME NEW o, NEW w PROVE Stays("FILE", o, w)
<1>1. Device_Write_Property("FILE", o, w).object = o
  BY FileWrites DEF Device_Write_Property
<1>2. QED
  BY <1>1 DEF Stays, NotKept

(* What is written to a load control is read.                              *)
LEMMA LoadControlStays ==
    ASSUME Roomy("LOAD_CONTROL"), NEW o, Like(o, SetUp("LOAD_CONTROL")), NEW w, Writes1(w)
    PROVE  Stays("LOAD_CONTROL", o, w)
<1> DEFINE k == "LOAD_CONTROL"
           v == w.values[1]
           r == Device_Write_Property(k, o, w)
           requested == [o EXCEPT !.Requested_Shed_Level = v, !.Request_Written = TRUE]
           started == [o EXCEPT !.Start_Time = Content(v), !.Start_Time_Written = TRUE]
           lasting == [o EXCEPT !.Shed_Duration = Content(v), !.Request_Written = TRUE]
           window == [o EXCEPT !.Duty_Window = Content(v), !.Request_Written = TRUE]
           enabled == [o EXCEPT !.Enable = Content(v)]
<1>1. /\ Tag(v) = "BOOLEAN" => v = Boolean(Content(v))
      /\ Tag(v) = "UNSIGNED_INT" => v = Unsigned(Content(v))
      /\ Tag(v) = "DATETIME" => v = <<"DATETIME", Content(v)>>
  BY WrittenValues DEF Writes1
<1>2. DOMAIN o = LoadFields
  <2>1. IsRecord(o, LoadFields)
    BY OtherShapes, LikeShaped DEF ArrayFields
  <2>2. QED
    BY <2>1 DEF IsRecord
<1>3. /\ requested.Requested_Shed_Level = v /\ started.Start_Time = Content(v)
      /\ lasting.Shed_Duration = Content(v) /\ window.Duty_Window = Content(v)
      /\ enabled.Enable = Content(v)
  BY <1>2 DEF LoadFields
<1>4. \/ Refused(r, o)
      \/ Taken(r, w, "REQUESTED_SHED_LEVEL", requested)
      \/ Tag(v) = "DATETIME" /\ Taken(r, w, "START_TIME", started)
      \/ Tag(v) = "UNSIGNED_INT" /\ Taken(r, w, "SHED_DURATION", lasting)
      \/ Tag(v) = "UNSIGNED_INT" /\ Taken(r, w, "DUTY_WINDOW", window)
      \/ w.property = "SHED_LEVELS" /\ r.reply = "ack"
      \/ Tag(v) = "BOOLEAN" /\ Taken(r, w, "ENABLE", enabled)
  BY LoadControlWrites DEF Device_Write_Property
<1>5. \A m : Like(m, SetUp(k)) =>
        /\ Shows(k, m, "REQUESTED_SHED_LEVEL", m.Requested_Shed_Level)
        /\ Shows(k, m, "START_TIME", <<"DATETIME", m.Start_Time>>)
        /\ Shows(k, m, "SHED_DURATION", Unsigned(m.Shed_Duration))
        /\ Shows(k, m, "DUTY_WINDOW", Unsigned(m.Duty_Window))
        /\ Shows(k, m, "ENABLE", Boolean(m.Enable))
  <2>1. Len(SHED_LEVELS) \in Nat /\ DOMAIN SHED_LEVELS = 1 .. Len(SHED_LEVELS)
    BY ControlsConstants, LenProperties
  <2>2. Shaped(k, LoadFields, "Shed_Levels", 1 .. Len(SHED_LEVELS))
    BY <2>1, OtherShapes
  <2>3. Places(k) = Len(SHED_LEVELS)
    BY DEF Places, WithPriorities
  <2>4. \A m : Like(m, SetUp(k)) => Fits(m.Shed_Levels)
    BY <2>1, <2>2, <2>3, ArrayFits DEF ArrayFields, LoadFields
  <2>5. Len(SHED_LEVELS) <= MAX_APDU_ELEMENTS /\ Len(SHED_LEVELS) < BACNET_ARRAY_ALL
    BY <2>3 DEF Roomy
  <2>6. QED
    BY <2>4, <2>5, LoadControlReads
<1>6. w.property = "SHED_LEVELS" => NotKept(k, w.property, v)
  BY DEF NotKept
<1>7. k \in Kinds
  BY DEF Kinds
<1> HIDE DEF requested, started, lasting, window, enabled, v, r, k
<1>8. Taken(r, w, "REQUESTED_SHED_LEVEL", requested) => Stays(k, o, w)
  BY <1>3, <1>5, <1>7, ChangeStays DEF v, r, k
<1>9. Tag(v) = "DATETIME" /\ Taken(r, w, "START_TIME", started) => Stays(k, o, w)
  BY <1>1, <1>3, <1>5, <1>7, ChangeStays DEF v, r, k
<1>10. Tag(v) = "UNSIGNED_INT" /\ Taken(r, w, "SHED_DURATION", lasting) => Stays(k, o, w)
  BY <1>1, <1>3, <1>5, <1>7, ChangeStays DEF v, r, k
<1>11. Tag(v) = "UNSIGNED_INT" /\ Taken(r, w, "DUTY_WINDOW", window) => Stays(k, o, w)
  BY <1>1, <1>3, <1>5, <1>7, ChangeStays DEF v, r, k
<1>12. Tag(v) = "BOOLEAN" /\ Taken(r, w, "ENABLE", enabled) => Stays(k, o, w)
  BY <1>1, <1>3, <1>5, <1>7, ChangeStays DEF v, r, k
<1>13. w.property = "SHED_LEVELS" /\ r.reply = "ack" => Stays(k, o, w)
  BY <1>6 DEF Stays, v, r
<1>14. Refused(r, o) => Stays(k, o, w)
  BY RefusedStays DEF r
<1>15. QED
  BY <1>4, <1>8, <1>9, <1>10, <1>11, <1>12, <1>13, <1>14 DEF k

(* One value is never a list of recipients; the rest is taken and          *)
(* forgotten.                                                              *)
LEMMA NotificationClassStays ==
    ASSUME NEW o, NEW w, Writes1(w)
    PROVE  Stays("NOTIFICATION_CLASS", o, w)
<1> DEFINE k == "NOTIFICATION_CLASS"
           v == w.values[1]
           r == Device_Write_Property(k, o, w)
<1>1. Tag(v) # "EMPTY" /\ w.values = <<v>>
  BY WrittenValues DEF Writes1
<1>2. RecipientsReply(<<v>>) # "ack"
  <2>1. Len(<<v>>) % 7 # 0
    OBVIOUS
  <2>2. QED
    BY <2>1 DEF RecipientsReply
<1>3. \/ Refused(r, o)
      \/ w.property = "PRIORITY" /\ r.reply = "ack"
      \/ w.property = "ACK_REQUIRED" /\ r.reply = "ack"
      \/ RecipientsReply(IF Tag(v) = "EMPTY" THEN <<>> ELSE w.values) = "ack"
  BY NotificationClassWrites DEF Device_Write_Property
<1>4. \A p \in {"PRIORITY", "ACK_REQUIRED"} : NotKept(k, p, v)
  BY DEF NotKept
<1>5. QED
  BY <1>1, <1>2, <1>3, <1>4, RefusedStays DEF Stays

(* What is written to the device is read, but for numbers that it keeps in *)
(* fewer bits.                                                             *)
LEMMA DeviceStays ==
    ASSUME Roomy("DEVICE"), NEW o, Like(o, SetUp("DEVICE")), NEW w, Writes1(w)
    PROVE  Stays("DEVICE", o, w)
<1> DEFINE k == "DEVICE"
           v == w.values[1]
           r == Device_Write_Property(k, o, w)
           numbered == Device_Set_Object_Instance_Number(o, v)
           few == Kept(v, Octet)
           many == Kept(v, Word)
           retries == [o EXCEPT !.Retries = few]
           timeout == [o EXCEPT !.Timeout = many]
           vendor == [o EXCEPT !.Vendor_Identifier = many]
           status == [o EXCEPT !.System_Status = v]
           named == Device_Set_Object_Name(o, v)
           located == [o EXCEPT !.Location = v]
           described == [o EXCEPT !.Description = v]
           model == [o EXCEPT !.Model_Name = v]
<1>1. \/ Refused(r, o)
      \/ Taken(r, w, "OBJECT_IDENTIFIER", numbered)
      \/ Tag(v) = "UNSIGNED_INT" /\ Taken(r, w, "NUMBER_OF_APDU_RETRIES", retries)
      \/ Tag(v) = "UNSIGNED_INT" /\ Taken(r, w, "APDU_TIMEOUT", timeout)
      \/ Tag(v) = "UNSIGNED_INT" /\ Taken(r, w, "VENDOR_IDENTIFIER", vendor)
      \/ Taken(r, w, "SYSTEM_STATUS", status)
      \/ v = o.Object_Name /\ Taken(r, w, "OBJECT_NAME", o)
      \/ Tag(v) = "CHARACTER_STRING" /\ Taken(r, w, "OBJECT_NAME", named)
      \/ Taken(r, w, "LOCATION", located)
      \/ Taken(r, w, "DESCRIPTION", described)
      \/ Taken(r, w, "MODEL_NAME", model)
  <2>1. r = Device_Write_Property_Local(o, w)
    BY DEF Device_Write_Property
  <2> HIDE DEF r
  <2>2. QED
    BY <2>1, DeviceWrites
<1>2. DOMAIN o = {"Object_Identifier", "Object_Name", "Description", "Location", "Model_Name",
                  "Vendor_Identifier", "System_Status", "Retries", "Timeout",
                  "Database_Revision"}
  <2>1. IsRecord(o, {"Object_Identifier", "Object_Name", "Description", "Location",
                     "Model_Name", "Vendor_Identifier", "System_Status", "Retries",
                     "Timeout", "Database_Revision"})
    BY OtherShapes, LikeShaped DEF ArrayFields
  <2>2. QED
    BY <2>1 DEF IsRecord
<1>3. /\ retries.Retries = few /\ timeout.Timeout = many
      /\ vendor.Vendor_Identifier = many
  <2> HIDE DEF few, many
  <2>1. QED
    BY <1>2
<1>4. /\ numbered.Object_Identifier = v /\ status.System_Status = v
      /\ located.Location = v /\ described.Description = v /\ model.Model_Name = v
      /\ Content(v) # "longer_than_32" => named.Object_Name = v
  BY <1>2, SMT DEF Device_Set_Object_Instance_Number, Device_Set_Object_Name
<1>5. Tag(v) = "CHARACTER_STRING" => Content(v) # "longer_than_32"
  BY WrittenValues DEF Writes1
<1>6. Tag(v) = "UNSIGNED_INT" =>
        /\ NotKept(k, "NUMBER_OF_APDU_RETRIES", v) \/ few = v
        /\ NotKept(k, "APDU_TIMEOUT", v) \/ many = v
        /\ NotKept(k, "VENDOR_IDENTIFIER", v) \/ many = v
  <2>1. Tag(v) = "UNSIGNED_INT" =>
            /\ Content(v) >= Octet \/ few = v
            /\ Content(v) >= Word \/ many = v
    BY Narrowed DEF Writes1
  <2> HIDE DEF few, many, v
  <2>2. QED
    BY <2>1 DEF NotKept, Cut
<1>7. \A m : /\ Shows(k, m, "OBJECT_IDENTIFIER", m.Object_Identifier)
             /\ Shows(k, m, "OBJECT_NAME", m.Object_Name)
             /\ Shows(k, m, "DESCRIPTION", m.Description)
             /\ Shows(k, m, "LOCATION", m.Location)
             /\ Shows(k, m, "MODEL_NAME", m.Model_Name)
             /\ Shows(k, m, "VENDOR_IDENTIFIER", m.Vendor_Identifier)
             /\ Shows(k, m, "SYSTEM_STATUS", m.System_Status)
             /\ Shows(k, m, "APDU_TIMEOUT", m.Timeout)
             /\ Shows(k, m, "NUMBER_OF_APDU_RETRIES", m.Retries)
  BY DeviceReads DEF Roomy
<1>8. /\ retries.Retries = few /\ timeout.Timeout = many /\ vendor.Vendor_Identifier = many
  BY <1>3
<1> HIDE DEF numbered, retries, timeout, vendor, status, named, located, described, model,
             few, many, v, r, k
<1>9. \/ Refused(r, o)
      \/ \E p, n : Taken(r, w, p, n) /\ (Shows(k, n, p, v) \/ NotKept(k, p, v))
  <2>1. Tag(v) = "UNSIGNED_INT" /\ Taken(r, w, "NUMBER_OF_APDU_RETRIES", retries) =>
            \/ Shows(k, retries, "NUMBER_OF_APDU_RETRIES", v)
            \/ NotKept(k, "NUMBER_OF_APDU_RETRIES", v)
    BY <1>6, <1>7, <1>8
  <2>2. Tag(v) = "UNSIGNED_INT" /\ Taken(r, w, "APDU_TIMEOUT", timeout) =>
            Shows(k, timeout, "APDU_TIMEOUT", v) \/ NotKept(k, "APDU_TIMEOUT", v)
    BY <1>6, <1>7, <1>8
  <2>3. Tag(v) = "UNSIGNED_INT" /\ Taken(r, w, "VENDOR_IDENTIFIER", vendor) =>
            Shows(k, vendor, "VENDOR_IDENTIFIER", v) \/ NotKept(k, "VENDOR_IDENTIFIER", v)
    BY <1>6, <1>7, <1>8
  <2>4. /\ Shows(k, numbered, "OBJECT_IDENTIFIER", v) /\ Shows(k, status, "SYSTEM_STATUS", v)
        /\ Shows(k, located, "LOCATION", v) /\ Shows(k, described, "DESCRIPTION", v)
        /\ Shows(k, model, "MODEL_NAME", v)
        /\ Tag(v) = "CHARACTER_STRING" => Shows(k, named, "OBJECT_NAME", v)
        /\ v = o.Object_Name => Shows(k, o, "OBJECT_NAME", v)
    BY <1>4, <1>5, <1>7
  <2>5. QED
    BY <1>1, <2>1, <2>2, <2>3, <2>4
<1>10. QED
  BY <1>9, RefusedStays, TakenStays DEF v, r, k

(* What an object that watches its value shows.                            *)
ReportedShown(k, m) ==
    /\ Shows(k, m, "OUT_OF_SERVICE", Boolean(m.Out_Of_Service))
    /\ Shows(k, m, "TIME_DELAY", Unsigned(m.Time_Delay))
    /\ Shows(k, m, "NOTIFICATION_CLASS", Unsigned(m.Notification_Class))
    /\ Shows(k, m, "HIGH_LIMIT", Real(m.High_Limit))
    /\ Shows(k, m, "LOW_LIMIT", Real(m.Low_Limit))
    /\ Shows(k, m, "DEADBAND", Real(m.Deadband))
    /\ Shows(k, m, "LIMIT_ENABLE", Bits(m.Limit_Enable))
    /\ Shows(k, m, "EVENT_ENABLE", Bits(m.Event_Enable))
    /\ Shows(k, m, "NOTIFY_TYPE", Enumerated(m.Notify_Type))
    /\ Shows(k, m, "UNITS", m.Units)
    /\ k = "ANALOG_INPUT" => Shows(k, m, "COV_INCREMENT", Real(m.COV_Increment))
    /\ k = "ANALOG_VALUE" => Shows(k, m, "PRESENT_VALUE", Real(m.Present_Value))

(* Objects with alarms show it, whatever their state.                      *)
LEMMA AlarmsShown ==
    ASSUME NEW k \in {"ANALOG_INPUT", "ANALOG_VALUE"}, Roomy(k)
    PROVE  \A m : ReportedShown(k, m)
<1>1. SUFFICES ASSUME NEW m PROVE ReportedShown(k, m)
  OBVIOUS
<1>2. IsRecord(Stamps(m), 1 .. 3)
  BY DEF Stamps, IsRecord
<1>3. 3 <= MAX_APDU_ELEMENTS /\ 3 < BACNET_ARRAY_ALL
  BY DEF Roomy, Places, WithPriorities
<1>4. Fits(Stamps(m))
  BY <1>2, <1>3, PlacesFit
<1>5. CASE k = "ANALOG_INPUT"
  BY <1>4, <1>5, AnalogInputReads DEF ReportedShown
<1>6. CASE k = "ANALOG_VALUE"
  BY <1>4, <1>6, AnalogValueReads DEF ReportedShown
<1>7. QED
  BY <1>5, <1>6

(* What alarms go by is read as it was written.                            *)
LEMMA ReportedStays ==
    ASSUME NEW k \in {"ANALOG_INPUT", "ANALOG_VALUE"}, Roomy(k),
           NEW o, Like(o, SetUp(k)), NEW w, Writes1(w),
           ReportedTaken(Device_Write_Property(k, o, w), o, w.values[1], w.property)
    PROVE  Stays(k, o, w)
<1> DEFINE v == w.values[1]
           r == Device_Write_Property(k, o, w)
           delayed == [o EXCEPT !.Time_Delay = Content(v), !.Remaining_Time_Delay = Content(v)]
           classed == [o EXCEPT !.Notification_Class = Content(v)]
           high == [o EXCEPT !.High_Limit = Content(v)]
           low == [o EXCEPT !.Low_Limit = Content(v)]
           dead == [o EXCEPT !.Deadband = Content(v)]
           limits == [o EXCEPT !.Limit_Enable = Content(v)]
           events == [o EXCEPT !.Event_Enable = Content(v)]
           notify == [o EXCEPT !.Notify_Type = Content(v)]
<1>1. /\ Tag(v) = "REAL" => v = Real(Content(v))
      /\ Tag(v) = "ENUMERATED" => v = Enumerated(Content(v))
      /\ Tag(v) = "UNSIGNED_INT" => v = Unsigned(Content(v))
      /\ Tag(v) = "BIT_STRING" => v = Bits(Content(v))
  BY WrittenValues DEF Writes1
<1>2. DOMAIN o = AlarmKindFields(k)
  <2>1. IsRecord(o, AlarmKindFields(k))
    BY AlarmShape, LikeShaped DEF ArrayFields
  <2>2. QED
    BY <2>1 DEF IsRecord
<1>3. AlarmFields \subseteq DOMAIN o
  BY <1>2 DEF AlarmKindFields, InputFields, ValueFields
<1>4. /\ delayed.Time_Delay = Content(v) /\ classed.Notification_Class = Content(v)
      /\ high.High_Limit = Content(v) /\ low.Low_Limit = Content(v)
      /\ dead.Deadband = Content(v) /\ limits.Limit_Enable = Content(v)
      /\ events.Event_Enable = Content(v) /\ notify.Notify_Type = Content(v)
  BY <1>3 DEF AlarmFields
<1>5. \/ Tag(v) = "UNSIGNED_INT" /\ Taken(r, w, "TIME_DELAY", delayed)
      \/ Tag(v) = "UNSIGNED_INT" /\ Taken(r, w, "NOTIFICATION_CLASS", classed)
      \/ Tag(v) = "REAL" /\ Taken(r, w, "HIGH_LIMIT", high)
      \/ Tag(v) = "REAL" /\ Taken(r, w, "LOW_LIMIT", low)
      \/ Tag(v) = "REAL" /\ Taken(r, w, "DEADBAND", dead)
      \/ Tag(v) = "BIT_STRING" /\ Taken(r, w, "LIMIT_ENABLE", limits)
      \/ Tag(v) = "BIT_STRING" /\ Taken(r, w, "EVENT_ENABLE", events)
      \/ Tag(v) = "ENUMERATED" /\ Taken(r, w, "NOTIFY_TYPE", notify)
  <2> HIDE DEF r
  <2>1. ReportedTaken(r, o, v, w.property)
    BY DEF r
  <2>2. QED
    BY <2>1 DEF ReportedTaken, Given, Taken
<1>6. \A m : ReportedShown(k, m)
  BY AlarmsShown
<1> HIDE DEF delayed, classed, high, low, dead, limits, events, notify, v, r
<1>7. \E p, n : Taken(r, w, p, n) /\ Shows(k, n, p, v)
  BY <1>1, <1>4, <1>5, <1>6 DEF ReportedShown
<1>8. QED
  BY <1>7, TakenStays DEF v, r

(* What is written to an analog value is read.                             *)
LEMMA AnalogValueStays ==
    ASSUME Roomy("ANALOG_VALUE"), NEW o, Like(o, SetUp("ANALOG_VALUE")), NEW w, Writes1(w)
    PROVE  Stays("ANALOG_VALUE", o, w)
<1> DEFINE k == "ANALOG_VALUE"
           v == w.values[1]
           r == Device_Write_Property(k, o, w)
           valued == [o EXCEPT !.Present_Value = Content(v)]
           shortened == Shortened(v, Word)
           measured == [o EXCEPT !.Units = shortened]
<1>1. Tag(v) = "REAL" => v = Real(Content(v))
  BY WrittenValues DEF Writes1
<1>short. Tag(v) = "ENUMERATED" => Content(v) >= Word \/ shortened = v
  BY Narrowed DEF Writes1
<1> HIDE DEF shortened
<1>2. DOMAIN o = ValueFields
  <2>1. IsRecord(o, ValueFields)
    BY AlarmShape, LikeShaped DEF ArrayFields, AlarmKindFields
  <2>2. QED
    BY <2>1 DEF IsRecord
<1>3. /\ valued.Present_Value = Content(v) /\ measured.Units = shortened
      /\ "Out_Of_Service" \in DOMAIN o
  BY <1>2 DEF ValueFields
<1>4. \/ Refused(r, o) \/ FlagTaken(r, o, w)
      \/ ReportedTaken(r, o, v, w.property)
      \/ Tag(v) = "REAL" /\ Taken(r, w, "PRESENT_VALUE", valued)
      \/ Tag(v) = "ENUMERATED" /\ Taken(r, w, "UNITS", measured)
  BY AnalogValueWrites DEF Device_Write_Property, shortened
<1>5. \A m : ReportedShown(k, m)
  BY AlarmsShown
<1>6. FlagTaken(r, o, w) => Stays(k, o, w)
  BY <1>3, <1>5, FlagStays DEF ReportedShown
<1>7. ReportedTaken(r, o, v, w.property) => Stays(k, o, w)
  BY ReportedStays
<1>8. Refused(r, o) => Stays(k, o, w)
  BY RefusedStays
<1>9. k = "ANALOG_VALUE"
  OBVIOUS
<1> HIDE DEF valued, measured, v, r, k
<1>10. Tag(v) = "REAL" /\ Taken(r, w, "PRESENT_VALUE", valued) => Stays(k, o, w)
  <2>1. Tag(v) = "REAL" => Shows(k, valued, "PRESENT_VALUE", v)
    BY <1>1, <1>3, <1>5, <1>9 DEF ReportedShown
  <2>2. QED
    BY <2>1, TakenStays DEF v, r
<1>11. Tag(v) = "ENUMERATED" /\ Taken(r, w, "UNITS", measured) => Stays(k, o, w)
  <2>1. Shows(k, measured, "UNITS", shortened)
    BY <1>3, <1>5 DEF ReportedShown
  <2>2. Tag(v) = "ENUMERATED" => NotKept(k, "UNITS", v) \/ shortened = v
    BY <1>9, <1>short DEF NotKept, Cut
  <2>3. QED
    BY <2>1, <2>2, TakenStays DEF v, r
<1>12. QED
  BY <1>4, <1>6, <1>7, <1>8, <1>9, <1>10, <1>11

(* What is written to an analog input is read, but for the value, which is *)
(* the sensor's or the client's.                                           *)
LEMMA AnalogInputStays ==
    ASSUME Roomy("ANALOG_INPUT"), NEW o, Like(o, SetUp("ANALOG_INPUT")), NEW w, Writes1(w)
    PROVE  Stays("ANALOG_INPUT", o, w)
<1> DEFINE k == "ANALOG_INPUT"
           v == w.values[1]
           r == Device_Write_Property(k, o, w)
           valued == Analog_Input_Present_Value_Set(o, Content(v))
           flagged == Analog_Input_Out_Of_Service_Set(o, Content(v))
           shortened == Shortened(v, Octet)
           measured == [o EXCEPT !.Units = shortened]
           increased == Analog_Input_COV_Increment_Set(o, Content(v))
<1>1. /\ Tag(v) = "REAL" => v = Real(Content(v))
      /\ Tag(v) = "BOOLEAN" => v = Boolean(Content(v))
  BY WrittenValues DEF Writes1
<1>short. Tag(v) = "ENUMERATED" => Content(v) >= Octet \/ shortened = v
  BY Narrowed DEF Writes1
<1> HIDE DEF shortened
<1>2. DOMAIN o = InputFields
  <2>1. IsRecord(o, InputFields)
    BY AlarmShape, LikeShaped DEF ArrayFields, AlarmKindFields
  <2>2. QED
    BY <2>1 DEF IsRecord
<1>3. {"Out_Of_Service", "Units", "COV_Increment", "Changed", "Prior_Value"} \subseteq DOMAIN o
  BY <1>2 DEF InputFields, ValueFields
<1>4. flagged.Out_Of_Service = Content(v) /\ measured.Units = shortened
  BY <1>3 DEF Analog_Input_Out_Of_Service_Set
<1>5. increased.COV_Increment = Content(v)
  <2> DEFINE n == [o EXCEPT !.COV_Increment = Content(v)]
  <2>1. n.COV_Increment = Content(v) /\ "COV_Increment" \in DOMAIN n
    BY <1>3
  <2>2. increased \in {n, [n EXCEPT !.Changed = TRUE, !.Prior_Value = o.Present_Value]}
    BY DEF Analog_Input_COV_Increment_Set, Analog_Input_COV_Detect
  <2> HIDE DEF n, increased
  <2>3. QED
    BY <2>1, <2>2
<1>6. \/ Refused(r, o)
      \/ ReportedTaken(r, o, v, w.property)
      \/ Taken(r, w, "PRESENT_VALUE", valued)
      \/ Tag(v) = "BOOLEAN" /\ Taken(r, w, "OUT_OF_SERVICE", flagged)
      \/ Tag(v) = "ENUMERATED" /\ Taken(r, w, "UNITS", measured)
      \/ Tag(v) = "REAL" /\ Taken(r, w, "COV_INCREMENT", increased)
  BY AnalogInputWrites DEF Device_Write_Property, shortened
<1>7. \A m : ReportedShown(k, m)
  BY AlarmsShown
<1>8. ReportedTaken(r, o, v, w.property) => Stays(k, o, w)
  BY ReportedStays
<1>9. Refused(r, o) => Stays(k, o, w)
  BY RefusedStays
<1>10. k = "ANALOG_INPUT"
  OBVIOUS
<1> HIDE DEF valued, flagged, measured, increased, v, r, k
<1>11. /\ NotKept(k, "PRESENT_VALUE", v)
       /\ Tag(v) = "BOOLEAN" => Shows(k, flagged, "OUT_OF_SERVICE", v)
       /\ Tag(v) = "ENUMERATED" => Shows(k, measured, "UNITS", v) \/ NotKept(k, "UNITS", v)
       /\ Tag(v) = "REAL" => Shows(k, increased, "COV_INCREMENT", v)
  <2>1. NotKept(k, "PRESENT_VALUE", v)
    BY <1>10 DEF NotKept
  <2>2. Tag(v) = "ENUMERATED" => NotKept(k, "UNITS", v) \/ shortened = v
    BY <1>10, <1>short DEF NotKept, Cut
  <2>3. Shows(k, measured, "UNITS", shortened)
    BY <1>4, <1>7, <1>10 DEF ReportedShown
  <2>4. QED
    BY <1>1, <1>4, <1>5, <1>7, <1>10, <2>1, <2>2, <2>3 DEF ReportedShown
<1>12. \A p, n : Taken(r, w, p, n) /\ (Shows(k, n, p, v) \/ NotKept(k, p, v))
                    => Stays(k, o, w)
  BY TakenStays DEF v, r
<1>13. QED
  BY <1>6, <1>8, <1>9, <1>10, <1>11, <1>12

(* Every write of one value, of every object.                              *)
LEMMA EveryWriteStays ==
    ASSUME NEW k \in Kinds, Roomy(k), NEW o, Like(o, SetUp(k)), NEW w, Writes1(w)
    PROVE  Stays(k, o, w)
<1>1. CASE k \in WithPriorities
  BY <1>1, OutputStays
<1>2. CASE k \in WithValue
  BY <1>2, ValueStays
<1>3. CASE k \in {"ANALOG_INPUT", "ANALOG_VALUE"}
  BY <1>3, AnalogInputStays, AnalogValueStays
<1>4. CASE k \in {"BINARY_INPUT", "DEVICE", "FILE", "LIFE_SAFETY_POINT", "LOAD_CONTROL",
                  "MULTI_STATE_INPUT", "NOTIFICATION_CLASS", "SCHEDULE"}
  BY <1>4, BinaryInputStays, DeviceStays, FileStays, LifeSafetyPointStays, LoadControlStays,
     MultistateInputStays, NotificationClassStays, ScheduleStays
<1>5. QED
  BY <1>1, <1>2, <1>3, <1>4 DEF Kinds, WithPriorities, WithValue

(* Whatever is listed is answered.                                         *)
LEMMA ListedIsRead ==
    ASSUME NEW k \in Kinds, Roomy(k), NEW o, Like(o, SetUp(k)),
           NEW p \in Device_Objects_Property_List(k)
    PROVE  Device_Read_Property(k, o, p, BACNET_ARRAY_ALL).error = "none"
<1>0. \A x : Answer(x).error = "none"
  BY DEF Answer
<1>1. CASE k = "NOTIFICATION_CLASS" /\ p = "RECIPIENT_LIST"
  BY <1>0, <1>1 DEF Device_Read_Property, Notification_Class_Read_Property
<1>2. CASE ~(k = "NOTIFICATION_CLASS" /\ p = "RECIPIENT_LIST")
  <2>1. Answering(k, o)
    BY EveryoneAnswers DEF Answered
  <2>2. PICK values, arrays : Answers(k, o, values, arrays)
    BY <2>1 DEF Answering
  <2>3. k = "BINARY_VALUE" => BACNET_ARRAY_ALL \notin Priorities
    BY LevelsFit DEF WithPriorities
  <2>4. k \in {"ANALOG_INPUT", "ANALOG_VALUE"} => BACNET_ARRAY_ALL \notin 1 .. 3
    BY DEF Roomy, Places, WithPriorities
  <2>5. ~Special(k, p, BACNET_ARRAY_ALL)
    BY <1>2, <2>3, <2>4 DEF Special
  <2>6. Device_Read_Property(k, o, p, BACNET_ARRAY_ALL)
            = Reading(values, arrays, p, BACNET_ARRAY_ALL)
    BY <2>2, <2>5 DEF Answers
  <2>7. CASE p \in DOMAIN arrays
    <3>1. Fits(arrays[p])
      BY <2>2, <2>7 DEF Answers
    <3>2. BACNET_ARRAY_ALL # 0
      <4>1. Places(k) \in Nat
        BY PropertiesConstants, PointsConstants, ControlsConstants, LenProperties DEF Places
      <4>2. QED
        BY <4>1 DEF Roomy
    <3>3. QED
      BY <1>0, <2>6, <2>7, <3>1, <3>2, ArrayRead
  <2>8. CASE p \notin DOMAIN arrays
    <3>1. p \in DOMAIN values
      BY <2>2, <2>8 DEF Answers
    <3>2. QED
      BY <1>0, <2>6, <2>8, <3>1, ValueRead
  <2>9. QED
    BY <2>7, <2>8
<1>3. QED
  BY <1>1, <1>2

(* What a client can read and write of one object.                         *)
ReadAndWritten(k, o) ==
    LET listed == Device_Objects_Property_List(k)
        ReadOf(n, p) == Device_Read_Property(k, n, p, BACNET_ARRAY_ALL)
    IN  \A p \in listed :
            /\ ReadOf(o, p).error = "none"
            /\ \A v \in Values :
                LET outcome == Device_Write_Property(k, o,
                                    Request(p, <<v>>, BACNET_ARRAY_ALL, 1))
                IN  IF outcome.reply = "ack"
                    THEN ReadOf(outcome.object, p) = Answer(<<v>>) \/ NotKept(k, p, v)
                    ELSE \/ outcome.object = o
                         \/ k = "MULTI_STATE_INPUT" /\ p = "STATE_TEXT"

(* An object of a shape can be read and written.                           *)
LEMMA ObjectIsReadAndWritten ==
    ASSUME NEW k \in Kinds, Roomy(k), NEW o, Like(o, SetUp(k))
    PROVE  ReadAndWritten(k, o)
<1>1. ASSUME NEW p, NEW v \in Values
      PROVE  LET outcome == Device_Write_Property(k, o,
                                Request(p, <<v>>, BACNET_ARRAY_ALL, 1))
             IN  IF outcome.reply = "ack"
                 THEN Shows(k, outcome.object, p, v) \/ NotKept(k, p, v)
                 ELSE outcome.object = o \/ (k = "MULTI_STATE_INPUT" /\ p = "STATE_TEXT")
  <2> DEFINE w == Request(p, <<v>>, BACNET_ARRAY_ALL, 1)
  <2>1. w.property = p /\ w.values = <<v>> /\ w.values[1] = v /\ Writes1(w)
    BY DEF Request, Writes1
  <2> HIDE DEF w
  <2>2. Stays(k, o, w)
    BY <2>1, EveryWriteStays
  <2>3. QED
    BY <2>1, <2>2 DEF Stays, w
<1>2. QED
  BY <1>1, ListedIsRead DEF ReadAndWritten, Shows

(* Whatever an object lists can be read; a write that is acknowledged is   *)
(* read back, and one that is refused changes nothing, of every object and *)
(* every state that it can be in (the Write_Property and Read_Property     *)
(* functions of demo/object).                                              *)
THEOREM WritesAreAlwaysRead == ASSUME ArraysFit PROVE Spec => []WritesAreRead
<1>1. Shapely => WritesAreRead
  <2> SUFFICES ASSUME Shapely, NEW k \in DOMAIN device PROVE ReadAndWritten(k, device[k])
    BY Zenon DEF WritesAreRead, ReadAndWritten
  <2>1. k \in Kinds /\ Like(device[k], SetUp(k)) /\ Roomy(k)
    BY DEF Shapely, ArraysFit, Roomy
  <2>2. QED
    BY <2>1, ObjectIsReadAndWritten
<1>2. QED
  BY <1>1, ObjectsStayShapely, PTL
=============================================================================
