---------------------------- MODULE Relay_proofs ----------------------------
(***************************************************************************)
(* Proofs about the relay's own program, its two halves: what the network  *)
(* can do to its outputs and settings, for every number of outputs and     *)
(* priorities and every set of names; and the console, the line it reads   *)
(* and the UART's receive path below it, for every size of line, ring,     *)
(* FIFO and event queue.                                                   *)
(***************************************************************************)
EXTENDS Firmware, Console, TLAPS, SequenceTheorems, WellFoundedInduction

----------------------------------------------------------------------------
(* Outputs and settings.                                                   *)

(* A nonempty set of naturals has a least element.                         *)
LEMMA Minimum ==
    ASSUME NEW S \in SUBSET Nat, S # {}
    PROVE  \E m \in S : \A n \in S : m <= n
<1> DEFINE R == {ss \in Nat \X Nat : ss[1] < ss[2]}
<1>1. IsWellFoundedOn(R, Nat)
  BY NatLessThanWellFounded, Zenon DEF OpToRel
<1>2. PICK m \in S : \A n \in S : ~(<<n, m>> \in R)
  BY <1>1, WFMin, Zenon
<1>3. ASSUME NEW n \in S PROVE m <= n
  <2>1. ~(<<n, m>> \in R)
    BY <1>2, Zenon
  <2>2. n \in Nat /\ m \in Nat
    OBVIOUS
  <2>3. ~(n < m)
    BY <2>1, <2>2
  <2>4. QED
    BY <2>2, <2>3
<1>4. QED
  BY <1>3

LevelsOK == Binary_Output_Level \in
                [Outputs -> [Priorities -> Commands \cup {"NULL"}]]

(* The flash holds what memory holds, except for what was not saved.       *)
FlashHolds == \A s \in Settings : s \notin unsaved => flash[s] = nvmem_data[s]

(* What restarts and writes keep: the types, the reserved priority, the    *)
(* name's uniqueness in memory and in flash, from where a restart takes    *)
(* it, and how the two copies and what was acknowledged hang together:     *)
(* while a name that does not fit is what was acknowledged, the two copies *)
(* must still agree, for the name they have may be acknowledged again      *)
(* without a save.                                                         *)
FirmwareInv ==
    /\ FirmwareTypeOK
    /\ ReservedSlotFree
    /\ NamesUnique
    /\ flash.Device_Name \notin ObjectNames
    /\ FlashHolds
    /\ SettingsSurvive

SettingsType == SettingsOf(Names \ LongNames)

SettingNames == {"Object_Instance_Number", "Device_Name", "Description"}

(* The settings, by name.                                                  *)
LEMMA SettingsAre == Settings = SettingNames
  BY DEF Settings, DefaultSettings, SettingNames

(* The settings of an empty flash keep the invariant.                      *)
LEMMA DefaultsAreOK ==
    /\ DefaultSettings \in SettingsType
    /\ DefaultSettings \in SettingsOf(Names)
    /\ DefaultSettings.Device_Name \notin ObjectNames
  BY FirmwareConstants DEF DefaultSettings, SettingsType, SettingsOf, Texts

(* What the invariant says of the settings alone.                          *)
SettingsInv ==
    /\ nvmem_data \in SettingsType
    /\ flash \in SettingsType
    /\ acknowledged \in SettingsOf(Names)
    /\ unsaved \subseteq Settings
    /\ NamesUnique
    /\ flash.Device_Name \notin ObjectNames
    /\ FlashHolds
    /\ SettingsSurvive

OutputsInv ==
    /\ Binary_Output_Level \in
            [Outputs -> [Priorities -> Commands \cup {"NULL"}]]
    /\ Out_Of_Service \in [Outputs -> BOOLEAN]
    /\ relay \in Commands
    /\ ReservedSlotFree

RestInv ==
    /\ Database_Revision \in 0 .. MAX_REVISION
    /\ reply \in {"none", "ack", "error"}

(* The invariant is about the outputs, the settings and the rest.          *)
LEMMA InvSplits == FirmwareInv <=> OutputsInv /\ SettingsInv /\ RestInv
  BY DEF FirmwareInv, FirmwareTypeOK, SettingsInv, OutputsInv, RestInv,
         SettingsType

(* in the next state, too,                                                 *)
LEMMA InvJoins == OutputsInv' /\ SettingsInv' /\ RestInv' => FirmwareInv'
  BY DEF FirmwareInv, FirmwareTypeOK, SettingsInv, OutputsInv, RestInv,
         SettingsType

(* and none of it is disturbed by what leaves its variables alone.         *)
LEMMA SettingsUndisturbed ==
    SettingsInv /\ UNCHANGED <<nvmem_data, flash, acknowledged, unsaved>>
        => SettingsInv'
  BY DEF SettingsInv, NamesUnique, FlashHolds, SettingsSurvive, NotStored

(* Nor the outputs.                                                        *)
LEMMA OutputsUndisturbed ==
    OutputsInv /\ UNCHANGED <<outputs, relay>> => OutputsInv'
  BY DEF OutputsInv, ReservedSlotFree, outputs

(* A priority array without commands keeps its type and the free slot.     *)
LEMMA NoCommandsOK ==
    /\ NoCommands \in [Outputs -> [Priorities -> Commands \cup {"NULL"}]]
    /\ \A o \in Outputs : NoCommands[o][RESERVED_PRIORITY] = "NULL"
  BY FirmwareConstants DEF NoCommands, Priorities

(* The present value is the relinquish default or one of the two commands. *)
LEMMA PresentValueIsCommand ==
    ASSUME LevelsOK, NEW o \in Outputs
    PROVE  Binary_Output_Present_Value(o) \in Commands
<1>1. CASE Commanded(o) = {}
  BY <1>1 DEF Binary_Output_Present_Value, RELINQUISH_DEFAULT, Commands
<1>2. CASE Commanded(o) # {}
  <2>1. Commanded(o) \in SUBSET Nat
    BY DEF Commanded, Priorities
  <2>2. PICK m \in Commanded(o) : \A q \in Commanded(o) : m <= q
    BY <2>1, <1>2, Minimum
  <2> DEFINE First == CHOOSE p \in Commanded(o) :
                          \A q \in Commanded(o) : p <= q
  <2>3. First \in Commanded(o)
    BY <2>2
  <2>4. Binary_Output_Level[o][First] \in Commands
    BY <2>3 DEF LevelsOK, Commanded
  <2>5. QED
    BY <2>4, <1>2 DEF Binary_Output_Present_Value
<1>3. QED
  BY <1>1, <1>2

(* The invariant holds at power-on,                                        *)
LEMMA FirmwareInvInit == FirmwareInit => FirmwareInv
<1> SUFFICES ASSUME FirmwareInit PROVE FirmwareInv
  OBVIOUS
<1>1. OutputsInv
  BY NoCommandsOK DEF FirmwareInit, OutputsInv, ReservedSlotFree
<1>2. SettingsInv
  BY DefaultsAreOK
  DEF FirmwareInit, SettingsInv, NamesUnique, FlashHolds, SettingsSurvive
<1>3. RestInv
  BY FirmwareConstants DEF FirmwareInit, RestInv
<1>4. QED
  BY <1>1, <1>2, <1>3, InvSplits

(* A write that is refused.                                                *)
LEMMA RefusedKeeps == FirmwareInv /\ Refused => FirmwareInv'
<1> SUFFICES ASSUME FirmwareInv, Refused PROVE FirmwareInv'
  OBVIOUS
<1>1. OutputsInv' /\ SettingsInv'
  BY InvSplits, OutputsUndisturbed, SettingsUndisturbed
  DEF Refused, settings, history
<1>2. RestInv'
  BY InvSplits DEF Refused, settings, RestInv
<1>3. QED
  BY <1>1, <1>2, InvJoins

(* A write to a binary output keeps the types and the reserved priority.   *)
LEMMA OutputWriteKeeps ==
    FirmwareInv /\ Binary_Output_Write_Property => FirmwareInv'
<1> SUFFICES ASSUME FirmwareInv, Binary_Output_Write_Property
             PROVE  FirmwareInv'
  OBVIOUS
<1>1. ASSUME NEW o \in Outputs, NEW p \in Priorities,
             NEW command \in Commands \cup {"NULL", "OUT_OF_RANGE"},
             WritePresentValue(o, p, command)
      PROVE  FirmwareInv'
  <2>1. /\ command \in Commands \cup {"NULL"}
        /\ command = "NULL" \/ p # RESERVED_PRIORITY
    BY <1>1 DEF WritePresentValue, Takes
  <2>2. Binary_Output_Level' =
            [Binary_Output_Level EXCEPT
                ![o] = [Binary_Output_Level[o] EXCEPT ![p] = command]]
    BY <1>1 DEF WritePresentValue, Command
  <2>3. (Binary_Output_Level \in
            [Outputs -> [Priorities -> Commands \cup {"NULL"}]])'
    BY <2>1, <2>2 DEF FirmwareInv, FirmwareTypeOK
  <2>4. ReservedSlotFree'
    BY <2>1, <2>2, FirmwareConstants
    DEF FirmwareInv, FirmwareTypeOK, ReservedSlotFree, Priorities
  <2>5. OutputsInv'
    BY <1>1, <2>3, <2>4, InvSplits DEF WritePresentValue, OutputsInv
  <2>6. SettingsInv' /\ RestInv'
    BY <1>1, InvSplits, SettingsUndisturbed
    DEF WritePresentValue, settings, history, RestInv
  <2>7. QED
    BY <2>5, <2>6, InvJoins
<1>2. ASSUME NEW o \in Outputs, NEW value \in BOOLEAN,
             WriteOutOfService(o, value)
      PROVE  FirmwareInv'
  <2>1. OutputsInv'
    BY <1>2, InvSplits DEF WriteOutOfService, OutputsInv, ReservedSlotFree
  <2>2. SettingsInv' /\ RestInv'
    BY <1>2, InvSplits, SettingsUndisturbed
    DEF WriteOutOfService, settings, history, RestInv
  <2>3. QED
    BY <2>1, <2>2, InvJoins
<1>3. QED
  BY <1>1, <1>2, RefusedKeeps DEF Binary_Output_Write_Property

(* One setting gets a value and the others keep theirs,                    *)
OneIsSet(setting) ==
    /\ \A s \in Settings \ {setting} : /\ nvmem_data'[s] = nvmem_data[s]
                                      /\ acknowledged'[s] = acknowledged[s]
    /\ \/ nvmem_data'[setting] = acknowledged'[setting]
       \/ setting = "Device_Name" /\ acknowledged'.Device_Name \in LongNames

(* and the record is saved, or the save fails.                             *)
Saved(setting) ==
    \/ flash' = nvmem_data' /\ unsaved' = {}
    \/ flash' = flash /\ unsaved' = unsaved \cup {setting}

(* That keeps the invariant.                                               *)
LEMMA SetKeeps ==
    ASSUME FirmwareInv, NEW setting \in Settings,
           OneIsSet(setting), Saved(setting),
           reply' = "ack", UNCHANGED <<outputs, relay>>,
           nvmem_data' \in SettingsType,
           acknowledged' \in SettingsOf(Names),
           nvmem_data'.Device_Name \notin ObjectNames,
           Database_Revision' \in 0 .. MAX_REVISION
    PROVE  FirmwareInv'
<1>1. SettingsInv /\ OutputsInv
  BY InvSplits
<1>2. \/ flash' = nvmem_data' /\ unsaved' = {}
      \/ flash' = flash /\ unsaved' = unsaved \cup {setting}
  BY DEF Saved
<1>3. \A s \in Settings :
        s # setting => /\ nvmem_data'[s] = nvmem_data[s]
                       /\ acknowledged'[s] = acknowledged[s]
  BY DEF OneIsSet
<1>4. /\ nvmem_data.Device_Name = nvmem_data["Device_Name"]
      /\ "Device_Name" \in Settings
  BY SettingsAre DEF SettingNames
<1>5. NamesUnique' /\ (flash.Device_Name \notin ObjectNames)'
  BY <1>1, <1>2 DEF NamesUnique, SettingsInv
<1>6. FlashHolds'
  BY <1>1, <1>2, <1>3 DEF FlashHolds, SettingsInv
<1>7. SettingsSurvive'
  <2>1. ASSUME NEW s \in Settings, ~NotStored(s)'
        PROVE  nvmem_data'[s] = acknowledged'[s]
    <3>1. CASE s = setting
      BY <3>1, <2>1 DEF NotStored, OneIsSet
    <3>2. CASE s # setting
      <4>1. ~NotStored(s)
        BY <3>2, <2>1, <1>3, <1>4 DEF NotStored
      <4>2. QED
        BY <4>1, <3>2, <1>1, <1>3 DEF SettingsInv, SettingsSurvive
    <3>3. QED
      BY <3>1, <3>2
  <2>2. QED
    BY <2>1, <1>6 DEF SettingsSurvive, FlashHolds
<1>8. SettingsInv'
  BY <1>1, <1>2, <1>5, <1>6, <1>7 DEF SettingsInv
<1>9. OutputsInv' /\ RestInv'
  BY <1>1, OutputsUndisturbed DEF RestInv
<1>10. QED
  BY <1>8, <1>9, InvJoins

(* A write to the device: numbers in range, names no other object has.     *)
LEMMA DeviceWriteKeeps ==
    FirmwareInv /\ Device_Write_Property_Local => FirmwareInv'
<1> SUFFICES ASSUME FirmwareInv, Device_Write_Property_Local
             PROVE  FirmwareInv'
  OBVIOUS
<1>0. /\ SettingsInv /\ OutputsInv /\ RestInv
      /\ nvmem_data \in SettingsType /\ acknowledged \in SettingsOf(Names)
      /\ nvmem_data.Device_Name \notin ObjectNames
      /\ Database_Revision \in 0 .. MAX_REVISION
  BY InvSplits DEF SettingsInv, RestInv, NamesUnique
<1>1. Revised => Database_Revision' \in 0 .. MAX_REVISION
  BY <1>0, FirmwareConstants DEF Revised
<1>2. ASSUME NEW instance \in 0 .. BACNET_MAX_INSTANCE + 1,
             WriteObjectIdentifier(instance)
      PROVE  FirmwareInv'
  <2> DEFINE setting == "Object_Instance_Number"
  <2>1. CASE /\ instance <= BACNET_MAX_INSTANCE
             /\ Set(setting, instance, instance) /\ Revised
    <3>1. instance \in 0 .. BACNET_MAX_INSTANCE
      BY <2>1, FirmwareConstants
    <3>2. /\ nvmem_data' \in SettingsType /\ acknowledged' \in SettingsOf(Names)
          /\ nvmem_data'.Device_Name \notin ObjectNames
          /\ reply' = "ack" /\ UNCHANGED <<outputs, relay>>
      BY <1>0, <2>1, <3>1 DEF Set, Store, SettingsType, SettingsOf
    <3>3. setting \in Settings
      BY SettingsAre DEF SettingNames
    <3>4. OneIsSet(setting)
      BY <1>0, <2>1, SettingsAre
      DEF Set, Store, OneIsSet, SettingNames, SettingsType, SettingsOf
    <3>5. Saved(setting)
      BY <2>1 DEF Set, Saved, nvmem_writeData, Saving
    <3> HIDE DEF setting
    <3>6. QED
      BY <1>1, <2>1, <3>2, <3>3, <3>4, <3>5, SetKeeps
  <2>2. QED
    BY <1>2, <2>1, RefusedKeeps DEF WriteObjectIdentifier
<1>3. ASSUME NEW name \in Names, WriteObjectName(name)
      PROVE  FirmwareInv'
  <2> DEFINE setting == "Device_Name"
  <2>0. setting \in Settings
    BY SettingsAre DEF SettingNames
  <2>1. CASE /\ ~NameTaken(name)
             /\ Set(setting, name, StoredName(name)) /\ Revised
    <3>1. PICK stored \in Names \ LongNames :
            /\ stored = StoredName(name)
            /\ stored \notin ObjectNames
            /\ stored = name \/ name \in LongNames
      BY <1>0, <2>1 DEF StoredName, NameTaken, SettingsType, SettingsOf
    <3>2. /\ nvmem_data' \in SettingsType /\ acknowledged' \in SettingsOf(Names)
          /\ nvmem_data'.Device_Name \notin ObjectNames
          /\ reply' = "ack" /\ UNCHANGED <<outputs, relay>>
      BY <1>0, <2>1, <3>1 DEF Set, Store, SettingsType, SettingsOf
    <3>3. OneIsSet(setting)
      BY <1>0, <2>1, <3>1, SettingsAre
      DEF Set, Store, OneIsSet, SettingNames, SettingsType, SettingsOf
    <3>4. Saved(setting)
      BY <2>1 DEF Set, Saved, nvmem_writeData, Saving
    <3> HIDE DEF setting
    <3>5. QED
      BY <1>1, <2>0, <2>1, <3>2, <3>3, <3>4, SetKeeps
  <2>2. CASE /\ name = nvmem_data.Device_Name
             /\ Store(nvmem_data)
             /\ acknowledged' = [acknowledged EXCEPT !.Device_Name = name]
             /\ UNCHANGED <<flash, unsaved, Database_Revision>>
    <3>1. nvmem_data' = nvmem_data /\ UNCHANGED <<outputs, relay>>
      BY <2>2 DEF Store
    <3>2. acknowledged' \in SettingsOf(Names)
      BY <1>0, <2>2 DEF SettingsOf
    <3>3. FlashHolds'
      BY <1>0, <2>2, <3>1 DEF SettingsInv, FlashHolds
    <3>4. \A s \in Settings :
            acknowledged'[s] = IF s = setting THEN name ELSE acknowledged[s]
      <4>1. DOMAIN acknowledged = Settings
        BY <1>0, SettingsAre DEF SettingsOf, SettingNames
      <4>2. QED
        BY <2>2, <4>1
    <3>5. ASSUME NEW s \in Settings, ~NotStored(s)'
          PROVE  nvmem_data'[s] = acknowledged'[s]
      <4>1. CASE s = setting
        BY <4>1, <2>2, <3>1, <3>4
      <4>2. CASE s # setting
        BY <4>2, <1>0, <3>1, <3>4
        DEF NotStored, SettingsInv, SettingsSurvive
      <4>3. QED
        BY <4>1, <4>2
    <3>6. SettingsSurvive'
      BY <3>3, <3>5 DEF SettingsSurvive, FlashHolds
    <3>7. SettingsInv'
      BY <1>0, <2>2, <3>1, <3>2, <3>3, <3>6 DEF SettingsInv, NamesUnique
    <3>8. OutputsInv' /\ RestInv'
      BY <1>0, <2>2, <3>1, OutputsUndisturbed DEF Store, RestInv
    <3>9. QED
      BY <3>7, <3>8, InvJoins
  <2>3. QED
    BY <1>3, <2>1, <2>2, RefusedKeeps DEF WriteObjectName
<1>4. ASSUME NEW text \in Texts, WriteDescription(text)
      PROVE  FirmwareInv'
  <2> DEFINE setting == "Description"
  <2>1. /\ nvmem_data' \in SettingsType /\ acknowledged' \in SettingsOf(Names)
        /\ nvmem_data'.Device_Name \notin ObjectNames
        /\ reply' = "ack" /\ UNCHANGED <<outputs, relay>>
        /\ Database_Revision' \in 0 .. MAX_REVISION
    BY <1>0, <1>4 DEF WriteDescription, Set, Store, SettingsType, SettingsOf
  <2>2. setting \in Settings
    BY SettingsAre DEF SettingNames
  <2>3. OneIsSet(setting)
    BY <1>0, <1>4, SettingsAre
    DEF WriteDescription, Set, Store, OneIsSet, SettingNames, SettingsType,
        SettingsOf
  <2>4. Saved(setting)
    BY <1>4 DEF WriteDescription, Set, Saved, nvmem_writeData, Saving
  <2> HIDE DEF setting
  <2>5. QED
    BY <2>1, <2>2, <2>3, <2>4, SetKeeps
<1>5. QED
  BY <1>2, <1>3, <1>4, RefusedKeeps DEF Device_Write_Property_Local

(* the timer keeps it, which only switches the relay,                      *)
LEMMA TimerKeeps == FirmwareInv /\ some_timerfunc => FirmwareInv'
<1> SUFFICES ASSUME FirmwareInv, some_timerfunc PROVE FirmwareInv'
  OBVIOUS
<1>1. 0 \in Outputs
  BY FirmwareConstants DEF Outputs
<1>2. relay' \in Commands
  BY <1>1, PresentValueIsCommand
  DEF FirmwareInv, FirmwareTypeOK, LevelsOK, some_timerfunc, Switched
<1>3. OutputsInv'
  BY <1>2, InvSplits DEF some_timerfunc, outputs, OutputsInv, ReservedSlotFree
<1>4. SettingsInv' /\ RestInv'
  BY InvSplits, SettingsUndisturbed
  DEF some_timerfunc, settings, history, RestInv
<1>5. QED
  BY <1>3, <1>4, InvJoins

(* A restart keeps what the settings are: it finds in flash what was       *)
(* acknowledged and saved, or starts all over.                             *)
LEMMA SettingsAreFound == FirmwareInv /\ nvmem_readData => SettingsInv'
<1> SUFFICES ASSUME FirmwareInv, nvmem_readData PROVE SettingsInv'
  OBVIOUS
<1>0. SettingsInv
  BY InvSplits
<1>1. CASE Readable
  <2>1. nvmem_data' = flash /\ flash' = flash /\ unsaved' = {}
    BY <1>1 DEF Readable
  <2>2. /\ acknowledged' = [s \in Settings |->
                IF s \in unsaved THEN flash[s] ELSE acknowledged[s]]
        /\ \A s \in Settings : acknowledged'[s] =
                IF s \in unsaved THEN flash[s] ELSE acknowledged[s]
    BY <1>1 DEF Readable
  <2>3. acknowledged' \in SettingsOf(Names)
    BY <1>0, <2>2, SettingsAre
    DEF SettingsInv, SettingsType, SettingsOf, SettingNames
  <2>4. ASSUME NEW s \in Settings, ~NotStored(s)'
        PROVE  flash[s] = acknowledged'[s]
    <3>1. CASE s \in unsaved
      BY <3>1, <2>2
    <3>2. CASE s \notin unsaved
      <4>1. acknowledged'[s] = acknowledged[s]
        BY <3>2, <2>2
      <4>2. ~NotStored(s)
        BY <4>1, <2>4 DEF NotStored
      <4>3. QED
        BY <4>1, <4>2, <3>2, <1>0 DEF SettingsInv, SettingsSurvive
    <3>3. QED
      BY <3>1, <3>2
  <2>5. SettingsSurvive' /\ FlashHolds'
    BY <2>1, <2>4 DEF SettingsSurvive, FlashHolds
  <2>6. QED
    BY <1>0, <2>1, <2>3, <2>5 DEF SettingsInv, NamesUnique
<1>2. CASE Unreadable
  <2>1. nvmem_data' = DefaultSettings /\ acknowledged' = DefaultSettings
    BY <1>2 DEF Unreadable
  <2>2. \/ flash' = DefaultSettings /\ unsaved' = {}
        \/ flash' = flash /\ unsaved' = unsaved \cup Settings
    BY <1>2 DEF Unreadable, nvmem_writeData, Saving
  <2>3. SettingsSurvive' /\ FlashHolds'
    BY <2>1, <2>2 DEF SettingsSurvive, FlashHolds
  <2>4. QED
    BY <1>0, <2>1, <2>2, <2>3, DefaultsAreOK DEF SettingsInv, NamesUnique
<1>3. QED
  BY <1>1, <1>2 DEF nvmem_readData

(* So does the whole of it,                                                *)
LEMMA RestartKeeps == FirmwareInv /\ user_init => FirmwareInv'
<1> SUFFICES ASSUME FirmwareInv, user_init PROVE FirmwareInv'
  OBVIOUS
<1>1. SettingsInv'
  BY SettingsAreFound DEF user_init
<1>2. OutputsInv' /\ RestInv'
  BY NoCommandsOK, FirmwareConstants
  DEF user_init, OutputsInv, ReservedSlotFree, RestInv
<1>3. QED
  BY <1>1, <1>2, InvJoins

(* and so does every step.                                                 *)
LEMMA FirmwareInvStep == FirmwareInv /\ [FirmwareNext]_firmwareVars => FirmwareInv'
<1>1. FirmwareInv /\ UNCHANGED firmwareVars => FirmwareInv'
  <2> SUFFICES ASSUME FirmwareInv, UNCHANGED firmwareVars PROVE FirmwareInv'
    OBVIOUS
  <2>1. OutputsInv' /\ SettingsInv'
    BY InvSplits, OutputsUndisturbed, SettingsUndisturbed
    DEF firmwareVars, settings, history
  <2>2. RestInv'
    BY InvSplits DEF firmwareVars, settings, RestInv
  <2>3. QED
    BY <2>1, <2>2, InvJoins
<1>2. QED
  BY <1>1, OutputWriteKeeps, DeviceWriteKeeps, TimerKeeps, RestartKeeps
  DEF FirmwareNext, handler_write_property

(* It therefore always holds.                                              *)
LEMMA FirmwareInvariant == FirmwareSpec => []FirmwareInv
  BY FirmwareInvInit, FirmwareInvStep, PTL DEF FirmwareSpec

(* The types of all state, whatever is written and whenever it restarts.   *)
THEOREM FirmwareTypeCorrect == FirmwareSpec => []FirmwareTypeOK
<1>1. FirmwareInv => FirmwareTypeOK
  BY DEF FirmwareInv
<1>2. QED
  BY <1>1, FirmwareInvariant, PTL

(* No client ever holds the priority of the Minimum On/Off algorithm.      *)
THEOREM ReservedPriorityStaysFree == FirmwareSpec => []ReservedSlotFree
<1>1. FirmwareInv => ReservedSlotFree
  BY DEF FirmwareInv
<1>2. QED
  BY <1>1, FirmwareInvariant, PTL

(* The device never carries the name of another object, after any number   *)
(* of writes, restarts and failures to read the flash.                     *)
THEOREM DeviceNameIsUnique == FirmwareSpec => []NamesUnique
<1>1. FirmwareInv => NamesUnique
  BY DEF FirmwareInv
<1>2. QED
  BY <1>1, FirmwareInvariant, PTL

(* Every setting is what was last acknowledged for it, in memory, and in   *)
(* flash once a save has worked since: whatever is written in between,     *)
(* whichever saves fail, and over any number of restarts.                  *)
THEOREM AcknowledgedSettingsSurvive == FirmwareSpec => []SettingsSurvive
<1>1. FirmwareInv => SettingsSurvive
  BY DEF FirmwareInv
<1>2. QED
  BY <1>1, FirmwareInvariant, PTL

----------------------------------------------------------------------------
(* If nothing changes down to a command that stands, the same command      *)
(* comes first before and after.                                           *)
LEMMA SameFirst ==
    ASSUME NEW o \in Outputs, NEW p \in Commanded(o),
           \A q \in 1 .. p :
                Binary_Output_Level'[o][q] = Binary_Output_Level[o][q]
    PROVE  Binary_Output_Present_Value(o)' = Binary_Output_Present_Value(o)
<1>1. Commanded(o) \in SUBSET Nat /\ p \in 1 .. BACNET_MAX_PRIORITY
  BY DEF Commanded, Priorities
<1>2. PICK m \in Commanded(o) : \A q \in Commanded(o) : m <= q
  BY <1>1, Minimum
<1>3. m \in Nat /\ m <= p /\ m \in 1 .. p
  BY <1>1, <1>2, FirmwareConstants DEF Commanded, Priorities
<1>4. \A q \in 1 .. p : q \in Commanded(o) <=> q \in Commanded(o)'
  BY <1>1, FirmwareConstants DEF Commanded, Priorities
<1>5. m \in Commanded(o)' /\ \A q \in Commanded(o)' : m <= q
  <2>1. m \in Commanded(o)'
    BY <1>2, <1>3, <1>4
  <2>2. ASSUME NEW q \in Commanded(o)'
        PROVE  m <= q
    <3>1. q \in 1 .. BACNET_MAX_PRIORITY
      BY DEF Commanded, Priorities
    <3>2. CASE q \in 1 .. p
      BY <3>2, <1>2, <1>4
    <3>3. CASE q \notin 1 .. p
      BY <3>1, <3>3, <1>1, <1>3, FirmwareConstants
    <3>4. QED
      BY <3>2, <3>3
  <2>3. QED
    BY <2>1, <2>2
<1>6. Commanded(o)' \in SUBSET Nat
  BY DEF Commanded, Priorities
<1>7. (CHOOSE n \in Commanded(o) : \A q \in Commanded(o) : n <= q) = m
  BY <1>1, <1>2
<1>8. (CHOOSE n \in Commanded(o)' : \A q \in Commanded(o)' : n <= q) = m
  BY <1>5, <1>6
<1>9. Binary_Output_Present_Value(o) = Binary_Output_Level[o][m]
  BY <1>2, <1>7 DEF Binary_Output_Present_Value
<1>10. Binary_Output_Present_Value(o)' = Binary_Output_Level'[o][m]
  BY <1>5, <1>8 DEF Binary_Output_Present_Value
<1>11. QED
  BY <1>3, <1>9, <1>10

(* Only a write of the present value and a restart change the commands.    *)
LEMMA WhoChangesCommands ==
    ASSUME [FirmwareNext]_firmwareVars, reply' # "none",
           Binary_Output_Level' # Binary_Output_Level
    PROVE  \E o \in Outputs, p \in Priorities,
              command \in Commands \cup {"NULL", "OUT_OF_RANGE"} :
                WritePresentValue(o, p, command)
<1>1. ~user_init /\ ~some_timerfunc
  BY DEF user_init, some_timerfunc, outputs
<1>2. ~Refused /\ ~UNCHANGED firmwareVars
  BY DEF Refused, outputs, firmwareVars
<1>3. ~Device_Write_Property_Local
  BY <1>2 DEF Device_Write_Property_Local, WriteObjectIdentifier,
     WriteObjectName, WriteDescription, Set, Store, outputs
<1>4. \A o \in Outputs, value \in BOOLEAN : ~WriteOutOfService(o, value)
  BY DEF WriteOutOfService
<1>5. Binary_Output_Write_Property
  BY <1>1, <1>2, <1>3 DEF FirmwareNext, handler_write_property
<1>6. QED
  BY <1>2, <1>4, <1>5 DEF Binary_Output_Write_Property

(* No write below a standing command shows through, with any number of     *)
(* priorities.                                                             *)
THEOREM HigherPriorityWins == FirmwareSpec => HigherPriorityHolds
<1> DEFINE Safe ==
        reply' # "none" =>
            \A o \in Outputs : \A p \in Priorities :
                (/\ Binary_Output_Level'[o][p] # Binary_Output_Level[o][p]
                 /\ \E q \in Commanded(o) : q < p)
                => /\ Binary_Output_Present_Value(o)' =
                            Binary_Output_Present_Value(o)
                   /\ \A r \in Outputs \ {o} :
                        Binary_Output_Level'[r] = Binary_Output_Level[r]
<1>1. FirmwareInv /\ [FirmwareNext]_firmwareVars => Safe
  <2> SUFFICES ASSUME FirmwareInv, [FirmwareNext]_firmwareVars, reply' # "none",
                      NEW o \in Outputs, NEW p \in Priorities,
                      Binary_Output_Level'[o][p] # Binary_Output_Level[o][p],
                      NEW q \in Commanded(o), q < p
               PROVE  /\ Binary_Output_Present_Value(o)' =
                                Binary_Output_Present_Value(o)
                      /\ \A r \in Outputs \ {o} :
                            Binary_Output_Level'[r] = Binary_Output_Level[r]
    OBVIOUS
  <2>1. PICK a \in Outputs, b \in Priorities,
             command \in Commands \cup {"NULL", "OUT_OF_RANGE"} :
                WritePresentValue(a, b, command)
    BY WhoChangesCommands
  <2>2. Binary_Output_Level' =
            [Binary_Output_Level EXCEPT
                ![a] = [Binary_Output_Level[a] EXCEPT ![b] = command]]
    BY <2>1 DEF WritePresentValue, Command
  <2>3. a = o /\ b = p
    BY <2>2 DEF FirmwareInv, FirmwareTypeOK
  <2>4. \A n \in 1 .. q :
            Binary_Output_Level'[o][n] = Binary_Output_Level[o][n]
    <3>1. \A n \in 1 .. q : n \in Priorities /\ n # p
      BY FirmwareConstants DEF Commanded, Priorities
    <3>2. QED
      BY <2>2, <2>3, <3>1 DEF FirmwareInv, FirmwareTypeOK
  <2>5. Binary_Output_Present_Value(o)' = Binary_Output_Present_Value(o)
    BY <2>4, SameFirst
  <2>6. QED
    BY <2>2, <2>3, <2>5 DEF FirmwareInv, FirmwareTypeOK
<1>2. QED
  BY <1>1, FirmwareInvariant, PTL DEF FirmwareSpec, HigherPriorityHolds

----------------------------------------------------------------------------
(* The receive path of the UART.                                           *)

Size == UART_RX_BUFFER_SIZE

UARTInv == UARTTypeOK /\ RingAccounts

(* The ring has places.                                                    *)
LEMMA SizeIsPositive == Size \in Nat \ {0}
  BY UARTConstants DEF Size

(* Positions in the ring wrap at most once.                                *)
LEMMA Wraps ==
    ASSUME NEW a \in 0 .. 2 * Size - 1
    PROVE  /\ a % Size = IF a < Size THEN a ELSE a - Size
           /\ a % Size \in Positions
<1>1. CASE a < Size
  <2>1. a % Size = a
    BY <1>1, SizeIsPositive
  <2>2. QED
    BY <1>1, <2>1, SizeIsPositive DEF Positions, Size
<1>2. CASE a >= Size
  <2>1. a \in Size .. 2 * Size - 1
    BY <1>2, SizeIsPositive
  <2>2. a % Size = a - Size
    BY <2>1, SizeIsPositive
  <2>3. QED
    BY <2>1, <2>2, SizeIsPositive DEF Positions, Size
<1>3. QED
  BY <1>1, <1>2, SizeIsPositive

(* n characters of a ring from a position on, followed by those in a FIFO. *)
Content(buff, out, n, rest) ==
    [k \in 1 .. n |-> buff[(out + k - 1) % Size]] \o rest

(* What waits is what is stored and the FIFO, before and after a step.     *)
LEMMA WaitingIsContent ==
    /\ Waiting = Content(pUartBuff, pOutPos, Stored, fifo)
    /\ Waiting' = Content(pUartBuff', pOutPos', Stored', fifo')
  BY DEF Waiting, Content, Size

(* The characters in the ring are a sequence of that length.               *)
LEMMA RingIs ==
    ASSUME NEW buff \in [Positions -> Characters], NEW out \in Positions,
           NEW n \in 0 .. Size
    PROVE  /\ [k \in 1 .. n |-> buff[(out + k - 1) % Size]] \in Seq(Characters)
           /\ Len([k \in 1 .. n |-> buff[(out + k - 1) % Size]]) = n
<1> DEFINE ring == [k \in 1 .. n |-> buff[(out + k - 1) % Size]]
<1>1. ASSUME NEW k \in 1 .. n
      PROVE  buff[(out + k - 1) % Size] \in Characters
  <2>1. out + k - 1 \in 0 .. 2 * Size - 1
    BY SizeIsPositive DEF Positions, Size
  <2>2. (out + k - 1) % Size \in Positions
    BY <2>1, Wraps
  <2>3. QED
    BY <2>2
<1>2. ring \in [1 .. n -> Characters]
  BY <1>1
<1>3. QED
  BY <1>2, SizeIsPositive

(* And with the FIFO a sequence of which every element is known.           *)
LEMMA ContentIs ==
    ASSUME NEW buff \in [Positions -> Characters], NEW out \in Positions,
           NEW n \in 0 .. Size, NEW rest \in Seq(Characters)
    PROVE  /\ Content(buff, out, n, rest) \in Seq(Characters)
           /\ Len(Content(buff, out, n, rest)) = n + Len(rest)
           /\ \A i \in 1 .. n + Len(rest) :
                Content(buff, out, n, rest)[i] =
                    IF i <= n THEN buff[(out + i - 1) % Size]
                    ELSE rest[i - n]
<1> DEFINE ring == [k \in 1 .. n |-> buff[(out + k - 1) % Size]]
<1>3. ring \in Seq(Characters) /\ Len(ring) = n
  BY RingIs
<1>4. \A i \in 1 .. n : ring[i] = buff[(out + i - 1) % Size]
  OBVIOUS
<1> HIDE DEF ring
<1>5. /\ ring \o rest \in Seq(Characters)
      /\ Len(ring \o rest) = n + Len(rest)
      /\ \A i \in 1 .. n + Len(rest) :
            (ring \o rest)[i] = IF i <= n THEN ring[i] ELSE rest[i - n]
  BY <1>3, ConcatProperties
<1>6. Content(buff, out, n, rest) = ring \o rest
  BY DEF Content, ring
<1>7. QED
  BY <1>4, <1>5, <1>6, SizeIsPositive, LenProperties

(* The ring is never full.                                                 *)
LEMMA StoredIsShort ==
    ASSUME UARTInv
    PROVE  Stored \in 0 .. Size - 1 /\ Space = Size - Stored
  BY SizeIsPositive DEF UARTInv, UARTTypeOK, RingAccounts, Stored, Size

----------------------------------------------------------------------------
(* The accounts are right at the start.                                    *)
LEMMA UARTInvInit == UARTInit => UARTInv
<1> SUFFICES ASSUME UARTInit PROVE UARTInv
  OBVIOUS
<1>1. 0 % Size = 0
  BY SizeIsPositive
<1>2. Stored = 0
  BY SizeIsPositive DEF UARTInit, Stored, Size
<1>3. RingAccounts
  BY <1>1, <1>2, SizeIsPositive DEF UARTInit, RingAccounts, Size
<1>4. UARTTypeOK
  BY UARTConstants DEF UARTInit, UARTTypeOK, Positions
<1>5. QED
  BY <1>3, <1>4 DEF UARTInv

(* They stay right when a character is received,                           *)
LEMMA ReceiveKeeps ==
    ASSUME UARTInv, NEW c \in Characters, Receive(c)
    PROVE  UARTInv'
<1>1. fifo' \in Seq(Characters) /\ Len(fifo') <= UART_FIFO_LEN
  BY UARTConstants DEF UARTInv, UARTTypeOK, Receive
<1>2. QED
  BY <1>1
  DEF UARTInv, UARTTypeOK, RingAccounts, Receive, Stored, rxBuffer

(* and when the interrupt posts an event.                                  *)
LEMMA HandlerKeeps ==
    ASSUME UARTInv, uart0_rx_intr_handler
    PROVE  UARTInv'
<1>1. events' \in 0 .. uart_recvTaskQueueLen
  BY UARTConstants DEF UARTInv, UARTTypeOK, uart0_rx_intr_handler
<1>2. QED
  BY <1>1 DEF UARTInv, UARTTypeOK, RingAccounts, uart0_rx_intr_handler,
              Stored, rxBuffer

(* Where the characters of the FIFO go.                                    *)
LEMMA FilledIs ==
    ASSUME UARTInv, Fits
    PROVE  /\ Filled \in [Positions -> Characters]
           /\ \A k \in 0 .. Len(fifo) - 1 :
                Filled[(pInPos + k) % Size] = fifo[k + 1]
           /\ \A i \in Positions :
                (\A k \in 0 .. Len(fifo) - 1 : i # (pInPos + k) % Size)
                => Filled[i] = pUartBuff[i]
<1>0. /\ pInPos \in Positions /\ Size \in Nat \ {0}
      /\ Positions = 0 .. Size - 1
      /\ Len(fifo) \in 0 .. Size - 1
      /\ fifo \in Seq(Characters)
      /\ pUartBuff \in [Positions -> Characters]
  BY SizeIsPositive DEF UARTInv, UARTTypeOK, Fits, Positions, Size
<1> DEFINE Step(i) == (i - pInPos + Size) % Size
<1>1. ASSUME NEW i \in Positions
      PROVE  /\ i - pInPos + Size \in 0 .. 2 * Size - 1
             /\ Step(i) = IF i < pInPos THEN i - pInPos + Size
                          ELSE i - pInPos
             /\ Step(i) \in Nat
  <2>1. i - pInPos + Size \in 0 .. 2 * Size - 1
    BY <1>0
  <2> DEFINE a == i - pInPos + Size
  <2>2. a % Size = IF a < Size THEN a ELSE a - Size
    <3> HIDE DEF a
    <3>1. a \in 0 .. 2 * Size - 1
      BY <2>1 DEF a
    <3>2. QED
      BY <3>1, Wraps
  <2>3. QED
    BY <1>0, <2>1, <2>2
<1>2. \A i \in Positions :
        Filled[i] = IF Step(i) < Len(fifo) THEN fifo[Step(i) + 1]
                    ELSE pUartBuff[i]
  BY DEF Filled, Size
<1>3. Filled \in [Positions -> Characters]
  <2>1. ASSUME NEW i \in Positions
        PROVE  (IF Step(i) < Len(fifo) THEN fifo[Step(i) + 1]
                ELSE pUartBuff[i]) \in Characters
    <3>1. CASE Step(i) < Len(fifo)
      <4>1. Step(i) + 1 \in 1 .. Len(fifo)
        BY <1>0, <1>1, <3>1
      <4> HIDE DEF Step
      <4>2. QED
        BY <1>0, <3>1, <4>1, ElementOfSeq
    <3>2. CASE ~(Step(i) < Len(fifo))
      BY <1>0, <3>2
    <3>3. QED
      BY <3>1, <3>2
  <2>2. QED
    BY <2>1 DEF Filled, Size
<1>4. ASSUME NEW k \in 0 .. Size - 1
      PROVE  /\ (pInPos + k) % Size \in Positions
             /\ Step((pInPos + k) % Size) = k
  <2> DEFINE i == (pInPos + k) % Size
  <2>1. pInPos + k \in 0 .. 2 * Size - 1
    BY <1>0
  <2> DEFINE a == pInPos + k
  <2>2. /\ i \in Positions
        /\ i = IF a < Size THEN a ELSE a - Size
    <3> HIDE DEF a
    <3>1. a \in 0 .. 2 * Size - 1
      BY <2>1 DEF a
    <3>2. a % Size \in Positions /\ a % Size = IF a < Size THEN a ELSE a - Size
      BY <3>1, Wraps
    <3>3. QED
      BY <3>2 DEF a
  <2>3. Step(i) = IF i < pInPos THEN i - pInPos + Size ELSE i - pInPos
    BY <1>1, <2>2
  <2> HIDE DEF i, Step
  <2>4. Step(i) = k
    BY <1>0, <2>2, <2>3
  <2>5. QED
    BY <2>2, <2>4 DEF i
<1> HIDE DEF Step
<1>5. ASSUME NEW k \in 0 .. Len(fifo) - 1
      PROVE  Filled[(pInPos + k) % Size] = fifo[k + 1]
  <2>1. k \in 0 .. Size - 1 /\ k < Len(fifo)
    BY <1>0
  <2>2. QED
    BY <1>2, <1>4, <2>1
<1>6. ASSUME NEW i \in Positions,
             \A k \in 0 .. Len(fifo) - 1 : i # (pInPos + k) % Size
      PROVE  Filled[i] = pUartBuff[i]
  <2>0. PICK n \in Nat : /\ n = Step(i)
                         /\ n = IF i < pInPos THEN i - pInPos + Size
                                ELSE i - pInPos
    BY <1>1
  <2> DEFINE a == pInPos + n
  <2>1. /\ a = IF i < pInPos THEN i + Size ELSE i
        /\ a \in 0 .. 2 * Size - 1
    BY <1>0, <2>0
  <2>2. a % Size = i
    <3> HIDE DEF a
    <3>1. a % Size = IF a < Size THEN a ELSE a - Size
      BY <2>1, Wraps
    <3>2. QED
      BY <1>0, <2>1, <3>1
  <2>3. ~(n < Len(fifo))
    <3>1. SUFFICES ASSUME n \in 0 .. Len(fifo) - 1
                   PROVE  FALSE
      BY <1>0
    <3>2. i # (pInPos + n) % Size
      BY <1>6, <3>1
    <3>3. QED
      BY <2>2, <3>2
  <2>4. QED
    BY <1>2, <2>0, <2>3
<1>7. QED
  BY <1>3, <1>5, <1>6

(* Going on around the ring, and not coming back to where one was.         *)
LEMMA Around ==
    ASSUME NEW a \in Positions, NEW m \in 0 .. Size, NEW k \in 0 .. Size,
           m + k <= Size
    PROVE  (((a + m) % Size) + k) % Size = (a + (m + k)) % Size
<1>0. Positions = 0 .. Size - 1 /\ Size \in Nat \ {0}
  BY SizeIsPositive DEF Positions, Size
<1> DEFINE b == a + m
           c == b % Size
           d == c + k
           e == a + (m + k)
<1>1. b \in 0 .. 2 * Size - 1 /\ e \in 0 .. 2 * Size - 1
  BY <1>0
<1>2. c = (IF b < Size THEN b ELSE b - Size) /\ c \in Positions
  <2> HIDE DEF b
  <2>1. QED
    BY <1>1, Wraps
<1>3. d \in 0 .. 2 * Size - 1
  <2> HIDE DEF c
  <2>1. QED
    BY <1>0, <1>2
<1>4. d % Size = IF d < Size THEN d ELSE d - Size
  <2> HIDE DEF d
  <2>1. QED
    BY <1>3, Wraps
<1>5. e % Size = IF e < Size THEN e ELSE e - Size
  <2> HIDE DEF e
  <2>1. QED
    BY <1>1, Wraps
<1>6. (d < Size <=> (b < Size /\ e < Size) \/ b >= Size)
      /\ (b >= Size => e >= Size)
  <2>1. c = IF b < Size THEN b ELSE b - Size
    BY <1>2
  <2> HIDE DEF c
  <2>2. QED
    BY <1>0, <2>1
<1>7. d % Size = e % Size
  <2>1. c = IF b < Size THEN b ELSE b - Size
    BY <1>2
  <2> HIDE DEF c
  <2>2. (IF d < Size THEN d ELSE d - Size) =
            (IF e < Size THEN e ELSE e - Size)
    BY <1>0, <1>6, <2>1
  <2>3. QED
    BY <1>4, <1>5, <2>2
<1>8. QED
  BY <1>7

(* Less than a round apart, positions differ.                              *)
LEMMA Apart ==
    ASSUME NEW a \in Positions, NEW j \in 0 .. Size - 1,
           NEW l \in 0 .. Size - 1, j < l
    PROVE  (a + j) % Size # (a + l) % Size
<1>0. Positions = 0 .. Size - 1 /\ Size \in Nat \ {0}
  BY SizeIsPositive DEF Positions, Size
<1> DEFINE b == a + j
           c == a + l
<1>1. b \in 0 .. 2 * Size - 1 /\ c \in 0 .. 2 * Size - 1
  BY <1>0
<1>2. /\ b % Size = IF b < Size THEN b ELSE b - Size
      /\ c % Size = IF c < Size THEN c ELSE c - Size
  <2> HIDE DEF b, c
  <2>1. QED
    BY <1>1, Wraps
<1>3. (IF b < Size THEN b ELSE b - Size) # (IF c < Size THEN c ELSE c - Size)
  BY <1>0
<1>4. QED
  BY <1>2, <1>3

----------------------------------------------------------------------------
(* Moving the FIFO to the ring keeps the accounts.                         *)
LEMMA MoveKeeps ==
    ASSUME UARTInv, Uart_rx_buff_enq, UNCHANGED taken,
           events' \in 0 .. uart_recvTaskQueueLen
    PROVE  UARTInv'
<1>1. CASE ~Fits /\ UNCHANGED <<fifo, rx_intr, rxBuffer>>
  BY <1>1 DEF UARTInv, UARTTypeOK, RingAccounts, Stored, rxBuffer
<1>2. CASE Fits /\ Uart_rx_buff_enq /\ fifo' = <<>>
              /\ pUartBuff' = Filled
              /\ pInPos' = (pInPos + Len(fifo)) % UART_RX_BUFFER_SIZE
              /\ Space' = Space - Len(fifo)
              /\ rx_intr' = EnabledBy(Space')
              /\ UNCHANGED pOutPos
  <2>0. /\ Stored \in 0 .. Size - 1 /\ Space = Size - Stored
        /\ Len(fifo) \in Nat /\ Len(fifo) < Space
        /\ pOutPos \in Positions
        /\ Size \in Nat \ {0}
        /\ pInPos = (pOutPos + Stored) % Size
    BY <1>2, StoredIsShort, SizeIsPositive, LenProperties
    DEF UARTInv, UARTTypeOK, RingAccounts, Fits, Size
  <2>1. Stored' = Stored + Len(fifo) /\ Space' \in 1 .. Size
    BY <1>2, <2>0 DEF Stored, Size
  <2>2. pInPos' = (pOutPos + (Stored + Len(fifo))) % Size
    <3>1. Stored \in 0 .. Size /\ Len(fifo) \in 0 .. Size
          /\ Stored + Len(fifo) <= Size
      BY <2>0
    <3> DEFINE m == Stored
               k == Len(fifo)
    <3>2. (((pOutPos + m) % Size) + k) % Size = (pOutPos + (m + k)) % Size
      <4> HIDE DEF m, k
      <4>1. m \in 0 .. Size /\ k \in 0 .. Size /\ m + k <= Size
        BY <3>1 DEF m, k
      <4>2. QED
        BY <2>0, <4>1, Around
    <3>3. QED
      BY <1>2, <2>0, <3>2 DEF Size
  <2>3. pInPos' \in Positions
    <3> DEFINE a == pOutPos + (Stored + Len(fifo))
    <3>1. a \in 0 .. 2 * Size - 1
      BY <2>0 DEF Positions, Size
    <3> HIDE DEF a
    <3>2. a % Size \in Positions
      BY <3>1, Wraps
    <3>3. QED
      BY <2>2, <3>2 DEF a
  <2>4. pUartBuff' \in [Positions -> Characters]
    BY <1>2, FilledIs
  <2>5. rx_intr' \in BOOLEAN
    BY <1>2, <2>1 DEF EnabledBy, UARTInv, UARTTypeOK
  <2>6. fifo' \in Seq(Characters) /\ Len(fifo') <= UART_FIFO_LEN
    BY <1>2, UARTConstants
  <2>7. RingAccounts'
    BY <1>2, <2>1, <2>2, SizeIsPositive DEF RingAccounts, Size
  <2>8. UARTTypeOK'
    BY <1>2, <2>1, <2>3, <2>4, <2>5, <2>6
    DEF UARTInv, UARTTypeOK, Size
  <2>9. QED
    BY <2>7, <2>8 DEF UARTInv
<1>3. QED
  BY <1>1, <1>2 DEF Uart_rx_buff_enq

(* Without wrapping, the copy of rx_buff_deq stays in the ring anyway.     *)
LEMMA OutPosIs ==
    ASSUME UARTInv, NEW k \in 0 .. Stored
    PROVE  OutPos(k) = (pOutPos + k) % Size /\ OutPos(k) \in Positions
<1>0. /\ Stored \in 0 .. Size - 1 /\ pOutPos \in 0 .. Size - 1
      /\ Size \in Nat \ {0} /\ Positions = 0 .. Size - 1
      /\ pInPos = (pOutPos + Stored) % Size
  BY StoredIsShort, SizeIsPositive
  DEF UARTInv, UARTTypeOK, RingAccounts, Positions, Size
<1> DEFINE a == pOutPos + Stored
           b == pOutPos + k
<1>1. a \in 0 .. 2 * Size - 1 /\ b \in 0 .. 2 * Size - 1
  BY <1>0
<1>2. /\ a % Size = IF a < Size THEN a ELSE a - Size
      /\ b % Size = IF b < Size THEN b ELSE b - Size
      /\ b % Size \in Positions
  <2> HIDE DEF a, b
  <2>1. QED
    BY <1>1, Wraps
<1>3. CASE pOutPos <= pInPos
  <2>1. a < Size
    <3>1. pInPos = IF a < Size THEN a ELSE a - Size
      BY <1>0, <1>2
    <3>2. QED
      BY <1>0, <1>3, <3>1
  <2>2. b < Size
    BY <1>0, <2>1
  <2>3. b % Size = b
    BY <1>2, <2>2
  <2>4. OutPos(k) = b
    BY <1>3 DEF OutPos
  <2>5. QED
    BY <1>2, <2>3, <2>4
<1>4. CASE ~(pOutPos <= pInPos)
  BY <1>2, <1>4 DEF OutPos, Size
<1>5. QED
  BY <1>3, <1>4

(* What rx_buff_deq does, in terms of the number of characters it takes.   *)
Taking(len) ==
    /\ len \in 0 .. Stored
    /\ taken' = [k \in 1 .. len |-> pUartBuff[(pOutPos + k - 1) % Size]]
    /\ pOutPos' = (pOutPos + len) % Size
    /\ Space' = Space + len
    /\ rx_intr' \in BOOLEAN
    /\ UNCHANGED <<fifo, events, pUartBuff, pInPos>>

LEMMA ReadTakes ==
    ASSUME UARTInv, NEW data_len \in Nat, rx_buff_deq(data_len)
    PROVE  \E len \in 0 .. Stored : len <= data_len /\ Taking(len)
<1> DEFINE len == IF data_len > Stored THEN Stored ELSE data_len
<1>1. len \in 0 .. Stored /\ len <= data_len
  BY StoredIsShort, SizeIsPositive
<1>2. /\ taken' = [k \in 1 .. len |-> pUartBuff[OutPos(k - 1)]]
      /\ pOutPos' = OutPos(len)
      /\ Space' = Space + len
      /\ rx_intr' = EnabledBy(Space')
      /\ UNCHANGED <<fifo, events, pUartBuff, pInPos>>
  BY DEF rx_buff_deq
<1> HIDE DEF len
<1>3. pOutPos' = (pOutPos + len) % Size
  BY <1>1, <1>2, OutPosIs
<1>4. ASSUME NEW k \in 1 .. len
      PROVE  pUartBuff[OutPos(k - 1)] = pUartBuff[(pOutPos + k - 1) % Size]
  <2>1. k - 1 \in 0 .. Stored /\ pOutPos \in Int
    BY <1>1, StoredIsShort, SizeIsPositive
    DEF UARTInv, UARTTypeOK, Positions, Size
  <2>2. OutPos(k - 1) = (pOutPos + (k - 1)) % Size
    BY <2>1, OutPosIs
  <2>3. pOutPos + (k - 1) = pOutPos + k - 1
    BY <2>1
  <2>4. QED
    BY <2>2, <2>3
<1>5. taken' = [k \in 1 .. len |-> pUartBuff[(pOutPos + k - 1) % Size]]
  BY <1>2, <1>4
<1>6. rx_intr' \in BOOLEAN
  BY <1>1, <1>2, StoredIsShort, SizeIsPositive
  DEF EnabledBy, UARTInv, UARTTypeOK
<1>7. QED
  BY <1>1, <1>2, <1>3, <1>5, <1>6 DEF Taking

(* What is taken is the beginning of the content, as long as it was asked. *)
LEMMA TakenIs ==
    ASSUME UARTInv, NEW len \in 0 .. Stored, Taking(len)
    PROVE  taken' \in Seq(Characters) /\ Len(taken') = len
<1>1. /\ pUartBuff \in [Positions -> Characters] /\ pOutPos \in Positions
      /\ len \in 0 .. Size
  BY StoredIsShort, SizeIsPositive DEF UARTInv, UARTTypeOK
<1>2. taken' = [k \in 1 .. len |-> pUartBuff[(pOutPos + k - 1) % Size]]
  BY DEF Taking
<1>3. ASSUME NEW k \in 1 .. len
      PROVE  pUartBuff[(pOutPos + k - 1) % Size] \in Characters
  <2> DEFINE a == pOutPos + k - 1
  <2>1. a \in 0 .. 2 * Size - 1
    BY <1>1, SizeIsPositive DEF Positions, Size
  <2> HIDE DEF a
  <2>2. a % Size \in Positions
    BY <2>1, Wraps
  <2>3. QED
    BY <1>1, <2>2 DEF a
<1>4. QED
  BY <1>1, <1>2, <1>3

(* Reading keeps the accounts.                                             *)
LEMMA ReadKeeps ==
    ASSUME UARTInv, NEW data_len \in Nat, rx_buff_deq(data_len)
    PROVE  UARTInv'
<1>1. PICK len \in 0 .. Stored : Taking(len)
  BY ReadTakes
<1>0. /\ Stored \in 0 .. Size - 1 /\ Space = Size - Stored
      /\ pOutPos \in Positions /\ Size \in Nat \ {0}
      /\ pInPos = (pOutPos + Stored) % Size
  BY StoredIsShort, SizeIsPositive
  DEF UARTInv, UARTTypeOK, RingAccounts, Size
<1>2. taken' \in Seq(Characters)
  BY <1>1, TakenIs
<1>3. Stored' = Stored - len /\ Space' \in 1 .. Size
  BY <1>0, <1>1 DEF Taking, Stored, Size
<1>4. pOutPos' \in Positions
  <2> DEFINE a == pOutPos + len
  <2>1. a \in 0 .. 2 * Size - 1
    BY <1>0, <1>1 DEF Positions, Size
  <2> HIDE DEF a
  <2>2. a % Size \in Positions
    BY <2>1, Wraps
  <2>3. QED
    BY <1>1, <2>2 DEF Taking, a
<1>5. pInPos' = (pOutPos' + Stored') % Size
  <2> DEFINE m == len
             k == Stored - len
  <2>1. m \in 0 .. Size /\ k \in 0 .. Size /\ m + k = Stored
    BY <1>0, <1>1
  <2>2. (((pOutPos + m) % Size) + k) % Size = (pOutPos + (m + k)) % Size
    <3> HIDE DEF m, k
    <3>1. QED
      BY <1>0, <2>1, Around
  <2>3. QED
    BY <1>0, <1>1, <1>3, <2>1, <2>2 DEF Taking
<1>6. RingAccounts'
  BY <1>0, <1>3, <1>5 DEF RingAccounts, Size
<1>7. UARTTypeOK'
  BY <1>1, <1>2, <1>3, <1>4 DEF UARTInv, UARTTypeOK, Taking, Size
<1>8. QED
  BY <1>6, <1>7 DEF UARTInv

----------------------------------------------------------------------------
(* Moving the FIFO to the ring loses and reorders nothing.                 *)
LEMMA MoveKeepsWaiting ==
    ASSUME UARTInv, Uart_rx_buff_enq
    PROVE  Waiting' = Waiting
<1>1. CASE ~Fits /\ UNCHANGED <<fifo, rx_intr, rxBuffer>>
  BY <1>1 DEF Waiting, Stored, rxBuffer
<1>2. CASE /\ Fits /\ fifo' = <<>> /\ pUartBuff' = Filled
           /\ Space' = Space - Len(fifo) /\ UNCHANGED pOutPos
  <2> DEFINE n == Stored
             f == Len(fifo)
  <2>0. /\ n \in 0 .. Size - 1 /\ f \in Nat /\ n + f < Size
        /\ pOutPos \in Positions /\ Size \in Nat \ {0}
        /\ Positions = 0 .. Size - 1
        /\ pInPos = (pOutPos + n) % Size
        /\ fifo \in Seq(Characters)
        /\ pUartBuff \in [Positions -> Characters]
    BY <1>2, StoredIsShort, SizeIsPositive, LenProperties, SMTT(60)
    DEF UARTInv, UARTTypeOK, RingAccounts, Fits, Size, Positions
  <2>1. Stored' = n + f
    BY <1>2, <2>0, StoredIsShort DEF Stored, Size
  <2>2. Filled \in [Positions -> Characters]
    BY <1>2, FilledIs
  <2>3. Waiting' = Content(Filled, pOutPos, n + f, <<>>)
    BY <1>2, <2>1, WaitingIsContent
  <2>4. Waiting = Content(pUartBuff, pOutPos, n, fifo)
    BY WaitingIsContent
  <2> HIDE DEF n, f
  <2>5. /\ <<>> \in Seq(Characters) /\ Len(<<>>) = 0
        /\ n + f \in 0 .. Size /\ n \in 0 .. Size
    BY <2>0
  <2>6. /\ Waiting' \in Seq(Characters)
        /\ Len(Waiting') = n + f
        /\ \A i \in 1 .. n + f :
             Waiting'[i] = Filled[(pOutPos + i - 1) % Size]
    <3> DEFINE m == n + f
               rest == <<>>
    <3>1. m \in 0 .. Size /\ m \in Nat /\ rest \in Seq(Characters)
          /\ Len(rest) = 0
      BY <2>0, <2>5
    <3>2. Waiting' = Content(Filled, pOutPos, m, rest)
      BY <2>3
    <3> HIDE DEF m, rest
    <3>3. /\ Content(Filled, pOutPos, m, rest) \in Seq(Characters)
          /\ Len(Content(Filled, pOutPos, m, rest)) = m + Len(rest)
          /\ \A i \in 1 .. m + Len(rest) :
               Content(Filled, pOutPos, m, rest)[i] =
                    IF i <= m THEN Filled[(pOutPos + i - 1) % Size]
                    ELSE rest[i - m]
      <4>1. Filled \in [Positions -> Characters] /\ pOutPos \in Positions
            /\ m \in 0 .. Size /\ rest \in Seq(Characters)
        BY <2>0, <2>2, <3>1
      <4>2. QED
        BY ONLY <4>1, ContentIs
    <3>4. m + Len(rest) = m /\ \A i \in 1 .. m : i <= m
      BY <3>1
    <3>5. /\ Waiting' \in Seq(Characters) /\ Len(Waiting') = m
          /\ \A i \in 1 .. m :
                Waiting'[i] = Filled[(pOutPos + i - 1) % Size]
      BY <3>2, <3>3, <3>4
    <3>6. QED
      BY <3>5 DEF m
  <2>7. /\ Waiting \in Seq(Characters)
        /\ Len(Waiting) = n + f
        /\ \A i \in 1 .. n + f :
             Waiting[i] = IF i <= n THEN pUartBuff[(pOutPos + i - 1) % Size]
                          ELSE fifo[i - n]
    <3>1. /\ Content(pUartBuff, pOutPos, n, fifo) \in Seq(Characters)
          /\ Len(Content(pUartBuff, pOutPos, n, fifo)) = n + Len(fifo)
          /\ \A i \in 1 .. n + Len(fifo) :
               Content(pUartBuff, pOutPos, n, fifo)[i] =
                    IF i <= n THEN pUartBuff[(pOutPos + i - 1) % Size]
                    ELSE fifo[i - n]
      <4>1. /\ pUartBuff \in [Positions -> Characters]
            /\ pOutPos \in Positions /\ n \in 0 .. Size
            /\ fifo \in Seq(Characters)
        BY <2>0, <2>5
      <4>2. QED
        BY ONLY <4>1, ContentIs
    <3>2. QED
      BY <2>4, <3>1 DEF f
  <2>8. ASSUME NEW k \in 0 .. f - 1
        PROVE  (pInPos + k) % Size = (pOutPos + (n + k)) % Size
    <3>1. k \in 0 .. Size /\ n + k <= Size
      BY <2>0
    <3>2. (((pOutPos + n) % Size) + k) % Size = (pOutPos + (n + k)) % Size
      BY <2>0, <2>5, <3>1, Around, ZenonT(60)
    <3>3. QED
      BY <2>0, <3>2
  <2>9. ASSUME NEW i \in 1 .. n + f
        PROVE  Waiting'[i] = Waiting[i]
    <3>0. Waiting'[i] = Filled[(pOutPos + i - 1) % Size]
      BY <2>0, <2>6
    <3>1. CASE i <= n
      <4> DEFINE j == i - 1
                 p == (pOutPos + j) % Size
      <4>1. j \in 0 .. Size - 1 /\ pOutPos + j \in 0 .. 2 * Size - 1
            /\ pOutPos + j = pOutPos + i - 1 /\ j < n
        BY <2>0, <3>1
      <4> HIDE DEF j
      <4>2. p \in Positions
        <5> DEFINE a == pOutPos + j
        <5>1. a \in 0 .. 2 * Size - 1
          BY <4>1
        <5> HIDE DEF a
        <5>2. a % Size \in Positions
          BY <5>1, Wraps
        <5>3. QED
          BY <5>2 DEF a
      <4>3. ASSUME NEW k \in 0 .. f - 1
            PROVE  p # (pInPos + k) % Size
        <5> DEFINE l == n + k
        <5>1. l \in 0 .. Size - 1 /\ j < l
          BY <2>0, <4>1
        <5> HIDE DEF l
        <5>2. (pOutPos + j) % Size # (pOutPos + l) % Size
          BY <2>0, <4>1, <5>1, Apart
        <5>3. QED
          BY <2>8, <5>2 DEF l
      <4>4. Filled[p] = pUartBuff[p]
        <5> HIDE DEF p
        <5>1. QED
          BY <1>2, <4>2, <4>3, FilledIs DEF f
      <4>5. QED
        BY <2>7, <3>0, <3>1, <4>1, <4>4
    <3>2. CASE ~(i <= n)
      <4> DEFINE k == i - 1 - n
      <4>1. k \in 0 .. f - 1 /\ n + k = i - 1 /\ k + 1 = i - n
            /\ pOutPos + (i - 1) = pOutPos + i - 1
        BY <2>0, <3>2
      <4> HIDE DEF k
      <4>2. Filled[(pInPos + k) % Size] = fifo[k + 1]
        BY <1>2, <4>1, FilledIs DEF f
      <4>3. (pInPos + k) % Size = (pOutPos + (n + k)) % Size
        BY <2>8, <4>1
      <4>4. QED
        BY <2>7, <3>0, <3>2, <4>1, <4>2, <4>3
    <3>3. QED
      BY <3>1, <3>2
  <2>10. QED
    BY <2>0, <2>6, <2>7, <2>9, SeqEqual
<1>3. QED
  BY <1>1, <1>2 DEF Uart_rx_buff_enq

(* A received character comes last.                                        *)
LEMMA ReceiveAppends ==
    ASSUME UARTInv, NEW c \in Characters, Receive(c)
    PROVE  Waiting' = Append(Waiting, c)
<1> DEFINE ring == [k \in 1 .. Stored |->
                        pUartBuff[(pOutPos + k - 1) % UART_RX_BUFFER_SIZE]]
<1>1. ring \in Seq(Characters)
  <2>1. /\ pUartBuff \in [Positions -> Characters] /\ pOutPos \in Positions
        /\ Stored \in 0 .. Size
    BY StoredIsShort, SizeIsPositive DEF UARTInv, UARTTypeOK
  <2>2. QED
    BY <2>1, RingIs DEF Size
<1>2. fifo \in Seq(Characters)
  BY DEF UARTInv, UARTTypeOK
<1>3. Waiting = ring \o fifo
  BY DEF Waiting
<1>4. Waiting' = ring \o Append(fifo, c)
  BY DEF Waiting, Receive, rxBuffer, Stored
<1> HIDE DEF ring
<1>5. Append(fifo, c) = fifo \o <<c>>
  BY <1>2, AppendIsConcat
<1>6. <<c>> \in Seq(Characters)
  OBVIOUS
<1>7. ring \o (fifo \o <<c>>) = (ring \o fifo) \o <<c>>
  BY <1>1, <1>2, <1>6, ConcatAssociative
<1>8. ring \o fifo \in Seq(Characters)
  BY <1>1, <1>2, ConcatProperties
<1>9. Append(Waiting, c) = Waiting \o <<c>>
  BY <1>3, <1>8, AppendIsConcat
<1>10. QED
  BY <1>3, <1>4, <1>5, <1>7, <1>9

(* Of what waits, a reader takes the beginning and leaves the rest.        *)
LEMMA ReadTakesFirst ==
    ASSUME UARTInv, NEW len \in 0 .. Stored, Taking(len)
    PROVE  /\ len \in 0 .. Len(Waiting)
           /\ taken' = SubSeq(Waiting, 1, len)
           /\ Waiting' = SubSeq(Waiting, len + 1, Len(Waiting))
<1> DEFINE n == Stored
           f == Len(fifo)
           W == Waiting
           L == n + f
           out == (pOutPos + len) % Size
<1>0. /\ n \in 0 .. Size - 1 /\ f \in Nat /\ len \in 0 .. n
      /\ Space = Size - n
      /\ pOutPos \in Positions /\ Size \in Nat \ {0}
      /\ Positions = 0 .. Size - 1
      /\ fifo \in Seq(Characters)
      /\ pUartBuff \in [Positions -> Characters]
  BY StoredIsShort, SizeIsPositive, LenProperties
  DEF UARTInv, UARTTypeOK, Size, Positions
<1>1. /\ Stored' = n - len /\ fifo' = fifo /\ pUartBuff' = pUartBuff
      /\ pOutPos' = out
  BY <1>0 DEF Taking, Stored, Size
<1>2. out \in Positions
  <2> DEFINE a == pOutPos + len
  <2>1. a \in 0 .. 2 * Size - 1
    BY <1>0
  <2> HIDE DEF a
  <2>2. a % Size \in Positions
    BY <2>1, Wraps
  <2>3. QED
    BY <2>2 DEF a
<1>3. W = Content(pUartBuff, pOutPos, n, fifo)
  BY WaitingIsContent
<1>4. Waiting' = Content(pUartBuff, out, n - len, fifo)
  BY <1>1, WaitingIsContent
<1> HIDE DEF n, f, W, out
<1>5. /\ W \in Seq(Characters) /\ Len(W) = L
      /\ \A i \in 1 .. L :
            W[i] = IF i <= n THEN pUartBuff[(pOutPos + i - 1) % Size]
                   ELSE fifo[i - n]
  <2>1. /\ pUartBuff \in [Positions -> Characters] /\ pOutPos \in Positions
        /\ n \in 0 .. Size /\ fifo \in Seq(Characters)
    BY <1>0
  <2>2. /\ Content(pUartBuff, pOutPos, n, fifo) \in Seq(Characters)
        /\ Len(Content(pUartBuff, pOutPos, n, fifo)) = n + Len(fifo)
        /\ \A i \in 1 .. n + Len(fifo) :
              Content(pUartBuff, pOutPos, n, fifo)[i] =
                    IF i <= n THEN pUartBuff[(pOutPos + i - 1) % Size]
                    ELSE fifo[i - n]
    BY ONLY <2>1, ContentIs
  <2>3. QED
    BY <1>3, <2>2 DEF f
<1> DEFINE m == n - len
<1>6. /\ Waiting' \in Seq(Characters) /\ Len(Waiting') = m + f
      /\ \A i \in 1 .. m + f :
            Waiting'[i] = IF i <= m THEN pUartBuff[(out + i - 1) % Size]
                          ELSE fifo[i - m]
  <2>1. /\ pUartBuff \in [Positions -> Characters] /\ out \in Positions
        /\ m \in 0 .. Size /\ fifo \in Seq(Characters)
    BY <1>0, <1>2
  <2> HIDE DEF m
  <2>2. /\ Content(pUartBuff, out, m, fifo) \in Seq(Characters)
        /\ Len(Content(pUartBuff, out, m, fifo)) = m + Len(fifo)
        /\ \A i \in 1 .. m + Len(fifo) :
              Content(pUartBuff, out, m, fifo)[i] =
                    IF i <= m THEN pUartBuff[(out + i - 1) % Size]
                    ELSE fifo[i - m]
    BY ONLY <2>1, ContentIs
  <2>3. Waiting' = Content(pUartBuff, out, m, fifo)
    BY <1>4 DEF m
  <2>4. QED
    BY <2>2, <2>3 DEF f
<1>7. taken' = SubSeq(W, 1, len)
  <2>1. /\ taken' \in Seq(Characters) /\ Len(taken') = len
        /\ \A i \in 1 .. len :
                taken'[i] = pUartBuff[(pOutPos + i - 1) % Size]
    BY TakenIs DEF Taking
  <2>2. \A i \in 1 .. len : W[i] \in Characters
    BY <1>0, <1>5, ElementOfSeq
  <2>3. /\ SubSeq(W, 1, len) \in Seq(Characters)
        /\ Len(SubSeq(W, 1, len)) = len
        /\ \A i \in 1 .. len : SubSeq(W, 1, len)[i] = W[i]
    <3>1. 1 \in Int /\ len \in Int
      BY <1>0
    <3>2. /\ SubSeq(W, 1, len) \in Seq(Characters)
          /\ Len(SubSeq(W, 1, len)) = IF 1 <= len THEN len - 1 + 1 ELSE 0
          /\ \A i \in 1 .. len - 1 + 1 : SubSeq(W, 1, len)[i] = W[1 + i - 1]
      BY ONLY <2>2, <3>1, SubSeqProperties
    <3>3. (IF 1 <= len THEN len - 1 + 1 ELSE 0) = len /\ len - 1 + 1 = len
          /\ \A i \in 1 .. len : 1 + i - 1 = i
      BY <1>0
    <3>4. QED
      BY <3>2, <3>3
  <2>4. \A i \in 1 .. len : taken'[i] = SubSeq(W, 1, len)[i]
    <3>1. SUFFICES ASSUME NEW i \in 1 .. len
                   PROVE  taken'[i] = SubSeq(W, 1, len)[i]
      OBVIOUS
    <3>2. i \in 1 .. L /\ i <= n
      BY <1>0
    <3>3. W[i] = pUartBuff[(pOutPos + i - 1) % Size]
      BY <1>5, <3>2
    <3>4. QED
      BY <2>1, <2>3, <3>3
  <2>5. QED
    BY <2>1, <2>3, <2>4, SeqEqual
<1>8. Waiting' = SubSeq(W, len + 1, L)
  <2>0. /\ len + 1 \in Int /\ L \in Int /\ L - (len + 1) + 1 = m + f
        /\ (IF len + 1 <= L THEN L - (len + 1) + 1 ELSE 0) = m + f
        /\ \A i \in 1 .. m + f : len + 1 + i - 1 = len + i
                                 /\ len + i \in 1 .. L
    BY <1>0
  <2>1. \A i \in len + 1 .. L : W[i] \in Characters
    BY <1>0, <1>5, ElementOfSeq
  <2>2. /\ SubSeq(W, len + 1, L) \in Seq(Characters)
        /\ Len(SubSeq(W, len + 1, L)) = m + f
        /\ \A i \in 1 .. m + f : SubSeq(W, len + 1, L)[i] = W[len + i]
    <3> DEFINE b == len + 1
               e == L
    <3>1. b \in Int /\ e \in Int /\ \A i \in b .. e : W[i] \in Characters
      BY <2>0, <2>1
    <3> HIDE DEF b, e
    <3>2. /\ SubSeq(W, b, e) \in Seq(Characters)
          /\ Len(SubSeq(W, b, e)) = IF b <= e THEN e - b + 1 ELSE 0
          /\ \A i \in 1 .. e - b + 1 : SubSeq(W, b, e)[i] = W[b + i - 1]
      BY ONLY <3>1, SubSeqProperties
    <3>3. QED
      BY <2>0, <3>2 DEF b, e
  <2>3. ASSUME NEW i \in 1 .. m + f
        PROVE  Waiting'[i] = W[len + i]
    <3>0. W[len + i] = IF len + i <= n
                       THEN pUartBuff[(pOutPos + (len + i) - 1) % Size]
                       ELSE fifo[(len + i) - n]
      BY <1>5, <2>0
    <3>1. CASE i <= m
      <4> DEFINE k == i - 1
      <4>1. /\ len \in 0 .. Size /\ k \in 0 .. Size /\ len + k <= Size
            /\ out + k \in Int /\ pOutPos + (len + k) \in Int
            /\ len + i <= n
            /\ pOutPos + (len + k) = pOutPos + (len + i) - 1
            /\ out + k = out + i - 1
        BY <1>0, <1>2, <3>1
      <4> HIDE DEF k
      <4>2. (((pOutPos + len) % Size) + k) % Size = (pOutPos + (len + k)) % Size
        BY <1>0, <4>1, Around
      <4>3. Waiting'[i] = pUartBuff[(out + i - 1) % Size]
        BY <1>6, <3>1
      <4>4. QED
        BY <3>0, <4>1, <4>2, <4>3 DEF out
    <3>2. CASE ~(i <= m)
      <4>1. ~(len + i <= n) /\ (len + i) - n = i - m
        BY <1>0, <3>2
      <4>2. QED
        BY <1>6, <3>0, <3>2, <4>1
    <3>3. QED
      BY <3>1, <3>2
  <2>4. Waiting' \in Seq(Characters) /\ Len(Waiting') = m + f
        /\ \A i \in 1 .. m + f : Waiting'[i] = SubSeq(W, len + 1, L)[i]
    BY <1>6, <2>2, <2>3
  <2>5. QED
    BY <2>2, <2>4, SeqEqual
<1>9. len \in 0 .. Len(W)
  BY <1>0, <1>5
<1>10. QED
  BY <1>5, <1>7, <1>8, <1>9 DEF W

----------------------------------------------------------------------------
(* The console on top of it.                                               *)

ConsoleInv == ConsoleTypeOK /\ RingAccounts

(* The kinds of step that touch the UART, and those that do not.           *)
LEMMA Steps ==
    ASSUME Next
    PROVE  \/ \E c \in Characters : Receive(c) /\ UNCHANGED console
           \/ uart0_rx_intr_handler /\ UNCHANGED console
           \/ uart_recvTask /\ UNCHANGED console
           \/ ReadAction
           \/ ReadLine
           \/ /\ UNCHANGED <<uartVars, currentQueue, scanned>>
              /\ uart_console_state' \in States
              /\ NoLine
           \/ wifi_scanDone_cb
  BY DEF Next, Driver, uart_console_process, Goto, States

----------------------------------------------------------------------------
(* A line has room, and what it keeps fits.                                *)
LEMMA KeptFits ==
    ASSUME ConsoleInv
    PROVE  /\ Kept \in Seq(Characters)
           /\ Room \in Nat
           /\ Len(Kept) + Room = bufferSize
<1>1. KeptAll \in Seq(Characters) /\ Len(KeptAll) \in 0 .. bufferSize
  <2>1. CASE currentQueue = NULL
    BY <2>1, ConsoleConstants DEF KeptAll
  <2>2. CASE currentQueue # NULL
    BY <2>2, ConsoleConstants, LenProperties
    DEF KeptAll, ConsoleInv, ConsoleTypeOK
  <2>3. QED
    BY <2>1, <2>2
<1>2. bufferSize \in Nat \ {0}
  BY ConsoleConstants
<1> HIDE DEF KeptAll
<1>3. CASE Len(KeptAll) < bufferSize
  BY <1>1, <1>2, <1>3 DEF Kept, Room
<1>4. CASE ~(Len(KeptAll) < bufferSize)
  <2> DEFINE b == bufferSize - 1
  <2>1. /\ 1 \in Int /\ b \in Int /\ b \in Nat
        /\ b + 1 = bufferSize
        /\ \A i \in 1 .. b : KeptAll[i] \in Characters
    BY <1>1, <1>2, <1>4, ElementOfSeq
  <2>2. Kept = SubSeq(KeptAll, 1, b)
    BY <1>4 DEF Kept
  <2> HIDE DEF b
  <2>3. /\ SubSeq(KeptAll, 1, b) \in Seq(Characters)
        /\ Len(SubSeq(KeptAll, 1, b)) = IF 1 <= b THEN b - 1 + 1 ELSE 0
    BY ONLY <2>1, SubSeqProperties
  <2>4. Kept \in Seq(Characters) /\ Len(Kept) = b
    BY <2>1, <2>2, <2>3
  <2>5. QED
    BY <1>2, <2>1, <2>4 DEF Room
<1>5. QED
  BY <1>3, <1>4

(* The line that is returned has no newline and fits, and what is not yet  *)
(* a line is kept whole.                                                   *)
LEMMA GetLineKeeps ==
    ASSUME ConsoleInv, uart_console_getLine
    PROVE  /\ currentQueue' = NULL \/ /\ currentQueue' \in Seq(Characters)
                                      /\ Len(currentQueue') <= bufferSize
           /\ lineLen' \in -1 .. bufferSize - 1
           /\ line' \in Seq(Characters \ {newline})
<1> DEFINE queue == Kept \o taken'
<1>0. bufferSize \in Nat \ {0}
  BY ConsoleConstants
<1>1. UARTInv
  BY DEF ConsoleInv, ConsoleTypeOK, UARTInv
<1>2. Room \in Nat /\ Kept \in Seq(Characters) /\ Len(Kept) \in Nat
      /\ Len(Kept) + Room = bufferSize
  BY KeptFits, LenProperties
<1>3. taken' \in Seq(Characters) /\ Len(taken') \in 0 .. Room
  <2>1. rx_buff_deq(Room)
    BY DEF uart_console_getLine
  <2>2. PICK len \in 0 .. Stored : len <= Room /\ Taking(len)
    BY <1>1, <1>2, <2>1, ReadTakes
  <2>3. taken' \in Seq(Characters) /\ Len(taken') = len
    BY <1>1, <2>2, TakenIs
  <2>4. QED
    BY <1>1, <1>2, <2>2, <2>3, StoredIsShort, SizeIsPositive
<1>4. queue \in Seq(Characters) /\ Len(queue) \in 0 .. bufferSize
  BY <1>2, <1>3, ConcatProperties
<1>5. \/ currentQueue' = queue /\ NoLine
      \/ \E i \in Ends(queue) :
            /\ \A j \in Ends(queue) : i <= j
            /\ currentQueue' = NULL
            /\ lineLen' = Len(queue) - 1
            /\ line' = SubSeq(queue, 1, i - 1)
  BY DEF uart_console_getLine
<1> HIDE DEF queue
<1>6. CASE currentQueue' = queue /\ NoLine
  BY <1>0, <1>4, <1>6 DEF NoLine
<1>7. ASSUME NEW i \in Ends(queue), \A j \in Ends(queue) : i <= j,
             currentQueue' = NULL, lineLen' = Len(queue) - 1,
             line' = SubSeq(queue, 1, i - 1)
      PROVE  /\ currentQueue' = NULL
             /\ lineLen' \in -1 .. bufferSize - 1
             /\ line' \in Seq(Characters \ {newline})
  <2>1. i \in 1 .. Len(queue) /\ Len(queue) \in Nat
    BY <1>4 DEF Ends
  <2> DEFINE b == i - 1
             S == Characters \ {newline}
  <2>2. \A j \in 1 .. b : queue[j] \in S
    <3>1. SUFFICES ASSUME NEW j \in 1 .. b PROVE queue[j] \in S
      OBVIOUS
    <3>2. j \in 1 .. Len(queue) /\ j < i
      BY <2>1
    <3>3. queue[j] \in Characters
      BY <1>4, <3>2, ElementOfSeq
    <3>4. queue[j] # newline
      BY <1>7, <2>1, <3>2 DEF Ends
    <3>5. QED
      BY <3>3, <3>4
  <2>3. 1 \in Int /\ b \in Int
    BY <2>1
  <2> HIDE DEF b, S
  <2>4. SubSeq(queue, 1, b) \in Seq(S)
    BY ONLY <2>2, <2>3, SubSeqProperties
  <2>5. lineLen' \in -1 .. bufferSize - 1
    BY <1>0, <1>4, <1>7, <2>1
  <2>6. QED
    BY <1>7, <2>4, <2>5 DEF b, S
<1>8. QED
  BY <1>5, <1>6, <1>7

(* After a line the console is in one of its states.                       *)
LEMMA AfterLineIsAState ==
    ASSUME NEW state \in LineStates, NEW len
    PROVE  AfterLine(state, len) \subseteq States
  BY DEF LineStates, States, AfterLine

----------------------------------------------------------------------------
(* The types and the accounts of the ring are right at the start.          *)
LEMMA ConsoleInvInit == Init => ConsoleInv
<1> SUFFICES ASSUME Init PROVE ConsoleInv
  OBVIOUS
<1>1. UARTInv
  BY UARTInvInit DEF Init
<1>2. /\ uart_console_state = "init" /\ currentQueue = NULL
      /\ scanned = FALSE /\ lineLen = -1 /\ line = <<>>
  BY DEF Init
<1>3. -1 \in -1 .. bufferSize - 1
  BY ConsoleConstants
<1>4. <<>> \in Seq(Characters \ {newline})
  OBVIOUS
<1>5. QED
  BY <1>1, <1>2, <1>3, <1>4 DEF ConsoleInv, ConsoleTypeOK, UARTInv, States

(* Every step keeps the types and the accounts of the ring.                *)
LEMMA ConsoleInvStep == ConsoleInv /\ [Next]_vars => ConsoleInv'
<1> SUFFICES ASSUME ConsoleInv, [Next]_vars PROVE ConsoleInv'
  OBVIOUS
<1>0. UARTInv /\ bufferSize \in Nat \ {0} /\ MAX_ACTION \in Nat
  BY ConsoleConstants DEF ConsoleInv, ConsoleTypeOK, UARTInv
<1> DEFINE TypeOK ==
        /\ uart_console_state \in States
        /\ currentQueue = NULL \/ /\ currentQueue \in Seq(Characters)
                                  /\ Len(currentQueue) <= bufferSize
        /\ scanned \in BOOLEAN
        /\ lineLen \in -1 .. bufferSize - 1
        /\ line \in Seq(Characters \ {newline})
<1>1. TypeOK
  BY DEF ConsoleInv, ConsoleTypeOK
<1>2. SUFFICES UARTInv' /\ TypeOK'
  BY DEF ConsoleInv, ConsoleTypeOK, UARTInv
<1>3. ASSUME NEW c \in Characters, Receive(c), UNCHANGED console
      PROVE  UARTInv' /\ TypeOK'
  BY <1>0, <1>1, <1>3, ReceiveKeeps DEF console
<1>4. ASSUME uart0_rx_intr_handler, UNCHANGED console
      PROVE  UARTInv' /\ TypeOK'
  BY <1>0, <1>1, <1>4, HandlerKeeps DEF console
<1>5. ASSUME uart_recvTask, UNCHANGED console
      PROVE  UARTInv' /\ TypeOK'
  <2>1. events' \in 0 .. uart_recvTaskQueueLen
    BY <1>0, <1>5, UARTConstants DEF uart_recvTask, UARTInv, UARTTypeOK
  <2>2. Uart_rx_buff_enq /\ UNCHANGED taken
    BY <1>5 DEF uart_recvTask
  <2>3. UARTInv'
    BY <1>0, <2>1, <2>2, MoveKeeps
  <2>4. QED
    BY <1>1, <1>5, <2>3 DEF console
<1>6. CASE ReadAction
  <2>1. UARTInv'
    BY <1>0, <1>6, ReadKeeps DEF ReadAction
  <2>2. uart_console_state' \in States
    BY <1>6 DEF ReadAction, States, LineStates
  <2>3. lineLen' \in -1 .. bufferSize - 1
    BY <1>0, <1>6 DEF ReadAction, NoLine
  <2>4. TypeOK'
    BY <1>1, <1>6, <2>2, <2>3 DEF ReadAction, NoLine
  <2>5. QED
    BY <2>1, <2>4
<1>7. CASE ReadLine
  <2>1. UARTInv'
    BY <1>0, <1>7, KeptFits, ReadKeeps DEF ReadLine, uart_console_getLine
  <2>2. uart_console_state' \in States
    BY <1>7, AfterLineIsAState DEF ReadLine
  <2>3. TypeOK'
    BY <1>1, <1>7, <2>2, GetLineKeeps DEF ReadLine
  <2>4. QED
    BY <2>1, <2>3
<1>8. ASSUME UNCHANGED uartVars
      PROVE  UARTInv'
  BY <1>0, <1>8
  DEF uartVars, rxBuffer, UARTInv, UARTTypeOK, RingAccounts, Stored
<1>9. ASSUME UNCHANGED <<uartVars, currentQueue, scanned>>,
             uart_console_state' \in States, NoLine
      PROVE  UARTInv' /\ TypeOK'
  <2>1. UARTInv'
    BY <1>8, <1>9
  <2>2. TypeOK'
    BY <1>0, <1>1, <1>9 DEF NoLine
  <2>3. QED
    BY <2>1, <2>2
<1>10. CASE wifi_scanDone_cb
  <2>1. UARTInv'
    BY <1>8, <1>10 DEF wifi_scanDone_cb
  <2>2. QED
    BY <1>1, <1>10, <2>1 DEF wifi_scanDone_cb
<1>11. CASE UNCHANGED vars
  <2>1. UARTInv'
    BY <1>8, <1>11 DEF vars
  <2>2. QED
    BY <1>1, <1>11, <2>1 DEF vars, console
<1>12. QED
  <2> HIDE DEF TypeOK
  <2>1. ASSUME Next PROVE UARTInv' /\ TypeOK'
    BY <1>3, <1>4, <1>5, <1>6, <1>7, <1>9, <1>10, <2>1, Steps
  <2>2. QED
    BY <1>11, <2>1

(* The type invariant and the accounts of the ring together.               *)
LEMMA ConsoleInvariant == Spec => []ConsoleInv
  BY ConsoleInvInit, ConsoleInvStep, PTL DEF Spec

(* All variables keep their types: no line grows beyond its buffer, and no *)
(* line that is returned contains its newline.                             *)
THEOREM TypeCorrect == Spec => []ConsoleTypeOK
<1>1. ConsoleInv => ConsoleTypeOK
  BY DEF ConsoleInv
<1>2. QED
  BY <1>1, ConsoleInvariant, PTL

(* The ring buffer of the UART is never full, and the count of its free    *)
(* places never disagrees with its two positions.                          *)
THEOREM RingCorrect == Spec => []RingAccounts
<1>1. ConsoleInv => RingAccounts
  BY DEF ConsoleInv
<1>2. QED
  BY <1>1, ConsoleInvariant, PTL

----------------------------------------------------------------------------
(* A reading call is a step of the reader.                                 *)
LEMMA ReadRefines ==
    ASSUME UARTInv, NEW data_len \in Nat, rx_buff_deq(data_len)
    PROVE  Reader!Next
<1>1. PICK len \in 0 .. Stored : Taking(len)
  BY ReadTakes
<1>2. /\ len \in 0 .. Len(Waiting)
      /\ taken' = SubSeq(Waiting, 1, len)
      /\ Waiting' = SubSeq(Waiting, len + 1, Len(Waiting))
  BY <1>1, ReadTakesFirst
<1>3. Reader!Take(len)
  BY <1>2 DEF Reader!Take
<1>4. QED
  BY <1>2, <1>3 DEF Reader!Next

(* Every step of interrupt, task and console is one of the stream of       *)
(* characters, or none.                                                    *)
LEMMA StepRefines ==
    ConsoleInv /\ [Next]_vars => [Reader!Next]_<<Waiting, taken>>
<1> SUFFICES ASSUME ConsoleInv, [Next]_vars
             PROVE  Reader!Next \/ UNCHANGED <<Waiting, taken>>
  OBVIOUS
<1>0. UARTInv /\ bufferSize \in Nat \ {0} /\ MAX_ACTION \in Nat
  BY ConsoleConstants DEF ConsoleInv, ConsoleTypeOK, UARTInv
<1>1. ASSUME NEW c \in Characters, Receive(c)
      PROVE  Reader!Next
  <2>1. Waiting' = Append(Waiting, c)
    BY <1>0, <1>1, ReceiveAppends
  <2>2. Reader!Receive(c)
    BY <1>1, <2>1 DEF Receive, Reader!Receive
  <2>3. QED
    BY <2>2 DEF Reader!Next
<1>2. ASSUME uart0_rx_intr_handler
      PROVE  UNCHANGED <<Waiting, taken>>
  BY <1>2 DEF uart0_rx_intr_handler, Waiting, Stored, rxBuffer
<1>3. ASSUME uart_recvTask
      PROVE  UNCHANGED <<Waiting, taken>>
  <2>1. Uart_rx_buff_enq /\ UNCHANGED taken
    BY <1>3 DEF uart_recvTask
  <2>2. Waiting' = Waiting
    BY <1>0, <2>1, MoveKeepsWaiting
  <2>3. QED
    BY <2>1, <2>2
<1>4. CASE ReadAction
  BY <1>0, <1>4, ReadRefines DEF ReadAction
<1>5. CASE ReadLine
  BY <1>0, <1>5, KeptFits, ReadRefines DEF ReadLine, uart_console_getLine
<1>6. ASSUME UNCHANGED uartVars
      PROVE  UNCHANGED <<Waiting, taken>>
  BY <1>6 DEF uartVars, rxBuffer, Waiting, Stored
<1>7. CASE wifi_scanDone_cb
  BY <1>6, <1>7 DEF wifi_scanDone_cb
<1>8. CASE UNCHANGED vars
  BY <1>6, <1>8 DEF vars
<1>9. ASSUME UNCHANGED <<uartVars, currentQueue, scanned>>
      PROVE  UNCHANGED <<Waiting, taken>>
  BY <1>6, <1>9
<1>10. QED
  <2>1. ASSUME Next PROVE Reader!Next \/ UNCHANGED <<Waiting, taken>>
    BY <1>1, <1>2, <1>3, <1>4, <1>5, <1>7, <1>9, <2>1, Steps
  <2>2. QED
    BY <1>8, <2>1

(* At first nothing has been received or taken.                            *)
LEMMA InitRefines == Init => Reader!Init
<1> SUFFICES ASSUME Init PROVE Reader!Init
  OBVIOUS
<1>1. UARTInit
  BY DEF Init
<1>2. UARTInv
  BY <1>1, UARTInvInit
<1>3. Stored = 0
  BY <1>1, SizeIsPositive DEF UARTInit, Stored, Size
<1>4. [k \in 1 .. Stored |->
            pUartBuff[(pOutPos + k - 1) % UART_RX_BUFFER_SIZE]] = <<>>
  <2>1. 1 .. Stored = {}
    BY <1>3
  <2>2. QED
    BY <2>1
<1>5. Waiting = <<>>
  BY <1>1, <1>4 DEF Waiting, UARTInit
<1>6. QED
  BY <1>1, <1>5 DEF UARTInit, Reader!Init

(* The receive path and its readers implement ByteStream: what is read is  *)
(* what was received, in that order, whatever the order of interrupt, task *)
(* and reading calls and wherever ring and line are full.                  *)
THEOREM StreamCorrect == Spec => ImplementsByteStream
<1>1. Spec => Reader!Init /\ [][Reader!Next]_<<Waiting, taken>>
  BY InitRefines, StepRefines, ConsoleInvariant, PTL DEF Spec
<1>2. QED
  BY <1>1 DEF ImplementsByteStream, Reader!Spec
=============================================================================
