------------------------------ MODULE Firmware ------------------------------
(***************************************************************************)
(* What a BACnet client can change by WriteProperty, and what becomes of   *)
(* it: the priority arrays of the binary outputs                           *)
(* (demo/object/bo.c) decide over the relay, which a timer of main.c       *)
(* drives; the name and number of the device (demo/object/device.c) are    *)
(* kept in flash by nvmem.c, everything else is lost at a restart.         *)
(*                                                                         *)
(* The firmware is one thread: a request, a timer and user_init are steps. *)
(***************************************************************************)
EXTENDS Naturals

CONSTANTS
    MAX_BINARY_OUTPUTS,
    BACNET_MAX_PRIORITY,        \* 16
    RESERVED_PRIORITY,          \* 6, for the Minimum On/Off algorithm
    BACNET_MAX_INSTANCE,        \* largest instance number of an object
    DefaultInstance,            \* of the device, before it is configured
    Names,                      \* what clients may call the device
    DefaultName,
    ObjectNames,                \* names of the other objects
    LongNames,                  \* do not fit into Device_Name
    MAX_REVISION                \* bound on changes between restarts

ASSUME FirmwareConstants ==
    /\ MAX_BINARY_OUTPUTS \in Nat \ {0}
    /\ BACNET_MAX_PRIORITY \in Nat \ {0}
    /\ RESERVED_PRIORITY \in 1 .. BACNET_MAX_PRIORITY
    /\ BACNET_MAX_INSTANCE \in Nat
    /\ DefaultInstance \in 0 .. BACNET_MAX_INSTANCE
    /\ ObjectNames \subseteq Names /\ LongNames \subseteq Names
    /\ ObjectNames \cap LongNames = {}
    /\ DefaultName \in Names \ (ObjectNames \cup LongNames)
    /\ MAX_REVISION \in Nat

VARIABLES
    Binary_Output_Level,        \* per output and priority: the command
    Out_Of_Service,             \* per output
    relay,                      \* what the pin of output 0 carries
    nvmem_data,                 \* the settings in memory
    flash,                      \* the settings in flash
    Database_Revision,
    reply,                      \* to the last WriteProperty request
    acknowledged,               \* history: per setting, what was last asked
                                \* for and acknowledged
    unsaved                     \* history: acknowledged though the save
                                \* failed, and no save has worked since

outputs == <<Binary_Output_Level, Out_Of_Service>>
history == <<acknowledged, unsaved>>
settings == <<nvmem_data, flash, Database_Revision, history>>
firmwareVars == <<outputs, relay, settings, reply>>

Outputs == 0 .. MAX_BINARY_OUTPUTS - 1
Priorities == 1 .. BACNET_MAX_PRIORITY
Commands == {"INACTIVE", "ACTIVE"}
Texts == {"default", "written"}
RELINQUISH_DEFAULT == "INACTIVE"

----------------------------------------------------------------------------
(* user_init: memory is cleared and the priority arrays are emptied.       *)

NoCommands == [o \in Outputs |-> [p \in Priorities |-> "NULL"]]

DefaultSettings ==
    [Object_Instance_Number |-> DefaultInstance, Device_Name |-> DefaultName,
     Description |-> "default"]

Settings == DOMAIN DefaultSettings

(* The flash has never been written, so nvmem_readData writes defaults.    *)
(* Should that fail, the erased flash stays, and reads as the defaults.    *)
FirmwareInit ==
    /\ Binary_Output_Level = NoCommands
    /\ Out_Of_Service = [o \in Outputs |-> FALSE]
    /\ relay \in Commands
    /\ nvmem_data = DefaultSettings /\ flash = DefaultSettings
    /\ Database_Revision = 0
    /\ reply = "none"
    /\ acknowledged = DefaultSettings /\ unsaved = {}

(* Fault: the record is saved before it is changed.                        *)
SavedTooEarly(new, works) == flash' = IF works THEN nvmem_data ELSE flash

(* The whole record is saved, or nothing is: system_param_save_with_protect*)
(* keeps the last good copy, and nobody looks at what it returns.          *)
nvmem_writeData(new, works) == flash' = IF works THEN new ELSE flash

Saving(set, works) == unsaved' = IF works THEN {} ELSE unsaved \cup set

(* A restart owes what was acknowledged, but for what was never saved.     *)
Readable ==
    /\ nvmem_data' = flash /\ UNCHANGED flash
    /\ acknowledged' = [s \in Settings |->
                            IF s \in unsaved THEN flash[s] ELSE acknowledged[s]]
    /\ unsaved' = {}

(* What cannot be read is overwritten with the defaults (nvmem_initData).  *)
Unreadable ==
    /\ nvmem_data' = DefaultSettings /\ acknowledged' = DefaultSettings
    /\ \E works \in BOOLEAN :
            nvmem_writeData(DefaultSettings, works) /\ Saving(Settings, works)

nvmem_readData == Readable \/ Unreadable

user_init ==
    /\ nvmem_readData
    /\ Binary_Output_Level' = NoCommands
    /\ Out_Of_Service' = [o \in Outputs |-> FALSE]
    /\ relay' \in Commands
    /\ Database_Revision' = 0
    /\ reply' = "none"

----------------------------------------------------------------------------
(* Binary outputs.                                                         *)

Commanded(o) == {p \in Priorities : Binary_Output_Level[o][p] # "NULL"}

(* Fault: the array is searched from its end.                              *)
LowestPriorityFirst(o) ==
    IF Commanded(o) = {} THEN RELINQUISH_DEFAULT
    ELSE Binary_Output_Level[o][
            CHOOSE p \in Commanded(o) : \A q \in Commanded(o) : p >= q]

Binary_Output_Present_Value(o) ==
    IF Commanded(o) = {} THEN RELINQUISH_DEFAULT
    ELSE Binary_Output_Level[o][
            CHOOSE p \in Commanded(o) : \A q \in Commanded(o) : p <= q]

Refused ==
    /\ reply' = "error"
    /\ UNCHANGED <<outputs, relay, settings>>

(* A command may have any priority but the reserved one; relinquishing may *)
(* name any.                                                               *)
Takes(command, p) ==
    \/ command \in Commands /\ p # RESERVED_PRIORITY
    \/ command = "NULL"

Command(o, p, command) ==
    [Binary_Output_Level[o] EXCEPT ![p] = command]

WritePresentValue(o, p, command) ==
    /\ Takes(command, p)
    /\ Binary_Output_Level' =
            [Binary_Output_Level EXCEPT ![o] = Command(o, p, command)]
    /\ reply' = "ack"
    /\ UNCHANGED <<Out_Of_Service, relay, settings>>

WriteOutOfService(o, value) ==
    /\ Out_Of_Service' = [Out_Of_Service EXCEPT ![o] = value]
    /\ reply' = "ack"
    /\ UNCHANGED <<Binary_Output_Level, relay, settings>>

(* Any other property, value, priority or array index.                     *)
Binary_Output_Write_Property ==
    \/ \E o \in Outputs, p \in Priorities,
          command \in Commands \cup {"NULL", "OUT_OF_RANGE"} :
            \/ WritePresentValue(o, p, command)
            \/ ~Takes(command, p) /\ Refused
    \/ \E o \in Outputs, value \in BOOLEAN : WriteOutOfService(o, value)
    \/ Refused

(* Fault: the output is only ever switched on.                             *)
SwitchedOn ==
    IF Binary_Output_Present_Value(0) = "ACTIVE" THEN "ACTIVE" ELSE relay

Switched == Binary_Output_Present_Value(0)

some_timerfunc ==
    /\ relay' = Switched
    /\ UNCHANGED <<outputs, settings, reply>>

----------------------------------------------------------------------------
(* The device object.                                                      *)

Store(new) ==
    /\ nvmem_data' = new
    /\ reply' = "ack"
    /\ UNCHANGED <<outputs, relay>>

(* A setting is written and the record saved: the client is told that the  *)
(* value it asked for is in place.                                         *)
Set(setting, value, stored) ==
    /\ Store([nvmem_data EXCEPT ![setting] = stored])
    /\ \E works \in BOOLEAN :
            nvmem_writeData(nvmem_data', works) /\ Saving({setting}, works)
    /\ acknowledged' = [acknowledged EXCEPT ![setting] = value]

Revised ==
    /\ Database_Revision < MAX_REVISION
    /\ Database_Revision' = Database_Revision + 1

WriteObjectIdentifier(instance) ==
    \/ /\ instance <= BACNET_MAX_INSTANCE
       /\ Set("Object_Instance_Number", instance, instance)
       /\ Revised
    \/ instance > BACNET_MAX_INSTANCE /\ Refused

(* Device_Set_Object_Name: a name that does not fit is not copied, but     *)
(* nobody looks at the result.                                             *)
StoredName(name) == IF name \in LongNames THEN nvmem_data.Device_Name ELSE name

(* Fault: only the device's own name is compared.                          *)
NameTakenByDevice(name) == name = nvmem_data.Device_Name

(* Device_Valid_Object_Name: some object has the name already.             *)
NameTaken(name) == name \in ObjectNames \cup {nvmem_data.Device_Name}

(* Its own name is acknowledged without a save.                            *)
WriteObjectName(name) ==
    \/ NameTaken(name) /\ name # nvmem_data.Device_Name /\ Refused
    \/ /\ NameTaken(name) /\ name = nvmem_data.Device_Name
       /\ Store(nvmem_data)
       /\ acknowledged' = [acknowledged EXCEPT !.Device_Name = name]
       /\ UNCHANGED <<flash, unsaved, Database_Revision>>
    \/ /\ ~NameTaken(name)
       /\ Set("Device_Name", name, StoredName(name))
       /\ Revised

(* Location and model name are written the same way. The revision stays.   *)
WriteDescription(text) ==
    Set("Description", text, text) /\ UNCHANGED Database_Revision

Device_Write_Property_Local ==
    \/ \E instance \in 0 .. BACNET_MAX_INSTANCE + 1 :
            WriteObjectIdentifier(instance)
    \/ \E name \in Names : WriteObjectName(name)
    \/ \E text \in Texts : WriteDescription(text)
    \/ Refused

(* Unknown objects are refused as the objects refuse what they do not know.*)
handler_write_property ==
    Binary_Output_Write_Property \/ Device_Write_Property_Local

FirmwareNext == handler_write_property \/ some_timerfunc \/ user_init

(* The timer repeats every 500 ms (main.c 87).                             *)
FirmwareSpec ==
    /\ FirmwareInit /\ [][FirmwareNext]_firmwareVars
    /\ WF_firmwareVars(some_timerfunc)

----------------------------------------------------------------------------
SettingsOf(names) ==
    [Object_Instance_Number : 0 .. BACNET_MAX_INSTANCE,
     Device_Name : names, Description : Texts]

FirmwareTypeOK ==
    /\ Binary_Output_Level \in
            [Outputs -> [Priorities -> Commands \cup {"NULL"}]]
    /\ Out_Of_Service \in [Outputs -> BOOLEAN]
    /\ relay \in Commands
    /\ nvmem_data \in SettingsOf(Names \ LongNames)
    /\ flash \in SettingsOf(Names \ LongNames)
    /\ acknowledged \in SettingsOf(Names)
    /\ unsaved \subseteq Settings
    /\ Database_Revision \in 0 .. MAX_REVISION
    /\ reply \in {"none", "ack", "error"}

(* The priority of the Minimum On/Off algorithm is never used by a client, *)
(* whatever is written and relinquished (bo.c 393, 412).                   *)
ReservedSlotFree ==
    \A o \in Outputs : Binary_Output_Level[o][RESERVED_PRIORITY] = "NULL"

(* While a command stands, commanding or relinquishing a priority below it *)
(* does not change the present value, nor that of any other output: only a *)
(* restart (no reply) clears what stands above a priority that changes.    *)
HigherPriorityHolds ==
    [][reply' # "none" =>
        \A o \in Outputs : \A p \in Priorities :
            (/\ Binary_Output_Level'[o][p] # Binary_Output_Level[o][p]
             /\ \E q \in Commanded(o) : q < p)
            => /\ Binary_Output_Present_Value(o)' =
                        Binary_Output_Present_Value(o)
               /\ \A r \in Outputs \ {o} :
                    Binary_Output_Level'[r] = Binary_Output_Level[r]
      ]_firmwareVars

(* "All the object names in a device must be unique" (device.c 1503), also *)
(* after restarts and when the flash cannot be read.                       *)
NamesUnique == nvmem_data.Device_Name \notin ObjectNames

(* What was acknowledged and then not stored: a name that does not fit.    *)
NotStored(setting) ==
    setting = "Device_Name" /\ acknowledged.Device_Name \in LongNames

(* "Storing and retreiving WiFi and BACnet information in the Flash        *)
(* memory" (README.md): every setting is what the device last acknowledged *)
(* for it, across writes of other settings, saves that fail and restarts;  *)
(* and the flash holds it for the next restart, unless every save since it *)
(* was acknowledged has failed. An unreadable flash starts all over, and a *)
(* name that does not fit is the one thing acknowledged but not stored.    *)
SettingsSurvive ==
    \A s \in Settings : ~NotStored(s) =>
        /\ nvmem_data[s] = acknowledged[s]
        /\ s \notin unsaved => flash[s] = acknowledged[s]

(* "Looks up the requested Object and Property, and set the new Value in   *)
(* it, if allowed. [...] True on success, else False if there is an error" *)
(* (device.c 1616): the device has the name it acknowledged, however long. *)
NameIsTheOneAcknowledged ==
    nvmem_data.Device_Name = acknowledged.Device_Name

(* The relay keeps coming back to what the priority array decides, after   *)
(* commands, relinquishments and restarts (main.c 45).                     *)
RelayFollows == []<>(relay = Binary_Output_Present_Value(0))

(* "Writable out-of-service allows others to play with our Present Value   *)
(* without changing the physical output" (bo.c 52): as long as an output   *)
(* is out of service, no write changes what the timer puts on the pin.     *)
OutOfServiceHoldsRelay ==
    [][Out_Of_Service[0] /\ Out_Of_Service'[0] => Switched' = Switched]_firmwareVars
=============================================================================
