---------------------------- MODULE DeviceObject ----------------------------
(***************************************************************************)
(* The properties of the device object (device.c) and of a file            *)
(* (bacfile.c).  Firmware follows the number and the name into flash; here *)
(* are all properties as a client sees them.                               *)
(***************************************************************************)
EXTENDS Points, SequencesExt

CONSTANT Object_Table       \* for every type of objects, their identifiers

ASSUME DeviceObjectConstants == IsFiniteSet(DOMAIN Object_Table)

Device_Properties_Required ==
    Base \cup {"SYSTEM_STATUS", "VENDOR_NAME", "VENDOR_IDENTIFIER", "MODEL_NAME",
               "FIRMWARE_REVISION", "APPLICATION_SOFTWARE_VERSION",
               "PROTOCOL_VERSION", "PROTOCOL_REVISION",
               "PROTOCOL_SERVICES_SUPPORTED", "PROTOCOL_OBJECT_TYPES_SUPPORTED",
               "OBJECT_LIST", "MAX_APDU_LENGTH_ACCEPTED", "SEGMENTATION_SUPPORTED",
               "APDU_TIMEOUT", "NUMBER_OF_APDU_RETRIES", "DEVICE_ADDRESS_BINDING",
               "DATABASE_REVISION"}

Device_Properties_Optional == {"DESCRIPTION", "LOCATION", "ACTIVE_COV_SUBSCRIPTIONS"}

Device_Properties == Device_Properties_Required \cup Device_Properties_Optional

Device_Init ==
    [Object_Identifier |-> <<"OBJECT_ID", "DEVICE", 1>>, Object_Name |-> Text("name"),
     Description |-> Text("name"), Location |-> Text("name"), Model_Name |-> Text("name"),
     Vendor_Identifier |-> Unsigned(260), System_Status |-> Enumerated(0),
     Retries |-> Unsigned(3), Timeout |-> Unsigned(3000), Database_Revision |-> 0]

(* Objects are counted through the table, type by type.                    *)
Device_Object_List == FlattenSeq(Object_Table)

Device_Read_Property_Local(o, p, index) ==
    Reading([OBJECT_IDENTIFIER |-> o.Object_Identifier, OBJECT_NAME |-> o.Object_Name,
             DESCRIPTION |-> o.Description, LOCATION |-> o.Location,
             MODEL_NAME |-> o.Model_Name, VENDOR_IDENTIFIER |-> o.Vendor_Identifier,
             SYSTEM_STATUS |-> o.System_Status, APDU_TIMEOUT |-> o.Timeout,
             NUMBER_OF_APDU_RETRIES |-> o.Retries,
             DATABASE_REVISION |-> Unsigned(o.Database_Revision)]
            ++ Fixed(Device_Properties),
        [OBJECT_LIST |-> Device_Object_List], p, index)

OPERATIONAL == 0
OPERATIONAL_READ_ONLY == 1
DOWNLOAD_REQUIRED == 2
DOWNLOAD_IN_PROGRESS == 3
NON_OPERATIONAL == 4
BACKUP_IN_PROGRESS == 5

(* A request may not claim what only the device itself can know.           *)
Device_Set_System_Status(o, v) ==
    IF Content(v) \in {OPERATIONAL, OPERATIONAL_READ_ONLY, NON_OPERATIONAL}
    THEN Accept([o EXCEPT !.System_Status = v])
    ELSE Refuse(o, IF Content(v) \in {DOWNLOAD_REQUIRED, DOWNLOAD_IN_PROGRESS,
                                      BACKUP_IN_PROGRESS}
                   THEN "OPTIONAL_FUNCTIONALITY_NOT_SUPPORTED" ELSE "VALUE_OUT_OF_RANGE")

WPValidateString(o, v, emptyAllowed, outcome) ==
    WPValidateArgType(o, v, "CHARACTER_STRING",
        IF Content(v) = "foreign" THEN Refuse(o, "CHARACTER_SET_NOT_SUPPORTED")
        ELSE IF Content(v) \in {"", "unprintable"} /\ ~emptyAllowed
        THEN Refuse(o, "VALUE_OUT_OF_RANGE")
        ELSE IF Content(v) = "long" THEN Refuse(o, "NO_SPACE_TO_WRITE_PROPERTY")
        ELSE outcome)

(* A name has room in the request that it has not in the device: then only *)
(* the revision is counted.                                                *)
Device_Set_Object_Name(o, v) ==
    [o EXCEPT !.Object_Name = IF Content(v) = "longer_than_32" THEN @ ELSE v,
              !.Database_Revision = @ + 1]

WriteDeviceName(o, v) ==
    IF v = o.Object_Name THEN Accept(o)
    ELSE IF Content(v) = "taken" THEN Refuse(o, "DUPLICATE_NAME")
    ELSE Accept(Device_Set_Object_Name(o, v))

Device_Set_Object_Instance_Number(o, v) ==
    [o EXCEPT !.Object_Identifier = v, !.Database_Revision = @ + 1]

Device_Write_Property_Local(o, w) ==
    LET v == w.values[1]
        Number(width, new(_)) ==
            WPValidateArgType(o, v, "UNSIGNED_INT",
                Accept(new(Unsigned(Content(v) % width))))
        String(new) == WPValidateString(o, v, TRUE, Accept(new))
    IN  Writing(o, w, {"OBJECT_LIST"},
            [OBJECT_IDENTIFIER |->
                WPValidateArgType(o, v, "OBJECT_ID",
                    Check(o, v[2] = "DEVICE" /\ v[3] <= 4194303, "VALUE_OUT_OF_RANGE",
                          Device_Set_Object_Instance_Number(o, v))),
             NUMBER_OF_APDU_RETRIES |->
                Number(Octet, LAMBDA n : [o EXCEPT !.Retries = n]),
             APDU_TIMEOUT |-> Number(Word, LAMBDA n : [o EXCEPT !.Timeout = n]),
             VENDOR_IDENTIFIER |->
                Number(Word, LAMBDA n : [o EXCEPT !.Vendor_Identifier = n]),
             SYSTEM_STATUS |->
                WPValidateArgType(o, v, "ENUMERATED", Device_Set_System_Status(o, v)),
             OBJECT_NAME |-> WPValidateString(o, v, FALSE, WriteDeviceName(o, v)),
             LOCATION |-> String([o EXCEPT !.Location = v]),
             DESCRIPTION |-> String([o EXCEPT !.Description = v]),
             MODEL_NAME |-> String([o EXCEPT !.Model_Name = v])],
            (Device_Properties \ {"MODEL_NAME", "VENDOR_IDENTIFIER"}) \cup
                {"LOCAL_TIME", "UTC_OFFSET", "LOCAL_DATE", "DAYLIGHT_SAVINGS_STATUS",
                 "MAX_INFO_FRAMES", "MAX_MASTER"})

----------------------------------------------------------------------------
(* A file.  Writes of its size and of the archive flag are acknowledged    *)
(* and forgotten; a read with an array index is answered as if it had none.*)

BACfile_Property_Lists ==
    Base \cup {"FILE_TYPE", "FILE_SIZE", "MODIFICATION_DATE", "ARCHIVE", "READ_ONLY",
               "FILE_ACCESS_METHOD", "DESCRIPTION"}

BACfile_Init == [File_Size |-> 0]

bacfile_read_property(o, p, index) ==
    Reading([ARCHIVE |-> Boolean(TRUE), FILE_SIZE |-> Unsigned(o.File_Size)]
            ++ Fixed(BACfile_Property_Lists),
        <<>>, p, BACNET_ARRAY_ALL)

bacfile_write_property(o, w) ==
    LET v == w.values[1]
        Forgotten(tag) == WPValidateArgType(o, v, tag, Accept(o))
    IN  IF w.index # BACNET_ARRAY_ALL THEN Refuse(o, "PROPERTY_IS_NOT_AN_ARRAY")
        ELSE Writing(o, w, {}, [ARCHIVE |-> Forgotten("BOOLEAN"),
                                FILE_SIZE |-> Forgotten("UNSIGNED_INT")],
                     BACfile_Property_Lists)
=============================================================================
