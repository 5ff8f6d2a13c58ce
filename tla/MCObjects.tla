------------------------------ MODULE MCObjects ------------------------------
EXTENDS Objects

MCGroups == {{"ANALOG_INPUT", "NOTIFICATION_CLASS"},
             {"ANALOG_VALUE", "NOTIFICATION_CLASS"},
             {"LOAD_CONTROL", "ANALOG_OUTPUT"}} \cup
            {{k} : k \in Kinds \ {"ANALOG_INPUT", "LOAD_CONTROL"}}
MCShedLevels == <<1, 2, 3>>
MCObjectTable == <<<<<<"OBJECT_ID", "DEVICE", 1>>>>,
                   <<<<"OBJECT_ID", "BINARY_OUTPUT", 0>>, <<"OBJECT_ID", "BINARY_OUTPUT", 1>>>>>>
=============================================================================
