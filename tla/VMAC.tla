-------------------------------- MODULE VMAC --------------------------------
(***************************************************************************)
(* The table that maps a virtual MAC address, which is a device instance,  *)
(* to the B/IPv6 address of the device: vmac.c over the sorted array of    *)
(* keylist.c, which is searched by bisection and grows and shrinks by      *)
(* chunks.                                                                 *)
(*                                                                         *)
(* A list is the number of places its array has and the entries in use, in *)
(* the order of the array; an index counts from 0 as in the code.  calloc  *)
(* succeeds.                                                               *)
(***************************************************************************)
EXTENDS Integers, Sequences, SequencesExt

CONSTANT Chunk                \* the places an array grows by, 8 in the code

ASSUME ChunkAssumption == Chunk \in Nat \ {0}

Unbound == <<>>               \* no entry: a MAC has at least one octet
NewArray == [size |-> 0, array |-> <<>>]

Count(list) == Len(list.array)
Node(list, index) == list.array[index + 1]

CheckArraySize(list) ==
  CASE Count(list) = list.size -> [list EXCEPT !.size = @ + Chunk]
    [] list.size > Chunk /\ Count(list) < list.size - Chunk -> [list EXCEPT !.size = @ - Chunk]
    [] OTHER -> list

(* What is left to search: from a place to a place, none when they cross.   *)
Windows(list) == (0..Count(list)) \X (-1..(Count(list) - 1))

(* The bisection with the place a new key goes to one too low, as if the    *)
(* branch for a larger key were the one for a smaller.                      *)
FindIndexBefore(list, key) ==
  LET Probe[w \in Windows(list)] ==
        LET index == (w[1] + w[2]) \div 2
            current == Node(list, index).key
            left == IF key < current THEN w[1] ELSE index + 1
            right == IF key < current THEN index - 1 ELSE w[2]
        IN IF key = current THEN [found |-> TRUE, index |-> index]
           ELSE IF left <= right THEN Probe[<<left, right>>]
           ELSE [found |-> FALSE, index |-> index]
  IN IF Count(list) = 0 THEN [found |-> FALSE, index |-> 0] ELSE Probe[<<0, Count(list) - 1>>]

(* Whether a key is in the list, and its place or the place it would have.  *)
FindIndex(list, key) ==
  LET Probe[w \in Windows(list)] ==
        LET index == (w[1] + w[2]) \div 2
            current == Node(list, index).key
            left == IF key < current THEN w[1] ELSE index + 1
            right == IF key < current THEN index - 1 ELSE w[2]
        IN IF key = current THEN [found |-> TRUE, index |-> index]
           ELSE IF left <= right THEN Probe[<<left, right>>]
           ELSE [found |-> FALSE, index |-> IF key > current THEN index + 1 ELSE index]
  IN IF Count(list) = 0 THEN [found |-> FALSE, index |-> 0] ELSE Probe[<<0, Count(list) - 1>>]

Keylist_Create == CheckArraySize(NewArray)

Keylist_Data_Add(list, key, data) ==
  LET index == FindIndex(list, key).index
  IN [CheckArraySize(list) EXCEPT
        !.array = InsertAt(@, index + 1, [key |-> key, data |-> data])]

Keylist_Data_Delete_By_Index(list, index) ==
  IF index \in 0..(Count(list) - 1)
  THEN CheckArraySize([list EXCEPT !.array = RemoveAt(@, index + 1)]) ELSE list

Keylist_Data_Delete(list, key) ==
  LET at == FindIndex(list, key)
  IN IF at.found THEN Keylist_Data_Delete_By_Index(list, at.index) ELSE list

Keylist_Data_Pop(list) == Keylist_Data_Delete_By_Index(list, Count(list) - 1)

Keylist_Data(list, key) ==
  LET at == FindIndex(list, key)
  IN IF at.found THEN Node(list, at.index).data ELSE Unbound

-----------------------------------------------------------------------------

VMAC_Init == Keylist_Create

VMAC_Find_By_Key(list, device_id) == Keylist_Data(list, device_id)

(* An entry that is there already stays as it is. *)
VMAC_Add(list, device_id, mac) ==
  IF Keylist_Data(list, device_id) = Unbound
  THEN Keylist_Data_Add(list, device_id, mac) ELSE list

VMAC_Delete(list, device_id) == Keylist_Data_Delete(list, device_id)

VMAC_Match(mac1, mac2) == mac1 # Unbound /\ mac1 = mac2

(* The last of the devices with an address. *)
VMAC_Find_By_Data(list, mac) ==
  LET at == {i \in 0..(Count(list) - 1) : VMAC_Match(mac, Node(list, i).data)}
  IN IF at = {} THEN -1 ELSE Node(list, CHOOSE i \in at : \A j \in at : j <= i).key

VMAC_Cleanup(list) ==
  LET Popped[n \in 0..Count(list)] ==
        IF n = 0 THEN list ELSE Keylist_Data_Pop(Popped[n - 1])
  IN Popped[Count(list)]
=============================================================================
