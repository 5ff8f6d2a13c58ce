------------------------------ MODULE RecordLog ------------------------------
(***************************************************************************)
(* What a log promises to those who read it: the latest records, oldest    *)
(* first, no more than it has room for.  A record is added at the end, or  *)
(* takes the place of all when the log is purged.                          *)
(***************************************************************************)
EXTENDS Naturals, Sequences

CONSTANT ROOM           \* records that a log keeps
VARIABLE records

Latest(s) == IF Len(s) <= ROOM THEN s ELSE Tail(s)

Add == /\ records' # <<>>
       /\ records' = Latest(Append(records, records'[Len(records')]))

Purge == Len(records') = 1

Init == Len(records) <= ROOM

Spec == Init /\ [][Add \/ Purge]_records
=============================================================================
