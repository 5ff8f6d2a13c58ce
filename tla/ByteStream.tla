----------------------------- MODULE ByteStream -----------------------------
(***************************************************************************)
(* What a reader of the serial line may rely on: the characters it takes   *)
(* are those that were received, in order, none twice and none left out.   *)
(***************************************************************************)
EXTENDS Naturals, Sequences

CONSTANT Characters

VARIABLES
    stream,     \* received and not yet taken
    taken       \* what the last read returned

Init == stream = <<>> /\ taken = <<>>

Receive(c) == stream' = Append(stream, c) /\ UNCHANGED taken

Take(n) ==
    /\ taken' = SubSeq(stream, 1, n)
    /\ stream' = SubSeq(stream, n + 1, Len(stream))

Next ==
    \/ \E c \in Characters : Receive(c)
    \/ \E n \in 0 .. Len(stream) : Take(n)

Spec == Init /\ [][Next]_<<stream, taken>>
=============================================================================
