------------------------------ MODULE Channel ------------------------------
(***************************************************************************)
(* What a pipe promises: a bounded first-in first-out queue of bytes with  *)
(* a write end and a read end.                                             *)
(***************************************************************************)
EXTENDS Naturals, Sequences

CONSTANTS Byte, Capacity

VARIABLES
    queue,   \* bytes written and not yet read
    wopen,   \* the write end is open
    ropen    \* the read end is open

cvars == <<queue, wopen, ropen>>

Init == queue = <<>> /\ wopen = TRUE /\ ropen = TRUE

Send(x) ==
    /\ wopen
    /\ Len(queue) < Capacity
    /\ queue' = Append(queue, x)
    /\ UNCHANGED <<wopen, ropen>>

Receive ==
    /\ ropen
    /\ queue # <<>>
    /\ queue' = Tail(queue)
    /\ UNCHANGED <<wopen, ropen>>

CloseWrite == wopen /\ wopen' = FALSE /\ UNCHANGED <<queue, ropen>>
CloseRead == ropen /\ ropen' = FALSE /\ UNCHANGED <<queue, wopen>>

Next == (\E x \in Byte : Send(x)) \/ Receive \/ CloseWrite \/ CloseRead

Spec == Init /\ [][Next]_cvars
=============================================================================
