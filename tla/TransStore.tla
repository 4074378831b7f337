----------------------------- MODULE TransStore -----------------------------
(***************************************************************************)
(* What log.c promises its callers: a block store updated by one           *)
(* transaction at a time.  A transaction's writes stay invisible on disk   *)
(* until it is sealed (the commit point), a finished transaction is on     *)
(* disk for good, and a crash leaves the last finished image, except that  *)
(* a crash after the seal may leave any block-by-block mixture of the old  *)
(* and the new image.  That mixture is what the code as written provides;  *)
(* see Log!CommitIsDurable for the stronger claim of its comments.         *)
(***************************************************************************)
CONSTANTS Proc, Block, Value, NoOwner

VARIABLES
    store,   \* the image of the last finished transaction
    pend,    \* the image the open transaction is building
    owner,   \* the process in a transaction, or NoOwner
    sealed   \* the open transaction has passed its commit point

svars == <<store, pend, owner, sealed>>

Init ==
    /\ store \in [Block -> Value]
    /\ pend = store
    /\ owner = NoOwner
    /\ sealed = FALSE

Begin(p) ==
    /\ owner = NoOwner
    /\ owner' = p
    /\ UNCHANGED <<store, pend, sealed>>

Write(p, b, v) ==
    /\ owner = p
    /\ ~sealed
    /\ pend' = [pend EXCEPT ![b] = v]
    /\ UNCHANGED <<store, owner, sealed>>

Seal(p) ==
    /\ owner = p
    /\ ~sealed
    /\ sealed' = TRUE
    /\ UNCHANGED <<store, pend, owner>>

Finish(p) ==
    /\ owner = p
    /\ sealed
    /\ store' = pend
    /\ owner' = NoOwner
    /\ sealed' = FALSE
    /\ UNCHANGED pend

Mixture(old, new) ==
    {m \in [Block -> Value] : \A b \in Block : m[b] \in {old[b], new[b]}}

Crash ==
    /\ store' \in IF sealed THEN Mixture(store, pend) ELSE {store}
    /\ pend' = store'
    /\ owner' = NoOwner
    /\ sealed' = FALSE

Next ==
    \/ \E p \in Proc : Begin(p) \/ Seal(p) \/ Finish(p)
    \/ \E p \in Proc, b \in Block, v \in Value : Write(p, b, v)
    \/ Crash

Spec == Init /\ [][Next]_svars
=============================================================================
