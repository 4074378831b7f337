----------------------------- MODULE MCBufCache -----------------------------
(* Instances of BufCache for TLC. *)
EXTENDS BufCache

\* A disk that works.
Working == [values |-> Value, errors |-> FALSE]

\* A disk that fails at will: contents are not followed, so one value is enough.
Failing == [values |-> {CHOOSE v \in Value : TRUE}, errors |-> TRUE]

MCJobs == {Working, Failing}
=============================================================================
