------------------------------ MODULE Uthread ------------------------------
(***************************************************************************)
(* The user-level threads of uthread.c.  Thread 1 is main, which creates   *)
(* the others, calls thread_schedule and never runs again: its state stays *)
(* RUNNING.  A step is what a thread does from one thread_switch to the    *)
(* next; thread_switch saves the stack pointer and goes on with the other  *)
(* thread's stack, where that thread left off.                             *)
(***************************************************************************)
EXTENDS Integers, FiniteSets, FiniteSetsExt

CONSTANTS
    MAX_THREAD,
    Created,      \* calls of thread_create in main
    Rounds        \* iterations of mythread

VARIABLES
    state,        \* of the slots of all_thread
    current,      \* current_thread
    created,      \* threads main has created
    left,         \* iterations a thread's loop still has
    exited        \* the program has called exit()

tvars == <<state, current, created, left, exited>>

Thread == 1..MAX_THREAD
main == 1

\* thread_init
Init ==
    /\ state = [t \in Thread |-> IF t = main THEN "RUNNING" ELSE "FREE"]
    /\ current = main /\ created = 0
    /\ left = [t \in Thread |-> 0]
    /\ exited = FALSE

Unused == {t \in Thread : state[t] = "FREE"}

thread_create ==
    /\ current = main /\ created < Created
    /\ LET t == Min(Unused) IN
       /\ state' = [state EXCEPT ![t] = "RUNNABLE"]
       /\ left' = [left EXCEPT ![t] = Rounds]
    /\ created' = created + 1
    /\ UNCHANGED <<current, exited>>

Others(st) == {t \in Thread : st[t] = "RUNNABLE" /\ t # current}

\* Saves current's stack pointer and goes on with t's.
thread_switch(t) == current' = t

\* thread_schedule with the states st: the first other RUNNABLE thread, or the
\* caller, which then stays RUNNABLE, or exit().
thread_schedule(st) ==
    IF Others(st) # {}
    THEN /\ thread_switch(Min(Others(st)))
         /\ state' = [st EXCEPT ![Min(Others(st))] = "RUNNING"]
         /\ UNCHANGED exited
    ELSE /\ state' = st
         /\ exited' = (st[current] # "RUNNABLE")
         /\ UNCHANGED current

MainDone ==
    /\ current = main /\ created = Created /\ ~exited
    /\ thread_schedule(state)
    /\ UNCHANGED <<created, left>>

thread_yield ==
    /\ current # main /\ ~exited /\ left[current] > 0
    /\ left' = [left EXCEPT ![current] = @ - 1]
    /\ thread_schedule([state EXCEPT ![current] = "RUNNABLE"])
    /\ UNCHANGED created

ThreadExit ==
    /\ current # main /\ ~exited /\ left[current] = 0
    /\ thread_schedule([state EXCEPT ![current] = "FREE"])
    /\ UNCHANGED <<created, left>>

Exited == exited /\ UNCHANGED tvars

Next == thread_create \/ MainDone \/ thread_yield \/ ThreadExit \/ Exited

Spec == Init /\ [][Next]_tvars

-----------------------------------------------------------------------------
\* The two threads of main take turns, although thread_schedule always looks
\* from the first slot: neither is more than one iteration ahead.  The program
\* exits only when no thread has work left, although nothing waits for them.
TurnsTaken ==
    /\ \A t, u \in Thread \ {main} : state[t] # "FREE" /\ state[u] # "FREE" => left[t] - left[u] \in -1..1
    /\ exited => \A t \in Thread \ {main} : state[t] = "FREE" /\ left[t] = 0
    /\ \A t \in Thread \ {main} : state[t] = "RUNNING" => t = current
=============================================================================
