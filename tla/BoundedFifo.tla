----------------------------- MODULE BoundedFifo -----------------------------
(***************************************************************************)
(* What critical_concurrency/queue.h promises: a first-in first-out buffer *)
(* shared by threads.  A call takes effect in one indivisible step between *)
(* its invocation and its return; a push waits while the buffer holds      *)
(* MaxSize elements (MaxSize > 0), a pull waits while it is empty.         *)
(***************************************************************************)
EXTENDS Integers, Sequences

CONSTANTS Threads, Data, NULL, MaxSize

VARIABLES
    fifo,     \* the elements, oldest first
    pend,     \* the call each thread has in progress
    reg       \* the argument of a push, the result of a pull

vars == <<fifo, pend, reg>>

Init ==
    /\ fifo = << >>
    /\ pend = [t \in Threads |-> "idle"]
    /\ reg = [t \in Threads |-> NULL]

Invoke(t) ==
    /\ pend[t] = "idle"
    /\ \/ /\ pend' = [pend EXCEPT ![t] = "push"]
          /\ \E d \in Data \cup {NULL} : reg' = [reg EXCEPT ![t] = d]
       \/ /\ pend' = [pend EXCEPT ![t] = "pull"]
          /\ UNCHANGED reg
    /\ UNCHANGED fifo

Push(t) ==
    /\ pend[t] = "push"
    /\ MaxSize > 0 => Len(fifo) < MaxSize
    /\ fifo' = Append(fifo, reg[t])
    /\ pend' = [pend EXCEPT ![t] = "idle"]
    /\ UNCHANGED reg

Pull(t) ==
    /\ pend[t] = "pull"
    /\ fifo # << >>
    /\ reg' = [reg EXCEPT ![t] = Head(fifo)]
    /\ fifo' = Tail(fifo)
    /\ pend' = [pend EXCEPT ![t] = "idle"]

Next == \E t \in Threads : Invoke(t) \/ Push(t) \/ Pull(t)

Spec == Init /\ [][Next]_vars
=============================================================================
