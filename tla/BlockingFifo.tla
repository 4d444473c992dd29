--------------------------- MODULE BlockingFifo ---------------------------
(***************************************************************************)
(* What a producer/consumer queue of the server promises: requests are     *)
(* handed out in the order in which they were submitted, each one to one   *)
(* worker, and a worker is only ever handed a request, never nothing.      *)
(*                                                                         *)
(* The server has two such queues: q_method of SchedulingEngine and        *)
(* q_request of NetworkManager.  WorkQueue models how they are built from  *)
(* a LockQueue and a Semaphore and is shown to implement this module.      *)
(***************************************************************************)
EXTENDS Sequences

CONSTANTS Requests,     \* the requests that can be submitted
          Workers,      \* the threads that take requests
          NoRequest     \* what an idle worker holds, not a request

VARIABLES fifo,         \* submitted requests nobody has taken yet
          serving       \* the request each worker is executing

vars == <<fifo, serving>>

Init == /\ fifo = << >>
        /\ serving = [w \in Workers |-> NoRequest]

Submit(r) == /\ fifo' = Append(fifo, r)
             /\ UNCHANGED serving

Take(w) == /\ serving[w] = NoRequest
           /\ fifo # << >>
           /\ serving' = [serving EXCEPT ![w] = Head(fifo)]
           /\ fifo' = Tail(fifo)

Finish(w) == /\ serving[w] # NoRequest
             /\ serving' = [serving EXCEPT ![w] = NoRequest]
             /\ UNCHANGED fifo

TakeSome == \E w \in Workers : Take(w)

Next == \/ \E r \in Requests : Submit(r)
        \/ TakeSome
        \/ \E w \in Workers : Finish(w)

Safety == Init /\ [][Next]_vars

\* A pending request is taken as long as some worker is free to take it.
Spec == /\ Safety
        /\ WF_vars(TakeSome)
        /\ \A w \in Workers : WF_vars(Finish(w))
===========================================================================
