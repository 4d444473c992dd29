----------------------------- MODULE WorkQueue -----------------------------
(***************************************************************************)
(* The hand-over of work between the threads of the server: a LockQueue    *)
(* holding the requests and a Semaphore counting them.  The same code is   *)
(* used twice, by SchedulingEngine::Execute / GetNextMethod (channel       *)
(* updates, executed by the MethodThreads) and by                          *)
(* NetworkManager::QueueSend / QueueRecive / GetNextSession (sends and     *)
(* receives, executed by the NetworkThreads).                              *)
(*                                                                         *)
(* Granularity.  The queue is only touched under LockQueue::_lock and the  *)
(* semaphore's counter only under its mutex, so one step stands for one    *)
(* critical section.  Semaphore::Signal releases the mutex before it calls *)
(* pthread_cond_signal, and LockQueue::add is a critical section of its    *)
(* own: a producer takes three steps.  A consumer takes one step for the   *)
(* test of the counter (which either takes a token or starts waiting on    *)
(* the condition variable, releasing the mutex in the same instant) and    *)
(* one for LockQueue::next.  pthread_cond_wait may return spuriously.      *)
(***************************************************************************)
EXTENDS Integers, Sequences, FiniteSets

CONSTANTS Producers,      \* threads calling Execute, QueueSend, QueueRecive
          Consumers,      \* MethodThreads or NetworkThreads
          MaxSubmits,     \* bound: requests each producer submits
          Null            \* the NULL request

ASSUME ThreadsAssumption == /\ IsFiniteSet(Producers)
                            /\ IsFiniteSet(Consumers)
                            /\ Producers \cap Consumers = {}
ASSUME MaxSubmitsAssumption == MaxSubmits \in Nat

Request == Producers \X (1..MaxSubmits)

ASSUME NullAssumption == Null \notin Request

VARIABLES queue,     \* LockQueue::_queue
          value,     \* Semaphore::value
          pc,        \* where each thread is
          made,      \* number of requests a producer has created
          held       \* the request a consumer got from next()

vars == <<queue, value, pc, made, held>>

ProducerPC == {"idle", "added", "posted"}
ConsumerPC == {"ready", "waiting", "woken", "token", "call"}

Init == /\ queue = << >>
        /\ value = 0
        /\ pc = [t \in Producers \cup Consumers |->
                    IF t \in Producers THEN "idle" ELSE "ready"]
        /\ made = [p \in Producers |-> 0]
        /\ held = [c \in Consumers |-> Null]

At(S, l) == {t \in S : pc[t] = l}

Goto(t, l) == pc' = [pc EXCEPT ![t] = l]

-----------------------------------------------------------------------------
(* Producer: add(item); Signal() = { Acquire; value++; Release; signal }.   *)

\* push_front instead of push_back.
Add_Front(p) ==
    /\ pc[p] = "idle"
    /\ made[p] < MaxSubmits
    /\ made' = [made EXCEPT ![p] = @ + 1]
    /\ queue' = << <<p, made[p] + 1>> >> \o queue
    /\ Goto(p, "added")
    /\ UNCHANGED <<value, held>>

Add(p) ==
    /\ pc[p] = "idle"
    /\ made[p] < MaxSubmits
    /\ made' = [made EXCEPT ![p] = @ + 1]
    /\ queue' = Append(queue, <<p, made[p] + 1>>)
    /\ Goto(p, "added")
    /\ UNCHANGED <<value, held>>

Post(p) ==
    /\ pc[p] = "added"
    /\ value' = value + 1
    /\ Goto(p, "posted")
    /\ UNCHANGED <<queue, made, held>>

\* Signal forgets pthread_cond_signal when it finds the counter above one.
CondSignal_OnlyFirst(p) ==
    /\ pc[p] = "posted"
    /\ IF At(Consumers, "waiting") = {} \/ value > 1
         THEN Goto(p, "idle")
         ELSE \E c \in At(Consumers, "waiting") :
                 pc' = [pc EXCEPT ![p] = "idle", ![c] = "woken"]
    /\ UNCHANGED <<queue, value, made, held>>

CondSignal(p) ==
    /\ pc[p] = "posted"
    /\ IF At(Consumers, "waiting") = {}
         THEN Goto(p, "idle")
         ELSE \E c \in At(Consumers, "waiting") :
                 pc' = [pc EXCEPT ![p] = "idle", ![c] = "woken"]
    /\ UNCHANGED <<queue, value, made, held>>

-----------------------------------------------------------------------------
(* Consumer: Wait(); next(ret); use ret.                                    *)

\* The loop test reads "value < 0".
Test_OffByOne(c) ==
    /\ pc[c] \in {"ready", "woken"}
    /\ IF value < 0
         THEN Goto(c, "waiting") /\ UNCHANGED value
         ELSE Goto(c, "token") /\ value' = value - 1
    /\ UNCHANGED <<queue, made, held>>

\* The test of the counter in Wait, on entry and after every wake-up.
Test(c) ==
    /\ pc[c] \in {"ready", "woken"}
    /\ IF value <= 0
         THEN Goto(c, "waiting") /\ UNCHANGED value
         ELSE Goto(c, "token") /\ value' = value - 1
    /\ UNCHANGED <<queue, made, held>>

SpuriousWakeup(c) ==
    /\ pc[c] = "waiting"
    /\ Goto(c, "woken")
    /\ UNCHANGED <<queue, value, made, held>>

\* The front element is not popped.
TakeNext_NoPop(c) ==
    /\ pc[c] = "token"
    /\ IF queue = << >>
         THEN UNCHANGED held
         ELSE held' = [held EXCEPT ![c] = Head(queue)]
    /\ Goto(c, "call")
    /\ UNCHANGED <<queue, value, made>>

\* LockQueue::next leaves the result untouched (NULL) when it finds nothing.
TakeNext(c) ==
    /\ pc[c] = "token"
    /\ IF queue = << >>
         THEN UNCHANGED <<queue, held>>
         ELSE /\ held' = [held EXCEPT ![c] = Head(queue)]
              /\ queue' = Tail(queue)
    /\ Goto(c, "call")
    /\ UNCHANGED <<value, made>>

\* The request is executed and deleted; the thread asks for the next one.
Return(c) ==
    /\ pc[c] = "call"
    /\ held' = [held EXCEPT ![c] = Null]
    /\ Goto(c, "ready")
    /\ UNCHANGED <<queue, value, made>>

-----------------------------------------------------------------------------
Produce(p) == Add(p) \/ Post(p) \/ CondSignal(p)
Consume(c) == Test(c) \/ TakeNext(c) \/ Return(c)

Next == \/ \E p \in Producers : Produce(p)
        \/ \E c \in Consumers : Consume(c) \/ SpuriousWakeup(c)

\* A thread that is inside an operation and not blocked keeps running; no
\* thread is obliged to submit, and no wake-up is promised to be spurious.
Spec == /\ Init /\ [][Next]_vars
        /\ \A p \in Producers : WF_vars(Post(p) \/ CondSignal(p))
        /\ \A c \in Consumers : WF_vars(Consume(c))

-----------------------------------------------------------------------------
TypeOK ==
    /\ queue \in Seq(Request)
    /\ value \in Nat
    /\ pc \in [Producers \cup Consumers -> ProducerPC \cup ConsumerPC]
    /\ \A p \in Producers : pc[p] \in ProducerPC
    /\ \A c \in Consumers : pc[c] \in ConsumerPC
    /\ made \in [Producers -> 0..MaxSubmits]
    /\ held \in [Consumers -> Request \cup {Null}]

\* Every queued request is accounted for exactly once: by a token in the
\* semaphore, by a consumer that already took its token, or by the producer
\* that added it and has not signalled yet (LockQueue and Semaphore are two
\* separately locked objects that the callers must keep in step).
TokenAccounting ==
    Len(queue) = value + Cardinality(At(Consumers, "token"))
                       + Cardinality(At(Producers, "added"))

\* A consumer that returns from Semaphore::Wait never gets NULL from the queue:
\* GetNextMethod would return NULL, and NetworkThread::Call would dereference a
\* session that is not there.
NeverNull == \A c \in Consumers : pc[c] = "call" => held[c] # Null

\* No wake-up is lost: while consumers sleep, each token is matched by a
\* producer about to signal or by a consumer already woken and about to test.
\* (Semaphore::Signal calls pthread_cond_signal after releasing the mutex.)
NoLostWakeup ==
    At(Consumers, "waiting") # {} =>
       value <= Cardinality(At(Producers, "posted"))
                  + Cardinality(At(Consumers, "woken"))

\* The queue built from the two parts is a blocking first-in first-out queue:
\* a consumer is handed the oldest request, once, and every request submitted
\* is eventually handed to a consumer.
Fifo == INSTANCE BlockingFifo
          WITH Requests <- Request, Workers <- Consumers, NoRequest <- Null,
               fifo <- queue, serving <- held
ImplementsFifo == Fifo!Spec
=============================================================================
