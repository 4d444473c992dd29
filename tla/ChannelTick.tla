---------------------------- MODULE ChannelTick ----------------------------
(***************************************************************************)
(* One tick of the channels: the main thread runs ChannelManager::Update,  *)
(* which hands one Channel::Update per channel to the worker threads of    *)
(* the scheduling engine (ChannelUpdater::ScheduleUpdate), waits for them  *)
(* (ChannelUpdater::Wait) and then deletes the channels that have become   *)
(* empty (Channel::DelayedUpdate).                                         *)
(*                                                                         *)
(* m_channels is a hash map, so that a loop over it may visit the channels *)
(* in any order; of the sessions of a channel only whether there are any   *)
(* is kept (occupied).  The engine's queue is taken at the level of        *)
(* BlockingFifo, which WorkQueue implements, and ChannelUpdater::sem is a  *)
(* counter: WorkQueue checks the Semaphore class itself.                   *)
(***************************************************************************)
EXTENDS Integers, Sequences, FiniteSets

CONSTANTS Channels,       \* the channels that can exist
          Default,        \* the channel that is never deleted
          Threads,        \* the MethodThreads of the scheduling engine
          MaxTicks,       \* bound: ticks of the channel timer
          SizeMax,        \* largest value of a size_t
          MaxRequests,    \* bound: requests the memory can hold
          NoChannel

ASSUME ChannelsAssumption == /\ Default \in Channels
                             /\ NoChannel \notin Channels
ASSUME ThreadsAssumption == IsFiniteSet(Threads) /\ Threads # {}
ASSUME BoundsAssumption == /\ MaxTicks \in Nat
                           /\ SizeMax \in Nat
                           /\ MaxRequests \in 0..SizeMax

VARIABLES
    channels,   \* ChannelManager::m_channels
    occupied,   \* channels some session is a member of
    mpc,        \* where the main thread is
    todo,       \* channels the main thread's loop has still to visit
    fifo,       \* SchedulingEngine::q_method, requests as their channels
    wpc,        \* where each worker is
    upd,        \* the channel a worker's request refers to
    born,       \* the channel a worker has created and not entered yet
    pending,    \* ChannelUpdater::pending_requests, a size_t
    sem,        \* ChannelUpdater::sem
    active,     \* ChannelUpdater::active
    ticks       \* number of ticks started

chan == <<channels, occupied>>
updater == <<pending, sem, active>>
work == <<fifo, wpc, upd, born>>
vars == <<chan, mpc, todo, work, updater, ticks>>

Init == /\ channels = {}
        /\ occupied = {}
        /\ mpc = "sessions"
        /\ todo = {}
        /\ fifo = << >>
        /\ wpc = [t \in Threads |-> "free"]
        /\ upd = [t \in Threads |-> NoChannel]
        /\ born = [t \in Threads |-> NoChannel]
        /\ pending = 0
        /\ sem = 0
        /\ active = FALSE
        /\ ticks = 0

Running == mpc # "crashed"

\* The workers that are executing a request.
Busy == {t \in Threads : wpc[t] # "free"}

\* A worker lists a channel, maybe while the main thread walks over m_channels
\* without a lock.  The insertion may rehash the map, which leaves the iterator
\* of the walk dangling: it may go on with any channels, end, or crash.
List(c) ==
    /\ channels' = channels \cup {c}
    /\ IF mpc \in {"schedule", "locked", "delayed"}
         THEN \/ todo' \in SUBSET (channels \cup {c}) /\ UNCHANGED mpc
              \/ mpc' = "crashed" /\ UNCHANGED todo
         ELSE UNCHANGED <<mpc, todo>>

-----------------------------------------------------------------------------
(* Main thread, outside the tick: SessionManager::Update runs the handlers  *)
(* that are not left to the workers.                                        *)

\* HandleJoinChannel; JoinDefaultChannel, which lists Default if need be.
EnterChannel(c) ==
    /\ mpc = "sessions"
    /\ c \in channels \cup {Default}
    /\ channels' = channels \cup {c}
    /\ occupied' = occupied \cup {c}
    /\ UNCHANGED <<mpc, todo, work, updater, ticks>>

\* HandleLeaveChannel, the removal of a closed session: the last one leaves.
VacateChannel(c) ==
    /\ mpc = "sessions"
    /\ c \in occupied
    /\ occupied' = occupied \ {c}
    /\ UNCHANGED <<channels, mpc, todo, work, updater, ticks>>

\* HandleCreateChannel of a session that is in no channel.
CreateByMain(c) ==
    /\ mpc = "sessions"
    /\ c \notin channels /\ c # Default
    /\ channels' = channels \cup {c}
    /\ occupied' = occupied \cup {c}
    /\ UNCHANGED <<mpc, todo, work, updater, ticks>>

-----------------------------------------------------------------------------
(* Main thread: ChannelManager::Update.                                     *)

StartTick ==
    /\ mpc = "sessions"
    /\ ticks < MaxTicks
    /\ ticks' = ticks + 1
    /\ mpc' = "schedule"
    /\ todo' = channels
    /\ UNCHANGED <<chan, work, updater>>

\* ScheduleUpdate holds ChannelUpdater::m_mutex from here ...  Every request is
\* allocated, so that there are never more of them than a size_t can count.
ScheduleExecute ==
    /\ mpc = "schedule"
    /\ Len(fifo) + Cardinality(Busy) < MaxRequests
    /\ \E c \in todo : /\ fifo' = Append(fifo, c)
                       /\ todo' = todo \ {c}
    /\ mpc' = "locked"
    /\ UNCHANGED <<chan, wpc, upd, born, updater, ticks>>

Increment(n) == IF n = SizeMax THEN 0 ELSE n + 1
Decrement(n) == IF n = 0 THEN SizeMax ELSE n - 1

\* ... to here, where it also counts the request.
ScheduleCount ==
    /\ mpc = "locked"
    /\ pending' = Increment(pending)
    /\ active' = TRUE
    /\ mpc' = "schedule"
    /\ UNCHANGED <<chan, todo, work, sem, ticks>>

\* The counter of the semaphore is decremented without waiting for it.
Wait_NoBlock ==
    /\ mpc = "schedule"
    /\ todo = {}
    /\ sem' = IF active THEN sem - 1 ELSE sem
    /\ active' = FALSE
    /\ mpc' = "delayed"
    /\ todo' = channels
    /\ UNCHANGED <<chan, work, pending, ticks>>

Wait ==
    /\ mpc = "schedule"
    /\ todo = {}
    /\ IF active THEN sem > 0 /\ sem' = sem - 1
                 ELSE UNCHANGED sem
    /\ active' = FALSE
    /\ mpc' = "delayed"
    /\ todo' = channels
    /\ UNCHANGED <<chan, work, pending, ticks>>

\* Channel::DelayedUpdate is true: the channel stays.
KeepChannel ==
    /\ mpc = "delayed"
    /\ \E c \in todo \cap (occupied \cup {Default}) : todo' = todo \ {c}
    /\ UNCHANGED <<chan, mpc, work, updater, ticks>>

\* m_channels.erase(iter) and then ++iter: the iterator is dangling, so the loop
\* may go on at any element, end, or crash the server.
DropChannel ==
    /\ mpc = "delayed"
    /\ \E c \in todo \ (occupied \cup {Default}) :
         /\ channels' = channels \ {c}
         /\ \/ todo' \in SUBSET (channels \ {c}) /\ UNCHANGED mpc
            \/ mpc' = "crashed" /\ UNCHANGED todo
    /\ UNCHANGED <<occupied, work, updater, ticks>>

EndTick ==
    /\ mpc = "delayed"
    /\ todo = {}
    /\ mpc' = "sessions"
    /\ UNCHANGED <<chan, todo, work, updater, ticks>>

-----------------------------------------------------------------------------
(* Worker threads: MethodThread::Execute and ChannelUpdateRequest::Call.    *)

\* A request for a channel that has been deleted holds a dangling reference: the
\* update of what is left of it may crash the server.
TakeRequest(t) ==
    /\ Running
    /\ wpc[t] = "free"
    /\ fifo # << >>
    /\ upd' = [upd EXCEPT ![t] = Head(fifo)]
    /\ fifo' = Tail(fifo)
    /\ wpc' = [wpc EXCEPT ![t] = "updating"]
    /\ \/ UNCHANGED mpc
       \/ Head(fifo) \notin channels /\ mpc' = "crashed"
    /\ UNCHANGED <<chan, todo, born, updater, ticks>>

\* Inside Channel::Update a session's HandleCreateChannel lists a channel ...
CreateByWorker(t, c) ==
    /\ Running
    /\ wpc[t] = "updating"
    /\ upd[t] \in occupied
    /\ c \notin channels /\ c # Default
    /\ List(c)
    /\ born' = [born EXCEPT ![t] = c]
    /\ wpc' = [wpc EXCEPT ![t] = "creating"]
    /\ UNCHANGED <<occupied, fifo, upd, updater, ticks>>

\* ... takes the session, maybe the last one, out of its own channel ...
LeaveOld(t) ==
    /\ Running
    /\ wpc[t] = "creating"
    /\ occupied' \in {occupied, occupied \ {upd[t]}}
    /\ wpc' = [wpc EXCEPT ![t] = "moving"]
    /\ UNCHANGED <<channels, mpc, todo, fifo, upd, born, updater, ticks>>

\* ... and puts it into the new one.  Bound: one creation per Channel::Update.
EnterBorn(t) ==
    /\ Running
    /\ wpc[t] = "moving"
    /\ occupied' = occupied \cup {born[t]}
    /\ born' = [born EXCEPT ![t] = NoChannel]
    /\ wpc' = [wpc EXCEPT ![t] = "finishing"]
    /\ UNCHANGED <<channels, mpc, todo, fifo, upd, updater, ticks>>

UpdateReturns(t) ==
    /\ Running
    /\ wpc[t] = "updating"
    /\ wpc' = [wpc EXCEPT ![t] = "finishing"]
    /\ UNCHANGED <<chan, mpc, todo, fifo, upd, born, updater, ticks>>

\* The test for the last request is made before the decrement.
UpdateFinished_TestFirst(t) ==
    /\ Running
    /\ wpc[t] = "finishing"
    /\ mpc # "locked"
    /\ pending' = Decrement(pending)
    /\ sem' = IF pending <= 0 THEN sem + 1 ELSE sem
    /\ wpc' = [wpc EXCEPT ![t] = "free"]
    /\ upd' = [upd EXCEPT ![t] = NoChannel]
    /\ UNCHANGED <<chan, mpc, todo, fifo, born, active, ticks>>

\* m_mutex is not taken.
UpdateFinished_NoLock(t) ==
    /\ Running
    /\ wpc[t] = "finishing"
    /\ pending' = Decrement(pending)
    /\ sem' = IF pending' <= 0 THEN sem + 1 ELSE sem
    /\ wpc' = [wpc EXCEPT ![t] = "free"]
    /\ upd' = [upd EXCEPT ![t] = NoChannel]
    /\ UNCHANGED <<chan, mpc, todo, fifo, born, active, ticks>>

\* Under m_mutex, hence not while the main thread is inside ScheduleUpdate.
UpdateFinished(t) ==
    /\ Running
    /\ wpc[t] = "finishing"
    /\ mpc # "locked"
    /\ pending' = Decrement(pending)
    /\ sem' = IF pending' <= 0 THEN sem + 1 ELSE sem
    /\ wpc' = [wpc EXCEPT ![t] = "free"]
    /\ upd' = [upd EXCEPT ![t] = NoChannel]
    /\ UNCHANGED <<chan, mpc, todo, fifo, born, active, ticks>>

-----------------------------------------------------------------------------
Handlers == \E c \in Channels : EnterChannel(c) \/ VacateChannel(c) \/ CreateByMain(c)

Tick == \/ ScheduleExecute \/ ScheduleCount \/ Wait
        \/ KeepChannel \/ DropChannel \/ EndTick

Work(t) == \/ TakeRequest(t) \/ LeaveOld(t) \/ EnterBorn(t)
           \/ UpdateReturns(t) \/ UpdateFinished(t)

Next == \/ Handlers
        \/ StartTick
        \/ Tick
        \/ \E t \in Threads : Work(t) \/ \E c \in Channels : CreateByWorker(t, c)

\* The main thread and the workers run until they block; handlers are run only
\* when a client asks for them.
Spec == /\ Init /\ [][Next]_vars
        /\ WF_vars(Tick)
        /\ \A t \in Threads : WF_vars(Work(t))

-----------------------------------------------------------------------------
MainPC == {"sessions", "schedule", "locked", "delayed", "crashed"}
WorkerPC == {"free", "updating", "creating", "moving", "finishing"}

TypeOK ==
    /\ channels \subseteq Channels
    /\ occupied \subseteq Channels
    /\ mpc \in MainPC
    /\ todo \subseteq Channels
    /\ fifo \in Seq(Channels)
    /\ wpc \in [Threads -> WorkerPC]
    /\ upd \in [Threads -> Channels \cup {NoChannel}]
    /\ born \in [Threads -> Channels \cup {NoChannel}]
    /\ pending \in 0..SizeMax
    /\ sem \in Nat
    /\ active \in BOOLEAN
    /\ ticks \in 0..MaxTicks

\* pending_requests is the number of requests that are queued or being executed,
\* except while ScheduleUpdate, holding m_mutex, has handed a request over and
\* not counted it yet.  In particular the size_t never wraps, although a worker
\* may finish a request before the main thread counts it.
PendingExact ==
    Running =>
      Len(fifo) + Cardinality(Busy) = pending + (IF mpc = "locked" THEN 1 ELSE 0)

\* The main thread never waits for a signal nobody is going to send: as long as
\* it would block in Wait, a request is outstanding or a token is there.
WaitIsSignalled == active => pending > 0 \/ sem > 0

\* What the two comments in ChannelManager::Update say: after Wait comes the
\* part that is not thread safe, in which no channel is being updated.
BarrierHolds == mpc = "delayed" => fifo = << >> /\ Busy = {}

\* Every tick comes to an end (or the server crashes on the dangling iterator):
\* the main thread is never left in ChannelUpdater::Wait.
TickEnds == mpc # "sessions" ~> mpc \in {"sessions", "crashed"}
=============================================================================
