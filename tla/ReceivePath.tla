---------------------------- MODULE ReceivePath ----------------------------
(***************************************************************************)
(* The way of a client's packets through the server: from the connection,  *)
(* by an event of epoll (SocketServer::Call) and a RECV request            *)
(* (NetworkManager), through a network thread into _recvQueue, and from    *)
(* there to a handler, in the main thread (SingleSessionFilter) or in a    *)
(* worker that updates the session's channel (MapSessionFilter).           *)
(*                                                                         *)
(* Events are edge-triggered: one arrival makes the connection ready, what *)
(* arrives before epoll_wait is called again adds nothing, and each event  *)
(* makes a network thread receive one packet.  An event for a session that *)
(* is not found in m_sessions is dropped.                                  *)
(*                                                                         *)
(* The threads share q_request, a queue as in BlockingFifo.  Main thread   *)
(* and workers are not kept apart: the barrier of ChannelTick does not     *)
(* hold.  m_sessions has no lock: while the main thread changes it, a      *)
(* lookup may miss any session or crash the server.                        *)
(*                                                                         *)
(* A packet counts as handled also when the session drops it because its   *)
(* state forbids packets of that kind.                                     *)
(*                                                                         *)
(* The server closes a session for a receive that finds nothing or only    *)
(* the end, for a packet that it refuses, for one that it cannot send, by  *)
(* the timer of the login, and in handlers.                                *)
(***************************************************************************)
EXTENDS Integers, Sequences, FiniteSets, SequencesExt

CONSTANTS Sessions,
          NetThreads,     \* the network threads the server may have
          MaxPackets,     \* bound: packets each client sends
          None

ASSUME SetsAssumption == IsFiniteSet(Sessions) /\ IsFiniteSet(NetThreads)
ASSUME NoneAssumption == None \notin Sessions
ASSUME BoundsAssumption == MaxPackets \in Nat

VARIABLES
    sent,       \* clients: packets sent so far
    wire,       \* kernel: what has arrived on a connection and is unread
    ready,      \* kernel: epoll's list of connections with news
    batch,      \* events: what epoll_wait has returned and is still to be looked at
    opening,    \* sock_new: the session created but not yet added to epoll
    place,      \* where a session is on its way into and out of m_sessions
    open,       \* !m_Socket->IsClosed()
    requests,   \* q_request: the RECV requests
    net,        \* what each network thread is doing
    recvq,      \* _recvQueue
    main,       \* what the main thread is doing
    work,       \* what the worker of the session's channel is doing
    joined,     \* m_channel is not NULL
    login,      \* s_status: the login has not begun, it has, it has ended
    handled,    \* packets that were handled, in this order
    past,       \* what has happened to a session that counts as an excuse
    up          \* the server has not crashed

kernel == <<sent, wire, ready>>
epoll == <<batch, opening>>
queues == <<requests, net, recvq>>
handlers == <<main, work, joined, login, handled>>
vars == <<kernel, epoll, place, open, queues, handlers, past, up>>

-----------------------------------------------------------------------------
(* A packet is one that any thread or only the main thread may handle, or   *)
(* one that the server refuses: it is too long, what it contains cannot be  *)
(* read as a packet, or there is no such opcode.                            *)
Ops == {"inplace", "threadunsafe", "refused"}

(* A packet on the wire: whole, or only its first or its last bytes.        *)
Packet(n, op) == [n |-> n, op |-> op]
Bytes(n, op, part) == [n |-> n, op |-> op, part |-> part]
Fin == Bytes(0, "fin", "whole")

Idle == [at |-> "idle"]
At(at, s) == [at |-> at, s |-> s]
With(at, s, p) == [at |-> at, s |-> s, p |-> p]

InMap(s) == place[s] = "registered"
Watched(s) == place[s] # "none" /\ opening # s
MapChanges == main.at \in {"insert", "erase", "other"}

Note(s, what) == past' = [past EXCEPT ![s] = @ \cup {what}]

Init == /\ sent = [s \in Sessions |-> 0]
        /\ wire = [s \in Sessions |-> << >>]
        /\ ready = {}
        /\ batch = << >>
        /\ opening = None
        /\ place = [s \in Sessions |-> "none"]
        /\ open = [s \in Sessions |-> TRUE]
        /\ requests = << >>
        /\ \E T \in SUBSET NetThreads \ {{}} :
             net = [t \in NetThreads |-> IF t \in T THEN Idle ELSE [at |-> "off"]]
        /\ recvq = [s \in Sessions |-> << >>]
        /\ main = Idle
        /\ work = [s \in Sessions |-> Idle]
        /\ joined = [s \in Sessions |-> FALSE]
        /\ login = [s \in Sessions |-> "connected"]
        /\ handled = [s \in Sessions |-> << >>]
        /\ past = [s \in Sessions |-> {}]
        /\ up = TRUE

-----------------------------------------------------------------------------
(* The clients and the kernel.                                              *)

Arrives(s, bytes) ==
    /\ wire' = [wire EXCEPT ![s] = bytes]
    /\ ready' = IF Watched(s) THEN ready \cup {s} ELSE ready

\* What was sent last is still incomplete.
Halfway(s) == "halfway" \in past[s]

\* A client is hasty when it does not wait for the server: for the first message
\* of the login, and for the answer to what it has sent before.
Waits(s) == login[s] # "connected" /\ Len(handled[s]) = sent[s]

ClientSends(s) ==
    /\ up
    /\ place[s] # "none" /\ open[s]
    /\ sent[s] < MaxPackets
    /\ past[s] \cap {"hungup", "halfway"} = {}
    /\ sent' = [sent EXCEPT ![s] = @ + 1]
    /\ \E op \in Ops, part \in {"whole", "first"} :
         /\ op = "refused" => part = "whole"
         /\ Arrives(s, Append(wire[s], Bytes(sent[s] + 1, op, part)))
         /\ past' = [past EXCEPT ![s] =
                       @ \cup (IF Waits(s) THEN {} ELSE {"hasty"})
                         \cup (IF op = "refused" THEN {"malformed"} ELSE {})
                         \cup (IF part = "whole" THEN {} ELSE {"split", "halfway"})]
    /\ UNCHANGED <<epoll, place, open, queues, handlers, up>>

\* The rest of a packet arrives: to be read with its first bytes, or after them.
RestArrives(s) ==
    /\ up
    /\ open[s]
    /\ Halfway(s)
    /\ LET q == wire[s] IN
         Arrives(s, IF q # << >> /\ Last(q).part = "first"
                      THEN [q EXCEPT ![Len(q)].part = "whole"]
                      ELSE Append(q, Bytes(sent[s], "rest", "last")))
    /\ past' = [past EXCEPT ![s] = @ \ {"halfway"}]
    /\ UNCHANGED <<sent, epoll, place, open, queues, handlers, up>>

ClientHangsUp(s) ==
    /\ up
    /\ place[s] # "none" /\ open[s]
    /\ past[s] \cap {"hungup", "halfway"} = {}
    /\ Arrives(s, Append(wire[s], Fin))
    /\ Note(s, "hungup")
    /\ UNCHANGED <<sent, epoll, place, open, queues, handlers, up>>

-----------------------------------------------------------------------------
(* The epoll thread.                                                        *)

\* Level-triggered events: a connection stays ready as long as there is something
\* to read.
EpollWait_Level ==
    /\ up
    /\ batch = << >> /\ opening = None
    /\ ready # {}
    /\ batch' \in SetToSeqs({s \in ready : wire[s] # << >> /\ open[s]})
    /\ ready' = {s \in ready : wire[s] # << >> /\ open[s]}
    /\ UNCHANGED <<sent, wire, opening, place, open, queues, handlers, past, up>>

\* A connection that is ready but has nothing left to read is not reported.
EpollWait ==
    /\ up
    /\ batch = << >> /\ opening = None
    /\ ready # {}
    /\ batch' \in SetToSeqs({s \in ready : wire[s] # << >> /\ open[s]})
    /\ ready' = {}
    /\ UNCHANGED <<sent, wire, opening, place, open, queues, handlers, past, up>>

\* accept, and SessionManager::AddSession: the main thread knows the session ...
Accept(s) ==
    /\ up
    /\ opening = None
    /\ place[s] = "none"
    /\ place' = [place EXCEPT ![s] = "queued"]
    /\ opening' = s
    /\ UNCHANGED <<kernel, batch, open, queues, handlers, past, up>>

\* ... before epoll does: EPOLL_CTL_ADD.
Watch ==
    /\ up
    /\ opening # None
    /\ opening' = None
    /\ ready' = IF wire[opening] # << >> THEN ready \cup {opening} ELSE ready
    /\ UNCHANGED <<sent, wire, batch, place, open, queues, handlers, past, up>>

\* A request is made even if no session was found.
QueueRecive_NoCheck ==
    /\ up
    /\ batch # << >> /\ opening = None
    /\ batch' = Tail(batch)
    /\ LET s == Head(batch) IN
         requests' = Append(requests, IF InMap(s) THEN s ELSE None)
    /\ UNCHANGED <<kernel, opening, place, open, net, recvq, handlers, past, up>>

\* QueueRecive for the next event.
QueueRecive ==
    /\ up
    /\ batch # << >> /\ opening = None
    /\ batch' = Tail(batch)
    /\ LET s == Head(batch) IN
         \/ /\ InMap(s) \/ (MapChanges /\ main.s = s)
            /\ requests' = Append(requests, s)
            /\ UNCHANGED <<past, up>>
         \/ /\ ~ InMap(s)
            /\ UNCHANGED <<requests, past, up>>
         \/ /\ MapChanges
            /\ up' = FALSE \/ UNCHANGED up
            /\ Note(s, "missed")
            /\ UNCHANGED requests
    /\ UNCHANGED <<kernel, opening, place, open, net, recvq, handlers>>

-----------------------------------------------------------------------------
(* The network threads.                                                     *)

GetNextSession(t) ==
    /\ up
    /\ net[t].at = "idle"
    /\ requests # << >>
    /\ net' = [net EXCEPT ![t] = At("receive", Head(requests))]
    /\ requests' = Tail(requests)
    /\ UNCHANGED <<kernel, epoll, place, open, recvq, handlers, past, up>>

Garbled(s) == "garbled" \in past[s]

\* A receive that finds nothing (EAGAIN) is treated like one that finds the end.
NextBytes(s) == IF wire[s] = << >> THEN Fin ELSE Head(wire[s])
Fails(s) == NextBytes(s) = Fin

\* RecvPacketFromSocket, in one critical section of m_mutex.  Bytes that are read
\* before the packet is complete are taken for a packet, and what follows for the
\* next one: they are dropped in the end, or make the server close the session.
RecvPacketFromSocket(t) ==
    /\ up
    /\ net[t].at = "receive"
    /\ LET s == net[t].s IN
         \/ /\ ~ open[s]
            /\ net' = [net EXCEPT ![t] = Idle]
            /\ UNCHANGED <<wire, open, past>>
         \/ /\ open[s] /\ Fails(s)
            /\ open' = [open EXCEPT ![s] = FALSE]
            /\ net' = [net EXCEPT ![t] = Idle]
            /\ UNCHANGED <<wire, past>>
         \/ /\ open[s] /\ ~ Fails(s)
            /\ Garbled(s) \/ NextBytes(s).part # "whole"
            /\ wire' = [wire EXCEPT ![s] = Tail(@)]
            /\ Note(s, "garbled")
            /\ open' = [open EXCEPT ![s] = FALSE] \/ UNCHANGED open
            /\ net' = [net EXCEPT ![t] = Idle]
         \/ /\ open[s] /\ ~ Fails(s)
            /\ ~ Garbled(s) /\ NextBytes(s).part = "whole"
            /\ NextBytes(s).op = "refused"
            /\ wire' = [wire EXCEPT ![s] = Tail(@)]
            /\ open' = [open EXCEPT ![s] = FALSE]
            /\ net' = [net EXCEPT ![t] = Idle]
            /\ UNCHANGED past
         \/ /\ open[s] /\ ~ Fails(s)
            /\ ~ Garbled(s) /\ NextBytes(s).part = "whole"
            /\ wire' = [wire EXCEPT ![s] = Tail(@)]
            /\ net' = [net EXCEPT ![t] =
                         With("queue", s, Packet(NextBytes(s).n, NextBytes(s).op))]
            /\ UNCHANGED <<open, past>>
    /\ UNCHANGED <<sent, ready, epoll, place, requests, recvq, handlers, up>>

\* RecvPacketFromSocket after the release of m_mutex: there is no such opcode.
RefuseOpcode(t) ==
    /\ up
    /\ net[t].at = "queue" /\ net[t].p.op = "refused"
    /\ open' = [open EXCEPT ![net[t].s] = FALSE]
    /\ net' = [net EXCEPT ![t] = Idle]
    /\ UNCHANGED <<kernel, epoll, place, requests, recvq, handlers, past, up>>

\* The packet is put in front of those that wait.
QueuePacket_Front(t) ==
    /\ up
    /\ net[t].at = "queue" /\ net[t].p.op # "refused"
    /\ recvq' = [recvq EXCEPT ![net[t].s] = << net[t].p >> \o @]
    /\ net' = [net EXCEPT ![t] = Idle]
    /\ UNCHANGED <<kernel, epoll, place, open, requests, handlers, past, up>>

QueuePacket(t) ==
    /\ up
    /\ net[t].at = "queue" /\ net[t].p.op # "refused"
    /\ recvq' = [recvq EXCEPT ![net[t].s] = Append(@, net[t].p)]
    /\ net' = [net EXCEPT ![t] = Idle]
    /\ UNCHANGED <<kernel, epoll, place, open, requests, handlers, past, up>>

\* A SEND request: send() fails for a connection that is broken, or whose client
\* does not read, and the thread closes the session.
SendFails(t, s) ==
    /\ up
    /\ net[t].at = "idle"
    /\ InMap(s) /\ open[s]
    /\ open' = [open EXCEPT ![s] = FALSE]
    /\ Note(s, "unsent")
    /\ UNCHANGED <<kernel, epoll, place, queues, handlers, up>>

-----------------------------------------------------------------------------
(* The main thread.                                                         *)

\* m_sessions.insert and m_sessions.erase take their time.
InsertBegins(s) ==
    /\ up
    /\ main = Idle
    /\ place[s] = "queued"
    /\ main' = At("insert", s)
    /\ UNCHANGED <<kernel, epoll, place, open, queues, work, joined, login, handled, past, up>>

InsertEnds ==
    /\ up
    /\ main.at = "insert"
    /\ place' = [place EXCEPT ![main.s] = "registered"]
    /\ main' = Idle
    /\ UNCHANGED <<kernel, epoll, open, queues, work, joined, login, handled, past, up>>

\* A session that is not one of Sessions is inserted or erased.
OtherBegins ==
    /\ up
    /\ main = Idle
    /\ main' = At("other", None)
    /\ UNCHANGED <<kernel, epoll, place, open, queues, work, joined, login, handled, past, up>>

OtherEnds ==
    /\ up
    /\ main.at = "other"
    /\ main' = Idle
    /\ UNCHANGED <<kernel, epoll, place, open, queues, work, joined, login, handled, past, up>>

\* AddSession_ starts the login before it inserts the session.
Greet_Early(s) ==
    /\ up
    /\ main = Idle
    /\ place[s] \in {"queued", "registered"}
    /\ login[s] = "connected"
    /\ login' = [login EXCEPT ![s] = "begun"]
    /\ UNCHANGED <<kernel, epoll, place, open, queues, main, work, joined, handled, past, up>>

\* HandleLogin in STATUS_CONNECTED, at once or when a slot is free.
Greet(s) ==
    /\ up
    /\ main = Idle
    /\ place[s] = "registered"
    /\ login[s] = "connected"
    /\ login' = [login EXCEPT ![s] = "begun"]
    /\ UNCHANGED <<kernel, epoll, place, open, queues, main, work, joined, handled, past, up>>

\* Session::Update with a SingleSessionFilter, which lets every packet pass: either
\* it is of a kind that any thread may handle, or the main thread alone may.
MainTakes(s) ==
    /\ up
    /\ main = Idle
    /\ InMap(s) /\ open[s]
    /\ recvq[s] # << >>
    /\ main' = With("handle", s, Head(recvq[s]))
    /\ recvq' = [recvq EXCEPT ![s] = Tail(@)]
    /\ UNCHANGED <<kernel, epoll, place, open, requests, net, work, joined, login,
                   handled, past, up>>

\* LoginTimer: the login has begun and has not ended in time.
LoginTimer(s) ==
    /\ up
    /\ main = Idle
    /\ InMap(s) /\ open[s]
    /\ login[s] = "begun"
    /\ open' = [open EXCEPT ![s] = FALSE]
    /\ Note(s, "timeout")
    /\ UNCHANGED <<kernel, epoll, place, queues, handlers, up>>

\* A handler may take the session into a channel, which also ends the login; one of
\* the main thread's may take it out, or close the session.
MainHandles ==
    /\ up
    /\ main.at = "handle"
    /\ handled' = [handled EXCEPT ![main.s] = Append(@, main.p.n)]
    /\ \/ UNCHANGED <<joined, login, open, past>>
       \/ /\ login[main.s] # "connected"
          /\ joined' = [joined EXCEPT ![main.s] = TRUE]
          /\ login' = [login EXCEPT ![main.s] = "done"]
          /\ UNCHANGED <<open, past>>
       \/ /\ main.p.op = "threadunsafe"
          /\ joined' = [joined EXCEPT ![main.s] = FALSE]
          /\ UNCHANGED login
          /\ \/ open' = [open EXCEPT ![main.s] = FALSE] /\ Note(main.s, "kicked")
             \/ UNCHANGED <<open, past>>
    /\ main' = Idle
    /\ UNCHANGED <<kernel, epoll, place, queues, work, up>>

\* Session::Update returns false: the session leaves its channel and the map.
EraseBegins(s) ==
    /\ up
    /\ main = Idle
    /\ InMap(s) /\ ~ open[s]
    /\ joined' = [joined EXCEPT ![s] = FALSE]
    /\ main' = At("erase", s)
    /\ UNCHANGED <<kernel, epoll, place, open, queues, work, login, handled, past, up>>

EraseEnds ==
    /\ up
    /\ main.at = "erase"
    /\ place' = [place EXCEPT ![main.s] = "removed"]
    /\ main' = Idle
    /\ UNCHANGED <<kernel, epoll, open, queues, work, joined, login, handled, past, up>>

-----------------------------------------------------------------------------
(* A worker in Channel::Update.                                             *)

\* LockQueue::next takes the packet out before it asks the filter.
WorkerTakes_PopsFirst(s) ==
    /\ up
    /\ work[s] = Idle
    /\ joined[s] /\ open[s]
    /\ recvq[s] # << >>
    /\ recvq' = [recvq EXCEPT ![s] = Tail(@)]
    /\ work' = [work EXCEPT ![s] = IF Head(recvq[s]).op = "inplace"
                                     THEN With("handle", s, Head(recvq[s])) ELSE Idle]
    /\ UNCHANGED <<kernel, epoll, place, open, requests, net, main, joined, login,
                   handled, past, up>>

\* Session::Update with a MapSessionFilter: LockQueue::next takes the first packet
\* only if it may be handled by any thread.
WorkerTakes(s) ==
    /\ up
    /\ work[s] = Idle
    /\ joined[s] /\ open[s]
    /\ recvq[s] # << >> /\ Head(recvq[s]).op = "inplace"
    /\ recvq' = [recvq EXCEPT ![s] = Tail(@)]
    /\ work' = [work EXCEPT ![s] = With("handle", s, Head(recvq[s]))]
    /\ UNCHANGED <<kernel, epoll, place, open, requests, net, main, joined, login,
                   handled, past, up>>

\* The worker may create a channel and take the session there.
WorkerHandles(s) ==
    /\ up
    /\ work[s].at = "handle"
    /\ handled' = [handled EXCEPT ![s] = Append(@, work[s].p.n)]
    /\ joined' = [joined EXCEPT ![s] = TRUE] \/ UNCHANGED joined
    /\ work' = [work EXCEPT ![s] = Idle]
    /\ UNCHANGED <<kernel, epoll, place, open, queues, main, login, past, up>>

-----------------------------------------------------------------------------
Client(s) == ClientSends(s) \/ RestArrives(s) \/ ClientHangsUp(s)

Epoll == EpollWait \/ Watch \/ QueueRecive

Network(t) == \/ GetNextSession(t) \/ RecvPacketFromSocket(t)
              \/ RefuseOpcode(t) \/ QueuePacket(t)

MainEnds == InsertEnds \/ MainHandles \/ EraseEnds \/ OtherEnds
Main(s) == InsertBegins(s) \/ Greet(s) \/ MainTakes(s) \/ EraseBegins(s)

Worker(s) == WorkerTakes(s) \/ WorkerHandles(s)

Next == \/ Epoll \/ OtherBegins \/ MainEnds
        \/ \E t \in NetThreads : Network(t) \/ (\E s \in Sessions : SendFails(t, s))
        \/ \E s \in Sessions : \/ Client(s) \/ Accept(s) \/ Main(s) \/ LoginTimer(s)
                               \/ Worker(s)

\* Threads run.  The main thread visits every session in each of its rounds, so that
\* what it can do for a session again and again it does in the end.
Spec == /\ Init /\ [][Next]_vars
        /\ WF_vars(Epoll) /\ WF_vars(MainEnds)
        /\ \A t \in NetThreads : WF_vars(Network(t))
        /\ \A s \in Sessions : SF_vars(MainTakes(s)) /\ WF_vars(WorkerHandles(s))

-----------------------------------------------------------------------------
Packets == [n : 1..MaxPackets, op : Ops]

TypeOK ==
    /\ sent \in [Sessions -> 0..MaxPackets]
    /\ wire \in [Sessions -> Seq([n : 0..MaxPackets, op : Ops \cup {"fin", "rest"},
                                   part : {"whole", "first", "last"}])]
    /\ ready \subseteq Sessions
    /\ batch \in Seq(Sessions)
    /\ opening \in Sessions \cup {None}
    /\ place \in [Sessions -> {"none", "queued", "registered", "removed"}]
    /\ open \in [Sessions -> BOOLEAN]
    /\ requests \in Seq(Sessions)
    /\ \A t \in NetThreads : net[t].at \in {"off", "idle", "receive", "queue"}
    /\ recvq \in [Sessions -> Seq(Packets)]
    /\ main.at \in {"idle", "insert", "handle", "erase", "other"}
    /\ \A s \in Sessions : work[s].at \in {"idle", "handle"}
    /\ joined \in [Sessions -> BOOLEAN]
    /\ login \in [Sessions -> {"connected", "begun", "done"}]
    /\ handled \in [Sessions -> Seq(1..MaxPackets)]
    /\ up \in BOOLEAN

Count(q, x) == Cardinality({i \in DOMAIN q : q[i] = x})

\* A session is closed only when its client has hung up, has cut a packet in two or
\* has sent one that is refused, when a handler or the login's timer says so, or when
\* a packet could not be sent to it.  A thread that is asked to receive when there is
\* nothing to read takes that for a broken connection and closes the session too: no
\* thread is ever asked to, however the events and the receives interleave.
Causes == {"hungup", "split", "malformed", "kicked", "timeout", "unsent"}
OnlyClosedForAReason ==
    \A s \in Sessions : ~ open[s] => past[s] \cap Causes # {}

\* As long as a client sends whole packets that are not refused, each is in exactly one
\* place, from the wire to the hands of its handler and beyond, whichever threads pass
\* it on: none is lost or handled twice.
Places(s, n) ==
    Cardinality({i \in DOMAIN wire[s] : wire[s][i].n = n})
    + Cardinality({t \in NetThreads : net[t].at = "queue" /\ net[t].s = s /\ net[t].p.n = n})
    + Cardinality({i \in DOMAIN recvq[s] : recvq[s][i].n = n})
    + (IF main.at = "handle" /\ main.s = s /\ main.p.n = n THEN 1 ELSE 0)
    + (IF work[s].at = "handle" /\ work[s].p.n = n THEN 1 ELSE 0)
    + Count(handled[s], n)
InOnePlace ==
    \A s \in Sessions : past[s] \cap {"split", "malformed"} = {} =>
        \A n \in 1..sent[s] : Places(s, n) = 1

\* With a single network thread, packets wait for their handlers in the order in which
\* they were sent, and none that was sent before them is still to come.
SingleThread == Cardinality({t \in NetThreads : net[t].at # "off"}) = 1
InOrder ==
    SingleThread => \A s \in Sessions :
        /\ \A i, j \in DOMAIN recvq[s] : i < j => recvq[s][i].n < recvq[s][j].n
        /\ \A i \in DOMAIN recvq[s], j \in DOMAIN handled[s] : handled[s][j] < recvq[s][i].n

\* A client that speaks when it is spoken to is heard: its packet is handled, unless the
\* session is closed first, or the lookup of its session went wrong.
Excuses == {"hasty", "split", "missed"}
Heard ==
    \A s \in Sessions : \A n \in 1..MaxPackets :
        sent[s] = n ~> \/ \E i \in DOMAIN handled[s] : handled[s][i] = n
                      \/ ~ open[s] \/ past[s] \cap Excuses # {} \/ ~ up
=============================================================================
