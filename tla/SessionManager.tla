--------------------------- MODULE SessionManager ---------------------------
(***************************************************************************)
(* The life of the server's sessions: admission by the epoll thread        *)
(* (SocketServer::Call, SessionManager::AddSession), registration, the     *)
(* waiting queue, the update loop and the removal of closed sessions by    *)
(* the main thread (SessionManager::Update).                               *)
(*                                                                         *)
(* A session is the number of the connection it was created for.  The main *)
(* thread's maps are its own, so one of its loop bodies is one step; what  *)
(* the epoll thread does concurrently is to append to addSessQueue and to  *)
(* read, one after the other and without a common lock, the lengths of the *)
(* two queues.  Any thread may close a session's socket at any time.       *)
(*                                                                         *)
(* The kernel is part of the environment: it hands out descriptors (owner  *)
(* says whose connection a descriptor is).  Faults names what it may do:   *)
(*   "reuse"   accept returns a descriptor whose former session is closed  *)
(*             but still registered;                                       *)
(*   "hangup"  a connection breaks: epoll reports EPOLLHUP or EPOLLERR for *)
(*             it, or a send fails before it does;                         *)
(*   "throw"   a call of the epoll thread for a descriptor that accept has *)
(*             returned fails.                                             *)
(***************************************************************************)
EXTENDS Integers, Sequences, FiniteSets, SequencesExt

CONSTANTS Fds,            \* the descriptors of the process
          MaxConns,       \* bound: connections over the whole run
          ActiveLimit,    \* m_sessionActiveLimit, 0 = no limit
          QueueLimit,     \* m_sessionQueueLimit, 0 = no limit
          UIntSize,       \* 2^32, the number of values of a uint32
          Faults,
          None

Sessions == 1..MaxConns

ASSUME FdsAssumption == Fds \subseteq Nat /\ IsFiniteSet(Fds)
ASSUME NoneAssumption == None \notin Fds /\ None \notin Nat
ASSUME LimitsAssumption == /\ MaxConns \in Nat
                           /\ ActiveLimit \in Nat /\ ActiveLimit < UIntSize
                           /\ QueueLimit \in Nat
                           /\ UIntSize \in Nat /\ UIntSize > MaxConns
ASSUME FaultsAssumption == Faults \subseteq {"reuse", "hangup", "throw"}

VARIABLES
    owner,     \* kernel: the connection a descriptor belongs to, or None
    conns,     \* number of connections accepted so far
    epc,       \* where the epoll thread is
    seen,      \* the first of the two lengths AddSession has read
    fresh,     \* sock_new: the descriptor accept has returned
    sock,      \* m_Socket of a session: its descriptor, None when closed
    id,        \* m_id of a session
    status,    \* s_status of a session, "none" before it is created
    inQueue,   \* m_inQueue of a session
    told,      \* the position last sent to a session in SMSG_QUEUE_POSITION
    keyDue,    \* i_timer_key of a session has passed
    addq,      \* addSessQueue
    wait,      \* m_waitSessQueue
    registry,  \* m_sessions: descriptor number to session
    mpc,       \* where the main thread is
    cur,       \* the session AddSessions_ has taken from addSessQueue
    todo       \* keys of m_sessions the update loop has still to visit

epoll == <<epc, seen, fresh>>
session == <<sock, id, status, inQueue, told, keyDue>>
queues == <<addq, wait>>
main == <<mpc, cur, todo>>
vars == <<owner, conns, epoll, session, queues, registry, main>>

Init == /\ owner = [f \in Fds |-> None]
        /\ conns = 0
        /\ epc = "idle"
        /\ seen = 0
        /\ fresh = None
        /\ sock = [s \in Sessions |-> None]
        /\ id = [s \in Sessions |-> 0]
        /\ status = [s \in Sessions |-> "none"]
        /\ inQueue = [s \in Sessions |-> FALSE]
        /\ told = [s \in Sessions |-> 0]
        /\ keyDue = [s \in Sessions |-> FALSE]
        /\ addq = << >>
        /\ wait = << >>
        /\ registry = [f \in Fds |-> None]
        /\ mpc = "drain"
        /\ cur = None
        /\ todo = {}

Keys == {f \in Fds : registry[f] # None}
Registered(s) == \E f \in Fds : registry[f] = s
Open(s) == sock[s] # None
Running == mpc # "crashed"

-----------------------------------------------------------------------------
(* The epoll thread and the kernel.                                         *)

Reusable(f) == \/ "reuse" \in Faults
               \/ registry[f] = None /\ \A s \in Sessions : sock[s] # f

\* accept; SessionManager::AddSession reads the length of one of the queues ...
AcceptReads(f) ==
    /\ Running
    /\ epc = "idle"
    /\ conns < MaxConns
    /\ owner[f] = None
    /\ Reusable(f)
    /\ conns' = conns + 1
    /\ owner' = [owner EXCEPT ![f] = conns + 1]
    /\ fresh' = f
    /\ \/ epc' = "readWait" /\ seen' = Len(wait)
       \/ epc' = "readAdd" /\ seen' = Len(addq)
    /\ UNCHANGED <<session, queues, registry, main>>

\* getnameinfo or SetBlocking fails: the exception leaves the loop over the events,
\* and nobody closes the descriptor.
AcceptThrows(f) ==
    /\ Running
    /\ "throw" \in Faults
    /\ epc = "idle"
    /\ conns < MaxConns
    /\ owner[f] = None
    /\ Reusable(f)
    /\ conns' = conns + 1
    /\ owner' = [owner EXCEPT ![f] = conns + 1]
    /\ UNCHANGED <<epoll, session, queues, registry, main>>

Count == seen + (IF epc = "readWait" THEN Len(addq) ELSE Len(wait))

Admitted == QueueLimit = 0 \/ Count < QueueLimit

\* ... then that of the other, and creates the session or refuses it.
AcceptDecides ==
    /\ Running
    /\ epc # "idle"
    /\ IF Admitted
         THEN /\ addq' = Append(addq, conns)
              /\ sock' = [sock EXCEPT ![conns] = fresh]
              /\ status' = [status EXCEPT ![conns] = "connected"]
              /\ UNCHANGED owner
         ELSE /\ owner' = [owner EXCEPT ![fresh] = None]
              /\ UNCHANGED <<addq, sock, status>>
    /\ epc' = "idle"
    /\ seen' = 0
    /\ fresh' = None
    /\ UNCHANGED <<conns, id, inQueue, told, keyDue, wait, registry, main>>

\* EPOLLHUP or EPOLLERR: close(fd), without telling the session.
HangUp(f) ==
    /\ Running
    /\ "hangup" \in Faults
    /\ owner[f] # None
    /\ status[owner[f]] # "none"
    /\ owner' = [owner EXCEPT ![f] = None]
    /\ UNCHANGED <<conns, epoll, session, queues, registry, main>>

\* A network thread's receive or send fails: CloseSocket closes the descriptor,
\* whoever owns it by now.  Network threads only know sessions that have been
\* found in m_sessions or have been sent something.
NetworkClose(s) ==
    /\ Running
    /\ Open(s)
    /\ Registered(s) \/ told[s] > 0 \/ status[s] = "login"
    /\ owner' = [owner EXCEPT ![sock[s]] = None]
    /\ sock' = [sock EXCEPT ![s] = None]
    /\ UNCHANGED <<conns, epoll, id, status, inQueue, told, keyDue, queues,
                   registry, main>>

-----------------------------------------------------------------------------
(* The main thread: AddSessions_, AddSession_.                              *)

\* GetActiveSessionCount, a uint32.
ActiveCount == (Cardinality(Keys) - Len(wait)) % UIntSize

DrainTakes ==
    /\ mpc = "drain"
    /\ addq # << >>
    /\ cur' = Head(addq)
    /\ addq' = Tail(addq)
    /\ mpc' = "insert"
    /\ UNCHANGED <<owner, conns, epoll, session, wait, registry, todo>>

\* m_sessions.insert does nothing when the key is present.
Insert(f, s) ==
    registry' = IF registry[f] = None THEN [registry EXCEPT ![f] = s] ELSE registry

\* HandleLogin of a session that is connected starts its login.
LoginStarted(S) ==
    [s \in Sessions |-> IF s \in S /\ status[s] = "connected" THEN "login" ELSE status[s]]

\* The session that has to wait is not inserted into m_sessions.
AddToWaitQueue_NoInsert ==
    /\ mpc = "insert"
    /\ ActiveLimit > 0 /\ ActiveCount >= ActiveLimit
    /\ inQueue' = [inQueue EXCEPT ![cur] = TRUE]
    /\ wait' = Append(wait, cur)
    /\ told' = [told EXCEPT ![cur] = Len(wait')]
    /\ id' = [id EXCEPT ![cur] = sock[cur]]
    /\ cur' = None
    /\ mpc' = "drain"
    /\ UNCHANGED <<owner, conns, epoll, sock, status, keyDue, addq, registry, todo>>

\* AddSession_ when the active sessions have reached their limit.
AddToWaitQueue ==
    /\ mpc = "insert"
    /\ ActiveLimit > 0 /\ ActiveCount >= ActiveLimit
    /\ inQueue' = [inQueue EXCEPT ![cur] = TRUE]
    /\ wait' = Append(wait, cur)
    /\ told' = [told EXCEPT ![cur] = Len(wait')]
    /\ id' = [id EXCEPT ![cur] = sock[cur]]
    /\ Insert(sock[cur], cur)
    /\ cur' = None
    /\ mpc' = "drain"
    /\ UNCHANGED <<owner, conns, epoll, sock, status, keyDue, addq, todo>>

\* The loop of AddSessions_ keeps the session it has dealt with.
AddActive_KeepsCur ==
    /\ mpc = "insert"
    /\ ActiveLimit = 0 \/ ActiveCount < ActiveLimit
    /\ id' = [id EXCEPT ![cur] = sock[cur]]
    /\ Insert(sock[cur], cur)
    /\ status' = LoginStarted({cur})
    /\ mpc' = "drain"
    /\ UNCHANGED <<owner, conns, epoll, sock, inQueue, told, keyDue, queues, cur, todo>>

\* AddSession_ otherwise.
AddActive ==
    /\ mpc = "insert"
    /\ ActiveLimit = 0 \/ ActiveCount < ActiveLimit
    /\ id' = [id EXCEPT ![cur] = sock[cur]]
    /\ Insert(sock[cur], cur)
    /\ status' = LoginStarted({cur})
    /\ cur' = None
    /\ mpc' = "drain"
    /\ UNCHANGED <<owner, conns, epoll, sock, inQueue, told, keyDue, queues, todo>>

DrainEnds ==
    /\ mpc = "drain"
    /\ addq = << >>
    /\ mpc' = "visit"
    /\ todo' = Keys
    /\ UNCHANGED <<owner, conns, epoll, session, queues, registry, cur>>

-----------------------------------------------------------------------------
(* The main thread: the loop of SessionManager::Update.                     *)

\* What RemoveQueuedSession makes of the waiting queue when s goes: s leaves it
\* if it is there, and if that leaves a slot free the first one is let in.
WaitIndex(s) == CHOOSE i \in DOMAIN wait : wait[i] = s
Found(s) == s \in ToSet(wait)
Without(s) == IF Found(s) THEN RemoveAt(wait, WaitIndex(s)) ELSE wait

\* The count goes below zero when it is zero already.
SessionsLeft_NoGuard(s) ==
    IF Found(s) THEN ActiveCount ELSE (ActiveCount - 1) % UIntSize

\* The leaver is taken off the count even when it was only waiting.
SessionsLeft_Always(s) ==
    IF ActiveCount = 0 THEN ActiveCount ELSE ActiveCount - 1

SessionsLeft(s) ==
    IF Found(s) \/ ActiveCount = 0 THEN ActiveCount ELSE ActiveCount - 1

LetsIn(s) == /\ ActiveLimit = 0 \/ SessionsLeft(s) < ActiveLimit
             /\ Without(s) # << >>

WaitAfter(s) == IF LetsIn(s) THEN Tail(Without(s)) ELSE Without(s)

\* The session let in is popped from the queue, but its login is not started.
Released_LeaverOnly(s) == IF Found(s) THEN {s} ELSE {}

Released(s) == (IF Found(s) THEN {s} ELSE {})
                 \cup (IF LetsIn(s) THEN {Head(Without(s))} ELSE {})

\* The positions are announced from the successor of the leaver on, although
\* the head of the queue was let in.
AnnounceFrom_NoReset(s) ==
    IF Found(s) THEN WaitIndex(s) ELSE IF LetsIn(s) THEN 2 ELSE Len(wait) + 1

AnnounceFrom(s) ==
    IF LetsIn(s) THEN 1 ELSE IF Found(s) THEN WaitIndex(s) ELSE Len(wait) + 1

\* SendWaitQueue reaches the sessions whose socket is open.
Announced(s) ==
    LET q == WaitAfter(s)
        new == {i \in DOMAIN q : i >= AnnounceFrom(s) /\ Open(q[i])}
    IN  [t \in Sessions |->
           IF \E i \in new : q[i] = t THEN CHOOSE i \in new : q[i] = t ELSE told[t]]

RemoveQueuedSession(s) ==
    /\ wait' = WaitAfter(s)
    /\ inQueue' = [t \in Sessions |-> inQueue[t] /\ t \notin Released(s)]
    /\ told' = Announced(s)

\* Session::Update returns true even when the socket is closed.
VisitKeeps_Closed ==
    /\ mpc = "visit"
    /\ todo # {}
    /\ LET s == registry[Min(todo)] IN
         /\ keyDue' = [keyDue EXCEPT ![s] = FALSE]
         /\ UNCHANGED status
    /\ todo' = todo \ {Min(todo)}
    /\ UNCHANGED <<owner, conns, epoll, sock, id, inQueue, told, queues, registry,
                   mpc, cur>>

\* Session::Update returns true.  A key refresh that is due has been sent.
VisitKeeps ==
    /\ mpc = "visit"
    /\ todo # {}
    /\ LET s == registry[Min(todo)] IN
         /\ Open(s)
         /\ keyDue[s] => owner[sock[s]] # None
         /\ keyDue' = [keyDue EXCEPT ![s] = FALSE]
         /\ \/ UNCHANGED status
            \/ /\ status[s] = "login"
               /\ status' = [status EXCEPT ![s] = "authenticated"]
    /\ todo' = todo \ {Min(todo)}
    /\ UNCHANGED <<owner, conns, epoll, sock, id, inQueue, told, queues, registry,
                   mpc, cur>>

\* The key refresh of GenerateNewKey cannot be sent, the descriptor being closed or
\* the connection broken: the exception leaves SessionManager::Update and is
\* swallowed by the loop of ServerCore.  The timer is not reset.
VisitThrows ==
    /\ mpc = "visit"
    /\ todo # {}
    /\ LET s == registry[Min(todo)] IN
         /\ Open(s)
         /\ status[s] = "authenticated"
         /\ owner[sock[s]] = None \/ "hangup" \in Faults
         /\ keyDue' = [keyDue EXCEPT ![s] = TRUE]
    /\ todo' = {}
    /\ mpc' = "drain"
    /\ UNCHANGED <<owner, conns, epoll, sock, id, status, inQueue, told, queues,
                   registry, cur>>

\* Session::Update returns false: the socket was closed, or its login timer or
\* one of its handlers closes it now.  erase(itr) is followed by itr++: the walk
\* goes on anywhere, ends, or crashes the server.
VisitRemoves ==
    /\ mpc = "visit"
    /\ todo # {}
    /\ LET f == Min(todo)
           s == registry[f]
       IN  /\ Open(s) => status[s] # "connected"
           /\ owner' = IF Open(s) THEN [owner EXCEPT ![sock[s]] = None] ELSE owner
           /\ sock' = [sock EXCEPT ![s] = None]
           /\ RemoveQueuedSession(s)
           /\ status' = [LoginStarted(Released(s)) EXCEPT ![s] = "gone"]
           /\ registry' = [registry EXCEPT ![f] = None]
           /\ \/ todo' \in SUBSET (Keys \ {f}) /\ UNCHANGED mpc
              \/ mpc' = "crashed" /\ UNCHANGED todo
    /\ UNCHANGED <<conns, epoll, id, keyDue, addq, cur>>

\* The channels are updated (ChannelTick) and the next Update begins.
VisitEnds ==
    /\ mpc = "visit"
    /\ todo = {}
    /\ mpc' = "drain"
    /\ UNCHANGED <<owner, conns, epoll, session, queues, registry, cur, todo>>

-----------------------------------------------------------------------------
Epoll == (\E f \in Fds : AcceptReads(f) \/ AcceptThrows(f) \/ HangUp(f)) \/ AcceptDecides

Main == \/ DrainTakes \/ AddToWaitQueue \/ AddActive \/ DrainEnds
        \/ VisitKeeps \/ VisitThrows \/ VisitRemoves \/ VisitEnds

Next == \/ Epoll
        \/ \E s \in Sessions : NetworkClose(s)
        \/ Main

\* ServerCore calls Update for ever.
Spec == Init /\ [][Next]_vars /\ WF_vars(Main)

-----------------------------------------------------------------------------
Statuses == {"none", "connected", "login", "authenticated", "gone"}

TypeOK ==
    /\ owner \in [Fds -> Sessions \cup {None}]
    /\ conns \in 0..MaxConns
    /\ epc \in {"idle", "readWait", "readAdd"}
    /\ seen \in Nat
    /\ fresh \in Fds \cup {None}
    /\ sock \in [Sessions -> Fds \cup {None}]
    /\ id \in [Sessions -> Fds \cup {0}]
    /\ status \in [Sessions -> Statuses]
    /\ inQueue \in [Sessions -> BOOLEAN]
    /\ told \in [Sessions -> Nat]
    /\ keyDue \in [Sessions -> BOOLEAN]
    /\ addq \in Seq(Sessions)
    /\ wait \in Seq(Sessions)
    /\ registry \in [Fds -> Sessions \cup {None}]
    /\ mpc \in {"drain", "insert", "visit", "crashed"}
    /\ cur \in Sessions \cup {None} /\ (cur # None <=> mpc = "insert")
    /\ todo \subseteq Fds

\* The waiting queue never outgrows the session map, so GetActiveSessionCount, an
\* unsigned difference of their sizes, never wraps: a wrapped count reads as four
\* billion active sessions and nobody would be let in again.  This holds even
\* when a waiting session could not be inserted into the map.
\* Nor does it outgrow twice its limit and one.  It does outgrow SessionQueueLimit:
\* AddSession adds two lengths while the main thread moves sessions from one queue
\* to the other, and the session in its hands is in neither.
WaitBounded ==
    /\ Len(wait) <= Cardinality(Keys)
    /\ QueueLimit > 0 => Len(wait) <= 2 * QueueLimit + 1

\* The position a waiting client was told last is its position in the queue,
\* whoever leaves the queue and wherever.
ToldPositions == \A i \in DOMAIN wait : Open(wait[i]) => told[wait[i]] = i

\* An accepted session whose login has not been started is on its way: it is in
\* exactly one of the two queues, once, or in the main thread's hands.
NotForgotten ==
    \A s \in Sessions : status[s] = "connected" =>
        Cardinality({i \in DOMAIN addq : addq[i] = s})
        + Cardinality({i \in DOMAIN wait : wait[i] = s})
        + (IF cur = s THEN 1 ELSE 0) = 1

\* No more sessions than SessionActiveLimit are past the waiting queue, and nobody
\* waits while a slot is free.
Active == {s \in Sessions : status[s] \in {"login", "authenticated"} /\ Registered(s)}
LimitsHold ==
    /\ ActiveLimit > 0 => Cardinality(Active) <= ActiveLimit
    /\ wait # << >> => Cardinality(Active) >= ActiveLimit

\* FindSession finds a session by its id: each session that has been let in and is
\* connected is the one registered under its descriptor.
FoundById == \A s \in Sessions :
                status[s] \in {"login", "authenticated"} /\ Open(s)
                   => registry[id[s]] = s

\* "Update all sessions": a session whose socket is closed is eventually visited
\* and removed.
ClosedAreRemoved ==
    \A s \in Sessions : Registered(s) /\ ~Open(s) ~> ~Registered(s) \/ ~Running

=============================================================================
