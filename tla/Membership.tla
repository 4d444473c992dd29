----------------------------- MODULE Membership -----------------------------
(***************************************************************************)
(* Who is in which channel: the end of the login, the channel handlers of  *)
(* Session (create, join, leave), the removal of a session, Channel and    *)
(* the map of ChannelManager, with the list of users every client shows.   *)
(*                                                                         *)
(* The main thread runs the handlers of all sessions in SessionManager::   *)
(* Update and then, in ChannelManager::Update, lets the workers run those  *)
(* handlers that may run in place (of the ones here: create) for the       *)
(* members of the channels.  A handler is a sequence of steps, one per     *)
(* access to what other threads can reach.  ChannelTick models the         *)
(* barrier between both phases and shows that it may let the main thread   *)
(* pass too early: EndWait may do so here.                                 *)
(*                                                                         *)
(* A Channel object is a member of Objects, its password is whether a join *)
(* is let in.                                                              *)
(*                                                                         *)
(* Joins, leaves and lists of users are packets: a handler puts them into  *)
(* _sendQueue of the session they are for, a network thread takes them out *)
(* and then sends them, in two steps that nothing keeps together.  What a  *)
(* client shows changes when a packet is sent: the connection keeps the    *)
(* order, and the client has one thread that handles what it receives.     *)
(***************************************************************************)
EXTENDS Naturals, Sequences, FiniteSets, SequencesExt

CONSTANTS Sessions, Users, Names, Objects, Workers,
          ThreadNet,    \* the number of network threads
          Fold(_),      \* what g_ascii_strcasecmp compares of a name
          Default,      \* the name "Default"
          Empty,        \* the name ""
          Main, None

ASSUME NamesAssumption == Default \in Names /\ Empty \in Names \ {Default}
ASSUME ObjectsAssumption == Objects # {}
ASSUME ThreadsAssumption == Main \notin Workers
ASSUME ThreadNetAssumption == ThreadNet \in Nat
ASSUME NoneAssumption == None \notin Sessions \cup Users \cup Names \cup Objects

Threads == Workers \cup {Main}

VARIABLES
    status,     \* Session::s_status
    wants,      \* Session::temp_username
    user,       \* SessionBase::username
    channel,    \* Session::m_channel
    members,    \* Channel::m_sessions
    name,       \* Channel::name, None while the object does not exist
    registered, \* ChannelManager::m_channels
    job,        \* the handler each thread is in: of which session, where, into what
    phase,      \* what the main thread does
    due,        \* channels handed to the workers and not taken yet
    upd,        \* the channel each worker updates
    inside,     \* the session each worker is in the Update of
    packets,    \* what each session is to be sent and has not been: the packets taken
                \* by a network thread, and behind them _sendQueue
    view,       \* the names each client's list of users shows
    past        \* what has happened that the code does not guard against

who == <<status, wants, user>>
rooms == <<members, name, registered>>
tick == <<phase, due, upd, inside>>
vars == <<who, channel, rooms, job, tick, packets, view, past>>

Idle == [of |-> None, at |-> "idle", to |-> None]
At(s, a, o) == [of |-> s, at |-> a, to |-> o]

Init == /\ status = [s \in Sessions |-> "connected"]
        /\ wants = [s \in Sessions |-> None]
        /\ user = [s \in Sessions |-> None]
        /\ channel = [s \in Sessions |-> None]
        /\ members = [o \in Objects |-> {}]
        /\ name = [o \in Objects |-> None]
        /\ registered = [n \in Names |-> None]
        /\ job = [t \in Threads |-> Idle]
        /\ phase = "sessions"
        /\ due = {}
        /\ upd = [w \in Workers |-> None]
        /\ inside = [w \in Workers |-> None]
        /\ packets = [s \in Sessions |-> <<>>]
        /\ view = [s \in Sessions |-> {}]
        /\ past = {}

Present == {s \in Sessions : status[s] \notin {"rejected", "gone"}}
Authenticated == {s \in Sessions : status[s] = "authenticated"}
Busy(s) == \E t \in Threads : job[t].of = s
Updating == {w \in Workers : upd[w] # None}

\* FindChannel, which knows no channel without a name.
FindChannel(n) == IF n = Empty THEN None ELSE registered[n]

\* add_user_to_list and remove_user_from_list: one row per name, whatever its case.
Shown(v, u) == IF \E r \in v : Fold(r) = Fold(u) THEN v ELSE v \cup {u}
Hidden(v, u) == {r \in v : Fold(r) # Fold(u)}

\* SendUsersList after the list was emptied: the rows of a set of names.  Of two
\* names that differ in case only the one that comes first is shown.
Lists(us) == {v \in SUBSET us : /\ \A u \in us : \E r \in v : Fold(r) = Fold(u)
                                /\ \A r, q \in v : Fold(r) = Fold(q) => r = q}

UsersOf(ss) == {user[s] : s \in ss}

\* SMSG_JOIN_CHANNEL, SMSG_LEAVE_CHANNEL and SMSG_USERS_CHANNEL_LIST.
Packet(k, u, us) == [kind |-> k, user |-> u, users |-> us, taken |-> FALSE]
Join(u) == Packet("join", u, {})
Leave(u) == Packet("leave", u, {})
List(us) == Packet("list", None, us)

\* What the client makes of a packet.
Effect(p, v) == CASE p.kind = "join" -> Shown(v, p.user)
                  [] p.kind = "leave" -> Hidden(v, p.user)
                  [] p.kind = "list" -> p.users

-----------------------------------------------------------------------------
(* Who may run a handler of which session.                                  *)

\* The main thread in SessionManager::Update, which visits every session.
MainMayRun(s) == phase = "sessions" /\ job[Main] = Idle /\ s \in Present

\* A worker in Session::Update, which goes on with the next packet of the session
\* even when the session has left the channel that is being updated.
WorkerMayRun(w, s) == inside[w] = s /\ job[w] = Idle

\* Two threads that are in handlers of one session.
Doubled(s) == IF Busy(s) THEN {"doubled"} ELSE {}

-----------------------------------------------------------------------------
(* Login: Session::HandleLogin, only run by the main thread.                *)

LoginStep1(s, u) ==
    /\ status[s] = "connected"
    /\ MainMayRun(s)
    /\ status' = [status EXCEPT ![s] = "step2"]
    /\ wants' = [wants EXCEPT ![s] = u]
    /\ UNCHANGED <<user, channel, rooms, job, tick, packets, view, past>>

\* The user is not looked for among the sessions.
LoginStep2_NoFind(s) ==
    /\ status[s] = "step2"
    /\ MainMayRun(s)
    /\ status' = [status EXCEPT ![s] = "authenticated"]
    /\ user' = [user EXCEPT ![s] = wants[s]]
    /\ job' = [job EXCEPT ![Main] = At(s, "default", None)]
    /\ past' = past \cup {"alike" : q \in {q \in Authenticated : Fold(user[q]) = Fold(wants[s])}}
    /\ UNCHANGED <<wants, channel, rooms, tick, packets, view>>

\* SessionManager::FindSession(temp_username) is null: the user is logged in.
LoginStep2(s) ==
    /\ status[s] = "step2"
    /\ MainMayRun(s)
    /\ \A q \in Sessions : status[q] # "gone" => user[q] # wants[s]
    /\ status' = [status EXCEPT ![s] = "authenticated"]
    /\ user' = [user EXCEPT ![s] = wants[s]]
    /\ job' = [job EXCEPT ![Main] = At(s, "default", None)]
    /\ past' = past \cup {"alike" : q \in {q \in Authenticated : Fold(user[q]) = Fold(wants[s])}}
    /\ UNCHANGED <<wants, channel, rooms, tick, packets, view>>

\* The user is logged in already: Close, STATUS_REJECTED.
LoginRejected(s) ==
    /\ status[s] = "step2"
    /\ MainMayRun(s)
    /\ \E q \in Sessions : status[q] # "gone" /\ user[q] = wants[s]
    /\ status' = [status EXCEPT ![s] = "rejected"]
    /\ UNCHANGED <<wants, user, channel, rooms, job, tick, packets, view, past>>

\* A new Channel, entered in m_channels.
NewChannel(o, n) ==
    /\ name[o] = None
    /\ name' = [name EXCEPT ![o] = n]
    /\ registered' = [registered EXCEPT ![n] = o]

\* JoinDefaultChannel, which creates the channel when it is missing.
JoinDefault(s) ==
    /\ job[Main] = At(s, "default", None)
    /\ \/ /\ FindChannel(Default) # None
          /\ job' = [job EXCEPT ![Main] = At(s, "insert", registered[Default])]
          /\ UNCHANGED <<name, registered>>
       \/ /\ FindChannel(Default) = None
          /\ \E o \in Objects :
                /\ NewChannel(o, Default)
                /\ job' = [job EXCEPT ![Main] = At(s, "insert", o)]
    /\ UNCHANGED <<who, channel, members, tick, packets, view, past>>

-----------------------------------------------------------------------------
(* The handlers of a member.                                                *)

\* HandleCreateChannel, CreateChannel: both hold ChannelManager::m_mutex.  The
\* loop that schedules the updates may still meet the new channel.
\* Bound: Objects, the channels ever created.
CreateChannel(t, s, n) ==
    /\ status[s] = "authenticated"
    /\ n # Default /\ FindChannel(n) = None
    /\ t = Main => MainMayRun(s)
    /\ t # Main => WorkerMayRun(t, s)
    /\ \E o \in Objects :
         /\ NewChannel(o, n)
         /\ job' = [job EXCEPT ![t] = At(s, "leave", o)]
         /\ due' \in IF phase = "schedule" THEN {due, due \cup {o}} ELSE {due}
    /\ past' = past \cup Doubled(s)
    /\ UNCHANGED <<who, channel, members, phase, upd, inside, packets, view>>

\* The session does not leave the channel it is in.
JoinChannel_NoLeave(s, n) ==
    /\ status[s] = "authenticated"
    /\ MainMayRun(s)
    /\ FindChannel(n) # None
    /\ job' = [job EXCEPT ![Main] = At(s, "insert", registered[n])]
    /\ past' = past \cup Doubled(s)
    /\ UNCHANGED <<who, channel, rooms, tick, packets, view>>

\* HandleJoinChannel with the right password.
JoinChannel(s, n) ==
    /\ status[s] = "authenticated"
    /\ MainMayRun(s)
    /\ FindChannel(n) # None
    /\ job' = [job EXCEPT ![Main] = At(s, "leave", registered[n])]
    /\ past' = past \cup Doubled(s)
    /\ UNCHANGED <<who, channel, rooms, tick, packets, view>>

\* HandleLeaveChannel.
LeaveChannel(s) ==
    /\ status[s] = "authenticated"
    /\ MainMayRun(s)
    /\ channel[s] # None
    /\ job' = [job EXCEPT ![Main] = At(s, "leave", None)]
    /\ past' = past \cup Doubled(s)
    /\ UNCHANGED <<who, channel, rooms, tick, packets, view>>

\* The socket is closed: SessionManager::Update takes the session out of its
\* channel and erases it.  When the connection was lost before, what has been sent
\* to it since is seen by nobody.
RemoveSession(s) ==
    /\ phase = "sessions" /\ job[Main] = Idle /\ status[s] # "gone"
    /\ status' = [status EXCEPT ![s] = "rejected"]
    /\ job' = [job EXCEPT ![Main] = At(s, "leave", None)]
    /\ past' = past \cup Doubled(s)
    /\ UNCHANGED <<wants, user, channel, rooms, tick, packets, view>>

\* Channel::RemoveSession up to the release of Channel::m_mutex, or no channel.
\* The one who left is given an empty list of users.
Erase(t) ==
    LET s == job[t].of  o == channel[s] IN
    /\ job[t].at = "leave"
    /\ IF o = None \/ s \notin members[o]
         THEN /\ job' = [job EXCEPT ![t].at = "left"]
              /\ UNCHANGED members
         ELSE /\ members' = [members EXCEPT ![o] = @ \ {s}]
              /\ job' = [job EXCEPT ![t].at = "leaving"]
    /\ UNCHANGED <<who, channel, name, registered, tick, packets, view, past>>

\* The one who left is not sent an empty list.
AnnounceLeave_NoList(t) ==
    LET s == job[t].of  o == channel[s] IN
    /\ job[t].at = "leaving"
    /\ job' = [job EXCEPT ![t].at = "left"]
    /\ packets' = [q \in Sessions |-> IF o # None /\ q \in members[o]
                                        THEN Append(packets[q], Leave(user[s]))
                                      ELSE packets[q]]
    /\ UNCHANGED <<who, channel, rooms, tick, view, past>>

\* SendToAllButOne of the leave, the empty list for the one who left.
AnnounceLeave(t) ==
    LET s == job[t].of  o == channel[s] IN
    /\ job[t].at = "leaving"
    /\ job' = [job EXCEPT ![t].at = "left"]
    /\ packets' = [q \in Sessions |->
         IF q = s THEN Append(packets[q], List({}))
         ELSE IF o # None /\ q \in members[o]
           THEN Append(packets[q], Leave(user[s]))
         ELSE packets[q]]
    /\ UNCHANGED <<who, channel, rooms, tick, view, past>>

\* setChannel(NULL), after which the handler of a leave ends.
Left(t) ==
    LET s == job[t].of IN
    /\ job[t].at = "left"
    /\ ~(t = Main /\ status[s] = "rejected")
    /\ channel' = [channel EXCEPT ![s] = None]
    /\ job' = [job EXCEPT ![t] = IF job[t].to = None THEN Idle
                                 ELSE [@ EXCEPT !.at = "insert"]]
    /\ UNCHANGED <<who, rooms, tick, packets, view, past>>

\* deleteSmartPointer, m_sessions.erase: nothing is left of the session, and what a
\* network thread still does for it does nothing.
Removed ==
    LET s == job[Main].of IN
    /\ job[Main].at = "left"
    /\ status[s] = "rejected"
    /\ status' = [status EXCEPT ![s] = "gone"]
    /\ wants' = [wants EXCEPT ![s] = None]
    /\ channel' = [channel EXCEPT ![s] = None]
    /\ packets' = [packets EXCEPT ![s] = <<>>]
    /\ view' = [view EXCEPT ![s] = {}]
    /\ job' = [job EXCEPT ![Main] = Idle]
    /\ UNCHANGED <<user, rooms, tick, past>>

\* Channel::AddSession up to the release of Channel::m_mutex.
Insert(t) ==
    LET s == job[t].of  o == job[t].to IN
    /\ job[t].at = "insert"
    /\ members' = [members EXCEPT ![o] = @ \cup {s}]
    /\ job' = [job EXCEPT ![t].at = "joining"]
    /\ UNCHANGED <<who, channel, name, registered, tick, packets, view, past>>

\* SendToAllButOne of the join and SendUsersList.
AnnounceJoin(t) ==
    LET s == job[t].of  o == job[t].to IN
    /\ job[t].at = "joining"
    /\ job' = [job EXCEPT ![t].at = "joined"]
    /\ \E v \in Lists(UsersOf(members[o])) :
         packets' = [q \in Sessions |->
           IF q = s THEN Append(packets[q], List(v))
           ELSE IF q \in members[o] THEN Append(packets[q], Join(user[s]))
           ELSE packets[q]]
    /\ UNCHANGED <<who, channel, rooms, tick, view, past>>

\* setChannel(sChan).
Joined(t) ==
    /\ job[t].at = "joined"
    /\ channel' = [channel EXCEPT ![job[t].of] = job[t].to]
    /\ job' = [job EXCEPT ![t] = Idle]
    /\ UNCHANGED <<who, rooms, tick, packets, view, past>>

-----------------------------------------------------------------------------
(* The network threads.                                                     *)

Taken(s) == {i \in DOMAIN packets[s] : packets[s][i].taken}

\* GetPacketToSend takes the first packet of _sendQueue, and none when the socket
\* is closed, as that of a session that is being removed is.
Take(s) ==
    /\ s \in Present
    /\ Cardinality(UNION {{q} \X Taken(q) : q \in Sessions}) < ThreadNet
    /\ \E i \in DOMAIN packets[s] \ Taken(s) :
         /\ 1..(i - 1) \subseteq Taken(s)
         /\ packets' = [packets EXCEPT ![s][i].taken = TRUE]
    /\ UNCHANGED <<who, channel, rooms, job, tick, view, past>>

\* SendPacketToSocket, which sends nothing to a closed socket.  Two threads that
\* have packets of one session may send them in the wrong order.
Send(s) ==
    /\ \E i \in Taken(s) :
         /\ packets' = [packets EXCEPT ![s] = RemoveAt(packets[s], i)]
         /\ IF s \in Present
              THEN /\ view' = [view EXCEPT ![s] = Effect(packets[s][i], view[s])]
                   /\ past' = IF i = 1 THEN past ELSE past \cup {"swapped"}
              ELSE UNCHANGED <<view, past>>
    /\ UNCHANGED <<who, channel, rooms, job, tick>>

-----------------------------------------------------------------------------
(* The tick: ChannelManager::Update and Channel::Update.                    *)

\* The list holds a null pointer for a channel that is not there.
StartTick_Null ==
    /\ phase = "sessions"
    /\ job[Main] = Idle
    /\ phase' = "schedule"
    /\ due' = due \cup {registered[n] : n \in Names}
    /\ UNCHANGED <<who, channel, rooms, job, upd, inside, packets, view, past>>

StartTick ==
    /\ phase = "sessions"
    /\ job[Main] = Idle
    /\ phase' = "schedule"
    /\ due' = due \cup {registered[n] : n \in {n \in Names : registered[n] # None}}
    /\ UNCHANGED <<who, channel, rooms, job, upd, inside, packets, view, past>>

\* The loop over m_channels has ended.
Scheduled ==
    /\ phase = "schedule"
    /\ phase' = "waiting"
    /\ UNCHANGED <<who, channel, rooms, job, due, upd, inside, packets, view, past>>

StartUpdate(w) ==
    /\ upd[w] = None
    /\ \E o \in due : /\ upd' = [upd EXCEPT ![w] = o]
                      /\ due' = due \ {o}
    /\ UNCHANGED <<who, channel, rooms, job, phase, inside, packets, view, past>>

\* The loop of Channel::Update goes on to a member, in no fixed order; when the
\* session before has left the channel, with a dangling iterator.
Visit(w) ==
    /\ upd[w] # None
    /\ job[w] = Idle
    /\ \E s \in members[upd[w]] : inside' = [inside EXCEPT ![w] = s]
    /\ UNCHANGED <<who, channel, rooms, job, phase, due, upd, packets, view, past>>

EndUpdate(w) ==
    /\ upd[w] # None
    /\ job[w] = Idle
    /\ upd' = [upd EXCEPT ![w] = None]
    /\ inside' = [inside EXCEPT ![w] = None]
    /\ UNCHANGED <<who, channel, rooms, job, phase, due, packets, view, past>>

\* DelayedUpdate of a channel is false.
Deserted_OneLeft(n) == /\ registered[n] # None /\ n # Default
                       /\ \E s \in Sessions : members[registered[n]] \subseteq {s}
Deserted(n) == registered[n] # None /\ n # Default /\ members[registered[n]] = {}

\* ChannelUpdater::Wait returns, too early when a token was left in the semaphore;
\* the empty channels other than Default are deleted.  The loop goes on with the
\* iterator of the channel it has deleted and may miss others (ChannelTick).
EndWait ==
    /\ phase = "waiting"
    /\ phase' = "sessions"
    /\ past' = IF due = {} /\ Updating = {} THEN past ELSE past \cup {"early"}
    /\ \E gone \in SUBSET {n \in Names : Deserted(n)} :
         /\ gone = {} => \A n \in Names : ~Deserted(n)
         /\ registered' = [n \in Names |-> IF n \in gone THEN None ELSE registered[n]]
    /\ UNCHANGED <<who, channel, members, name, job, due, upd, inside, packets, view>>

-----------------------------------------------------------------------------
Step(t) == \/ Erase(t) \/ AnnounceLeave(t) \/ Left(t)
           \/ Insert(t) \/ AnnounceJoin(t) \/ Joined(t)

Handle(s) == \/ \E u \in Users : LoginStep1(s, u)
             \/ LoginStep2(s) \/ LoginRejected(s) \/ JoinDefault(s)
             \/ \E n \in Names : JoinChannel(s, n)
             \/ LeaveChannel(s)
             \/ RemoveSession(s) \/ Removed
             \/ \E t \in Threads, n \in Names : CreateChannel(t, s, n)

Next == \/ \E s \in Sessions : Handle(s)
        \/ \E t \in Threads : Step(t)
        \/ StartTick \/ Scheduled \/ EndWait
        \/ \E w \in Workers : StartUpdate(w) \/ Visit(w) \/ EndUpdate(w)
        \/ \E s \in Sessions : Take(s) \/ Send(s)

Spec == Init /\ [][Next]_vars

-----------------------------------------------------------------------------
Statuses == {"connected", "step2", "authenticated", "rejected", "gone"}
Places == {"idle", "default", "leave", "leaving", "left", "insert", "joining", "joined"}
PacketSet ==
    [kind : {"join", "leave"}, user : Users, users : {{}}, taken : BOOLEAN] \cup
    [kind : {"list"}, user : {None}, users : SUBSET Users, taken : BOOLEAN]

TypeOK ==
    /\ status \in [Sessions -> Statuses]
    /\ wants \in [Sessions -> Users \cup {None}]
    /\ user \in [Sessions -> Users \cup {None}]
    /\ channel \in [Sessions -> Objects \cup {None}]
    /\ members \in [Objects -> SUBSET Sessions]
    /\ name \in [Objects -> Names \cup {None}]
    /\ registered \in [Names -> Objects \cup {None}]
    /\ job \in [Threads -> [of : Sessions \cup {None}, at : Places,
                            to : Objects \cup {None}]]
    /\ phase \in {"sessions", "schedule", "waiting"}
    /\ due \subseteq Objects
    /\ upd \in [Workers -> Objects \cup {None}]
    /\ inside \in [Workers -> Sessions \cup {None}]
    /\ packets \in [Sessions -> Seq(PacketSet)]
    /\ view \in [Sessions -> SUBSET Users]
    /\ past \subseteq {"early", "doubled", "alike", "swapped"}

\* No user is logged in twice, although the name a session asks for is checked
\* against the names in use only at the end of its login (HandleLogin).
UniqueNames ==
    \A s, q \in Authenticated : user[s] = user[q] => s = q

\* m_channel of a session and m_sessions of the channels agree, and no session is
\* in two channels, as long as no two threads have been in handlers of one
\* session: between its handlers it is a member of its channel and of no other.
ChannelAgrees ==
    "doubled" \notin past =>
      \A s \in Sessions : ~Busy(s) =>
        \A o \in Objects : s \in members[o] <=> channel[s] = o

\* Whoever is in a channel is in one that can be found, that is updated and that
\* the list of channels shows, unless the channel has no name, of which a second
\* one replaces the first.
InListedChannel ==
    past \cap {"early", "doubled"} = {} =>
      \A s \in Sessions : channel[s] # None =>
        LET n == name[channel[s]] IN n # Empty => registered[n] = channel[s]

\* When no handler is at work and nothing is left to be sent to it, the list of
\* users a connected client shows is that of its channel, and is empty outside of
\* the channels; for this no two users must have been logged in whose names differ only
\* in case, and no two packets of a session have been swapped by network threads.
ListsAgree ==
    past = {} /\ (\A t \in Threads : job[t] = Idle) =>
      \A s \in Authenticated : packets[s] = <<>> =>
        view[s] = IF channel[s] = None THEN {} ELSE UsersOf(members[channel[s]])
=============================================================================
