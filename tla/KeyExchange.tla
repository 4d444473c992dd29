---------------------------- MODULE KeyExchange ----------------------------
(***************************************************************************)
(* One connection: the login and the refresh of the session key, on both   *)
(* sides.                                                                  *)
(*                                                                         *)
(*   login     S->C nonce, C->S request, S->C accept, S->C test,           *)
(*             C->S answer                                                 *)
(*   refresh   S->C refresh(half), C->S refresh(half), S->C refresh()      *)
(*                                                                         *)
(* What a packet is sealed with depends on the state of the sender at the  *)
(* moment it is sealed, and whether it can be read on the state of the     *)
(* receiver at the moment it is received; neither is part of the packet.   *)
(* So the threads matter: on the server the main thread (timers, login     *)
(* handlers), the thread that runs the session's other handlers, and the   *)
(* network threads, which send what is queued and receive; on the client   *)
(* the receiver thread (core) and the one of the interface (user).  On the *)
(* server sealing and sending is one critical section of m_mutex, on the   *)
(* client there is no lock, so that numbering a packet (Incapsulate) and   *)
(* sealing and sending it are two steps.                                   *)
(*                                                                         *)
(* Both ends are honest and have each other's public keys, so that packets *)
(* of the login never come out of turn.  A key is the set of the random    *)
(* halves it was combined from: Xor is the symmetric difference.  The      *)
(* connection delivers what is sent, in order.                             *)
(***************************************************************************)
EXTENDS Integers, Sequences, FiniteSets, Functions

CONSTANTS NetThreads,     \* the server's network threads
          Positions,      \* bound: SMSG_QUEUE_POSITION packets unsent when the login starts
          MaxRefreshes,   \* bound: refreshes the server starts
          MaxTyped,       \* bound: packets the user makes the client send
          MaxTold         \* bound: packets of other users sent to the client

ASSUME ThreadsAssumption == IsFiniteSet(NetThreads) /\ NetThreads # {}
ASSUME BoundsAssumption == /\ Positions \in Nat /\ MaxRefreshes \in Nat
                           /\ MaxTyped \in Nat /\ MaxTold \in Nat

VARIABLES
    toClient, toServer,   \* the two directions of the connection
    sOpen, cOpen,         \* !m_Socket->IsClosed() of either side
    sStatus, cStatus,     \* s_status
    srv,                  \* the server's encryption state
    cli,                  \* the client's encryption state
    sendq, recvq,         \* _sendQueue and _recvQueue of the server's session
    net,                  \* what each network thread is doing
    handler,              \* where the server's packet handler is
    refresher,            \* where GenerateNewKey is
    core, user,           \* what the client's two threads are doing
    made                  \* packets unsent at the start; random halves made, packets
                          \* typed and packets told so far; whether a refresh was started
                          \* while another was on its way

wires == <<toClient, toServer>>
server == <<sOpen, sStatus, srv, sendq, recvq, net, handler, refresher>>
client == <<cOpen, cStatus, cli, core, user>>
vars == <<wires, server, client, made>>

-----------------------------------------------------------------------------
(* Keys, messages and packets.                                              *)

Xor(a, b) == (a \ b) \cup (b \ a)

ServerHalf(n) == {<<"server", n>>}
ClientHalf(n) == {<<"client", n>>}

Message(op, half) == [op |-> op, half |-> half]

Idle == [at |-> "idle"]
Busy(at, msg) == [at |-> at, msg |-> msg]

NoNumber == -1
NextNumber(end) == IF end.mode = "aes" THEN end.sent ELSE NoNumber

\* IsSymmetric(): only then are packets numbered.
Numbered(end) == [end EXCEPT !.sent = IF end.mode = "aes" THEN @ + 1 ELSE @]

Seal(end) == [mode |-> end.mode, key |-> IF end.mode = "aes" THEN end.key ELSE {}]

\* SetEncryption(key, ENC_AES256); ResetPacketNum().
Rekeyed(end, key) == [end EXCEPT !.mode = "aes", !.key = key, !.sent = 0, !.got = 0]

Packet(msg, seal, number) == [msg |-> msg, seal |-> seal, number |-> number]

\* The packet is decrypted into what was sent, and its header has the form the
\* receiver expects.
Readable(p, end) == /\ p.seal = Seal(end)
                    /\ (p.number = NoNumber) <=> (end.mode # "aes")

\* Decapsulate: a number below the last one received is a replay.
Fresh(p, end) == end.mode = "aes" => p.number >= end.got

Accepts(p, end) == Readable(p, end) /\ Fresh(p, end)
Received(p, end) == [end EXCEPT !.got = IF end.mode = "aes" THEN p.number ELSE @]

Init == /\ toClient = << >> /\ toServer = << >>
        /\ sOpen = TRUE /\ cOpen = TRUE
        /\ sStatus = "connected" /\ cStatus = "connected"
        /\ srv = [mode |-> "none", next |-> "unspec", key |-> {}, tmp |-> {},
                  changekeys |-> 0, sent |-> 0, got |-> 0]
        /\ cli = [mode |-> "none", key |-> {}, tmp |-> {}, sent |-> 0, got |-> 0]
        /\ recvq = << >>
        /\ net = [t \in NetThreads |-> Idle]
        /\ handler = Idle /\ refresher = Idle
        /\ core = Idle /\ user = Idle
        /\ \E n \in 0..Positions :
             /\ sendq = [i \in 1..n |-> Message("position", {})]
             /\ made = [unsent |-> n, server |-> 0, client |-> 0, typed |-> 0, told |-> 0,
                        overlap |-> FALSE]

-----------------------------------------------------------------------------
(* Server: sending.  One critical section of m_mutex.                       *)

\* The encryption state after msg has been sent.
Afterwards(msg) ==
    LET end == Numbered(srv) IN
    IF msg.op = "refresh" /\ srv.changekeys = 1
      THEN [Rekeyed(end, srv.tmp) EXCEPT !.changekeys = 2]
    ELSE IF srv.next = "hyb"
      THEN [end EXCEPT !.mode = "hyb", !.next = "unspec"]
    ELSE end

ServerSends(msg) ==
    IF sOpen
      THEN /\ toClient' = Append(toClient, Packet(msg, Seal(srv), NextNumber(srv)))
           /\ srv' = Afterwards(msg)
      ELSE UNCHANGED <<toClient, srv>>

\* A network thread serves a SEND request: GetPacketToSend ...
NetTakes(t) ==
    /\ net[t].at = "idle"
    /\ sOpen
    /\ sendq # << >>
    /\ net' = [net EXCEPT ![t] = Busy("send", Head(sendq))]
    /\ sendq' = Tail(sendq)
    /\ UNCHANGED <<wires, sOpen, sStatus, srv, recvq, handler, refresher, client, made>>

\* ... and SendPacketToSocket.
NetSends(t) ==
    /\ net[t].at = "send"
    /\ ServerSends(net[t].msg)
    /\ net' = [net EXCEPT ![t] = Idle]
    /\ UNCHANGED <<toServer, sOpen, sStatus, sendq, recvq, handler, refresher, client, made>>

-----------------------------------------------------------------------------
(* Server: receiving.                                                       *)

\* RecvPacketFromSocket, in one critical section of m_mutex.  What cannot be
\* decrypted is taken as it is: the header read from it makes the packet be
\* ignored, or the session be closed.
NetReceives(t) ==
    /\ net[t].at = "idle"
    /\ sOpen
    /\ toServer # << >>
    /\ toServer' = Tail(toServer)
    /\ LET p == Head(toServer) IN
         \/ /\ Accepts(p, srv)
            /\ srv' = Received(p, srv)
            /\ net' = [net EXCEPT ![t] = Busy("queue", p.msg)]
            /\ UNCHANGED sOpen
         \/ /\ ~ Accepts(p, srv)
            /\ sOpen' = FALSE \/ UNCHANGED sOpen
            /\ ~ sOpen' => ~ Readable(p, srv)
            /\ UNCHANGED <<srv, net>>
    /\ UNCHANGED <<toClient, sStatus, sendq, recvq, handler, refresher, client, made>>

\* QueuePacket.
NetQueues(t) ==
    /\ net[t].at = "queue"
    /\ recvq' = Append(recvq, net[t].msg)
    /\ net' = [net EXCEPT ![t] = Idle]
    /\ UNCHANGED <<wires, sOpen, sStatus, srv, sendq, handler, refresher, client, made>>

\* The client has closed its end.
ServerHearsClose ==
    /\ sOpen /\ ~ cOpen
    /\ sOpen' = FALSE
    /\ UNCHANGED <<wires, sStatus, srv, sendq, recvq, net, handler, refresher, client, made>>

-----------------------------------------------------------------------------
(* Server: the login.                                                       *)

\* SetNextEncryption is forgotten.
LoginStarts_NoNext ==
    /\ sStatus = "connected"
    /\ sOpen
    /\ sStatus' = "step1"
    /\ sendq' = Append(sendq, Message("nonce", {}))
    /\ UNCHANGED <<wires, sOpen, srv, recvq, net, handler, refresher, client, made>>

\* The session manager lets the session in: HandleLogin in STATUS_CONNECTED.
LoginStarts ==
    /\ sStatus = "connected"
    /\ sOpen
    /\ sStatus' = "step1"
    /\ srv' = [srv EXCEPT !.next = "hyb"]
    /\ sendq' = Append(sendq, Message("nonce", {}))
    /\ UNCHANGED <<wires, sOpen, recvq, net, handler, refresher, client, made>>

\* Session::Update: the next packet, if it is of kind op, for its handler.
Takes(op) ==
    /\ handler.at = "idle"
    /\ sOpen
    /\ recvq # << >>
    /\ Head(recvq).op = op
    /\ recvq' = Tail(recvq)

\* STATUS_LOGIN_STEP_1: the name, the database and the nonce are checked.
HandleRequest ==
    /\ Takes("request")
    /\ sStatus = "step1"
    /\ \/ /\ sStatus' = "step2"
          /\ made' = [made EXCEPT !.server = @ + 1]
          /\ srv' = [srv EXCEPT !.key = ServerHalf(made.server + 1)]
          /\ handler' = Busy("accept", Head(recvq))
       \/ /\ sStatus' = "rejected"
          /\ handler' = Busy("reject", Head(recvq))
          /\ UNCHANGED <<made, srv>>
    /\ UNCHANGED <<wires, sOpen, sendq, net, refresher, client>>

SendAccept ==
    /\ handler.at = "accept"
    /\ ServerSends(Message("accept", srv.key))
    /\ handler' = [handler EXCEPT !.at = "combine"]
    /\ UNCHANGED <<toServer, sOpen, sStatus, sendq, recvq, net, refresher, client, made>>

\* Without m_mutex.
CombineKeys ==
    /\ handler.at = "combine"
    /\ srv' = Rekeyed(srv, Xor(srv.key, handler.msg.half))
    /\ handler' = [handler EXCEPT !.at = "test"]
    /\ UNCHANGED <<wires, sOpen, sStatus, sendq, recvq, net, refresher, client, made>>

SendTest ==
    /\ handler.at = "test"
    /\ ServerSends(Message("test", {}))
    /\ handler' = Idle
    /\ UNCHANGED <<toServer, sOpen, sStatus, sendq, recvq, net, refresher, client, made>>

\* "rej" is sent and the socket closed.
SendReject ==
    /\ handler.at = "reject"
    /\ ServerSends(Message("reject", {}))
    /\ sOpen' = FALSE
    /\ handler' = Idle
    /\ UNCHANGED <<toServer, sStatus, sendq, recvq, net, refresher, client, made>>

\* STATUS_LOGIN_STEP_2: the user is logged in, unless another session of the
\* same user is.
HandleAnswer ==
    /\ Takes("answer")
    /\ sStatus = "step2"
    /\ \/ sStatus' = "authenticated" /\ UNCHANGED sOpen
       \/ sStatus' = "rejected" /\ sOpen' = FALSE
    /\ UNCHANGED <<wires, srv, sendq, net, handler, refresher, client, made>>

\* LoginTimer: the main thread, not inside a handler of the login.
LoginTimeout ==
    /\ sStatus \in {"step1", "step2"}
    /\ sOpen
    /\ handler.at = "idle"
    /\ sOpen' = FALSE
    /\ sStatus' = "rejected"
    /\ UNCHANGED <<wires, srv, sendq, recvq, net, handler, refresher, client, made>>

-----------------------------------------------------------------------------
(* Server: the refresh of the key.                                          *)

Jobs == {net[t] : t \in NetThreads} \cup {handler, refresher, core}

\* A refresh is being asked for, answered or announced.  The code does not ask: u_changekeys
\* is 1 only between the answer and its announcement.
Exchanging ==
    \/ refresher.at = "send" \/ handler.at = "announce"
    \/ \E m \in Range(recvq) \cup {j.msg : j \in {i \in Jobs : i.at # "idle"}} :
           m.op = "refresh"
    \/ \E p \in Range(toClient) \cup Range(toServer) : p.msg.op = "refresh"

\* u_changekeys is not reset.
GenerateNewKey_NoReset ==
    /\ refresher.at = "idle"
    /\ sStatus = "authenticated" /\ sOpen
    /\ made.server <= MaxRefreshes
    /\ srv.changekeys # 1
    /\ made' = [made EXCEPT !.server = @ + 1, !.overlap = @ \/ Exchanging]
    /\ srv' = [srv EXCEPT !.tmp = ServerHalf(made.server + 1)]
    /\ refresher' = Busy("send", Message("refresh", ServerHalf(made.server + 1)))
    /\ UNCHANGED <<wires, sOpen, sStatus, sendq, recvq, net, handler, client>>

\* s_key_tmp still holds the combination of the last refresh: the new half is
\* added to it.
GenerateNewKey_KeepsTmp ==
    /\ refresher.at = "idle"
    /\ sStatus = "authenticated" /\ sOpen
    /\ made.server <= MaxRefreshes
    /\ srv.changekeys # 1
    /\ made' = [made EXCEPT !.server = @ + 1, !.overlap = @ \/ Exchanging]
    /\ srv' = [srv EXCEPT !.tmp = @ \cup ServerHalf(made.server + 1), !.changekeys = 0]
    /\ refresher' = Busy("send", Message("refresh", ServerHalf(made.server + 1)))
    /\ UNCHANGED <<wires, sOpen, sStatus, sendq, recvq, net, handler, client>>

\* GenerateNewKey, in the main thread, when the key timer has passed ...
GenerateNewKey ==
    /\ refresher.at = "idle"
    /\ sStatus = "authenticated" /\ sOpen
    /\ made.server <= MaxRefreshes
    /\ srv.changekeys # 1
    /\ made' = [made EXCEPT !.server = @ + 1, !.overlap = @ \/ Exchanging]
    /\ srv' = [srv EXCEPT !.tmp = ServerHalf(made.server + 1), !.changekeys = 0]
    /\ refresher' = Busy("send", Message("refresh", ServerHalf(made.server + 1)))
    /\ UNCHANGED <<wires, sOpen, sStatus, sendq, recvq, net, handler, client>>

\* ... and its SendPacketToSocket.
SendNewKey ==
    /\ refresher.at = "send"
    /\ ServerSends(refresher.msg)
    /\ refresher' = Idle
    /\ UNCHANGED <<toServer, sOpen, sStatus, sendq, recvq, net, handler, client, made>>

\* HandleRefreshKey, possibly in a thread other than the main one ...
HandleRefreshKey ==
    /\ Takes("refresh")
    /\ IF srv.changekeys # 0
         THEN UNCHANGED <<srv, handler>>
         ELSE /\ srv' = [srv EXCEPT !.tmp = Xor(@, Head(recvq).half), !.changekeys = 1]
              /\ handler' = Busy("announce", Message("refresh", {}))
    /\ UNCHANGED <<wires, sOpen, sStatus, sendq, net, refresher, client, made>>

\* ... and its SendPacketToSocket.
AnnounceNewKey ==
    /\ handler.at = "announce"
    /\ ServerSends(handler.msg)
    /\ handler' = Idle
    /\ UNCHANGED <<toServer, sOpen, sStatus, sendq, recvq, net, refresher, client, made>>

-----------------------------------------------------------------------------
(* Server: the messages of the users.                                       *)

\* What its user types is sent on to the others in its channel, or answered with a
\* message of the system if the session is in none; before the end of the login it
\* is ignored.
HandleMessage ==
    /\ Takes("message")
    /\ \/ UNCHANGED sendq
       \/ sStatus = "authenticated" /\ sendq' = Append(sendq, Message("message", {}))
    /\ UNCHANGED <<wires, sOpen, sStatus, srv, net, handler, refresher, client, made>>

\* Another session's message: SendPacket.
Tell ==
    /\ sStatus = "authenticated" /\ sOpen
    /\ made.told < MaxTold
    /\ made' = [made EXCEPT !.told = @ + 1]
    /\ sendq' = Append(sendq, Message("message", {}))
    /\ UNCHANGED <<wires, sOpen, sStatus, srv, recvq, net, handler, refresher, client>>

-----------------------------------------------------------------------------
(* Client: the receiver thread.                                             *)

\* Incapsulate, by a thread that is going to send msg; end is the encryption
\* state from which the number is taken.
Prepares(msg, end) == [at |-> "send", msg |-> msg, number |-> NextNumber(end)]

\* RecvPacketFromSocket of a packet of kind op that can be read.
Gets(op) ==
    /\ core.at = "idle"
    /\ cOpen
    /\ toClient # << >>
    /\ Accepts(Head(toClient), cli)
    /\ Head(toClient).msg.op = op
    /\ toClient' = Tail(toClient)

Half == Head(toClient).msg.half

HandleNonce ==
    /\ Gets("nonce")
    /\ cStatus = "connected"
    /\ cStatus' = "step1"
    /\ made' = [made EXCEPT !.client = @ + 1]
    /\ cli' = [cli EXCEPT !.mode = "hyb", !.key = ClientHalf(made.client + 1)]
    /\ core' = Prepares(Message("request", cli'.key), cli')
    /\ UNCHANGED <<toServer, server, cOpen, user>>

HandleAccept ==
    /\ Gets("accept")
    /\ cStatus = "step1"
    /\ cStatus' = "step2"
    /\ cli' = Rekeyed(cli, Xor(cli.key, Half))
    /\ UNCHANGED <<toServer, server, cOpen, core, user, made>>

HandleReject ==
    /\ Gets("reject")
    /\ cStatus = "step1"
    /\ cStatus' = "rejected"
    /\ cOpen' = FALSE
    /\ UNCHANGED <<toServer, server, cli, core, user, made>>

HandleTest ==
    /\ Gets("test")
    /\ cStatus = "step2"
    /\ cli' = Numbered(Received(Head(toClient), cli))
    /\ core' = Prepares(Message("answer", {}), cli)
    /\ UNCHANGED <<toServer, server, cOpen, cStatus, user, made>>

\* The client goes over to the new key as soon as it can compute it.
HandleNewHalf_SwitchNow ==
    /\ Gets("refresh")
    /\ Half # {}
    /\ made' = [made EXCEPT !.client = @ + 1]
    /\ LET half == ClientHalf(made.client + 1) IN
         /\ cli' = Rekeyed(cli, Xor(half, Half))
         /\ core' = Prepares(Message("refresh", half), cli)
    /\ UNCHANGED <<toServer, server, cOpen, cStatus, user>>

\* The client's own half is not combined with the server's.
HandleNewHalf_NoXor ==
    /\ Gets("refresh")
    /\ Half # {}
    /\ made' = [made EXCEPT !.client = @ + 1]
    /\ LET half == ClientHalf(made.client + 1) IN
         /\ cli' = [Numbered(Received(Head(toClient), cli)) EXCEPT !.tmp = half]
         /\ core' = Prepares(Message("refresh", half), cli)
    /\ UNCHANGED <<toServer, server, cOpen, cStatus, user>>

\* HandleRefreshKey of the client, packet.size() == 32.  s_key_tmp is set after
\* the answer was sent, but only this thread uses it.
HandleNewHalf ==
    /\ Gets("refresh")
    /\ Half # {}
    /\ made' = [made EXCEPT !.client = @ + 1]
    /\ LET half == ClientHalf(made.client + 1) IN
         /\ cli' = [Numbered(Received(Head(toClient), cli)) EXCEPT !.tmp = Xor(half, Half)]
         /\ core' = Prepares(Message("refresh", half), cli)
    /\ UNCHANGED <<toServer, server, cOpen, cStatus, user>>

\* HandleRefreshKey of the client, packet.size() == 0.
HandleNewKey ==
    /\ Gets("refresh")
    /\ Half = {}
    /\ cli' = Rekeyed(cli, cli.tmp)
    /\ UNCHANGED <<toServer, server, cOpen, cStatus, core, user, made>>

\* Packets that only reach the interface.
HandleOther ==
    /\ Gets("position") \/ Gets("message")
    /\ cli' = Received(Head(toClient), cli)
    /\ UNCHANGED <<toServer, server, cOpen, cStatus, core, user, made>>

\* What cannot be read is ignored, or makes the client close the connection.
CannotRead ==
    /\ core.at = "idle"
    /\ cOpen
    /\ toClient # << >>
    /\ ~ Accepts(Head(toClient), cli)
    /\ toClient' = Tail(toClient)
    /\ \/ UNCHANGED cOpen
       \/ ~ Readable(Head(toClient), cli) /\ cOpen' = FALSE
    /\ UNCHANGED <<toServer, server, cStatus, cli, core, user, made>>

ClientHearsClose ==
    /\ cOpen /\ ~ sOpen
    /\ cOpen' = FALSE
    /\ UNCHANGED <<wires, server, cStatus, cli, core, user, made>>

-----------------------------------------------------------------------------
(* Client: sending, by either of its threads, without a lock.               *)

Sends(thread) ==
    toServer' = IF cOpen THEN Append(toServer, Packet(thread.msg, Seal(cli), thread.number))
                         ELSE toServer

\* The client counts itself authenticated when its answer has been sent.
CoreSends ==
    /\ core.at = "send"
    /\ Sends(core)
    /\ core' = Idle
    /\ cStatus' = IF core.msg.op = "answer" THEN "authenticated" ELSE cStatus
    /\ UNCHANGED <<toClient, server, cOpen, cli, user, made>>

\* ClientCore::HandleSend, in the thread of the interface: Incapsulate ...
UserTypes ==
    /\ user.at = "idle"
    /\ cStatus # "rejected"
    /\ made.typed < MaxTyped
    /\ made' = [made EXCEPT !.typed = @ + 1]
    /\ user' = Prepares(Message("message", {}), cli)
    /\ cli' = Numbered(cli)
    /\ UNCHANGED <<wires, server, cOpen, cStatus, core>>

\* ... Encrypt and Send.
UserSends ==
    /\ user.at = "send"
    /\ Sends(user)
    /\ user' = Idle
    /\ UNCHANGED <<toClient, server, cOpen, cStatus, cli, core, made>>

-----------------------------------------------------------------------------
Network(t) == NetTakes(t) \/ NetSends(t) \/ NetReceives(t) \/ NetQueues(t)

Handler == \/ LoginStarts \/ HandleRequest \/ SendAccept \/ CombineKeys \/ SendTest
           \/ SendReject \/ HandleAnswer \/ HandleRefreshKey \/ AnnounceNewKey
           \/ HandleMessage

Core == \/ HandleNonce \/ HandleAccept \/ HandleReject \/ HandleTest
        \/ HandleNewHalf \/ HandleNewKey \/ HandleOther \/ CannotRead \/ CoreSends

Next == \/ \E t \in NetThreads : Network(t)
        \/ Handler
        \/ GenerateNewKey \/ SendNewKey \/ Tell
        \/ LoginTimeout \/ ServerHearsClose
        \/ Core \/ ClientHearsClose
        \/ UserTypes \/ UserSends

\* Every thread goes on as long as it has something to do.  No timer is promised
\* to pass and nobody is promised to type.
Spec == /\ Init /\ [][Next]_vars
        /\ \A t \in NetThreads : WF_vars(Network(t))
        /\ WF_vars(Handler) /\ WF_vars(SendNewKey)
        /\ WF_vars(Core) /\ WF_vars(UserSends)

-----------------------------------------------------------------------------
Ops == {"position", "nonce", "request", "accept", "reject", "test", "answer",
        "refresh", "message"}
Halves == ({"server"} \X (1..MaxRefreshes + 1)) \cup ({"client"} \X Nat)

\* A key combines at most one half of each side.
IsKey(k) == \A a, b \in k : a[1] = b[1] => a = b

TypeOK ==
    /\ sOpen \in BOOLEAN /\ cOpen \in BOOLEAN
    /\ {sStatus, cStatus} \subseteq {"connected", "step1", "step2", "authenticated", "rejected"}
    /\ \A end \in {srv, cli} :
         /\ end.mode \in {"none", "hyb", "aes"}
         /\ end.key \subseteq Halves /\ IsKey(end.key)
         /\ end.tmp \subseteq Halves /\ IsKey(end.tmp)
         /\ end.sent \in Nat /\ end.got \in Nat
    /\ srv.next \in {"unspec", "hyb"} /\ srv.changekeys \in 0..2
    /\ {m.op : m \in Range(sendq) \cup Range(recvq)} \subseteq Ops
    /\ \A p \in Range(toClient) \cup Range(toServer) :
         p.msg.op \in Ops /\ p.number \in Nat \cup {NoNumber}
    /\ \A t \in NetThreads : net[t].at \in {"idle", "send", "queue"}
    /\ handler.at \in {"idle", "accept", "combine", "test", "reject", "announce"}
    /\ {refresher.at, core.at, user.at} \subseteq {"idle", "send"}

\* Two ends that are logged in have the same key, except while the packet that
\* tells the client to take the key it has computed is on its way -- unless a refresh
\* was started while another was on its way, after which their keys may differ for ever.
\* Packet numbers restart only together with another key, so that the old packets cannot
\* be taken for new ones: those of the server always, those of the client unless
\* refreshes have overlapped.  (Of three, the answers to the first two may change places
\* between two network threads; the late one then makes the server announce the key that
\* the client has already, and the client's numbers restart under it.)
LoggedIn == {sStatus, cStatus} = {"authenticated"} /\ sOpen /\ cOpen
SameKey ==
    \/ cli.key = srv.key
    \/ /\ cli.tmp = srv.key
       /\ Message("refresh", {}) \in {p.msg : p \in Range(toClient)}
KeysAgree ==
    /\ [](LoggedIn /\ ~made.overlap => SameKey)
    /\ [][/\ srv'.sent < srv.sent => srv'.key # srv.key
          /\ ~made.overlap /\ cli'.sent < cli.sent => cli'.key # cli.key]_vars

\* Unless refreshes have overlapped, each side can read what it receives, with any number
\* of network threads.  The client: if no packet with a queue position was left unsent when
\* the login starts, and whatever its user types; the server changes its key and restarts
\* its numbers at such points that the client has followed by the time the first packet of
\* the new kind arrives.  The server: as long as the user types nothing.
ClientReads ==
    made.unsent = 0 /\ core.at = "idle" /\ cOpen /\ toClient # << >>
        => Accepts(Head(toClient), cli)
ServerReads == made.typed = 0 /\ sOpen /\ toServer # << >> => Accepts(Head(toServer), srv)
PacketsAreRead == ~made.overlap => ClientReads /\ ServerReads

\* A user who waits for the end of the login, and was not still to be told a position,
\* sees it even if no timer passes: both sides are logged in, or the server has closed
\* the session.
LoginEnds ==
    sStatus = "connected" ~> LoggedIn \/ ~ sOpen \/ made.typed > 0 \/ made.unsent > 0

\* A refresh the server has started is carried through, unless the user types or the next
\* one is started too early: its half becomes part of the key of both sides.
RefreshEnds ==
    \A n \in 2..MaxRefreshes + 1 :
       refresher.at = "send" /\ refresher.msg.half = ServerHalf(n)
         ~> \/ ServerHalf(n) \subseteq srv.key /\ ServerHalf(n) \subseteq cli.key
            \/ ~ sOpen \/ made.typed > 0 \/ made.overlap
=============================================================================
