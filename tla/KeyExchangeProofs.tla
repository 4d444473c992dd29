------------------------- MODULE KeyExchangeProofs -------------------------
(***************************************************************************)
(* Proofs about KeyExchange, for any network threads and bounds.           *)
(***************************************************************************)
EXTENDS KeyExchange, SequenceTheorems, TLAPS

-----------------------------------------------------------------------------
(* What is in a sequence.                                                   *)

\* No two places of a sequence hold members of M.
Once(q, M) == \A i, j \in 1..Len(q) : q[i] \in M /\ q[j] \in M => i = j

LEMMA RangeIndices ==
  ASSUME NEW S, NEW q \in Seq(S)
  PROVE  /\ Len(q) \in Nat
         /\ \A i \in 1..Len(q) : q[i] \in Range(q)
         /\ \A x \in Range(q) : x \in S /\ \E i \in 1..Len(q) : q[i] = x
BY LenProperties, ElementOfSeq DEF Range

LEMMA EmptyFacts ==
  /\ Range(<< >>) = {}
  /\ Len(<< >>) = 0
  /\ \A M : Once(<< >>, M)
BY DEF Range, Once

LEMMA AppendFacts ==
  ASSUME NEW S, NEW q \in Seq(S), NEW x \in S
  PROVE  /\ Append(q, x) \in Seq(S)
         /\ Len(q) \in Nat /\ Len(Append(q, x)) = Len(q) + 1
         /\ \A i \in 1..Len(q) : Append(q, x)[i] = q[i]
         /\ Append(q, x)[Len(q) + 1] = x
         /\ Range(Append(q, x)) = Range(q) \cup {x}
         /\ \A M : Once(q, M) /\ (x \in M => Range(q) \cap M = {}) => Once(Append(q, x), M)
<1> DEFINE r == Append(q, x)
<1>1. /\ r \in Seq(S) /\ Len(q) \in Nat /\ Len(r) = Len(q) + 1
      /\ \A i \in 1..Len(q) : r[i] = q[i]
      /\ r[Len(q) + 1] = x
  BY AppendProperties, LenProperties
<1> HIDE DEF r
<1>2. Range(r) = Range(q) \cup {x}
  <2>1. ASSUME NEW y \in Range(r) PROVE y \in Range(q) \cup {x}
    <3>1. PICK i \in 1..Len(r) : r[i] = y
      BY <1>1, <2>1, RangeIndices
    <3> QED BY <1>1, <3>1, RangeIndices
  <2>2. ASSUME NEW y \in Range(q) PROVE y \in Range(r)
    <3>1. PICK i \in 1..Len(q) : q[i] = y
      BY <2>2, RangeIndices
    <3>2. i \in 1..Len(r) /\ r[i] = y
      BY <1>1, <3>1
    <3> QED BY <1>1, <3>2, RangeIndices
  <2>3. x \in Range(r)
    BY <1>1, RangeIndices
  <2> QED BY <2>1, <2>2, <2>3
<1>3. ASSUME NEW M, Once(q, M), x \in M => Range(q) \cap M = {} PROVE Once(r, M)
  <2>1. \A i \in 1..Len(q) : q[i] \in Range(q)
    BY RangeIndices
  <2> QED BY <1>1, <1>3, <2>1 DEF Once
<1> QED BY <1>1, <1>2, <1>3 DEF r

LEMMA TailFacts ==
  ASSUME NEW S, NEW q \in Seq(S), q # << >>
  PROVE  /\ Head(q) \in S /\ Head(q) = q[1] /\ 1 \in 1..Len(q)
         /\ Tail(q) \in Seq(S)
         /\ Len(q) \in Nat /\ Len(Tail(q)) = Len(q) - 1
         /\ \A i \in 1..(Len(q) - 1) : Tail(q)[i] = q[i + 1] /\ i + 1 \in 1..Len(q)
         /\ Range(q) = {Head(q)} \cup Range(Tail(q))
         /\ \A M : Once(q, M) => Once(Tail(q), M) /\ (Head(q) \in M => Range(Tail(q)) \cap M = {})
<1> DEFINE r == Tail(q)
<1>1. /\ r \in Seq(S) /\ Len(q) \in Nat /\ Len(q) # 0 /\ Len(r) = Len(q) - 1
      /\ \A i \in 1..(Len(q) - 1) : r[i] = q[i + 1] /\ i + 1 \in 1..Len(q)
      /\ Head(q) \in S
  BY HeadTailProperties, LenProperties, EmptySeq
<1>2. Head(q) = q[1] /\ 1 \in 1..Len(q)
  BY <1>1
<1> HIDE DEF r
<1>3. PICK x : x = Head(q)
  OBVIOUS
<1>4. ASSUME NEW y \in Range(r) PROVE \E i \in 1..(Len(q) - 1) : r[i] = y /\ y \in Range(q)
  <2>1. PICK i \in 1..Len(r) : r[i] = y
    BY <1>1, <1>4, RangeIndices
  <2>2. q[i + 1] \in Range(q)
    BY <1>1, <2>1, RangeIndices
  <2> QED BY <1>1, <2>1, <2>2
<1>5. ASSUME NEW y \in Range(q), y # x PROVE y \in Range(r)
  <2>1. PICK i \in 1..Len(q) : q[i] = y
    BY <1>5, RangeIndices
  <2>2. i - 1 \in 1..Len(r) /\ r[i - 1] = y
    BY <1>1, <1>2, <1>3, <1>5, <2>1
  <2> QED BY <1>1, <2>2, RangeIndices
<1>6. x \in Range(q)
  BY <1>1, <1>2, <1>3, RangeIndices
<1>7. Range(q) = {x} \cup Range(r)
  BY <1>4, <1>5, <1>6
<1>8. ASSUME NEW M, Once(q, M) PROVE Once(r, M) /\ (x \in M => Range(r) \cap M = {})
  <2>1. Once(r, M)
    <3> SUFFICES ASSUME NEW i \in 1..Len(r), NEW j \in 1..Len(r), r[i] \in M, r[j] \in M PROVE i = j
      BY DEF Once
    <3>1. q[i + 1] \in M /\ q[j + 1] \in M /\ i + 1 \in 1..Len(q) /\ j + 1 \in 1..Len(q)
      BY <1>1
    <3>2. i + 1 = j + 1
      BY <1>8, <3>1 DEF Once
    <3> QED BY <1>1, <3>2
  <2>2. ASSUME x \in M, NEW y \in Range(r), y \in M PROVE FALSE
    <3>1. PICK i \in 1..(Len(q) - 1) : r[i] = y
      BY <1>4, <2>2
    <3>2. q[i + 1] \in M /\ i + 1 \in 1..Len(q) /\ q[1] \in M
      BY <1>1, <1>2, <1>3, <2>2, <3>1
    <3>3. i + 1 = 1
      BY <1>2, <1>8, <3>2 DEF Once
    <3> QED BY <1>1, <3>3
  <2> QED BY <2>1, <2>2
<1> QED BY <1>1, <1>2, <1>3, <1>7, <1>8 DEF r

-----------------------------------------------------------------------------
(* Keys and messages.                                                       *)

Modes == {"none", "hyb", "aes"}
ServerHalves == {ServerHalf(n) : n \in 1..(MaxRefreshes + 1)}
ClientHalves == {ClientHalf(n) : n \in Nat}
Keys == {k \in SUBSET Halves : IsKey(k)}
Numbers == Nat \cup {NoNumber}

\* What may be queued for the client, what is sent to it, and what is sent to the server.
Queued == {Message("position", {}), Message("message", {}), Message("nonce", {})}
FromServer == Queued \cup {Message("reject", {}), Message("test", {}), Message("refresh", {})}
                \cup {Message("accept", h) : h \in ServerHalves}
                \cup {Message("refresh", h) : h \in ServerHalves}
Requests == {Message("request", h) : h \in ClientHalves}
Answers == {Message("refresh", h) : h \in ClientHalves}
FromClient == {Message("answer", {}), Message("message", {})} \cup Requests \cup Answers

Seals == [mode : Modes, key : Keys]
ToClient == [msg : FromServer, seal : Seals, number : Numbers]
ToServer == [msg : FromClient, seal : Seals, number : Numbers]

\* A half of the server, one of the client.
Theirs(k) == \E a \in k : a[1] = "server"

LEMMA Bounds == MaxRefreshes \in Nat /\ NoNumber \notin Nat /\ NoNumber \in Int
BY BoundsAssumption DEF NoNumber

LEMMA HalvesFacts ==
  /\ {} \in Keys
  /\ \A s \in ServerHalves : s \in Keys /\ s # {} /\ Theirs(s)
                             /\ \A a, b \in s : a = b
  /\ \A c \in ClientHalves : c \in Keys /\ c # {} /\ ~Theirs(c)
  /\ \A s \in ServerHalves, c \in ClientHalves :
       /\ Xor(s, c) = s \cup c /\ Xor(c, s) = s \cup c
       /\ Xor(s, c) \in Keys /\ Xor(s, c) # s /\ Xor(s, c) # c /\ Theirs(Xor(s, c))
<1>1. ASSUME NEW s \in ServerHalves
      PROVE  s \in Keys /\ s # {} /\ Theirs(s) /\ \A a, b \in s : a = b
  <2>1. PICK n \in 1..(MaxRefreshes + 1) : s = {<<"server", n>>}
    BY DEF ServerHalves, ServerHalf
  <2>2. n \in 1..MaxRefreshes + 1
    BY Bounds, <2>1
  <2> QED BY <2>1, <2>2 DEF Keys, Halves, IsKey, Theirs
<1>2. ASSUME NEW c \in ClientHalves
      PROVE  c \in Keys /\ c # {} /\ ~Theirs(c)
  <2>1. PICK n \in Nat : c = {<<"client", n>>}
    BY DEF ClientHalves, ClientHalf
  <2> QED BY <2>1 DEF Keys, Halves, IsKey, Theirs
<1>3. ASSUME NEW s \in ServerHalves, NEW c \in ClientHalves
      PROVE  /\ Xor(s, c) = s \cup c /\ Xor(c, s) = s \cup c
             /\ Xor(s, c) \in Keys /\ Xor(s, c) # s /\ Xor(s, c) # c /\ Theirs(Xor(s, c))
  <2>1. PICK n \in 1..(MaxRefreshes + 1) : s = {<<"server", n>>}
    BY DEF ServerHalves, ServerHalf
  <2>2. PICK m \in Nat : c = {<<"client", m>>}
    BY DEF ClientHalves, ClientHalf
  <2>3. s \cap c = {}
    BY <2>1, <2>2
  <2>4. Xor(s, c) = s \cup c /\ Xor(c, s) = s \cup c
    BY <2>3 DEF Xor
  <2>5. s \subseteq Halves /\ c \subseteq Halves
    BY <1>1, <1>2 DEF Keys
  <2>6. IsKey(s \cup c)
    BY <2>1, <2>2 DEF IsKey
  <2>7. s # {} /\ c # {} /\ Theirs(s)
    BY <1>1, <1>2
  <2> QED BY <2>3, <2>4, <2>5, <2>6, <2>7 DEF Keys, Theirs
<1>4. {} \in Keys
  BY DEF Keys, IsKey
<1> QED BY <1>1, <1>2, <1>3, <1>4

-----------------------------------------------------------------------------
(* The values the variables can have.                                       *)

LoginStates == {"connected", "step1", "step2", "authenticated", "rejected"}
NetJobs == {Idle} \cup [at : {"send"}, msg : Queued] \cup [at : {"queue"}, msg : FromClient]
HandlerJobs == {Idle} \cup [at : {"accept", "combine", "test", "reject"}, msg : Requests]
                      \cup [at : {"announce"}, msg : {Message("refresh", {})}]
RefresherJobs == {Idle} \cup [at : {"send"}, msg : {Message("refresh", h) : h \in ServerHalves}]
CoreJobs == {Idle} \cup [at : {"send"}, number : Numbers,
                         msg : Requests \cup Answers \cup {Message("answer", {})}]
UserJobs == {Idle} \cup [at : {"send"}, number : Numbers, msg : {Message("message", {})}]
ServerEnds == [mode : Modes, next : {"unspec", "hyb"}, key : Keys, tmp : Keys,
               changekeys : 0..2, sent : Nat, got : Nat]
ClientEnds == [mode : Modes, key : Keys, tmp : Keys, sent : Nat, got : Nat]
Mades == [unsent : Nat, server : 0..(MaxRefreshes + 1), client : Nat, typed : Nat,
          told : Nat, overlap : BOOLEAN]

Types ==
    /\ toClient \in Seq(ToClient) /\ toServer \in Seq(ToServer)
    /\ sOpen \in BOOLEAN /\ cOpen \in BOOLEAN
    /\ sStatus \in LoginStates /\ cStatus \in LoginStates
    /\ srv \in ServerEnds /\ cli \in ClientEnds
    /\ sendq \in Seq(Queued) /\ recvq \in Seq(FromClient)
    /\ net \in [NetThreads -> NetJobs]
    /\ handler \in HandlerJobs /\ refresher \in RefresherJobs
    /\ core \in CoreJobs /\ user \in UserJobs
    /\ made \in Mades

\* What holds with overlapping refreshes too.  The server's halves are numbered in the order
\* in which they are made, and the one of the next key is younger than the key.
Younger ==
    /\ srv.changekeys # 2 => \A a \in srv.key, b \in srv.tmp :
                                a[1] = "server" /\ b[1] = "server" => a[2] < b[2]
    /\ \A a \in srv.key \cup srv.tmp : a[1] = "server" => a[2] <= made.server

Known ==
    /\ made.overlap => sStatus = "authenticated" /\ srv.tmp # {}
    /\ sStatus = "authenticated" => cStatus = "authenticated"
    /\ sStatus # "authenticated" => refresher.at = "idle" /\ srv.changekeys = 0 /\ srv.tmp = {}
    /\ sStatus \in {"connected", "step1"} => made.server = 0
    /\ handler.at \in {"accept", "combine", "test"} => sStatus = "step2"
    /\ handler.at \in {"accept", "combine"} => srv.key \in ServerHalves
    /\ cStatus = "step1" => cli.key \in ClientHalves
    /\ srv.changekeys = 0 => srv.tmp \in ServerHalves \cup {{}}
    /\ srv.changekeys # 0 => Theirs(srv.tmp)
    /\ Younger

-----------------------------------------------------------------------------
(* Without overlapping refreshes: the login and the refresh hand one turn from       *)
(* place to place.                                                                   *)

IsTurn(m) == m.op \notin {"position", "message", "accept"}

Turns == {m \in FromServer \cup FromClient : IsTurn(m)}
TurnPackets == {p \in ToClient \cup ToServer : IsTurn(p.msg)}

TurnIn(q) == Range(q) \cap Turns # {}
TurnOn(wire) == Range(wire) \cap TurnPackets # {}
OnNet(t) == net[t].at # "idle" /\ IsTurn(net[t].msg)
TurnNet == \E t \in NetThreads : OnNet(t)

Count(b) == IF b THEN 1 ELSE 0

OneTurn ==
    /\ Count(TurnIn(sendq)) + Count(TurnIn(recvq)) + Count(TurnOn(toClient))
         + Count(TurnOn(toServer)) + Count(TurnNet) + Count(handler.at # "idle")
         + Count(refresher.at # "idle") + Count(core.at # "idle") <= 1
    /\ Once(sendq, Turns) /\ Once(recvq, Turns)
    /\ Once(toClient, TurnPackets) /\ Once(toServer, TurnPackets)
    /\ \A t, u \in NetThreads : OnNet(t) /\ OnNet(u) => t = u

\* Where everybody is when a message is on its way to the client ...
Agree == cli.mode = "aes" /\ srv.mode = "aes" /\ cli.key = srv.key
Auth == sStatus = "authenticated" /\ cStatus = "authenticated"

RightAccept(half) ==
    /\ cStatus = "step1" /\ sStatus \in {"step2", "rejected"}
    /\ \/ handler.at = "combine" /\ half = srv.key /\ handler.msg.half = cli.key
       \/ srv.mode = "aes" /\ Xor(cli.key, half) = srv.key

ToClientRight(m) ==
    /\ m.op = "nonce" => cStatus = "connected" /\ sStatus \in {"step1", "rejected"}
    /\ m.op = "accept" => RightAccept(m.half)
    /\ m.op = "reject" => /\ cStatus = "step1" /\ sStatus = "rejected"
                          /\ ~ sOpen /\ srv.mode = "hyb"
    /\ m.op = "test" => /\ sStatus \in {"step2", "rejected"} /\ srv.mode = "aes"
                        /\ cStatus = "step1" \/ (cStatus = "step2" /\ Agree)
    /\ m.op = "message" => Auth
    /\ m.op = "refresh" /\ m.half # {} =>
         Auth /\ Agree /\ srv.changekeys = 0 /\ m.half = srv.tmp
    /\ m.op = "refresh" /\ m.half = {} =>
         /\ Auth /\ cli.mode = "aes" /\ srv.mode = "aes"
         /\ cli.tmp = srv.key /\ cli.tmp # cli.key

\* ... to the server (the client is in state answered once its answer is sent) ...
ToServerRight(m, answered) ==
    /\ m.op = "request" => /\ cStatus = "step1" /\ sStatus \in {"step1", "rejected"}
                           /\ m.half = cli.key /\ srv.mode = "hyb"
    /\ m.op = "answer" => /\ sStatus \in {"step2", "rejected"} /\ Agree
                          /\ cStatus = answered
    /\ m.op = "refresh" => /\ Auth /\ Agree /\ srv.changekeys = 0
                           /\ srv.tmp # {} /\ Xor(m.half, srv.tmp) = cli.tmp

\* ... and when the server is at work.
AtWorkRight ==
    /\ handler.at = "accept" => /\ sStatus = "step2" /\ cStatus = "step1"
                                /\ srv.mode = "hyb" /\ handler.msg.half = cli.key
    /\ handler.at = "combine" =>
         /\ sStatus = "step2" /\ srv.mode = "hyb"
         /\ \/ cStatus = "step1" /\ handler.msg.half = cli.key
            \/ /\ cStatus = "step2" /\ cli.mode = "aes"
               /\ cli.key = Xor(srv.key, handler.msg.half)
    /\ handler.at = "test" => /\ sStatus = "step2" /\ srv.mode = "aes"
                              /\ cStatus = "step1" \/ (cStatus = "step2" /\ Agree)
    /\ handler.at = "reject" => /\ sStatus = "rejected" /\ cStatus = "step1"
                                /\ srv.mode = "hyb"
    /\ handler.at = "announce" => /\ Auth /\ Agree /\ srv.changekeys = 1
                                  /\ srv.tmp = cli.tmp
    /\ refresher.at = "send" => /\ Auth /\ Agree /\ srv.changekeys = 0
                                /\ refresher.msg.half = srv.tmp /\ srv.tmp # {}

OnTheWay ==
    /\ \A m \in Range(sendq) : ToClientRight(m)
    /\ \A p \in Range(toClient) : ToClientRight(p.msg)
    /\ \A m \in Range(recvq) : ToServerRight(m, "authenticated")
    /\ \A p \in Range(toServer) : ToServerRight(p.msg, "authenticated")
    /\ \A t \in NetThreads :
         /\ net[t].at = "send" => ToClientRight(net[t].msg)
         /\ net[t].at = "queue" => ToServerRight(net[t].msg, "authenticated")
    /\ core.at = "send" => ToServerRight(core.msg, "step2")

Rightly == OnTheWay /\ AtWorkRight

NewKey == Message("refresh", {})

Phases ==
    /\ cStatus = "connected" => /\ cli.mode = "none" /\ srv.mode \in {"none", "hyb"}
                                /\ sStatus \in {"connected", "step1", "rejected"}
    /\ cStatus = "step1" => /\ cli.mode = "hyb" /\ srv.mode # "none"
                            /\ sStatus \in {"step1", "step2", "rejected"}
    /\ cStatus = "step2" => /\ cli.mode = "aes" /\ sStatus \in {"step2", "rejected"}
                            /\ srv.mode = "aes" \/ handler.at = "combine"
    /\ cStatus = "authenticated" => /\ cli.mode = "aes" /\ srv.mode = "aes"
                                    /\ sStatus \in {"step2", "authenticated", "rejected"}
    /\ cStatus = "rejected" => ~ cOpen /\ ~ sOpen /\ sStatus = "rejected"
    /\ sStatus = "connected" => srv.mode = "none"
    /\ sStatus \in {"connected", "step1"} => srv.mode # "aes"
    /\ srv.next = "hyb" <=> sStatus # "connected" /\ srv.mode = "none"
    /\ cStatus \in {"step2", "authenticated"} /\ srv.mode = "aes" =>
         Agree \/ \E p \in Range(toClient) : p.msg = NewKey
    /\ srv.changekeys = 1 => handler.at = "announce" \/ ~ sOpen
    /\ \A p \in Range(toClient) : p.msg.op = "nonce" => srv.mode = "hyb"

-----------------------------------------------------------------------------
(* What the packets on their way to the client are sealed with.             *)

IsSwitch(m) == m.op \in {"nonce", "accept"} \/ m = NewKey
Switches == {p \in ToClient : IsSwitch(p.msg)}

\* What the client reads with after m.
After(m) ==
    IF m.op = "nonce" THEN [mode |-> "hyb", key |-> {}]
    ELSE IF m.op = "accept" THEN [mode |-> "aes", key |-> Xor(cli.key, m.half)]
    ELSE [mode |-> "aes", key |-> cli.tmp]

\* With unsent positions, these may not be readable.
Exempt(p) ==
    /\ made.unsent > 0
    /\ p.msg.op = "nonce" \/ (p.msg.op = "position" /\ p.seal.mode # "aes")

WellSealed(p) ==
    /\ p.number = NoNumber <=> p.seal.mode # "aes"
    /\ p.seal.mode = "aes" => srv.mode = "aes"

\* Number i on the wire comes before or after a packet that makes the client change.
Early(i) == \A j \in 1..Len(toClient) : j < i => toClient[j] \notin Switches

Stream ==
    /\ Once(toClient, Switches)
    /\ \A p \in Range(toClient) : WellSealed(p)
    /\ \A i \in 1..Len(toClient) :
         ~ Exempt(toClient[i]) /\ Early(i) =>
           /\ toClient[i].seal = Seal(cli)
           /\ cli.mode = "aes" => cli.got <= toClient[i].number
    /\ \A j, i \in 1..Len(toClient) :
         j < i /\ toClient[j] \in Switches /\ ~ Exempt(toClient[i]) =>
           toClient[i].seal = After(toClient[j].msg)
    /\ \A i, j \in 1..Len(toClient) :
         /\ i < j /\ toClient[i].seal.mode = "aes" /\ toClient[j].seal.mode = "aes"
         /\ Early(j) \/ ~ Early(i)
         => toClient[i].number <= toClient[j].number
    /\ srv.mode # "aes" => cli.got = 0

SwitchOn == Range(toClient) \cap Switches # {}

\* What the server seals with can be read, after what is on the wire, unless it is exempt.
Ready == /\ sOpen /\ handler.at # "combine"
         /\ made.unsent = 0 \/ cStatus # "connected" \/ SwitchOn

Source ==
    Ready =>
      /\ ~ SwitchOn => /\ Seal(srv) = Seal(cli)
                       /\ srv.mode = "aes" => cli.got <= srv.sent
      /\ \A p \in Range(toClient) \cap Switches : Seal(srv) = After(p.msg)
      /\ \A i \in 1..Len(toClient) :
           toClient[i].seal.mode = "aes" /\ (SwitchOn => ~ Early(i)) =>
             toClient[i].number <= srv.sent

AcceptSent ==
    sOpen /\ handler.at = "combine" /\ cStatus = "step1" =>
      \E p \in Range(toClient) : p.msg.op = "accept"

NonePosition ==
    made.unsent = 0 => /\ \A m \in Range(sendq) : m.op # "position"
                       /\ \A t \in NetThreads : net[t].at = "send" => net[t].msg.op # "position"

\* What the packets on their way to the server are sealed with, if nothing is typed.
Back ==
    made.typed = 0 =>
      /\ user.at = "idle"
      /\ \A p \in Range(toServer) :
           /\ IsTurn(p.msg) /\ p.seal = Seal(cli)
           /\ p.number = NoNumber <=> cli.mode # "aes"
           /\ cli.mode = "aes" => srv.got <= p.number /\ p.number <= cli.sent
      /\ core.at = "send" => /\ core.number = NoNumber <=> cli.mode # "aes"
                             /\ cli.mode = "aes" => srv.got <= core.number /\ core.number <= cli.sent
      /\ srv.got = 0 \/ (Agree /\ srv.got <= cli.sent)

Apart == /\ OneTurn /\ Rightly /\ Phases /\ Stream /\ Source /\ AcceptSent
         /\ NonePosition /\ Back

IInv == Types /\ Known /\ (~ made.overlap => Apart)

-----------------------------------------------------------------------------
(* Values.                                                                  *)

LEMMA ToClientMessages ==
  ASSUME NEW m \in FromServer
  PROVE  /\ m.op \in {"position", "message", "nonce", "reject", "test", "accept", "refresh"}
         /\ m.op = "accept" => m.half \in ServerHalves
         /\ m.op = "refresh" => m = NewKey \/ (m.half \in ServerHalves /\ m.half # {})
         /\ m = NewKey => m.op = "refresh" /\ m.half = {}
<1>1. /\ NewKey.op = "refresh" /\ NewKey.half = {}
      /\ \A h \in ServerHalves : h # {}
  BY HalvesFacts DEF NewKey, Message
<1>2. CASE m \in Queued \cup {Message("reject", {}), Message("test", {}), Message("refresh", {})}
  BY <1>1, <1>2 DEF Queued, Message, NewKey
<1>3. CASE m \in {Message("accept", h) : h \in ServerHalves}
  BY <1>1, <1>3 DEF Message
<1>4. CASE m \in {Message("refresh", h) : h \in ServerHalves}
  BY <1>1, <1>4 DEF Message
<1> QED BY <1>2, <1>3, <1>4 DEF FromServer

LEMMA QueuedMessages ==
  ASSUME NEW m \in Queued
  PROVE  m \in FromServer /\ m.op \in {"position", "message", "nonce"}
BY DEF Queued, FromServer, Message

LEMMA ToServerMessages ==
  ASSUME NEW m \in FromClient
  PROVE  /\ m.op \in {"request", "answer", "refresh", "message"}
         /\ m.op = "request" => m \in Requests
         /\ m.op \in {"request", "refresh"} => m.half \in ClientHalves
<1>1. CASE m \in Requests
  BY <1>1 DEF Requests, Message
<1>2. CASE m \in Answers
  BY <1>2 DEF Answers, Message
<1>3. CASE m \in {Message("answer", {}), Message("message", {})}
  BY <1>3 DEF Message
<1> QED BY <1>1, <1>2, <1>3 DEF FromClient

\* What either side sends with, and its state when it has numbered a packet.
LEMMA EndFacts ==
  ASSUME Types
  PROVE  /\ Seal(srv) \in Seals /\ Seal(cli) \in Seals
         /\ NextNumber(srv) \in Numbers /\ NextNumber(cli) \in Numbers
         /\ Numbered(srv) \in ServerEnds /\ Numbered(cli) \in ClientEnds
         /\ \A k \in Keys : Rekeyed(srv, k) \in ServerEnds /\ Rekeyed(cli, k) \in ClientEnds
<1>1. srv \in ServerEnds /\ cli \in ClientEnds /\ {} \in Keys
  BY HalvesFacts DEF Types
<1>2. Seal(srv) \in Seals /\ Seal(cli) \in Seals
  BY <1>1 DEF ServerEnds, ClientEnds, Seal, Seals
<1>3. NextNumber(srv) \in Numbers /\ NextNumber(cli) \in Numbers
  BY <1>1 DEF ServerEnds, ClientEnds, NextNumber, Numbers
<1>4. Numbered(srv) \in ServerEnds /\ Numbered(cli) \in ClientEnds
  BY <1>1 DEF ServerEnds, ClientEnds, Numbered
<1>5. \A k \in Keys : Rekeyed(srv, k) \in ServerEnds /\ Rekeyed(cli, k) \in ClientEnds
  BY <1>1 DEF ServerEnds, ClientEnds, Rekeyed, Modes
<1> QED BY <1>2, <1>3, <1>4, <1>5

-----------------------------------------------------------------------------
(* What the steps common to several actions do.                             *)

\* The server goes over to the new key when it sends the announcement.
Rekeys(m) == m.op = "refresh" /\ srv.changekeys = 1

\* What is sent, and what sending does to the server's encryption state.
Sent(m) == Packet(m, Seal(srv), NextNumber(srv))
SentState(m) ==
    /\ Rekeys(m) => /\ srv'.mode = "aes" /\ srv'.key = srv.tmp /\ srv'.changekeys = 2
                    /\ srv'.sent = 0 /\ srv'.got = 0 /\ srv'.next = srv.next
    /\ ~ Rekeys(m) => /\ srv'.key = srv.key /\ srv'.changekeys = srv.changekeys
                      /\ srv'.got = srv.got
                      /\ srv'.sent = IF srv.mode = "aes" THEN srv.sent + 1 ELSE srv.sent
                      /\ srv.next = "hyb" => srv'.mode = "hyb" /\ srv'.next = "unspec"
                      /\ srv.next # "hyb" => srv'.mode = srv.mode /\ srv'.next = srv.next
    /\ srv'.tmp = srv.tmp

LEMMA SendFacts ==
  ASSUME Types, NEW m \in FromServer, ServerSends(m)
  PROVE  /\ ~ sOpen => toClient' = toClient /\ srv' = srv
         /\ sOpen => /\ toClient' = Append(toClient, Sent(m))
                     /\ SentState(m)
         /\ Sent(m) \in ToClient
         /\ srv' \in ServerEnds
         /\ toClient' \in Seq(ToClient)
<1>1. srv \in ServerEnds /\ toClient \in Seq(ToClient)
  BY DEF Types
<1>2. Sent(m) \in ToClient
  BY EndFacts DEF Sent, Packet, ToClient
<1>3. toClient' \in Seq(ToClient)
  BY <1>1, <1>2, AppendFacts DEF ServerSends, Sent
<1>4. ASSUME sOpen PROVE srv' = Afterwards(m) /\ toClient' = Append(toClient, Sent(m))
  BY <1>4 DEF ServerSends, Sent
<1>5. CASE ~ sOpen
  BY <1>1, <1>2, <1>3, <1>5 DEF ServerSends
<1>6. CASE sOpen /\ Rekeys(m)
  <2>1. srv' = [Rekeyed(Numbered(srv), srv.tmp) EXCEPT !.changekeys = 2]
    BY <1>4, <1>6 DEF Rekeys, Afterwards
  <2>2. srv' = [srv EXCEPT !.mode = "aes", !.key = srv.tmp, !.sent = 0, !.got = 0, !.changekeys = 2]
    BY <1>1, <2>1 DEF Rekeyed, Numbered, ServerEnds
  <2>3. srv' \in ServerEnds
    <3>1. PICK k \in Keys : k = srv.tmp
      BY <1>1 DEF ServerEnds
    <3>2. srv' = [mode |-> "aes", next |-> srv.next, key |-> k, tmp |-> k, changekeys |-> 2,
                  sent |-> 0, got |-> 0]
      BY <1>1, <2>2, <3>1 DEF ServerEnds
    <3>3. srv.next \in {"unspec", "hyb"}
      BY <1>1 DEF ServerEnds
    <3> QED BY <3>1, <3>2, <3>3 DEF ServerEnds, Modes
  <2>4. SentState(m)
    BY <1>1, <1>6, <2>2 DEF SentState, ServerEnds
  <2> QED BY <1>2, <1>3, <1>4, <1>6, <2>3, <2>4
<1>7. CASE sOpen /\ ~ Rekeys(m)
  <2>1. PICK end : end = Numbered(srv)
    OBVIOUS
  <2>2. /\ end \in ServerEnds /\ end.key = srv.key /\ end.changekeys = srv.changekeys
        /\ end.got = srv.got /\ end.tmp = srv.tmp /\ end.mode = srv.mode /\ end.next = srv.next
        /\ end.sent = IF srv.mode = "aes" THEN srv.sent + 1 ELSE srv.sent
    BY <1>1, <2>1, EndFacts DEF Numbered, ServerEnds
  <2>3. srv' = IF srv.next = "hyb" THEN [end EXCEPT !.mode = "hyb", !.next = "unspec"] ELSE end
    BY <1>4, <1>7, <2>1 DEF Afterwards, Rekeys
  <2>4. srv' \in ServerEnds
    BY <2>2, <2>3 DEF ServerEnds, Modes
  <2>5. SentState(m)
    BY <1>7, <2>2, <2>3 DEF SentState, ServerEnds
  <2> QED BY <1>2, <1>3, <1>4, <1>7, <2>4, <2>5
<1> QED BY <1>5, <1>6, <1>7

-----------------------------------------------------------------------------
(* Types and Known.                                                         *)

LEMMA KnownSame ==
  ASSUME Known, UNCHANGED <<sStatus, cStatus, srv.key, srv.tmp, srv.changekeys, cli.key>>,
         UNCHANGED handler \/ handler'.at = "idle",
         UNCHANGED refresher \/ refresher'.at = "idle",
         made'.overlap = made.overlap, made'.server = made.server
  PROVE  Known'
<1>1. Younger'
  BY DEF Known, Younger
<1> QED BY <1>1 DEF Known

LEMMA IdleIs == Idle.at = "idle"
BY DEF Idle

LEMMA NetFacts ==
  ASSUME Types, NEW t \in NetThreads
  PROVE  /\ net[t].at \in {"idle", "send", "queue"}
         /\ net[t].at = "send" => net[t].msg \in Queued
         /\ net[t].at = "queue" => net[t].msg \in FromClient
         /\ \A j \in NetJobs :
              /\ [net EXCEPT ![t] = j] \in [NetThreads -> NetJobs]
              /\ [net EXCEPT ![t] = j][t] = j
              /\ \A u \in NetThreads : u # t => [net EXCEPT ![t] = j][u] = net[u]
         /\ Idle \in NetJobs
         /\ \A m \in Queued : Busy("send", m) \in NetJobs
         /\ \A m \in FromClient : Busy("queue", m) \in NetJobs
<1>1. net \in [NetThreads -> NetJobs]
  BY DEF Types
<1>2. net[t] \in NetJobs
  BY <1>1
<1>3. /\ net[t].at \in {"idle", "send", "queue"}
      /\ net[t].at = "send" => net[t].msg \in Queued
      /\ net[t].at = "queue" => net[t].msg \in FromClient
  BY <1>2, IdleIs DEF NetJobs
<1>4. Idle \in NetJobs /\ (\A m \in Queued : Busy("send", m) \in NetJobs)
      /\ \A m \in FromClient : Busy("queue", m) \in NetJobs
  BY DEF NetJobs, Busy
<1>5. \A j \in NetJobs :
              /\ [net EXCEPT ![t] = j] \in [NetThreads -> NetJobs]
              /\ [net EXCEPT ![t] = j][t] = j
              /\ \A u \in NetThreads : u # t => [net EXCEPT ![t] = j][u] = net[u]
  BY <1>1
<1> QED BY <1>3, <1>4, <1>5

LEMMA JobFacts ==
  ASSUME Types
  PROVE  /\ handler.at \in {"idle", "accept", "combine", "test", "reject", "announce"}
         /\ handler.at \in {"accept", "combine", "test", "reject"} => handler.msg \in Requests
         /\ handler.at = "announce" => handler.msg = NewKey
         /\ refresher.at \in {"idle", "send"}
         /\ refresher.at = "send" => /\ refresher.msg.op = "refresh"
                                     /\ refresher.msg.half \in ServerHalves
                                     /\ refresher.msg \in FromServer
         /\ core.at \in {"idle", "send"}
         /\ core.at = "send" => /\ core.number \in Numbers
                                /\ core.msg \in FromClient
                                /\ core.msg.op \in {"request", "refresh", "answer"}
         /\ user.at \in {"idle", "send"}
         /\ user.at = "send" => /\ user.number \in Numbers
                                /\ user.msg = Message("message", {})
<1>1. /\ handler \in HandlerJobs /\ refresher \in RefresherJobs
      /\ core \in CoreJobs /\ user \in UserJobs
  BY DEF Types
<1>2. /\ handler.at \in {"idle", "accept", "combine", "test", "reject", "announce"}
      /\ handler.at \in {"accept", "combine", "test", "reject"} => handler.msg \in Requests
      /\ handler.at = "announce" => handler.msg = NewKey
  BY <1>1, IdleIs DEF HandlerJobs, NewKey
<1>3. /\ refresher.at \in {"idle", "send"}
      /\ refresher.at = "send" =>
           refresher.msg \in {Message("refresh", h) : h \in ServerHalves}
  BY <1>1, IdleIs DEF RefresherJobs
<1>4. ASSUME NEW m \in {Message("refresh", h) : h \in ServerHalves}
      PROVE  m.op = "refresh" /\ m.half \in ServerHalves /\ m \in FromServer
  BY <1>4 DEF Message, FromServer
<1>5. /\ core.at \in {"idle", "send"}
      /\ core.at = "send" => /\ core.number \in Numbers
                             /\ core.msg \in Requests \cup Answers \cup {Message("answer", {})}
  BY <1>1, IdleIs DEF CoreJobs
<1>6. ASSUME NEW m \in Requests \cup Answers \cup {Message("answer", {})}
      PROVE  m \in FromClient /\ m.op \in {"request", "refresh", "answer"}
  BY <1>6 DEF Message, FromClient, Requests, Answers
<1>7. /\ user.at \in {"idle", "send"}
      /\ user.at = "send" => /\ user.number \in Numbers
                             /\ user.msg = Message("message", {})
  BY <1>1, IdleIs DEF UserJobs
<1> QED BY <1>2, <1>3, <1>4, <1>5, <1>6, <1>7

LEMMA RequestHalves ==
  ASSUME NEW m \in Requests
  PROVE  m.half \in ClientHalves /\ m \in FromClient /\ m.op = "request"
BY DEF Requests, FromClient, Message

\* The first of a queue or of a wire.
LEMMA Firsts ==
  ASSUME Types
  PROVE  /\ sendq # << >> => /\ Head(sendq) \in Queued /\ Head(sendq) \in Range(sendq)
                             /\ Tail(sendq) \in Seq(Queued)
         /\ recvq # << >> => /\ Head(recvq) \in FromClient /\ Head(recvq) \in Range(recvq)
                             /\ Tail(recvq) \in Seq(FromClient)
         /\ toServer # << >> => /\ Head(toServer) \in ToServer
                                /\ Head(toServer) \in Range(toServer)
                                /\ Tail(toServer) \in Seq(ToServer)
                                /\ Head(toServer).msg \in FromClient
         /\ toClient # << >> => /\ Head(toClient) \in ToClient
                                /\ Head(toClient) \in Range(toClient)
                                /\ Tail(toClient) \in Seq(ToClient)
                                /\ Head(toClient).msg \in FromServer
<1>1. /\ sendq \in Seq(Queued) /\ recvq \in Seq(FromClient)
      /\ toClient \in Seq(ToClient) /\ toServer \in Seq(ToServer)
  BY DEF Types
<1>2. /\ \A p \in ToClient : p.msg \in FromServer
      /\ \A p \in ToServer : p.msg \in FromClient
  BY DEF ToClient, ToServer
<1>3. sendq # << >> => /\ Head(sendq) \in Queued /\ Head(sendq) \in Range(sendq)
                       /\ Tail(sendq) \in Seq(Queued)
  BY <1>1, TailFacts
<1>4. recvq # << >> => /\ Head(recvq) \in FromClient /\ Head(recvq) \in Range(recvq)
                       /\ Tail(recvq) \in Seq(FromClient)
  BY <1>1, TailFacts
<1>5. toServer # << >> => /\ Head(toServer) \in ToServer /\ Head(toServer) \in Range(toServer)
                          /\ Tail(toServer) \in Seq(ToServer)
  BY <1>1, TailFacts
<1>6. toClient # << >> => /\ Head(toClient) \in ToClient /\ Head(toClient) \in Range(toClient)
                          /\ Tail(toClient) \in Seq(ToClient)
  BY <1>1, TailFacts
<1> QED BY <1>2, <1>3, <1>4, <1>5, <1>6

\* What of the server is typed when the client's variables, or it, stay.
LEMMA TypesNet ==
  ASSUME Types, Known, NEW t \in NetThreads,
         NetTakes(t) \/ NetReceives(t) \/ NetQueues(t) \/ NetSends(t)
  PROVE  Types' /\ Known'
<1>1. CASE NetTakes(t)
  <2>1. /\ sendq # << >>
        /\ net' = [net EXCEPT ![t] = Busy("send", Head(sendq))]
        /\ sendq' = Tail(sendq)
        /\ UNCHANGED <<toClient, toServer, sOpen, cOpen, sStatus, cStatus, srv, cli, recvq,
                       handler, refresher, core, user, made>>
    BY <1>1 DEF NetTakes, wires, client
  <2>2. sendq' \in Seq(Queued) /\ net' \in [NetThreads -> NetJobs]
    BY <2>1, Firsts, NetFacts
  <2>3. Types'
    BY <2>1, <2>2 DEF Types
  <2> QED BY <2>1, <2>3, KnownSame
<1>2. CASE NetReceives(t)
  <2>1. /\ toServer # << >>
        /\ toServer' = Tail(toServer)
        /\ \/ net' = net
           \/ net' = [net EXCEPT ![t] = Busy("queue", Head(toServer).msg)]
        /\ srv' = srv \/ (srv' = Received(Head(toServer), srv) /\ Accepts(Head(toServer), srv))
        /\ sOpen' = FALSE \/ sOpen' = sOpen
        /\ UNCHANGED <<toClient, cOpen, sStatus, cStatus, cli, sendq, recvq,
                       handler, refresher, core, user, made>>
    BY <1>2 DEF NetReceives, client
  <2>2. PICK p \in ToServer : p = Head(toServer)
    BY <2>1, Firsts
  <2>3. Accepts(p, srv) =>
          p.number \in Numbers /\ (p.number = NoNumber <=> srv.mode # "aes")
    BY <2>2 DEF ToServer, Accepts, Readable
  <2>4. srv \in ServerEnds
    BY DEF Types
  <2>5. /\ srv' \in ServerEnds
        /\ UNCHANGED <<srv.key, srv.tmp, srv.changekeys>>
    BY <2>1, <2>2, <2>3, <2>4 DEF Received, ServerEnds, Numbers
  <2>6. net' \in [NetThreads -> NetJobs]
    BY <2>1, Firsts, NetFacts DEF Types
  <2>7. toServer' \in Seq(ToServer) /\ sOpen' \in BOOLEAN
    BY <2>1, Firsts DEF Types
  <2>8. Types'
    BY <2>1, <2>5, <2>6, <2>7 DEF Types
  <2> QED BY <2>1, <2>5, <2>8, KnownSame
<1>3. CASE NetQueues(t)
  <2>1. /\ net[t].at = "queue"
        /\ recvq' = Append(recvq, net[t].msg)
        /\ net' = [net EXCEPT ![t] = Idle]
        /\ UNCHANGED <<toClient, toServer, sOpen, cOpen, sStatus, cStatus, srv, cli, sendq,
                       handler, refresher, core, user, made>>
    BY <1>3 DEF NetQueues, wires, client
  <2>2. recvq' \in Seq(FromClient) /\ net' \in [NetThreads -> NetJobs]
    BY <2>1, NetFacts, AppendFacts DEF Types
  <2>3. Types'
    BY <2>1, <2>2 DEF Types
  <2> QED BY <2>1, <2>3, KnownSame
<1>4. CASE NetSends(t)
  <2>1. /\ net[t].at = "send"
        /\ ServerSends(net[t].msg)
        /\ net' = [net EXCEPT ![t] = Idle]
        /\ UNCHANGED <<toServer, sOpen, cOpen, sStatus, cStatus, cli, sendq, recvq,
                       handler, refresher, core, user, made>>
    BY <1>4 DEF NetSends, client
  <2>2. PICK m \in FromServer : m = net[t].msg /\ m.op # "refresh"
    BY <2>1, NetFacts, QueuedMessages
  <2>3. ServerSends(m)
    BY <2>1, <2>2
  <2>4. /\ toClient' \in Seq(ToClient) /\ srv' \in ServerEnds
        /\ UNCHANGED <<srv.key, srv.tmp, srv.changekeys>>
    BY <2>2, <2>3, SendFacts DEF SentState, Rekeys
  <2>5. net' \in [NetThreads -> NetJobs]
    BY <2>1, NetFacts
  <2>6. Types'
    BY <2>1, <2>4, <2>5 DEF Types
  <2> QED BY <2>1, <2>4, <2>6, KnownSame
<1> QED BY <1>1, <1>2, <1>3, <1>4

\* Taking a packet of kind op.
LEMMA TakesFacts ==
  ASSUME Types, NEW op, Takes(op)
  PROVE  /\ handler.at = "idle" /\ sOpen /\ recvq # << >> /\ recvq' = Tail(recvq)
         /\ recvq' \in Seq(FromClient)
         /\ Head(recvq) \in FromClient /\ Head(recvq).op = op
         /\ Head(recvq) \in Range(recvq)
BY Firsts DEF Takes

LEMMA ServerHalfFacts ==
  ASSUME NEW n \in 1..(MaxRefreshes + 1)
  PROVE  /\ ServerHalf(n) \in ServerHalves /\ ServerHalf(n) \in Keys
         /\ \A a \in ServerHalf(n) : a[1] = "server" /\ a[2] = n
BY HalvesFacts DEF ServerHalves, ServerHalf

LEMMA TypesLogin ==
  ASSUME Types, Known, ~ made.overlap => Rightly,
         LoginStarts \/ HandleRequest \/ HandleAnswer \/ LoginTimeout \/ ServerHearsClose
  PROVE  Types' /\ Known'
<1>0. srv \in ServerEnds /\ made \in Mades /\ sendq \in Seq(Queued)
  BY DEF Types
<1>1. CASE LoginStarts
  <2>1. /\ sStatus = "connected" /\ sStatus' = "step1"
        /\ srv' = [srv EXCEPT !.next = "hyb"]
        /\ sendq' = Append(sendq, Message("nonce", {}))
        /\ UNCHANGED <<toClient, toServer, sOpen, cOpen, cStatus, cli, recvq, net,
                       handler, refresher, core, user, made>>
    BY <1>1 DEF LoginStarts, wires, client
  <2>2. /\ srv' \in ServerEnds
        /\ UNCHANGED <<srv.key, srv.tmp, srv.changekeys>>
    BY <1>0, <2>1 DEF ServerEnds
  <2>3. sendq' \in Seq(Queued)
    BY <1>0, <2>1, AppendFacts DEF Queued
  <2>4. Types'
    BY <2>1, <2>2, <2>3 DEF Types, LoginStates
  <2>5. Younger'
    BY <2>1, <2>2 DEF Known, Younger
  <2> QED BY <2>1, <2>2, <2>4, <2>5 DEF Known
<1>2. CASE HandleRequest
  <2>1. /\ Takes("request") /\ sStatus = "step1"
        /\ UNCHANGED <<toClient, toServer, sOpen, cOpen, cStatus, cli, sendq, net,
                       refresher, core, user>>
    BY <1>2 DEF HandleRequest, wires, client
  <2>2. \/ /\ sStatus' = "step2"
           /\ made' = [made EXCEPT !.server = @ + 1]
           /\ srv' = [srv EXCEPT !.key = ServerHalf(made.server + 1)]
           /\ handler' = Busy("accept", Head(recvq))
        \/ /\ sStatus' = "rejected"
           /\ handler' = Busy("reject", Head(recvq))
           /\ UNCHANGED <<made, srv>>
    BY <1>2 DEF HandleRequest
  <2>3. PICK m \in Requests : m = Head(recvq)
    BY <2>1, TakesFacts, ToServerMessages
  <2>4. recvq' \in Seq(FromClient)
    BY <2>1, TakesFacts
  <2>5. made.server = 0 /\ srv.tmp = {} /\ srv.changekeys = 0 /\ refresher.at = "idle"
        /\ ~ made.overlap
    BY <2>1 DEF Known
  <2>6. CASE sStatus' = "step2"
    <3>1. 1 \in 1..(MaxRefreshes + 1)
      BY Bounds
    <3>2. PICK h \in Keys : h = ServerHalf(1) /\ h \in ServerHalves
                            /\ \A a \in h : a[1] = "server" /\ a[2] = 1
      BY <3>1, ServerHalfFacts
    <3>3. /\ made' = [made EXCEPT !.server = 1]
          /\ srv' = [srv EXCEPT !.key = h]
          /\ handler' = [at |-> "accept", msg |-> m]
      BY <1>0, <2>2, <2>3, <2>5, <2>6, <3>2 DEF Busy, Mades
    <3>4. /\ made' \in Mades /\ srv' \in ServerEnds /\ handler' \in HandlerJobs
          /\ srv'.key = h /\ srv'.tmp = {} /\ srv'.changekeys = 0
          /\ made'.server = 1 /\ made'.overlap = made.overlap
      <4>1. 1 \in 0..(MaxRefreshes + 1)
        BY Bounds
      <4>2. made' \in Mades /\ made'.server = 1 /\ made'.overlap = made.overlap
        BY <1>0, <3>3, <4>1 DEF Mades
      <4>3. srv' \in ServerEnds /\ srv'.key = h /\ srv'.tmp = {} /\ srv'.changekeys = 0
        BY <1>0, <2>5, <3>3 DEF ServerEnds
      <4>4. handler' \in HandlerJobs
        BY <2>3, <3>3 DEF HandlerJobs
      <4> QED BY <4>2, <4>3, <4>4
    <3>5. Types'
      BY <2>1, <2>4, <2>6, <3>4 DEF Types, LoginStates
    <3>6. Younger'
      BY <3>2, <3>4 DEF Younger
    <3> QED BY <2>1, <2>5, <2>6, <3>2, <3>4, <3>5, <3>6 DEF Known
  <2>7. CASE sStatus' = "rejected"
    <3>1. handler' = [at |-> "reject", msg |-> m] /\ UNCHANGED <<made, srv>>
      BY <2>2, <2>3, <2>7 DEF Busy
    <3>2. handler' \in HandlerJobs
      BY <2>3, <3>1 DEF HandlerJobs
    <3>3. Types'
      BY <2>1, <2>4, <2>7, <3>1, <3>2 DEF Types, LoginStates
    <3>4. Younger'
      BY <3>1 DEF Known, Younger
    <3> QED BY <2>1, <2>5, <2>7, <3>1, <3>3, <3>4 DEF Known
  <2> QED BY <2>2, <2>6, <2>7
<1>3. CASE HandleAnswer
  <2>1. /\ Takes("answer") /\ sStatus = "step2"
        /\ \/ sStatus' = "authenticated" /\ sOpen' = sOpen
           \/ sStatus' = "rejected" /\ sOpen' = FALSE
        /\ UNCHANGED <<toClient, toServer, cOpen, cStatus, srv, cli, sendq, net,
                       handler, refresher, core, user, made>>
    BY <1>3 DEF HandleAnswer, wires, client
  <2>2. PICK m \in FromClient : m = Head(recvq) /\ m \in Range(recvq) /\ m.op = "answer"
    BY <2>1, TakesFacts
  <2>3. ~ made.overlap
    BY <2>1 DEF Known
  <2>4. ToServerRight(m, "authenticated")
    BY <2>2, <2>3 DEF Rightly, OnTheWay
  <2>5. cStatus = "authenticated"
    BY <2>2, <2>4 DEF ToServerRight
  <2>6. Types'
    BY <2>1, TakesFacts DEF Types, LoginStates
  <2>7. Younger'
    BY <2>1 DEF Known, Younger
  <2>8. handler.at = "idle"
    BY <2>1, TakesFacts
  <2> QED BY <2>1, <2>3, <2>5, <2>6, <2>7, <2>8 DEF Known
<1>4. CASE LoginTimeout
  <2>1. /\ sStatus \in {"step1", "step2"} /\ handler.at = "idle"
        /\ sStatus' = "rejected" /\ sOpen' = FALSE
        /\ UNCHANGED <<toClient, toServer, cOpen, cStatus, srv, cli, sendq, recvq, net,
                       handler, refresher, core, user, made>>
    BY <1>4 DEF LoginTimeout, wires, client
  <2>2. Types'
    BY <2>1 DEF Types, LoginStates
  <2>3. Younger'
    BY <2>1 DEF Known, Younger
  <2> QED BY <2>1, <2>2, <2>3 DEF Known
<1>5. CASE ServerHearsClose
  <2>1. /\ sOpen' = FALSE
        /\ UNCHANGED <<toClient, toServer, cOpen, sStatus, cStatus, srv, cli, sendq, recvq, net,
                       handler, refresher, core, user, made>>
    BY <1>5 DEF ServerHearsClose, wires, client
  <2>2. Types'
    BY <2>1 DEF Types
  <2> QED BY <2>1, <2>2, KnownSame
<1> QED BY <1>1, <1>2, <1>3, <1>4, <1>5

\* What a handler sends at the end of the login.
LEMMA LoginMessages ==
  /\ Message("test", {}) \in FromServer /\ Message("test", {}).op = "test"
  /\ Message("reject", {}) \in FromServer /\ Message("reject", {}).op = "reject"
  /\ \A h \in ServerHalves :
       /\ Message("accept", h) \in FromServer
       /\ Message("accept", h).op = "accept" /\ Message("accept", h).half = h
BY DEF FromServer, Message

LEMMA TypesSends ==
  ASSUME Types, Known,
         SendAccept \/ CombineKeys \/ SendTest \/ SendReject
  PROVE  Types' /\ Known'
<1>0. srv \in ServerEnds /\ handler \in HandlerJobs
  BY DEF Types
<1>1. CASE SendAccept
  <2>1. /\ handler.at = "accept"
        /\ ServerSends(Message("accept", srv.key))
        /\ handler' = [handler EXCEPT !.at = "combine"]
        /\ UNCHANGED <<toServer, sOpen, cOpen, sStatus, cStatus, cli, sendq, recvq, net,
                       refresher, core, user, made>>
    BY <1>1 DEF SendAccept, client
  <2>2. PICK m \in FromServer : m = Message("accept", srv.key) /\ m.op = "accept"
    BY <2>1, LoginMessages DEF Known
  <2>3. ServerSends(m)
    BY <2>1, <2>2
  <2>4. /\ toClient' \in Seq(ToClient) /\ srv' \in ServerEnds
        /\ UNCHANGED <<srv.key, srv.tmp, srv.changekeys>>
    BY <2>2, <2>3, SendFacts DEF SentState, Rekeys
  <2>5. handler.msg \in Requests
    BY <2>1, JobFacts
  <2>6. handler' = [at |-> "combine", msg |-> handler.msg]
    BY <1>0, <2>1, IdleIs DEF HandlerJobs
  <2>7. handler' \in HandlerJobs
    BY <2>5, <2>6 DEF HandlerJobs
  <2>8. Types'
    BY <2>1, <2>4, <2>7 DEF Types
  <2>9. Younger'
    BY <2>1, <2>4 DEF Known, Younger
  <2> QED BY <2>1, <2>4, <2>6, <2>8, <2>9 DEF Known
<1>2. CASE CombineKeys
  <2>1. /\ handler.at = "combine"
        /\ srv' = Rekeyed(srv, Xor(srv.key, handler.msg.half))
        /\ handler' = [handler EXCEPT !.at = "test"]
        /\ UNCHANGED <<toClient, toServer, sOpen, cOpen, sStatus, cStatus, cli, sendq, recvq,
                       net, refresher, core, user, made>>
    BY <1>2 DEF CombineKeys, wires, client
  <2>2. PICK c \in ClientHalves : c = handler.msg.half
    BY <2>1, JobFacts, RequestHalves
  <2>3. srv.key \in ServerHalves /\ sStatus = "step2" /\ srv.tmp = {} /\ srv.changekeys = 0
    BY <2>1 DEF Known
  <2>4. PICK k \in Keys : k = Xor(srv.key, c) /\ k = srv.key \cup c /\ ~ Theirs(c)
    BY <2>3, HalvesFacts
  <2>5. srv' \in ServerEnds /\ srv'.key = k /\ srv'.tmp = srv.tmp
        /\ srv'.changekeys = srv.changekeys
    BY <1>0, <2>1, <2>2, <2>4, EndFacts DEF Rekeyed, ServerEnds
  <2>6. handler' = [at |-> "test", msg |-> handler.msg]
    BY <1>0, <2>1, IdleIs DEF HandlerJobs
  <2>7. handler' \in HandlerJobs
    BY <2>1, <2>6, JobFacts DEF HandlerJobs
  <2>8. Types'
    BY <2>1, <2>5, <2>7 DEF Types
  <2>9. Younger'
    BY <2>1, <2>3, <2>4, <2>5 DEF Known, Younger, Theirs
  <2> QED BY <2>1, <2>3, <2>5, <2>6, <2>8, <2>9 DEF Known
<1>3. CASE SendTest
  <2>1. /\ ServerSends(Message("test", {}))
        /\ handler' = Idle
        /\ UNCHANGED <<toServer, sOpen, cOpen, sStatus, cStatus, cli, sendq, recvq, net,
                       refresher, core, user, made>>
    BY <1>3 DEF SendTest, client
  <2>2. PICK m \in FromServer : m = Message("test", {}) /\ m.op = "test"
    BY LoginMessages
  <2>3. /\ toClient' \in Seq(ToClient) /\ srv' \in ServerEnds
        /\ UNCHANGED <<srv.key, srv.tmp, srv.changekeys>>
    BY <2>1, <2>2, SendFacts DEF SentState, Rekeys
  <2>4. Types'
    BY <2>1, <2>3 DEF Types, HandlerJobs
  <2> QED BY <2>1, <2>3, <2>4, IdleIs, KnownSame
<1>4. CASE SendReject
  <2>1. /\ ServerSends(Message("reject", {}))
        /\ handler' = Idle /\ sOpen' = FALSE
        /\ UNCHANGED <<toServer, cOpen, sStatus, cStatus, cli, sendq, recvq, net,
                       refresher, core, user, made>>
    BY <1>4 DEF SendReject, client
  <2>2. PICK m \in FromServer : m = Message("reject", {}) /\ m.op = "reject"
    BY LoginMessages
  <2>3. /\ toClient' \in Seq(ToClient) /\ srv' \in ServerEnds
        /\ UNCHANGED <<srv.key, srv.tmp, srv.changekeys>>
    BY <2>1, <2>2, SendFacts DEF SentState, Rekeys
  <2>4. Types'
    BY <2>1, <2>3 DEF Types, HandlerJobs
  <2> QED BY <2>1, <2>3, <2>4, IdleIs, KnownSame
<1> QED BY <1>1, <1>2, <1>3, <1>4

\* Sending a packet of the refresh.
LEMMA KnownRekeyed ==
  ASSUME Types, Known, sStatus = "authenticated", NEW m \in FromServer, ServerSends(m),
         UNCHANGED <<sStatus, cStatus, cli, made>>,
         UNCHANGED handler \/ handler'.at = "idle",
         UNCHANGED refresher \/ refresher'.at = "idle"
  PROVE  Known'
<1>1. CASE sOpen /\ Rekeys(m)
  <2>1. srv'.key = srv.tmp /\ srv'.tmp = srv.tmp /\ srv'.changekeys = 2
    BY <1>1, SendFacts DEF SentState
  <2>2. Theirs(srv.tmp) /\ srv.changekeys = 1
    BY <1>1 DEF Known, Rekeys
  <2>3. Younger'
    BY <2>1 DEF Known, Younger
  <2>4. handler.at \notin {"accept", "combine", "test"}
    BY DEF Known
  <2> QED BY <2>1, <2>2, <2>3, <2>4 DEF Known
<1>2. CASE ~ (sOpen /\ Rekeys(m))
  <2>1. UNCHANGED <<srv.key, srv.tmp, srv.changekeys>>
    BY <1>2, SendFacts DEF SentState
  <2> QED BY <2>1, KnownSame
<1> QED BY <1>1, <1>2

LEMMA XorOfHalves ==
  ASSUME NEW t \in ServerHalves \cup {{}}, NEW c \in ClientHalves
  PROVE  /\ Xor(t, c) \in Keys /\ Xor(t, c) = t \cup c
         /\ t # {} => Theirs(Xor(t, c))
         /\ \A a \in Xor(t, c) : a[1] = "server" => a \in t
<1>1. CASE t = {}
  <2>1. Xor(t, c) = c
    BY <1>1 DEF Xor
  <2> QED BY <1>1, <2>1, HalvesFacts DEF Theirs
<1>2. CASE t \in ServerHalves
  BY <1>2, HalvesFacts DEF Theirs
<1> QED BY <1>1, <1>2

\* Single fields are changed.
LEMMA TmpFacts ==
  ASSUME srv \in ServerEnds, NEW k \in Keys, NEW n \in 0..2
  PROVE  LET end == [srv EXCEPT !.tmp = k, !.changekeys = n] IN
         /\ end \in ServerEnds /\ end.key = srv.key /\ end.tmp = k /\ end.changekeys = n
         /\ end.mode = srv.mode /\ end.next = srv.next /\ end.sent = srv.sent /\ end.got = srv.got
<1> DEFINE end == [srv EXCEPT !.tmp = k, !.changekeys = n]
<1>1. end \in ServerEnds
  BY DEF ServerEnds
<1>2. /\ end.key = srv.key /\ end.tmp = k /\ end.changekeys = n
      /\ end.mode = srv.mode /\ end.next = srv.next /\ end.sent = srv.sent /\ end.got = srv.got
  BY DEF ServerEnds
<1> QED BY <1>1, <1>2

LEMMA MadeFacts ==
  ASSUME made \in Mades
  PROVE  /\ [made EXCEPT !.told = @ + 1] \in Mades
         /\ [made EXCEPT !.told = @ + 1].overlap = made.overlap
         /\ [made EXCEPT !.told = @ + 1].server = made.server
         /\ [made EXCEPT !.told = @ + 1].unsent = made.unsent
         /\ [made EXCEPT !.told = @ + 1].typed = made.typed
         /\ [made EXCEPT !.typed = @ + 1] \in Mades
         /\ [made EXCEPT !.typed = @ + 1].overlap = made.overlap
         /\ [made EXCEPT !.typed = @ + 1].server = made.server
         /\ [made EXCEPT !.typed = @ + 1].unsent = made.unsent
         /\ [made EXCEPT !.typed = @ + 1].typed = made.typed + 1
         /\ [made EXCEPT !.client = @ + 1] \in Mades
         /\ [made EXCEPT !.client = @ + 1].overlap = made.overlap
         /\ [made EXCEPT !.client = @ + 1].server = made.server
         /\ [made EXCEPT !.client = @ + 1].unsent = made.unsent
         /\ [made EXCEPT !.client = @ + 1].typed = made.typed
<1>1. /\ made.told + 1 \in Nat /\ made.typed + 1 \in Nat /\ made.client + 1 \in Nat
  BY DEF Mades
<1>2. PICK n \in Nat : n = made.told + 1
  BY <1>1
<1>3. PICK n2 \in Nat : n2 = made.typed + 1
  BY <1>1
<1>4. PICK n3 \in Nat : n3 = made.client + 1
  BY <1>1
<1>5. /\ [made EXCEPT !.told = @ + 1] = [made EXCEPT !.told = n]
      /\ [made EXCEPT !.typed = @ + 1] = [made EXCEPT !.typed = n2]
      /\ [made EXCEPT !.client = @ + 1] = [made EXCEPT !.client = n3]
  BY <1>2, <1>3, <1>4
<1>6. [made EXCEPT !.told = n] \in Mades
  BY DEF Mades
<1>7. [made EXCEPT !.typed = n2] \in Mades
  BY DEF Mades
<1>8. [made EXCEPT !.client = n3] \in Mades
  BY DEF Mades
<1>9. /\ [made EXCEPT !.told = n].overlap = made.overlap
      /\ [made EXCEPT !.told = n].server = made.server
      /\ [made EXCEPT !.told = n].unsent = made.unsent
      /\ [made EXCEPT !.told = n].typed = made.typed
      /\ [made EXCEPT !.typed = n2].overlap = made.overlap
      /\ [made EXCEPT !.typed = n2].server = made.server
      /\ [made EXCEPT !.typed = n2].unsent = made.unsent
      /\ [made EXCEPT !.typed = n2].typed = n2
      /\ [made EXCEPT !.client = n3].overlap = made.overlap
      /\ [made EXCEPT !.client = n3].server = made.server
      /\ [made EXCEPT !.client = n3].unsent = made.unsent
      /\ [made EXCEPT !.client = n3].typed = made.typed
  BY DEF Mades
<1> QED BY <1>3, <1>5, <1>6, <1>7, <1>8, <1>9

LEMMA TypesRefresh ==
  ASSUME Types, Known, ~ made.overlap => Rightly,
         GenerateNewKey \/ SendNewKey \/ HandleRefreshKey \/ AnnounceNewKey
  PROVE  Types' /\ Known'
<1>0. srv \in ServerEnds /\ made \in Mades
  BY DEF Types
<1>1. CASE GenerateNewKey
  <2>1. /\ sStatus = "authenticated" /\ made.server <= MaxRefreshes
        /\ made' = [made EXCEPT !.server = @ + 1, !.overlap = @ \/ Exchanging]
        /\ srv' = [srv EXCEPT !.tmp = ServerHalf(made.server + 1), !.changekeys = 0]
        /\ refresher' = Busy("send", Message("refresh", ServerHalf(made.server + 1)))
        /\ UNCHANGED <<toClient, toServer, sOpen, cOpen, sStatus, cStatus, cli, sendq, recvq,
                       net, handler, core, user>>
    BY <1>1 DEF GenerateNewKey, wires, client
  <2>2. PICK n \in 0..(MaxRefreshes + 1) : n = made.server + 1
    BY <1>0, <2>1, Bounds DEF Mades
  <2>3. n \in 1..(MaxRefreshes + 1)
    BY <1>0, <2>2, Bounds DEF Mades
  <2>4. PICK h \in Keys : h = ServerHalf(n) /\ h \in ServerHalves
                          /\ \A a \in h : a[1] = "server" /\ a[2] = n
    BY <2>3, ServerHalfFacts
  <2>5. (made.overlap \/ Exchanging) \in BOOLEAN
    OBVIOUS
  <2>6. /\ made' \in Mades /\ made'.server = n
        /\ made'.overlap => made.overlap \/ Exchanging
    BY <1>0, <2>1, <2>2, <2>5 DEF Mades
  <2>7. srv' \in ServerEnds /\ srv'.tmp = h /\ srv'.changekeys = 0 /\ srv'.key = srv.key
    <3>1. PICK i \in 0..2 : i = 0
      OBVIOUS
    <3>2. srv' = [srv EXCEPT !.tmp = h, !.changekeys = i]
      BY <2>1, <2>2, <2>4, <3>1
    <3> QED BY <1>0, <3>1, <3>2, TmpFacts
  <2>8. refresher' \in RefresherJobs
    BY <2>1, <2>2, <2>4 DEF RefresherJobs, Busy
  <2>9. Types'
    BY <2>1, <2>6, <2>7, <2>8 DEF Types
  <2>10. h # {}
    BY <2>4, HalvesFacts
  <2>11. made.server \in Int /\ n = made.server + 1
    BY <1>0, <2>2 DEF Mades
  <2>12. \A a \in srv.key \cup srv.tmp : a[1] = "server" => a[2] <= made.server /\ a[2] \in Int
    <3>1. srv.key \subseteq Halves /\ srv.tmp \subseteq Halves
      BY <1>0 DEF ServerEnds, Keys
    <3>2. \A a \in Halves : a[1] = "server" => a[2] \in Int
      BY Bounds DEF Halves
    <3> QED BY <3>1, <3>2 DEF Known, Younger
  <2>13. Younger'
    BY <2>4, <2>6, <2>7, <2>11, <2>12 DEF Younger
  <2>14. sStatus' = "authenticated" /\ cStatus' = "authenticated"
         /\ handler'.at \notin {"accept", "combine", "test"}
    BY <2>1 DEF Known
  <2> QED BY <2>4, <2>7, <2>10, <2>13, <2>14, <2>9 DEF Known
<1>2. CASE SendNewKey
  <2>1. /\ refresher.at = "send"
        /\ ServerSends(refresher.msg)
        /\ refresher' = Idle
        /\ UNCHANGED <<toServer, sOpen, cOpen, sStatus, cStatus, cli, sendq, recvq, net,
                       handler, core, user, made>>
    BY <1>2 DEF SendNewKey, client
  <2>2. PICK m \in FromServer : m = refresher.msg
    BY <2>1, JobFacts
  <2>3. ServerSends(m) /\ refresher'.at = "idle" /\ sStatus = "authenticated"
    BY <2>1, <2>2, IdleIs DEF Known
  <2>4. toClient' \in Seq(ToClient) /\ srv' \in ServerEnds
    BY <2>3, SendFacts
  <2>5. Types'
    BY <2>1, <2>4 DEF Types, RefresherJobs
  <2> QED BY <2>1, <2>3, <2>5, KnownRekeyed
<1>3. CASE AnnounceNewKey
  <2>1. /\ handler.at = "announce"
        /\ ServerSends(handler.msg)
        /\ handler' = Idle
        /\ UNCHANGED <<toServer, sOpen, cOpen, sStatus, cStatus, cli, sendq, recvq, net,
                       refresher, core, user, made>>
    BY <1>3 DEF AnnounceNewKey, client
  <2>2. PICK m \in FromServer : m = handler.msg
    BY <2>1, JobFacts DEF FromServer, NewKey
  <2>3. ServerSends(m) /\ handler'.at = "idle"
    BY <2>1, <2>2, IdleIs
  <2>4. sStatus = "authenticated"
    BY <2>1 DEF Known, Rightly, OnTheWay, AtWorkRight, Auth
  <2>5. toClient' \in Seq(ToClient) /\ srv' \in ServerEnds
    BY <2>3, SendFacts
  <2>6. Types'
    BY <2>1, <2>5 DEF Types, HandlerJobs
  <2> QED BY <2>1, <2>3, <2>4, <2>6, KnownRekeyed
<1>4. CASE HandleRefreshKey
  <2>1. /\ Takes("refresh")
        /\ IF srv.changekeys # 0
             THEN UNCHANGED <<srv, handler>>
             ELSE /\ srv' = [srv EXCEPT !.tmp = Xor(@, Head(recvq).half), !.changekeys = 1]
                  /\ handler' = Busy("announce", NewKey)
        /\ UNCHANGED <<toClient, toServer, sOpen, cOpen, sStatus, cStatus, cli, sendq, net,
                       refresher, core, user, made>>
    BY <1>4 DEF HandleRefreshKey, wires, client, NewKey
  <2>2. PICK m \in FromClient : /\ m = Head(recvq) /\ m \in Range(recvq)
                                /\ m.op = "refresh" /\ m.half \in ClientHalves
    BY <2>1, TakesFacts, ToServerMessages
  <2>3. recvq' \in Seq(FromClient)
    BY <2>1, TakesFacts
  <2>4. sStatus = "authenticated" /\ srv.tmp # {}
    BY <2>2 DEF Known, Rightly, OnTheWay, ToServerRight, Auth
  <2>5. CASE srv.changekeys # 0
    <3>1. Types'
      BY <2>1, <2>3, <2>5 DEF Types
    <3> QED BY <2>1, <2>5, <3>1, KnownSame
  <2>6. CASE srv.changekeys = 0
    <3>1. srv.tmp \in ServerHalves
      BY <2>4, <2>6 DEF Known
    <3>2. PICK k \in Keys : /\ k = Xor(srv.tmp, m.half)
                            /\ Theirs(k) /\ \A a \in k : a[1] = "server" => a \in srv.tmp
      BY <2>2, <2>4, <3>1, XorOfHalves
    <3>3. /\ srv' = [srv EXCEPT !.tmp = k, !.changekeys = 1]
          /\ handler' = Busy("announce", NewKey)
      BY <2>1, <2>2, <2>6, <3>2
    <3>4. srv' \in ServerEnds /\ srv'.key = srv.key /\ srv'.tmp = k /\ srv'.changekeys = 1
      <4>1. PICK n \in 0..2 : n = 1
        OBVIOUS
      <4>2. srv' = [srv EXCEPT !.tmp = k, !.changekeys = n]
        BY <3>3, <4>1
      <4> QED BY <1>0, <4>1, <4>2, TmpFacts
    <3>5. handler' \in HandlerJobs /\ handler'.at = "announce"
      BY <3>3 DEF HandlerJobs, Busy, NewKey
    <3>6. Types'
      BY <2>1, <2>3, <3>4, <3>5 DEF Types
    <3>7. Younger'
      BY <2>1, <2>6, <3>2, <3>4 DEF Known, Younger
    <3>8. k # {}
      BY <3>2 DEF Theirs
    <3> QED BY <2>1, <2>4, <3>2, <3>4, <3>5, <3>6, <3>7, <3>8 DEF Known
  <2> QED BY <2>5, <2>6
<1> QED BY <1>1, <1>2, <1>3, <1>4

LEMMA TypesMessages ==
  ASSUME Types, Known, HandleMessage \/ Tell
  PROVE  Types' /\ Known'
<1>0. sendq \in Seq(Queued) /\ made \in Mades /\ Message("message", {}) \in Queued
  BY DEF Types, Queued
<1>1. CASE HandleMessage
  <2>1. /\ Takes("message")
        /\ sendq' = sendq \/ sendq' = Append(sendq, Message("message", {}))
        /\ UNCHANGED <<toClient, toServer, sOpen, cOpen, sStatus, cStatus, srv, cli, net,
                       handler, refresher, core, user, made>>
    BY <1>1 DEF HandleMessage, wires, client
  <2>2. recvq' \in Seq(FromClient) /\ sendq' \in Seq(Queued)
    BY <1>0, <2>1, TakesFacts, AppendFacts
  <2>3. Types'
    BY <2>1, <2>2 DEF Types
  <2> QED BY <2>1, <2>3, KnownSame
<1>2. CASE Tell
  <2>1. /\ sendq' = Append(sendq, Message("message", {}))
        /\ made' = [made EXCEPT !.told = @ + 1]
        /\ UNCHANGED <<toClient, toServer, sOpen, cOpen, sStatus, cStatus, srv, cli, recvq, net,
                       handler, refresher, core, user>>
    BY <1>2 DEF Tell, wires, client
  <2>2. sendq' \in Seq(Queued)
    BY <1>0, <2>1, AppendFacts
  <2>3. made' \in Mades /\ made'.overlap = made.overlap /\ made'.server = made.server
    BY <1>0, <2>1, MadeFacts
  <2>4. Types'
    BY <2>1, <2>2, <2>3 DEF Types
  <2> QED BY <2>1, <2>3, <2>4, KnownSame
<1> QED BY <1>1, <1>2

LEMMA XorBoth ==
  ASSUME NEW c \in ClientHalves, NEW s \in ServerHalves
  PROVE  /\ Xor(c, s) = Xor(s, c) /\ Xor(c, s) \in Keys
         /\ Xor(c, s) # c /\ Xor(c, s) # s
<1>1. /\ Xor(s, c) = s \cup c /\ Xor(c, s) = s \cup c
      /\ Xor(s, c) \in Keys /\ Xor(s, c) # s /\ Xor(s, c) # c
  BY HalvesFacts
<1> QED BY <1>1

\* The client receives a packet of kind op.
LEMMA GetsFacts ==
  ASSUME Types, NEW op, Gets(op)
  PROVE  /\ core.at = "idle" /\ cOpen /\ toClient # << >> /\ toClient' = Tail(toClient)
         /\ toClient' \in Seq(ToClient)
         /\ Head(toClient) \in ToClient /\ Head(toClient) \in Range(toClient)
         /\ Head(toClient).msg \in FromServer /\ Head(toClient).msg.op = op
         /\ Accepts(Head(toClient), cli)
BY Firsts DEF Gets

\* The client's state when it has received a packet, and answered it.
LEMMA ReceivedFacts ==
  ASSUME Types, NEW p \in ToClient, Accepts(p, cli)
  PROVE  LET end == Received(p, cli) IN
         /\ end \in ClientEnds /\ Numbered(end) \in ClientEnds
         /\ end.mode = cli.mode /\ end.key = cli.key /\ end.tmp = cli.tmp
         /\ end.sent = cli.sent
         /\ end.got = IF cli.mode = "aes" THEN p.number ELSE cli.got
         /\ Numbered(end).mode = cli.mode /\ Numbered(end).key = cli.key
         /\ Numbered(end).tmp = cli.tmp /\ Numbered(end).got = end.got
         /\ Numbered(end).sent = IF cli.mode = "aes" THEN cli.sent + 1 ELSE cli.sent
<1> DEFINE end == Received(p, cli)
<1>1. cli \in ClientEnds
  BY DEF Types
<1>2. p.number \in Numbers /\ (p.number = NoNumber <=> cli.mode # "aes")
  BY DEF ToClient, Accepts, Readable
<1>3. cli.mode = "aes" => p.number \in Nat
  BY <1>2 DEF Numbers
<1>4. PICK n \in Nat : n = IF cli.mode = "aes" THEN p.number ELSE cli.got
  BY <1>1, <1>3 DEF ClientEnds
<1>5. end = [cli EXCEPT !.got = n]
  BY <1>4 DEF Received
<1>6. /\ end \in ClientEnds
      /\ end.mode = cli.mode /\ end.key = cli.key /\ end.tmp = cli.tmp
      /\ end.sent = cli.sent /\ end.got = n
  BY <1>1, <1>5 DEF ClientEnds
<1> HIDE DEF end
<1>7. PICK m \in Nat : m = IF cli.mode = "aes" THEN cli.sent + 1 ELSE cli.sent
  BY <1>1 DEF ClientEnds
<1>8. Numbered(end) = [end EXCEPT !.sent = m]
  BY <1>6, <1>7 DEF Numbered
<1>9. /\ Numbered(end) \in ClientEnds
      /\ Numbered(end).mode = cli.mode /\ Numbered(end).key = cli.key
      /\ Numbered(end).tmp = cli.tmp /\ Numbered(end).got = end.got
      /\ Numbered(end).sent = m
  BY <1>6, <1>8 DEF ClientEnds
<1> QED BY <1>4, <1>6, <1>7, <1>9 DEF end

LEMMA ClientHalfFacts ==
  ASSUME Types
  PROVE  /\ made.client + 1 \in Nat
         /\ ClientHalf(made.client + 1) \in ClientHalves
         /\ ClientHalf(made.client + 1) \in Keys
         /\ Message("request", ClientHalf(made.client + 1)) \in Requests
         /\ Message("refresh", ClientHalf(made.client + 1)) \in Answers
<1>1. made.client + 1 \in Nat
  BY DEF Types, Mades
<1>2. ClientHalf(made.client + 1) \in ClientHalves
  BY <1>1 DEF ClientHalves
<1> QED BY <1>1, <1>2, HalvesFacts DEF Requests, Answers

LEMMA TypesClientLogin ==
  ASSUME Types, Known, ~ made.overlap => Rightly,
         HandleNonce \/ HandleAccept \/ HandleReject \/ HandleTest
  PROVE  Types' /\ Known'
<1>0. cli \in ClientEnds /\ made \in Mades
  BY DEF Types
<1>1. CASE HandleNonce
  <2>1. /\ Gets("nonce") /\ cStatus = "connected" /\ cStatus' = "step1"
        /\ made' = [made EXCEPT !.client = @ + 1]
        /\ cli' = [cli EXCEPT !.mode = "hyb", !.key = ClientHalf(made.client + 1)]
        /\ core' = Prepares(Message("request", cli'.key), cli')
        /\ UNCHANGED <<toServer, sOpen, cOpen, sStatus, srv, sendq, recvq, net, handler,
                       refresher, user>>
    BY <1>1 DEF HandleNonce, server
  <2>2. PICK h \in Keys : h = ClientHalf(made.client + 1) /\ h \in ClientHalves
                          /\ Message("request", h) \in Requests
    BY ClientHalfFacts
  <2>3. cli' = [cli EXCEPT !.mode = "hyb", !.key = h]
    BY <2>1, <2>2
  <2>4. cli' \in ClientEnds /\ cli'.mode = "hyb" /\ cli'.key = h
    BY <1>0, <2>3 DEF ClientEnds, Modes
  <2>5. core' = [at |-> "send", msg |-> Message("request", h), number |-> NoNumber]
    BY <2>1, <2>4 DEF Prepares, NextNumber
  <2>6. core' \in CoreJobs
    BY <2>2, <2>5 DEF CoreJobs, Numbers
  <2>7. /\ made' \in Mades /\ made'.overlap = made.overlap /\ made'.server = made.server
    BY <1>0, <2>1, MadeFacts
  <2>8. toClient' \in Seq(ToClient)
    BY <2>1, GetsFacts
  <2>9. Types'
    BY <2>1, <2>4, <2>6, <2>7, <2>8 DEF Types, LoginStates
  <2>10. Younger'
    BY <2>1, <2>7 DEF Known, Younger
  <2> QED BY <2>1, <2>2, <2>4, <2>7, <2>9, <2>10 DEF Known
<1>2. CASE HandleAccept
  <2>1. /\ Gets("accept") /\ cStatus = "step1" /\ cStatus' = "step2"
        /\ cli' = Rekeyed(cli, Xor(cli.key, Half))
        /\ UNCHANGED <<toServer, sOpen, cOpen, sStatus, srv, sendq, recvq, net, handler,
                       refresher, core, user, made>>
    BY <1>2 DEF HandleAccept, server
  <2>2. Half \in ServerHalves
    BY <2>1, GetsFacts, ToClientMessages DEF Half
  <2>3. cli.key \in ClientHalves
    BY <2>1 DEF Known
  <2>4. Xor(cli.key, Half) \in Keys
    BY <2>2, <2>3, XorBoth
  <2>5. cli' \in ClientEnds
    BY <2>1, <2>4, EndFacts
  <2>6. toClient' \in Seq(ToClient)
    BY <2>1, GetsFacts
  <2>7. Types'
    BY <2>1, <2>5, <2>6 DEF Types, LoginStates
  <2>8. Younger'
    BY <2>1 DEF Known, Younger
  <2> QED BY <2>1, <2>7, <2>8 DEF Known
<1>3. CASE HandleReject
  <2>1. /\ Gets("reject") /\ cStatus = "step1" /\ cStatus' = "rejected" /\ cOpen' = FALSE
        /\ UNCHANGED <<toServer, sOpen, sStatus, srv, cli, sendq, recvq, net, handler,
                       refresher, core, user, made>>
    BY <1>3 DEF HandleReject, server
  <2>2. toClient' \in Seq(ToClient)
    BY <2>1, GetsFacts
  <2>3. Types'
    BY <2>1, <2>2 DEF Types, LoginStates
  <2>4. Younger'
    BY <2>1 DEF Known, Younger
  <2> QED BY <2>1, <2>3, <2>4 DEF Known
<1>4. CASE HandleTest
  <2>1. /\ Gets("test")
        /\ cli' = Numbered(Received(Head(toClient), cli))
        /\ core' = Prepares(Message("answer", {}), cli)
        /\ UNCHANGED <<toServer, sOpen, cOpen, sStatus, cStatus, srv, sendq, recvq, net, handler,
                       refresher, user, made>>
    BY <1>4 DEF HandleTest, server
  <2>2. PICK p \in ToClient : p = Head(toClient) /\ Accepts(p, cli)
    BY <2>1, GetsFacts
  <2>3. cli' \in ClientEnds /\ cli'.key = cli.key
    BY <2>1, <2>2, ReceivedFacts
  <2>4. core' \in CoreJobs
    BY <2>1, EndFacts DEF CoreJobs, Prepares
  <2>5. toClient' \in Seq(ToClient)
    BY <2>1, GetsFacts
  <2>6. Types'
    BY <2>1, <2>3, <2>4, <2>5 DEF Types
  <2> QED BY <2>1, <2>3, <2>6, KnownSame
<1> QED BY <1>1, <1>2, <1>3, <1>4

LEMMA TypesClient ==
  ASSUME Types, Known, ~ made.overlap => Rightly,
         HandleNewHalf \/ HandleNewKey \/ HandleOther \/ CannotRead
  PROVE  Types' /\ Known'
<1>0. cli \in ClientEnds /\ made \in Mades
  BY DEF Types
<1>1. CASE HandleNewHalf
  <2>1. /\ Gets("refresh") /\ Half # {}
        /\ made' = [made EXCEPT !.client = @ + 1]
        /\ cli' = [Numbered(Received(Head(toClient), cli)) EXCEPT
                     !.tmp = Xor(ClientHalf(made.client + 1), Half)]
        /\ core' = Prepares(Message("refresh", ClientHalf(made.client + 1)), cli)
        /\ UNCHANGED <<toServer, sOpen, cOpen, sStatus, cStatus, srv, sendq, recvq, net, handler,
                       refresher, user>>
    BY <1>1 DEF HandleNewHalf, server
  <2>2. PICK h \in Keys : h = ClientHalf(made.client + 1) /\ h \in ClientHalves
                          /\ Message("refresh", h) \in Answers
    BY ClientHalfFacts
  <2>3. Half \in ServerHalves
    BY <2>1, GetsFacts, ToClientMessages DEF Half, NewKey, Message
  <2>4. PICK k \in Keys : k = Xor(h, Half)
    BY <2>2, <2>3, XorBoth
  <2>5. PICK end \in ClientEnds : /\ end = Numbered(Received(Head(toClient), cli))
                                  /\ end.key = cli.key
    BY <2>1, GetsFacts, ReceivedFacts
  <2>6. cli' = [end EXCEPT !.tmp = k]
    BY <2>1, <2>2, <2>4, <2>5
  <2>7. cli' \in ClientEnds /\ cli'.key = cli.key
    BY <2>5, <2>6 DEF ClientEnds
  <2>8. core' \in CoreJobs
    BY <2>1, <2>2, EndFacts DEF CoreJobs, Prepares
  <2>9. /\ made' \in Mades /\ made'.overlap = made.overlap /\ made'.server = made.server
    BY <1>0, <2>1, MadeFacts
  <2>10. toClient' \in Seq(ToClient)
    BY <2>1, GetsFacts
  <2>11. Types'
    BY <2>1, <2>7, <2>8, <2>9, <2>10 DEF Types
  <2> QED BY <2>1, <2>7, <2>9, <2>11, KnownSame
<1>2. CASE HandleNewKey
  <2>1. /\ Gets("refresh") /\ Half = {}
        /\ cli' = Rekeyed(cli, cli.tmp)
        /\ UNCHANGED <<toServer, sOpen, cOpen, sStatus, cStatus, srv, sendq, recvq, net, handler,
                       refresher, core, user, made>>
    BY <1>2 DEF HandleNewKey, server
  <2>2. cli' \in ClientEnds
    BY <1>0, <2>1, EndFacts DEF ClientEnds
  <2>3. PICK p \in Range(toClient) : p.msg.op = "refresh" /\ p.msg.half = {}
    BY <2>1, GetsFacts DEF Half
  <2>4. ~ made.overlap => Auth
    BY <2>3 DEF Rightly, OnTheWay, ToClientRight
  <2>5. cStatus = "authenticated"
    BY <2>4 DEF Known, Auth
  <2>6. toClient' \in Seq(ToClient)
    BY <2>1, GetsFacts
  <2>7. Types'
    BY <2>1, <2>2, <2>6 DEF Types
  <2>8. Younger'
    BY <2>1 DEF Known, Younger
  <2> QED BY <2>1, <2>5, <2>7, <2>8 DEF Known
<1>3. CASE HandleOther
  <2>1. /\ Gets("position") \/ Gets("message")
        /\ cli' = Received(Head(toClient), cli)
        /\ UNCHANGED <<toServer, sOpen, cOpen, sStatus, cStatus, srv, sendq, recvq, net, handler,
                       refresher, core, user, made>>
    BY <1>3 DEF HandleOther, server
  <2>2. PICK p \in ToClient : p = Head(toClient) /\ Accepts(p, cli)
    BY <2>1, GetsFacts
  <2>3. cli' \in ClientEnds /\ cli'.key = cli.key
    BY <2>1, <2>2, ReceivedFacts
  <2>4. toClient' \in Seq(ToClient)
    BY <2>1, GetsFacts
  <2>5. Types'
    BY <2>1, <2>3, <2>4 DEF Types
  <2> QED BY <2>1, <2>3, <2>5, KnownSame
<1>4. CASE CannotRead
  <2>1. /\ toClient # << >> /\ toClient' = Tail(toClient)
        /\ cOpen' = cOpen \/ cOpen' = FALSE
        /\ UNCHANGED <<toServer, sOpen, sStatus, cStatus, srv, cli, sendq, recvq, net, handler,
                       refresher, core, user, made>>
    BY <1>4 DEF CannotRead, server
  <2>2. Types'
    BY <2>1, Firsts DEF Types
  <2> QED BY <2>1, <2>2, KnownSame
<1> QED BY <1>1, <1>2, <1>3, <1>4

LEMMA TypesClientSends ==
  ASSUME Types, Known, ~ made.overlap => Rightly /\ Phases,
         ClientHearsClose \/ CoreSends \/ UserTypes \/ UserSends
  PROVE  Types' /\ Known'
<1>0. cli \in ClientEnds /\ made \in Mades /\ toServer \in Seq(ToServer)
  BY DEF Types
<1>1. CASE ClientHearsClose
  <2>1. /\ cOpen' = FALSE
        /\ UNCHANGED <<toClient, toServer, sOpen, sStatus, cStatus, srv, cli, sendq, recvq, net,
                       handler, refresher, core, user, made>>
    BY <1>1 DEF ClientHearsClose, server, wires
  <2>2. Types'
    BY <2>1 DEF Types
  <2> QED BY <2>1, <2>2, KnownSame
<1>2. CASE CoreSends
  <2>1. /\ core.at = "send" /\ core' = Idle
        /\ toServer' = IF cOpen THEN Append(toServer, Packet(core.msg, Seal(cli), core.number))
                                ELSE toServer
        /\ cStatus' = IF core.msg.op = "answer" THEN "authenticated" ELSE cStatus
        /\ UNCHANGED <<toClient, sOpen, cOpen, sStatus, srv, cli, sendq, recvq, net,
                       handler, refresher, user, made>>
    BY <1>2 DEF CoreSends, Sends, server
  <2>2. Packet(core.msg, Seal(cli), core.number) \in ToServer
    BY <2>1, JobFacts, EndFacts DEF Packet, ToServer
  <2>3. toServer' \in Seq(ToServer)
    BY <1>0, <2>1, <2>2, AppendFacts
  <2>4. core' \in CoreJobs
    BY <2>1 DEF CoreJobs
  <2>5. Types'
    BY <2>1, <2>3, <2>4 DEF Types, LoginStates
  <2>6. Younger'
    BY <2>1 DEF Known, Younger
  <2> QED BY <2>1, <2>5, <2>6 DEF Known
<1>3. CASE UserTypes
  <2>1. /\ user' = Prepares(Message("message", {}), cli)
        /\ cli' = Numbered(cli)
        /\ made' = [made EXCEPT !.typed = @ + 1]
        /\ UNCHANGED <<toClient, toServer, sOpen, cOpen, sStatus, cStatus, srv, sendq, recvq, net,
                       handler, refresher, core>>
    BY <1>3 DEF UserTypes, server, wires
  <2>2. user' \in UserJobs
    BY <2>1, EndFacts DEF UserJobs, Prepares
  <2>3. cli' \in ClientEnds /\ cli'.key = cli.key
    BY <1>0, <2>1, EndFacts DEF Numbered, ClientEnds
  <2>4. /\ made' \in Mades /\ made'.overlap = made.overlap /\ made'.server = made.server
    BY <1>0, <2>1, MadeFacts
  <2>5. Types'
    BY <2>1, <2>2, <2>3, <2>4 DEF Types
  <2> QED BY <2>1, <2>3, <2>4, <2>5, KnownSame
<1>4. CASE UserSends
  <2>1. /\ user.at = "send" /\ user' = Idle
        /\ toServer' = IF cOpen THEN Append(toServer, Packet(user.msg, Seal(cli), user.number))
                                ELSE toServer
        /\ UNCHANGED <<toClient, sOpen, cOpen, sStatus, cStatus, srv, cli, sendq, recvq, net,
                       handler, refresher, core, made>>
    BY <1>4 DEF UserSends, Sends, server
  <2>2. Message("message", {}) \in FromClient
    BY DEF FromClient
  <2>3. Packet(user.msg, Seal(cli), user.number) \in ToServer
    BY <2>1, <2>2, JobFacts, EndFacts DEF Packet, ToServer
  <2>4. toServer' \in Seq(ToServer)
    BY <1>0, <2>1, <2>3, AppendFacts
  <2>5. user' \in UserJobs
    BY <2>1 DEF UserJobs
  <2>6. Types'
    BY <2>1, <2>4, <2>5 DEF Types
  <2> QED BY <2>1, <2>6, KnownSame
<1> QED BY <1>1, <1>2, <1>3, <1>4

-----------------------------------------------------------------------------
(* OneTurn.                                                                 *)

LEMMA AppendTurn ==
  ASSUME NEW S, NEW q \in Seq(S), NEW x \in S, NEW M, Once(q, M)
  PROVE  /\ x \notin M => /\ (Range(Append(q, x)) \cap M # {}) <=> (Range(q) \cap M # {})
                          /\ Once(Append(q, x), M)
         /\ x \in M => /\ Range(Append(q, x)) \cap M # {}
                       /\ Range(q) \cap M = {} => Once(Append(q, x), M)
<1>1. /\ Range(Append(q, x)) = Range(q) \cup {x}
      /\ (x \in M => Range(q) \cap M = {}) => Once(Append(q, x), M)
  BY AppendFacts
<1> QED BY <1>1

LEMMA TailTurn ==
  ASSUME NEW S, NEW q \in Seq(S), q # << >>, NEW M, Once(q, M)
  PROVE  /\ Once(Tail(q), M)
         /\ Head(q) \notin M => (Range(Tail(q)) \cap M # {}) <=> (Range(q) \cap M # {})
         /\ Head(q) \in M => Range(q) \cap M # {} /\ Range(Tail(q)) \cap M = {}
<1>1. /\ Range(q) = {Head(q)} \cup Range(Tail(q))
      /\ Once(Tail(q), M) /\ (Head(q) \in M => Range(Tail(q)) \cap M = {})
  BY TailFacts
<1> QED BY <1>1

\* The same for the four sequences.
LEMMA QueueTurns ==
  ASSUME Types, OneTurn
  PROVE  /\ \A m \in Queued :
              /\ ~ IsTurn(m) => /\ TurnIn(Append(sendq, m)) <=> TurnIn(sendq)
                                /\ Once(Append(sendq, m), Turns)
              /\ IsTurn(m) => /\ TurnIn(Append(sendq, m))
                              /\ ~ TurnIn(sendq) => Once(Append(sendq, m), Turns)
         /\ \A m \in FromClient :
              /\ ~ IsTurn(m) => /\ TurnIn(Append(recvq, m)) <=> TurnIn(recvq)
                                /\ Once(Append(recvq, m), Turns)
              /\ IsTurn(m) => /\ TurnIn(Append(recvq, m))
                              /\ ~ TurnIn(recvq) => Once(Append(recvq, m), Turns)
         /\ sendq # << >> =>
              /\ Once(Tail(sendq), Turns)
              /\ ~ IsTurn(Head(sendq)) => (TurnIn(Tail(sendq)) <=> TurnIn(sendq))
              /\ IsTurn(Head(sendq)) => TurnIn(sendq) /\ ~ TurnIn(Tail(sendq))
         /\ recvq # << >> =>
              /\ Once(Tail(recvq), Turns)
              /\ ~ IsTurn(Head(recvq)) => (TurnIn(Tail(recvq)) <=> TurnIn(recvq))
              /\ IsTurn(Head(recvq)) => TurnIn(recvq) /\ ~ TurnIn(Tail(recvq))
<1>1. sendq \in Seq(Queued) /\ recvq \in Seq(FromClient)
      /\ Once(sendq, Turns) /\ Once(recvq, Turns)
  BY DEF Types, OneTurn
<1>2. /\ \A m \in Queued : m \in Turns <=> IsTurn(m)
      /\ \A m \in FromClient : m \in Turns <=> IsTurn(m)
  BY QueuedMessages DEF Turns
<1>3. ASSUME NEW m \in Queued
      PROVE  /\ ~ IsTurn(m) => /\ TurnIn(Append(sendq, m)) <=> TurnIn(sendq)
                               /\ Once(Append(sendq, m), Turns)
             /\ IsTurn(m) => /\ TurnIn(Append(sendq, m))
                             /\ ~ TurnIn(sendq) => Once(Append(sendq, m), Turns)
  BY <1>1, <1>2, AppendTurn DEF TurnIn
<1>4. ASSUME NEW m \in FromClient
      PROVE  /\ ~ IsTurn(m) => /\ TurnIn(Append(recvq, m)) <=> TurnIn(recvq)
                               /\ Once(Append(recvq, m), Turns)
             /\ IsTurn(m) => /\ TurnIn(Append(recvq, m))
                             /\ ~ TurnIn(recvq) => Once(Append(recvq, m), Turns)
  BY <1>1, <1>2, AppendTurn DEF TurnIn
<1>5. ASSUME sendq # << >>
      PROVE  /\ Once(Tail(sendq), Turns)
             /\ ~ IsTurn(Head(sendq)) => (TurnIn(Tail(sendq)) <=> TurnIn(sendq))
             /\ IsTurn(Head(sendq)) => TurnIn(sendq) /\ ~ TurnIn(Tail(sendq))
  <2>1. PICK m \in Queued : m = Head(sendq)
    BY <1>5, Firsts
  <2> QED BY <1>1, <1>2, <1>5, <2>1, TailTurn DEF TurnIn
<1>6. ASSUME recvq # << >>
      PROVE  /\ Once(Tail(recvq), Turns)
             /\ ~ IsTurn(Head(recvq)) => (TurnIn(Tail(recvq)) <=> TurnIn(recvq))
             /\ IsTurn(Head(recvq)) => TurnIn(recvq) /\ ~ TurnIn(Tail(recvq))
  <2>1. PICK m \in FromClient : m = Head(recvq)
    BY <1>6, Firsts
  <2> QED BY <1>1, <1>2, <1>6, <2>1, TailTurn DEF TurnIn
<1> QED BY <1>3, <1>4, <1>5, <1>6

LEMMA WireTurns ==
  ASSUME Types, OneTurn
  PROVE  /\ \A p \in ToClient :
              /\ ~ IsTurn(p.msg) => /\ TurnOn(Append(toClient, p)) <=> TurnOn(toClient)
                                    /\ Once(Append(toClient, p), TurnPackets)
              /\ IsTurn(p.msg) => /\ TurnOn(Append(toClient, p))
                                  /\ ~ TurnOn(toClient) => Once(Append(toClient, p), TurnPackets)
         /\ \A p \in ToServer :
              /\ ~ IsTurn(p.msg) => /\ TurnOn(Append(toServer, p)) <=> TurnOn(toServer)
                                    /\ Once(Append(toServer, p), TurnPackets)
              /\ IsTurn(p.msg) => /\ TurnOn(Append(toServer, p))
                                  /\ ~ TurnOn(toServer) => Once(Append(toServer, p), TurnPackets)
         /\ toClient # << >> =>
              /\ Once(Tail(toClient), TurnPackets)
              /\ ~ IsTurn(Head(toClient).msg) => (TurnOn(Tail(toClient)) <=> TurnOn(toClient))
              /\ IsTurn(Head(toClient).msg) => TurnOn(toClient) /\ ~ TurnOn(Tail(toClient))
         /\ toServer # << >> =>
              /\ Once(Tail(toServer), TurnPackets)
              /\ ~ IsTurn(Head(toServer).msg) => (TurnOn(Tail(toServer)) <=> TurnOn(toServer))
              /\ IsTurn(Head(toServer).msg) => TurnOn(toServer) /\ ~ TurnOn(Tail(toServer))
<1>1. toClient \in Seq(ToClient) /\ toServer \in Seq(ToServer)
      /\ Once(toClient, TurnPackets) /\ Once(toServer, TurnPackets)
  BY DEF Types, OneTurn
<1>2. /\ \A p \in ToClient : p \in TurnPackets <=> IsTurn(p.msg)
      /\ \A p \in ToServer : p \in TurnPackets <=> IsTurn(p.msg)
  BY DEF TurnPackets
<1>3. ASSUME NEW p \in ToClient
      PROVE  /\ ~ IsTurn(p.msg) => /\ TurnOn(Append(toClient, p)) <=> TurnOn(toClient)
                                   /\ Once(Append(toClient, p), TurnPackets)
             /\ IsTurn(p.msg) => /\ TurnOn(Append(toClient, p))
                                 /\ ~ TurnOn(toClient) => Once(Append(toClient, p), TurnPackets)
  BY <1>1, <1>2, AppendTurn DEF TurnOn
<1>4. ASSUME NEW p \in ToServer
      PROVE  /\ ~ IsTurn(p.msg) => /\ TurnOn(Append(toServer, p)) <=> TurnOn(toServer)
                                   /\ Once(Append(toServer, p), TurnPackets)
             /\ IsTurn(p.msg) => /\ TurnOn(Append(toServer, p))
                                 /\ ~ TurnOn(toServer) => Once(Append(toServer, p), TurnPackets)
  BY <1>1, <1>2, AppendTurn DEF TurnOn
<1>5. ASSUME toClient # << >>
      PROVE  /\ Once(Tail(toClient), TurnPackets)
             /\ ~ IsTurn(Head(toClient).msg) => (TurnOn(Tail(toClient)) <=> TurnOn(toClient))
             /\ IsTurn(Head(toClient).msg) => TurnOn(toClient) /\ ~ TurnOn(Tail(toClient))
  <2>1. PICK p \in ToClient : p = Head(toClient)
    BY <1>5, Firsts
  <2> QED BY <1>1, <1>2, <1>5, <2>1, TailTurn DEF TurnOn
<1>6. ASSUME toServer # << >>
      PROVE  /\ Once(Tail(toServer), TurnPackets)
             /\ ~ IsTurn(Head(toServer).msg) => (TurnOn(Tail(toServer)) <=> TurnOn(toServer))
             /\ IsTurn(Head(toServer).msg) => TurnOn(toServer) /\ ~ TurnOn(Tail(toServer))
  <2>1. PICK p \in ToServer : p = Head(toServer)
    BY <1>6, Firsts
  <2> QED BY <1>1, <1>2, <1>6, <2>1, TailTurn DEF TurnOn
<1> QED BY <1>3, <1>4, <1>5, <1>6

\* A network thread begins or ends a job.
LEMMA NetTurns ==
  ASSUME Types, OneTurn, NEW t \in NetThreads, NEW j \in NetJobs,
         net' = [net EXCEPT ![t] = j]
  PROVE  LET turn == j.at # "idle" /\ IsTurn(j.msg) IN
         /\ OnNet(t) => TurnNet
         /\ turn => TurnNet'
         /\ ~ turn /\ OnNet(t) => ~ TurnNet'
         /\ ~ turn /\ ~ OnNet(t) => (TurnNet' <=> TurnNet)
         /\ (turn /\ ~ OnNet(t) => ~ TurnNet) =>
              (\A u, v \in NetThreads : OnNet(u) /\ OnNet(v) => u = v)'
<1>1. \A u, v \in NetThreads : OnNet(u) /\ OnNet(v) => u = v
  BY DEF OneTurn
<1>2. net'[t] = j /\ \A u \in NetThreads : u # t => net'[u] = net[u]
  BY NetFacts
<1> QED BY <1>1, <1>2 DEF OnNet, TurnNet

LEMMA BusyFacts ==
  \A at, m : Busy(at, m).at = at /\ Busy(at, m).msg = m
BY DEF Busy

LEMMA OneTurnNet ==
  ASSUME Types, OneTurn, NEW t \in NetThreads,
         NetTakes(t) \/ NetReceives(t) \/ NetQueues(t) \/ NetSends(t)
  PROVE  OneTurn'
<1>0. Idle \in NetJobs /\ Idle.at = "idle"
  BY NetFacts, IdleIs
<1>1. CASE NetTakes(t)
  <2>1. /\ net[t].at = "idle" /\ sendq # << >>
        /\ net' = [net EXCEPT ![t] = Busy("send", Head(sendq))]
        /\ sendq' = Tail(sendq)
        /\ UNCHANGED <<toClient, toServer, recvq, handler, refresher, core>>
    BY <1>1 DEF NetTakes, wires, client
  <2>2. PICK m \in Queued : m = Head(sendq)
    BY <2>1, Firsts
  <2>3. PICK j \in NetJobs : j = Busy("send", m) /\ j.at = "send" /\ j.msg = m
    BY BusyFacts, NetFacts
  <2>4. net' = [net EXCEPT ![t] = j] /\ ~ OnNet(t)
    BY <2>1, <2>2, <2>3 DEF OnNet
  <2>5. /\ Once(sendq', Turns)
        /\ ~ IsTurn(m) => (TurnIn(sendq') <=> TurnIn(sendq))
        /\ IsTurn(m) => TurnIn(sendq) /\ ~ TurnIn(sendq')
    BY <2>1, <2>2, QueueTurns
  <2>6. /\ IsTurn(m) => TurnNet'
        /\ ~ IsTurn(m) => (TurnNet' <=> TurnNet)
        /\ (IsTurn(m) => ~ TurnNet) => (\A u, v \in NetThreads : OnNet(u) /\ OnNet(v) => u = v)'
    BY <2>3, <2>4, NetTurns
  <2> QED BY <2>1, <2>5, <2>6 DEF OneTurn, Count
<1>2. CASE NetReceives(t)
  <2>1. /\ net[t].at = "idle" /\ toServer # << >>
        /\ toServer' = Tail(toServer)
        /\ \/ net' = net
           \/ net' = [net EXCEPT ![t] = Busy("queue", Head(toServer).msg)]
        /\ UNCHANGED <<toClient, sendq, recvq, handler, refresher, core>>
    BY <1>2 DEF NetReceives, client
  <2>2. PICK p \in ToServer : p = Head(toServer) /\ p.msg \in FromClient
    BY <2>1, Firsts
  <2>3. /\ Once(toServer', TurnPackets)
        /\ ~ IsTurn(p.msg) => (TurnOn(toServer') <=> TurnOn(toServer))
        /\ IsTurn(p.msg) => TurnOn(toServer) /\ ~ TurnOn(toServer')
    BY <2>1, <2>2, WireTurns
  <2>4. CASE net' = net
    <3>1. (TurnNet' <=> TurnNet)
          /\ (\A u, v \in NetThreads : OnNet(u) /\ OnNet(v) => u = v)'
      BY <2>4 DEF OneTurn, OnNet, TurnNet
    <3> QED BY <2>1, <2>3, <3>1 DEF OneTurn, Count
  <2>5. CASE net' = [net EXCEPT ![t] = Busy("queue", p.msg)]
    <3>1. PICK j \in NetJobs : j = Busy("queue", p.msg) /\ j.at = "queue" /\ j.msg = p.msg
      BY <2>2, BusyFacts, NetFacts
    <3>2. net' = [net EXCEPT ![t] = j] /\ ~ OnNet(t)
      BY <2>1, <2>5, <3>1 DEF OnNet
    <3>3. /\ IsTurn(p.msg) => TurnNet'
          /\ ~ IsTurn(p.msg) => (TurnNet' <=> TurnNet)
          /\ (IsTurn(p.msg) => ~ TurnNet) =>
               (\A u, v \in NetThreads : OnNet(u) /\ OnNet(v) => u = v)'
      BY <3>1, <3>2, NetTurns
    <3> QED BY <2>1, <2>3, <3>3 DEF OneTurn, Count
  <2> QED BY <2>1, <2>2, <2>4, <2>5
<1>3. CASE NetQueues(t)
  <2>1. /\ net[t].at = "queue"
        /\ recvq' = Append(recvq, net[t].msg)
        /\ net' = [net EXCEPT ![t] = Idle]
        /\ UNCHANGED <<toClient, toServer, sendq, handler, refresher, core>>
    BY <1>3 DEF NetQueues, wires, client
  <2>2. PICK m \in FromClient : m = net[t].msg
    BY <2>1, NetFacts
  <2>3. OnNet(t) <=> IsTurn(m)
    BY <2>1, <2>2 DEF OnNet
  <2>4. /\ ~ IsTurn(m) => /\ TurnIn(recvq') <=> TurnIn(recvq)
                          /\ Once(recvq', Turns)
        /\ IsTurn(m) => /\ TurnIn(recvq')
                        /\ ~ TurnIn(recvq) => Once(recvq', Turns)
    BY <2>1, <2>2, QueueTurns
  <2>5. /\ IsTurn(m) => TurnNet /\ ~ TurnNet'
        /\ ~ IsTurn(m) => (TurnNet' <=> TurnNet)
        /\ (\A u, v \in NetThreads : OnNet(u) /\ OnNet(v) => u = v)'
    BY <1>0, <2>1, <2>3, NetTurns
  <2> QED BY <2>1, <2>4, <2>5 DEF OneTurn, Count
<1>4. CASE NetSends(t)
  <2>1. /\ net[t].at = "send"
        /\ ServerSends(net[t].msg)
        /\ net' = [net EXCEPT ![t] = Idle]
        /\ UNCHANGED <<toServer, sendq, recvq, handler, refresher, core>>
    BY <1>4 DEF NetSends, client
  <2>2. PICK m \in FromServer : m = net[t].msg
    BY <2>1, NetFacts, QueuedMessages
  <2>3. OnNet(t) <=> IsTurn(m)
    BY <2>1, <2>2 DEF OnNet
  <2>4. /\ IsTurn(m) => TurnNet /\ ~ TurnNet'
        /\ ~ IsTurn(m) => (TurnNet' <=> TurnNet)
        /\ (\A u, v \in NetThreads : OnNet(u) /\ OnNet(v) => u = v)'
    BY <1>0, <2>1, <2>3, NetTurns
  <2>5. ServerSends(m)
    BY <2>1, <2>2
  <2>6. PICK p \in ToClient : p = Sent(m) /\ p.msg = m
    BY <2>5, SendFacts DEF Sent, Packet
  <2>7. toClient' = toClient \/ toClient' = Append(toClient, p)
    BY <2>5, <2>6, SendFacts
  <2>8. CASE toClient' = toClient
    BY <2>1, <2>4, <2>8 DEF OneTurn, Count
  <2>9. CASE toClient' = Append(toClient, p)
    <3>1. /\ ~ IsTurn(m) => /\ TurnOn(toClient') <=> TurnOn(toClient)
                            /\ Once(toClient', TurnPackets)
          /\ IsTurn(m) => /\ TurnOn(toClient')
                          /\ ~ TurnOn(toClient) => Once(toClient', TurnPackets)
      BY <2>6, <2>9, WireTurns
    <3> QED BY <2>1, <2>4, <3>1 DEF OneTurn, Count
  <2> QED BY <2>7, <2>8, <2>9
<1> QED BY <1>1, <1>2, <1>3, <1>4

LEMMA Members ==
  ASSUME Types
  PROVE  /\ \A m \in Range(sendq) : m \in Queued
         /\ \A m \in Range(recvq) : m \in FromClient
         /\ \A p \in Range(toClient) : /\ p \in ToClient /\ p.msg \in FromServer
                                       /\ p.seal \in Seals /\ p.number \in Numbers
         /\ \A p \in Range(toServer) : /\ p \in ToServer /\ p.msg \in FromClient
                                       /\ p.seal \in Seals /\ p.number \in Numbers
<1>1. /\ sendq \in Seq(Queued) /\ recvq \in Seq(FromClient)
      /\ toClient \in Seq(ToClient) /\ toServer \in Seq(ToServer)
  BY DEF Types
<1>2. /\ \A m \in Range(sendq) : m \in Queued
      /\ \A m \in Range(recvq) : m \in FromClient
  BY <1>1, RangeIndices
<1>3. /\ \A p \in Range(toClient) : p \in ToClient
      /\ \A p \in Range(toServer) : p \in ToServer
  BY <1>1, RangeIndices
<1> QED BY <1>2, <1>3 DEF ToClient, ToServer

\* No message of the turn is anywhere before the login, and between two refreshes.
Resting ==
    /\ ~ TurnIn(sendq) /\ ~ TurnIn(recvq) /\ ~ TurnOn(toClient) /\ ~ TurnOn(toServer)
    /\ ~ TurnNet /\ handler.at = "idle" /\ refresher.at = "idle" /\ core.at = "idle"

LEMMA Rest ==
  ASSUME Types, Rightly,
         sStatus = "connected" \/ (sStatus = "authenticated" /\ ~ Exchanging)
  PROVE  Resting
<1>2. ASSUME NEW m \in Range(sendq), IsTurn(m) PROVE FALSE
  <2>1. m \in Queued
    BY <1>2, Members
  <2>2. m.op = "nonce"
    BY <1>2, <2>1, QueuedMessages DEF IsTurn
  <2> QED BY <1>2, <2>2 DEF Rightly, OnTheWay, ToClientRight
<1>3. ASSUME NEW m \in Range(recvq), IsTurn(m) PROVE FALSE
  <2>1. m.op \in {"request", "answer", "refresh"}
    BY <1>3, Members, ToServerMessages DEF IsTurn
  <2>2. ToServerRight(m, "authenticated")
    BY <1>3 DEF Rightly, OnTheWay
  <2>3. m.op = "refresh" => Exchanging
    BY <1>3 DEF Exchanging
  <2> QED BY <2>1, <2>2, <2>3 DEF ToServerRight, Auth
<1>4. ASSUME NEW p \in Range(toClient), IsTurn(p.msg) PROVE FALSE
  <2>1. p.msg \in FromServer
    BY <1>4, Members
  <2>2. p.msg.op \in {"nonce", "reject", "test", "refresh"}
    BY <1>4, <2>1, ToClientMessages DEF IsTurn
  <2>3. ToClientRight(p.msg)
    BY <1>4 DEF Rightly, OnTheWay
  <2>4. p.msg.op = "refresh" => Exchanging
    BY <1>4 DEF Exchanging
  <2> QED BY <2>2, <2>3, <2>4 DEF ToClientRight, Auth
<1>5. ASSUME NEW p \in Range(toServer), IsTurn(p.msg) PROVE FALSE
  <2>1. p.msg \in FromClient
    BY <1>5, Members
  <2>2. p.msg.op \in {"request", "answer", "refresh"}
    BY <1>5, <2>1, ToServerMessages DEF IsTurn
  <2>3. ToServerRight(p.msg, "authenticated")
    BY <1>5 DEF Rightly, OnTheWay
  <2>4. p.msg.op = "refresh" => Exchanging
    BY <1>5 DEF Exchanging
  <2> QED BY <2>2, <2>3, <2>4 DEF ToServerRight, Auth
<1>6. ASSUME NEW t \in NetThreads, OnNet(t) PROVE FALSE
  <2>1. net[t] \in Jobs
    BY DEF Jobs
  <2>2. net[t].msg.op = "refresh" => Exchanging
    BY <1>6, <2>1 DEF Exchanging, OnNet
  <2>3. CASE net[t].at = "send"
    <3>1. net[t].msg.op = "nonce"
      BY <1>6, <2>3, NetFacts, QueuedMessages DEF OnNet, IsTurn
    <3> QED BY <2>3, <3>1 DEF Rightly, OnTheWay, ToClientRight
  <2>4. CASE net[t].at = "queue"
    <3>1. net[t].msg.op \in {"request", "answer", "refresh"}
      BY <1>6, <2>4, NetFacts, ToServerMessages DEF OnNet, IsTurn
    <3>2. ToServerRight(net[t].msg, "authenticated")
      BY <2>4 DEF Rightly, OnTheWay
    <3> QED BY <2>2, <3>1, <3>2 DEF ToServerRight, Auth
  <2> QED BY <1>6, <2>3, <2>4, NetFacts DEF OnNet
<1>7. handler.at = "idle"
  <2>1. handler.at = "announce" => Exchanging
    BY DEF Exchanging
  <2> QED BY <2>1, JobFacts DEF Rightly, OnTheWay, AtWorkRight, Auth
<1>8. refresher.at = "idle"
  <2>1. refresher.at = "send" => Exchanging
    BY DEF Exchanging
  <2> QED BY <2>1, JobFacts DEF Rightly, OnTheWay, AtWorkRight, Auth
<1>9. core.at = "idle"
  <2>1. core \in Jobs
    BY DEF Jobs
  <2>2. core.at = "send" /\ core.msg.op = "refresh" => Exchanging
    BY <2>1 DEF Exchanging
  <2>3. core.at = "send" => ToServerRight(core.msg, "step2")
    BY DEF Rightly, OnTheWay
  <2> QED BY <2>2, <2>3, JobFacts DEF ToServerRight, Auth
<1> QED BY <1>2, <1>3, <1>4, <1>5, <1>6, <1>7, <1>8, <1>9
        DEF Resting, TurnIn, TurnOn, TurnNet, Turns, TurnPackets

LEMMA SendTurn ==
  ASSUME Types, OneTurn, NEW m \in FromServer, ServerSends(m)
  PROVE  /\ ~ IsTurn(m) => /\ TurnOn(toClient') <=> TurnOn(toClient)
                           /\ Once(toClient', TurnPackets)
         /\ ~ TurnOn(toClient) => Once(toClient', TurnPackets)
<1>1. PICK p \in ToClient : p = Sent(m) /\ p.msg = m
  BY SendFacts DEF Sent, Packet
<1>2. toClient' = toClient \/ toClient' = Append(toClient, p)
  BY <1>1, SendFacts
<1>3. Once(toClient, TurnPackets)
  BY DEF OneTurn
<1> QED BY <1>1, <1>2, <1>3, WireTurns

LEMMA TakesTurn ==
  ASSUME Types, OneTurn, NEW op, Takes(op)
  PROVE  /\ handler.at = "idle"
         /\ Once(recvq', Turns)
         /\ op = "message" => (TurnIn(recvq') <=> TurnIn(recvq))
         /\ op # "message" => TurnIn(recvq) /\ ~ TurnIn(recvq')
<1>1. PICK m \in FromClient : m = Head(recvq) /\ m.op = op
  BY TakesFacts
<1>2. IsTurn(m) <=> op # "message"
  BY <1>1, ToServerMessages DEF IsTurn
<1> QED BY <1>1, <1>2, TakesFacts, QueueTurns

LEMMA OneTurnLogin ==
  ASSUME Types, OneTurn, Rightly,
         \/ LoginStarts \/ HandleRequest \/ HandleAnswer \/ LoginTimeout \/ ServerHearsClose
         \/ HandleRefreshKey \/ HandleMessage \/ Tell
  PROVE  OneTurn'
<1>0. /\ Message("nonce", {}) \in Queued /\ IsTurn(Message("nonce", {}))
      /\ Message("message", {}) \in Queued /\ ~ IsTurn(Message("message", {}))
  BY DEF Queued, IsTurn, Message
<1>1. CASE LoginStarts
  <2>1. /\ sStatus = "connected"
        /\ sendq' = Append(sendq, Message("nonce", {}))
        /\ UNCHANGED <<toClient, toServer, recvq, net, handler, refresher, core>>
    BY <1>1 DEF LoginStarts, wires, client
  <2>2. Resting
    BY <2>1, Rest
  <2>3. TurnIn(sendq') /\ Once(sendq', Turns)
    BY <1>0, <2>1, <2>2, QueueTurns DEF Resting
  <2>4. (TurnNet' <=> TurnNet) /\ (\A u, v \in NetThreads : OnNet(u) /\ OnNet(v) => u = v)'
    BY <2>1 DEF OneTurn, OnNet, TurnNet
  <2> QED BY <2>1, <2>2, <2>3, <2>4 DEF OneTurn, Count, Resting
<1>2. CASE HandleRequest \/ HandleRefreshKey \/ HandleAnswer
  <2>1. /\ \E op : Takes(op) /\ op # "message"
        /\ UNCHANGED <<toClient, toServer, sendq, net, refresher, core>>
    BY <1>2 DEF HandleRequest, HandleRefreshKey, HandleAnswer, wires, client
  <2>2. /\ handler.at = "idle" /\ Once(recvq', Turns)
        /\ TurnIn(recvq) /\ ~ TurnIn(recvq')
    BY <2>1, TakesTurn
  <2>3. (TurnNet' <=> TurnNet) /\ (\A u, v \in NetThreads : OnNet(u) /\ OnNet(v) => u = v)'
    BY <2>1 DEF OneTurn, OnNet, TurnNet
  <2> QED BY <2>1, <2>2, <2>3 DEF OneTurn, Count
<1>3. CASE LoginTimeout \/ ServerHearsClose
  <2>1. UNCHANGED <<toClient, toServer, sendq, recvq, net, handler, refresher, core>>
    BY <1>3 DEF LoginTimeout, ServerHearsClose, wires, client
  <2>2. (TurnNet' <=> TurnNet) /\ (\A u, v \in NetThreads : OnNet(u) /\ OnNet(v) => u = v)'
    BY <2>1 DEF OneTurn, OnNet, TurnNet
  <2> QED BY <2>1, <2>2 DEF OneTurn, Count
<1>4. CASE HandleMessage
  <2>1. /\ Takes("message")
        /\ sendq' = sendq \/ sendq' = Append(sendq, Message("message", {}))
        /\ UNCHANGED <<toClient, toServer, net, handler, refresher, core>>
    BY <1>4 DEF HandleMessage, wires, client
  <2>2. Once(recvq', Turns) /\ (TurnIn(recvq') <=> TurnIn(recvq))
    BY <2>1, TakesTurn
  <2>3. Once(sendq', Turns) /\ (TurnIn(sendq') <=> TurnIn(sendq))
    BY <1>0, <2>1, QueueTurns DEF OneTurn
  <2>4. (TurnNet' <=> TurnNet) /\ (\A u, v \in NetThreads : OnNet(u) /\ OnNet(v) => u = v)'
    BY <2>1 DEF OneTurn, OnNet, TurnNet
  <2> QED BY <2>1, <2>2, <2>3, <2>4 DEF OneTurn, Count
<1>5. CASE Tell
  <2>1. /\ sendq' = Append(sendq, Message("message", {}))
        /\ UNCHANGED <<toClient, toServer, recvq, net, handler, refresher, core>>
    BY <1>5 DEF Tell, wires, client
  <2>2. Once(sendq', Turns) /\ (TurnIn(sendq') <=> TurnIn(sendq))
    BY <1>0, <2>1, QueueTurns DEF OneTurn
  <2>3. (TurnNet' <=> TurnNet) /\ (\A u, v \in NetThreads : OnNet(u) /\ OnNet(v) => u = v)'
    BY <2>1 DEF OneTurn, OnNet, TurnNet
  <2> QED BY <2>1, <2>2, <2>3 DEF OneTurn, Count
<1> QED BY <1>1, <1>2, <1>3, <1>4, <1>5

LEMMA OneTurnSends ==
  ASSUME Types, Known, OneTurn, Rightly,
         \/ SendAccept \/ CombineKeys \/ SendTest \/ SendReject
         \/ SendNewKey \/ AnnounceNewKey
         \/ GenerateNewKey /\ ~ made'.overlap
  PROVE  OneTurn'
<1>1. CASE SendAccept
  <2>1. /\ handler.at = "accept"
        /\ ServerSends(Message("accept", srv.key))
        /\ handler' = [handler EXCEPT !.at = "combine"]
        /\ UNCHANGED <<toServer, sendq, recvq, net, refresher, core>>
    BY <1>1 DEF SendAccept, client
  <2>2. PICK m \in FromServer : m = Message("accept", srv.key) /\ m.op = "accept"
    BY <2>1, LoginMessages DEF Known
  <2>3. (TurnOn(toClient') <=> TurnOn(toClient)) /\ Once(toClient', TurnPackets)
    BY <2>1, <2>2, SendTurn DEF IsTurn
  <2>4. (TurnNet' <=> TurnNet) /\ (\A u, v \in NetThreads : OnNet(u) /\ OnNet(v) => u = v)'
    BY <2>1 DEF OneTurn, OnNet, TurnNet
  <2> QED BY <2>1, <2>3, <2>4 DEF OneTurn, Count
<1>2. CASE CombineKeys
  <2>1. /\ handler.at = "combine"
        /\ UNCHANGED <<toClient, toServer, sendq, recvq, net, refresher, core>>
    BY <1>2 DEF CombineKeys, client, wires
  <2>2. (TurnNet' <=> TurnNet) /\ (\A u, v \in NetThreads : OnNet(u) /\ OnNet(v) => u = v)'
    BY <2>1 DEF OneTurn, OnNet, TurnNet
  <2> QED BY <2>1, <2>2 DEF OneTurn, Count
<1>3. CASE SendTest \/ SendReject \/ AnnounceNewKey
  <2>1. /\ handler.at # "idle" /\ handler' = Idle
        /\ UNCHANGED <<toServer, sendq, recvq, net, refresher, core>>
    BY <1>3 DEF SendTest, SendReject, AnnounceNewKey, client
  <2>2. \E m \in FromServer : ServerSends(m)
    <3>1. CASE SendTest
      BY <3>1, LoginMessages DEF SendTest
    <3>2. CASE SendReject
      BY <3>2, LoginMessages DEF SendReject
    <3>3. CASE AnnounceNewKey
      BY <3>3, JobFacts DEF AnnounceNewKey, FromServer, NewKey
    <3> QED BY <1>3, <3>1, <3>2, <3>3
  <2>3. ~ TurnOn(toClient) => Once(toClient', TurnPackets)
    BY <2>2, SendTurn
  <2>4. (TurnNet' <=> TurnNet) /\ (\A u, v \in NetThreads : OnNet(u) /\ OnNet(v) => u = v)'
    BY <2>1 DEF OneTurn, OnNet, TurnNet
  <2> QED BY <2>1, <2>3, <2>4, IdleIs DEF OneTurn, Count
<1>4. CASE SendNewKey
  <2>1. /\ refresher.at = "send" /\ refresher' = Idle
        /\ ServerSends(refresher.msg)
        /\ UNCHANGED <<toServer, sendq, recvq, net, handler, core>>
    BY <1>4 DEF SendNewKey, client
  <2>2. ~ TurnOn(toClient) => Once(toClient', TurnPackets)
    BY <2>1, SendTurn, JobFacts
  <2>3. (TurnNet' <=> TurnNet) /\ (\A u, v \in NetThreads : OnNet(u) /\ OnNet(v) => u = v)'
    BY <2>1 DEF OneTurn, OnNet, TurnNet
  <2> QED BY <2>1, <2>2, <2>3, IdleIs DEF OneTurn, Count
<1>5. CASE GenerateNewKey /\ ~ made'.overlap
  <2>1. /\ sStatus = "authenticated"
        /\ made' = [made EXCEPT !.server = @ + 1, !.overlap = @ \/ Exchanging]
        /\ UNCHANGED <<toClient, toServer, sendq, recvq, net, handler, core>>
    BY <1>5 DEF GenerateNewKey, client, wires
  <2>2. ~ Exchanging
    BY <1>5, <2>1 DEF Types, Mades
  <2>3. Resting
    BY <2>1, <2>2, Rest
  <2>4. (TurnNet' <=> TurnNet) /\ (\A u, v \in NetThreads : OnNet(u) /\ OnNet(v) => u = v)'
    BY <2>1 DEF OneTurn, OnNet, TurnNet
  <2> QED BY <2>1, <2>3, <2>4 DEF OneTurn, Count, Resting
<1> QED BY <1>1, <1>2, <1>3, <1>4, <1>5

\* What the client takes from its wire.
LEMMA GetsTurn ==
  ASSUME Types, OneTurn, toClient # << >>, toClient' = Tail(toClient)
  PROVE  /\ Once(toClient', TurnPackets)
         /\ ~ IsTurn(Head(toClient).msg) => (TurnOn(toClient') <=> TurnOn(toClient))
         /\ IsTurn(Head(toClient).msg) => TurnOn(toClient) /\ ~ TurnOn(toClient')
BY WireTurns

LEMMA OneTurnClient ==
  ASSUME Types, OneTurn,
         \/ HandleNonce \/ HandleAccept \/ HandleReject \/ HandleTest
         \/ HandleNewHalf \/ HandleNewKey \/ HandleOther \/ CannotRead
  PROVE  OneTurn'
<1>1. /\ toClient # << >> /\ toClient' = Tail(toClient)
      /\ UNCHANGED <<toServer, sendq, recvq, net, handler, refresher>>
  BY DEF HandleNonce, HandleAccept, HandleReject, HandleTest, HandleNewHalf, HandleNewKey,
         HandleOther, CannotRead, Gets, server
<1>2. PICK p \in ToClient : p = Head(toClient)
  BY <1>1, Firsts
<1>3. /\ Once(toClient', TurnPackets)
      /\ ~ IsTurn(p.msg) => (TurnOn(toClient') <=> TurnOn(toClient))
      /\ IsTurn(p.msg) => TurnOn(toClient) /\ ~ TurnOn(toClient')
  BY <1>1, <1>2, GetsTurn
<1>4. core' = core \/ IsTurn(p.msg)
  BY <1>2 DEF HandleNonce, HandleAccept, HandleReject, HandleTest, HandleNewHalf, HandleNewKey,
              HandleOther, CannotRead, Gets, IsTurn
<1>5. (TurnNet' <=> TurnNet) /\ (\A u, v \in NetThreads : OnNet(u) /\ OnNet(v) => u = v)'
  BY <1>1 DEF OneTurn, OnNet, TurnNet
<1> QED BY <1>1, <1>3, <1>4, <1>5 DEF OneTurn, Count

LEMMA OneTurnClientSends ==
  ASSUME Types, OneTurn,
         ClientHearsClose \/ CoreSends \/ UserTypes \/ UserSends
  PROVE  OneTurn'
<1>1. CASE ClientHearsClose \/ UserTypes
  <2>1. UNCHANGED <<toClient, toServer, sendq, recvq, net, handler, refresher, core>>
    BY <1>1 DEF ClientHearsClose, UserTypes, server, wires
  <2>2. (TurnNet' <=> TurnNet) /\ (\A u, v \in NetThreads : OnNet(u) /\ OnNet(v) => u = v)'
    BY <2>1 DEF OneTurn, OnNet, TurnNet
  <2> QED BY <2>1, <2>2 DEF OneTurn, Count
<1>2. CASE CoreSends
  <2>1. /\ core.at = "send" /\ core' = Idle
        /\ toServer' = IF cOpen THEN Append(toServer, Packet(core.msg, Seal(cli), core.number))
                                ELSE toServer
        /\ UNCHANGED <<toClient, sendq, recvq, net, handler, refresher>>
    BY <1>2 DEF CoreSends, Sends, server
  <2>2. PICK p \in ToServer : p = Packet(core.msg, Seal(cli), core.number)
    BY <2>1, JobFacts, EndFacts DEF Packet, ToServer
  <2>3. ~ TurnOn(toServer) => Once(toServer', TurnPackets)
    BY <2>1, <2>2, WireTurns DEF OneTurn
  <2>4. (TurnNet' <=> TurnNet) /\ (\A u, v \in NetThreads : OnNet(u) /\ OnNet(v) => u = v)'
    BY <2>1 DEF OneTurn, OnNet, TurnNet
  <2> QED BY <2>1, <2>3, <2>4, IdleIs DEF OneTurn, Count
<1>3. CASE UserSends
  <2>1. /\ user.at = "send"
        /\ toServer' = IF cOpen THEN Append(toServer, Packet(user.msg, Seal(cli), user.number))
                                ELSE toServer
        /\ UNCHANGED <<toClient, sendq, recvq, net, handler, refresher, core>>
    BY <1>3 DEF UserSends, Sends, server
  <2>2. Message("message", {}) \in FromClient /\ ~ IsTurn(Message("message", {}))
    BY DEF FromClient, IsTurn, Message
  <2>3. PICK p \in ToServer : /\ p = Packet(user.msg, Seal(cli), user.number)
                             /\ p.msg = Message("message", {})
    BY <2>1, <2>2, JobFacts, EndFacts DEF Packet, ToServer
  <2>4. Once(toServer', TurnPackets) /\ (TurnOn(toServer') <=> TurnOn(toServer))
    BY <2>1, <2>2, <2>3, WireTurns DEF OneTurn
  <2>5. (TurnNet' <=> TurnNet) /\ (\A u, v \in NetThreads : OnNet(u) /\ OnNet(v) => u = v)'
    BY <2>1 DEF OneTurn, OnNet, TurnNet
  <2> QED BY <2>1, <2>4, <2>5 DEF OneTurn, Count
<1> QED BY <1>1, <1>2, <1>3

-----------------------------------------------------------------------------
(* Rightly.                                                                 *)

\* Steps that change nothing the two sides know of each other.
LEMMA SameRight ==
  ASSUME UNCHANGED <<cStatus, srv.key, srv.tmp, srv.changekeys, cli.mode, cli.key, cli.tmp>>,
         UNCHANGED sStatus \/ (sStatus \in {"step1", "step2"} /\ sStatus' = "rejected"),
         srv'.mode = srv.mode \/ srv.mode = "none",
         sOpen' => sOpen,
         UNCHANGED handler \/ handler.at # "combine"
  PROVE  /\ \A m : ToClientRight(m) => ToClientRight(m)'
         /\ \A m, a : ToServerRight(m, a) => ToServerRight(m, a)'
<1>1. Agree => Agree'
  BY DEF Agree
<1>2. Auth => Auth'
  BY DEF Auth
<1>3. ASSUME NEW h, RightAccept(h) PROVE RightAccept(h)'
  BY <1>3 DEF RightAccept
<1>4. ASSUME NEW m, ToClientRight(m) PROVE ToClientRight(m)'
  BY <1>1, <1>2, <1>3, <1>4 DEF ToClientRight
<1>5. ASSUME NEW m, NEW a, ToServerRight(m, a) PROVE ToServerRight(m, a)'
  BY <1>1, <1>2, <1>5 DEF ToServerRight
<1> QED BY <1>4, <1>5

LEMMA SameAtWork ==
  ASSUME AtWorkRight,
         UNCHANGED <<sStatus, cStatus, srv.key, srv.tmp, srv.changekeys,
                     cli.mode, cli.key, cli.tmp>>,
         srv'.mode = srv.mode \/ srv.mode = "none",
         UNCHANGED handler \/ handler'.at = "idle",
         UNCHANGED refresher \/ refresher'.at = "idle"
  PROVE  AtWorkRight'
<1>1. Agree => Agree'
  BY DEF Agree
<1>2. Auth' = Auth
  BY DEF Auth
<1> QED BY <1>1, <1>2 DEF AtWorkRight

\* Everything that is anywhere after the step was right before it.
WereRight ==
    /\ \A m \in Range(sendq') : m \in Range(sendq) \/ ToClientRight(m)
    /\ \A p \in Range(toClient') :
         p \in Range(toClient) \/ ToClientRight(p.msg) \/ ToClientRight(p.msg)'
    /\ \A m \in Range(recvq') : m \in Range(recvq) \/ ToServerRight(m, "authenticated")
    /\ \A p \in Range(toServer') :
         p \in Range(toServer) \/ ToServerRight(p.msg, "authenticated")
    /\ \A t \in NetThreads :
         \/ net'[t] = net[t]
         \/ net'[t].at = "idle"
         \/ net'[t].at = "send" /\ ToClientRight(net'[t].msg)
         \/ net'[t].at = "queue" /\ ToServerRight(net'[t].msg, "authenticated")
    /\ \/ core' = core
       \/ core'.at = "idle"
       \/ ToServerRight(core'.msg, "step2")

LEMMA OnTheWaySame ==
  ASSUME OnTheWay, WereRight,
         UNCHANGED <<cStatus, srv.key, srv.tmp, srv.changekeys, cli.mode, cli.key, cli.tmp>>,
         UNCHANGED sStatus \/ (sStatus \in {"step1", "step2"} /\ sStatus' = "rejected"),
         srv'.mode = srv.mode \/ srv.mode = "none",
         sOpen' => sOpen,
         UNCHANGED handler \/ handler.at # "combine"
  PROVE  OnTheWay'
<1>1. /\ \A m : ToClientRight(m) => ToClientRight(m)'
      /\ \A m, a : ToServerRight(m, a) => ToServerRight(m, a)'
  BY SameRight
<1>2. ASSUME NEW m \in Range(sendq') PROVE ToClientRight(m)'
  BY <1>1, <1>2 DEF OnTheWay, WereRight
<1>3. ASSUME NEW p \in Range(toClient') PROVE ToClientRight(p.msg)'
  BY <1>1, <1>3 DEF OnTheWay, WereRight
<1>4. ASSUME NEW m \in Range(recvq') PROVE ToServerRight(m, "authenticated")'
  BY <1>1, <1>4 DEF OnTheWay, WereRight
<1>5. ASSUME NEW p \in Range(toServer') PROVE ToServerRight(p.msg, "authenticated")'
  BY <1>1, <1>5 DEF OnTheWay, WereRight
<1>6. ASSUME NEW t \in NetThreads, net'[t].at = "send" PROVE ToClientRight(net[t].msg)'
  <2>1. PICK m : m = net'[t].msg
    OBVIOUS
  <2>2. ToClientRight(m)
    BY <1>6, <2>1 DEF OnTheWay, WereRight
  <2>3. ToClientRight(m)'
    BY <1>1, <2>2
  <2> QED BY <2>1, <2>3
<1>7. ASSUME NEW t \in NetThreads, net'[t].at = "queue"
      PROVE  ToServerRight(net[t].msg, "authenticated")'
  <2>1. PICK m : m = net'[t].msg
    OBVIOUS
  <2>2. ToServerRight(m, "authenticated")
    BY <1>7, <2>1 DEF OnTheWay, WereRight
  <2>3. ToServerRight(m, "authenticated")'
    BY <1>1, <2>2
  <2> QED BY <2>1, <2>3
<1>8. ASSUME core'.at = "send" PROVE ToServerRight(core.msg, "step2")'
  <2>1. PICK m : m = core'.msg
    OBVIOUS
  <2>2. ToServerRight(m, "step2")
    BY <1>8, <2>1 DEF OnTheWay, WereRight
  <2>3. ToServerRight(m, "step2")'
    BY <1>1, <2>2
  <2> QED BY <2>1, <2>3
<1> QED BY <1>2, <1>3, <1>4, <1>5, <1>6, <1>7, <1>8 DEF OnTheWay

LEMMA RightlySame ==
  ASSUME Rightly, WereRight,
         UNCHANGED <<sStatus, cStatus, srv.key, srv.tmp, srv.changekeys,
                     cli.mode, cli.key, cli.tmp>>,
         srv'.mode = srv.mode \/ srv.mode = "none",
         sOpen' => sOpen,
         UNCHANGED handler \/ (handler.at # "combine" /\ handler'.at = "idle"),
         UNCHANGED refresher \/ refresher'.at = "idle"
  PROVE  Rightly'
<1>1. OnTheWay'
  BY OnTheWaySame DEF Rightly
<1>2. AtWorkRight'
  BY SameAtWork DEF Rightly
<1> QED BY <1>1, <1>2 DEF Rightly

\* What each sequence holds after a step on it.
LEMMA RangeFacts ==
  ASSUME Types
  PROVE  /\ \A m \in Queued : Range(Append(sendq, m)) = Range(sendq) \cup {m}
         /\ \A m \in FromClient : Range(Append(recvq, m)) = Range(recvq) \cup {m}
         /\ \A p \in ToClient : Range(Append(toClient, p)) = Range(toClient) \cup {p}
         /\ \A p \in ToServer : Range(Append(toServer, p)) = Range(toServer) \cup {p}
         /\ sendq # << >> => Range(sendq) = {Head(sendq)} \cup Range(Tail(sendq))
         /\ recvq # << >> => Range(recvq) = {Head(recvq)} \cup Range(Tail(recvq))
         /\ toClient # << >> => Range(toClient) = {Head(toClient)} \cup Range(Tail(toClient))
         /\ toServer # << >> => Range(toServer) = {Head(toServer)} \cup Range(Tail(toServer))
<1>1. /\ sendq \in Seq(Queued) /\ recvq \in Seq(FromClient)
      /\ toClient \in Seq(ToClient) /\ toServer \in Seq(ToServer)
  BY DEF Types
<1>2. /\ \A m \in Queued : Range(Append(sendq, m)) = Range(sendq) \cup {m}
      /\ \A m \in FromClient : Range(Append(recvq, m)) = Range(recvq) \cup {m}
      /\ \A p \in ToClient : Range(Append(toClient, p)) = Range(toClient) \cup {p}
      /\ \A p \in ToServer : Range(Append(toServer, p)) = Range(toServer) \cup {p}
  BY <1>1, AppendFacts
<1>3. sendq # << >> => Range(sendq) = {Head(sendq)} \cup Range(Tail(sendq))
  BY <1>1, TailFacts
<1>4. recvq # << >> => Range(recvq) = {Head(recvq)} \cup Range(Tail(recvq))
  BY <1>1, TailFacts
<1>5. toClient # << >> => Range(toClient) = {Head(toClient)} \cup Range(Tail(toClient))
  BY <1>1, TailFacts
<1>6. toServer # << >> => Range(toServer) = {Head(toServer)} \cup Range(Tail(toServer))
  BY <1>1, TailFacts
<1> QED BY <1>2, <1>3, <1>4, <1>5, <1>6

LEMMA SentRange ==
  ASSUME Types, NEW m \in FromServer, ServerSends(m)
  PROVE  \A p \in Range(toClient') : p \in Range(toClient) \/ (sOpen /\ p = Sent(m) /\ p.msg = m)
<1>1. Sent(m) \in ToClient /\ Sent(m).msg = m
  BY SendFacts DEF Sent, Packet
<1>2. PICK p \in ToClient : p = Sent(m) /\ p.msg = m
  BY <1>1
<1>3. Range(Append(toClient, p)) = Range(toClient) \cup {p}
  BY RangeFacts
<1> QED BY <1>2, <1>3, SendFacts

\* Sending a packet that does not make the server change its key changes at most "none"
\* to "hyb".
LEMMA SentKeeps ==
  ASSUME Types, NEW m \in FromServer, ServerSends(m)
  PROVE  /\ \A p \in Range(toClient) : p \in Range(toClient')
         /\ sOpen => Sent(m) \in Range(toClient')
<1>1. PICK p \in ToClient : p = Sent(m)
  BY SendFacts
<1>2. /\ toClient' = toClient \/ toClient' = Append(toClient, p)
      /\ sOpen => toClient' = Append(toClient, p)
  BY <1>1, SendFacts
<1>3. Range(Append(toClient, p)) = Range(toClient) \cup {p}
  BY RangeFacts
<1> QED BY <1>1, <1>2, <1>3

LEMMA SentMode ==
  ASSUME Types, Phases, NEW m \in FromServer, ServerSends(m),
         ~ Rekeys(m) \/ ~ sOpen
  PROVE  /\ UNCHANGED <<srv.key, srv.tmp, srv.changekeys, srv.got>>
         /\ srv'.mode = srv.mode \/ srv.mode = "none"
         /\ srv.mode # "none" => srv'.mode = srv.mode /\ srv'.next = srv.next
<1>1. srv.next = "hyb" => srv.mode = "none"
  BY DEF Phases
<1> QED BY <1>1, SendFacts DEF SentState

LEMMA RightlyNet ==
  ASSUME Types, Known, Rightly, Phases, NEW t \in NetThreads,
         NetTakes(t) \/ NetReceives(t) \/ NetQueues(t) \/ NetSends(t)
  PROVE  Rightly'
<1>0. OnTheWay
  BY DEF Rightly
<1>1. CASE NetTakes(t)
  <2>1. /\ sendq # << >>
        /\ net' = [net EXCEPT ![t] = Busy("send", Head(sendq))]
        /\ sendq' = Tail(sendq)
        /\ UNCHANGED <<toClient, toServer, sOpen, cOpen, sStatus, cStatus, srv, cli, recvq,
                       handler, refresher, core, user, made>>
    BY <1>1 DEF NetTakes, wires, client
  <2>2. PICK m \in Queued : m = Head(sendq) /\ m \in Range(sendq)
    BY <2>1, Firsts
  <2>3. ToClientRight(m)
    BY <1>0, <2>2 DEF OnTheWay
  <2>4. PICK j \in NetJobs : j = Busy("send", m) /\ j.at = "send" /\ j.msg = m
    BY BusyFacts, NetFacts
  <2>5. net'[t] = j /\ \A u \in NetThreads : u # t => net'[u] = net[u]
    BY <2>1, <2>2, <2>4, NetFacts
  <2>6. Range(sendq') \subseteq Range(sendq)
    BY <2>1, RangeFacts
  <2>7. WereRight
    BY <2>1, <2>3, <2>4, <2>5, <2>6 DEF WereRight
  <2> QED BY <2>1, <2>7, RightlySame
<1>2. CASE NetReceives(t)
  <2>1. /\ toServer # << >>
        /\ toServer' = Tail(toServer)
        /\ \/ net' = net
           \/ net' = [net EXCEPT ![t] = Busy("queue", Head(toServer).msg)]
        /\ srv' = srv \/ srv' = Received(Head(toServer), srv)
        /\ sOpen' => sOpen
        /\ UNCHANGED <<toClient, cOpen, sStatus, cStatus, cli, sendq, recvq,
                       handler, refresher, core, user, made>>
    BY <1>2 DEF NetReceives, client
  <2>2. PICK p \in ToServer : p = Head(toServer) /\ p \in Range(toServer) /\ p.msg \in FromClient
    BY <2>1, Firsts
  <2>3. UNCHANGED <<srv.mode, srv.key, srv.tmp, srv.changekeys>>
    BY <2>1 DEF Types, ServerEnds, Received
  <2>4. ToServerRight(p.msg, "authenticated")
    BY <1>0, <2>2 DEF OnTheWay
  <2>5. PICK j \in NetJobs : j = Busy("queue", p.msg) /\ j.at = "queue" /\ j.msg = p.msg
    BY <2>2, BusyFacts, NetFacts
  <2>6. (net'[t] = net[t] \/ net'[t] = j) /\ \A u \in NetThreads : u # t => net'[u] = net[u]
    BY <2>1, <2>2, <2>5, NetFacts
  <2>7. Range(toServer') \subseteq Range(toServer)
    BY <2>1, RangeFacts
  <2>8. WereRight
    BY <2>1, <2>4, <2>5, <2>6, <2>7 DEF WereRight
  <2> QED BY <2>1, <2>3, <2>8, RightlySame
<1>3. CASE NetQueues(t)
  <2>1. /\ net[t].at = "queue"
        /\ recvq' = Append(recvq, net[t].msg)
        /\ net' = [net EXCEPT ![t] = Idle]
        /\ UNCHANGED <<toClient, toServer, sOpen, cOpen, sStatus, cStatus, srv, cli, sendq,
                       handler, refresher, core, user, made>>
    BY <1>3 DEF NetQueues, wires, client
  <2>2. PICK m \in FromClient : m = net[t].msg
    BY <2>1, NetFacts
  <2>3. ToServerRight(m, "authenticated")
    BY <1>0, <2>1, <2>2 DEF OnTheWay
  <2>4. Range(recvq') = Range(recvq) \cup {m}
    BY <2>1, <2>2, RangeFacts
  <2>5. net'[t].at = "idle" /\ \A u \in NetThreads : u # t => net'[u] = net[u]
    BY <2>1, NetFacts, IdleIs
  <2>6. WereRight
    BY <2>1, <2>3, <2>4, <2>5 DEF WereRight
  <2> QED BY <2>1, <2>6, RightlySame
<1>4. CASE NetSends(t)
  <2>1. /\ net[t].at = "send"
        /\ ServerSends(net[t].msg)
        /\ net' = [net EXCEPT ![t] = Idle]
        /\ UNCHANGED <<toServer, sOpen, cOpen, sStatus, cStatus, cli, sendq, recvq,
                       handler, refresher, core, user, made>>
    BY <1>4 DEF NetSends, client
  <2>2. PICK m \in FromServer : m = net[t].msg /\ m.op # "refresh"
    BY <2>1, NetFacts, QueuedMessages
  <2>3. ServerSends(m) /\ ~ Rekeys(m)
    BY <2>1, <2>2 DEF Rekeys
  <2>4. ToClientRight(m)
    BY <1>0, <2>1, <2>2 DEF OnTheWay
  <2>5. /\ UNCHANGED <<srv.key, srv.tmp, srv.changekeys>>
        /\ srv'.mode = srv.mode \/ srv.mode = "none"
    BY <2>3, SentMode
  <2>6. \A p \in Range(toClient') : p \in Range(toClient) \/ p.msg = m
    BY <2>3, SentRange
  <2>7. net'[t].at = "idle" /\ \A u \in NetThreads : u # t => net'[u] = net[u]
    BY <2>1, NetFacts, IdleIs
  <2>8. WereRight
    BY <2>1, <2>4, <2>6, <2>7 DEF WereRight
  <2> QED BY <2>1, <2>5, <2>8, RightlySame
<1> QED BY <1>1, <1>2, <1>3, <1>4

LEMMA RightlySends ==
  ASSUME Types, Known, Rightly, Phases,
         \/ SendAccept \/ SendTest \/ SendReject \/ SendNewKey
         \/ HandleMessage \/ Tell \/ LoginTimeout \/ ServerHearsClose
  PROVE  Rightly'
<1>0. OnTheWay /\ AtWorkRight
  BY DEF Rightly
<1>1. CASE SendAccept
  <2>1. /\ handler.at = "accept"
        /\ ServerSends(Message("accept", srv.key))
        /\ handler' = [handler EXCEPT !.at = "combine"]
        /\ UNCHANGED <<toServer, sOpen, cOpen, sStatus, cStatus, cli, sendq, recvq, net,
                       refresher, core, user, made>>
    BY <1>1 DEF SendAccept, client
  <2>2. PICK m \in FromServer : /\ m = Message("accept", srv.key) /\ m.op = "accept"
                                /\ m.half = srv.key
    BY <2>1, LoginMessages DEF Known
  <2>3. ServerSends(m) /\ ~ Rekeys(m)
    BY <2>1, <2>2 DEF Rekeys
  <2>4. /\ sStatus = "step2" /\ cStatus = "step1" /\ srv.mode = "hyb"
        /\ handler.msg.half = cli.key
    BY <1>0, <2>1 DEF AtWorkRight
  <2>5. UNCHANGED <<srv.mode, srv.key, srv.tmp, srv.changekeys>>
    BY <2>3, <2>4, SentMode
  <2>6. handler'.at = "combine" /\ handler'.msg = handler.msg
    BY <2>1, IdleIs DEF Types, HandlerJobs
  <2>7. ToClientRight(m)'
    BY <2>1, <2>2, <2>4, <2>5, <2>6 DEF ToClientRight, RightAccept
  <2>8. \A p \in Range(toClient') : p \in Range(toClient) \/ p.msg = m
    BY <2>3, SentRange
  <2>9. WereRight
    BY <2>1, <2>7, <2>8 DEF WereRight
  <2>10. OnTheWay'
    BY <1>0, <2>1, <2>5, <2>9, OnTheWaySame
  <2>11. refresher'.at = "idle"
    BY <2>1, <2>4, JobFacts DEF Known
  <2>12. AtWorkRight'
    BY <2>1, <2>4, <2>5, <2>6, <2>11 DEF AtWorkRight
  <2> QED BY <2>10, <2>12 DEF Rightly
<1>2. CASE SendTest
  <2>1. /\ handler.at = "test"
        /\ ServerSends(Message("test", {}))
        /\ handler' = Idle
        /\ UNCHANGED <<toServer, sOpen, cOpen, sStatus, cStatus, cli, sendq, recvq, net,
                       refresher, core, user, made>>
    BY <1>2 DEF SendTest, client
  <2>2. PICK m \in FromServer : m = Message("test", {}) /\ m.op = "test"
    BY LoginMessages
  <2>3. ServerSends(m) /\ ~ Rekeys(m)
    BY <2>1, <2>2 DEF Rekeys
  <2>4. ToClientRight(m)
    BY <1>0, <2>1, <2>2 DEF AtWorkRight, ToClientRight
  <2>5. /\ UNCHANGED <<srv.key, srv.tmp, srv.changekeys>>
        /\ srv'.mode = srv.mode \/ srv.mode = "none"
    BY <2>3, SentMode
  <2>6. \A p \in Range(toClient') : p \in Range(toClient) \/ p.msg = m
    BY <2>3, SentRange
  <2>7. WereRight
    BY <2>1, <2>4, <2>6 DEF WereRight
  <2> QED BY <2>1, <2>5, <2>7, IdleIs, RightlySame
<1>3. CASE SendReject
  <2>1. /\ handler.at = "reject"
        /\ ServerSends(Message("reject", {}))
        /\ handler' = Idle /\ sOpen' = FALSE
        /\ UNCHANGED <<toServer, cOpen, sStatus, cStatus, cli, sendq, recvq, net,
                       refresher, core, user, made>>
    BY <1>3 DEF SendReject, client
  <2>2. PICK m \in FromServer : m = Message("reject", {}) /\ m.op = "reject"
    BY LoginMessages
  <2>3. ServerSends(m) /\ ~ Rekeys(m)
    BY <2>1, <2>2 DEF Rekeys
  <2>4. sStatus = "rejected" /\ cStatus = "step1" /\ srv.mode = "hyb"
    BY <1>0, <2>1 DEF AtWorkRight
  <2>5. UNCHANGED <<srv.mode, srv.key, srv.tmp, srv.changekeys>>
    BY <2>3, <2>4, SentMode
  <2>6. ToClientRight(m)'
    BY <2>1, <2>2, <2>4, <2>5 DEF ToClientRight
  <2>7. \A p \in Range(toClient') : p \in Range(toClient) \/ p.msg = m
    BY <2>3, SentRange
  <2>8. WereRight
    BY <2>1, <2>6, <2>7 DEF WereRight
  <2> QED BY <2>1, <2>5, <2>8, IdleIs, RightlySame
<1>4. CASE SendNewKey
  <2>1. /\ refresher.at = "send" /\ refresher' = Idle
        /\ ServerSends(refresher.msg)
        /\ UNCHANGED <<toServer, sOpen, cOpen, sStatus, cStatus, cli, sendq, recvq, net,
                       handler, core, user, made>>
    BY <1>4 DEF SendNewKey, client
  <2>2. PICK m \in FromServer : m = refresher.msg /\ m.op = "refresh" /\ m.half \in ServerHalves
    BY <2>1, JobFacts
  <2>3. Auth /\ Agree /\ srv.changekeys = 0 /\ m.half = srv.tmp /\ m.half # {}
    BY <1>0, <2>1, <2>2 DEF AtWorkRight
  <2>4. ServerSends(m) /\ ~ Rekeys(m)
    BY <2>1, <2>2, <2>3 DEF Rekeys
  <2>5. ToClientRight(m)
    BY <2>2, <2>3 DEF ToClientRight
  <2>6. /\ UNCHANGED <<srv.key, srv.tmp, srv.changekeys>>
        /\ srv'.mode = srv.mode \/ srv.mode = "none"
    BY <2>4, SentMode
  <2>7. \A p \in Range(toClient') : p \in Range(toClient) \/ p.msg = m
    BY <2>4, SentRange
  <2>8. WereRight
    BY <2>1, <2>5, <2>7 DEF WereRight
  <2> QED BY <2>1, <2>6, <2>8, IdleIs, RightlySame
<1>5. ASSUME sStatus = "authenticated"
      PROVE  ToClientRight(Message("message", {})) /\ Message("message", {}) \in Queued
  BY <1>5 DEF Message, ToClientRight, Auth, Known, Queued
<1>6. CASE HandleMessage
  <2>1. /\ recvq' = Tail(recvq) /\ recvq # << >>
        /\ \/ sendq' = sendq
           \/ sStatus = "authenticated" /\ sendq' = Append(sendq, Message("message", {}))
        /\ UNCHANGED <<toClient, toServer, sOpen, cOpen, sStatus, cStatus, srv, cli, net,
                       handler, refresher, core, user, made>>
    BY <1>6 DEF HandleMessage, Takes, wires, client
  <2>2. Range(recvq') \subseteq Range(recvq)
    BY <2>1, RangeFacts
  <2>3. \A m \in Range(sendq') : m \in Range(sendq) \/ ToClientRight(m)
    <3>1. CASE sendq' = sendq
      BY <3>1
    <3>2. CASE sStatus = "authenticated" /\ sendq' = Append(sendq, Message("message", {}))
      <4>1. Range(sendq') = Range(sendq) \cup {Message("message", {})}
        BY <1>5, <3>2, RangeFacts
      <4> QED BY <1>5, <3>2, <4>1
    <3> QED BY <2>1, <3>1, <3>2
  <2>4. WereRight
    BY <2>1, <2>2, <2>3 DEF WereRight
  <2> QED BY <2>1, <2>4, RightlySame
<1>7. CASE Tell
  <2>1. /\ sStatus = "authenticated" /\ sendq' = Append(sendq, Message("message", {}))
        /\ UNCHANGED <<toClient, toServer, sOpen, cOpen, sStatus, cStatus, srv, cli, recvq, net,
                       handler, refresher, core, user>>
    BY <1>7 DEF Tell, wires, client
  <2>2. \A m \in Range(sendq') : m \in Range(sendq) \/ ToClientRight(m)
    BY <1>5, <2>1, RangeFacts
  <2>3. WereRight
    BY <2>1, <2>2 DEF WereRight
  <2> QED BY <2>1, <2>3, RightlySame
<1>8. CASE LoginTimeout
  <2>1. /\ sStatus \in {"step1", "step2"} /\ handler.at = "idle"
        /\ sStatus' = "rejected" /\ sOpen' = FALSE
        /\ UNCHANGED <<toClient, toServer, cOpen, cStatus, srv, cli, sendq, recvq, net,
                       handler, refresher, core, user, made>>
    BY <1>8 DEF LoginTimeout, wires, client
  <2>2. WereRight
    BY <2>1 DEF WereRight
  <2>3. OnTheWay'
    BY <1>0, <2>1, <2>2, OnTheWaySame
  <2>4. refresher.at = "idle"
    BY <2>1 DEF Known
  <2>5. AtWorkRight'
    BY <2>1, <2>4 DEF AtWorkRight
  <2> QED BY <2>3, <2>5 DEF Rightly
<1>9. CASE ServerHearsClose
  <2>1. /\ sOpen' = FALSE
        /\ UNCHANGED <<toClient, toServer, cOpen, sStatus, cStatus, srv, cli, sendq, recvq, net,
                       handler, refresher, core, user, made>>
    BY <1>9 DEF ServerHearsClose, wires, client
  <2>2. WereRight
    BY <2>1 DEF WereRight
  <2> QED BY <2>1, <2>2, RightlySame
<1> QED BY <1>1, <1>2, <1>3, <1>4, <1>6, <1>7, <1>8, <1>9

\* Steps of the one whose turn it is: nothing else that is on its way belongs to the turn.
LEMMA Plain ==
  ASSUME Types
  PROVE  /\ ~ TurnIn(sendq) => \A m \in Range(sendq) : ~ IsTurn(m)
         /\ ~ TurnIn(recvq) => \A m \in Range(recvq) : ~ IsTurn(m)
         /\ ~ TurnOn(toClient) => \A p \in Range(toClient) : ~ IsTurn(p.msg)
         /\ ~ TurnOn(toServer) => \A p \in Range(toServer) : ~ IsTurn(p.msg)
         /\ ~ TurnNet => \A t \in NetThreads : ~ OnNet(t)
<1>1. /\ \A m \in Range(sendq) : m \in FromServer
      /\ \A m \in Range(recvq) : m \in FromClient
      /\ \A p \in Range(toClient) : p \in ToClient
      /\ \A p \in Range(toServer) : p \in ToServer
  BY Members, QueuedMessages
<1> QED BY <1>1 DEF TurnIn, TurnOn, TurnNet, Turns, TurnPackets

\* Around a step of the turn, messages of other users and an unread accept are all that
\* is not a position.
AlonePlain ==
    /\ \A m \in Range(sendq') : (m \in Range(sendq) /\ ~ IsTurn(m)) \/ ToClientRight(m)'
    /\ \A p \in Range(toClient') :
         (p \in Range(toClient) /\ ~ IsTurn(p.msg)) \/ ToClientRight(p.msg)'
    /\ \A m \in Range(recvq') : ~ IsTurn(m)
    /\ \A p \in Range(toServer') : ~ IsTurn(p.msg) \/ ToServerRight(p.msg, "authenticated")'
    /\ \A t \in NetThreads : net'[t] = net[t] /\ ~ OnNet(t)
    /\ core'.at = "idle" \/ ToServerRight(core.msg, "step2")'

LEMMA Alone ==
  ASSUME Types, Types', OnTheWay, AlonePlain,
         Auth => Auth',
         \A p \in Range(toClient') : p \in Range(toClient) /\ p.msg.op = "accept" =>
            (RightAccept(p.msg.half) => RightAccept(p.msg.half)')
  PROVE  OnTheWay'
<1>1. ASSUME NEW m, m.op = "position" PROVE ToClientRight(m)'
  BY <1>1 DEF ToClientRight
<1>2. ASSUME NEW m, m.op = "message", ToClientRight(m) PROVE ToClientRight(m)'
  BY <1>2 DEF ToClientRight
<1>3. ASSUME NEW m, NEW a, ~ IsTurn(m) PROVE ToServerRight(m, a)'
  BY <1>3 DEF IsTurn, ToServerRight
<1>4. ASSUME NEW m \in Range(sendq') PROVE ToClientRight(m)'
  <2>1. CASE m \in Range(sendq) /\ ~ IsTurn(m)
    <3>1. m.op \in {"position", "message"}
      BY <2>1, Members, QueuedMessages DEF IsTurn
    <3>2. ToClientRight(m)
      BY <2>1 DEF OnTheWay
    <3> QED BY <1>1, <1>2, <3>1, <3>2
  <2> QED BY <1>4, <2>1 DEF AlonePlain
<1>5. ASSUME NEW p \in Range(toClient') PROVE ToClientRight(p.msg)'
  <2>1. CASE p \in Range(toClient) /\ ~ IsTurn(p.msg)
    <3>1. PICK m : m = p.msg
      OBVIOUS
    <3>2. m.op \in {"position", "message", "accept"}
      BY <2>1, <3>1, Members, ToClientMessages DEF IsTurn
    <3>3. ToClientRight(m)
      BY <2>1, <3>1 DEF OnTheWay
    <3>4. CASE m.op = "accept"
      <4>1. RightAccept(m.half)
        BY <3>3, <3>4 DEF ToClientRight
      <4>2. RightAccept(m.half)'
        BY <1>5, <2>1, <3>1, <3>4, <4>1
      <4> QED BY <3>1, <3>4, <4>2 DEF ToClientRight
    <3> QED BY <1>1, <1>2, <3>1, <3>2, <3>3, <3>4
  <2> QED BY <1>5, <2>1 DEF AlonePlain
<1>6. ASSUME NEW m \in Range(recvq') PROVE ToServerRight(m, "authenticated")'
  BY <1>3, <1>6 DEF AlonePlain
<1>7. ASSUME NEW p \in Range(toServer') PROVE ToServerRight(p.msg, "authenticated")'
  <2>1. PICK m : m = p.msg
    OBVIOUS
  <2>2. ~ IsTurn(m) \/ ToServerRight(m, "authenticated")'
    BY <1>7, <2>1 DEF AlonePlain
  <2> QED BY <1>3, <2>1, <2>2
<1>8. ASSUME NEW t \in NetThreads
      PROVE  /\ net'[t].at = "send" => ToClientRight(net[t].msg)'
             /\ net'[t].at = "queue" => ToServerRight(net[t].msg, "authenticated")'
  <2>1. PICK m : m = net[t].msg
    OBVIOUS
  <2>2. net'[t] = net[t] /\ ~ OnNet(t)
    BY DEF AlonePlain
  <2>3. net[t].at # "idle" => ~ IsTurn(m)
    BY <2>1, <2>2 DEF OnNet
  <2>4. ASSUME net[t].at = "send" PROVE ToClientRight(m)'
    <3>1. m.op \in {"position", "message"}
      BY <2>1, <2>3, <2>4, NetFacts, QueuedMessages DEF IsTurn
    <3>2. ToClientRight(m)
      BY <2>1, <2>4 DEF OnTheWay
    <3> QED BY <1>1, <1>2, <3>1, <3>2
  <2>5. ASSUME net[t].at = "queue" PROVE ToServerRight(m, "authenticated")'
    BY <1>3, <2>3, <2>5
  <2> QED BY <2>1, <2>2, <2>4, <2>5
<1>9. core'.at = "send" => ToServerRight(core.msg, "step2")'
  BY DEF AlonePlain
<1> QED BY <1>4, <1>5, <1>6, <1>7, <1>8, <1>9 DEF OnTheWay

LEMMA Holder ==
  ASSUME Types, OneTurn
  PROVE  /\ (handler.at # "idle" \/ refresher.at # "idle" \/ core.at # "idle") =>
              /\ ~ TurnIn(sendq) /\ ~ TurnIn(recvq) /\ ~ TurnOn(toClient) /\ ~ TurnOn(toServer)
              /\ ~ TurnNet
         /\ handler.at # "idle" => refresher.at = "idle" /\ core.at = "idle"
         /\ refresher.at # "idle" => handler.at = "idle" /\ core.at = "idle"
         /\ core.at # "idle" => handler.at = "idle" /\ refresher.at = "idle"
         /\ TurnIn(recvq) =>
              /\ ~ TurnIn(sendq) /\ ~ TurnOn(toClient) /\ ~ TurnOn(toServer) /\ ~ TurnNet
              /\ handler.at = "idle" /\ refresher.at = "idle" /\ core.at = "idle"
         /\ TurnOn(toClient) =>
              /\ ~ TurnIn(sendq) /\ ~ TurnIn(recvq) /\ ~ TurnOn(toServer) /\ ~ TurnNet
              /\ handler.at = "idle" /\ refresher.at = "idle" /\ core.at = "idle"
BY DEF OneTurn, Count

\* A handler of the turn takes its packet.
LEMMA TakesAlone ==
  ASSUME Types, OneTurn, OnTheWay, NEW op, op # "message", Takes(op)
  PROVE  /\ Head(recvq) \in FromClient /\ Head(recvq).op = op
         /\ ToServerRight(Head(recvq), "authenticated")
         /\ \A m \in Range(sendq) : ~ IsTurn(m)
         /\ \A m \in Range(recvq') : ~ IsTurn(m)
         /\ \A p \in Range(toClient) : ~ IsTurn(p.msg)
         /\ \A p \in Range(toServer) : ~ IsTurn(p.msg)
         /\ \A t \in NetThreads : ~ OnNet(t)
         /\ handler.at = "idle" /\ refresher.at = "idle" /\ core.at = "idle"
<1>1. /\ recvq # << >> /\ recvq' = Tail(recvq) /\ Head(recvq) \in FromClient
      /\ Head(recvq).op = op /\ Head(recvq) \in Range(recvq)
  BY TakesFacts
<1>2. TurnIn(recvq) /\ ~ TurnIn(recvq')
  BY TakesTurn
<1>3. \A m \in Range(recvq') : m \in FromClient
  BY <1>1, RangeFacts, Members
<1>4. \A m \in Range(recvq') : ~ IsTurn(m)
  BY <1>2, <1>3 DEF TurnIn, Turns
<1> QED BY <1>1, <1>2, <1>4, Holder, Plain DEF OnTheWay

LEMMA RightlyLogin ==
  ASSUME Types, Types', OneTurn, Known, Rightly, Phases,
         LoginStarts \/ HandleRequest \/ CombineKeys \/ HandleAnswer
  PROVE  Rightly'
<1>0. OnTheWay /\ AtWorkRight
  BY DEF Rightly
<1>1. CASE LoginStarts
  <2>1. /\ sStatus = "connected" /\ sStatus' = "step1"
        /\ sendq' = Append(sendq, Message("nonce", {}))
        /\ UNCHANGED <<toClient, toServer, cStatus, cli, recvq, net, handler, refresher, core>>
    BY <1>1 DEF LoginStarts, wires, client
  <2>2. Resting
    BY <2>1, Rest
  <2>3. cStatus = "connected"
    BY <2>1 DEF Phases, Types, LoginStates
  <2>4. PICK m \in Queued : m = Message("nonce", {}) /\ m.op = "nonce"
    BY DEF Queued, Message
  <2>5. ToClientRight(m)'
    BY <2>1, <2>3, <2>4 DEF ToClientRight
  <2>6. \A x \in Range(sendq') : x \in Range(sendq) \/ x = m
    BY <2>1, <2>4, RangeFacts
  <2>7. AlonePlain
    BY <2>1, <2>2, <2>5, <2>6, Plain DEF AlonePlain, Resting
  <2>8. OnTheWay'
    BY <1>0, <2>1, <2>7, Alone DEF Auth, RightAccept
  <2>9. AtWorkRight'
    BY <2>1, <2>2 DEF AtWorkRight, Resting
  <2> QED BY <2>8, <2>9 DEF Rightly
<1>2. CASE HandleRequest
  <2>1. /\ Takes("request") /\ sStatus = "step1"
        /\ UNCHANGED <<toClient, toServer, cStatus, cli, sendq, net, refresher, core>>
        /\ \/ /\ sStatus' = "step2"
              /\ srv' = [srv EXCEPT !.key = ServerHalf(made.server + 1)]
              /\ handler' = Busy("accept", Head(recvq))
           \/ /\ sStatus' = "rejected"
              /\ handler' = Busy("reject", Head(recvq))
              /\ UNCHANGED srv
    BY <1>2 DEF HandleRequest, wires, client
  <2>2. PICK m \in FromClient : m = Head(recvq) /\ m.op = "request"
                                /\ ToServerRight(m, "authenticated")
    BY <1>0, <2>1, TakesAlone
  <2>3. cStatus = "step1" /\ m.half = cli.key /\ srv.mode = "hyb"
    BY <2>2 DEF ToServerRight
  <2>4. AlonePlain
    BY <1>0, <2>1, TakesAlone DEF AlonePlain
  <2>5. OnTheWay'
    BY <1>0, <2>1, <2>4, Alone DEF Auth, RightAccept
  <2>6. srv'.mode = srv.mode
    BY <2>1 DEF Types, ServerEnds
  <2>7. handler'.at \in {"accept", "reject"} /\ handler'.msg = m
        /\ (handler'.at = "accept" => sStatus' = "step2")
        /\ (handler'.at = "reject" => sStatus' = "rejected")
    BY <2>1, <2>2, BusyFacts
  <2>8. refresher'.at = "idle"
    BY <1>0, <2>1, TakesAlone
  <2>9. AtWorkRight'
    BY <2>1, <2>3, <2>6, <2>7, <2>8 DEF AtWorkRight
  <2> QED BY <2>5, <2>9 DEF Rightly
<1>3. CASE CombineKeys
  <2>1. /\ handler.at = "combine"
        /\ srv' = Rekeyed(srv, Xor(srv.key, handler.msg.half))
        /\ handler' = [handler EXCEPT !.at = "test"]
        /\ UNCHANGED <<toClient, toServer, sStatus, cStatus, cli, sendq, recvq, net, refresher, core>>
    BY <1>3 DEF CombineKeys, wires, client
  <2>2. /\ sStatus = "step2" /\ srv.mode = "hyb"
        /\ \/ cStatus = "step1" /\ handler.msg.half = cli.key
           \/ /\ cStatus = "step2" /\ cli.mode = "aes"
              /\ cli.key = Xor(srv.key, handler.msg.half)
    BY <1>0, <2>1 DEF AtWorkRight
  <2>3. srv'.mode = "aes" /\ srv'.key = Xor(srv.key, handler.msg.half)
    BY <2>1 DEF Rekeyed, Types, ServerEnds
  <2>4. handler'.at = "test"
    BY <2>1 DEF Types, HandlerJobs, Idle
  <2>5. AlonePlain
    BY <2>1, Holder, Plain DEF AlonePlain
  <2>6. ASSUME NEW h, RightAccept(h) PROVE RightAccept(h)'
    <3>1. h = srv.key /\ handler.msg.half = cli.key
      BY <2>2, <2>6 DEF RightAccept
    <3>2. Xor(cli.key, h) = Xor(srv.key, handler.msg.half)
      BY <3>1 DEF Xor
    <3> QED BY <2>1, <2>3, <2>6, <3>2 DEF RightAccept
  <2>7. OnTheWay'
    BY <1>0, <2>1, <2>5, <2>6, Alone DEF Auth
  <2>8. refresher'.at = "idle"
    BY <2>1, Holder
  <2>9. AtWorkRight'
    BY <2>1, <2>2, <2>3, <2>4, <2>8 DEF AtWorkRight, Agree
  <2> QED BY <2>7, <2>9 DEF Rightly
<1>4. CASE HandleAnswer
  <2>1. /\ Takes("answer") /\ sStatus = "step2"
        /\ UNCHANGED <<toClient, toServer, cStatus, srv, cli, sendq, net, handler, refresher, core>>
    BY <1>4 DEF HandleAnswer, wires, client
  <2>2. PICK m \in FromClient : m = Head(recvq) /\ m.op = "answer"
                                /\ ToServerRight(m, "authenticated")
    BY <1>0, <2>1, TakesAlone
  <2>3. cStatus = "authenticated"
    BY <2>2 DEF ToServerRight
  <2>4. AlonePlain
    BY <1>0, <2>1, TakesAlone DEF AlonePlain
  <2>5. OnTheWay'
    BY <1>0, <2>1, <2>3, <2>4, Alone DEF Auth, RightAccept
  <2>6. handler'.at = "idle" /\ refresher'.at = "idle"
    BY <1>0, <2>1, TakesAlone
  <2>7. AtWorkRight'
    BY <2>6 DEF AtWorkRight
  <2> QED BY <2>5, <2>7 DEF Rightly
<1> QED BY <1>1, <1>2, <1>3, <1>4

LEMMA RightlyRefresh ==
  ASSUME Types, Types', OneTurn, Known, Rightly, Phases,
         (GenerateNewKey /\ ~ made'.overlap) \/ HandleRefreshKey \/ AnnounceNewKey
  PROVE  Rightly'
<1>0. OnTheWay /\ AtWorkRight /\ srv \in ServerEnds
  BY DEF Rightly, Types
<1>1. CASE GenerateNewKey /\ ~ made'.overlap
  <2>1. /\ sStatus = "authenticated" /\ made.server <= MaxRefreshes
        /\ made' = [made EXCEPT !.server = @ + 1, !.overlap = @ \/ Exchanging]
        /\ srv' = [srv EXCEPT !.tmp = ServerHalf(made.server + 1), !.changekeys = 0]
        /\ refresher' = Busy("send", Message("refresh", ServerHalf(made.server + 1)))
        /\ UNCHANGED <<toClient, toServer, sOpen, cOpen, sStatus, cStatus, cli, sendq, recvq,
                       net, handler, core, user>>
    BY <1>1 DEF GenerateNewKey, wires, client
  <2>2. ~ Exchanging
    BY <1>1, <2>1 DEF Types, Mades
  <2>3. Resting
    BY <2>1, <2>2, Rest
  <2>4. AlonePlain
    BY <2>1, <2>3, Plain DEF AlonePlain, Resting
  <2>5. OnTheWay'
    BY <1>0, <2>1, <2>4, Alone DEF Auth, RightAccept
  <2>6. Auth /\ cli.mode = "aes" /\ srv.mode = "aes"
    BY <2>1 DEF Auth, Known, Phases
  <2>7. \A p \in Range(toClient) : p.msg # NewKey
    BY <2>3, Plain DEF Resting, IsTurn, NewKey, Message
  <2>8. Agree
    BY <2>6, <2>7 DEF Phases, Auth
  <2>9. PICK h : h = ServerHalf(made.server + 1)
    OBVIOUS
  <2>10. h # {}
    BY <2>9 DEF ServerHalf
  <2>11. UNCHANGED <<srv.mode, srv.key>> /\ srv'.tmp = h /\ srv'.changekeys = 0
    BY <1>0, <2>1, <2>9 DEF ServerEnds
  <2>12. refresher'.at = "send" /\ refresher'.msg.half = h
    BY <2>1, <2>9 DEF Busy, Message
  <2>13. handler'.at = "idle"
    BY <2>1, <2>3 DEF Resting
  <2>14. Auth' /\ Agree'
    BY <2>1, <2>6, <2>8, <2>11 DEF Auth, Agree
  <2>15. AtWorkRight'
    BY <2>10, <2>11, <2>12, <2>13, <2>14 DEF AtWorkRight
  <2> QED BY <2>5, <2>15 DEF Rightly
<1>2. CASE HandleRefreshKey
  <2>1. /\ Takes("refresh")
        /\ UNCHANGED <<toClient, toServer, sOpen, cOpen, sStatus, cStatus, cli, sendq, net,
                       refresher, core, user, made>>
    BY <1>2 DEF HandleRefreshKey, wires, client
  <2>2. PICK m \in FromClient : m = Head(recvq) /\ m.op = "refresh"
                                /\ ToServerRight(m, "authenticated")
    BY <1>0, <2>1, TakesAlone
  <2>3. /\ Auth /\ Agree /\ srv.changekeys = 0 /\ srv.tmp # {}
        /\ Xor(m.half, srv.tmp) = cli.tmp
    BY <2>2 DEF ToServerRight
  <2>4. /\ srv' = [srv EXCEPT !.tmp = Xor(srv.tmp, m.half), !.changekeys = 1]
        /\ handler' = Busy("announce", NewKey)
    BY <1>2, <2>2, <2>3 DEF HandleRefreshKey, NewKey
  <2>5. Xor(srv.tmp, m.half) = cli.tmp
    BY <2>3 DEF Xor
  <2>6. UNCHANGED <<srv.mode, srv.key>> /\ srv'.tmp = cli.tmp /\ srv'.changekeys = 1
    BY <1>0, <2>4, <2>5 DEF ServerEnds
  <2>7. AlonePlain
    BY <1>0, <2>1, TakesAlone DEF AlonePlain
  <2>8. OnTheWay'
    BY <1>0, <2>1, <2>3, <2>7, Alone DEF Auth, RightAccept
  <2>9. handler'.at = "announce" /\ refresher'.at = "idle"
    BY <1>0, <2>1, <2>4, TakesAlone, BusyFacts
  <2>10. Auth' /\ Agree'
    BY <2>1, <2>3, <2>6 DEF Auth, Agree
  <2>11. AtWorkRight'
    BY <2>1, <2>6, <2>9, <2>10 DEF AtWorkRight
  <2> QED BY <2>8, <2>11 DEF Rightly
<1>3. CASE AnnounceNewKey
  <2>1. /\ handler.at = "announce"
        /\ ServerSends(handler.msg)
        /\ handler' = Idle
        /\ UNCHANGED <<toServer, sOpen, cOpen, sStatus, cStatus, cli, sendq, recvq, net,
                       refresher, core, user, made>>
    BY <1>3 DEF AnnounceNewKey, client
  <2>2. PICK m \in FromServer : m = handler.msg /\ m = NewKey /\ m.op = "refresh" /\ m.half = {}
    BY <2>1, JobFacts DEF FromServer, NewKey, Message
  <2>3. ServerSends(m)
    BY <2>1, <2>2
  <2>4. Auth /\ Agree /\ srv.changekeys = 1 /\ srv.tmp = cli.tmp
    BY <1>0, <2>1 DEF AtWorkRight
  <2>5. srv.tmp # srv.key
    <3>1. PICK a \in srv.tmp : a[1] = "server"
      BY <2>4 DEF Known, Theirs
    <3>2. a \in Halves
      BY <1>0, <3>1 DEF ServerEnds, Keys
    <3>3. a[2] \in Int
      BY <3>1, <3>2, Bounds DEF Halves
    <3>4. a \in srv.key => a[2] < a[2]
      BY <2>4, <3>1 DEF Known, Younger
    <3> QED BY <3>1, <3>3, <3>4
  <2>6. \A p \in Range(toClient') : p \in Range(toClient) \/ (sOpen /\ p.msg = m)
    BY <2>3, SentRange
  <2>7. sOpen => srv'.key = srv.tmp /\ srv'.mode = "aes"
    BY <2>2, <2>3, <2>4, SendFacts DEF SentState, Rekeys
  <2>8. sOpen => ToClientRight(m)'
    BY <2>1, <2>2, <2>4, <2>5, <2>7 DEF ToClientRight, Auth, Agree
  <2>9. AlonePlain
    <3>1. \A p \in Range(toClient') :
            (p \in Range(toClient) /\ ~ IsTurn(p.msg)) \/ ToClientRight(p.msg)'
      BY <2>1, <2>6, <2>8, Holder, Plain
    <3> QED BY <2>1, <3>1, Holder, Plain DEF AlonePlain
  <2>10. OnTheWay'
    BY <1>0, <2>1, <2>4, <2>9, Alone DEF Auth, RightAccept
  <2>11. AtWorkRight'
    BY <2>1, Holder, IdleIs DEF AtWorkRight
  <2> QED BY <2>10, <2>11 DEF Rightly
<1> QED BY <1>1, <1>2, <1>3

\* A handler of the client takes its packet.
LEMMA GetsAlone ==
  ASSUME Types, OneTurn, OnTheWay, NEW op, Gets(op),
         op \in {"nonce", "reject", "test", "refresh"}
  PROVE  /\ Head(toClient) \in ToClient /\ Head(toClient).msg.op = op
         /\ Head(toClient).msg \in FromServer
         /\ ToClientRight(Head(toClient).msg)
         /\ \A m \in Range(sendq) : ~ IsTurn(m)
         /\ \A m \in Range(recvq) : ~ IsTurn(m)
         /\ \A p \in Range(toClient') : p \in Range(toClient) /\ ~ IsTurn(p.msg)
         /\ \A p \in Range(toServer) : ~ IsTurn(p.msg)
         /\ \A t \in NetThreads : ~ OnNet(t)
         /\ handler.at = "idle" /\ refresher.at = "idle" /\ core.at = "idle"
<1>1. /\ toClient # << >> /\ toClient' = Tail(toClient) /\ Head(toClient) \in ToClient
      /\ Head(toClient).msg.op = op /\ Head(toClient) \in Range(toClient)
      /\ Head(toClient).msg \in FromServer
  BY GetsFacts
<1>2. IsTurn(Head(toClient).msg)
  BY <1>1 DEF IsTurn
<1>3. TurnOn(toClient) /\ ~ TurnOn(toClient')
  BY <1>1, <1>2, GetsTurn
<1>4. \A p \in Range(toClient') : p \in Range(toClient)
  BY <1>1, RangeFacts
<1>5. \A p \in Range(toClient') : ~ IsTurn(p.msg)
  BY <1>3, <1>4, Members DEF TurnOn, TurnPackets
<1> QED BY <1>1, <1>3, <1>4, <1>5, Holder, Plain DEF OnTheWay

LEMMA RightlyClientLogin ==
  ASSUME Types, Types', OneTurn, Known, Rightly, Phases,
         HandleNonce \/ HandleReject \/ HandleTest
  PROVE  Rightly'
<1>0. OnTheWay /\ AtWorkRight /\ cli \in ClientEnds
  BY DEF Rightly, Types
<1>1. CASE HandleNonce
  <2>1. /\ Gets("nonce") /\ cStatus = "connected" /\ cStatus' = "step1"
        /\ cli' = [cli EXCEPT !.mode = "hyb", !.key = ClientHalf(made.client + 1)]
        /\ core' = Prepares(Message("request", cli'.key), cli')
        /\ UNCHANGED <<toServer, sOpen, cOpen, sStatus, srv, sendq, recvq, net, handler,
                       refresher, user>>
    BY <1>1 DEF HandleNonce, server
  <2>2. PICK p \in Range(toClient) : p = Head(toClient) /\ p.msg.op = "nonce"
    BY <2>1, GetsFacts
  <2>3. sStatus \in {"step1", "rejected"} /\ srv.mode = "hyb"
    BY <1>0, <2>2 DEF OnTheWay, ToClientRight, Phases
  <2>4. core'.msg.op = "request" /\ core'.msg.half = cli'.key
    BY <2>1 DEF Prepares, Message
  <2>5. ToServerRight(core.msg, "step2")'
    BY <2>1, <2>3, <2>4 DEF ToServerRight
  <2>6. AlonePlain
    BY <1>0, <2>1, <2>5, GetsAlone DEF AlonePlain
  <2>7. OnTheWay'
    BY <1>0, <2>1, <2>6, Alone DEF Auth, RightAccept
  <2>8. AtWorkRight'
    BY <1>0, <2>1, GetsAlone DEF AtWorkRight
  <2> QED BY <2>7, <2>8 DEF Rightly
<1>2. CASE HandleReject
  <2>1. /\ Gets("reject") /\ cStatus = "step1" /\ cStatus' = "rejected"
        /\ UNCHANGED <<toServer, sOpen, sStatus, srv, cli, sendq, recvq, net, handler,
                       refresher, core, user, made>>
    BY <1>2 DEF HandleReject, server
  <2>2. PICK p \in Range(toClient) : p = Head(toClient) /\ p.msg.op = "reject"
    BY <2>1, GetsFacts
  <2>3. sStatus = "rejected" /\ srv.mode = "hyb"
    BY <1>0, <2>2 DEF OnTheWay, ToClientRight
  <2>4. handler.at = "idle" /\ refresher.at = "idle"
    BY <1>0, <2>1, GetsAlone
  <2>5. AlonePlain
    BY <1>0, <2>1, GetsAlone DEF AlonePlain
  <2>6. OnTheWay'
    BY <1>0, <2>1, <2>3, <2>4, <2>5, Alone DEF Auth, RightAccept
  <2>7. AtWorkRight'
    BY <2>1, <2>4 DEF AtWorkRight
  <2> QED BY <2>6, <2>7 DEF Rightly
<1>3. CASE HandleTest
  <2>1. /\ Gets("test") /\ cStatus = "step2"
        /\ cli' = Numbered(Received(Head(toClient), cli))
        /\ core' = Prepares(Message("answer", {}), cli)
        /\ UNCHANGED <<toServer, sOpen, cOpen, sStatus, cStatus, srv, sendq, recvq, net, handler,
                       refresher, user, made>>
    BY <1>3 DEF HandleTest, server
  <2>2. PICK p \in ToClient : p = Head(toClient) /\ p.msg.op = "test" /\ Accepts(p, cli)
                              /\ ToClientRight(p.msg)
    BY <1>0, <2>1, GetsAlone, GetsFacts
  <2>3. UNCHANGED <<cli.mode, cli.key, cli.tmp>>
    BY <2>1, <2>2, ReceivedFacts
  <2>4. sStatus \in {"step2", "rejected"} /\ Agree
    BY <2>1, <2>2 DEF ToClientRight
  <2>5. core'.msg.op = "answer"
    BY <2>1 DEF Prepares, Message
  <2>6. Agree'
    BY <2>1, <2>3, <2>4 DEF Agree
  <2>7. ToServerRight(core.msg, "step2")'
    BY <2>1, <2>4, <2>5, <2>6 DEF ToServerRight
  <2>8. AlonePlain
    BY <1>0, <2>1, <2>7, GetsAlone DEF AlonePlain
  <2>9. OnTheWay'
    BY <1>0, <2>1, <2>3, <2>8, Alone DEF Auth, RightAccept
  <2>10. AtWorkRight'
    BY <1>0, <2>1, GetsAlone DEF AtWorkRight
  <2> QED BY <2>9, <2>10 DEF Rightly
<1> QED BY <1>1, <1>2, <1>3

LEMMA RightlyAccept ==
  ASSUME Types, OneTurn, Known, Rightly, Phases, Once(toClient, Switches), HandleAccept
  PROVE  Rightly'
<1>0. OnTheWay /\ AtWorkRight /\ cli \in ClientEnds /\ toClient \in Seq(ToClient)
  BY DEF Rightly, Types
<1>1. /\ Gets("accept") /\ cStatus = "step1" /\ cStatus' = "step2"
      /\ cli' = Rekeyed(cli, Xor(cli.key, Half))
      /\ UNCHANGED <<toServer, sOpen, cOpen, sStatus, srv, sendq, recvq, net, handler,
                     refresher, core, user, made>>
  BY DEF HandleAccept, server
<1>2. PICK p \in ToClient : p = Head(toClient) /\ p.msg.op = "accept" /\ p \in Range(toClient)
  BY <1>1, GetsFacts
<1>3. PICK h : h = p.msg.half /\ h = Half
  BY <1>2 DEF Half
<1>4. RightAccept(h)
  BY <1>0, <1>2, <1>3 DEF OnTheWay, ToClientRight
<1>5. cli'.mode = "aes" /\ cli'.key = Xor(cli.key, h) /\ cli'.tmp = cli.tmp
  BY <1>0, <1>1, <1>3 DEF ClientEnds, Rekeyed
<1>6. /\ cli.mode = "hyb" /\ ~ Auth
      /\ \/ handler.at = "combine" /\ h = srv.key /\ handler.msg.half = cli.key
            /\ sStatus = "step2" /\ srv.mode = "hyb"
         \/ srv.mode = "aes" /\ Xor(cli.key, h) = srv.key
  BY <1>0, <1>1, <1>4 DEF RightAccept, AtWorkRight, Phases, Auth
<1>7. toClient # << >> /\ toClient' = Tail(toClient)
  BY <1>1, GetsFacts
<1>8. p \in Switches
  BY <1>2 DEF Switches, IsSwitch
<1>9. Range(toClient') \cap Switches = {} /\ Range(toClient') \subseteq Range(toClient)
  <2>1. Range(Tail(toClient)) \cap Switches = {}
    BY <1>0, <1>2, <1>7, <1>8, TailTurn
  <2> QED BY <1>7, <2>1, RangeFacts
<1>10. ASSUME NEW m, ToClientRight(m), m.op # "accept" PROVE ToClientRight(m)'
  <2>1. m.op = "test" => srv.mode = "aes" /\ sStatus \in {"step2", "rejected"}
    BY <1>10 DEF ToClientRight
  <2>2. srv.mode = "aes" => Agree'
    BY <1>1, <1>5, <1>6 DEF Agree
  <2> QED BY <1>1, <1>6, <1>10, <2>1, <2>2 DEF ToClientRight
<1>11. ASSUME NEW m, NEW a, ToServerRight(m, a) PROVE ToServerRight(m, a)'
  <2>1. ~ Agree
    BY <1>6 DEF Agree
  <2> QED BY <1>1, <1>6, <1>11, <2>1 DEF ToServerRight
<1>12. ASSUME NEW m \in Range(sendq') PROVE ToClientRight(m)'
  <2>1. m \in Range(sendq) /\ m.op # "accept"
    BY <1>1, <1>12, Members, QueuedMessages
  <2> QED BY <1>0, <1>10, <2>1 DEF OnTheWay
<1>13. ASSUME NEW q \in Range(toClient') PROVE ToClientRight(q.msg)'
  <2>1. PICK m : m = q.msg
    OBVIOUS
  <2>2. q \in Range(toClient) /\ m.op # "accept"
    BY <1>9, <1>13, <2>1, Members DEF Switches, IsSwitch
  <2>3. ToClientRight(m)
    BY <1>0, <2>1, <2>2 DEF OnTheWay
  <2> QED BY <1>10, <2>1, <2>2, <2>3
<1>14. ASSUME NEW t \in NetThreads
       PROVE  /\ net'[t].at = "send" => ToClientRight(net[t].msg)'
              /\ net'[t].at = "queue" => ToServerRight(net[t].msg, "authenticated")'
  <2>1. PICK m : m = net[t].msg
    OBVIOUS
  <2>2. ASSUME net[t].at = "send" PROVE ToClientRight(m)'
    <3>1. m.op # "accept"
      BY <2>1, <2>2, NetFacts, QueuedMessages
    <3> QED BY <1>0, <1>10, <2>1, <2>2, <3>1 DEF OnTheWay
  <2>3. ASSUME net[t].at = "queue" PROVE ToServerRight(m, "authenticated")'
    BY <1>0, <1>11, <2>1, <2>3 DEF OnTheWay
  <2> QED BY <1>1, <2>1, <2>2, <2>3
<1>15. OnTheWay'
  <2>1. \A m \in Range(recvq') : ToServerRight(m, "authenticated")'
    BY <1>0, <1>1, <1>11 DEF OnTheWay
  <2>2. ASSUME NEW q \in Range(toServer') PROVE ToServerRight(q.msg, "authenticated")'
    <3>1. PICK m : m = q.msg
      OBVIOUS
    <3>2. ToServerRight(m, "authenticated")
      BY <1>0, <1>1, <2>2, <3>1 DEF OnTheWay
    <3> QED BY <1>11, <3>1, <3>2
  <2>3. core'.at = "idle"
    BY <1>1, GetsFacts
  <2> QED BY <1>12, <1>13, <1>14, <2>1, <2>2, <2>3 DEF OnTheWay
<1>16. AtWorkRight'
  <2>1. Xor(cli.key, h) = Xor(h, cli.key)
    BY DEF Xor
  <2>2. handler.at = "combine" =>
          handler.msg.half = cli.key /\ h = srv.key /\ srv.mode = "hyb" /\ sStatus = "step2"
    BY <1>0, <1>1, <1>6 DEF AtWorkRight
  <2>3. srv.mode = "aes" => Agree'
    BY <1>1, <1>5, <1>6 DEF Agree
  <2>4. handler.at \notin {"accept", "reject", "announce"}
    BY <1>0, <1>6 DEF AtWorkRight
  <2>5. refresher.at # "send"
    BY <1>0, <1>6 DEF AtWorkRight
  <2>6. handler.at = "test" => sStatus = "step2" /\ srv.mode = "aes"
    BY <1>0 DEF AtWorkRight
  <2> QED BY <1>1, <1>5, <2>1, <2>2, <2>3, <2>4, <2>5, <2>6 DEF AtWorkRight
<1> QED BY <1>15, <1>16 DEF Rightly

LEMMA RightlyClient ==
  ASSUME Types, Types', OneTurn, Known, Rightly, Phases,
         HandleNewHalf \/ HandleNewKey \/ HandleOther \/ CannotRead
  PROVE  Rightly'
<1>0. OnTheWay /\ AtWorkRight /\ cli \in ClientEnds
  BY DEF Rightly, Types
<1>1. CASE HandleNewHalf
  <2>1. /\ Gets("refresh") /\ Half # {}
        /\ cli' = [Numbered(Received(Head(toClient), cli)) EXCEPT
                     !.tmp = Xor(ClientHalf(made.client + 1), Half)]
        /\ core' = Prepares(Message("refresh", ClientHalf(made.client + 1)), cli)
        /\ UNCHANGED <<toServer, sOpen, cOpen, sStatus, cStatus, srv, sendq, recvq, net, handler,
                       refresher, user>>
    BY <1>1 DEF HandleNewHalf, server
  <2>2. PICK p \in ToClient : p = Head(toClient) /\ p.msg.op = "refresh" /\ Accepts(p, cli)
                              /\ ToClientRight(p.msg)
    BY <1>0, <2>1, GetsAlone, GetsFacts
  <2>3. PICK h : h = p.msg.half /\ h = Half /\ h # {}
    BY <2>1, <2>2 DEF Half
  <2>4. Auth /\ Agree /\ srv.changekeys = 0 /\ h = srv.tmp
    BY <2>2, <2>3 DEF ToClientRight
  <2>5. PICK c : c = ClientHalf(made.client + 1)
    OBVIOUS
  <2>6. PICK end \in ClientEnds : /\ end = Numbered(Received(p, cli))
                                  /\ end.mode = cli.mode /\ end.key = cli.key
    BY <2>2, ReceivedFacts
  <2>7. cli' = [end EXCEPT !.tmp = Xor(c, h)]
    BY <2>1, <2>2, <2>3, <2>5, <2>6
  <2>8. cli'.mode = cli.mode /\ cli'.key = cli.key /\ cli'.tmp = Xor(c, h)
    BY <2>6, <2>7 DEF ClientEnds
  <2>9. core'.msg.op = "refresh" /\ core'.msg.half = c
    BY <2>1, <2>5 DEF Prepares, Message
  <2>10. Auth' /\ Agree'
    BY <2>1, <2>4, <2>8 DEF Auth, Agree
  <2>11. ToServerRight(core.msg, "step2")'
    BY <2>1, <2>3, <2>4, <2>8, <2>9, <2>10 DEF ToServerRight
  <2>12. AlonePlain
    BY <1>0, <2>1, <2>11, GetsAlone DEF AlonePlain
  <2>13. OnTheWay'
    BY <1>0, <2>1, <2>4, <2>12, Alone DEF Auth, RightAccept
  <2>14. AtWorkRight'
    BY <1>0, <2>1, GetsAlone DEF AtWorkRight
  <2> QED BY <2>13, <2>14 DEF Rightly
<1>2. CASE HandleNewKey
  <2>1. /\ Gets("refresh") /\ Half = {}
        /\ UNCHANGED <<toServer, sOpen, cOpen, sStatus, cStatus, srv, sendq, recvq, net, handler,
                       refresher, core, user, made>>
    BY <1>2 DEF HandleNewKey, server
  <2>2. PICK p \in ToClient : p = Head(toClient) /\ p.msg.op = "refresh"
                              /\ ToClientRight(p.msg)
    BY <1>0, <2>1, GetsAlone
  <2>3. p.msg.half = {}
    BY <2>1, <2>2 DEF Half
  <2>4. Auth
    BY <2>2, <2>3 DEF ToClientRight
  <2>5. core.at = "idle" /\ handler.at = "idle" /\ refresher.at = "idle"
    BY <1>0, <2>1, GetsAlone
  <2>6. AlonePlain
    BY <1>0, <2>1, <2>5, GetsAlone DEF AlonePlain
  <2>7. OnTheWay'
    BY <1>0, <2>1, <2>4, <2>6, Alone DEF Auth, RightAccept
  <2>8. AtWorkRight'
    BY <2>1, <2>5 DEF AtWorkRight
  <2> QED BY <2>7, <2>8 DEF Rightly
<1>3. CASE HandleOther
  <2>1. /\ toClient # << >> /\ toClient' = Tail(toClient)
        /\ cli' = Received(Head(toClient), cli) /\ Accepts(Head(toClient), cli)
        /\ UNCHANGED <<toServer, sOpen, cOpen, sStatus, cStatus, srv, sendq, recvq, net, handler,
                       refresher, core, user, made>>
    BY <1>3 DEF HandleOther, Gets, server
  <2>2. PICK p \in ToClient : p = Head(toClient) /\ Accepts(p, cli)
    BY <2>1, Firsts
  <2>3. UNCHANGED <<cli.mode, cli.key, cli.tmp>>
    BY <2>1, <2>2, ReceivedFacts
  <2>4. Range(toClient') \subseteq Range(toClient)
    BY <2>1, RangeFacts
  <2>5. WereRight
    BY <2>1, <2>4 DEF WereRight
  <2> QED BY <2>1, <2>3, <2>5, RightlySame
<1>4. CASE CannotRead
  <2>1. /\ toClient # << >> /\ toClient' = Tail(toClient)
        /\ UNCHANGED <<toServer, sOpen, sStatus, cStatus, srv, cli, sendq, recvq, net, handler,
                       refresher, core, user, made>>
    BY <1>4 DEF CannotRead, server
  <2>2. Range(toClient') \subseteq Range(toClient)
    BY <2>1, RangeFacts
  <2>3. WereRight
    BY <2>1, <2>2 DEF WereRight
  <2> QED BY <2>1, <2>3, RightlySame
<1> QED BY <1>1, <1>2, <1>3, <1>4

LEMMA RightlyClientSends ==
  ASSUME Types, Types', OneTurn, Known, Rightly, Phases,
         ClientHearsClose \/ CoreSends \/ UserTypes \/ UserSends
  PROVE  Rightly'
<1>0. OnTheWay /\ AtWorkRight /\ cli \in ClientEnds
  BY DEF Rightly, Types
<1>1. CASE ClientHearsClose
  <2>1. UNCHANGED <<toClient, toServer, sOpen, sStatus, cStatus, srv, cli, sendq, recvq, net,
                    handler, refresher, core, user, made>>
    BY <1>1 DEF ClientHearsClose, server, wires
  <2>2. WereRight
    BY <2>1 DEF WereRight
  <2> QED BY <2>1, <2>2, RightlySame
<1>2. CASE UserTypes
  <2>1. /\ cli' = Numbered(cli)
        /\ UNCHANGED <<toClient, toServer, sOpen, cOpen, sStatus, cStatus, srv, sendq, recvq, net,
                       handler, refresher, core>>
    BY <1>2 DEF UserTypes, server, wires
  <2>2. UNCHANGED <<cli.mode, cli.key, cli.tmp>>
    BY <1>0, <2>1 DEF ClientEnds, Numbered
  <2>3. WereRight
    BY <2>1 DEF WereRight
  <2> QED BY <2>1, <2>2, <2>3, RightlySame
<1>3. CASE UserSends
  <2>1. /\ user.at = "send"
        /\ toServer' = IF cOpen THEN Append(toServer, Packet(user.msg, Seal(cli), user.number))
                                ELSE toServer
        /\ UNCHANGED <<toClient, sOpen, cOpen, sStatus, cStatus, srv, cli, sendq, recvq, net,
                       handler, refresher, core, made>>
    BY <1>3 DEF UserSends, Sends, server
  <2>2. Message("message", {}) \in FromClient /\ Message("message", {}).op = "message"
    BY DEF FromClient, Message
  <2>3. PICK p \in ToServer : /\ p = Packet(user.msg, Seal(cli), user.number)
                              /\ p.msg.op = "message"
    BY <2>1, <2>2, JobFacts, EndFacts DEF Packet, ToServer
  <2>4. Range(toServer') \subseteq Range(toServer) \cup {p}
    BY <2>1, <2>3, RangeFacts
  <2>5. ToServerRight(p.msg, "authenticated")
    BY <2>3 DEF ToServerRight
  <2>6. WereRight
    BY <2>1, <2>4, <2>5 DEF WereRight
  <2> QED BY <2>1, <2>6, RightlySame
<1>4. CASE CoreSends
  <2>1. /\ core.at = "send" /\ core' = Idle
        /\ toServer' = IF cOpen THEN Append(toServer, Packet(core.msg, Seal(cli), core.number))
                                ELSE toServer
        /\ cStatus' = IF core.msg.op = "answer" THEN "authenticated" ELSE cStatus
        /\ UNCHANGED <<toClient, sOpen, cOpen, sStatus, srv, cli, sendq, recvq, net,
                       handler, refresher, user, made>>
    BY <1>4 DEF CoreSends, Sends, server
  <2>2. PICK m \in FromClient : m = core.msg /\ m.op \in {"request", "refresh", "answer"}
                                /\ ToServerRight(m, "step2")
    BY <1>0, <2>1, JobFacts DEF OnTheWay
  <2>3. PICK p \in ToServer : p = Packet(core.msg, Seal(cli), core.number) /\ p.msg = m
    BY <2>1, <2>2, JobFacts, EndFacts DEF Packet, ToServer
  <2>4. ToServerRight(m, "authenticated")'
    BY <2>1, <2>2 DEF ToServerRight, Auth, Agree
  <2>5. Range(toServer') \subseteq Range(toServer) \cup {p}
    BY <2>1, <2>3, RangeFacts
  <2>6. m.op = "answer" => ~ Auth /\ cStatus = "step2"
    BY <2>2 DEF ToServerRight, Auth
  <2>7. handler.at = "idle" /\ refresher.at = "idle"
    BY <2>1, Holder
  <2>8. AlonePlain
    <3>1. \A q \in Range(toServer') : ~ IsTurn(q.msg) \/ ToServerRight(q.msg, "authenticated")'
      BY <2>1, <2>3, <2>4, <2>5, Holder, Plain
    <3> QED BY <2>1, <3>1, Holder, Plain, IdleIs DEF AlonePlain
  <2>9. Auth => Auth'
    BY <2>1 DEF Auth
  <2>10. ASSUME NEW h, RightAccept(h) PROVE RightAccept(h)'
    BY <2>1, <2>2, <2>6, <2>10 DEF RightAccept
  <2>11. OnTheWay'
    BY <1>0, <2>8, <2>9, <2>10, Alone
  <2>12. AtWorkRight'
    BY <2>1, <2>7 DEF AtWorkRight
  <2> QED BY <2>11, <2>12 DEF Rightly
<1> QED BY <1>1, <1>2, <1>3, <1>4

-----------------------------------------------------------------------------
(* Phases.                                                                  *)

\* What is first on the wire can be read, unless it is exempt.
LEMMA FirstIsRead ==
  ASSUME Types, Stream, toClient # << >>, ~ Exempt(Head(toClient))
  PROVE  Accepts(Head(toClient), cli)
<1>1. toClient \in Seq(ToClient) /\ cli \in ClientEnds
  BY DEF Types
<1>2. PICK p \in ToClient : p = Head(toClient) /\ p \in Range(toClient)
  BY Firsts
<1>3. p = toClient[1] /\ 1 \in 1..Len(toClient)
  BY <1>1, <1>2, TailFacts
<1>4. Early(1)
  BY <1>1, <1>3 DEF Early
<1>5. p.seal = Seal(cli) /\ (cli.mode = "aes" => cli.got <= p.number)
  BY <1>2, <1>3, <1>4 DEF Stream
<1>6. p.number = NoNumber <=> p.seal.mode # "aes"
  BY <1>2 DEF Stream, WellSealed
<1>7. p.seal.mode = cli.mode
  BY <1>5 DEF Seal
<1> QED BY <1>2, <1>5, <1>6, <1>7 DEF Accepts, Readable, Fresh

LEMMA PhasesSame ==
  ASSUME Phases,
         UNCHANGED <<sStatus, cStatus, srv.mode, srv.next, srv.key, cli.mode, cli.key>>,
         sOpen' => sOpen, cOpen' => cOpen,
         handler.at = "combine" => handler'.at = "combine",
         srv'.changekeys = 1 => handler'.at = "announce" \/ ~ sOpen',
         \A p \in Range(toClient) : p.msg = NewKey => p \in Range(toClient') \/ Agree,
         \A p \in Range(toClient') : p \in Range(toClient) \/ p.msg.op # "nonce"
                                     \/ srv.mode = "hyb"
  PROVE  Phases'
<1>1. Agree' = Agree
  BY DEF Agree
<1> QED BY <1>1 DEF Phases

LEMMA PhasesNet ==
  ASSUME Types, Known, Rightly, Phases, NEW t \in NetThreads,
         NetTakes(t) \/ NetReceives(t) \/ NetQueues(t) \/ NetSends(t)
  PROVE  Phases'
<1>1. CASE NetTakes(t) \/ NetReceives(t) \/ NetQueues(t)
  <2>1. /\ srv' = srv \/ srv' = Received(Head(toServer), srv)
        /\ sOpen' => sOpen
        /\ UNCHANGED <<toClient, cOpen, sStatus, cStatus, cli, handler>>
    BY <1>1 DEF NetTakes, NetReceives, NetQueues, client, wires
  <2>2. UNCHANGED <<srv.mode, srv.next, srv.key, srv.changekeys>>
    BY <2>1 DEF Types, ServerEnds, Received
  <2>3. srv'.changekeys = 1 => handler'.at = "announce" \/ ~ sOpen'
    BY <2>1, <2>2 DEF Phases
  <2> QED BY <2>1, <2>2, <2>3, PhasesSame
<1>2. CASE NetSends(t)
  <2>1. /\ net[t].at = "send"
        /\ ServerSends(net[t].msg)
        /\ UNCHANGED <<toServer, sOpen, cOpen, sStatus, cStatus, cli, handler>>
    BY <1>2 DEF NetSends, client
  <2>2. PICK m \in FromServer : m = net[t].msg /\ m \in Queued
                                /\ m.op \in {"position", "message", "nonce"}
    BY <2>1, NetFacts, QueuedMessages
  <2>3. ServerSends(m) /\ ~ Rekeys(m) /\ ToClientRight(m)
    BY <2>1, <2>2 DEF Rekeys, Rightly, OnTheWay
  <2>4. /\ UNCHANGED <<srv.key, srv.tmp, srv.changekeys>>
        /\ srv.mode # "none" => srv'.mode = srv.mode /\ srv'.next = srv.next
    BY <2>3, SentMode
  <2>5. \A p \in Range(toClient') : p \in Range(toClient) \/ p.msg = m
    BY <2>3, SentRange
  <2>6. \A p \in Range(toClient) : p \in Range(toClient')
    BY <2>3, SentKeeps
  <2>7. m.op = "nonce" => srv.mode \in {"none", "hyb"} /\ sStatus \in {"step1", "rejected"}
    BY <2>3 DEF ToClientRight, Phases
  <2>8. srv'.changekeys = 1 => handler'.at = "announce" \/ ~ sOpen'
    BY <2>1, <2>4 DEF Phases
  <2>9. CASE srv.mode # "none" \/ sStatus = "connected" \/ ~ sOpen
    <3>1. srv'.mode = srv.mode /\ srv'.next = srv.next
      BY <2>3, <2>4, <2>9, SendFacts DEF SentState, Phases
    <3>2. \A p \in Range(toClient') : p \in Range(toClient) \/ p.msg.op # "nonce"
                                     \/ srv.mode = "hyb"
      BY <2>3, <2>5, <2>7, <2>9, SendFacts
    <3> QED BY <2>1, <2>4, <2>6, <2>8, <3>1, <3>2, PhasesSame
  <2>10. CASE srv.mode = "none" /\ sStatus # "connected" /\ sOpen
    <3>1. srv.next = "hyb"
      BY <2>10 DEF Phases
    <3>2. srv'.mode = "hyb" /\ srv'.next = "unspec"
      BY <2>3, <2>10, <3>1, SendFacts DEF SentState
    <3>3. handler.at = "combine" => srv.mode = "hyb"
      BY DEF Rightly, AtWorkRight
    <3>4. cStatus = "connected"
      BY <2>10, <3>3 DEF Phases, Types, LoginStates
    <3> QED BY <2>1, <2>4, <2>8, <2>10, <3>2, <3>4 DEF Phases
  <2> QED BY <2>9, <2>10
<1> QED BY <1>1, <1>2

LEMMA PhasesSends ==
  ASSUME Types, Known, Rightly, Phases, OneTurn,
         \/ SendAccept \/ SendTest \/ SendReject \/ SendNewKey
         \/ HandleMessage \/ Tell \/ ServerHearsClose \/ GenerateNewKey \/ HandleRefreshKey
  PROVE  Phases'
<1>0. OnTheWay /\ AtWorkRight /\ srv \in ServerEnds
  BY DEF Rightly, Types
<1>1. ASSUME NEW m \in FromServer, ServerSends(m), m.op # "nonce", ~ Rekeys(m),
             srv.mode # "none", UNCHANGED <<cOpen, sStatus, cStatus, cli>>, sOpen' => sOpen,
             handler.at # "combine", srv.changekeys # 1
      PROVE  Phases'
  <2>1. UNCHANGED <<srv.mode, srv.next, srv.key, srv.changekeys>>
    BY <1>1, SentMode
  <2>2. \A p \in Range(toClient') : p \in Range(toClient) \/ p.msg = m
    BY <1>1, SentRange
  <2>3. \A p \in Range(toClient) : p \in Range(toClient')
    BY <1>1, SentKeeps
  <2> QED BY <1>1, <2>1, <2>2, <2>3, PhasesSame
<1>2. CASE SendAccept
  <2>1. /\ handler.at = "accept"
        /\ ServerSends(Message("accept", srv.key))
        /\ UNCHANGED <<sOpen, cOpen, sStatus, cStatus, cli>>
    BY <1>2 DEF SendAccept, client
  <2>2. PICK m \in FromServer : m = Message("accept", srv.key) /\ m.op = "accept"
    BY <2>1, LoginMessages DEF Known
  <2>3. ServerSends(m) /\ ~ Rekeys(m) /\ srv.mode = "hyb" /\ srv.changekeys = 0
    BY <1>0, <2>1, <2>2 DEF Rekeys, AtWorkRight, Known
  <2> QED BY <1>1, <2>1, <2>2, <2>3
<1>3. CASE SendTest
  <2>1. /\ handler.at = "test"
        /\ ServerSends(Message("test", {}))
        /\ UNCHANGED <<sOpen, cOpen, sStatus, cStatus, cli>>
    BY <1>3 DEF SendTest, client
  <2>2. PICK m \in FromServer : m = Message("test", {}) /\ m.op = "test"
    BY LoginMessages
  <2>3. ServerSends(m) /\ ~ Rekeys(m) /\ srv.mode = "aes" /\ srv.changekeys = 0
    BY <1>0, <2>1, <2>2 DEF Rekeys, AtWorkRight, Known
  <2> QED BY <1>1, <2>1, <2>2, <2>3
<1>4. CASE SendReject
  <2>1. /\ handler.at = "reject"
        /\ ServerSends(Message("reject", {})) /\ sOpen' = FALSE
        /\ UNCHANGED <<cOpen, sStatus, cStatus, cli>>
    BY <1>4 DEF SendReject, client
  <2>2. PICK m \in FromServer : m = Message("reject", {}) /\ m.op = "reject"
    BY LoginMessages
  <2>3. ServerSends(m) /\ ~ Rekeys(m) /\ srv.mode = "hyb" /\ srv.changekeys = 0
    BY <1>0, <2>1, <2>2 DEF Rekeys, AtWorkRight, Known
  <2> QED BY <1>1, <2>1, <2>2, <2>3
<1>5. CASE SendNewKey
  <2>1. /\ refresher.at = "send"
        /\ ServerSends(refresher.msg)
        /\ UNCHANGED <<sOpen, cOpen, sStatus, cStatus, cli>>
    BY <1>5 DEF SendNewKey, client
  <2>2. PICK m \in FromServer : m = refresher.msg /\ m.op = "refresh"
    BY <2>1, JobFacts
  <2>3. ServerSends(m) /\ ~ Rekeys(m) /\ srv.mode = "aes" /\ srv.changekeys = 0
    BY <1>0, <2>1, <2>2 DEF Rekeys, AtWorkRight, Agree
  <2>4. handler.at = "idle"
    BY <2>1, Holder
  <2> QED BY <1>1, <2>1, <2>2, <2>3, <2>4
<1>6. CASE HandleMessage \/ Tell \/ ServerHearsClose
  <2>1. /\ UNCHANGED <<toClient, cOpen, sStatus, cStatus, srv, cli, handler>>
        /\ sOpen' => sOpen
    BY <1>6 DEF HandleMessage, Tell, ServerHearsClose, wires, client
  <2>2. srv'.changekeys = 1 => handler'.at = "announce" \/ ~ sOpen'
    BY <2>1 DEF Phases
  <2> QED BY <2>1, <2>2, PhasesSame
<1>7. CASE GenerateNewKey
  <2>1. /\ srv' = [srv EXCEPT !.tmp = ServerHalf(made.server + 1), !.changekeys = 0]
        /\ UNCHANGED <<toClient, sOpen, cOpen, sStatus, cStatus, cli, handler>>
    BY <1>7 DEF GenerateNewKey, wires, client
  <2>2. UNCHANGED <<srv.mode, srv.next, srv.key>> /\ srv'.changekeys = 0
    BY <1>0, <2>1 DEF ServerEnds
  <2> QED BY <2>1, <2>2, PhasesSame
<1>8. CASE HandleRefreshKey
  <2>1. /\ Takes("refresh")
        /\ IF srv.changekeys # 0
             THEN UNCHANGED <<srv, handler>>
             ELSE /\ srv' = [srv EXCEPT !.tmp = Xor(@, Head(recvq).half), !.changekeys = 1]
                  /\ handler' = Busy("announce", NewKey)
        /\ UNCHANGED <<toClient, sOpen, cOpen, sStatus, cStatus, cli>>
    BY <1>8 DEF HandleRefreshKey, wires, client, NewKey
  <2>2. UNCHANGED <<srv.mode, srv.next, srv.key>>
    BY <1>0, <2>1 DEF ServerEnds
  <2>3. handler.at = "idle"
    BY <2>1, TakesFacts
  <2>4. srv'.changekeys = 1 => handler'.at = "announce" \/ ~ sOpen'
    BY <2>1, BusyFacts DEF Phases
  <2> QED BY <2>1, <2>2, <2>3, <2>4, PhasesSame
<1> QED BY <1>2, <1>3, <1>4, <1>5, <1>6, <1>7, <1>8

LEMMA PhasesLogin ==
  ASSUME Types, Known, Rightly, Phases, OneTurn,
         LoginStarts \/ HandleRequest \/ CombineKeys \/ HandleAnswer \/ LoginTimeout
         \/ AnnounceNewKey
  PROVE  Phases'
<1>0. OnTheWay /\ AtWorkRight /\ srv \in ServerEnds
  BY DEF Rightly, Types
<1>1. CASE LoginStarts
  <2>1. /\ sStatus = "connected" /\ sStatus' = "step1"
        /\ srv' = [srv EXCEPT !.next = "hyb"]
        /\ UNCHANGED <<toClient, cOpen, sOpen, cStatus, cli, handler>>
    BY <1>1 DEF LoginStarts, wires, client
  <2>2. UNCHANGED <<srv.mode, srv.key, srv.changekeys>> /\ srv'.next = "hyb"
    BY <1>0, <2>1 DEF ServerEnds
  <2>3. cStatus = "connected" /\ srv.mode = "none" /\ srv.changekeys = 0
    BY <2>1 DEF Phases, Types, LoginStates, Known
  <2> QED BY <2>1, <2>2, <2>3 DEF Phases
<1>2. CASE HandleRequest
  <2>1. /\ Takes("request") /\ sStatus = "step1" /\ sStatus' \in {"step2", "rejected"}
        /\ srv' = srv \/ srv' = [srv EXCEPT !.key = ServerHalf(made.server + 1)]
        /\ UNCHANGED <<toClient, sOpen, cOpen, cStatus, cli>>
    BY <1>2 DEF HandleRequest, wires, client
  <2>2. UNCHANGED <<srv.mode, srv.next, srv.changekeys>>
    BY <1>0, <2>1 DEF ServerEnds
  <2>3. ToServerRight(Head(recvq), "authenticated") /\ Head(recvq).op = "request"
    BY <1>0, <2>1, TakesAlone
  <2>4. cStatus = "step1" /\ srv.mode = "hyb" /\ srv.changekeys = 0
    BY <2>1, <2>3 DEF ToServerRight, Known
  <2> QED BY <2>1, <2>2, <2>4 DEF Phases
<1>3. CASE CombineKeys
  <2>1. /\ handler.at = "combine"
        /\ srv' = Rekeyed(srv, Xor(srv.key, handler.msg.half))
        /\ UNCHANGED <<toClient, sOpen, cOpen, sStatus, cStatus, cli>>
    BY <1>3 DEF CombineKeys, wires, client
  <2>2. /\ sStatus = "step2" /\ srv.mode = "hyb"
        /\ \/ cStatus = "step1"
           \/ cStatus = "step2" /\ cli.mode = "aes" /\ cli.key = Xor(srv.key, handler.msg.half)
    BY <1>0, <2>1 DEF AtWorkRight
  <2>3. /\ srv'.mode = "aes" /\ srv'.key = Xor(srv.key, handler.msg.half)
        /\ srv'.next = srv.next /\ srv'.changekeys = srv.changekeys
    BY <1>0, <2>1 DEF Rekeyed, ServerEnds
  <2>4. \A p \in Range(toClient) : p.msg.op # "nonce"
    BY <2>1, Holder, Plain DEF IsTurn
  <2>5. srv.changekeys = 0
    BY <2>2 DEF Known
  <2>6. cStatus = "step2" => Agree'
    BY <2>1, <2>2, <2>3 DEF Agree
  <2> QED BY <2>1, <2>2, <2>3, <2>4, <2>5, <2>6 DEF Phases
<1>4. CASE HandleAnswer
  <2>1. /\ Takes("answer") /\ sStatus = "step2"
        /\ sStatus' \in {"authenticated", "rejected"}
        /\ sOpen' => sOpen
        /\ UNCHANGED <<toClient, cOpen, cStatus, srv, cli, handler>>
    BY <1>4 DEF HandleAnswer, wires, client
  <2>2. ToServerRight(Head(recvq), "authenticated") /\ Head(recvq).op = "answer"
    BY <1>0, <2>1, TakesAlone
  <2>3. cStatus = "authenticated" /\ srv.changekeys = 0 /\ srv.mode = "aes"
    BY <2>1, <2>2 DEF ToServerRight, Known, Agree
  <2>4. Agree' = Agree
    BY <2>1 DEF Agree
  <2> QED BY <2>1, <2>3, <2>4 DEF Phases
<1>5. CASE LoginTimeout
  <2>1. /\ sStatus \in {"step1", "step2"} /\ sStatus' = "rejected" /\ sOpen' = FALSE
        /\ UNCHANGED <<toClient, cOpen, cStatus, srv, cli, handler>>
    BY <1>5 DEF LoginTimeout, wires, client
  <2>2. Agree' = Agree
    BY <2>1 DEF Agree
  <2> QED BY <2>1, <2>2 DEF Phases
<1>6. CASE AnnounceNewKey
  <2>1. /\ handler.at = "announce"
        /\ ServerSends(handler.msg)
        /\ UNCHANGED <<sOpen, cOpen, sStatus, cStatus, cli>>
    BY <1>6 DEF AnnounceNewKey, client
  <2>2. PICK m \in FromServer : m = handler.msg /\ m = NewKey /\ m.op = "refresh" /\ m.half = {}
    BY <2>1, JobFacts DEF FromServer, NewKey, Message
  <2>3. ServerSends(m)
    BY <2>1, <2>2
  <2>4. Auth /\ Agree /\ srv.changekeys = 1
    BY <1>0, <2>1 DEF AtWorkRight
  <2>5. \A p \in Range(toClient') : p \in Range(toClient) \/ p.msg = m
    BY <2>3, SentRange
  <2>6. CASE ~ sOpen
    <3>1. toClient' = toClient /\ srv' = srv
      BY <2>3, <2>6, SendFacts
    <3> QED BY <2>1, <2>4, <2>6, <3>1, PhasesSame
  <2>7. CASE sOpen
    <3>1. srv'.key = srv.tmp /\ srv'.mode = "aes" /\ srv'.next = srv.next /\ srv'.changekeys = 2
      BY <2>2, <2>3, <2>4, <2>7, SendFacts DEF SentState, Rekeys
    <3>2. PICK p \in ToClient : p = Sent(m) /\ p.msg = m
      BY <2>3, SendFacts DEF Sent, Packet
    <3>3. p \in Range(toClient')
      BY <2>3, <2>7, <3>2, SentKeeps
    <3>4. \A q \in Range(toClient') : q.msg.op # "nonce"
      BY <2>1, <2>2, <2>5, Holder, Plain DEF IsTurn
    <3>5. \E q \in Range(toClient') : q.msg = NewKey
      BY <2>2, <3>2, <3>3
    <3> QED BY <2>1, <2>4, <3>1, <3>4, <3>5 DEF Phases, Auth, Agree
  <2> QED BY <2>6, <2>7
<1> QED BY <1>1, <1>2, <1>3, <1>4, <1>5, <1>6

LEMMA PhasesClient ==
  ASSUME Types, Known, Rightly, Phases, OneTurn, Stream,
         \/ HandleNonce \/ HandleAccept \/ HandleReject \/ HandleTest \/ HandleNewHalf
         \/ HandleNewKey \/ HandleOther \/ CannotRead \/ CoreSends
         \/ ClientHearsClose \/ UserTypes \/ UserSends
  PROVE  Phases'
<1>0. OnTheWay /\ AtWorkRight /\ cli \in ClientEnds
  BY DEF Rightly, Types
<1>1. ASSUME NEW op, Gets(op)
      PROVE  /\ \E p \in Range(toClient) : p = Head(toClient) /\ p.msg.op = op
                  /\ p \in ToClient /\ p.msg \in FromServer
                  /\ ToClientRight(p.msg) /\ Accepts(p, cli)
             /\ Range(toClient) = {Head(toClient)} \cup Range(toClient')
  BY <1>0, <1>1, GetsFacts, RangeFacts DEF OnTheWay
<1>2. CASE HandleNonce
  <2>1. /\ Gets("nonce") /\ cStatus = "connected" /\ cStatus' = "step1"
        /\ cli' = [cli EXCEPT !.mode = "hyb", !.key = ClientHalf(made.client + 1)]
        /\ UNCHANGED <<sOpen, cOpen, sStatus, srv, handler>>
    BY <1>2 DEF HandleNonce, server
  <2>2. sStatus \in {"step1", "rejected"} /\ srv.mode = "hyb"
    BY <1>1, <2>1 DEF ToClientRight, Phases
  <2>3. cli'.mode = "hyb"
    BY <1>0, <2>1 DEF ClientEnds
  <2>4. Range(toClient') \subseteq Range(toClient)
    BY <1>1, <2>1
  <2> QED BY <2>1, <2>2, <2>3, <2>4 DEF Phases
<1>3. CASE HandleAccept
  <2>1. /\ Gets("accept") /\ cStatus = "step1" /\ cStatus' = "step2"
        /\ cli' = Rekeyed(cli, Xor(cli.key, Head(toClient).msg.half))
        /\ UNCHANGED <<sOpen, cOpen, sStatus, srv, handler>>
    BY <1>3 DEF HandleAccept, server, Half
  <2>2. PICK h : h = Head(toClient).msg.half /\ RightAccept(h)
    BY <1>1, <2>1 DEF ToClientRight
  <2>3. cli'.mode = "aes" /\ cli'.key = Xor(cli.key, h)
    BY <1>0, <2>1, <2>2 DEF ClientEnds, Rekeyed
  <2>4. Range(toClient') \subseteq Range(toClient)
    BY <1>1, <2>1
  <2>5. handler.at = "combine" => srv.mode = "hyb"
    BY <1>0 DEF AtWorkRight
  <2>6. srv.mode = "aes" => Agree'
    BY <2>1, <2>2, <2>3, <2>5 DEF RightAccept, Agree
  <2>7. (handler.at = "combine" \/ srv.mode = "aes") /\ sStatus \in {"step2", "rejected"}
    BY <2>2 DEF RightAccept
  <2> QED BY <2>1, <2>3, <2>4, <2>6, <2>7 DEF Phases
<1>4. CASE HandleReject
  <2>1. /\ Gets("reject") /\ cStatus = "step1" /\ cStatus' = "rejected" /\ cOpen' = FALSE
        /\ UNCHANGED <<sOpen, sStatus, cli, srv, handler>>
    BY <1>4 DEF HandleReject, server
  <2>2. sStatus = "rejected" /\ ~ sOpen
    BY <1>1, <2>1 DEF ToClientRight
  <2>3. Range(toClient') \subseteq Range(toClient)
    BY <1>1, <2>1
  <2> QED BY <2>1, <2>2, <2>3 DEF Phases
<1>5. ASSUME UNCHANGED <<sOpen, sStatus, cStatus, srv, handler, cli.mode, cli.key>>,
             cOpen' => cOpen,
             \A p \in Range(toClient) : p.msg = NewKey => p \in Range(toClient'),
             Range(toClient') \subseteq Range(toClient)
      PROVE  Phases'
  <2>1. srv'.changekeys = 1 => handler'.at = "announce" \/ ~ sOpen'
    BY <1>5 DEF Phases
  <2> QED BY <1>5, <2>1, PhasesSame
<1>6. CASE HandleTest \/ HandleNewHalf \/ HandleOther
  <2>1. PICK op : Gets(op) /\ (HandleTest \/ HandleNewHalf \/ HandleOther)
    BY <1>6 DEF HandleTest, HandleNewHalf, HandleOther
  <2>2. PICK p \in ToClient : p = Head(toClient) /\ Accepts(p, cli) /\ p.msg \in FromServer
    BY <1>1, <2>1
  <2>3. /\ \/ cli' = Numbered(Received(p, cli))
           \/ \E k : cli' = [Numbered(Received(p, cli)) EXCEPT !.tmp = k]
           \/ cli' = Received(p, cli)
        /\ UNCHANGED <<sOpen, cOpen, sStatus, cStatus, srv, handler>>
    BY <1>6, <2>2 DEF HandleTest, HandleNewHalf, HandleOther, server, Half
  <2>4. UNCHANGED <<cli.mode, cli.key>>
    <3>1. PICK e \in ClientEnds : /\ e = Numbered(Received(p, cli))
                                  /\ e.mode = cli.mode /\ e.key = cli.key
      BY <2>2, ReceivedFacts
    <3>2. Received(p, cli).mode = cli.mode /\ Received(p, cli).key = cli.key
      BY <2>2, ReceivedFacts
    <3> QED BY <2>3, <3>1, <3>2 DEF ClientEnds
  <2>5. p.msg # NewKey
    <3>1. Gets("test") \/ Gets("position") \/ Gets("message")
          \/ (Gets("refresh") /\ Half # {})
      BY <1>6 DEF HandleTest, HandleNewHalf, HandleOther
    <3> QED BY <2>2, <3>1, ToClientMessages DEF Gets, Half
  <2>6. Range(toClient) = {p} \cup Range(toClient')
    BY <1>1, <2>1, <2>2
  <2> QED BY <1>5, <2>3, <2>4, <2>5, <2>6
<1>7. CASE HandleNewKey
  <2>1. /\ Gets("refresh") /\ Head(toClient).msg.half = {} /\ cli' = Rekeyed(cli, cli.tmp)
        /\ UNCHANGED <<sOpen, cOpen, sStatus, cStatus, srv, handler>>
    BY <1>7 DEF HandleNewKey, server, Half
  <2>2. Auth /\ srv.mode = "aes" /\ cli.tmp = srv.key
    BY <1>1, <2>1 DEF ToClientRight
  <2>3. cli'.mode = "aes" /\ cli'.key = cli.tmp
    BY <1>0, <2>1 DEF ClientEnds, Rekeyed
  <2>4. Agree'
    BY <2>1, <2>2, <2>3 DEF Agree
  <2>5. Range(toClient') \subseteq Range(toClient)
    BY <1>1, <2>1
  <2> QED BY <2>1, <2>2, <2>3, <2>4, <2>5 DEF Phases, Auth
<1>8. CASE CannotRead
  <2>1. /\ toClient # << >> /\ ~ Accepts(Head(toClient), cli) /\ toClient' = Tail(toClient)
        /\ cOpen' => cOpen
        /\ UNCHANGED <<sOpen, sStatus, cStatus, srv, cli, handler>>
    BY <1>8 DEF CannotRead, server
  <2>2. PICK p \in ToClient : p = Head(toClient) /\ p.msg \in FromServer /\ Exempt(p)
    BY <2>1, Firsts, FirstIsRead
  <2>3. p.msg # NewKey
    BY <2>2, ToClientMessages DEF Exempt
  <2>4. Range(toClient) = {p} \cup Range(toClient')
    BY <2>1, <2>2, RangeFacts
  <2> QED BY <1>5, <2>1, <2>3, <2>4
<1>9. CASE CoreSends
  <2>1. /\ core.at = "send"
        /\ cStatus' = IF core.msg.op = "answer" THEN "authenticated" ELSE cStatus
        /\ UNCHANGED <<toClient, sOpen, cOpen, sStatus, srv, cli, handler>>
    BY <1>9 DEF CoreSends, server
  <2>2. CASE core.msg.op = "answer"
    <3>1. sStatus \in {"step2", "rejected"} /\ Agree /\ cStatus = "step2"
      BY <1>0, <2>1, <2>2 DEF OnTheWay, ToServerRight
    <3>2. Agree'
      BY <2>1, <3>1 DEF Agree
    <3> QED BY <2>1, <2>2, <3>1, <3>2 DEF Phases, Agree
  <2>3. CASE core.msg.op # "answer"
    BY <1>5, <2>1, <2>3
  <2> QED BY <2>2, <2>3
<1>10. CASE ClientHearsClose \/ UserTypes \/ UserSends
  <2>1. /\ cli' = cli \/ cli' = Numbered(cli)
        /\ cOpen' => cOpen
        /\ UNCHANGED <<toClient, sOpen, sStatus, cStatus, srv, handler>>
    BY <1>10 DEF ClientHearsClose, UserTypes, UserSends, server, wires
  <2>2. UNCHANGED <<cli.mode, cli.key>>
    BY <1>0, <2>1 DEF ClientEnds, Numbered
  <2> QED BY <1>5, <2>1, <2>2
<1> QED BY <1>2, <1>3, <1>4, <1>6, <1>7, <1>8, <1>9, <1>10

-----------------------------------------------------------------------------
(* The stream of packets to the client.                                     *)

LEMMA AppendEarly ==
  ASSUME Types, NEW p \in ToClient, toClient' = Append(toClient, p)
  PROVE  /\ Len(toClient) \in Nat /\ Len(toClient') = Len(toClient) + 1
         /\ \A i \in 1..Len(toClient) : toClient'[i] = toClient[i] /\ (Early(i)' <=> Early(i))
         /\ toClient'[Len(toClient) + 1] = p
         /\ \A n \in Nat : n = Len(toClient) + 1 => (Early(n)' <=> ~ SwitchOn)
         /\ SwitchOn' <=> SwitchOn \/ p \in Switches
<1>1. toClient \in Seq(ToClient)
  BY DEF Types
<1>2. /\ Len(toClient) \in Nat /\ Len(toClient') = Len(toClient) + 1
      /\ \A i \in 1..Len(toClient) : toClient'[i] = toClient[i]
      /\ toClient'[Len(toClient) + 1] = p
      /\ Range(toClient') = Range(toClient) \cup {p}
  BY <1>1, AppendFacts
<1>3. \A i \in 1..Len(toClient) : Early(i)' <=> Early(i)
  BY <1>2 DEF Early
<1>4. /\ \A i \in 1..Len(toClient) : toClient[i] \in Range(toClient)
      /\ \A x \in Range(toClient) : \E i \in 1..Len(toClient) : toClient[i] = x
  BY <1>1, RangeIndices
<1>5. ASSUME NEW n \in Nat, n = Len(toClient) + 1
      PROVE  Early(n)' <=> \A j \in 1..Len(toClient) : toClient[j] \notin Switches
  <2>1. Switches' = Switches
    BY DEF Switches
  <2>2. \A j \in 1..n : j < n <=> j \in 1..Len(toClient)
    BY <1>2, <1>5
  <2>3. \A j \in 1..Len(toClient) : j \in 1..n
    BY <1>2, <1>5
  <2>4. \A j \in 1..Len(toClient) : toClient'[j] = toClient[j]
    BY <1>2
  <2>5. Early(n)' <=> \A j \in 1..n : j < n => toClient'[j] \notin Switches
    BY <1>2, <1>5, <2>1 DEF Early
  <2>6. (\A j \in 1..n : j < n => toClient'[j] \notin Switches)
          <=> \A j \in 1..Len(toClient) : toClient'[j] \notin Switches
    BY <2>2, <2>3
  <2> QED BY <2>4, <2>5, <2>6
<1>6. SwitchOn <=> \E j \in 1..Len(toClient) : toClient[j] \in Switches
  BY <1>4 DEF SwitchOn
<1>7. SwitchOn' <=> SwitchOn \/ p \in Switches
  BY <1>2 DEF SwitchOn, Switches
<1> QED BY <1>2, <1>3, <1>5, <1>6, <1>7

LEMMA TailEarly ==
  ASSUME Types, toClient # << >>, toClient' = Tail(toClient), Once(toClient, Switches)
  PROVE  /\ Len(toClient) \in Nat /\ Len(toClient') = Len(toClient) - 1
         /\ Head(toClient) = toClient[1] /\ 1 \in 1..Len(toClient) /\ Early(1)
         /\ \A i \in 1..Len(toClient') : /\ toClient'[i] = toClient[i + 1]
                                         /\ i + 1 \in 1..Len(toClient)
                                         /\ i \in Nat
         /\ Head(toClient) \notin Switches =>
              /\ \A i \in 1..Len(toClient') : Early(i)' <=> Early(i + 1)
              /\ SwitchOn' <=> SwitchOn
         /\ Head(toClient) \in Switches =>
              /\ \A i \in 1..Len(toClient') : Early(i)' /\ ~ Early(i + 1)
              /\ \A i \in 1..Len(toClient') : toClient'[i] \notin Switches
              /\ SwitchOn /\ ~ SwitchOn'
<1>1. toClient \in Seq(ToClient)
  BY DEF Types
<1>2. /\ Len(toClient) \in Nat /\ Len(toClient') = Len(toClient) - 1
      /\ Head(toClient) = toClient[1] /\ 1 \in 1..Len(toClient)
      /\ \A i \in 1..Len(toClient') : toClient'[i] = toClient[i + 1] /\ i + 1 \in 1..Len(toClient)
      /\ Range(toClient) = {Head(toClient)} \cup Range(toClient')
      /\ Head(toClient) \in Switches => Range(toClient') \cap Switches = {}
      /\ toClient' \in Seq(ToClient)
  BY <1>1, TailFacts
<1>3. Early(1)
  BY <1>2 DEF Early
<1>4. PICK x : x = Head(toClient)
  OBVIOUS
<1>5. ASSUME x \notin Switches, NEW i \in 1..Len(toClient')
      PROVE  Early(i)' <=> Early(i + 1)
  <2>1. ASSUME Early(i + 1), NEW j \in 1..Len(toClient'), j < i PROVE toClient'[j] \notin Switches
    BY <1>2, <2>1 DEF Early
  <2>2. ASSUME Early(i)', NEW j \in 1..Len(toClient), j < i + 1 PROVE toClient[j] \notin Switches
    <3>1. CASE j = 1
      BY <1>2, <1>4, <1>5, <3>1
    <3>2. CASE j # 1
      <4>1. j - 1 \in 1..Len(toClient') /\ j - 1 < i /\ toClient'[j - 1] = toClient[j]
        BY <1>2, <2>2, <3>2
      <4> QED BY <2>2, <4>1 DEF Early, Switches
    <3> QED BY <3>1, <3>2
  <2>3. Switches' = Switches
    BY DEF Switches
  <2> QED BY <2>1, <2>2, <2>3 DEF Early
<1>6. Switches' = Switches
  BY DEF Switches
<1>7. x \notin Switches => (SwitchOn' <=> SwitchOn)
  BY <1>2, <1>4, <1>6 DEF SwitchOn
<1>8. \A i \in 1..Len(toClient') : toClient'[i] \in Range(toClient')
  BY <1>2, RangeIndices
<1>9. ASSUME x \in Switches
      PROVE  /\ \A i \in 1..Len(toClient') : Early(i)' /\ ~ Early(i + 1)
             /\ \A i \in 1..Len(toClient') : toClient'[i] \notin Switches
             /\ SwitchOn /\ ~ SwitchOn'
  <2>1. \A i \in 1..Len(toClient') : toClient'[i] \notin Switches
    BY <1>2, <1>4, <1>8, <1>9
  <2>2. \A i \in 1..Len(toClient') : Early(i)'
    BY <1>6, <2>1 DEF Early
  <2>3. \A i \in 1..Len(toClient') : ~ Early(i + 1)
    BY <1>2, <1>4, <1>9 DEF Early
  <2>4. SwitchOn /\ ~ SwitchOn'
    BY <1>2, <1>4, <1>6, <1>9 DEF SwitchOn
  <2> QED BY <2>1, <2>2, <2>3, <2>4
<1>10. \A i \in 1..Len(toClient') : i \in Nat
  BY <1>2
<1> QED BY <1>2, <1>3, <1>4, <1>5, <1>7, <1>9, <1>10

LEMMA StreamSame ==
  ASSUME Stream,
         UNCHANGED <<toClient, cli.mode, cli.key, cli.tmp, cli.got, made.unsent>>,
         srv.mode = "aes" => srv'.mode = "aes"
  PROVE  Stream'
<1>1. /\ Seal(cli)' = Seal(cli)
      /\ \A m : After(m)' = After(m)
      /\ \A p : Exempt(p)' = Exempt(p)
      /\ \A p : WellSealed(p) => WellSealed(p)'
      /\ \A i : Early(i)' = Early(i)
      /\ Switches' = Switches
  BY DEF Seal, After, Exempt, WellSealed, Early, Switches
<1> QED BY <1>1 DEF Stream, Once

\* Who may send m to the client.
Sending(m) ==
    \/ \E t \in NetThreads : net[t].at = "send" /\ m = net[t].msg
    \/ handler.at = "accept" /\ m = Message("accept", srv.key)
    \/ handler.at = "test" /\ m = Message("test", {})
    \/ handler.at = "reject" /\ m = Message("reject", {})
    \/ handler.at = "announce" /\ m = NewKey
    \/ refresher.at = "send" /\ m = refresher.msg

LEMMA SendingFacts ==
  ASSUME Types, Known, OneTurn, Rightly, Phases, NonePosition, NEW m, Sending(m), sOpen
  PROVE  /\ m \in FromServer
         /\ m.op = "accept" => handler.at = "accept"
         /\ m = NewKey => /\ Rekeys(m) /\ handler.at = "announce" /\ srv.tmp = cli.tmp
                          /\ srv.mode = "aes" /\ cStatus = "authenticated"
         /\ m # NewKey => ~ Rekeys(m)
         /\ m.op = "nonce" => /\ cStatus = "connected" /\ sStatus # "connected"
                              /\ srv.mode \in {"none", "hyb"} /\ handler.at # "combine"
         /\ IsSwitch(m) => ~ SwitchOn
         /\ m.op = "position" => made.unsent > 0
         /\ ~ Ready => Exempt(Sent(m))
<1>0. /\ OnTheWay /\ AtWorkRight
      /\ made.unsent \in Nat
      /\ NewKey.op = "refresh" /\ NewKey.half = {}
  BY DEF Rightly, Types, Mades, NewKey, Message
<1> DEFINE Good ==
      /\ m \in FromServer
      /\ m.op = "accept" => handler.at = "accept"
      /\ m = NewKey => /\ Rekeys(m) /\ handler.at = "announce" /\ srv.tmp = cli.tmp
                       /\ srv.mode = "aes" /\ cStatus = "authenticated"
      /\ m # NewKey => ~ Rekeys(m)
      /\ m.op = "nonce" => /\ cStatus = "connected" /\ sStatus # "connected"
                           /\ srv.mode \in {"none", "hyb"} /\ handler.at # "combine"
      /\ m.op = "position" => made.unsent > 0
<1> DEFINE Else ==
      /\ \A q \in Range(toClient) \cap Switches : ~ IsSwitch(m)
      /\ cStatus = "connected" \/ handler.at = "combine" =>
           m.op \in {"nonce", "position"} /\ srv.mode # "aes"
      /\ handler.at = "combine" => m.op = "position"
<1>1. ASSUME NEW q \in Range(toClient) \cap Switches, ~ IsTurn(q.msg)
      PROVE  RightAccept(q.msg.half) /\ cStatus = "step1"
  <2>1. q.msg \in FromServer /\ ToClientRight(q.msg) /\ IsSwitch(q.msg)
    BY <1>0, Members DEF OnTheWay, Switches
  <2>2. q.msg.op = "accept"
    BY <1>0, <1>1, <2>1 DEF IsTurn, IsSwitch
  <2> QED BY <2>1, <2>2 DEF ToClientRight, RightAccept
<1>2. handler.at # "idle" \/ TurnNet => ~ TurnOn(toClient)
  BY Holder DEF OneTurn, Count
<1>3. (handler.at # "idle" \/ TurnNet) => \A q \in Range(toClient) \cap Switches : ~ IsTurn(q.msg)
  BY <1>2, Plain
<1>4. handler.at = "combine" => ~ TurnNet /\ srv.mode = "hyb" /\ sStatus = "step2" /\ refresher.at = "idle"
  BY <1>0, Holder DEF AtWorkRight
<1>5. cStatus = "connected" => srv.mode \in {"none", "hyb"}
  BY DEF Phases
<1>6. ASSUME NEW t \in NetThreads, net[t].at = "send", m = net[t].msg
      PROVE  Good /\ Else
  <2>1. m \in FromServer /\ m.op \in {"position", "message", "nonce"} /\ ToClientRight(m)
    BY <1>0, <1>6, NetFacts, QueuedMessages DEF OnTheWay
  <2>2. m.op = "position" => made.unsent > 0
    BY <1>0, <1>6 DEF NonePosition
  <2>3. m.op = "nonce" => TurnNet
    BY <1>6 DEF TurnNet, OnNet, IsTurn
  <2>4. m.op = "nonce" => cStatus = "connected" /\ sStatus # "connected"
    BY <2>1 DEF ToClientRight
  <2>5. m.op = "message" => sStatus = "authenticated" /\ cStatus = "authenticated"
    BY <2>1 DEF ToClientRight, Auth
  <2>6. Good
    BY <1>0, <1>4, <1>5, <2>1, <2>2, <2>3, <2>4 DEF Rekeys
  <2>7. ASSUME NEW q \in Range(toClient) \cap Switches PROVE ~ IsSwitch(m)
    BY <1>0, <1>1, <1>3, <2>1, <2>3, <2>4 DEF IsSwitch
  <2>8. cStatus = "connected" \/ handler.at = "combine" =>
           m.op \in {"nonce", "position"} /\ srv.mode # "aes"
    BY <1>4, <1>5, <2>1, <2>5
  <2>9. handler.at = "combine" => m.op = "position"
    BY <1>4, <2>1, <2>3, <2>5
  <2> QED BY <2>6, <2>7, <2>8, <2>9
<1>7. ASSUME handler.at = "accept" /\ m = Message("accept", srv.key) PROVE Good /\ Else
  <2>1. m \in FromServer /\ m.op = "accept" /\ m # NewKey
    BY <1>0, <1>7, LoginMessages DEF Known
  <2>2. cStatus = "step1" /\ srv.mode = "hyb"
    BY <1>0, <1>7 DEF AtWorkRight
  <2>3. Range(toClient) \cap Switches = {}
    BY <1>1, <1>3, <1>7, <2>2 DEF RightAccept
  <2> QED BY <1>7, <2>1, <2>2, <2>3 DEF Rekeys
<1>8. ASSUME handler.at = "test" /\ m = Message("test", {}) PROVE Good /\ Else
  <2>1. m \in FromServer /\ m.op = "test" /\ m # NewKey
    BY <1>0, <1>8, LoginMessages
  <2>2. cStatus # "connected"
    BY <1>0, <1>8 DEF AtWorkRight
  <2> QED BY <1>8, <2>1, <2>2 DEF Rekeys, IsSwitch
<1>9. ASSUME handler.at = "reject" /\ m = Message("reject", {}) PROVE Good /\ Else
  <2>1. m \in FromServer /\ m.op = "reject" /\ m # NewKey
    BY <1>0, <1>9, LoginMessages
  <2>2. cStatus # "connected"
    BY <1>0, <1>9 DEF AtWorkRight
  <2> QED BY <1>9, <2>1, <2>2 DEF Rekeys, IsSwitch
<1>10. ASSUME handler.at = "announce" /\ m = NewKey PROVE Good /\ Else
  <2>1. m \in FromServer
    BY <1>10 DEF FromServer, NewKey
  <2>2. Auth /\ Agree /\ srv.changekeys = 1 /\ srv.tmp = cli.tmp
    BY <1>0, <1>10 DEF AtWorkRight
  <2>3. Range(toClient) \cap Switches = {}
    BY <1>1, <1>3, <1>10, <2>2 DEF Auth
  <2> QED BY <1>0, <1>10, <2>1, <2>2, <2>3 DEF Rekeys, Auth, Agree
<1>11. ASSUME refresher.at = "send" /\ m = refresher.msg PROVE Good /\ Else
  <2>1. m \in FromServer /\ m.op = "refresh" /\ m.half \in ServerHalves
    BY <1>11, JobFacts
  <2>2. m # NewKey
    BY <1>0, <2>1, HalvesFacts
  <2>3. Auth /\ srv.changekeys = 0
    BY <1>0, <1>11 DEF AtWorkRight
  <2>4. handler.at = "idle"
    BY <1>11, Holder
  <2> QED BY <2>1, <2>2, <2>3, <2>4 DEF Rekeys, IsSwitch, Auth
<1>12. Good /\ Else
  BY <1>6, <1>7, <1>8, <1>9, <1>10, <1>11 DEF Sending
<1>13. IsSwitch(m) => ~ SwitchOn
  BY <1>12 DEF SwitchOn
<1>14. ASSUME ~ Ready PROVE Exempt(Sent(m))
  <2>1. cStatus = "connected" \/ handler.at = "combine"
    BY <1>14 DEF Ready
  <2>2. m.op \in {"nonce", "position"} /\ srv.mode # "aes"
    BY <1>12, <2>1
  <2>3. made.unsent > 0
    BY <1>0, <1>12, <1>14 DEF Ready
  <2>4. Sent(m).msg = m /\ Sent(m).seal.mode = srv.mode
    BY DEF Sent, Packet, Seal
  <2> QED BY <2>2, <2>3, <2>4 DEF Exempt
<1> QED BY <1>12, <1>13, <1>14

LEMMA SentFacts ==
  ASSUME Types, Known, OneTurn, Rightly, Phases, Stream, Source, NonePosition,
         NEW m, Sending(m), sOpen, ServerSends(m)
  PROVE  /\ Sent(m) \in ToClient /\ Sent(m).msg = m
         /\ Sent(m).seal = Seal(srv) /\ Sent(m).seal.mode = srv.mode
         /\ Sent(m).number = NoNumber <=> srv.mode # "aes"
         /\ srv.mode = "aes" => /\ Sent(m).number = srv.sent /\ srv'.mode = "aes"
                                /\ Ready
         /\ srv.sent \in Nat /\ srv'.sent \in Nat
         /\ toClient' = Append(toClient, Sent(m))
         /\ IsSwitch(m) <=> Sent(m) \in Switches
<1>1. m \in FromServer
  BY SendingFacts
<1>2. PICK p \in ToClient : p = Sent(m)
  BY <1>1, SendFacts
<1>3. srv \in ServerEnds /\ srv.sent \in Nat
  BY DEF Types, ServerEnds
<1>4. p.msg = m /\ p.seal = Seal(srv) /\ p.number = NextNumber(srv)
  BY <1>2 DEF Sent, Packet
<1>5. p.seal.mode = srv.mode
  BY <1>4 DEF Seal
<1>6. p.number = IF srv.mode = "aes" THEN srv.sent ELSE NoNumber
  BY <1>4 DEF NextNumber
<1>7. srv'.sent \in Nat
  BY <1>1, SendFacts DEF ServerEnds
<1>8. srv.mode = "aes" => srv'.mode = "aes"
  BY <1>1, SendFacts DEF SentState, Phases
<1>9. srv.mode = "aes" => Ready
  <2>1. ~ Ready => Exempt(p)
    BY <1>2, SendingFacts
  <2>2. m.op = "nonce" => srv.mode # "aes"
    BY SendingFacts
  <2> QED BY <1>4, <1>5, <2>1, <2>2 DEF Exempt
<1>10. toClient' = Append(toClient, p)
  BY <1>1, <1>2, SendFacts
<1>11. IsSwitch(m) <=> p \in Switches
  BY <1>4 DEF Switches
<1> QED BY <1>2, <1>3, <1>4, <1>5, <1>6, <1>7, <1>8, <1>9, <1>10, <1>11, Bounds

LEMMA StreamSends ==
  ASSUME Types, Known, OneTurn, Rightly, Phases, Stream, Source, NonePosition,
         NEW m, Sending(m), ServerSends(m), UNCHANGED <<cli, made.unsent>>
  PROVE  Stream'
<1>1. CASE ~ sOpen
  <2>1. toClient' = toClient /\ srv' = srv
    BY <1>1 DEF ServerSends
  <2> QED BY <2>1, StreamSame
<1>2. CASE sOpen
  <2>1. PICK p \in ToClient :
          /\ p = Sent(m) /\ p.msg = m /\ p.seal = Seal(srv) /\ p.seal.mode = srv.mode
          /\ p.number = NoNumber <=> srv.mode # "aes"
          /\ srv.mode = "aes" => p.number = srv.sent /\ srv'.mode = "aes" /\ Ready
          /\ toClient' = Append(toClient, p)
          /\ IsSwitch(m) <=> p \in Switches
    BY <1>2, SentFacts
  <2>2. (p \in Switches => ~ SwitchOn) /\ (~ Ready => Exempt(p))
    BY <1>2, <2>1, SendingFacts
  <2>3. PICK n \in Nat : n = Len(toClient) + 1
    BY <2>1, AppendEarly
  <2>4. /\ Len(toClient) \in Nat /\ Len(toClient') = n
        /\ \A i \in 1..Len(toClient) : toClient'[i] = toClient[i] /\ (Early(i)' <=> Early(i))
        /\ toClient'[n] = p
        /\ Early(n)' <=> ~ SwitchOn
    BY <2>1, <2>3, AppendEarly
  <2>5. /\ Seal(cli)' = Seal(cli)
        /\ \A x : After(x)' = After(x)
        /\ \A x : Exempt(x)' = Exempt(x)
        /\ \A x : WellSealed(x) => WellSealed(x)'
        /\ Switches' = Switches
    BY <2>1 DEF Seal, After, Exempt, WellSealed, Switches
  <2>6. \A i \in 1..Len(toClient') : i \in 1..Len(toClient) \/ i = n
    BY <2>3, <2>4
  <2>7. \A i \in 1..Len(toClient) : /\ toClient[i] \in Range(toClient)
                                    /\ toClient[i] \in Switches => SwitchOn
    BY RangeIndices DEF Types, SwitchOn
  <2>8. Once(toClient, Switches)'
    <3>1. toClient \in Seq(ToClient) /\ Once(toClient, Switches)
      BY DEF Types, Stream
    <3>2. p \in Switches => Range(toClient) \cap Switches = {}
      BY <2>2 DEF SwitchOn
    <3>3. Once(Append(toClient, p), Switches)
      BY <3>1, <3>2, AppendFacts
    <3> QED BY <2>1, <2>5, <3>3 DEF Once
  <2>9. \A x \in Range(toClient') : WellSealed(x)'
    <3>1. WellSealed(p)'
      BY <2>1 DEF WellSealed
    <3>2. Range(toClient') = Range(toClient) \cup {p}
      BY <2>1, RangeFacts
    <3> QED BY <2>5, <3>1, <3>2 DEF Stream
  <2>10. ASSUME NEW i \in 1..Len(toClient'), ~ Exempt(toClient[i])', Early(i)'
         PROVE  /\ toClient'[i].seal = Seal(cli)'
                /\ cli'.mode = "aes" => cli'.got <= toClient'[i].number
    <3>1. CASE i \in 1..Len(toClient)
      BY <2>4, <2>5, <2>10, <3>1 DEF Stream
    <3>2. CASE i = n
      <4>1. Ready /\ ~ SwitchOn
        BY <2>2, <2>4, <2>5, <2>10, <3>2
      <4>2. Seal(srv) = Seal(cli) /\ (srv.mode = "aes" => cli.got <= srv.sent)
        BY <4>1 DEF Source
      <4>3. srv.mode = cli.mode
        BY <4>2 DEF Seal
      <4> QED BY <2>1, <2>4, <2>5, <3>2, <4>2, <4>3
    <3> QED BY <2>6, <3>1, <3>2
  <2>11. ASSUME NEW j \in 1..Len(toClient'), NEW i \in 1..Len(toClient'), j < i,
                toClient'[j] \in Switches, ~ Exempt(toClient[i])'
         PROVE  toClient'[i].seal = After(toClient[j].msg)'
    <3>1. j \in 1..Len(toClient) /\ toClient'[j] = toClient[j]
      BY <2>3, <2>4, <2>6, <2>11
    <3>2. CASE i \in 1..Len(toClient)
      BY <2>4, <2>5, <2>11, <3>1, <3>2 DEF Stream
    <3>3. CASE i = n
      <4>1. Ready
        BY <2>2, <2>4, <2>5, <2>11, <3>3
      <4>2. Seal(srv) = After(toClient[j].msg)
        BY <2>7, <2>11, <3>1, <4>1 DEF Source
      <4> QED BY <2>1, <2>4, <2>5, <3>1, <3>3, <4>2
    <3> QED BY <2>6, <3>2, <3>3
  <2>12. ASSUME NEW i \in 1..Len(toClient'), NEW j \in 1..Len(toClient'), i < j,
                toClient'[i].seal.mode = "aes", toClient'[j].seal.mode = "aes",
                Early(j)' \/ ~ Early(i)'
         PROVE  toClient'[i].number <= toClient'[j].number
    <3>1. i \in 1..Len(toClient) /\ toClient'[i] = toClient[i] /\ (Early(i)' <=> Early(i))
      BY <2>3, <2>4, <2>6, <2>12
    <3>2. CASE j \in 1..Len(toClient)
      BY <2>4, <2>12, <3>1, <3>2 DEF Stream
    <3>3. CASE j = n
      <4>1. srv.mode = "aes" /\ p.number = srv.sent /\ Ready
        BY <2>1, <2>4, <2>12, <3>3
      <4>2. SwitchOn => ~ Early(i)
        BY <2>4, <2>12, <3>1, <3>3
      <4>3. toClient[i].number <= srv.sent
        BY <2>12, <3>1, <4>1, <4>2 DEF Source
      <4> QED BY <2>4, <3>1, <3>3, <4>1, <4>3
    <3> QED BY <2>6, <3>2, <3>3
  <2>13. srv'.mode # "aes" => cli'.got = 0
    BY <2>1 DEF Stream
  <2> QED BY <2>5, <2>8, <2>9, <2>10, <2>11, <2>12, <2>13 DEF Stream
<1> QED BY <1>1, <1>2

\* What is common to the two lemmas that follow.
LEMMA StreamTail ==
  ASSUME Types, Stream, toClient # << >>, toClient' = Tail(toClient),
         UNCHANGED <<srv.mode, made.unsent>>
  PROVE  /\ Once(toClient, Switches)'
         /\ \A p \in Range(toClient') : WellSealed(p)'
         /\ \A i, j \in 1..Len(toClient') :
              /\ i < j /\ toClient'[i].seal.mode = "aes" /\ toClient'[j].seal.mode = "aes"
              /\ Early(j)' \/ ~ Early(i)' \/ Head(toClient) \in Switches
              => toClient'[i].number <= toClient'[j].number
<1>1. toClient \in Seq(ToClient) /\ Once(toClient, Switches) /\ Switches' = Switches
  BY DEF Types, Stream, Switches
<1>2. Range(toClient) = {Head(toClient)} \cup Range(toClient')
  BY RangeFacts
<1>3. Once(toClient, Switches)'
  <2>1. Once(Tail(toClient), Switches)
    BY <1>1, TailFacts
  <2> QED BY <1>1, <2>1 DEF Once
<1>4. \A p : WellSealed(p) => WellSealed(p)'
  BY DEF WellSealed
<1>5. \A p \in Range(toClient') : WellSealed(p)'
  BY <1>2, <1>4 DEF Stream
<1>6. ASSUME NEW i \in 1..Len(toClient'), NEW j \in 1..Len(toClient'), i < j,
             toClient'[i].seal.mode = "aes", toClient'[j].seal.mode = "aes",
             Early(j)' \/ ~ Early(i)' \/ Head(toClient) \in Switches
      PROVE  toClient'[i].number <= toClient'[j].number
  <2>1. PICK a, b \in 1..Len(toClient) :
             /\ a = i + 1 /\ b = j + 1 /\ a < b
             /\ toClient'[i] = toClient[a] /\ toClient'[j] = toClient[b]
    BY <1>1, <1>6, TailEarly
  <2>2. Early(b) \/ ~ Early(a)
    BY <1>1, <1>6, <2>1, TailEarly
  <2> QED BY <1>6, <2>1, <2>2 DEF Stream
<1> QED BY <1>3, <1>5, <1>6

LEMMA StreamPlain ==
  ASSUME Types, Stream, toClient # << >>, toClient' = Tail(toClient),
         Head(toClient) \notin Switches,
         UNCHANGED <<srv.mode, made.unsent, cli.mode, cli.key>>,
         UNCHANGED cli.tmp \/ ~ SwitchOn,
         \/ UNCHANGED cli.got
         \/ /\ cli.mode = "aes" /\ Accepts(Head(toClient), cli)
            /\ cli'.got = Head(toClient).number
  PROVE  Stream'
<1>1. Once(toClient, Switches) /\ Switches' = Switches
  BY DEF Stream, Switches
<1>2. PICK p : p = Head(toClient)
  OBVIOUS
<1>3. p = toClient[1] /\ 1 \in 1..Len(toClient) /\ p \in Range(toClient)
  BY <1>1, <1>2, TailEarly, Firsts
<1>4. /\ Seal(cli)' = Seal(cli)
      /\ \A x : Exempt(x)' = Exempt(x)
  BY DEF Seal, Exempt
<1>5. \A x : x.op \in {"nonce", "accept"} \/ UNCHANGED cli.tmp => After(x)' = After(x)
  BY DEF After
<1>6. ASSUME NEW i \in 1..Len(toClient')
      PROVE  \E a \in 1..Len(toClient) :
               /\ a = i + 1 /\ 1 < a /\ toClient'[i] = toClient[a] /\ (Early(i)' <=> Early(a))
  BY <1>1, <1>2, TailEarly
<1>7. ASSUME NEW i \in 1..Len(toClient'), ~ Exempt(toClient[i])', Early(i)'
      PROVE  /\ toClient'[i].seal = Seal(cli)'
             /\ cli'.mode = "aes" => cli'.got <= toClient'[i].number
  <2>1. PICK a \in 1..Len(toClient) :
          a = i + 1 /\ 1 < a /\ toClient'[i] = toClient[a] /\ Early(a) /\ ~ Exempt(toClient[a])
    BY <1>4, <1>6, <1>7
  <2>2. /\ toClient[a].seal = Seal(cli)
        /\ cli.mode = "aes" => cli.got <= toClient[a].number
    BY <2>1 DEF Stream
  <2>3. CASE UNCHANGED cli.got
    BY <1>4, <2>1, <2>2, <2>3
  <2>4. CASE cli.mode = "aes" /\ Accepts(Head(toClient), cli) /\ cli'.got = Head(toClient).number
    <3>1. p.seal.mode = "aes" /\ toClient[a].seal.mode = "aes"
      BY <1>2, <2>2, <2>4 DEF Accepts, Readable, Seal
    <3>2. toClient[1].number <= toClient[a].number
      BY <1>3, <2>1, <3>1 DEF Stream
    <3> QED BY <1>2, <1>3, <1>4, <2>1, <2>2, <2>4, <3>2
  <2> QED BY <2>3, <2>4
<1>8. ASSUME NEW j \in 1..Len(toClient'), NEW i \in 1..Len(toClient'), j < i,
             toClient'[j] \in Switches, ~ Exempt(toClient[i])'
      PROVE  toClient'[i].seal = After(toClient[j].msg)'
  <2>1. PICK a, b \in 1..Len(toClient) :
          a = i + 1 /\ b = j + 1 /\ toClient'[i] = toClient[a] /\ toClient'[j] = toClient[b]
    BY <1>6
  <2>2. b < a
    BY <1>8, <2>1
  <2>3. toClient[a].seal = After(toClient[b].msg)
    BY <1>4, <1>8, <2>1, <2>2 DEF Stream
  <2>4. SwitchOn
    <3>1. toClient \in Seq(ToClient)
      BY DEF Types
    <3>2. toClient[b] \in Switches
      BY <1>1, <1>8, <2>1
    <3>3. toClient[b] \in Range(toClient)
      BY <2>1, <3>1, RangeIndices
    <3> QED BY <3>2, <3>3 DEF SwitchOn
  <2> QED BY <1>5, <2>1, <2>3, <2>4
<1>9. srv'.mode # "aes" => cli'.got = 0
  <2>1. CASE UNCHANGED cli.got
    BY <2>1 DEF Stream
  <2>2. CASE cli.mode = "aes" /\ Accepts(Head(toClient), cli)
    <3>1. p.seal.mode = "aes"
      BY <1>2, <2>2 DEF Accepts, Readable, Seal
    <3>2. srv.mode = "aes"
      BY <1>3, <3>1 DEF Stream, WellSealed
    <3> QED BY <3>2
  <2> QED BY <2>1, <2>2
<1>10. /\ Once(toClient, Switches)'
       /\ \A x \in Range(toClient') : WellSealed(x)'
       /\ \A i, j \in 1..Len(toClient') :
              /\ i < j /\ toClient'[i].seal.mode = "aes" /\ toClient'[j].seal.mode = "aes"
              /\ Early(j)' \/ ~ Early(i)'
              => toClient'[i].number <= toClient'[j].number
  BY StreamTail
<1> QED BY <1>1, <1>7, <1>8, <1>9, <1>10 DEF Stream

LEMMA StreamSwitch ==
  ASSUME Types, Stream, toClient # << >>, toClient' = Tail(toClient),
         Head(toClient) \in Switches,
         UNCHANGED <<srv.mode, made.unsent>>,
         \/ Seal(cli)' = After(Head(toClient).msg)
         \/ \A p \in Range(toClient') : Exempt(p),
         cli'.mode = "aes" \/ srv.mode # "aes" => cli'.got = 0
  PROVE  Stream'
<1>1. Once(toClient, Switches) /\ Switches' = Switches
  BY DEF Stream, Switches
<1>2. PICK p : p = Head(toClient)
  OBVIOUS
<1>3. p = toClient[1] /\ 1 \in 1..Len(toClient)
  BY <1>1, <1>2, TailEarly
<1>4. \A x : Exempt(x)' = Exempt(x)
  BY DEF Exempt
<1>5. toClient' \in Seq(ToClient)
  BY Firsts
<1>6. ASSUME NEW i \in 1..Len(toClient'), ~ Exempt(toClient[i])', Early(i)'
      PROVE  /\ toClient'[i].seal = Seal(cli)'
             /\ cli'.mode = "aes" => cli'.got <= toClient'[i].number
  <2>1. PICK a \in 1..Len(toClient) : 1 < a /\ toClient'[i] = toClient[a]
    BY <1>1, TailEarly
  <2>2. PICK q \in ToClient : q = toClient[a] /\ q \in Range(toClient) /\ q \in Range(toClient')
    <3>1. toClient \in Seq(ToClient)
      BY DEF Types
    <3>2. toClient[a] \in Range(toClient) /\ toClient[a] \in ToClient
      BY <2>1, <3>1, RangeIndices
    <3>3. toClient'[i] \in Range(toClient')
      BY <1>5, RangeIndices
    <3> QED BY <2>1, <3>2, <3>3
  <2>3. q.seal = After(p.msg) /\ ~ Exempt(q)
    BY <1>2, <1>3, <1>4, <1>6, <2>1, <2>2 DEF Stream
  <2>4. Seal(cli)' = After(p.msg)
    BY <1>2, <2>2, <2>3
  <2>5. q.seal.mode = "aes" => q.number \in Nat
    BY <2>2 DEF Stream, WellSealed, ToClient, Numbers
  <2>6. q.seal = Seal(cli)' /\ Seal(cli)'.mode = cli'.mode
    BY <2>3, <2>4 DEF Seal
  <2> QED BY <2>1, <2>2, <2>5, <2>6
<1>7. ASSUME NEW j \in 1..Len(toClient'), toClient'[j] \in Switches PROVE FALSE
  BY <1>1, <1>7, TailEarly
<1>8. /\ Once(toClient, Switches)'
      /\ \A x \in Range(toClient') : WellSealed(x)'
      /\ \A i, j \in 1..Len(toClient') :
              /\ i < j /\ toClient'[i].seal.mode = "aes" /\ toClient'[j].seal.mode = "aes"
              /\ Early(j)' \/ ~ Early(i)'
              => toClient'[i].number <= toClient'[j].number
  BY StreamTail
<1> QED BY <1>1, <1>6, <1>7, <1>8 DEF Stream

\* What the client may do with the first packet on the wire.
PassesPlain ==
    /\ Head(toClient) \notin Switches /\ Head(toClient).msg.op # "accept"
    /\ UNCHANGED <<cli.mode, cli.key>>
    /\ UNCHANGED cli.tmp \/ ~ SwitchOn
    /\ \/ UNCHANGED cli.got
       \/ /\ cli.mode = "aes" /\ Accepts(Head(toClient), cli)
          /\ cli'.got = Head(toClient).number
    /\ UNCHANGED cStatus \/ (cStatus = "step1" /\ cStatus' = "rejected")

PassesSwitch ==
    /\ Head(toClient) \in Switches
    /\ Seal(cli)' = After(Head(toClient).msg)
    /\ cli'.mode = "aes" \/ srv.mode # "aes" => cli'.got = 0
    /\ handler.at = "combine" => cStatus' # "step1"

LosesNonce ==
    /\ Head(toClient) \in Switches /\ Head(toClient).msg.op = "nonce"
    /\ \A p \in Range(toClient') : Exempt(p)
    /\ UNCHANGED <<cli, cStatus>>
    /\ cStatus = "connected" /\ cli.mode = "none" /\ srv.mode # "aes" /\ cli.got = 0
    /\ made.unsent > 0

LEMMA OnlyPositions ==
  ASSUME Types, OneTurn, Rightly, Phases, Stream, toClient # << >>, toClient' = Tail(toClient),
         Head(toClient).msg.op = "nonce", made.unsent > 0
  PROVE  /\ cStatus = "connected" /\ srv.mode = "hyb"
         /\ \A p \in Range(toClient') : Exempt(p)
<1>1. PICK h \in ToClient : h = Head(toClient) /\ h \in Range(toClient) /\ h.msg.op = "nonce"
  BY Firsts
<1>2. OnTheWay
  BY DEF Rightly
<1>3. cStatus = "connected" /\ srv.mode = "hyb"
  BY <1>1, <1>2 DEF OnTheWay, ToClientRight, Phases
<1>4. ASSUME NEW p \in Range(toClient') PROVE Exempt(p)
  <2>1. p \in Range(toClient) /\ p \in ToClient /\ p.msg \in FromServer
    BY <1>4, RangeFacts, Members
  <2>2. p \notin TurnPackets
    <3>1. toClient \in Seq(ToClient) /\ Once(toClient, TurnPackets)
      BY DEF Types, OneTurn
    <3>2. h \in TurnPackets
      BY <1>1 DEF TurnPackets, IsTurn
    <3>3. Range(Tail(toClient)) \cap TurnPackets = {}
      BY <1>1, <3>1, <3>2, TailFacts
    <3> QED BY <1>4, <3>3
  <2>3. ~ IsTurn(p.msg)
    BY <2>1, <2>2 DEF TurnPackets
  <2>4. ToClientRight(p.msg)
    BY <1>2, <2>1 DEF OnTheWay
  <2>5. p.msg.op = "position"
    BY <1>3, <2>3, <2>4 DEF IsTurn, ToClientRight, RightAccept, Auth
  <2>6. p.seal.mode # "aes"
    BY <1>3, <2>1 DEF Stream, WellSealed
  <2> QED BY <2>5, <2>6 DEF Exempt
<1> QED BY <1>3, <1>4

LEMMA ClientTakes ==
  ASSUME Types, Known, OneTurn, Rightly, Phases, Stream,
         \/ HandleNonce \/ HandleAccept \/ HandleReject \/ HandleTest \/ HandleNewHalf
         \/ HandleNewKey \/ HandleOther \/ CannotRead
  PROVE  /\ toClient # << >> /\ toClient' = Tail(toClient)
         /\ UNCHANGED <<sOpen, sStatus, srv, sendq, recvq, net, handler, refresher, made.unsent>>
         /\ PassesPlain \/ PassesSwitch \/ LosesNonce
<1>0. OnTheWay /\ AtWorkRight /\ cli \in ClientEnds /\ made \in Mades
  BY DEF Rightly, Types
<1>1. ASSUME NEW op, Gets(op)
      PROVE  /\ toClient # << >> /\ toClient' = Tail(toClient)
             /\ \E p \in ToClient : /\ p = Head(toClient) /\ p.msg.op = op
                                    /\ p.msg \in FromServer
                                    /\ ToClientRight(p.msg) /\ Accepts(p, cli)
                                    /\ p \in Switches <=> IsSwitch(p.msg)
                                    /\ p.msg.op = "nonce" => srv.mode = "hyb"
  BY <1>0, <1>1, GetsFacts DEF OnTheWay, Switches, Phases
<1>2. NewKey.op = "refresh" /\ NewKey.half = {}
  BY DEF NewKey, Message
<1>3. CASE HandleNonce
  <2>1. /\ Gets("nonce") /\ cStatus' = "step1"
        /\ cli' = [cli EXCEPT !.mode = "hyb", !.key = ClientHalf(made.client + 1)]
        /\ made' = [made EXCEPT !.client = @ + 1]
        /\ cStatus = "connected"
        /\ UNCHANGED <<sOpen, sStatus, srv, sendq, recvq, net, handler, refresher>>
    BY <1>3 DEF HandleNonce, server
  <2>2. PICK p \in ToClient : /\ p = Head(toClient) /\ p.msg.op = "nonce" /\ srv.mode = "hyb"
                              /\ p \in Switches
    BY <1>1, <2>1 DEF IsSwitch
  <2>3. cli'.mode = "hyb" /\ cli'.got = cli.got
    BY <1>0, <2>1 DEF ClientEnds
  <2>4. cli.got = 0
    BY <2>2 DEF Stream
  <2>5. Seal(cli)' = After(p.msg)
    BY <2>2, <2>3 DEF Seal, After
  <2>6. handler.at # "combine"
    BY <1>0, <2>1 DEF AtWorkRight
  <2>7. PassesSwitch
    BY <2>2, <2>3, <2>4, <2>5, <2>6 DEF PassesSwitch
  <2> QED BY <1>0, <1>1, <2>1, <2>7, MadeFacts
<1>4. CASE HandleAccept
  <2>1. /\ Gets("accept") /\ cStatus' = "step2"
        /\ cli' = Rekeyed(cli, Xor(cli.key, Head(toClient).msg.half))
        /\ UNCHANGED <<sOpen, sStatus, srv, sendq, recvq, net, handler, refresher, made>>
    BY <1>4 DEF HandleAccept, server, Half
  <2>2. PICK p \in ToClient : p = Head(toClient) /\ p.msg.op = "accept" /\ p \in Switches
    BY <1>1, <2>1 DEF IsSwitch
  <2>3. cli'.mode = "aes" /\ cli'.got = 0 /\ cli'.key = Xor(cli.key, p.msg.half)
    BY <1>0, <2>1, <2>2 DEF ClientEnds, Rekeyed
  <2>4. Seal(cli)' = After(p.msg)
    BY <2>2, <2>3 DEF Seal, After
  <2>5. PassesSwitch
    BY <2>1, <2>2, <2>3, <2>4 DEF PassesSwitch
  <2> QED BY <1>1, <2>1, <2>5
<1>5. CASE HandleNewKey
  <2>1. /\ Gets("refresh") /\ Head(toClient).msg.half = {} /\ cli' = Rekeyed(cli, cli.tmp)
        /\ UNCHANGED <<sOpen, sStatus, cStatus, srv, sendq, recvq, net, handler, refresher, made>>
    BY <1>5 DEF HandleNewKey, server, Half
  <2>2. PICK p \in ToClient : p = Head(toClient) /\ p.msg.op = "refresh" /\ p \in Switches
                              /\ cStatus = "authenticated"
    <3>1. PICK p \in ToClient : /\ p = Head(toClient) /\ p.msg.op = "refresh"
                                /\ p.msg \in FromServer /\ ToClientRight(p.msg)
                                /\ p \in Switches <=> IsSwitch(p.msg)
      BY <1>1, <2>1
    <3>2. p.msg = NewKey
      BY <2>1, <3>1, ToClientMessages
    <3> QED BY <1>2, <3>1, <3>2 DEF IsSwitch, ToClientRight, Auth
  <2>3. cli'.mode = "aes" /\ cli'.got = 0 /\ cli'.key = cli.tmp
    BY <1>0, <2>1 DEF ClientEnds, Rekeyed
  <2>4. Seal(cli)' = After(p.msg)
    BY <2>2, <2>3 DEF Seal, After
  <2>5. PassesSwitch
    BY <2>1, <2>2, <2>3, <2>4 DEF PassesSwitch
  <2> QED BY <1>1, <2>1, <2>5
<1>6. CASE HandleReject
  <2>1. /\ Gets("reject") /\ cStatus = "step1" /\ cStatus' = "rejected"
        /\ UNCHANGED <<sOpen, sStatus, cli, srv, sendq, recvq, net, handler, refresher, made>>
    BY <1>6 DEF HandleReject, server
  <2>2. PassesPlain
    BY <1>1, <1>2, <2>1 DEF PassesPlain, IsSwitch
  <2> QED BY <1>1, <2>1, <2>2
<1>7. CASE HandleOther
  <2>1. /\ Gets("position") \/ Gets("message")
        /\ cli' = Received(Head(toClient), cli)
        /\ UNCHANGED <<sOpen, sStatus, cStatus, srv, sendq, recvq, net, handler, refresher, made>>
    BY <1>7 DEF HandleOther, server
  <2>2. PICK p \in ToClient : /\ p = Head(toClient) /\ Accepts(p, cli)
                              /\ p \notin Switches /\ p.msg.op # "accept"
    BY <1>1, <1>2, <2>1 DEF IsSwitch
  <2>3. /\ UNCHANGED <<cli.mode, cli.key, cli.tmp>>
        /\ cli'.got = IF cli.mode = "aes" THEN p.number ELSE cli.got
    BY <2>1, <2>2, ReceivedFacts
  <2>4. PassesPlain
    BY <2>1, <2>2, <2>3 DEF PassesPlain
  <2> QED BY <1>1, <2>1, <2>4
<1>8. CASE HandleTest
  <2>1. /\ Gets("test")
        /\ cli' = Numbered(Received(Head(toClient), cli))
        /\ UNCHANGED <<sOpen, sStatus, cStatus, srv, sendq, recvq, net, handler, refresher, made>>
    BY <1>8 DEF HandleTest, server
  <2>2. PICK p \in ToClient : /\ p = Head(toClient) /\ Accepts(p, cli)
                              /\ p \notin Switches /\ p.msg.op # "accept"
    BY <1>1, <1>2, <2>1 DEF IsSwitch
  <2>3. /\ UNCHANGED <<cli.mode, cli.key, cli.tmp>>
        /\ cli'.got = IF cli.mode = "aes" THEN p.number ELSE cli.got
    BY <2>1, <2>2, ReceivedFacts
  <2>4. PassesPlain
    BY <2>1, <2>2, <2>3 DEF PassesPlain
  <2> QED BY <1>1, <2>1, <2>4
<1>9. CASE HandleNewHalf
  <2>1. /\ Gets("refresh") /\ Head(toClient).msg.half # {}
        /\ made' = [made EXCEPT !.client = @ + 1]
        /\ cli' = [Numbered(Received(Head(toClient), cli)) EXCEPT
                     !.tmp = Xor(ClientHalf(made.client + 1), Head(toClient).msg.half)]
        /\ UNCHANGED <<sOpen, sStatus, cStatus, srv, sendq, recvq, net, handler, refresher>>
    BY <1>9 DEF HandleNewHalf, server, Half
  <2>2. PICK p \in ToClient : /\ p = Head(toClient) /\ Accepts(p, cli)
                              /\ p \notin Switches /\ p.msg.op = "refresh"
                              /\ ToClientRight(p.msg) /\ p.msg.half # {}
    BY <1>1, <1>2, <2>1 DEF IsSwitch
  <2>3. PICK e \in ClientEnds :
          /\ e = Numbered(Received(p, cli))
          /\ e.mode = cli.mode /\ e.key = cli.key
          /\ e.got = IF cli.mode = "aes" THEN p.number ELSE cli.got
    BY <2>2, ReceivedFacts
  <2>4. /\ UNCHANGED <<cli.mode, cli.key>>
        /\ cli'.got = IF cli.mode = "aes" THEN p.number ELSE cli.got
    BY <2>1, <2>2, <2>3 DEF ClientEnds
  <2>5. Auth
    BY <2>2 DEF ToClientRight
  <2>6. ASSUME NEW q \in Range(toClient) \cap Switches PROVE FALSE
    <3>1. q \in Range(toClient')
      BY <1>1, <2>1, <2>2, <2>6, RangeFacts
    <3>2. ~ IsTurn(q.msg)
      BY <1>0, <2>1, <3>1, GetsAlone
    <3>3. q.msg.op = "accept"
      BY <1>2, <2>6, <3>2 DEF Switches, IsSwitch, IsTurn
    <3>4. cStatus = "step1"
      BY <1>0, <2>6, <3>3 DEF OnTheWay, ToClientRight, RightAccept
    <3> QED BY <2>5, <3>4 DEF Auth
  <2>7. ~ SwitchOn
    BY <2>6 DEF SwitchOn
  <2>8. PassesPlain
    BY <2>1, <2>2, <2>4, <2>7 DEF PassesPlain
  <2> QED BY <1>0, <1>1, <2>1, <2>8, MadeFacts
<1>10. CASE CannotRead
  <2>1. /\ toClient # << >> /\ toClient' = Tail(toClient)
        /\ ~ Accepts(Head(toClient), cli)
        /\ UNCHANGED <<sOpen, sStatus, cStatus, srv, cli, sendq, recvq, net, handler, refresher, made>>
    BY <1>10 DEF CannotRead, server
  <2>2. PICK p \in ToClient : p = Head(toClient) /\ Exempt(p)
    BY <2>1, Firsts, FirstIsRead
  <2>3. CASE p.msg.op = "nonce"
    <3>1. /\ cStatus = "connected" /\ srv.mode = "hyb" /\ made.unsent > 0
          /\ \A q \in Range(toClient') : Exempt(q)
      BY <2>1, <2>2, <2>3, OnlyPositions DEF Exempt
    <3>2. cli.mode = "none" /\ cli.got = 0
      BY <3>1 DEF Phases, Stream
    <3>3. p \in Switches
      BY <2>3 DEF Switches, IsSwitch
    <3> QED BY <2>1, <2>2, <2>3, <3>1, <3>2, <3>3 DEF LosesNonce
  <2>4. CASE p.msg.op = "position"
    BY <1>2, <2>1, <2>2, <2>4 DEF PassesPlain, Switches, IsSwitch
  <2> QED BY <2>2, <2>3, <2>4 DEF Exempt
<1> QED BY <1>3, <1>4, <1>5, <1>6, <1>7, <1>8, <1>9, <1>10

LEMMA StreamClient ==
  ASSUME Types, Stream, toClient # << >>, toClient' = Tail(toClient),
         UNCHANGED <<srv, made.unsent>>, PassesPlain \/ PassesSwitch \/ LosesNonce
  PROVE  Stream'
<1>1. CASE PassesPlain
  BY <1>1, StreamPlain DEF PassesPlain
<1>2. CASE PassesSwitch
  BY <1>2, StreamSwitch DEF PassesSwitch
<1>3. CASE LosesNonce
  BY <1>3, StreamSwitch DEF LosesNonce
<1> QED BY <1>1, <1>2, <1>3

\* What the other steps, except CombineKeys, leave alone.
Quiet ==
    /\ UNCHANGED <<toClient, cli.mode, cli.key, cli.tmp, cli.got, made.unsent, srv.mode, srv.sent>>
    /\ UNCHANGED srv.key \/ srv.mode # "aes"
    /\ sOpen' => sOpen
    /\ handler.at = "combine" <=> handler'.at = "combine"
    /\ UNCHANGED cStatus \/ (cStatus = "step2" /\ cStatus' = "authenticated")

LEMMA QuietSteps ==
  ASSUME Types, Known, OneTurn, Rightly,
         \/ \E t \in NetThreads : NetTakes(t) \/ NetReceives(t) \/ NetQueues(t)
         \/ LoginStarts \/ HandleRequest \/ HandleAnswer \/ LoginTimeout \/ HandleRefreshKey
         \/ GenerateNewKey \/ HandleMessage \/ Tell \/ ServerHearsClose \/ ClientHearsClose
         \/ CoreSends \/ UserTypes \/ UserSends
  PROVE  Quiet
<1>0. srv \in ServerEnds /\ cli \in ClientEnds /\ made \in Mades /\ OnTheWay
  BY DEF Types, Rightly
<1>1. ASSUME NEW t \in NetThreads, NetTakes(t) \/ NetReceives(t) \/ NetQueues(t) PROVE Quiet
  <2>1. /\ srv' = srv \/ srv' = Received(Head(toServer), srv)
        /\ sOpen' => sOpen
        /\ UNCHANGED <<toClient, cStatus, cli, handler, made>>
    BY <1>1 DEF NetTakes, NetReceives, NetQueues, client, wires
  <2>2. UNCHANGED <<srv.mode, srv.key, srv.sent>>
    BY <1>0, <2>1 DEF ServerEnds, Received
  <2> QED BY <2>1, <2>2 DEF Quiet
<1>2. CASE LoginStarts
  <2>1. /\ srv' = [srv EXCEPT !.next = "hyb"]
        /\ UNCHANGED <<toClient, sOpen, cStatus, cli, handler, made>>
    BY <1>2 DEF LoginStarts, wires, client
  <2>2. UNCHANGED <<srv.mode, srv.key, srv.sent>>
    BY <1>0, <2>1 DEF ServerEnds
  <2> QED BY <2>1, <2>2 DEF Quiet
<1>3. CASE HandleRequest
  <2>1. /\ Takes("request")
        /\ srv' = srv \/ srv' = [srv EXCEPT !.key = ServerHalf(made.server + 1)]
        /\ made' = made \/ made' = [made EXCEPT !.server = @ + 1]
        /\ handler'.at # "combine"
        /\ UNCHANGED <<toClient, sOpen, cStatus, cli>>
    BY <1>3, BusyFacts DEF HandleRequest, wires, client
  <2>2. ToServerRight(Head(recvq), "authenticated") /\ Head(recvq).op = "request"
        /\ handler.at = "idle"
    BY <1>0, <2>1, TakesAlone
  <2>3. srv.mode = "hyb"
    BY <2>2 DEF ToServerRight
  <2>4. UNCHANGED <<srv.mode, srv.sent, made.unsent>>
    BY <1>0, <2>1 DEF ServerEnds, Mades
  <2> QED BY <2>1, <2>2, <2>3, <2>4 DEF Quiet
<1>4. CASE HandleAnswer \/ LoginTimeout \/ HandleMessage \/ Tell \/ ServerHearsClose
           \/ ClientHearsClose
  <2>1. /\ UNCHANGED <<toClient, cStatus, srv, cli, handler>>
        /\ made' = made \/ made' = [made EXCEPT !.told = @ + 1]
        /\ sOpen' => sOpen
    BY <1>4 DEF HandleAnswer, LoginTimeout, HandleMessage, Tell, ServerHearsClose,
                ClientHearsClose, wires, client, server
  <2>2. UNCHANGED made.unsent
    BY <1>0, <2>1 DEF Mades
  <2> QED BY <2>1, <2>2 DEF Quiet
<1>5. CASE HandleRefreshKey
  <2>1. /\ Takes("refresh")
        /\ \/ UNCHANGED <<srv, handler>>
           \/ /\ srv' = [srv EXCEPT !.tmp = Xor(@, Head(recvq).half), !.changekeys = 1]
              /\ handler'.at # "combine"
        /\ UNCHANGED <<toClient, sOpen, cStatus, cli, made>>
    BY <1>5, BusyFacts DEF HandleRefreshKey, wires, client
  <2>2. handler.at = "idle"
    BY <2>1, TakesFacts
  <2>3. UNCHANGED <<srv.mode, srv.key, srv.sent>>
    BY <1>0, <2>1 DEF ServerEnds
  <2> QED BY <2>1, <2>2, <2>3 DEF Quiet
<1>6. CASE GenerateNewKey
  <2>1. /\ srv' = [srv EXCEPT !.tmp = ServerHalf(made.server + 1), !.changekeys = 0]
        /\ made' = [made EXCEPT !.server = @ + 1, !.overlap = @ \/ Exchanging]
        /\ UNCHANGED <<toClient, sOpen, cStatus, cli, handler>>
    BY <1>6 DEF GenerateNewKey, wires, client
  <2>2. UNCHANGED <<srv.mode, srv.key, srv.sent, made.unsent>>
    BY <1>0, <2>1 DEF ServerEnds, Mades
  <2> QED BY <2>1, <2>2 DEF Quiet
<1>7. CASE UserTypes \/ UserSends
  <2>1. /\ cli' = cli \/ cli' = Numbered(cli)
        /\ made' = made \/ made' = [made EXCEPT !.typed = @ + 1]
        /\ UNCHANGED <<toClient, sOpen, cStatus, srv, handler>>
    BY <1>7 DEF UserTypes, UserSends, server, wires
  <2>2. UNCHANGED <<cli.mode, cli.key, cli.tmp, cli.got, made.unsent>>
    BY <1>0, <2>1 DEF ClientEnds, Numbered, Mades
  <2> QED BY <2>1, <2>2 DEF Quiet
<1>8. CASE CoreSends
  <2>1. /\ core.at = "send"
        /\ cStatus' = IF core.msg.op = "answer" THEN "authenticated" ELSE cStatus
        /\ UNCHANGED <<toClient, sOpen, cli, srv, handler, made>>
    BY <1>8 DEF CoreSends, server
  <2>2. core.msg.op = "answer" => cStatus = "step2"
    BY <1>0, <2>1 DEF OnTheWay, ToServerRight
  <2> QED BY <2>1, <2>2 DEF Quiet
<1> QED BY <1>1, <1>2, <1>3, <1>4, <1>5, <1>6, <1>7, <1>8

LEMMA StreamQuiet ==
  ASSUME Stream, Quiet
  PROVE  Stream'
BY StreamSame DEF Quiet

LEMMA StreamCombine ==
  ASSUME Types, Stream, CombineKeys
  PROVE  Stream'
<1>1. /\ srv' = Rekeyed(srv, Xor(srv.key, handler.msg.half))
      /\ UNCHANGED <<toClient, cli, made>>
  BY DEF CombineKeys, wires, client
<1>2. srv'.mode = "aes"
  BY <1>1 DEF Types, ServerEnds, Rekeyed
<1> QED BY <1>1, <1>2, StreamSame

-----------------------------------------------------------------------------
(* What the server seals with.                                              *)

LEMMA SourceQuiet ==
  ASSUME Source, Quiet
  PROVE  Source'
<1>1. /\ Seal(srv)' = Seal(srv) /\ Seal(cli)' = Seal(cli)
      /\ \A x : After(x)' = After(x)
      /\ \A i : Early(i)' = Early(i)
      /\ Switches' = Switches /\ SwitchOn' = SwitchOn
      /\ Range(toClient') = Range(toClient)
  BY DEF Quiet, Seal, After, Early, Switches, SwitchOn
<1>2. Ready' => Ready
  BY <1>1 DEF Quiet, Ready
<1> QED BY <1>1, <1>2 DEF Source, Quiet

LEMMA AcceptQuiet ==
  ASSUME AcceptSent, Quiet
  PROVE  AcceptSent'
BY DEF AcceptSent, Quiet

LEMMA SourceCombine ==
  ASSUME Types, Known, OneTurn, Rightly, Phases, Stream, AcceptSent, CombineKeys
  PROVE  Source' /\ AcceptSent'
<1>0. OnTheWay /\ AtWorkRight /\ srv \in ServerEnds
  BY DEF Rightly, Types
<1>1. /\ handler.at = "combine" /\ handler' = [handler EXCEPT !.at = "test"]
      /\ srv' = Rekeyed(srv, Xor(srv.key, handler.msg.half))
      /\ UNCHANGED <<toClient, cli, made, sOpen, cStatus>>
  BY DEF CombineKeys, wires, client
<1>2. /\ srv'.mode = "aes" /\ srv'.key = Xor(srv.key, handler.msg.half) /\ srv'.sent = 0
  BY <1>0, <1>1 DEF ServerEnds, Rekeyed
<1>3. handler' = Busy("test", handler.msg)
  BY <1>1 DEF Types, HandlerJobs, Idle, Busy
<1>4. handler'.at # "combine"
  BY <1>3, BusyFacts
<1>5. srv.mode = "hyb"
  BY <1>0, <1>1 DEF AtWorkRight
<1>6. \A i \in 1..Len(toClient) : toClient[i].seal.mode # "aes"
  <2>1. \A i \in 1..Len(toClient) : toClient[i] \in Range(toClient)
    BY RangeIndices DEF Types
  <2> QED BY <1>5, <2>1 DEF Stream, WellSealed
<1>7. ASSUME NEW q \in Range(toClient) \cap Switches
      PROVE  q.msg.op = "accept" /\ q.msg.half = srv.key /\ cStatus = "step1"
  <2>1. ~ IsTurn(q.msg) /\ IsSwitch(q.msg)
    BY <1>1, Holder, Plain DEF Switches
  <2>2. q.msg.op = "accept"
    BY <2>1 DEF IsTurn, IsSwitch, NewKey, Message
  <2>3. RightAccept(q.msg.half)
    BY <1>0, <2>2 DEF OnTheWay, ToClientRight
  <2> QED BY <1>5, <2>2, <2>3 DEF RightAccept
<1>8. Source'
  <2>1. CASE cStatus = "step1" /\ handler.msg.half = cli.key /\ sOpen
    <3>1. PICK p \in Range(toClient) : p.msg.op = "accept"
      BY <1>1, <2>1 DEF AcceptSent
    <3>2. p \in Switches
      BY <3>1, Members DEF Switches, IsSwitch
    <3>3. SwitchOn'
      BY <1>1, <3>1, <3>2 DEF SwitchOn, Switches
    <3>4. Xor(srv.key, cli.key) = Xor(cli.key, srv.key)
      BY DEF Xor
    <3>5. ASSUME NEW q \in Range(toClient) \cap Switches PROVE Seal(srv)' = After(q.msg)'
      <4>1. q.msg.op = "accept" /\ q.msg.half = srv.key
        BY <1>7
      <4> QED BY <1>1, <1>2, <2>1, <3>4, <4>1 DEF Seal, After
    <3>6. (Range(toClient) \cap Switches)' = Range(toClient) \cap Switches
      BY <1>1 DEF Switches
    <3> QED BY <1>1, <1>6, <3>3, <3>5, <3>6 DEF Source
  <2>2. CASE cStatus = "step2" /\ cli.mode = "aes" /\ cli.key = Xor(srv.key, handler.msg.half)
    <3>1. Range(toClient) \cap Switches = {}
      BY <1>7, <2>2
    <3>2. Range(toClient') \cap Switches' = {}
      BY <1>1, <3>1 DEF Switches
    <3>3. Seal(srv)' = Seal(cli)'
      BY <1>1, <1>2, <2>2 DEF Seal
    <3>4. cli'.got <= srv'.sent
      BY <1>1, <1>2, <1>5 DEF Stream
    <3> QED BY <1>1, <1>6, <3>2, <3>3, <3>4 DEF Source
  <2>3. CASE ~ sOpen
    BY <1>1, <2>3 DEF Source, Ready
  <2>4. \/ cStatus = "step1" /\ handler.msg.half = cli.key
        \/ cStatus = "step2" /\ cli.mode = "aes" /\ cli.key = Xor(srv.key, handler.msg.half)
    BY <1>0, <1>1 DEF AtWorkRight
  <2> QED BY <2>1, <2>2, <2>3, <2>4
<1>9. AcceptSent'
  BY <1>4 DEF AcceptSent
<1> QED BY <1>8, <1>9

LEMMA SourceSends ==
  ASSUME Types, Known, OneTurn, Rightly, Phases, Stream, Source, AcceptSent, NonePosition,
         NEW m, Sending(m), ServerSends(m), UNCHANGED <<cli, made.unsent, cStatus>>,
         sOpen' => sOpen,
         m.op = "accept" => handler'.at = "combine",
         handler.at = "combine" => handler'.at = "combine",
         m.op # "accept" => (handler'.at = "combine" => handler.at = "combine")
  PROVE  Source' /\ AcceptSent'
<1>1. CASE ~ sOpen
  BY <1>1 DEF Source, Ready, AcceptSent
<1>2. CASE sOpen
  <2>1. PICK p \in ToClient :
          /\ p = Sent(m) /\ p.msg = m /\ p.seal = Seal(srv) /\ p.seal.mode = srv.mode
          /\ srv.mode = "aes" => p.number = srv.sent /\ srv'.mode = "aes" /\ Ready
          /\ srv.sent \in Nat /\ srv'.sent \in Nat
          /\ toClient' = Append(toClient, p)
          /\ IsSwitch(m) <=> p \in Switches
    BY <1>2, SentFacts
  <2>2. /\ m \in FromServer
        /\ m = NewKey => /\ Rekeys(m) /\ srv.tmp = cli.tmp /\ srv.mode = "aes"
        /\ m # NewKey => ~ Rekeys(m)
        /\ m.op = "nonce" => sStatus # "connected" /\ srv.mode \in {"none", "hyb"}
        /\ IsSwitch(m) => ~ SwitchOn
        /\ m.op = "position" => made.unsent > 0
    BY <1>2, SendingFacts
  <2>3. SentState(m)
    BY <1>2, <2>2, SendFacts
  <2>4. Range(toClient') = Range(toClient) \cup {p}
    BY <2>1, RangeFacts
  <2>5. AcceptSent'
    BY <1>2, <2>1, <2>4 DEF AcceptSent
  <2>6. PICK n \in Nat : n = Len(toClient) + 1
    BY <2>1, AppendEarly
  <2>7. /\ Len(toClient) \in Nat /\ Len(toClient') = n
        /\ \A i \in 1..Len(toClient) : toClient'[i] = toClient[i] /\ (Early(i)' <=> Early(i))
        /\ toClient'[n] = p
        /\ Early(n)' <=> ~ SwitchOn
        /\ SwitchOn' <=> SwitchOn \/ p \in Switches
    BY <2>1, <2>6, AppendEarly
  <2>8. \A i \in 1..Len(toClient') : i \in 1..Len(toClient) \/ i = n
    BY <2>6, <2>7
  <2>9. /\ Seal(cli)' = Seal(cli)
        /\ \A x : After(x)' = After(x)
        /\ Switches' = Switches
    BY DEF Seal, After, Switches
  <2>10. \A i \in 1..Len(toClient) : /\ toClient[i] \in Range(toClient)
                                     /\ toClient[i] \in Switches => SwitchOn
    BY RangeIndices DEF Types, SwitchOn
  <2>11. \A i \in 1..Len(toClient) : toClient[i].seal.mode = "aes" => srv.mode = "aes"
    BY <2>10 DEF Stream, WellSealed
  <2>12. CASE m.op = "nonce"
    <3>1. srv'.mode = "hyb" /\ m # NewKey
      BY <2>2, <2>3, <2>12 DEF SentState, NewKey, Message, Phases
    <3>2. p \in Switches /\ ~ SwitchOn
      BY <2>1, <2>2, <2>12 DEF IsSwitch
    <3>3. \A q \in Range(toClient') \cap Switches : q = p
      BY <2>4, <3>2 DEF SwitchOn
    <3>4. Seal(srv)' = After(m)
      BY <2>12, <3>1 DEF Seal, After
    <3>5. \A i \in 1..Len(toClient') : toClient'[i].seal.mode # "aes"
      BY <2>1, <2>2, <2>7, <2>8, <2>11, <2>12
    <3>6. SwitchOn'
      BY <2>7, <3>2
    <3>7. \A q \in Range(toClient') \cap Switches' : Seal(srv)' = After(q.msg)'
      BY <2>1, <2>9, <3>3, <3>4
    <3> QED BY <2>5, <3>5, <3>6, <3>7 DEF Source
  <2>13. CASE m = NewKey
    <3>1. srv'.mode = "aes" /\ srv'.key = cli.tmp /\ srv'.sent = 0
      BY <2>2, <2>3, <2>13 DEF SentState
    <3>2. p \in Switches /\ ~ SwitchOn
      BY <2>1, <2>2, <2>13 DEF IsSwitch
    <3>3. \A q \in Range(toClient') \cap Switches : q = p
      BY <2>4, <3>2 DEF SwitchOn
    <3>4. Seal(srv)' = After(m)
      BY <2>13, <3>1 DEF Seal, After, NewKey, Message
    <3>5. \A i \in 1..Len(toClient') : Early(i)'
      <4>1. \A i \in 1..Len(toClient) : Early(i)
        BY <2>7, <2>10, <3>2 DEF Early
      <4> QED BY <2>7, <2>8, <3>2, <4>1
    <3>6. SwitchOn'
      BY <2>7, <3>2
    <3>7. \A q \in Range(toClient') \cap Switches' : Seal(srv)' = After(q.msg)'
      BY <2>1, <2>9, <3>3, <3>4
    <3> QED BY <2>5, <3>5, <3>6, <3>7 DEF Source
  <2>14. CASE m.op \notin {"nonce", "accept"} /\ m # NewKey
    <3> SUFFICES ASSUME Ready' PROVE Source'
      BY <2>5 DEF Source
    <3>1. p \notin Switches /\ (SwitchOn' <=> SwitchOn)
      BY <2>1, <2>7, <2>14 DEF IsSwitch
    <3>2. Ready
      BY <1>2, <2>14, <3>1 DEF Ready
    <3>3. srv.next = "hyb" => srv.mode # "none"
      <4> SUFFICES ASSUME srv.next = "hyb", srv.mode = "none" PROVE FALSE
        OBVIOUS
      <4>1. handler.at # "combine" /\ OnTheWay
        BY <3>2 DEF Ready, Rightly
      <4>2. cStatus = "connected"
        BY <1>2, <4>1 DEF Phases, Types, LoginStates
      <4>3. ~ SwitchOn
        <5>1. ASSUME NEW q \in Range(toClient) \cap Switches PROVE FALSE
          <6>1. ToClientRight(q.msg) /\ IsSwitch(q.msg)
            BY <4>1 DEF OnTheWay, Switches
          <6> QED BY <4>2, <6>1
               DEF IsSwitch, ToClientRight, RightAccept, Auth, Phases, NewKey, Message
        <5> QED BY <5>1 DEF SwitchOn
      <4>4. made.unsent = 0
        BY <3>2, <4>2, <4>3 DEF Ready
      <4>5. m.op # "position"
        BY <2>2, <4>4
      <4>6. Rightly
        OBVIOUS
      <4>7. ASSUME NEW t \in NetThreads, net[t].at = "send", m = net[t].msg PROVE FALSE
        <5>1. m.op \in {"position", "message", "nonce"} /\ ToClientRight(m)
          BY <4>1, <4>7, NetFacts, QueuedMessages DEF OnTheWay
        <5> QED BY <2>14, <4>2, <4>5, <5>1 DEF ToClientRight, Auth
      <4>8. handler.at \notin {"accept", "test", "reject", "announce"} /\ refresher.at # "send"
        BY <4>2, <4>6 DEF Rightly, AtWorkRight, Auth
      <4> QED BY <4>7, <4>8 DEF Sending
    <3>4. UNCHANGED <<srv.mode, srv.key>>
      BY <2>2, <2>3, <2>14, <3>3 DEF SentState, Phases
    <3>5. srv'.sent = IF srv.mode = "aes" THEN srv.sent + 1 ELSE srv.sent
      BY <2>2, <2>3, <2>14 DEF SentState
    <3>6. Seal(srv)' = Seal(srv)
      BY <3>4 DEF Seal
    <3>7. ~ SwitchOn' => /\ Seal(srv)' = Seal(cli)'
                         /\ srv'.mode = "aes" => cli'.got <= srv'.sent
      <4>1. cli.got \in Nat /\ cli' = cli
        BY DEF Types, ClientEnds
      <4>2. ~ SwitchOn => Seal(srv) = Seal(cli) /\ (srv.mode = "aes" => cli.got <= srv.sent)
        BY <3>2 DEF Source
      <4>3. srv.sent <= srv'.sent
        BY <2>1, <3>5
      <4>4. ASSUME ~ SwitchOn, srv.mode = "aes" PROVE cli.got <= srv'.sent
        BY <2>1, <4>1, <4>2, <4>3, <4>4
      <4> QED BY <2>9, <3>1, <3>4, <3>6, <4>1, <4>2, <4>4
    <3>8. \A q \in Range(toClient') \cap Switches' : Seal(srv)' = After(q.msg)'
      BY <2>4, <2>9, <3>1, <3>2, <3>6 DEF Source
    <3>9. ASSUME NEW i \in 1..Len(toClient'), toClient'[i].seal.mode = "aes",
                 SwitchOn' => ~ Early(i)'
          PROVE  toClient'[i].number <= srv'.sent
      <4>1. CASE i \in 1..Len(toClient)
        <5>1. PICK q \in ToClient : q = toClient[i] /\ q \in Range(toClient)
          BY <4>1, RangeIndices DEF Types
        <5>2. q.number <= srv.sent /\ srv.mode = "aes"
          BY <2>7, <2>11, <3>1, <3>2, <3>9, <4>1, <5>1 DEF Source
        <5>3. q.number \in Int
          BY <5>1, Bounds DEF ToClient, Numbers
        <5> QED BY <2>1, <2>7, <3>5, <4>1, <5>1, <5>2, <5>3
      <4>2. CASE i = n
        BY <2>1, <2>7, <3>5, <3>9, <4>2
      <4> QED BY <2>8, <4>1, <4>2
    <3> QED BY <3>7, <3>8, <3>9 DEF Source
  <2>15. CASE m.op = "accept"
    BY <2>5, <2>15 DEF Source, Ready
  <2> QED BY <2>5, <2>12, <2>13, <2>14, <2>15
<1> QED BY <1>1, <1>2

LEMMA SourceClient ==
  ASSUME Types, Stream, Source, AcceptSent, toClient # << >>, toClient' = Tail(toClient),
         UNCHANGED <<sOpen, srv, handler, made.unsent>>,
         PassesPlain \/ PassesSwitch \/ LosesNonce
  PROVE  Source' /\ AcceptSent'
<1>1. Once(toClient, Switches) /\ Switches' = Switches
  BY DEF Stream, Switches
<1>2. PICK p \in ToClient : p = Head(toClient) /\ p \in Range(toClient)
  BY Firsts
<1>3. p = toClient[1] /\ 1 \in 1..Len(toClient)
  BY <1>1, <1>2, TailEarly
<1>4. Range(toClient) = {p} \cup Range(toClient')
  BY <1>2, RangeFacts
<1>5. srv.sent \in Nat /\ cli.got \in Nat
  BY DEF Types, ServerEnds, ClientEnds
<1>6. CASE PassesPlain
  <2>1. /\ p \notin Switches /\ p.msg.op # "accept"
        /\ UNCHANGED <<cli.mode, cli.key>>
        /\ UNCHANGED cli.tmp \/ ~ SwitchOn
        /\ UNCHANGED cStatus \/ (cStatus = "step1" /\ cStatus' = "rejected")
    BY <1>2, <1>6 DEF PassesPlain
  <2>2. /\ SwitchOn' <=> SwitchOn
        /\ \A i \in 1..Len(toClient') : \E a \in 1..Len(toClient) :
              toClient'[i] = toClient[a] /\ (Early(i)' <=> Early(a))
    BY <1>1, <1>2, <2>1, TailEarly
  <2>3. Seal(cli)' = Seal(cli) /\ Seal(srv)' = Seal(srv)
    BY <2>1 DEF Seal
  <2>4. AcceptSent'
    BY <1>4, <2>1 DEF AcceptSent
  <2>5. Ready' => Ready
    BY <2>1, <2>2 DEF Ready
  <2>6. \A x : UNCHANGED cli.tmp => After(x)' = After(x)
    BY <2>1 DEF After
  <2>7. ASSUME Ready', NEW q \in Range(toClient') \cap Switches' PROVE Seal(srv)' = After(q.msg)'
    <3>1. q \in Range(toClient) \cap Switches /\ SwitchOn
      BY <1>1, <1>4, <2>7 DEF SwitchOn
    <3>2. Seal(srv) = After(q.msg)
      BY <2>5, <2>7, <3>1 DEF Source
    <3> QED BY <2>1, <2>3, <2>6, <3>1, <3>2
  <2>8. ASSUME Ready', ~ SwitchOn'
        PROVE  /\ Seal(srv)' = Seal(cli)'
               /\ srv'.mode = "aes" => cli'.got <= srv'.sent
    <3>1. Ready /\ ~ SwitchOn
      BY <2>2, <2>5, <2>8
    <3>2. Seal(srv) = Seal(cli) /\ (srv.mode = "aes" => cli.got <= srv.sent)
      BY <3>1 DEF Source
    <3>3. CASE UNCHANGED cli.got
      BY <2>3, <3>2, <3>3
    <3>4. CASE cli.mode = "aes" /\ Accepts(p, cli) /\ cli'.got = p.number
      <4>1. p.seal.mode = "aes"
        BY <3>4 DEF Accepts, Readable, Seal
      <4>2. p.number <= srv.sent
        BY <1>3, <3>1, <4>1 DEF Source
      <4> QED BY <2>3, <3>2, <3>4, <4>2
    <3> QED BY <1>2, <1>6, <3>3, <3>4 DEF PassesPlain
  <2>9. ASSUME Ready', NEW i \in 1..Len(toClient'), toClient'[i].seal.mode = "aes",
               SwitchOn' => ~ Early(i)'
        PROVE  toClient'[i].number <= srv'.sent
    BY <2>2, <2>5, <2>9 DEF Source
  <2> QED BY <2>4, <2>7, <2>8, <2>9 DEF Source
<1>7. CASE PassesSwitch
  <2>1. /\ p \in Switches /\ Seal(cli)' = After(p.msg)
        /\ cli'.mode = "aes" \/ srv.mode # "aes" => cli'.got = 0
        /\ handler.at = "combine" => cStatus' # "step1"
    BY <1>2, <1>7 DEF PassesSwitch
  <2>2. /\ SwitchOn /\ ~ SwitchOn'
        /\ \A i \in 1..Len(toClient') : \E a \in 1..Len(toClient) :
              toClient'[i] = toClient[a] /\ ~ Early(a)
    BY <1>1, <1>2, <2>1, TailEarly
  <2>3. AcceptSent'
    BY <2>1 DEF AcceptSent
  <2>4. Ready' => Ready
    BY <2>2 DEF Ready
  <2>5. ASSUME Ready'
        PROVE  /\ Seal(srv)' = Seal(cli)'
               /\ srv'.mode = "aes" => cli'.got <= srv'.sent
    <3>1. Seal(srv) = After(p.msg) /\ Seal(srv)' = Seal(srv)
      BY <1>2, <2>1, <2>4, <2>5 DEF Source, Seal
    <3>2. Seal(srv)' = Seal(cli)'
      BY <2>1, <3>1
    <3>3. srv'.mode = cli'.mode
      BY <3>2 DEF Seal
    <3> QED BY <1>5, <2>1, <3>2, <3>3
  <2>6. ASSUME Ready', NEW i \in 1..Len(toClient'), toClient'[i].seal.mode = "aes"
        PROVE  toClient'[i].number <= srv'.sent
    BY <2>2, <2>4, <2>6 DEF Source
  <2>7. Range(toClient') \cap Switches' = {}
    BY <2>2 DEF SwitchOn
  <2> QED BY <2>3, <2>5, <2>6, <2>7 DEF Source
<1>8. CASE LosesNonce
  <2>1. p \in Switches /\ cStatus' = "connected" /\ made.unsent > 0 /\ made.unsent \in Nat
    BY <1>2, <1>8 DEF LosesNonce, Types, Mades
  <2>2. ~ SwitchOn'
    BY <1>1, <1>2, <2>1, TailEarly
  <2>3. ~ Ready'
    BY <2>1, <2>2 DEF Ready
  <2> QED BY <2>1, <2>3 DEF Source, AcceptSent
<1> QED BY <1>6, <1>7, <1>8

-----------------------------------------------------------------------------
(* Queue positions.                                                         *)

LEMMA NonePositionSame ==
  ASSUME Types, NonePosition, UNCHANGED <<sendq, net, made.unsent>>
  PROVE  NonePosition'
BY DEF NonePosition

LEMMA NonePositionAdds ==
  ASSUME Types, NonePosition, NEW m \in Queued, m.op # "position",
         sendq' = Append(sendq, m) \/ UNCHANGED sendq, UNCHANGED <<net, made.unsent>>
  PROVE  NonePosition'
<1>1. Range(sendq') \subseteq Range(sendq) \cup {m}
  BY RangeFacts
<1> QED BY <1>1 DEF NonePosition

LEMMA NonePositionNet ==
  ASSUME Types, NonePosition, NEW t \in NetThreads,
         NetTakes(t) \/ NetReceives(t) \/ NetQueues(t) \/ NetSends(t)
  PROVE  NonePosition'
<1>1. CASE NetTakes(t)
  <2>1. /\ sendq # << >> /\ sendq' = Tail(sendq) /\ made' = made
        /\ net' = [net EXCEPT ![t] = Busy("send", Head(sendq))]
    BY <1>1 DEF NetTakes
  <2>2. PICK m \in Queued : m = Head(sendq) /\ m \in Range(sendq)
    BY <2>1, Firsts
  <2>3. Range(sendq') \subseteq Range(sendq)
    BY <2>1, RangeFacts
  <2>4. \A u \in NetThreads : net'[u] = net[u] \/ net'[u].msg = m
    BY <2>1, <2>2, NetFacts, BusyFacts
  <2> QED BY <2>1, <2>2, <2>3, <2>4 DEF NonePosition
<1>2. CASE NetReceives(t) \/ NetQueues(t) \/ NetSends(t)
  <2>1. /\ UNCHANGED <<sendq, made>>
        /\ \/ net' = net
           \/ net' = [net EXCEPT ![t] = Idle]
           \/ net' = [net EXCEPT ![t] = Busy("queue", Head(toServer).msg)]
    BY <1>2 DEF NetReceives, NetQueues, NetSends
  <2>2. \A u \in NetThreads : net'[u] = net[u] \/ net'[u].at # "send"
    BY <2>1, NetFacts, BusyFacts, IdleIs DEF Types
  <2> QED BY <2>1, <2>2 DEF NonePosition
<1> QED BY <1>1, <1>2

LEMMA NonePositionServer ==
  ASSUME Types, NonePosition,
         \/ LoginStarts \/ HandleRequest \/ SendAccept \/ CombineKeys \/ SendTest \/ SendReject
         \/ HandleAnswer \/ HandleRefreshKey \/ AnnounceNewKey \/ HandleMessage
         \/ GenerateNewKey \/ SendNewKey \/ Tell \/ LoginTimeout \/ ServerHearsClose
         \/ ClientHearsClose \/ CoreSends \/ UserTypes \/ UserSends
  PROVE  NonePosition'
<1>1. /\ Message("nonce", {}) \in Queued /\ Message("nonce", {}).op # "position"
      /\ Message("message", {}) \in Queued /\ Message("message", {}).op # "position"
      /\ made \in Mades
  BY DEF Queued, Message, Types
<1>2. CASE LoginStarts \/ HandleMessage \/ Tell
  <2>1. /\ \/ UNCHANGED sendq
           \/ sendq' = Append(sendq, Message("nonce", {}))
           \/ sendq' = Append(sendq, Message("message", {}))
        /\ UNCHANGED net
        /\ made' = made \/ made' = [made EXCEPT !.told = @ + 1]
    BY <1>2 DEF LoginStarts, HandleMessage, Tell
  <2>2. UNCHANGED made.unsent
    BY <1>1, <2>1 DEF Mades
  <2> QED BY <1>1, <2>1, <2>2, NonePositionAdds
<1>3. CASE \/ HandleRequest \/ SendAccept \/ CombineKeys \/ SendTest \/ SendReject
           \/ HandleAnswer \/ HandleRefreshKey \/ AnnounceNewKey
           \/ GenerateNewKey \/ SendNewKey \/ LoginTimeout \/ ServerHearsClose
           \/ ClientHearsClose \/ CoreSends \/ UserTypes \/ UserSends
  <2>1. /\ UNCHANGED <<sendq, net>>
        /\ \/ made' = made \/ made' = [made EXCEPT !.server = @ + 1]
           \/ made' = [made EXCEPT !.server = @ + 1, !.overlap = @ \/ Exchanging]
           \/ made' = [made EXCEPT !.typed = @ + 1]
    BY <1>3 DEF HandleRequest, SendAccept, CombineKeys, SendTest, SendReject,
           HandleAnswer, HandleRefreshKey, AnnounceNewKey, GenerateNewKey, SendNewKey, LoginTimeout,
           ServerHearsClose, ClientHearsClose, CoreSends, UserTypes, UserSends, server
  <2>2. UNCHANGED made.unsent
    BY <1>1, <2>1 DEF Mades
  <2> QED BY <2>1, <2>2, NonePositionSame
<1> QED BY <1>2, <1>3

-----------------------------------------------------------------------------
(* What the packets to the server are sealed with.                          *)

LEMMA BackSame ==
  ASSUME Types, Back,
         UNCHANGED <<toServer, cli.mode, cli.key, cli.sent, core, user, made.typed>>,
         \/ UNCHANGED srv.got /\ (Agree => Agree')
         \/ srv'.got = 0
  PROVE  Back'
<1>1. Seal(cli)' = Seal(cli)
  BY DEF Seal
<1>2. \A p \in Range(toServer) : p.number \in Numbers
  BY Members
<1>3. core.at = "send" => core.number \in Numbers
  BY JobFacts
<1>4. CASE UNCHANGED srv.got /\ (Agree => Agree')
  BY <1>1, <1>4 DEF Back
<1>5. CASE srv'.got = 0
  <2>1. \A x \in Numbers : x # NoNumber => 0 <= x
    BY DEF Numbers
  <2> QED BY <1>1, <1>2, <1>3, <1>5, <2>1 DEF Back
<1> QED BY <1>4, <1>5

LEMMA BackNet ==
  ASSUME Types, OneTurn, Rightly, Phases, Back, NEW t \in NetThreads,
         NetTakes(t) \/ NetReceives(t) \/ NetQueues(t) \/ NetSends(t)
  PROVE  Back'
<1>0. OnTheWay /\ srv \in ServerEnds /\ cli \in ClientEnds
  BY DEF Rightly, Types
<1>1. CASE NetTakes(t) \/ NetQueues(t)
  <2>1. UNCHANGED <<toServer, srv, cli, core, user, made>>
    BY <1>1 DEF NetTakes, NetQueues, client, wires
  <2>2. Agree' = Agree
    BY <2>1 DEF Agree
  <2> QED BY <2>1, <2>2, BackSame
<1>2. CASE NetSends(t)
  <2>1. /\ net[t].at = "send" /\ ServerSends(net[t].msg)
        /\ UNCHANGED <<toServer, cli, core, user, made>>
    BY <1>2 DEF NetSends, client
  <2>2. PICK m \in FromServer : m = net[t].msg /\ m.op \in {"position", "message", "nonce"}
    BY <2>1, NetFacts, QueuedMessages
  <2>3. UNCHANGED <<srv.key, srv.got>> /\ (srv'.mode = srv.mode \/ srv.mode = "none")
    BY <2>1, <2>2, SentMode DEF Rekeys
  <2>4. Agree => Agree'
    BY <2>1, <2>3 DEF Agree
  <2> QED BY <2>1, <2>3, <2>4, BackSame
<1>3. CASE NetReceives(t)
  <2>1. /\ toServer # << >> /\ toServer' = Tail(toServer)
        /\ \/ srv' = srv
           \/ srv' = Received(Head(toServer), srv)
        /\ UNCHANGED <<cli, core, user, made>>
    BY <1>3 DEF NetReceives, client
  <2> SUFFICES ASSUME made.typed = 0 PROVE Back'
    BY <2>1 DEF Back
  <2>2. PICK p \in ToServer : p = Head(toServer) /\ p \in Range(toServer) /\ p.msg \in FromClient
    BY <2>1, Firsts
  <2>3. /\ IsTurn(p.msg)
        /\ cli.mode = "aes" => p.number <= cli.sent
        /\ \A q \in Range(toServer) : IsTurn(q.msg)
        /\ user.at = "idle"
        /\ srv.got = 0 \/ (Agree /\ srv.got <= cli.sent)
    BY <2>2 DEF Back
  <2>4. Range(toServer') = {}
    <3>1. toServer \in Seq(ToServer) /\ Once(toServer, TurnPackets)
      BY DEF Types, OneTurn
    <3>2. p \in TurnPackets
      BY <2>2, <2>3 DEF TurnPackets
    <3>3. Range(Tail(toServer)) \cap TurnPackets = {}
      BY <2>1, <2>2, <3>1, <3>2, TailFacts
    <3>4. Range(toServer) = {p} \cup Range(toServer')
      BY <2>1, <2>2, RangeFacts
    <3>5. \A q \in Range(toServer') : q \in TurnPackets
      BY <2>3, <3>4, Members DEF TurnPackets
    <3> QED BY <2>1, <3>3, <3>5
  <2>5. core.at = "idle"
    <3>1. TurnOn(toServer)
      BY <2>2, <2>3 DEF TurnOn, TurnPackets
    <3> QED BY <3>1 DEF OneTurn, Count
  <2>6. srv'.got = 0 \/ (Agree' /\ srv'.got <= cli'.sent)
    <3>1. UNCHANGED <<srv.mode, srv.key>>
      BY <1>0, <2>1 DEF ServerEnds, Received
    <3>2. Agree' = Agree
      BY <2>1, <3>1 DEF Agree
    <3>3. srv'.got = srv.got \/ (srv.mode = "aes" /\ srv'.got = p.number)
      BY <1>0, <2>1, <2>2 DEF ServerEnds, Received
    <3>4. srv.mode = "aes" => Agree
      <4>1. ToServerRight(p.msg, "authenticated")
        BY <1>0, <2>2 DEF OnTheWay
      <4>2. p.msg.op \in {"request", "answer", "refresh"}
        BY <2>2, <2>3, ToServerMessages DEF IsTurn
      <4> QED BY <4>1, <4>2 DEF ToServerRight
    <3> QED BY <2>1, <2>3, <3>2, <3>3, <3>4 DEF Agree
  <2> QED BY <2>1, <2>3, <2>4, <2>5, <2>6 DEF Back
<1> QED BY <1>1, <1>2, <1>3

LEMMA BackServer ==
  ASSUME Types, Known, OneTurn, Rightly, Phases, Back,
         \/ LoginStarts \/ HandleRequest \/ SendAccept \/ CombineKeys \/ SendTest \/ SendReject
         \/ HandleAnswer \/ HandleRefreshKey \/ AnnounceNewKey \/ HandleMessage
         \/ GenerateNewKey \/ SendNewKey \/ Tell \/ LoginTimeout \/ ServerHearsClose
         \/ ClientHearsClose
  PROVE  Back'
<1>0. srv \in ServerEnds /\ OnTheWay /\ AtWorkRight /\ made \in Mades
  BY DEF Types, Rightly
<1>1. ASSUME NEW m \in FromServer, ServerSends(m),
             UNCHANGED <<toServer, cli, core, user, made>>
      PROVE  Back'
  <2>1. CASE ~ Rekeys(m) \/ ~ sOpen
    <3>1. UNCHANGED <<srv.key, srv.got>> /\ (srv'.mode = srv.mode \/ srv.mode = "none")
      BY <1>1, <2>1, SentMode
    <3>2. Agree => Agree'
      BY <1>1, <3>1 DEF Agree
    <3> QED BY <1>1, <3>1, <3>2, BackSame
  <2>2. CASE Rekeys(m) /\ sOpen
    <3>1. srv'.got = 0
      BY <1>1, <2>2, SendFacts DEF SentState
    <3> QED BY <1>1, <3>1, BackSame
  <2> QED BY <2>1, <2>2
<1>2. CASE SendAccept
  <2>1. ServerSends(Message("accept", srv.key)) /\ handler.at = "accept"
        /\ UNCHANGED <<toServer, cli, core, user, made>>
    BY <1>2 DEF SendAccept, client
  <2>2. PICK m \in FromServer : m = Message("accept", srv.key)
    BY <2>1, LoginMessages DEF Known
  <2> QED BY <1>1, <2>1, <2>2
<1>3. CASE SendTest
  <2>1. ServerSends(Message("test", {})) /\ UNCHANGED <<toServer, cli, core, user, made>>
    BY <1>3 DEF SendTest, client
  <2> QED BY <1>1, <2>1, LoginMessages
<1>4. CASE SendReject
  <2>1. ServerSends(Message("reject", {})) /\ UNCHANGED <<toServer, cli, core, user, made>>
    BY <1>4 DEF SendReject, client
  <2> QED BY <1>1, <2>1, LoginMessages
<1>5. CASE AnnounceNewKey
  <2>1. ServerSends(handler.msg) /\ handler.at = "announce"
        /\ UNCHANGED <<toServer, cli, core, user, made>>
    BY <1>5 DEF AnnounceNewKey, client
  <2>2. handler.msg \in FromServer
    BY <2>1, JobFacts DEF FromServer, NewKey
  <2> QED BY <1>1, <2>1, <2>2
<1>6. CASE SendNewKey
  <2>1. ServerSends(refresher.msg) /\ refresher.at = "send"
        /\ UNCHANGED <<toServer, cli, core, user, made>>
    BY <1>6 DEF SendNewKey, client
  <2>2. refresher.msg \in FromServer
    BY <2>1, JobFacts
  <2> QED BY <1>1, <2>1, <2>2
<1>7. CASE CombineKeys
  <2>1. /\ srv' = Rekeyed(srv, Xor(srv.key, handler.msg.half))
        /\ UNCHANGED <<toServer, cli, core, user, made>>
    BY <1>7 DEF CombineKeys, client, wires
  <2>2. srv'.got = 0
    BY <1>0, <2>1 DEF Rekeyed, ServerEnds
  <2> QED BY <2>1, <2>2, BackSame
<1>8. CASE HandleRequest
  <2>1. /\ Takes("request")
        /\ srv' = srv \/ srv' = [srv EXCEPT !.key = ServerHalf(made.server + 1)]
        /\ made' = made \/ made' = [made EXCEPT !.server = @ + 1]
        /\ UNCHANGED <<toServer, cli, core, user>>
    BY <1>8 DEF HandleRequest, wires, client
  <2>2. ToServerRight(Head(recvq), "authenticated") /\ Head(recvq).op = "request"
    BY <1>0, <2>1, TakesAlone
  <2>3. ~ Agree
    BY <2>2 DEF ToServerRight, Agree
  <2>4. UNCHANGED <<srv.got, made.typed>>
    BY <1>0, <2>1 DEF ServerEnds, Mades
  <2> QED BY <2>1, <2>3, <2>4, BackSame
<1>9. CASE LoginStarts \/ HandleRefreshKey \/ GenerateNewKey
  <2>1. /\ \/ srv' = srv
           \/ srv' = [srv EXCEPT !.next = "hyb"]
           \/ srv' = [srv EXCEPT !.tmp = Xor(@, Head(recvq).half), !.changekeys = 1]
           \/ srv' = [srv EXCEPT !.tmp = ServerHalf(made.server + 1), !.changekeys = 0]
        /\ \/ made' = made
           \/ made' = [made EXCEPT !.server = @ + 1, !.overlap = @ \/ Exchanging]
        /\ UNCHANGED <<toServer, cli, core, user>>
    BY <1>9 DEF LoginStarts, HandleRefreshKey, GenerateNewKey, wires, client
  <2>2. UNCHANGED <<srv.mode, srv.key, srv.got>> 
    BY <1>0, <2>1 DEF ServerEnds
  <2>3. UNCHANGED made.typed
    BY <1>0, <2>1 DEF Mades
  <2>4. Agree' = Agree
    BY <2>1, <2>2 DEF Agree
  <2> QED BY <2>1, <2>2, <2>3, <2>4, BackSame
<1>10. CASE \/ HandleAnswer \/ HandleMessage \/ Tell \/ LoginTimeout \/ ServerHearsClose
            \/ ClientHearsClose
  <2>1. /\ made' = made \/ made' = [made EXCEPT !.told = @ + 1]
        /\ UNCHANGED <<toServer, srv, cli, core, user>>
    BY <1>10 DEF HandleAnswer, HandleMessage, Tell, LoginTimeout, ServerHearsClose,
            ClientHearsClose, wires, client, server
  <2>2. UNCHANGED made.typed
    BY <1>0, <2>1 DEF Mades
  <2>3. Agree' = Agree
    BY <2>1 DEF Agree
  <2> QED BY <2>1, <2>2, <2>3, BackSame
<1> QED BY <1>2, <1>3, <1>4, <1>5, <1>6, <1>7, <1>8, <1>9, <1>10

LEMMA BackEmpty ==
  ASSUME Types, OneTurn, Rightly, Back, made.typed = 0, NEW op, Gets(op),
         op \in {"nonce", "accept", "reject", "test", "refresh"},
         op = "accept" => cStatus = "step1"
  PROVE  Range(toServer) = {} /\ core.at = "idle" /\ user.at = "idle"
<1>0. OnTheWay /\ AtWorkRight
  BY DEF Rightly
<1>1. \A q \in Range(toServer) : IsTurn(q.msg)
  BY DEF Back
<1>2. core.at = "idle" /\ user.at = "idle"
  BY GetsFacts DEF Back
<1>3. CASE op # "accept"
  <2>1. \A q \in Range(toServer) : ~ IsTurn(q.msg)
    BY <1>0, <1>3, GetsAlone
  <2> QED BY <1>1, <1>2, <2>1
<1>4. CASE op = "accept"
  <2>1. PICK p \in Range(toClient) : p.msg.op = "accept"
    BY <1>4, GetsFacts
  <2>2. RightAccept(p.msg.half)
    BY <1>0, <2>1 DEF OnTheWay, ToClientRight
  <2>3. CASE handler.at = "combine"
    BY <1>1, <1>2, <2>3, Holder, Plain
  <2>4. CASE srv.mode = "aes"
    <3>1. ASSUME NEW q \in Range(toServer) PROVE FALSE
      <4>1. q.msg.op \in {"request", "answer", "refresh"}
        BY <1>1, Members, ToServerMessages DEF IsTurn
      <4>2. ToServerRight(q.msg, "authenticated")
        BY <1>0 DEF OnTheWay
      <4> QED BY <1>4, <2>4, <4>1, <4>2 DEF ToServerRight, Auth
    <3> QED BY <1>2, <3>1
  <2> QED BY <2>2, <2>3, <2>4 DEF RightAccept
<1> QED BY <1>3, <1>4

LEMMA BackClient ==
  ASSUME Types, Known, OneTurn, Rightly, Phases, Back,
         \/ HandleNonce \/ HandleAccept \/ HandleReject \/ HandleTest \/ HandleNewHalf
         \/ HandleNewKey \/ HandleOther \/ CannotRead \/ CoreSends \/ UserTypes \/ UserSends
  PROVE  Back'
<1>0. /\ srv \in ServerEnds /\ cli \in ClientEnds /\ OnTheWay /\ AtWorkRight /\ made \in Mades
      /\ cli.sent \in Nat
  BY DEF Types, Rightly, ClientEnds
<1>1. made.typed \in Nat
  BY <1>0 DEF Mades
<1>2. CASE HandleNonce
  <2>1. /\ Gets("nonce") /\ cStatus = "connected"
        /\ cli' = [cli EXCEPT !.mode = "hyb", !.key = ClientHalf(made.client + 1)]
        /\ made' = [made EXCEPT !.client = @ + 1]
        /\ core'.number = NextNumber(cli)'
        /\ UNCHANGED <<toServer, srv, user>>
    BY <1>2 DEF HandleNonce, server, Prepares, NextNumber
  <2>2. made'.typed = made.typed /\ cli'.mode = "hyb"
    BY <1>0, <2>1 DEF Mades, ClientEnds
  <2> SUFFICES ASSUME made.typed = 0 PROVE Back'
    BY <2>2 DEF Back
  <2>3. Range(toServer) = {} /\ user.at = "idle"
    BY <2>1, BackEmpty
  <2>4. ~ Agree
    BY <2>1 DEF Agree, Phases
  <2>5. srv.got = 0
    BY <2>4 DEF Back
  <2>6. core'.number = NoNumber
    BY <2>1, <2>2 DEF NextNumber
  <2> QED BY <2>1, <2>2, <2>3, <2>5, <2>6 DEF Back
<1>3. CASE HandleAccept
  <2>1. /\ Gets("accept") /\ cStatus = "step1"
        /\ UNCHANGED <<toServer, srv, user, core, made>>
    BY <1>3 DEF HandleAccept, server
  <2> SUFFICES ASSUME made.typed = 0 PROVE Back'
    BY <2>1 DEF Back
  <2>2. Range(toServer) = {} /\ user.at = "idle" /\ core.at = "idle"
    BY <2>1, BackEmpty
  <2>3. ~ Agree
    BY <2>1 DEF Agree, Phases
  <2>4. srv.got = 0
    BY <2>3 DEF Back
  <2> QED BY <2>1, <2>2, <2>4 DEF Back
<1>4. CASE HandleNewKey
  <2>1. /\ Gets("refresh") /\ Head(toClient).msg.half = {}
        /\ UNCHANGED <<toServer, srv, user, core, made>>
    BY <1>4 DEF HandleNewKey, server, Half
  <2> SUFFICES ASSUME made.typed = 0 PROVE Back'
    BY <2>1 DEF Back
  <2>2. Range(toServer) = {} /\ user.at = "idle" /\ core.at = "idle"
    BY <2>1, BackEmpty
  <2>3. ToClientRight(Head(toClient).msg) /\ Head(toClient).msg.op = "refresh"
    BY <1>0, <2>1, GetsAlone
  <2>4. ~ Agree
    BY <2>1, <2>3 DEF ToClientRight, Agree
  <2>5. srv.got = 0
    BY <2>4 DEF Back
  <2> QED BY <2>1, <2>2, <2>5 DEF Back
<1>5. ASSUME Gets("test") \/ Gets("refresh"), cli'.mode = cli.mode, cli'.key = cli.key,
             cli'.sent = IF cli.mode = "aes" THEN cli.sent + 1 ELSE cli.sent,
             core'.number = NextNumber(cli), UNCHANGED <<toServer, srv, user, made.typed>>
      PROVE  Back'
  <2> SUFFICES ASSUME made.typed = 0 PROVE Back'
    BY <1>5 DEF Back
  <2>1. Range(toServer) = {} /\ user.at = "idle"
    BY <1>5, BackEmpty
  <2>2. srv.got = 0 \/ (Agree /\ srv.got <= cli.sent)
    BY DEF Back
  <2>3. Agree' = Agree
    BY <1>5 DEF Agree
  <2>4. cli.mode = "aes" => core'.number = cli.sent
    BY <1>5 DEF NextNumber
  <2>5. cli.mode # "aes" => core'.number = NoNumber
    BY <1>5 DEF NextNumber
  <2>6. srv.got \in Nat
    BY <1>0 DEF ServerEnds
  <2>7. srv.got <= cli.sent /\ cli.sent <= cli'.sent /\ srv.got <= cli'.sent
    BY <1>0, <1>5, <2>2, <2>6
  <2> QED BY <1>0, <1>5, <2>1, <2>2, <2>3, <2>4, <2>5, <2>7, Bounds DEF Back
<1>6. CASE HandleTest
  <2>1. /\ Gets("test")
        /\ cli' = Numbered(Received(Head(toClient), cli))
        /\ core' = Prepares(Message("answer", {}), cli)
        /\ UNCHANGED <<toServer, srv, user, made>>
    BY <1>6 DEF HandleTest, server
  <2>2. PICK p \in ToClient : p = Head(toClient) /\ Accepts(p, cli)
    BY <2>1, GetsFacts
  <2>3. /\ UNCHANGED <<cli.mode, cli.key>>
        /\ cli'.sent = IF cli.mode = "aes" THEN cli.sent + 1 ELSE cli.sent
    BY <2>1, <2>2, ReceivedFacts
  <2>4. core'.number = NextNumber(cli)
    BY <2>1 DEF Prepares
  <2> QED BY <1>0, <1>5, <2>1, <2>3, <2>4
<1>7. CASE HandleNewHalf
  <2>1. /\ Gets("refresh")
        /\ made' = [made EXCEPT !.client = @ + 1]
        /\ cli' = [Numbered(Received(Head(toClient), cli)) EXCEPT
                     !.tmp = Xor(ClientHalf(made.client + 1), Head(toClient).msg.half)]
        /\ core'.number = NextNumber(cli)
        /\ UNCHANGED <<toServer, srv, user>>
    BY <1>7 DEF HandleNewHalf, server, Half, Prepares
  <2>2. PICK p \in ToClient : p = Head(toClient) /\ Accepts(p, cli)
    BY <2>1, GetsFacts
  <2>3. PICK e \in ClientEnds :
          /\ e = Numbered(Received(p, cli))
          /\ e.mode = cli.mode /\ e.key = cli.key
          /\ e.sent = IF cli.mode = "aes" THEN cli.sent + 1 ELSE cli.sent
    BY <2>2, ReceivedFacts
  <2>4. /\ UNCHANGED <<cli.mode, cli.key>>
        /\ cli'.sent = IF cli.mode = "aes" THEN cli.sent + 1 ELSE cli.sent
    BY <2>1, <2>2, <2>3 DEF ClientEnds
  <2>5. UNCHANGED made.typed
    BY <1>0, <2>1 DEF Mades
  <2> QED BY <1>0, <1>5, <2>1, <2>4, <2>5
<1>8. CASE HandleReject \/ CannotRead
  <2>1. UNCHANGED <<toServer, srv, cli, core, user, made>>
    BY <1>8 DEF HandleReject, CannotRead, server
  <2>2. Agree' = Agree
    BY <2>1 DEF Agree
  <2> QED BY <2>1, <2>2, BackSame
<1>9. CASE HandleOther
  <2>1. /\ toClient # << >> /\ cli' = Received(Head(toClient), cli)
        /\ Accepts(Head(toClient), cli)
        /\ UNCHANGED <<toServer, srv, core, user, made>>
    BY <1>9 DEF HandleOther, Gets, server
  <2>2. PICK p \in ToClient : p = Head(toClient)
    BY <2>1, Firsts
  <2>3. UNCHANGED <<cli.mode, cli.key, cli.sent>>
    BY <2>1, <2>2, ReceivedFacts
  <2>4. Agree' = Agree
    BY <2>1, <2>3 DEF Agree
  <2> QED BY <2>1, <2>3, <2>4, BackSame
<1>10. CASE CoreSends
  <2>1. /\ core.at = "send" /\ core'.at = "idle"
        /\ toServer' = IF cOpen THEN Append(toServer, Packet(core.msg, Seal(cli), core.number))
                                ELSE toServer
        /\ UNCHANGED <<srv, cli, user, made>>
    BY <1>10, IdleIs DEF CoreSends, Sends, server
  <2> SUFFICES ASSUME made.typed = 0 PROVE Back'
    BY <2>1 DEF Back
  <2>2. core.msg \in FromClient /\ core.number \in Numbers
        /\ core.msg.op \in {"request", "refresh", "answer"}
    BY <2>1, JobFacts
  <2>3. PICK p \in ToServer : /\ p = Packet(core.msg, Seal(cli), core.number)
                              /\ p.msg = core.msg /\ p.seal = Seal(cli) /\ p.number = core.number
    <3>1. PICK p : p = Packet(core.msg, Seal(cli), core.number)
      OBVIOUS
    <3>2. Seal(cli) \in Seals
      BY EndFacts
    <3>3. p \in ToServer
      BY <2>2, <3>1, <3>2 DEF Packet, ToServer
    <3>4. p.msg = core.msg /\ p.seal = Seal(cli) /\ p.number = core.number
      BY <3>1 DEF Packet
    <3> QED BY <3>1, <3>3, <3>4
  <2>4. Range(toServer') \subseteq Range(toServer) \cup {p}
    BY <2>1, <2>3, RangeFacts
  <2>5. Seal(cli)' = Seal(cli) /\ Agree' = Agree
    BY <2>1 DEF Seal, Agree
  <2>6. IsTurn(p.msg)
    BY <2>2, <2>3 DEF IsTurn
  <2> QED BY <2>1, <2>3, <2>4, <2>5, <2>6 DEF Back
<1>11. CASE UserTypes
  <2>1. made' = [made EXCEPT !.typed = @ + 1]
    BY <1>11 DEF UserTypes
  <2>2. made'.typed # 0
    BY <1>0, <1>1, <2>1, MadeFacts
  <2> QED BY <2>2 DEF Back
<1>12. CASE UserSends
  <2>1. user.at # "idle" /\ made' = made
    BY <1>12 DEF UserSends
  <2> QED BY <2>1 DEF Back
<1> QED BY <1>2, <1>3, <1>4, <1>6, <1>7, <1>8, <1>9, <1>10, <1>11, <1>12

-----------------------------------------------------------------------------
(* The invariant.                                                           *)

LEMMA Starts == Init => IInv
<1> SUFFICES ASSUME Init PROVE IInv
  OBVIOUS
<1>1. /\ toClient = << >> /\ toServer = << >> /\ recvq = << >>
      /\ sOpen = TRUE /\ cOpen = TRUE
      /\ sStatus = "connected" /\ cStatus = "connected"
      /\ srv = [mode |-> "none", next |-> "unspec", key |-> {}, tmp |-> {},
                changekeys |-> 0, sent |-> 0, got |-> 0]
      /\ cli = [mode |-> "none", key |-> {}, tmp |-> {}, sent |-> 0, got |-> 0]
      /\ net = [t \in NetThreads |-> Idle]
      /\ handler = Idle /\ refresher = Idle /\ core = Idle /\ user = Idle
  BY DEF Init
<1>2. PICK n \in 0..Positions :
        /\ sendq = [i \in 1..n |-> Message("position", {})]
        /\ made = [unsent |-> n, server |-> 0, client |-> 0, typed |-> 0, told |-> 0,
                   overlap |-> FALSE]
  BY DEF Init
<1>3. n \in Nat /\ made.overlap = FALSE /\ made.unsent = n /\ made.typed = 0 /\ made.server = 0
      /\ made \in Mades
  BY <1>2, BoundsAssumption DEF Mades
<1>4. PICK m \in Queued : m = Message("position", {}) /\ m.op = "position"
  BY DEF Queued, Message
<1>5. sendq \in Seq(Queued) /\ Len(sendq) = n /\ \A i \in 1..n : sendq[i] = m
  <2>1. sendq = [i \in 1..n |-> m]
    BY <1>2, <1>4
  <2> QED BY <1>3, <2>1
<1>6. /\ \A x \in Range(sendq) : x = m
      /\ n = 0 => Range(sendq) = {}
  <2>1. \A x \in Range(sendq) : \E i \in 1..Len(sendq) : sendq[i] = x
    BY <1>5, RangeIndices
  <2>2. \A x \in Range(sendq) : \E i \in 1..n : x = m
    BY <1>5, <2>1
  <2> QED BY <1>3, <2>2
<1>7. \A t \in NetThreads : net[t].at = "idle"
  BY <1>1, IdleIs
<1>8. handler.at = "idle" /\ refresher.at = "idle" /\ core.at = "idle" /\ user.at = "idle"
  BY <1>1, IdleIs
<1>9. /\ srv.mode = "none" /\ srv.next = "unspec" /\ srv.key = {} /\ srv.tmp = {}
      /\ srv.changekeys = 0 /\ srv.sent = 0 /\ srv.got = 0
      /\ cli.mode = "none" /\ cli.key = {} /\ cli.tmp = {} /\ cli.sent = 0 /\ cli.got = 0
  BY <1>1
<1>10. Types
  <2>1. srv \in ServerEnds /\ cli \in ClientEnds
    BY <1>1, HalvesFacts DEF ServerEnds, ClientEnds, Modes
  <2>2. net \in [NetThreads -> NetJobs]
    BY <1>1 DEF NetJobs
  <2>3. handler \in HandlerJobs /\ refresher \in RefresherJobs /\ core \in CoreJobs /\ user \in UserJobs
    BY <1>1 DEF HandlerJobs, RefresherJobs, CoreJobs, UserJobs
  <2> QED BY <1>1, <1>3, <1>5, <2>1, <2>2, <2>3 DEF Types, LoginStates
<1>11. Known
  BY <1>1, <1>3, <1>8, <1>9 DEF Known, Younger
<1>12. /\ Range(toClient) = {} /\ Range(toServer) = {} /\ Range(recvq) = {}
       /\ Len(toClient) = 0
       /\ \A M : Once(toClient, M) /\ Once(toServer, M) /\ Once(recvq, M)
  BY <1>1, EmptyFacts
<1>13. OneTurn
  <2>1. m \notin Turns
    BY <1>4 DEF Turns, IsTurn
  <2>2. ~ TurnIn(sendq) /\ Once(sendq, Turns)
    BY <1>5, <1>6, <2>1 DEF TurnIn, Once
  <2>3. /\ ~ TurnIn(recvq) /\ ~ TurnOn(toClient) /\ ~ TurnOn(toServer)
        /\ ~ TurnNet /\ \A t \in NetThreads : ~ OnNet(t)
    BY <1>7, <1>12 DEF TurnIn, TurnOn, TurnNet, OnNet
  <2> QED BY <1>8, <1>12, <2>2, <2>3 DEF OneTurn, Count
<1>14. Rightly
  <2>1. ToClientRight(m)
    BY <1>4 DEF ToClientRight
  <2> QED BY <1>6, <1>7, <1>8, <1>12, <2>1 DEF Rightly, OnTheWay, AtWorkRight
<1>15. Phases
  BY <1>1, <1>9, <1>12 DEF Phases
<1>16. ~ SwitchOn
  BY <1>12 DEF SwitchOn
<1>17. Stream
  BY <1>9, <1>12 DEF Stream
<1>18. Source
  BY <1>9, <1>12, <1>16 DEF Source, Seal
<1>19. AcceptSent /\ NonePosition
  BY <1>3, <1>6, <1>7, <1>8 DEF AcceptSent, NonePosition
<1>20. Back
  BY <1>8, <1>9, <1>12 DEF Back
<1> QED BY <1>10, <1>11, <1>13, <1>14, <1>15, <1>17, <1>18, <1>19, <1>20 DEF IInv, Apart

LEMMA ApartNet ==
  ASSUME Types, Known, Apart, NEW t \in NetThreads, Network(t)
  PROVE  Apart'
<1>1. /\ OneTurn /\ Rightly /\ Phases /\ Stream /\ Source /\ AcceptSent /\ NonePosition /\ Back
      /\ NetTakes(t) \/ NetReceives(t) \/ NetQueues(t) \/ NetSends(t)
  BY DEF Apart, Network
<1>2. OneTurn' /\ Rightly' /\ Phases' /\ NonePosition' /\ Back'
  BY <1>1, OneTurnNet, RightlyNet, PhasesNet, NonePositionNet, BackNet
<1>3. CASE NetTakes(t) \/ NetReceives(t) \/ NetQueues(t)
  BY <1>1, <1>2, <1>3, QuietSteps, StreamQuiet, SourceQuiet, AcceptQuiet DEF Apart
<1>4. CASE NetSends(t)
  <2>1. /\ net[t].at = "send" /\ ServerSends(net[t].msg)
        /\ UNCHANGED <<sOpen, cStatus, cli, handler, made>>
    BY <1>4 DEF NetSends, client
  <2>2. PICK m \in Queued : m = net[t].msg /\ m.op # "accept"
    BY <2>1, NetFacts, QueuedMessages
  <2>3. Sending(m) /\ ServerSends(m)
    BY <2>1, <2>2 DEF Sending
  <2>4. Stream'
    BY <1>1, <2>1, <2>3, StreamSends
  <2>5. Source' /\ AcceptSent'
    BY <1>1, <2>1, <2>2, <2>3, SourceSends
  <2> QED BY <1>2, <2>4, <2>5 DEF Apart
<1> QED BY <1>1, <1>3, <1>4

LEMMA ApartSends ==
  ASSUME Types, Types', Known, Apart,
         SendAccept \/ SendTest \/ SendReject \/ SendNewKey \/ AnnounceNewKey
  PROVE  Apart'
<1>1. OneTurn /\ Rightly /\ Phases /\ Stream /\ Source /\ AcceptSent /\ NonePosition /\ Back
  BY DEF Apart
<1>2. OneTurn' /\ NonePosition' /\ Back'
  BY <1>1, OneTurnSends, NonePositionServer, BackServer
<1>3. Rightly' /\ Phases'
  BY <1>1, RightlySends, RightlyRefresh, PhasesSends, PhasesLogin
<1>4. ASSUME NEW m, Sending(m), ServerSends(m), UNCHANGED <<cli, made, cStatus>>,
             sOpen' => sOpen, handler.at # "combine",
             m.op = "accept" <=> handler'.at = "combine"
      PROVE  Apart'
  <2>1. Stream'
    BY <1>1, <1>4, StreamSends
  <2>2. Source' /\ AcceptSent'
    BY <1>1, <1>4, SourceSends
  <2> QED BY <1>2, <1>3, <2>1, <2>2 DEF Apart
<1>5. CASE SendAccept
  <2>1. /\ handler.at = "accept" /\ handler' = [handler EXCEPT !.at = "combine"]
        /\ ServerSends(Message("accept", srv.key))
        /\ UNCHANGED <<sOpen, cStatus, cli, made>>
    BY <1>5 DEF SendAccept, client
  <2>2. handler'.at = "combine"
    BY <2>1 DEF Types, HandlerJobs, Idle
  <2>3. PICK m : m = Message("accept", srv.key) /\ m.op = "accept"
    <3>1. Message("accept", srv.key).op = "accept"
      BY DEF Message
    <3> QED BY <3>1
  <2>4. Sending(m)
    BY <2>1, <2>3 DEF Sending
  <2> QED BY <1>4, <2>1, <2>2, <2>3, <2>4
<1>6. CASE SendTest
  <2>1. /\ handler.at = "test" /\ handler'.at = "idle"
        /\ ServerSends(Message("test", {}))
        /\ UNCHANGED <<sOpen, cStatus, cli, made>>
    BY <1>6, IdleIs DEF SendTest, client
  <2>2. PICK m : m = Message("test", {}) /\ m.op = "test"
    <3>1. Message("test", {}).op = "test"
      BY DEF Message
    <3> QED BY <3>1
  <2>3. Sending(m)
    BY <2>1, <2>2 DEF Sending
  <2> QED BY <1>4, <2>1, <2>2, <2>3
<1>7. CASE SendReject
  <2>1. /\ handler.at = "reject" /\ handler'.at = "idle" /\ sOpen' = FALSE
        /\ ServerSends(Message("reject", {}))
        /\ UNCHANGED <<cStatus, cli, made>>
    BY <1>7, IdleIs DEF SendReject, client
  <2>2. PICK m : m = Message("reject", {}) /\ m.op = "reject"
    <3>1. Message("reject", {}).op = "reject"
      BY DEF Message
    <3> QED BY <3>1
  <2>3. Sending(m)
    BY <2>1, <2>2 DEF Sending
  <2> QED BY <1>4, <2>1, <2>2, <2>3
<1>8. CASE SendNewKey
  <2>1. /\ refresher.at = "send" /\ handler' = handler
        /\ ServerSends(refresher.msg)
        /\ UNCHANGED <<sOpen, cStatus, cli, made>>
    BY <1>8 DEF SendNewKey, client
  <2>2. handler.at = "idle" /\ refresher.msg.op = "refresh"
    BY <1>1, <2>1, Holder, JobFacts
  <2>3. Sending(refresher.msg)
    BY <2>1 DEF Sending
  <2> QED BY <1>4, <2>1, <2>2, <2>3
<1>9. CASE AnnounceNewKey
  <2>1. /\ handler.at = "announce" /\ handler'.at = "idle"
        /\ ServerSends(handler.msg)
        /\ UNCHANGED <<sOpen, cStatus, cli, made>>
    BY <1>9, IdleIs DEF AnnounceNewKey, client
  <2>2. handler.msg = NewKey /\ NewKey.op = "refresh"
    BY <2>1, JobFacts DEF NewKey, Message
  <2>3. Sending(handler.msg)
    BY <2>1, <2>2 DEF Sending
  <2> QED BY <1>4, <2>1, <2>2, <2>3
<1> QED BY <1>5, <1>6, <1>7, <1>8, <1>9

LEMMA ApartServer ==
  ASSUME Types, Types', Known, Apart,
         \/ LoginStarts \/ HandleRequest \/ HandleAnswer \/ LoginTimeout \/ ServerHearsClose
         \/ HandleRefreshKey \/ HandleMessage \/ Tell \/ CombineKeys
         \/ GenerateNewKey /\ ~ made'.overlap
  PROVE  Apart'
<1>1. OneTurn /\ Rightly /\ Phases /\ Stream /\ Source /\ AcceptSent /\ NonePosition /\ Back
  BY DEF Apart
<1>2. OneTurn' /\ NonePosition' /\ Back'
  BY <1>1, OneTurnLogin, OneTurnSends, NonePositionServer, BackServer
<1>3. Rightly' /\ Phases'
  BY <1>1, RightlySends, RightlyLogin, RightlyRefresh, PhasesSends, PhasesLogin
<1>4. CASE CombineKeys
  BY <1>1, <1>2, <1>3, <1>4, StreamCombine, SourceCombine DEF Apart
<1>5. CASE ~ CombineKeys
  <2>1. Quiet
    BY <1>1, <1>5, QuietSteps
  <2> QED BY <1>1, <1>2, <1>3, <2>1, StreamQuiet, SourceQuiet, AcceptQuiet DEF Apart
<1> QED BY <1>4, <1>5

LEMMA ApartClient ==
  ASSUME Types, Types', Known, Apart,
         \/ HandleNonce \/ HandleAccept \/ HandleReject \/ HandleTest \/ HandleNewHalf
         \/ HandleNewKey \/ HandleOther \/ CannotRead \/ CoreSends
         \/ ClientHearsClose \/ UserTypes \/ UserSends
  PROVE  Apart'
<1>1. /\ OneTurn /\ Rightly /\ Phases /\ Stream /\ Source /\ AcceptSent /\ NonePosition /\ Back
      /\ Once(toClient, Switches)
  BY DEF Apart, Stream
<1>2. OneTurn' /\ Phases'
  BY <1>1, OneTurnClient, OneTurnClientSends, PhasesClient
<1>3. Rightly'
  BY <1>1, RightlyClientLogin, RightlyAccept, RightlyClient, RightlyClientSends
<1>4. Back'
  BY <1>1, BackClient, BackServer
<1>5. CASE CoreSends \/ ClientHearsClose \/ UserTypes \/ UserSends
  <2>1. Quiet
    BY <1>1, <1>5, QuietSteps
  <2>2. NonePosition'
    BY <1>1, <1>5, NonePositionServer
  <2> QED BY <1>1, <1>2, <1>3, <1>4, <2>1, <2>2, StreamQuiet, SourceQuiet, AcceptQuiet DEF Apart
<1>6. CASE \/ HandleNonce \/ HandleAccept \/ HandleReject \/ HandleTest \/ HandleNewHalf
           \/ HandleNewKey \/ HandleOther \/ CannotRead
  <2>1. /\ toClient # << >> /\ toClient' = Tail(toClient)
        /\ UNCHANGED <<sOpen, srv, sendq, net, handler, made.unsent>>
        /\ PassesPlain \/ PassesSwitch \/ LosesNonce
    BY <1>1, <1>6, ClientTakes
  <2>2. NonePosition'
    BY <1>1, <2>1, NonePositionSame
  <2> QED BY <1>1, <1>2, <1>3, <1>4, <2>1, <2>2, StreamClient, SourceClient DEF Apart
<1> QED BY <1>5, <1>6

LEMMA OverlapGrows ==
  ASSUME Types, Next
  PROVE  made.overlap => made'.overlap
<1>1. made \in Mades
  BY DEF Types
<1>2. \/ made' = made
      \/ made' = [made EXCEPT !.server = @ + 1]
      \/ made' = [made EXCEPT !.server = @ + 1, !.overlap = @ \/ Exchanging]
      \/ made' = [made EXCEPT !.client = @ + 1]
      \/ made' = [made EXCEPT !.typed = @ + 1]
      \/ made' = [made EXCEPT !.told = @ + 1]
  BY DEF Next, Network, NetTakes, NetSends, NetReceives, NetQueues,
         Handler, LoginStarts, HandleRequest, SendAccept, CombineKeys, SendTest, SendReject,
         HandleAnswer, HandleRefreshKey, AnnounceNewKey, HandleMessage,
         GenerateNewKey, SendNewKey, Tell, LoginTimeout, ServerHearsClose,
         Core, HandleNonce, HandleAccept, HandleReject, HandleTest, HandleNewHalf, HandleNewKey,
         HandleOther, CannotRead, CoreSends, ClientHearsClose, UserTypes, UserSends
<1> QED BY <1>1, <1>2 DEF Mades

LEMMA Steps ==
  ASSUME IInv, [Next]_vars
  PROVE  IInv'
<1>1. Types /\ Known /\ (~ made.overlap => Apart)
  BY DEF IInv
<1>2. CASE UNCHANGED vars
  <2>1. UNCHANGED <<toClient, toServer, sOpen, cOpen, sStatus, cStatus, srv, cli, sendq, recvq,
                    net, handler, refresher, core, user, made>>
    BY <1>2 DEF vars, wires, server, client
  <2>2. Types' /\ Known'
    BY <1>1, <2>1 DEF Types, Known, Younger
  <2>3. ASSUME Apart PROVE Apart'
    <3>1. OneTurn /\ Rightly /\ Phases /\ Stream /\ Source /\ AcceptSent /\ NonePosition /\ Back
      BY <2>3 DEF Apart
    <3>2. OneTurn'
      BY <2>1, <3>1 DEF OneTurn, TurnIn, TurnOn, TurnNet, OnNet, Turns, TurnPackets, Once
    <3>3. Agree' = Agree /\ Auth' = Auth
      BY <2>1 DEF Agree, Auth
    <3>4. WereRight
      BY <2>1 DEF WereRight
    <3>5. Rightly' /\ Phases'
      BY <1>1, <2>1, <3>1, <3>3, <3>4, RightlySame DEF Phases
    <3>6. Quiet
      BY <2>1 DEF Quiet
    <3> QED BY <1>1, <2>1, <3>1, <3>2, <3>3, <3>5, <3>6, StreamQuiet, SourceQuiet, AcceptQuiet,
               NonePositionSame, BackSame DEF Apart
  <2> QED BY <1>1, <2>1, <2>2, <2>3 DEF IInv
<1>3. CASE Next
  <2>1. ~ made.overlap => Rightly /\ Phases
    BY <1>1 DEF Apart
  <2>2. ~ made'.overlap => ~ made.overlap
    BY <1>1, <1>3, OverlapGrows
  <2>3. ASSUME NEW t \in NetThreads, Network(t) PROVE IInv'
    <3>1. Types' /\ Known'
      BY <1>1, <2>3, TypesNet DEF Network
    <3> QED BY <1>1, <2>2, <2>3, <3>1, ApartNet DEF IInv
  <2>4. CASE SendAccept \/ SendTest \/ SendReject \/ SendNewKey \/ AnnounceNewKey
    <3>1. Types' /\ Known'
      BY <1>1, <2>1, <2>4, TypesSends, TypesRefresh
    <3> QED BY <1>1, <2>2, <2>4, <3>1, ApartSends DEF IInv
  <2>5. CASE \/ LoginStarts \/ HandleRequest \/ HandleAnswer \/ LoginTimeout \/ ServerHearsClose
             \/ HandleRefreshKey \/ HandleMessage \/ Tell \/ CombineKeys \/ GenerateNewKey
    <3>1. Types' /\ Known'
      BY <1>1, <2>1, <2>5, TypesLogin, TypesRefresh, TypesMessages, TypesSends
    <3> QED BY <1>1, <2>2, <2>5, <3>1, ApartServer DEF IInv
  <2>6. CASE \/ HandleNonce \/ HandleAccept \/ HandleReject \/ HandleTest \/ HandleNewHalf
             \/ HandleNewKey \/ HandleOther \/ CannotRead \/ CoreSends
             \/ ClientHearsClose \/ UserTypes \/ UserSends
    <3>1. Types' /\ Known'
      BY <1>1, <2>1, <2>6, TypesClientLogin, TypesClient, TypesClientSends
    <3> QED BY <1>1, <2>2, <2>6, <3>1, ApartClient DEF IInv
  <2> QED BY <1>3, <2>3, <2>4, <2>5, <2>6 DEF Next, Handler, Core
<1> QED BY <1>2, <1>3

LEMMA Invariant == Spec => []IInv
<1>1. Init => IInv
  BY Starts
<1>2. IInv /\ [Next]_vars => IInv'
  BY Steps
<1> QED BY <1>1, <1>2, PTL DEF Spec

-----------------------------------------------------------------------------
(* Theorems.                                                                *)

LEMMA TypesTypeOK ==
  ASSUME Types
  PROVE  TypeOK
<1>1. /\ sOpen \in BOOLEAN /\ cOpen \in BOOLEAN
      /\ {sStatus, cStatus} \subseteq {"connected", "step1", "step2", "authenticated", "rejected"}
  BY DEF Types, LoginStates
<1>2. \A end \in {srv, cli} :
         /\ end.mode \in {"none", "hyb", "aes"}
         /\ end.key \subseteq Halves /\ IsKey(end.key)
         /\ end.tmp \subseteq Halves /\ IsKey(end.tmp)
         /\ end.sent \in Nat /\ end.got \in Nat
  <2>1. srv \in ServerEnds /\ cli \in ClientEnds
    BY DEF Types
  <2> QED BY <2>1 DEF ServerEnds, ClientEnds, Modes, Keys
<1>3. srv.next \in {"unspec", "hyb"} /\ srv.changekeys \in 0..2
  BY DEF Types, ServerEnds
<1>4. {m.op : m \in Range(sendq) \cup Range(recvq)} \subseteq Ops
  BY Members, QueuedMessages, ToServerMessages DEF Ops
<1>5. \A p \in Range(toClient) \cup Range(toServer) :
         p.msg.op \in Ops /\ p.number \in Nat \cup {NoNumber}
  BY Members, ToClientMessages, ToServerMessages DEF Ops, Numbers
<1>6. \A t \in NetThreads : net[t].at \in {"idle", "send", "queue"}
  BY NetFacts
<1>7. /\ handler.at \in {"idle", "accept", "combine", "test", "reject", "announce"}
      /\ {refresher.at, core.at, user.at} \subseteq {"idle", "send"}
  BY JobFacts
<1> QED BY <1>1, <1>2, <1>3, <1>4, <1>5, <1>6, <1>7 DEF TypeOK

\* The values of the variables, with overlapping refreshes too: SetEncryption, s_key_tmp and
\* the packets of both sides (SessionBase) hold what their handlers expect.
THEOREM Typing == Spec => []TypeOK
<1>1. IInv => TypeOK
  BY TypesTypeOK DEF IInv
<1> QED BY <1>1, Invariant, PTL

LEMMA Agreement ==
  ASSUME IInv
  PROVE  LoggedIn /\ ~ made.overlap => SameKey
<1> SUFFICES ASSUME LoggedIn, ~ made.overlap PROVE SameKey
  OBVIOUS
<1>1. Types /\ Phases /\ Rightly
  BY DEF IInv, Apart
<1>2. cStatus = "authenticated"
  BY DEF LoggedIn
<1>3. srv.mode = "aes"
  BY <1>1, <1>2 DEF Phases
<1>4. CASE Agree
  BY <1>4 DEF Agree, SameKey
<1>5. CASE \E p \in Range(toClient) : p.msg = NewKey
  <2>1. PICK p \in Range(toClient) : p.msg = NewKey
    BY <1>5
  <2>2. NewKey.op = "refresh" /\ NewKey.half = {}
    BY DEF NewKey, Message
  <2>3. ToClientRight(NewKey)
    BY <1>1, <2>1 DEF Rightly, OnTheWay
  <2>4. cli.tmp = srv.key
    BY <2>2, <2>3 DEF ToClientRight
  <2> QED BY <2>1, <2>4 DEF SameKey, NewKey
<1> QED BY <1>1, <1>2, <1>3, <1>4, <1>5 DEF Phases

LEMMA NewKeyDiffers ==
  ASSUME Types, Known, srv.changekeys = 1
  PROVE  srv.tmp # srv.key
<1>1. PICK b \in srv.tmp : b[1] = "server"
  BY DEF Known, Theirs
<1>2. b \in Halves
  BY <1>1 DEF Types, ServerEnds, Keys
<1>3. b[2] \in Int
  BY <1>1, <1>2, Bounds DEF Halves
<1>4. b \in srv.key => b[2] < b[2]
  BY <1>1 DEF Known, Younger
<1> QED BY <1>1, <1>3, <1>4

LEMMA ServerRestarts ==
  ASSUME IInv, Next, srv'.sent < srv.sent
  PROVE  srv'.key # srv.key
<1>1. Types /\ Known /\ srv \in ServerEnds /\ srv.sent \in Nat
  BY DEF IInv, Types, ServerEnds
<1>2. ASSUME NEW m \in FromServer, ServerSends(m) PROVE srv'.key # srv.key
  <2>1. CASE Rekeys(m) /\ sOpen
    <3>1. srv'.key = srv.tmp /\ srv.changekeys = 1
      BY <1>1, <1>2, <2>1, SendFacts DEF SentState, Rekeys
    <3> QED BY <1>1, <3>1, NewKeyDiffers
  <2>2. CASE ~ Rekeys(m) \/ ~ sOpen
    <3>1. srv'.sent = srv.sent \/ srv'.sent = srv.sent + 1
      BY <1>1, <1>2, <2>2, SendFacts DEF SentState
    <3> QED BY <1>1, <3>1
  <2> QED BY <2>1, <2>2
<1>3. ASSUME NEW t \in NetThreads, Network(t) PROVE srv'.key # srv.key
  <2>1. CASE NetTakes(t) \/ NetReceives(t) \/ NetQueues(t)
    <3>1. srv' = srv \/ srv' = Received(Head(toServer), srv)
      BY <2>1 DEF NetTakes, NetReceives, NetQueues
    <3>2. srv'.sent = srv.sent
      BY <1>1, <3>1 DEF Received, ServerEnds
    <3> QED BY <1>1, <3>2
  <2>2. CASE NetSends(t)
    <3>1. ServerSends(net[t].msg) /\ net[t].at = "send"
      BY <2>2 DEF NetSends
    <3>2. net[t].msg \in FromServer
      BY <1>1, <3>1, NetFacts, QueuedMessages
    <3> QED BY <1>2, <3>1, <3>2
  <2> QED BY <1>3, <2>1, <2>2 DEF Network
<1>4. CASE SendAccept \/ SendTest \/ SendReject \/ SendNewKey \/ AnnounceNewKey
  <2>1. \/ handler.at = "accept" /\ ServerSends(Message("accept", srv.key))
        \/ ServerSends(Message("test", {})) \/ ServerSends(Message("reject", {}))
        \/ refresher.at = "send" /\ ServerSends(refresher.msg)
        \/ handler.at = "announce" /\ ServerSends(handler.msg)
    BY <1>4 DEF SendAccept, SendTest, SendReject, SendNewKey, AnnounceNewKey
  <2>2. handler.at = "accept" => Message("accept", srv.key) \in FromServer
    BY <1>1, LoginMessages DEF Known
  <2>3. handler.at = "announce" => handler.msg \in FromServer
    BY <1>1, JobFacts DEF FromServer, NewKey
  <2>4. refresher.at = "send" => refresher.msg \in FromServer
    BY <1>1, JobFacts
  <2> QED BY <1>2, <2>1, <2>2, <2>3, <2>4, LoginMessages
<1>5. CASE CombineKeys
  <2>1. /\ handler.at = "combine"
        /\ srv' = Rekeyed(srv, Xor(srv.key, handler.msg.half))
    BY <1>5 DEF CombineKeys
  <2>2. srv'.key = Xor(srv.key, handler.msg.half)
    BY <1>1, <2>1 DEF Rekeyed, ServerEnds
  <2>3. srv.key \in ServerHalves /\ handler.msg.half \in ClientHalves
    BY <1>1, <2>1, JobFacts, RequestHalves DEF Known
  <2> QED BY <2>2, <2>3, HalvesFacts
<1>6. CASE \/ LoginStarts \/ HandleRequest \/ HandleAnswer \/ LoginTimeout \/ ServerHearsClose
           \/ HandleRefreshKey \/ HandleMessage \/ Tell \/ GenerateNewKey
           \/ Core \/ ClientHearsClose \/ UserTypes \/ UserSends
  <2>1. \/ srv' = srv
        \/ srv' = [srv EXCEPT !.next = "hyb"]
        \/ srv' = [srv EXCEPT !.key = ServerHalf(made.server + 1)]
        \/ srv' = [srv EXCEPT !.tmp = Xor(@, Head(recvq).half), !.changekeys = 1]
        \/ srv' = [srv EXCEPT !.tmp = ServerHalf(made.server + 1), !.changekeys = 0]
    BY <1>6 DEF LoginStarts, HandleRequest, HandleAnswer, LoginTimeout, ServerHearsClose,
           HandleRefreshKey, HandleMessage, Tell, GenerateNewKey, Core, HandleNonce, HandleAccept,
           HandleReject, HandleTest, HandleNewHalf, HandleNewKey, HandleOther, CannotRead, CoreSends,
           ClientHearsClose, UserTypes, UserSends, server
  <2>2. srv'.sent = srv.sent
    BY <1>1, <2>1 DEF ServerEnds
  <2> QED BY <1>1, <2>2
<1> QED BY <1>3, <1>4, <1>5, <1>6 DEF Next, Handler

LEMMA ClientRestarts ==
  ASSUME IInv, Next, ~ made.overlap, cli'.sent < cli.sent
  PROVE  cli'.key # cli.key
<1>1. Types /\ Known /\ OneTurn /\ OnTheWay /\ cli \in ClientEnds /\ cli.sent \in Nat
  BY DEF IInv, Apart, Rightly, Types, ClientEnds
<1>2. CASE HandleAccept
  <2>1. /\ Gets("accept") /\ cStatus = "step1"
        /\ cli' = Rekeyed(cli, Xor(cli.key, Head(toClient).msg.half))
    BY <1>2 DEF HandleAccept, Half
  <2>2. cli'.key = Xor(cli.key, Head(toClient).msg.half)
    BY <1>1, <2>1 DEF Rekeyed, ClientEnds
  <2>3. Head(toClient).msg.half \in ServerHalves /\ cli.key \in ClientHalves
    BY <1>1, <2>1, GetsFacts, ToClientMessages DEF Known
  <2> QED BY <2>2, <2>3, XorBoth
<1>3. CASE HandleNewKey
  <2>1. /\ Gets("refresh") /\ Head(toClient).msg.half = {} /\ cli' = Rekeyed(cli, cli.tmp)
    BY <1>3 DEF HandleNewKey, Half
  <2>2. cli'.key = cli.tmp
    BY <1>1, <2>1 DEF Rekeyed, ClientEnds
  <2>3. ToClientRight(Head(toClient).msg) /\ Head(toClient).msg.op = "refresh"
    BY <1>1, <2>1, GetsAlone
  <2> QED BY <2>1, <2>2, <2>3 DEF ToClientRight
<1>4. CASE HandleTest \/ HandleNewHalf \/ HandleOther
  <2>1. PICK op : Gets(op)
    BY <1>4 DEF HandleTest, HandleNewHalf, HandleOther
  <2>2. PICK p \in ToClient : p = Head(toClient) /\ Accepts(p, cli)
    BY <1>1, <2>1, GetsFacts
  <2>3. \/ cli' = Numbered(Received(p, cli))
        \/ \E k : cli' = [Numbered(Received(p, cli)) EXCEPT !.tmp = k]
        \/ cli' = Received(p, cli)
    BY <1>4, <2>2 DEF HandleTest, HandleNewHalf, HandleOther, Half
  <2>4. PICK e \in ClientEnds : /\ e = Numbered(Received(p, cli))
                                /\ e.sent = cli.sent \/ e.sent = cli.sent + 1
    BY <1>1, <2>2, ReceivedFacts
  <2>5. Received(p, cli).sent = cli.sent
    BY <1>1, <2>2, ReceivedFacts
  <2>6. cli'.sent = cli.sent \/ cli'.sent = cli.sent + 1
    BY <2>3, <2>4, <2>5 DEF ClientEnds
  <2> QED BY <1>1, <2>6
<1>5. CASE ~ (HandleAccept \/ HandleNewKey \/ HandleTest \/ HandleNewHalf \/ HandleOther)
  <2>1. \/ cli' = cli \/ cli' = Numbered(cli)
        \/ cli' = [cli EXCEPT !.mode = "hyb", !.key = ClientHalf(made.client + 1)]
    BY <1>5 DEF Next, Network, NetTakes, NetSends, NetReceives, NetQueues,
         Handler, LoginStarts, HandleRequest, SendAccept, CombineKeys, SendTest, SendReject,
         HandleAnswer, HandleRefreshKey, AnnounceNewKey, HandleMessage,
         GenerateNewKey, SendNewKey, Tell, LoginTimeout, ServerHearsClose,
         Core, HandleNonce, HandleReject, CannotRead, CoreSends, ClientHearsClose, UserTypes,
         UserSends, client
  <2>2. cli'.sent = cli.sent \/ cli'.sent = cli.sent + 1
    BY <1>1, <2>1 DEF Numbered, ClientEnds
  <2> QED BY <1>1, <2>2
<1> QED BY <1>2, <1>3, <1>4, <1>5

\* Two ends that are logged in have the same key (SessionBase::s_key), but for the packet that
\* tells the client to change over, unless refreshes have overlapped; and the packet numbers
\* of a side (ResetPacketNum) restart only together with another key.
THEOREM SameKeys == Spec => KeysAgree
<1>1. IInv => (LoggedIn /\ ~ made.overlap => SameKey)
  BY Agreement
<1>2. IInv /\ [Next]_vars =>
        [/\ srv'.sent < srv.sent => srv'.key # srv.key
         /\ ~ made.overlap /\ cli'.sent < cli.sent => cli'.key # cli.key]_vars
  BY ServerRestarts, ClientRestarts
<1> QED BY <1>1, <1>2, Invariant, PTL DEF Spec, KeysAgree

LEMMA ServerCanRead ==
  ASSUME IInv, ~ made.overlap
  PROVE  ServerReads
<1> SUFFICES ASSUME made.typed = 0, sOpen, toServer # << >> PROVE Accepts(Head(toServer), srv)
  BY DEF ServerReads
<1>1. Types /\ OnTheWay /\ Phases /\ Back
  BY DEF IInv, Apart, Rightly
<1>2. PICK p \in ToServer : p = Head(toServer) /\ p \in Range(toServer) /\ p.msg \in FromClient
  BY <1>1, Firsts
<1>3. /\ IsTurn(p.msg) /\ p.seal = Seal(cli)
      /\ p.number = NoNumber <=> cli.mode # "aes"
      /\ cli.mode = "aes" => srv.got <= p.number
  BY <1>1, <1>2 DEF Back
<1>4. p.msg.op \in {"request", "answer", "refresh"}
  BY <1>2, <1>3, ToServerMessages DEF IsTurn
<1>5. ToServerRight(p.msg, "authenticated")
  BY <1>1, <1>2 DEF OnTheWay
<1>6. Agree \/ (cli.mode = "hyb" /\ srv.mode = "hyb")
  BY <1>1, <1>4, <1>5 DEF ToServerRight, Phases
<1>7. Seal(srv) = Seal(cli) /\ srv.mode = cli.mode
  BY <1>6 DEF Agree, Seal
<1> QED BY <1>2, <1>3, <1>7 DEF Accepts, Readable, Fresh

LEMMA ClientCanRead ==
  ASSUME IInv, ~ made.overlap
  PROVE  ClientReads
<1> SUFFICES ASSUME made.unsent = 0, toClient # << >> PROVE Accepts(Head(toClient), cli)
  BY DEF ClientReads
<1>1. Types /\ Stream
  BY DEF IInv, Apart
<1>2. ~ Exempt(Head(toClient))
  BY DEF Exempt
<1> QED BY <1>1, <1>2, FirstIsRead

\* Unless refreshes have overlapped, the client decrypts every packet it receives if no queue
\* position was unsent when the login started, and the server does if its user types nothing
\* (RecvPacketFromSocket of both sides): the keys and the packet numbers change at points the
\* other side has followed by the time the packet is read.
THEOREM EverythingIsRead == Spec => []PacketsAreRead
<1>1. IInv => PacketsAreRead
  BY ServerCanRead, ClientCanRead DEF PacketsAreRead
<1> QED BY <1>1, Invariant, PTL
=============================================================================
