---------------------------- MODULE ClientProofs ----------------------------
(***************************************************************************)
(* Proofs about Client, for any number of connections, packets and lines.  *)
(***************************************************************************)
EXTENDS Client, SequenceTheorems, TLAPS

-----------------------------------------------------------------------------
(* The inductive invariant.                                                  *)

\* A message about a user has a connection.
Messages == {Text, Empty} \cup {Row(c) : c \in Conns}

Types == /\ TypeOK
         /\ events \in Seq(Messages)
         /\ line \in [sent : Seq(Kinds), count : 0..MaxPackets, closed : BOOLEAN]

\* What the user is in the middle of.
Dialing == {"connect", "up", "start"}
Leaving == {"close", "down", "cancel", "delete", "new", "send"}

\* Threads are started one after the other, each for a session that was connected.
Started ==
    /\ \A c \in Conns : IF c > tid THEN core[c] = NotStarted ELSE core[c].at # "none"
    /\ connected => tid > 0 \/ user = "start"
    /\ user \in Dialing \cup {"dialog"} => tid < MaxConns
    /\ user \in Leaving => tid > 0

\* The gdk lock.
OneHolds == UserHolds => ~GuiHolds

\* GuiThread waits, or is about to, in vain only if a signal was lost.
NoneWaits == gui \in {"asked", "waiting"} /\ ~missed => events = << >>

\* Unless the user has crossed a CoreThread: an earlier thread has ended, also the last one
\* when the user connects, and ...
EndsFirst ==
    /\ ~Overlap
    /\ \A c \in Conns : c < tid => core[c].at = "done"
    /\ user \in Dialing \cup {"delete", "new"} => \A c \in Conns : core[c].at \in {"none", "done"}

\* ... the status tells the thread whether to go on, but while the user is about to cancel it.
Obeys ==
    /\ user \in {"dialog", "connect", "up", "cancel", "delete", "new"} => ~connected
    /\ user = "start" => connected
    /\ user \in {"close", "down"} => connected \/ "fake" \in past
    /\ \A c \in Conns :
         /\ core[c].cancelled => core[c].at = "done"
         /\ ~connected /\ user # "cancel" => core[c].at \notin {"check", "call", "recv", "handle"}
         /\ core[c].at \in {"delete", "new", "tell"} => ~connected
    /\ connected /\ user # "start" => core[tid].at # "done"

\* The login is rejected once, and the thread ends.
RejectedOnce ==
    \A c \in Conns : core[c].packet = "reject" =>
       /\ core[c].at \notin {"check", "call", "recv", "lost", "tell"}
       /\ core[c].at = "test" => ~connected

\* Who has the socket.
Kept ==
    /\ socket = "deleted" => user = "new" \/ \E c \in Conns : core[c].at = "new"
    /\ user \notin {"down", "cancel"} =>
         \A c \in Conns : core[c].at \in {"recv", "handle"} => socket = "live"
    /\ ~connected /\ past \cap {"refused", "fake"} = {} =>
         \/ socket = "fresh" \/ user \in {"up", "cancel", "delete", "new"}
         \/ \E c \in Conns : core[c].at \in {"delete", "new"}

\* A status that was changed before its message.
Untold(c) == core[c].at \in {"delete", "new", "tell"} /\ core[c].packet # "reject"

Labelled ==
    "raced" \notin past =>
      /\ (window.label = "Disconnect") = (IF gui = "prev" THEN connected ELSE prev)
      /\ gui = "take" => prev = connected
      /\ gui \in {"asked", "waiting"} /\ ~missed /\ (\A c \in Conns : ~Untold(c)) =>
           prev = connected

Emptied ==
    past \cap {"raced", "late"} = {} =>
      window.list = {} \/ (IF gui = "prev" THEN connected ELSE prev)

Apart == EndsFirst /\ Obeys /\ RejectedOnce /\ Kept /\ Labelled /\ Emptied

IInv == Types /\ Started /\ OneHolds /\ NoneWaits /\ (~crossed => Apart) /\ SocketKept
-----------------------------------------------------------------------------
(* What a step is, and what it does to one thread.                          *)

Actions ==
    \/ \E p \in Kinds : ServerSends(p)
    \/ ServerCloses
    \/ GuiTests \/ GuiPrev \/ GuiTake \/ GuiWait \/ SpuriousWake
    \/ \E c \in Conns : CoreNext(c)
    \/ ClickConnect \/ DialogLeft \/ ClickDisconnect \/ ClickSend
    \/ UserGoesOn

LEMMA StepFacts ==
  ASSUME Next
  PROVE  /\ Actions
         /\ fault = {}
         /\ crossed' \in BOOLEAN
         /\ ~ crossed' => ~ crossed /\ ~ Overlap'
<1>1. CASE Step(\E p \in Kinds : ServerSends(p))
  BY <1>1 DEF Step, Actions
<1>2. CASE Step(ServerCloses)
  BY <1>2 DEF Step, Actions
<1>3. CASE Step(GuiNext)
  BY <1>3 DEF Step, Actions, GuiNext
<1>4. CASE Step(SpuriousWake)
  BY <1>4 DEF Step, Actions
<1>5. CASE \E c \in Conns : Step(CoreNext(c))
  BY <1>5 DEF Step, Actions
<1>6. CASE Step(ClickConnect \/ DialogLeft \/ ClickDisconnect \/ ClickSend)
  BY <1>6 DEF Step, Actions
<1>7. CASE Step(UserGoesOn)
  BY <1>7 DEF Step, Actions
<1> QED BY <1>1, <1>2, <1>3, <1>4, <1>5, <1>6, <1>7 DEF Next

Threads == [at : CorePcs, packet : Kinds \cup {None}, cancelled : BOOLEAN]

LEMMA ConnsFacts ==
  /\ MaxConns \in Nat /\ MaxPackets \in Nat /\ MaxSends \in Nat /\ MaxPending \in Nat
  /\ \A c \in Conns : c \in Nat /\ c > 0 /\ c <= MaxConns
  /\ \A n \in Nat : n > 0 /\ n <= MaxConns => n \in Conns
BY BoundsAssumption DEF Conns

\* Moves(c, at) moves thread c and nothing else.
LEMMA MovesFacts ==
  ASSUME core \in [Conns -> Threads], NEW c \in Conns, NEW at \in CorePcs, Moves(c, at)
  PROVE  /\ core' \in [Conns -> Threads]
         /\ core'[c].at = at
         /\ core'[c].packet = core[c].packet /\ core'[c].cancelled = core[c].cancelled
         /\ \A d \in Conns : d # c => core'[d] = core[d]
<1>1. core[c] \in Threads
  OBVIOUS
<1>2. core' = [core EXCEPT ![c] = [core[c] EXCEPT !.at = at]]
  BY DEF Moves
<1>3. /\ [core[c] EXCEPT !.at = at] \in Threads
      /\ [core[c] EXCEPT !.at = at].at = at
      /\ [core[c] EXCEPT !.at = at].packet = core[c].packet
      /\ [core[c] EXCEPT !.at = at].cancelled = core[c].cancelled
  BY <1>1 DEF Threads
<1> QED BY <1>2, <1>3

LEMMA CoreMoves ==
  ASSUME Types, NEW c \in Conns, CoreNext(c)
  PROVE  /\ core[c].at \notin {"none", "done"}
         /\ core' \in [Conns -> Threads]
         /\ core'[c].at \in CorePcs \ {"none"} /\ core'[c].cancelled = core[c].cancelled
         /\ \A d \in Conns : d # c => core'[d] = core[d]
         /\ core'[c].packet = core[c].packet \/ core'[c].packet \in Kinds
         /\ UNCHANGED <<tid, user, sends>>
<1> USE DEF CoreStep
<1>1. core \in [Conns -> Threads] /\ line \in [sent : Seq(Kinds), count : 0..MaxPackets, closed : BOOLEAN]
  BY DEF Types, TypeOK, Threads
<1>2. CASE Test(c)
  BY <1>1, <1>2, MovesFacts DEF Test, CorePcs
<1>3. CASE Check(c)
  BY <1>1, <1>3, MovesFacts DEF Check, CorePcs
<1>4. CASE Call(c)
  BY <1>1, <1>4, MovesFacts DEF Call, CorePcs
<1>5. CASE Receive(c)
  <2>1. /\ core[c].at = "recv"
        /\ core' = [core EXCEPT ![c] = [core[c] EXCEPT !.at = "handle", !.packet = Head(line.sent)]]
        /\ UNCHANGED <<tid, user, sends>>
    BY <1>5 DEF Receive
  <2>2. PICK p \in Kinds : p = Head(line.sent)
    BY <1>1, <1>5, HeadTailProperties DEF Receive
  <2>3. PICK r : r = [core[c] EXCEPT !.at = "handle", !.packet = p]
    OBVIOUS
  <2>4. /\ r \in Threads /\ r.at = "handle" /\ r.packet = p
        /\ r.cancelled = core[c].cancelled
    BY <1>1, <2>3 DEF Threads, CorePcs
  <2>5. core' = [core EXCEPT ![c] = r]
    BY <2>1, <2>2, <2>3
  <2> QED BY <1>1, <2>1, <2>4, <2>5 DEF CorePcs
<1>6. CASE ReceiveEnd(c)
  BY <1>1, <1>6, MovesFacts DEF ReceiveEnd, CorePcs
<1>7. CASE HandleText(c)
  BY <1>1, <1>7, MovesFacts DEF HandleText, Handle, CorePcs
<1>8. CASE HandleChannelUsersList(c)
  BY <1>1, <1>8, MovesFacts DEF HandleChannelUsersList, Handle, CorePcs
<1>9. CASE HandleFake(c)
  BY <1>1, <1>9, MovesFacts DEF HandleFake, Handle, CorePcs
<1>10. CASE HandleReject(c)
  BY <1>1, <1>10, MovesFacts DEF HandleReject, Handle, CorePcs
<1>11. CASE Rejected(c)
  BY <1>1, <1>11, MovesFacts DEF Rejected, CorePcs
<1>12. CASE HandleBad(c)
  BY <1>1, <1>12, MovesFacts DEF HandleBad, CorePcs
<1>13. CASE Lost(c)
  BY <1>1, <1>13, MovesFacts DEF Lost, CorePcs
<1>14. CASE Delete(c)
  BY <1>1, <1>14, MovesFacts DEF Delete, CorePcs
<1>15. CASE New(c)
  BY <1>1, <1>15, MovesFacts DEF New, CorePcs
<1>16. CASE Tell(c)
  BY <1>1, <1>16, MovesFacts DEF Tell, CorePcs
<1> QED BY <1>2, <1>3, <1>4, <1>5, <1>6, <1>7, <1>8, <1>9, <1>10, <1>11, <1>12,
           <1>13, <1>14, <1>15, <1>16 DEF CoreNext

-----------------------------------------------------------------------------
(* Types, and the threads that were started.                                *)

GuiPcs == {"top", "prev", "take", "asked", "waiting"}
Excuses == {"raced", "late", "fake", "silent", "refused"}
Faults == {"use", "delete", "cancel", "send"}

SharedTypes ==
    /\ connected \in BOOLEAN /\ socket \in SocketStates
    /\ line \in [sent : Seq(Kinds), count : 0..MaxPackets, closed : BOOLEAN]
    /\ events \in Seq(Messages) /\ gui \in GuiPcs
    /\ prev \in BOOLEAN /\ missed \in BOOLEAN
    /\ window \in [label : {"Connect", "Disconnect"}, list : SUBSET Conns]
    /\ past \subseteq Excuses /\ fault \subseteq Faults

LEMMA TypesParts ==
  Types => /\ SharedTypes
           /\ tid \in 0..MaxConns /\ core \in [Conns -> Threads]
           /\ user \in UserPcs /\ sends \in 0..MaxSends /\ crossed \in BOOLEAN
BY DEF Types, TypeOK, SharedTypes, GuiPcs, Excuses, Faults, Threads

LEMMA TypesPartsNext ==
  ASSUME SharedTypes', tid' \in 0..MaxConns, core' \in [Conns -> Threads],
         user' \in UserPcs, sends' \in 0..MaxSends, crossed' \in BOOLEAN
  PROVE  Types'
<1>1. Messages \subseteq [kind : {"text", "L", "J"}, row : Conns \cup {None}]
  BY DEF Messages, Text, Empty, Row
<1>2. events' \in Seq([kind : {"text", "L", "J"}, row : Conns \cup {None}])
  BY <1>1, SeqMonotonic DEF SharedTypes
<1> QED BY <1>2 DEF Types, TypeOK, SharedTypes, GuiPcs, Excuses, Faults, Threads

\* A signal wakes GuiThread, or is remembered to be lost.
LEMMA SignalFacts ==
  ASSUME SharedTypes, SignalEvent
  PROVE  /\ gui' \in GuiPcs /\ missed' \in BOOLEAN /\ UNCHANGED <<prev, window>>
         /\ gui' \in {"prev", "take"} <=> gui \in {"prev", "take"}
         /\ gui' = "prev" <=> gui = "prev"
         /\ gui' = "take" <=> gui = "take"
         /\ gui' \in {"asked", "waiting"} => missed'
BY DEF SharedTypes, SignalEvent, GuiPcs

LEMMA SendFacts ==
  ASSUME SharedTypes, NEW es \in Seq(Messages), SendToGui(es)
  PROVE  /\ events' \in Seq(Messages)
         /\ gui' \in GuiPcs /\ missed' \in BOOLEAN /\ UNCHANGED <<prev, window>>
         /\ gui' \in {"prev", "take"} <=> gui \in {"prev", "take"}
         /\ gui' = "prev" <=> gui = "prev"
         /\ gui' = "take" <=> gui = "take"
         /\ gui' \in {"asked", "waiting"} => missed'
BY SignalFacts, ConcatProperties DEF SendToGui, SharedTypes

LEMMA TextsFacts ==
  /\ << Text >> \in Seq(Messages)
  /\ \A c \in Conns : << Empty, Row(c) >> \in Seq(Messages)
BY DEF Messages

LEMMA FaultyFacts ==
  ASSUME SharedTypes, NEW kind \in Faults, NEW isFault, Faulty(kind, isFault)
  PROVE  fault' \subseteq Faults
BY DEF Faulty, SharedTypes

LEMMA RacedFacts == \A b : Raced(b) \subseteq {"raced"}
BY DEF Raced

LEMMA QuietFacts ==
  ASSUME SharedTypes, Quietly
  PROVE  /\ events' \in Seq(Messages) /\ gui' \in GuiPcs
         /\ prev' \in BOOLEAN /\ missed' \in BOOLEAN
         /\ window' \in [label : {"Connect", "Disconnect"}, list : SUBSET Conns]
BY DEF SharedTypes, Quietly, display

LEMMA SharedCore ==
  ASSUME Types, NEW c \in Conns, CoreNext(c)
  PROVE  SharedTypes'
<1> USE DEF CoreStep, SocketStates, Excuses, Faults
<1>1. SharedTypes /\ core \in [Conns -> Threads]
  BY TypesParts
<1>2. CASE Test(c)
  BY <1>1, <1>2, QuietFacts DEF Test, SharedTypes
<1>3. CASE Check(c)
  BY <1>1, <1>3, QuietFacts, FaultyFacts DEF Check, SharedTypes
<1>4. CASE Call(c)
  <2>1. fault' \subseteq Faults
    BY <1>1, <1>4, FaultyFacts DEF Call, SharedTypes
  <2>2. socket' \in SocketStates
    BY <1>1, <1>4 DEF Call, SharedTypes
  <2> QED BY <1>1, <1>4, <2>1, <2>2, QuietFacts DEF Call, SharedTypes
<1>5. CASE Receive(c)
  <2>1. line' = [line EXCEPT !.sent = Tail(@)] /\ line.sent # << >>
    BY <1>5 DEF Receive
  <2>2. Tail(line.sent) \in Seq(Kinds)
    BY <1>1, <2>1, HeadTailProperties DEF SharedTypes
  <2>3. line' \in [sent : Seq(Kinds), count : 0..MaxPackets, closed : BOOLEAN]
    BY <1>1, <2>1, <2>2 DEF SharedTypes
  <2> QED BY <1>1, <1>5, <2>3, QuietFacts DEF Receive, SharedTypes
<1>6. CASE ReceiveEnd(c)
  BY <1>1, <1>6, QuietFacts DEF ReceiveEnd, SharedTypes
<1>7. ASSUME NEW kind, NEW told \in Seq(Messages), Handle(c, kind, told),
             connected' \in BOOLEAN, socket' = socket, past' \subseteq Excuses
      PROVE  SharedTypes'
  BY <1>1, <1>7, SendFacts, FaultyFacts DEF Handle, SharedTypes
<1>8. CASE HandleText(c)
  BY <1>1, <1>7, <1>8, TextsFacts DEF HandleText, SharedTypes
<1>9. CASE HandleChannelUsersList(c)
  BY <1>1, <1>7, <1>9, TextsFacts DEF HandleChannelUsersList, SharedTypes
<1>10. CASE HandleFake(c)
  BY <1>1, <1>7, <1>10, TextsFacts, RacedFacts DEF HandleFake, SharedTypes
<1>11. CASE HandleReject(c)
  BY <1>1, <1>7, <1>11, TextsFacts DEF HandleReject, SharedTypes
<1>12. CASE Rejected(c)
  BY <1>1, <1>12, QuietFacts, FaultyFacts, RacedFacts DEF Rejected, SharedTypes
<1>13. CASE HandleBad(c)
  BY <1>1, <1>13, QuietFacts, FaultyFacts DEF HandleBad, SharedTypes
<1>14. CASE Lost(c)
  BY <1>1, <1>14, QuietFacts, FaultyFacts, RacedFacts DEF Lost, SharedTypes
<1>15. CASE Delete(c)
  BY <1>1, <1>15, QuietFacts, FaultyFacts DEF Delete, SharedTypes
<1>16. CASE New(c)
  BY <1>1, <1>16, QuietFacts DEF New, SharedTypes
<1>17. CASE Tell(c)
  BY <1>1, <1>17, SendFacts, TextsFacts DEF Tell, SharedTypes
<1> QED BY <1>2, <1>3, <1>4, <1>5, <1>6, <1>8, <1>9, <1>10, <1>11, <1>12, <1>13,
           <1>14, <1>15, <1>16, <1>17 DEF CoreNext

\* The server and GuiThread.
OthersMove ==
    \/ \E p \in Kinds : ServerSends(p)
    \/ ServerCloses
    \/ GuiTests \/ GuiPrev \/ GuiTake \/ GuiWait \/ SpuriousWake

LEMMA OthersKeep ==
  ASSUME OthersMove
  PROVE  /\ UNCHANGED <<connected, socket, tid, core, user, sends, fault>>
         /\ past \subseteq past'
BY DEF OthersMove, ServerSends, ServerCloses, GuiTests, GuiPrev, GuiTake, GuiWait, SpuriousWake,
       Tests

LEMMA SharedOthers ==
  ASSUME Types, OthersMove
  PROVE  SharedTypes'
<1>1. SharedTypes
  BY TypesParts
<1> USE DEF Tests, GuiPcs
<1>2. ASSUME NEW p \in Kinds, ServerSends(p)
      PROVE  SharedTypes'
  <2>1. line' = [line EXCEPT !.sent = Append(line.sent, p), !.count = line.count + 1]
    BY <1>2 DEF ServerSends
  <2>2. line.count + 1 \in 0..MaxPackets /\ Append(line.sent, p) \in Seq(Kinds)
    BY <1>1, <1>2, ConnsFacts, AppendProperties DEF ServerSends, SharedTypes
  <2>3. line' \in [sent : Seq(Kinds), count : 0..MaxPackets, closed : BOOLEAN]
    BY <1>1, <2>1, <2>2 DEF SharedTypes
  <2> QED BY <1>1, <1>2, <2>3 DEF ServerSends, SharedTypes, display
<1>3. CASE ServerCloses
  BY <1>1, <1>3 DEF ServerCloses, SharedTypes, display
<1>4. CASE GuiTests
  <2>1. window' \in [label : {"Connect", "Disconnect"}, list : SUBSET Conns]
    BY <1>1, <1>4 DEF GuiTests, SharedTypes
  <2> QED BY <1>1, <1>4, <2>1 DEF GuiTests, SharedTypes
<1>5. CASE GuiPrev
  BY <1>1, <1>5 DEF GuiPrev, SharedTypes
<1>6. CASE GuiTake
  <2>1. past' \subseteq Excuses
    BY <1>1, <1>6 DEF GuiTake, SharedTypes, Late, Excuses
  <2>2. CASE events = << >>
    BY <1>1, <1>6, <2>1, <2>2 DEF GuiTake, SharedTypes
  <2>3. CASE events # << >>
    <3>1. PICK e \in Messages : e = Head(events)
      BY <1>1, <2>3, HeadTailProperties DEF SharedTypes
    <3>2. Tail(events) \in Seq(Messages)
      BY <1>1, <2>3, HeadTailProperties DEF SharedTypes
    <3>3. PICK l : l = Listed(e, window.list)
      OBVIOUS
    <3>4. events' = Tail(events) /\ window' = [window EXCEPT !.list = l] /\ gui' \in GuiPcs
      BY <1>6, <2>3, <3>1, <3>3 DEF GuiTake
    <3>5. l \subseteq Conns
      <4>1. window.list \subseteq Conns
        BY <1>1 DEF SharedTypes
      <4>2. CASE e.row \in Conns
        BY <3>3, <4>1, <4>2 DEF Listed
      <4>3. CASE e.row \notin Conns
        BY <3>1, <3>3, <4>1, <4>3 DEF Listed, Messages, Text, Empty, Row
      <4> QED BY <4>2, <4>3
    <3> QED BY <1>1, <1>6, <2>1, <3>2, <3>4, <3>5 DEF GuiTake, SharedTypes
  <2> QED BY <2>2, <2>3
<1>7. CASE GuiWait
  BY <1>1, <1>7 DEF GuiWait, SharedTypes
<1>8. CASE SpuriousWake
  BY <1>1, <1>8 DEF SpuriousWake, SharedTypes
<1> QED BY <1>2, <1>3, <1>4, <1>5, <1>6, <1>7, <1>8 DEF OthersMove

UserMoves == ClickConnect \/ DialogLeft \/ ClickDisconnect \/ ClickSend \/ UserGoesOn

LEMMA ActionsOf == Actions <=> OthersMove \/ (\E c \in Conns : CoreNext(c)) \/ UserMoves
BY DEF Actions, OthersMove, UserMoves

\* How many threads there are, after each step of the user.
LEMMA UserTypes ==
  ASSUME Types, Started, UserMoves
  PROVE  /\ tid' \in 0..MaxConns /\ core' \in [Conns -> Threads]
         /\ user' \in UserPcs /\ sends' \in 0..MaxSends
         /\ Started'
<1> USE DEF UserGoes, UserStep, UserPcs, Dialing, Leaving
<1>1. /\ SharedTypes /\ tid \in 0..MaxConns /\ tid \in Nat /\ core \in [Conns -> Threads]
      /\ user \in UserPcs /\ sends \in 0..MaxSends /\ MaxConns \in Nat /\ MaxSends \in Nat
  BY TypesParts, ConnsFacts
<1>2. CASE ClickConnect
  BY <1>1, <1>2 DEF ClickConnect, CanClick, Started
<1>3. CASE DialogLeft
  BY <1>1, <1>3 DEF DialogLeft, Started
<1>4. CASE ClickDisconnect
  BY <1>1, <1>4 DEF ClickDisconnect, CanClick, Started
<1>5. CASE ClickSend
  BY <1>1, <1>5 DEF ClickSend, CanClick, Started
<1>6. CASE ConnectSocket
  BY <1>1, <1>6 DEF ConnectSocket, Started
<1>7. CASE Connected
  BY <1>1, <1>7 DEF Connected, Started
<1>8. CASE StartCore
  <2>1. PICK n \in Conns : n = tid + 1
    BY <1>1, <1>8, ConnsFacts DEF StartCore, Started
  <2>2. /\ tid' = n /\ user' = "idle" /\ sends' = sends /\ connected' = connected
        /\ core' = [core EXCEPT ![n] = [core[n] EXCEPT !.at = "test"]]
    BY <1>8, <2>1 DEF StartCore
  <2>3. [core[n] EXCEPT !.at = "test"] \in Threads
    <3>1. core[n] \in Threads
      BY <1>1
    <3> QED BY <3>1 DEF Threads, CorePcs
  <2>4. core' \in [Conns -> Threads] /\ \A c \in Conns : c # n => core'[c] = core[c]
    BY <1>1, <2>2, <2>3
  <2>5. \A c \in Conns : IF c > n THEN core'[c] = NotStarted ELSE core'[c].at # "none"
    <3>1. core'[n].at = "test"
      BY <1>1, <2>2
    <3>2. ASSUME NEW c \in Conns, c # n
          PROVE  core'[c] = core[c] /\ (c > n <=> c > tid)
      BY <1>1, <2>1, <2>4, <3>2, ConnsFacts
    <3> QED BY <2>1, <3>1, <3>2, ConnsFacts DEF Started
  <2> QED BY <1>1, <2>1, <2>2, <2>4, <2>5, ConnsFacts DEF Started
<1>9. CASE ConnectFails
  BY <1>1, <1>9 DEF ConnectFails, Started
<1>10. CASE CloseRaw
  BY <1>1, <1>10 DEF CloseRaw, Started
<1>11. CASE CloseFails
  BY <1>1, <1>11 DEF CloseFails, Started
<1>12. CASE Disconnected
  BY <1>1, <1>12 DEF Disconnected, Started
<1>13. CASE Cancel
  <2>1. tid \in Conns
    BY <1>1, <1>13, ConnsFacts DEF Cancel, Started
  <2>2. PICK r : r = [core[tid] EXCEPT !.cancelled = TRUE,
                         !.at = IF @ \in {"test", "call", "recv"} THEN "done" ELSE @]
    OBVIOUS
  <2>3. /\ core' = [core EXCEPT ![tid] = r] /\ user' = "delete"
        /\ UNCHANGED <<tid, sends, connected>>
    BY <1>13, <2>2 DEF Cancel
  <2>4. r \in Threads
    <3>1. core[tid] \in Threads
      BY <1>1, <2>1
    <3> QED BY <2>2, <3>1 DEF Threads, CorePcs
  <2>5. core' \in [Conns -> Threads] /\ \A c \in Conns : c # tid => core'[c] = core[c]
    BY <1>1, <2>1, <2>3, <2>4
  <2>6. core'[tid].at # "none"
    <3>1. core[tid].at # "none" /\ core[tid] \in Threads
      BY <1>1, <2>1 DEF Started
    <3> QED BY <1>1, <2>1, <2>2, <2>3, <3>1 DEF Threads
  <2>7. \A c \in Conns : IF c > tid THEN core'[c] = NotStarted ELSE core'[c].at # "none"
    BY <1>1, <2>5, <2>6 DEF Started
  <2> QED BY <1>1, <1>13, <2>3, <2>5, <2>7 DEF Cancel, Started
<1>14. CASE UserDelete
  BY <1>1, <1>14 DEF UserDelete, Started
<1>15. CASE UserNew
  BY <1>1, <1>15 DEF UserNew, Started
<1>16. CASE Send
  BY <1>1, <1>16 DEF Send, Started
<1> QED BY <1>2, <1>3, <1>4, <1>5, <1>6, <1>7, <1>8, <1>9, <1>10, <1>11, <1>12,
           <1>13, <1>14, <1>15, <1>16 DEF UserMoves, UserGoesOn

LEMMA SharedUser ==
  ASSUME Types, UserMoves
  PROVE  SharedTypes'
<1> USE DEF UserStep, SocketStates, Excuses, Faults
<1>1. SharedTypes /\ MaxPackets \in Nat
  BY TypesParts, ConnsFacts
<1>2. CASE ClickConnect
  BY <1>1, <1>2, QuietFacts DEF ClickConnect, SharedTypes
<1>3. CASE DialogLeft
  BY <1>1, <1>3, QuietFacts DEF DialogLeft, SharedTypes
<1>4. CASE ClickDisconnect
  BY <1>1, <1>4, QuietFacts DEF ClickDisconnect, SharedTypes
<1>5. CASE ClickSend
  BY <1>1, <1>5, SendFacts, TextsFacts DEF ClickSend, SharedTypes
<1>6. CASE ConnectSocket
  <2>1. << >> \in Seq(Kinds) /\ 0 \in 0..MaxPackets
    BY <1>1
  <2>2. line' \in [sent : Seq(Kinds), count : 0..MaxPackets, closed : BOOLEAN]
    BY <1>6, <2>1 DEF ConnectSocket
  <2> QED BY <1>1, <1>6, <2>2, QuietFacts DEF ConnectSocket, SharedTypes
<1>7. CASE Connected
  BY <1>1, <1>7, SendFacts, TextsFacts DEF Connected, SharedTypes
<1>8. CASE StartCore
  BY <1>1, <1>8, SignalFacts DEF StartCore, SharedTypes
<1>9. CASE ConnectFails
  BY <1>1, <1>9, SendFacts, TextsFacts, FaultyFacts DEF ConnectFails, SharedTypes
<1>10. CASE CloseRaw
  BY <1>1, <1>10, QuietFacts, FaultyFacts DEF CloseRaw, SharedTypes
<1>11. CASE CloseFails
  BY <1>1, <1>11, SendFacts, TextsFacts DEF CloseFails, SharedTypes
<1>12. CASE Disconnected
  BY <1>1, <1>12, SendFacts, TextsFacts, FaultyFacts DEF Disconnected, SharedTypes
<1>13. CASE Cancel
  BY <1>1, <1>13, QuietFacts, FaultyFacts DEF Cancel, SharedTypes
<1>14. CASE UserDelete
  BY <1>1, <1>14, QuietFacts, FaultyFacts DEF UserDelete, SharedTypes
<1>15. CASE UserNew
  BY <1>1, <1>15, SignalFacts DEF UserNew, SharedTypes
<1>16. CASE Send
  <2>1. fault' \subseteq Faults
    BY <1>1, <1>16, FaultyFacts DEF Send, SharedTypes
  <2> QED BY <1>1, <1>16, <2>1, QuietFacts, SendFacts, TextsFacts DEF Send, SharedTypes
<1> QED BY <1>2, <1>3, <1>4, <1>5, <1>6, <1>7, <1>8, <1>9, <1>10, <1>11, <1>12,
           <1>13, <1>14, <1>15, <1>16 DEF UserMoves, UserGoesOn

\* No thread begins a connection.
LEMMA CoreLowers ==
  ASSUME Types, NEW c \in Conns, CoreNext(c)
  PROVE  connected' = connected \/ connected' = FALSE
BY DEF CoreNext, Test, Check, Call, Receive, ReceiveEnd, HandleText, HandleChannelUsersList,
       HandleFake, HandleReject, Rejected, HandleBad, Lost, Delete, New, Tell

LEMMA TypesStep ==
  ASSUME Types, Started, Next
  PROVE  Types' /\ Started'
<1>1. Actions /\ crossed' \in BOOLEAN
  BY StepFacts
<1>2. /\ tid \in 0..MaxConns /\ core \in [Conns -> Threads]
      /\ user \in UserPcs /\ sends \in 0..MaxSends
  BY TypesParts
<1>3. CASE OthersMove
  <2>1. UNCHANGED <<connected, tid, core, user, sends>>
    BY <1>3, OthersKeep
  <2> QED BY <1>1, <1>2, <1>3, <2>1, SharedOthers, TypesPartsNext DEF Started
<1>4. ASSUME NEW c \in Conns, CoreNext(c)
      PROVE  Types' /\ Started'
  <2>1. /\ core[c].at # "none" /\ core' \in [Conns -> Threads]
        /\ \A d \in Conns : d # c => core'[d] = core[d]
        /\ UNCHANGED <<tid, user, sends>>
    BY <1>4, CoreMoves
  <2>2. core[c] # NotStarted
    BY <2>1 DEF NotStarted
  <2>3. Started'
    BY <1>4, <2>1, <2>2, CoreLowers, CoreMoves DEF Started
  <2> QED BY <1>1, <1>2, <1>4, <2>1, <2>3, SharedCore, TypesPartsNext
<1>5. CASE UserMoves
  BY <1>1, <1>5, UserTypes, SharedUser, TypesPartsNext
<1> QED BY <1>1, <1>3, <1>4, <1>5, ActionsOf

-----------------------------------------------------------------------------
(* What the steps of the threads and of the user do to GuiThread.           *)

\* What is left to GuiThread, and how it is told.
Told == /\ UNCHANGED <<prev, window>>
        /\ gui' = "prev" <=> gui = "prev"
        /\ gui' = "take" <=> gui = "take"
        /\ \/ UNCHANGED <<events, gui, missed>>
           \/ gui' \in {"asked", "waiting"} => missed'

LEMMA QuietTold == Quietly => Told /\ UNCHANGED <<events, gui, missed>>
BY DEF Quietly, display, Told

LEMMA SendTold ==
  ASSUME SharedTypes, NEW es \in Seq(Messages), SendToGui(es)
  PROVE  Told /\ (gui' \in {"asked", "waiting"} => missed')
BY SendFacts DEF Told

LEMMA CoreTold ==
  ASSUME Types, NEW c \in Conns, CoreNext(c)
  PROVE  Told /\ past \subseteq past'
<1>1. SharedTypes
  BY TypesParts
<1>2. CASE Test(c) \/ Check(c) \/ Call(c) \/ Receive(c) \/ ReceiveEnd(c)
  BY <1>2, QuietTold DEF Test, Check, Call, Receive, ReceiveEnd
<1>3. CASE HandleText(c)
  BY <1>1, <1>3, SendTold, TextsFacts DEF HandleText, Handle
<1>4. CASE HandleChannelUsersList(c)
  BY <1>1, <1>4, SendTold, TextsFacts DEF HandleChannelUsersList, Handle
<1>5. CASE HandleFake(c)
  BY <1>1, <1>5, SendTold, TextsFacts DEF HandleFake, Handle
<1>6. CASE HandleReject(c)
  BY <1>1, <1>6, SendTold, TextsFacts DEF HandleReject, Handle
<1>7. CASE Rejected(c) \/ HandleBad(c) \/ Lost(c) \/ Delete(c) \/ New(c)
  BY <1>7, QuietTold DEF Rejected, HandleBad, Lost, Delete, New
<1>8. CASE Tell(c)
  BY <1>1, <1>8, SendTold, TextsFacts DEF Tell
<1> QED BY <1>2, <1>3, <1>4, <1>5, <1>6, <1>7, <1>8 DEF CoreNext

LEMMA UserTold ==
  ASSUME Types, UserMoves
  PROVE  Told /\ past \subseteq past'
<1>1. SharedTypes
  BY TypesParts
<1>2. CASE ClickConnect \/ DialogLeft \/ ClickDisconnect \/ ConnectSocket \/ CloseRaw \/ Cancel
           \/ UserDelete
  BY <1>2, QuietTold
     DEF ClickConnect, DialogLeft, ClickDisconnect, ConnectSocket, CloseRaw, Cancel, UserDelete
<1>3. CASE ClickSend \/ Connected \/ CloseFails \/ Disconnected
  BY <1>1, <1>3, SendTold, TextsFacts DEF ClickSend, Connected, CloseFails, Disconnected
<1>4. CASE StartCore \/ UserNew
  BY <1>1, <1>4, SignalFacts DEF StartCore, UserNew, Told
<1>5. CASE Send
  BY <1>1, <1>5, QuietTold, SendTold, TextsFacts DEF Send
<1>6. CASE ConnectFails
  BY <1>1, <1>6, SendTold, TextsFacts DEF ConnectFails
<1> QED BY <1>2, <1>3, <1>4, <1>5, <1>6 DEF UserMoves, UserGoesOn

-----------------------------------------------------------------------------
(* The gdk lock, and the signals.                                           *)

LEMMA OneHoldsStep ==
  ASSUME Types, OneHolds, Actions
  PROVE  OneHolds'
<1>1. CASE OthersMove
  <2>1. user' = user
    BY <1>1, OthersKeep
  <2> QED BY <1>1, <2>1 DEF OneHolds, UserHolds, GuiHolds, OthersMove, ServerSends, ServerCloses,
             display, GuiTests, GuiPrev, GuiTake, GuiWait, SpuriousWake
<1>2. ASSUME NEW c \in Conns, CoreNext(c)
      PROVE  OneHolds'
  <2>1. user' = user /\ GuiHolds' = GuiHolds
    BY <1>2, CoreMoves, CoreTold DEF Told, GuiHolds
  <2> QED BY <2>1 DEF OneHolds, UserHolds
<1>3. CASE UserMoves
  <2>1. GuiHolds' <=> GuiHolds
    BY <1>3, UserTold DEF Told, GuiHolds
  <2>2. UserHolds' => UserHolds \/ ~ GuiHolds
    BY <1>3 DEF UserMoves, UserGoesOn, ClickConnect, DialogLeft, ClickDisconnect, ClickSend, CanClick,
                UserGoes, ConnectSocket, Connected, StartCore, ConnectFails, CloseRaw, CloseFails,
                Disconnected, Cancel, UserDelete, UserNew, Send, UserHolds
  <2> QED BY <2>1, <2>2 DEF OneHolds
<1> QED BY <1>1, <1>2, <1>3, ActionsOf

LEMMA NoneWaitsStep ==
  ASSUME Types, NoneWaits, Actions
  PROVE  NoneWaits'
<1>1. ASSUME Told
      PROVE  NoneWaits'
  BY <1>1 DEF Told, NoneWaits
<1>2. CASE OthersMove
  BY <1>2 DEF NoneWaits, OthersMove, ServerSends, ServerCloses, display, GuiTests, GuiPrev,
              GuiTake, GuiWait, SpuriousWake, Tests
<1> QED BY <1>1, <1>2, CoreTold, UserTold, ActionsOf

-----------------------------------------------------------------------------
(* The turn of the user and of the threads.                                 *)

\* What follows where the user and a thread do not cross, after a step.
LEMMA NotCrossed ==
  ASSUME ~ Overlap'
  PROVE  /\ user' \in Dialing => \A c \in Conns : core'[c].at \notin Closing \cup {"test"}
         /\ user' \in Leaving => core'[tid'].at \notin Closing
         /\ user' \in {"delete", "new"} => core'[tid'].at \notin {"check", "handle"}
BY DEF Overlap, Dialing, Leaving

\* The thread that takes a step is the last one, and the user is not changing the socket.
LEMMA CoreAlone ==
  ASSUME Types, Started, EndsFirst, Obeys, NEW c \in Conns, CoreNext(c)
  PROVE  /\ c = tid /\ ~ core[c].cancelled
         /\ user \notin Dialing \cup {"delete", "new"}
         /\ \A d \in Conns : d # c => core[d].at \in {"none", "done"}
<1>1. core[c].at \notin {"none", "done"} /\ tid \in 0..MaxConns
  BY CoreMoves, TypesParts
<1>2. \A d \in Conns : d # tid => core[d].at \in {"none", "done"}
  BY <1>1, ConnsFacts DEF Started, EndsFirst, NotStarted
<1> QED BY <1>1, <1>2 DEF EndsFirst, Obeys

LEMMA EndsFirstStep ==
  ASSUME Types, Started, EndsFirst, Obeys, Actions, ~ Overlap'
  PROVE  EndsFirst'
<1>1. /\ tid \in 0..MaxConns /\ core \in [Conns -> Threads] /\ user \in UserPcs
      /\ \A c \in Conns : core[c].at \in CorePcs
  BY TypesParts DEF Threads
<1>2. CASE OthersMove
  BY <1>2, OthersKeep DEF EndsFirst
<1>3. ASSUME NEW c \in Conns, CoreNext(c)
      PROVE  EndsFirst'
  <2>1. /\ core[c].at # "done" /\ \A d \in Conns : d # c => core'[d] = core[d]
        /\ UNCHANGED <<tid, user>>
    BY <1>3, CoreMoves
  <2> QED BY <1>3, <2>1, CoreAlone DEF EndsFirst
<1>4. CASE UNCHANGED <<tid, core>> /\ (user' \in Dialing \cup {"delete", "new"} =>
                                          user \in Dialing \cup {"delete", "new"})
  BY <1>4 DEF EndsFirst
<1>5. CASE DialogLeft
  <2>1. UNCHANGED <<tid, core, connected>> /\ user' \in {"connect", "idle"} /\ user = "dialog"
    BY <1>5 DEF DialogLeft, UserGoes, UserStep
  <2>2. ASSUME user' = "connect", NEW c \in Conns
        PROVE  core[c].at \in {"none", "done"}
    <3>1. core[c].at \notin Closing \cup {"test"}
      BY <2>1, <2>2, NotCrossed DEF Dialing
    <3>2. core[c].at \notin {"check", "call", "recv", "handle"}
      BY <2>1 DEF Obeys
    <3> QED BY <1>1, <3>1, <3>2 DEF CorePcs, Closing
  <2> QED BY <2>1, <2>2 DEF EndsFirst, Dialing
<1>6. CASE StartCore
  <2>1. /\ tid' = tid + 1 /\ user' = "idle" /\ user = "start"
        /\ core' = [core EXCEPT ![tid + 1] = [core[tid + 1] EXCEPT !.at = "test"]]
    BY <1>6 DEF StartCore, UserGoes
  <2>2. ASSUME NEW c \in Conns, c < tid + 1
        PROVE  core'[c].at = "done"
    <3>1. core'[c] = core[c] /\ c <= tid
      BY <1>1, <2>1, <2>2, ConnsFacts
    <3>2. core[c].at \in {"none", "done"} /\ core[c].at # "none"
      BY <1>1, <2>1, <3>1, ConnsFacts DEF EndsFirst, Dialing, Started
    <3> QED BY <3>1, <3>2
  <2> QED BY <2>1, <2>2 DEF EndsFirst, Dialing
<1>7. CASE Cancel
  <2>1. /\ user = "cancel" /\ user' = "delete" /\ tid' = tid
        /\ \A c \in Conns : c # tid => core'[c] = core[c]
        /\ core' \in [Conns -> Threads]
    BY <1>1, <1>7, UserTypes DEF Cancel, UserGoes, UserMoves, UserGoesOn
  <2>2. ASSUME NEW c \in Conns
        PROVE  core'[c].at \in {"none", "done"}
    <3>1. CASE c # tid
      BY <1>1, <2>1, <3>1, ConnsFacts DEF EndsFirst, Started, NotStarted
    <3>2. CASE c = tid
      <4>1. core'[c].at = IF core[c].at \in {"test", "call", "recv"} THEN "done" ELSE core[c].at
        BY <1>1, <1>7, <3>2 DEF Cancel, Threads
      <4>2. core'[c].at \notin Closing \cup {"check", "handle"}
        BY <2>1, <3>2, NotCrossed DEF Leaving
      <4> QED BY <1>1, <4>1, <4>2 DEF CorePcs, Closing
    <3> QED BY <3>1, <3>2
  <2> QED BY <1>1, <2>1, <2>2, ConnsFacts DEF EndsFirst
<1>8. CASE UserMoves /\ ~ DialogLeft /\ ~ StartCore /\ ~ Cancel
  BY <1>4, <1>8 DEF UserMoves, UserGoesOn, ClickConnect, ClickDisconnect, ClickSend,
              UserGoes, UserStep, ConnectSocket, Connected, ConnectFails, CloseRaw, CloseFails,
              Disconnected, UserDelete, UserNew, Send, Dialing
<1> QED BY <1>2, <1>3, <1>5, <1>6, <1>7, <1>8, ActionsOf

\* Where a thread goes that takes a step, and what becomes of the status.
LEMMA CoreSteps ==
  ASSUME Types, NEW c \in Conns, CoreNext(c)
  PROVE  \/ Test(c) /\ UNCHANGED connected
              /\ core'[c].at = (IF connected /\ ~ core[c].cancelled THEN "check" ELSE "done")
         \/ Check(c) /\ UNCHANGED connected /\ core[c].at = "check"
              /\ core'[c].at = (IF socket = "closed" THEN "test" ELSE "call")
         \/ Call(c) /\ UNCHANGED connected /\ core[c].at = "call"
              /\ core'[c].at = (IF core[c].cancelled THEN "done"
                                ELSE IF socket = "live" THEN "recv" ELSE "lost")
         \/ Receive(c) /\ UNCHANGED connected /\ core[c].at = "recv" /\ core'[c].at = "handle"
         \/ ReceiveEnd(c) /\ UNCHANGED connected /\ core[c].at = "recv" /\ core'[c].at = "lost"
         \/ (HandleText(c) \/ HandleChannelUsersList(c) \/ HandleBad(c)) /\ UNCHANGED connected
              /\ core[c].at = "handle" /\ core[c].packet # "reject" /\ core'[c].at = "test"
         \/ HandleFake(c) /\ connected' = FALSE /\ "fake" \in past'
              /\ core[c].at = "handle" /\ core[c].packet # "reject" /\ core'[c].at = "test"
         \/ HandleReject(c) /\ UNCHANGED connected /\ core[c].at = "handle"
              /\ core'[c].at = "rejected"
         \/ Rejected(c) /\ connected' = FALSE /\ core[c].at = "rejected" /\ core'[c].at = "delete"
         \/ Lost(c) /\ connected' = FALSE /\ core[c].at = "lost" /\ core'[c].at = "delete"
         \/ Delete(c) /\ UNCHANGED connected /\ core[c].at = "delete" /\ core'[c].at = "new"
         \/ New(c) /\ UNCHANGED connected /\ core[c].at = "new"
              /\ core'[c].at = (IF core[c].packet = "reject" THEN "test" ELSE "tell")
         \/ Tell(c) /\ UNCHANGED connected /\ core[c].at = "tell" /\ core'[c].at = "done"
<1>1. core \in [Conns -> Threads]
  BY TypesParts
<1>2. CASE Test(c)
  BY <1>1, <1>2, MovesFacts DEF Test, CorePcs
<1>3. CASE Check(c)
  BY <1>1, <1>3, MovesFacts DEF Check, CorePcs
<1>4. CASE Call(c)
  BY <1>1, <1>4, MovesFacts DEF Call, CorePcs
<1>5. CASE Receive(c)
  <2>1. core' = [core EXCEPT ![c] = [core[c] EXCEPT !.at = "handle", !.packet = Head(line.sent)]]
    BY <1>5 DEF Receive
  <2>2. core[c] \in Threads
    BY <1>1
  <2>3. core'[c].at = "handle"
    BY <1>1, <2>1, <2>2 DEF Threads
  <2> QED BY <1>5, <2>3 DEF Receive
<1>6. CASE ReceiveEnd(c)
  BY <1>1, <1>6, MovesFacts DEF ReceiveEnd, CorePcs
<1>7. CASE HandleText(c)
  BY <1>1, <1>7, MovesFacts DEF HandleText, Handle, CorePcs
<1>8. CASE HandleChannelUsersList(c)
  BY <1>1, <1>8, MovesFacts DEF HandleChannelUsersList, Handle, CorePcs
<1>9. CASE HandleFake(c)
  BY <1>1, <1>9, MovesFacts DEF HandleFake, Handle, CorePcs
<1>10. CASE HandleReject(c)
  BY <1>1, <1>10, MovesFacts DEF HandleReject, Handle, CorePcs
<1>11. CASE Rejected(c)
  BY <1>1, <1>11, MovesFacts DEF Rejected, CorePcs
<1>12. CASE HandleBad(c)
  BY <1>1, <1>12, MovesFacts DEF HandleBad, CorePcs
<1>13. CASE Lost(c)
  BY <1>1, <1>13, MovesFacts DEF Lost, CorePcs
<1>14. CASE Delete(c)
  BY <1>1, <1>14, MovesFacts DEF Delete, CorePcs
<1>15. CASE New(c)
  BY <1>1, <1>15, MovesFacts DEF New, CorePcs
<1>16. CASE Tell(c)
  BY <1>1, <1>16, MovesFacts DEF Tell, CorePcs
<1> QED BY <1>2, <1>3, <1>4, <1>5, <1>6, <1>7, <1>8, <1>9, <1>10, <1>11, <1>12,
           <1>13, <1>14, <1>15, <1>16 DEF CoreNext

LEMMA ObeysCore ==
  ASSUME Types, Started, EndsFirst, Obeys, NEW c \in Conns, CoreNext(c), ~ Overlap'
  PROVE  Obeys'
<1>1. /\ c = tid /\ ~ core[c].cancelled /\ user \notin Dialing \cup {"delete", "new"}
      /\ \A d \in Conns : d # c => core[d].at \in {"none", "done"} /\ core'[d] = core[d]
      /\ core'[c].cancelled = core[c].cancelled
      /\ UNCHANGED <<tid, user>> /\ past \subseteq past'
  BY CoreAlone, CoreMoves, CoreTold
<1>2. connected' => connected
  BY CoreLowers
<1>3. user \in {"close", "down"} => connected' \/ "fake" \in past'
  <2>1. user \in {"close", "down"} => core'[c].at # "delete"
    BY <1>1, NotCrossed DEF Leaving, Closing
  <2>2. connected' = connected \/ core'[c].at = "delete" \/ "fake" \in past'
    BY CoreSteps
  <2> QED BY <1>1, <2>1, <2>2 DEF Obeys
<1>4. ~ connected' /\ user # "cancel" => core'[c].at \notin {"check", "call", "recv", "handle"}
  <2>1. SUFFICES ASSUME ~ connected', user # "cancel"
                 PROVE  core'[c].at \notin {"check", "call", "recv", "handle"}
    OBVIOUS
  <2>2. CASE connected
    BY <2>1, <2>2, CoreSteps
  <2>3. CASE ~ connected
    <3>1. core[c].at \notin {"check", "call", "recv", "handle"}
      BY <2>1, <2>3 DEF Obeys
    <3> QED BY <2>3, <3>1, CoreSteps
  <2> QED BY <2>2, <2>3
<1>5. core'[c].at \in {"delete", "new", "tell"} => ~ connected'
  BY <1>1, CoreSteps DEF Obeys
<1>6. connected' /\ user # "start" => core'[c].at # "done"
  BY <1>1, <1>2, CoreSteps DEF Obeys
<1>7. user \in {"dialog", "connect", "up", "cancel", "delete", "new"} => ~ connected'
  BY <1>2 DEF Obeys
<1>8. \A d \in Conns :
         /\ core'[d].cancelled => core'[d].at = "done"
         /\ ~connected' /\ user # "cancel" => core'[d].at \notin {"check", "call", "recv", "handle"}
         /\ core'[d].at \in {"delete", "new", "tell"} => ~connected'
  BY <1>1, <1>4, <1>5 DEF Obeys
<1> QED BY <1>1, <1>3, <1>6, <1>7, <1>8 DEF Obeys, Dialing

\* What a step of the user does to the status.
LEMMA UserSteps ==
  ASSUME Types, Started, UserMoves
  PROVE  \/ ClickConnect /\ ~ connected /\ user = "idle" /\ user' = "dialog"
              /\ UNCHANGED <<connected, socket, tid, core, past>>
         \/ DialogLeft /\ user = "dialog" /\ user' \in {"connect", "idle"}
              /\ UNCHANGED <<connected, socket, tid, core, past>>
         \/ ConnectSocket /\ user = "connect" /\ user' = "up" /\ socket' = "live"
              /\ UNCHANGED <<connected, tid, core, past>>
         \/ Connected /\ user = "up" /\ user' = "start" /\ connected'
              /\ UNCHANGED <<socket, tid, core, past>>
         \/ StartCore /\ user = "start" /\ user' = "idle" /\ UNCHANGED <<connected, socket, past>>
         \/ ConnectFails /\ user = "connect" /\ user' = "idle" /\ ~ connected'
              /\ "refused" \in past' /\ UNCHANGED <<tid, core>>
         \/ ClickDisconnect /\ connected /\ user = "idle" /\ user' = "close"
              /\ UNCHANGED <<connected, socket, tid, core, past>>
         \/ CloseRaw /\ user = "close" /\ user' = "down" /\ socket' \in {socket, "raw"}
              /\ UNCHANGED <<connected, tid, core, past>>
         \/ CloseFails /\ user = "close" /\ user' = "idle"
              /\ UNCHANGED <<connected, socket, tid, core, past>>
         \/ Disconnected /\ user = "down" /\ user' = "cancel" /\ ~ connected'
              /\ socket' \in {socket, "closed"} /\ UNCHANGED <<tid, core, past>>
         \/ Cancel /\ user = "cancel" /\ user' = "delete" /\ UNCHANGED <<connected, socket, tid, past>>
         \/ UserDelete /\ user = "delete" /\ user' = "new" /\ socket' = "deleted"
              /\ UNCHANGED <<connected, tid, core, past>>
         \/ UserNew /\ user = "new" /\ user' = "idle" /\ socket' = "fresh"
              /\ UNCHANGED <<connected, tid, core, past>>
         \/ ClickSend /\ connected /\ user = "idle" /\ user' = "send"
              /\ UNCHANGED <<connected, socket, tid, core, past>>
         \/ Send /\ user = "send" /\ user' = "idle"
              /\ UNCHANGED <<connected, socket, tid, core, past>>
<1> USE DEF UserGoes, UserStep
<1>1. CASE ClickConnect \/ DialogLeft \/ ClickDisconnect \/ ClickSend
  BY <1>1 DEF ClickConnect, DialogLeft, ClickDisconnect, ClickSend, CanClick
<1>2. CASE ConnectSocket \/ Connected \/ StartCore \/ ConnectFails
  BY <1>2 DEF ConnectSocket, Connected, StartCore, ConnectFails
<1>3. CASE CloseRaw \/ CloseFails \/ Disconnected
  BY <1>3 DEF CloseRaw, CloseFails, Disconnected
<1>4. CASE Cancel \/ UserDelete \/ UserNew \/ Send
  BY <1>4 DEF Cancel, UserDelete, UserNew, Send
<1> QED BY <1>1, <1>2, <1>3, <1>4 DEF UserMoves, UserGoesOn

\* The two steps of the user that reach a thread.
LEMMA StartFacts ==
  ASSUME Types, Started, StartCore
  PROVE  /\ tid' \in Conns /\ tid' = tid + 1
         /\ core[tid'] = NotStarted
         /\ core'[tid'].at = "test" /\ core'[tid'].packet = None /\ ~ core'[tid'].cancelled
         /\ \A c \in Conns : c # tid' => core'[c] = core[c]
<1>1. PICK n \in Conns : n = tid + 1
  BY TypesParts, ConnsFacts DEF StartCore, Started, Dialing
<1>2. /\ tid' = n /\ tid \in Nat /\ core \in [Conns -> Threads]
      /\ core' = [core EXCEPT ![n] = [core[n] EXCEPT !.at = "test"]]
  BY <1>1, TypesParts DEF StartCore
<1>3. core[n] = NotStarted
  BY <1>1, <1>2 DEF Started
<1>4. core'[n] = [NotStarted EXCEPT !.at = "test"]
  BY <1>2, <1>3
<1>5. core'[n].at = "test" /\ core'[n].packet = None /\ ~ core'[n].cancelled
  BY <1>4 DEF NotStarted
<1> QED BY <1>1, <1>2, <1>3, <1>5

LEMMA CancelFacts ==
  ASSUME Types, Started, EndsFirst, Cancel, ~ Overlap'
  PROVE  /\ tid \in Conns /\ tid' = tid
         /\ core'[tid].at = "done" /\ core'[tid].packet = core[tid].packet
         /\ \A c \in Conns : c # tid => core'[c] = core[c]
         /\ core[tid].at \in {"test", "call", "recv", "done"}
<1>1. tid \in Conns /\ tid' = tid /\ user' = "delete" /\ core[tid].at # "none"
  BY TypesParts, ConnsFacts DEF Cancel, Started, Leaving, UserGoes
<1>2. PICK t \in Threads : t = core[tid]
  BY <1>1, TypesParts
<1>3. PICK r : r = [t EXCEPT !.cancelled = TRUE,
                             !.at = IF @ \in {"test", "call", "recv"} THEN "done" ELSE @]
  OBVIOUS
<1>4. core' = [core EXCEPT ![tid] = r]
  BY <1>2, <1>3 DEF Cancel
<1>5. /\ r.at = (IF t.at \in {"test", "call", "recv"} THEN "done" ELSE t.at)
      /\ r.packet = t.packet
  BY <1>3 DEF Threads
<1>6. core'[tid] = r /\ \A c \in Conns : c # tid => core'[c] = core[c]
  BY <1>1, <1>4, TypesParts
<1>7. r.at \notin Closing \cup {"check", "handle"} /\ t.at \in CorePcs
  BY <1>1, <1>2, <1>6, NotCrossed DEF Leaving, Threads
<1>8. t.at \in {"test", "call", "recv", "done"}
  BY <1>1, <1>2, <1>5, <1>7 DEF CorePcs, Closing
<1> QED BY <1>1, <1>2, <1>5, <1>6, <1>8

LEMMA ObeysUser ==
  ASSUME Types, Started, EndsFirst, Obeys, UserMoves, ~ Overlap'
  PROVE  Obeys'
<1>1. tid \in Nat /\ connected \in BOOLEAN /\ core \in [Conns -> Threads]
  BY TypesParts DEF SharedTypes
<1> DEFINE Right(c) ==
             /\ core[c].cancelled => core[c].at = "done"
             /\ ~connected /\ user # "cancel" => core[c].at \notin {"check", "call", "recv", "handle"}
             /\ core[c].at \in {"delete", "new", "tell"} => ~connected
<1>2. \A c \in Conns : Right(c)
  BY DEF Obeys
<1>3. CASE UNCHANGED <<connected, tid, core, past>> /\ user # "cancel"
           /\ (user' \in {"dialog", "connect", "up", "delete", "new"} => ~ connected)
           /\ (user' \in {"close", "down"} => connected \/ "fake" \in past)
           /\ user' # "cancel" /\ user' # "start" /\ user # "start"
  BY <1>3 DEF Obeys
<1>4. CASE Connected
  <2>1. user = "up" /\ user' = "start" /\ connected' /\ UNCHANGED <<tid, core, past>>
    BY <1>4 DEF Connected, UserGoes, UserStep
  <2>2. \A c \in Conns : core[c].at \in {"none", "done"}
    BY <2>1 DEF EndsFirst, Dialing
  <2>3. \A c \in Conns : Right(c)'
    BY <1>2, <2>1, <2>2
  <2> QED BY <2>1, <2>3 DEF Obeys
<1>5. CASE StartCore
  <2>1. user = "start" /\ user' = "idle" /\ UNCHANGED <<connected, past>>
    BY <1>5 DEF StartCore, UserGoes
  <2>2. \A c \in Conns : Right(c)'
    BY <1>2, <1>5, <2>1, StartFacts
  <2>3. core'[tid'].at # "done"
    BY <1>5, StartFacts
  <2> QED BY <2>1, <2>2, <2>3 DEF Obeys
<1>6. CASE ConnectFails
  <2>1. user = "connect" /\ user' = "idle" /\ ~ connected' /\ UNCHANGED <<tid, core>>
    BY <1>6 DEF ConnectFails, UserGoes, UserStep
  <2>2. ~ connected
    BY <2>1 DEF Obeys
  <2>3. \A c \in Conns : Right(c)'
    BY <1>2, <2>1, <2>2
  <2> QED BY <2>1, <2>3 DEF Obeys
<1>7. CASE Disconnected
  <2>1. user = "down" /\ user' = "cancel" /\ ~ connected' /\ UNCHANGED <<tid, core, past>>
    BY <1>7 DEF Disconnected, UserGoes, UserStep
  <2>2. \A c \in Conns : Right(c)'
    BY <1>2, <2>1
  <2> QED BY <2>1, <2>2 DEF Obeys
<1>8. CASE Cancel
  <2>1. user = "cancel" /\ user' = "delete" /\ UNCHANGED <<connected, past>>
    BY <1>8 DEF Cancel, UserGoes
  <2>2. ~ connected
    BY <2>1 DEF Obeys
  <2>3. \A c \in Conns : core'[c].at \in {"none", "done"}
    <3>1. \A c \in Conns : c # tid => core[c].at \in {"none", "done"}
      BY <1>1, ConnsFacts DEF EndsFirst, Started, NotStarted
    <3> QED BY <1>8, <3>1, CancelFacts
  <2>4. \A c \in Conns : core'[c].cancelled => core'[c].at = "done"
    BY <1>2, <1>8, CancelFacts
  <2>5. \A c \in Conns : Right(c)'
    BY <2>3, <2>4
  <2> QED BY <2>1, <2>2, <2>5 DEF Obeys
<1>9. CASE UserMoves /\ ~ Connected /\ ~ StartCore /\ ~ ConnectFails /\ ~ Disconnected /\ ~ Cancel
  <2>1. UNCHANGED <<connected, tid, core, past>> /\ user # "cancel" /\ user # "start"
        /\ user' \notin {"cancel", "start"}
        /\ \/ user' = "dialog" /\ ~ connected
           \/ user = "dialog" /\ user' \in {"connect", "idle"}
           \/ user = "connect" /\ user' = "up"
           \/ user' = "close" /\ connected
           \/ user = "close" /\ user' = "down"
           \/ user = "delete" /\ user' = "new"
           \/ user' \in {"idle", "send"}
    BY <1>9, UserSteps
  <2> QED BY <1>3, <2>1 DEF Obeys
<1> QED BY <1>4, <1>5, <1>6, <1>7, <1>8, <1>9

LEMMA ObeysStep ==
  ASSUME Types, Started, EndsFirst, Obeys, Actions, ~ Overlap'
  PROVE  Obeys'
<1>1. CASE OthersMove
  BY <1>1, OthersKeep DEF Obeys
<1> QED BY <1>1, ObeysCore, ObeysUser, ActionsOf

\* A packet is kept by its thread until the next one comes.
LEMMA ReceiveFacts ==
  ASSUME Types, NEW c \in Conns, Receive(c)
  PROVE  core'[c].at = "handle"
<1>1. core' = [core EXCEPT ![c] = [core[c] EXCEPT !.at = "handle", !.packet = Head(line.sent)]]
  BY DEF Receive
<1>2. core[c] \in Threads /\ core \in [Conns -> Threads]
  BY TypesParts
<1> QED BY <1>1, <1>2 DEF Threads

LEMMA CorePacket ==
  ASSUME Types, NEW c \in Conns, CoreNext(c), ~ Receive(c)
  PROVE  core'[c].packet = core[c].packet
<1>1. core \in [Conns -> Threads]
  BY TypesParts
<1>2. PICK at \in CorePcs : Moves(c, at)
  BY DEF CoreNext, Test, Check, Call, ReceiveEnd, HandleText, HandleChannelUsersList, HandleFake,
         HandleReject, Rejected, HandleBad, Lost, Delete, New, Tell, CorePcs
<1> QED BY <1>1, <1>2, MovesFacts

LEMMA RejectedOnceStep ==
  ASSUME Types, Started, EndsFirst, Obeys, RejectedOnce, Actions, ~ Overlap'
  PROVE  RejectedOnce'
<1>1. CASE OthersMove
  BY <1>1, OthersKeep DEF RejectedOnce
<1>2. ASSUME NEW c \in Conns, CoreNext(c)
      PROVE  RejectedOnce'
  <2>1. /\ \A d \in Conns : d # c => core'[d] = core[d] /\ core[d].at \in {"none", "done"}
        /\ connected' => connected
        /\ ~ core[c].cancelled
    BY <1>2, CoreAlone, CoreMoves, CoreLowers
  <2>2. CASE Receive(c)
    <3>1. core'[c].at = "handle"
      BY <2>2, ReceiveFacts
    <3>2. connected' = connected
      BY <2>2 DEF Receive
    <3> QED BY <2>1, <3>1, <3>2 DEF RejectedOnce
  <2>3. CASE ~ Receive(c)
    <3>1. core'[c].packet = core[c].packet
      BY <1>2, <2>3, CorePacket
    <3>2. ASSUME core[c].packet = "reject"
          PROVE  /\ core'[c].at \notin {"check", "call", "recv", "lost", "tell"}
                 /\ core'[c].at = "test" => ~ connected'
      <4>1. /\ core[c].at \notin {"check", "call", "recv", "lost", "tell"}
            /\ core[c].at = "test" => ~ connected
            /\ core[c].at \in {"delete", "new", "tell"} => ~connected
        BY <3>2 DEF RejectedOnce, Obeys
      <4> QED BY <1>2, <2>1, <2>3, <3>2, <4>1, CoreSteps DEF Test
    <3> QED BY <2>1, <3>1, <3>2 DEF RejectedOnce
  <2> QED BY <2>2, <2>3
<1>3. CASE UserMoves
  <2>1. CASE StartCore
    <3>1. None # "reject" /\ UNCHANGED connected
      BY <2>1, NoneAssumption DEF StartCore
    <3> QED BY <2>1, <3>1, StartFacts DEF RejectedOnce
  <2>2. CASE Cancel
    <3>1. UNCHANGED connected
      BY <2>2 DEF Cancel
    <3> QED BY <2>2, <3>1, CancelFacts DEF RejectedOnce
  <2>3. CASE Connected
    <3>1. core' = core /\ \A c \in Conns : core[c].at \in {"none", "done"}
      BY <2>3 DEF Connected, UserStep, EndsFirst, Dialing
    <3> QED BY <3>1 DEF RejectedOnce
  <2>4. CASE ~ StartCore /\ ~ Cancel /\ ~ Connected
    <3>1. core' = core /\ (connected' => connected)
      BY <1>3, <2>4, UserSteps
    <3> QED BY <3>1 DEF RejectedOnce
  <2> QED BY <2>1, <2>2, <2>3, <2>4
<1> QED BY <1>1, <1>2, <1>3, ActionsOf

-----------------------------------------------------------------------------
(* The socket.                                                              *)

LEMMA UserFinds ==
  ASSUME Types, Started, EndsFirst, Kept, user \in (Dialing \cup Leaving) \ {"new"}
  PROVE  socket # "deleted"
<1>1. ASSUME NEW c \in Conns, core[c].at = "new"
      PROVE  FALSE
  <2>1. tid \in 0..MaxConns /\ c = tid
    BY <1>1, TypesParts, ConnsFacts DEF EndsFirst, Started, NotStarted
  <2>2. user \notin Dialing /\ user \in Leaving
    BY <1>1 DEF EndsFirst
  <2> QED BY <1>1, <2>1, <2>2 DEF EndsFirst, Overlap, Closing, Leaving
<1> QED BY <1>1 DEF Kept, Dialing, Leaving

LEMMA CoreFinds ==
  ASSUME Types, Started, EndsFirst, Obeys, Kept, NEW c \in Conns, CoreNext(c), core[c].at # "new"
  PROVE  socket # "deleted"
<1>1. user # "new" /\ \A d \in Conns : d # c => core[d].at \in {"none", "done"}
  BY CoreAlone
<1> QED BY <1>1 DEF Kept

LEMMA SocketKeptStep ==
  ASSUME Types, Started, EndsFirst, Obeys, Kept, Actions, fault = {}
  PROVE  fault' \cap {"use", "delete"} = {}
<1>1. CASE OthersMove
  BY <1>1, OthersKeep
<1>2. ASSUME NEW c \in Conns, CoreNext(c)
      PROVE  fault' \cap {"use", "delete"} = {}
  <2>1. core[c].at = "new" \/ ~ Uses
    BY <1>2, CoreFinds DEF Uses
  <2>2. CASE New(c)
    BY <2>2 DEF New
  <2>3. CASE CoreNext(c) /\ ~ New(c)
    <3>1. ~ Uses
      BY <2>1, <2>3, CoreSteps DEF Test
    <3>2. fault' = {}
      BY <2>3, <3>1 DEF CoreNext, Test, Check, Call, Receive, ReceiveEnd, Handle, HandleText,
         HandleChannelUsersList, HandleFake, HandleReject, Rejected, HandleBad, Lost, Delete, Tell,
         Faulty
    <3> QED BY <3>2
  <2> QED BY <1>2, <2>2, <2>3
<1>3. CASE UserMoves
  <2>1. user \in (Dialing \cup Leaving) \ {"new"} => ~ Uses
    BY UserFinds DEF Uses
  <2>2. CASE ClickConnect \/ DialogLeft \/ ClickDisconnect \/ ClickSend \/ ConnectSocket \/ Connected
             \/ StartCore \/ CloseFails \/ UserNew
    BY <2>2 DEF ClickConnect, DialogLeft, ClickDisconnect, ClickSend, ConnectSocket, Connected,
       StartCore, CloseFails, UserNew
  <2>3. CASE ConnectFails \/ CloseRaw \/ Disconnected
    BY <2>1, <2>3 DEF ConnectFails, CloseRaw, Disconnected, Faulty, Dialing, Leaving
  <2>4. CASE Cancel
    BY <2>4 DEF Cancel, Faulty
  <2>5. CASE UserDelete
    BY <2>1, <2>5 DEF UserDelete, Faulty, Leaving
  <2>6. CASE Send
    BY <2>1, <2>6 DEF Send, Faulty, Leaving
  <2> QED BY <1>3, <2>2, <2>3, <2>4, <2>5, <2>6 DEF UserMoves, UserGoesOn
<1> QED BY <1>1, <1>2, <1>3, ActionsOf

\* A thread comes to recv() with a connected socket, and gives a socket up for a new one.
LEMMA CallFacts ==
  ASSUME Types, NEW c \in Conns, Call(c), core'[c].at \in {"recv", "handle"}
  PROVE  socket' = "live"
<1>1. core \in [Conns -> Threads]
  BY TypesParts
<1>2. CASE core[c].cancelled
  BY <1>1, <1>2, MovesFacts DEF Call, CorePcs
<1>3. CASE ~ core[c].cancelled /\ socket # "live"
  BY <1>1, <1>3, MovesFacts DEF Call, CorePcs
<1>4. CASE ~ core[c].cancelled /\ socket = "live"
  BY <1>4 DEF Call
<1> QED BY <1>2, <1>3, <1>4

LEMMA GivenUp ==
  ASSUME Types, NEW c \in Conns, Delete(c) \/ Rejected(c) \/ Lost(c) \/ New(c)
  PROVE  socket' = "fresh" \/ core'[c].at \in {"delete", "new"}
<1>1. core \in [Conns -> Threads]
  BY TypesParts
<1> QED BY <1>1, MovesFacts DEF Delete, Rejected, Lost, New, CorePcs

LEMMA KeptCore ==
  ASSUME Types, Started, EndsFirst, Obeys, Kept, NEW c \in Conns, CoreNext(c), ~ Overlap'
  PROVE  Kept'
<1>1. /\ c = tid /\ ~ core[c].cancelled /\ user \notin Dialing \cup {"delete", "new"}
      /\ \A d \in Conns : d # c => core[d].at \in {"none", "done"} /\ core'[d] = core[d]
      /\ UNCHANGED <<tid, user>> /\ past \subseteq past'
      /\ core[c].at # "new" => socket # "deleted"
  BY CoreAlone, CoreMoves, CoreTold, CoreFinds
<1>2. user \in Leaving => core'[c].at \notin Closing
  BY <1>1, NotCrossed
<1>3. socket' = "deleted" => core'[c].at = "new"
  <2>1. CASE Delete(c)
    BY <2>1, TypesParts, MovesFacts DEF Delete, CorePcs
  <2>2. CASE New(c)
    BY <2>2 DEF New
  <2>3. CASE CoreNext(c) /\ ~ Delete(c) /\ ~ New(c)
    <3>1. socket' = "closed" \/ socket' = socket
      BY <2>3 DEF CoreNext, Test, Check, Call, Receive, ReceiveEnd, HandleText, HandleBad, Handle,
         HandleChannelUsersList, HandleFake, HandleReject, Rejected, Lost, Tell
    <3>2. core[c].at # "new"
      BY <2>3, CoreSteps DEF Test
    <3> QED BY <1>1, <3>1, <3>2
  <2> QED BY <2>1, <2>2, <2>3
<1>4. user \notin {"down", "cancel"} /\ core'[c].at \in {"recv", "handle"} => socket' = "live"
  <2>1. CASE Call(c)
    BY <1>1, <2>1, CallFacts
  <2>2. CASE Receive(c)
    BY <2>2 DEF Receive, Kept
  <2>3. CASE ~ Call(c) /\ ~ Receive(c)
    BY <1>1, <2>3, CoreSteps
  <2> QED BY <2>1, <2>2, <2>3
<1>5. ASSUME ~ connected', past' \cap {"refused", "fake"} = {}
      PROVE  socket' = "fresh" \/ user = "cancel" \/ core'[c].at \in {"delete", "new"}
  <2>1. past \cap {"refused", "fake"} = {}
    BY <1>1, <1>5
  <2>2. CASE Delete(c) \/ Rejected(c) \/ Lost(c) \/ New(c)
    BY <2>2, GivenUp
  <2>3. CASE CoreNext(c) /\ ~ Delete(c) /\ ~ Rejected(c) /\ ~ Lost(c) /\ ~ New(c)
    <3>1. connected' = connected
      BY <1>5, <2>3, CoreSteps
    <3>2. SUFFICES ASSUME user # "cancel" PROVE socket' = "fresh"
      OBVIOUS
    <3>3. core[c].at \notin {"check", "call", "recv", "handle"}
      BY <1>5, <3>1, <3>2 DEF Obeys
    <3>4. core[c].at \notin {"delete", "new"}
      BY <2>3, CoreSteps DEF Test
    <3>5. socket = "fresh"
      BY <1>1, <1>5, <2>1, <3>1, <3>2, <3>4 DEF Kept, Dialing
    <3>6. socket' = socket
      BY <2>3, <3>3 DEF CoreNext, Test, Check, Call, Receive, ReceiveEnd, HandleText, HandleBad,
         Handle, HandleChannelUsersList, HandleFake, HandleReject, Tell
    <3> QED BY <3>5, <3>6
  <2> QED BY <2>2, <2>3
<1>6. \A d \in Conns : core'[d].at \in {"recv", "handle"} => d = c
  BY <1>1
<1> QED BY <1>1, <1>3, <1>4, <1>5, <1>6 DEF Kept

LEMMA KeptUser ==
  ASSUME Types, Started, EndsFirst, Obeys, Kept, UserMoves, ~ Overlap'
  PROVE  Kept'
<1>1. user \in (Dialing \cup Leaving) \ {"new"} => socket # "deleted"
  BY UserFinds
<1>2. user \in Dialing \cup {"delete", "new"} => \A c \in Conns : core[c].at \in {"none", "done"}
  BY DEF EndsFirst
<1>3. CASE UNCHANGED <<connected, socket, core, past>> /\ user \notin {"new", "down", "cancel", "up", "delete"}
  BY <1>3 DEF Kept
<1>4. CASE ConnectSocket
  BY <1>2, <1>4 DEF ConnectSocket, UserGoes, Kept, Dialing
<1>5. CASE Connected
  BY <1>1, <1>2, <1>5 DEF Connected, UserGoes, UserStep, Kept, Dialing
<1>6. CASE StartCore
  <2>1. user = "start" /\ connected /\ UNCHANGED <<connected, socket, past>> /\ socket # "deleted"
    BY <1>1, <1>6 DEF StartCore, Obeys, Dialing
  <2> QED BY <1>2, <1>6, <2>1, StartFacts DEF Kept, Dialing
<1>7. CASE ConnectFails
  BY <1>1, <1>2, <1>7 DEF ConnectFails, UserGoes, UserStep, Kept, Dialing, Uses
<1>8. CASE CloseRaw
  <2>1. /\ user = "close" /\ user' = "down" /\ socket' \in {socket, "raw"}
        /\ UNCHANGED <<connected, core, past>> /\ socket # "deleted"
    BY <1>1, <1>8 DEF CloseRaw, UserGoes, UserStep, Leaving
  <2>2. connected \/ "fake" \in past
    BY <2>1 DEF Obeys
  <2> QED BY <2>1, <2>2 DEF Kept
<1>9. CASE Disconnected
  BY <1>1, <1>9 DEF Disconnected, UserGoes, UserStep, Kept, Uses, Leaving
<1>10. CASE Cancel
  <2>1. \A c \in Conns : core'[c].at \in {"none", "done"}
    <3>1. user' = "delete"
      BY <1>10 DEF Cancel, UserGoes
    <3> QED BY <3>1, EndsFirstStep, ActionsOf DEF EndsFirst
  <2> QED BY <1>1, <1>10, <2>1 DEF Cancel, UserGoes, Kept, Leaving
<1>11. CASE UserDelete
  BY <1>2, <1>11 DEF UserDelete, UserGoes, UserStep, Kept
<1>12. CASE UserNew
  BY <1>2, <1>12 DEF UserNew, UserGoes, UserStep, Kept
<1>13. CASE ~ ConnectSocket /\ ~ Connected /\ ~ StartCore /\ ~ ConnectFails /\ ~ CloseRaw
            /\ ~ Disconnected /\ ~ Cancel /\ ~ UserDelete /\ ~ UserNew
  BY <1>3, <1>13, UserSteps
<1> QED BY <1>4, <1>5, <1>6, <1>7, <1>8, <1>9, <1>10, <1>11, <1>12, <1>13

LEMMA KeptStep ==
  ASSUME Types, Started, EndsFirst, Obeys, Kept, Actions, ~ Overlap'
  PROVE  Kept'
<1>1. CASE OthersMove
  BY <1>1, OthersKeep DEF Kept
<1> QED BY <1>1, KeptCore, KeptUser, ActionsOf

-----------------------------------------------------------------------------
(* The window.                                                              *)

LEMMA LabelledOthers ==
  ASSUME Types, Labelled, OthersMove
  PROVE  Labelled'
<1>1. /\ UNCHANGED <<connected, core>> /\ past \subseteq past'
      /\ \A c \in Conns : Untold(c)' = Untold(c)
  BY OthersKeep DEF Untold
<1>2. SUFFICES ASSUME "raced" \notin past'
               PROVE  Labelled'
  BY DEF Labelled
<1>3. /\ (window.label = "Disconnect") = (IF gui = "prev" THEN connected ELSE prev)
      /\ gui = "take" => prev = connected
      /\ gui \in {"asked", "waiting"} /\ ~missed /\ (\A c \in Conns : ~Untold(c)) =>
           prev = connected
  BY <1>1, <1>2 DEF Labelled
<1>4. /\ window \in [label : {"Connect", "Disconnect"}, list : SUBSET Conns]
      /\ connected \in BOOLEAN /\ prev \in BOOLEAN
  BY TypesParts DEF SharedTypes
<1>5. CASE GuiTests
  <2>1. gui' = "prev" /\ gui = "top"
    BY <1>5 DEF GuiTests
  <2>2. (window'.label = "Disconnect") = connected
    <3>1. CASE connected /\ ~ prev
      BY <1>4, <1>5, <3>1 DEF GuiTests
    <3>2. CASE ~ connected /\ prev
      BY <1>4, <1>5, <3>2 DEF GuiTests
    <3>3. CASE connected = prev
      BY <1>3, <1>4, <1>5, <2>1, <3>3 DEF GuiTests
    <3> QED BY <1>4, <3>1, <3>2, <3>3
  <2> QED BY <1>1, <2>1, <2>2 DEF Labelled
<1>6. CASE GuiPrev
  <2>1. gui' = "take" /\ gui = "prev" /\ prev' = connected /\ window' = window
    BY <1>6 DEF GuiPrev
  <2> QED BY <1>1, <1>3, <2>1 DEF Labelled
<1>7. CASE GuiTake
  <2>1. gui = "take" /\ gui' \in {"asked", "top"} /\ prev' = prev /\ prev = connected
    BY <1>3, <1>7 DEF GuiTake
  <2>2. window'.label = window.label
    BY <1>4, <1>7 DEF GuiTake
  <2> QED BY <1>1, <1>3, <2>1, <2>2 DEF Labelled
<1>8. CASE GuiWait
  <2>1. gui = "asked" /\ gui' = "waiting" /\ UNCHANGED <<prev, window, missed>>
    BY <1>8 DEF GuiWait, Tests
  <2> QED BY <1>1, <1>3, <2>1 DEF Labelled
<1>9. CASE SpuriousWake
  <2>1. gui = "waiting" /\ gui' = "top" /\ UNCHANGED <<prev, window>>
    BY <1>9 DEF SpuriousWake
  <2> QED BY <1>1, <1>3, <2>1 DEF Labelled
<1>10. CASE UNCHANGED display
  BY <1>1, <1>3, <1>10 DEF Labelled, display
<1> QED BY <1>5, <1>6, <1>7, <1>8, <1>9, <1>10 DEF OthersMove, ServerSends, ServerCloses

\* A step that tells GuiThread, or changes the status when GuiThread is not between its reads.
LEMMA LabelledTold ==
  ASSUME Labelled, Told, past \subseteq past',
         "raced" \notin past' => \/ connected' = connected
                                 \/ gui \notin {"prev", "take"},
         "raced" \notin past' =>
           \/ gui \notin {"asked", "waiting"} /\ gui' = gui
           \/ gui' \in {"asked", "waiting"} => missed'
           \/ \E c \in Conns : Untold(c)'
           \/ connected' = connected /\ \A c \in Conns : Untold(c) => Untold(c)'
  PROVE  Labelled'
<1>1. SUFFICES ASSUME "raced" \notin past'
               PROVE  Labelled'
  BY DEF Labelled
<1>2. /\ (window.label = "Disconnect") = (IF gui = "prev" THEN connected ELSE prev)
      /\ gui = "take" => prev = connected
      /\ gui \in {"asked", "waiting"} /\ ~missed /\ (\A c \in Conns : ~Untold(c)) =>
           prev = connected
  BY <1>1 DEF Labelled
<1>3. /\ (window'.label = "Disconnect") = (IF gui' = "prev" THEN connected' ELSE prev')
      /\ gui' = "take" => prev' = connected'
  BY <1>1, <1>2 DEF Told
<1>4. ASSUME gui' \in {"asked", "waiting"}, ~ missed', \A c \in Conns : ~ Untold(c)'
      PROVE  prev' = connected'
  <2>1. UNCHANGED <<gui, missed, prev>>
    BY <1>4 DEF Told
  <2>2. connected' = connected /\ \A c \in Conns : Untold(c) => Untold(c)'
    BY <1>1, <1>4, <2>1
  <2>3. \A c \in Conns : ~ Untold(c)
    BY <1>4, <2>2
  <2> QED BY <1>2, <1>4, <2>1, <2>2, <2>3
<1> QED BY <1>3, <1>4 DEF Labelled

LEMMA EmptiedTold ==
  ASSUME Emptied, Told, past \subseteq past',
         "raced" \notin past' => connected' = connected \/ gui \notin {"prev", "take"}
  PROVE  Emptied'
BY DEF Emptied, Told


LEMMA LabelledCore ==
  ASSUME Types, RejectedOnce, Labelled, NEW c \in Conns, CoreNext(c)
  PROVE  Labelled'
<1>1. /\ SharedTypes /\ core \in [Conns -> Threads] /\ core' \in [Conns -> Threads]
      /\ \A d \in Conns : d # c => core'[d] = core[d]
      /\ Told /\ past \subseteq past'
  BY TypesParts, CoreMoves, CoreTold
<1>2. \A d \in Conns : d # c => (Untold(d)' <=> Untold(d))
  BY <1>1 DEF Untold
<1>3. CASE connected' = connected /\ (Untold(c) => Untold(c)')
  BY <1>1, <1>2, <1>3, LabelledTold
<1>4. CASE CoreNext(c) /\ ~ HandleFake(c) /\ ~ Rejected(c) /\ ~ Lost(c) /\ ~ Tell(c)
  <2>1. connected' = connected
    BY <1>4, CoreSteps
  <2>2. Untold(c) => Untold(c)'
    <3>1. SUFFICES ASSUME Untold(c)
                   PROVE  Untold(c)'
      OBVIOUS
    <3>2. core[c].at \in {"delete", "new", "tell"} /\ core[c].packet # "reject"
      BY <3>1 DEF Untold
    <3>3. ~ Test(c) /\ ~ Receive(c)
      BY <3>2 DEF Test, Receive
    <3>4. core'[c].at \in {"new", "tell"}
      BY <1>4, <3>2, <3>3, CoreSteps
    <3>5. core'[c].packet = core[c].packet
      BY <3>3, CorePacket
    <3> QED BY <3>2, <3>4, <3>5 DEF Untold
  <2> QED BY <1>3, <2>1, <2>2
<1>5. CASE HandleFake(c)
  <2>1. gui' \in {"asked", "waiting"} => missed'
    BY <1>1, <1>5, SendTold, TextsFacts DEF HandleFake, Handle
  <2>2. "raced" \notin past' => gui \notin {"prev", "take"}
    BY <1>5 DEF HandleFake, Raced
  <2> QED BY <1>1, <2>1, <2>2, LabelledTold
<1>6. CASE Rejected(c)
  <2>1. gui' = gui
    BY <1>6, QuietTold DEF Rejected
  <2>2. "raced" \notin past' => gui \notin {"prev", "take", "asked", "waiting"}
    BY <1>6 DEF Rejected, Raced
  <2> QED BY <1>1, <2>1, <2>2, LabelledTold
<1>7. CASE Lost(c)
  <2>1. core[c].at = "lost" /\ core'[c].at = "delete"
    BY <1>1, <1>7, MovesFacts DEF Lost, CorePcs
  <2>2. core'[c].packet = core[c].packet
    BY <2>1, CorePacket DEF Receive
  <2>3. Untold(c)'
    BY <2>1, <2>2 DEF Untold, RejectedOnce
  <2>4. "raced" \notin past' => connected' = connected \/ gui \notin {"prev", "take"}
    BY <1>1, <1>7 DEF Lost, Raced, SharedTypes
  <2> QED BY <1>1, <2>3, <2>4, LabelledTold
<1>8. CASE Tell(c)
  <2>1. gui' \in {"asked", "waiting"} => missed'
    BY <1>1, <1>8, SendTold, TextsFacts DEF Tell
  <2>2. connected' = connected
    BY <1>8 DEF Tell
  <2> QED BY <1>1, <2>1, <2>2, LabelledTold
<1> QED BY <1>4, <1>5, <1>6, <1>7, <1>8

LEMMA LabelledUser ==
  ASSUME Types, Started, OneHolds, EndsFirst, Labelled, UserMoves, ~ Overlap'
  PROVE  /\ Labelled'
         /\ connected' = connected \/ gui \notin {"prev", "take"}
<1>1. SharedTypes /\ Told /\ past \subseteq past'
  BY TypesParts, UserTold
<1>2. connected' = connected \/ gui \notin {"prev", "take"}
  <2>1. connected' = connected \/ UserHolds
    BY UserSteps DEF UserHolds
  <2> QED BY <2>1 DEF OneHolds, GuiHolds
<1>3. CASE Connected \/ ConnectFails \/ Disconnected \/ StartCore
  <2>1. gui' \in {"asked", "waiting"} => missed'
    BY <1>1, <1>3, SendTold, TextsFacts, SignalFacts DEF Connected, ConnectFails, Disconnected, StartCore
  <2> QED BY <1>1, <1>2, <2>1, LabelledTold
<1>4. CASE Cancel
  <2>1. connected' = connected
    BY <1>4, UserSteps DEF Cancel
  <2>2. \A c \in Conns : Untold(c) => Untold(c)'
    BY <1>4, CancelFacts DEF Untold
  <2> QED BY <1>1, <1>2, <2>1, <2>2, LabelledTold
<1>5. CASE ~ Connected /\ ~ ConnectFails /\ ~ Disconnected /\ ~ StartCore /\ ~ Cancel
  <2>1. connected' = connected /\ core' = core
    BY <1>5, UserSteps
  <2> QED BY <1>1, <1>2, <2>1, LabelledTold DEF Untold
<1> QED BY <1>2, <1>3, <1>4, <1>5

LEMMA LabelledStep ==
  ASSUME Types, Started, OneHolds, EndsFirst, RejectedOnce, Labelled, Actions, ~ Overlap'
  PROVE  Labelled'
BY LabelledOthers, LabelledCore, LabelledUser, ActionsOf

LEMMA EmptiedOthers ==
  ASSUME Types, Labelled, Emptied, OthersMove
  PROVE  Emptied'
<1>1. UNCHANGED connected /\ past \subseteq past'
  BY OthersKeep
<1>2. SUFFICES ASSUME past' \cap {"raced", "late"} = {}
               PROVE  window'.list = {} \/ (IF gui' = "prev" THEN connected' ELSE prev')
  BY DEF Emptied
<1>3. window.list = {} \/ (IF gui = "prev" THEN connected ELSE prev)
  BY <1>1, <1>2 DEF Emptied
<1>4. /\ window \in [label : {"Connect", "Disconnect"}, list : SUBSET Conns]
      /\ connected \in BOOLEAN /\ prev \in BOOLEAN
  BY TypesParts DEF SharedTypes
<1>5. CASE GuiTests
  <2>1. gui' = "prev" /\ gui = "top"
    BY <1>5 DEF GuiTests
  <2>2. window'.list = {} \/ connected
    <3>1. CASE ~ connected /\ prev
      BY <1>4, <1>5, <3>1 DEF GuiTests
    <3>2. CASE connected = prev
      BY <1>3, <1>4, <1>5, <2>1, <3>2 DEF GuiTests
    <3> QED BY <1>4, <3>1, <3>2
  <2> QED BY <1>1, <2>1, <2>2
<1>6. CASE GuiPrev
  <2>1. gui' = "take" /\ gui = "prev" /\ prev' = connected /\ window' = window
    BY <1>6 DEF GuiPrev
  <2> QED BY <1>1, <1>3, <2>1
<1>7. CASE GuiTake
  <2>1. gui = "take" /\ gui' \in {"asked", "top"} /\ prev' = prev
    BY <1>7 DEF GuiTake
  <2>2. CASE prev
    BY <2>1, <2>2
  <2>3. CASE ~ prev
    <3>1. window.list = {}
      BY <1>3, <2>1, <2>3
    <3>2. CASE events = << >>
      BY <1>7, <3>1, <3>2 DEF GuiTake
    <3>3. CASE events # << >>
      <4>1. Head(events).kind # "J"
        BY <1>2, <1>7, <2>3, <3>3 DEF GuiTake, Late
      <4>2. window'.list = Listed(Head(events), window.list)
        BY <1>4, <1>7, <3>3 DEF GuiTake
      <4>3. Listed(Head(events), window.list) = {}
        BY <3>1, <4>1 DEF Listed
      <4> QED BY <4>2, <4>3
    <3> QED BY <3>2, <3>3
  <2> QED BY <2>2, <2>3
<1>8. CASE GuiWait \/ SpuriousWake \/ UNCHANGED display
  <2>1. UNCHANGED <<prev, window>> /\ (gui' = "prev" <=> gui = "prev")
    BY <1>8 DEF GuiWait, SpuriousWake, Tests, display
  <2> QED BY <1>1, <1>3, <2>1
<1> QED BY <1>5, <1>6, <1>7, <1>8 DEF OthersMove, ServerSends, ServerCloses

LEMMA EmptiedCore ==
  ASSUME Types, Emptied, NEW c \in Conns, CoreNext(c)
  PROVE  Emptied'
<1>1. Told /\ past \subseteq past' /\ connected \in BOOLEAN
  BY CoreTold, TypesParts DEF SharedTypes
<1>2. "raced" \notin past' => connected' = connected \/ gui \notin {"prev", "take"}
  <2>1. CASE HandleFake(c)
    BY <2>1 DEF HandleFake, Raced
  <2>2. CASE Rejected(c)
    BY <2>2 DEF Rejected, Raced
  <2>3. CASE Lost(c)
    BY <1>1, <2>3 DEF Lost, Raced
  <2>4. CASE ~ HandleFake(c) /\ ~ Rejected(c) /\ ~ Lost(c)
    BY <2>4, CoreSteps
  <2> QED BY <2>1, <2>2, <2>3, <2>4
<1> QED BY <1>1, <1>2, EmptiedTold

LEMMA EmptiedStep ==
  ASSUME Types, Started, OneHolds, EndsFirst, Labelled, Emptied, Actions, ~ Overlap'
  PROVE  Emptied'
<1>1. CASE UserMoves
  BY <1>1, UserTold, LabelledUser, EmptiedTold
<1> QED BY <1>1, EmptiedOthers, EmptiedCore, ActionsOf

-----------------------------------------------------------------------------
(* The invariant.                                                           *)

LEMMA Starts == Init => IInv
<1> SUFFICES ASSUME Init
             PROVE  IInv
  OBVIOUS
<1>1. \A c \in Conns : core[c] = NotStarted
  BY DEF Init
<1>2. /\ MaxConns \in Nat /\ MaxPackets \in Nat /\ MaxSends \in Nat
      /\ \A c \in Conns : c \in Nat /\ c > 0
  BY ConnsFacts
<1>3. Types
  <2>1. /\ core \in [Conns -> Threads] /\ tid \in 0..MaxConns /\ sends \in 0..MaxSends
        /\ line = [sent |-> << >>, count |-> 0, closed |-> TRUE]
    BY <1>2 DEF Init, NotStarted, Threads, CorePcs
  <2>2. line \in [sent : Seq(Kinds), count : 0..MaxPackets, closed : BOOLEAN]
    BY <1>2, <2>1
  <2>3. /\ connected = FALSE /\ socket = "fresh" /\ events = << >> /\ gui = "top" /\ prev = FALSE
        /\ window = [label |-> "Connect", list |-> {}] /\ user = "idle" /\ missed = FALSE
        /\ past = {} /\ crossed = FALSE /\ fault = {}
    BY DEF Init
  <2>4. << >> \in Seq(Messages)
        /\ << >> \in Seq([kind : {"text", "L", "J"}, row : Conns \cup {None}])
    OBVIOUS
  <2>5. window \in [label : {"Connect", "Disconnect"}, list : SUBSET Conns]
    BY <2>3
  <2>6. user \in UserPcs /\ socket \in SocketStates
    BY <2>3 DEF UserPcs, SocketStates
  <2>7. TypeOK
    BY <2>1, <2>2, <2>3, <2>4, <2>5, <2>6 DEF TypeOK, Threads
  <2> QED BY <2>2, <2>3, <2>4, <2>7 DEF Types
<1>4. Started
  BY <1>1, <1>2 DEF Init, Started, Dialing, Leaving
<1>5. OneHolds /\ NoneWaits /\ SocketKept
  BY DEF Init, OneHolds, NoneWaits, SocketKept, UserHolds, GuiHolds
<1>6. Apart
  <2>1. EndsFirst /\ RejectedOnce
    BY <1>1, <1>2, NoneAssumption DEF Init, EndsFirst, RejectedOnce, Overlap, NotStarted, Dialing
  <2>2. Obeys /\ Kept
    BY <1>1 DEF Init, Obeys, Kept, NotStarted
  <2>3. Labelled /\ Emptied
    BY DEF Init, Labelled, Emptied
  <2> QED BY <2>1, <2>2, <2>3 DEF Apart
<1> QED BY <1>3, <1>4, <1>5, <1>6 DEF IInv

LEMMA ApartStep ==
  ASSUME Types, Started, OneHolds, Apart, Actions, fault = {}, ~ Overlap'
  PROVE  Apart' /\ fault' \cap {"use", "delete"} = {}
BY EndsFirstStep, ObeysStep, RejectedOnceStep, KeptStep, LabelledStep, EmptiedStep, SocketKeptStep,
   OthersKeep DEF Apart

LEMMA Steps == IInv /\ [Next]_vars => IInv'
<1> SUFFICES ASSUME IInv, [Next]_vars
             PROVE  IInv'
  OBVIOUS
<1>1. /\ Types /\ Started /\ OneHolds /\ NoneWaits
      /\ ~ crossed => Apart
      /\ SocketKept
  BY DEF IInv
<1>2. CASE Next
  <2>1. /\ Actions /\ fault = {} /\ crossed' \in BOOLEAN
        /\ ~ crossed' => ~ crossed /\ ~ Overlap'
    BY <1>2, StepFacts
  <2>2. Types' /\ Started'
    BY <1>1, <1>2, TypesStep
  <2>3. OneHolds' /\ NoneWaits'
    BY <1>1, <2>1, OneHoldsStep, NoneWaitsStep
  <2>4. ASSUME ~ crossed'
        PROVE  Apart' /\ fault' \cap {"use", "delete"} = {}
    BY <1>1, <2>1, <2>4, ApartStep
  <2>5. SocketKept'
    BY <2>1, <2>4 DEF SocketKept
  <2> QED BY <2>2, <2>3, <2>4, <2>5 DEF IInv
<1>3. CASE UNCHANGED vars
  <2>1. UNCHANGED <<connected, socket, line, tid, core, events, gui, prev, window, missed, user,
                    sends, past, crossed, fault>>
    BY <1>3 DEF vars, display
  <2>2. Types' /\ Started' /\ OneHolds' /\ NoneWaits' /\ SocketKept'
    BY <1>1, <2>1 DEF Types, TypeOK, Started, OneHolds, UserHolds, GuiHolds, NoneWaits, SocketKept
  <2>3. ASSUME Apart
        PROVE  Apart'
    <3>1. EndsFirst' /\ Obeys' /\ RejectedOnce'
      BY <2>1, <2>3 DEF Apart, EndsFirst, Overlap, Obeys, RejectedOnce
    <3>2. Kept' /\ Labelled' /\ Emptied'
      BY <2>1, <2>3 DEF Apart, Kept, Labelled, Untold, Emptied
    <3> QED BY <3>1, <3>2 DEF Apart
  <2>4. ~ crossed' => Apart'
    BY <1>1, <2>1, <2>3
  <2> QED BY <2>2, <2>4 DEF IInv
<1> QED BY <1>2, <1>3

LEMMA Invariant == Spec => []IInv
BY Starts, Steps, PTL DEF Spec

-----------------------------------------------------------------------------
(* The theorems.                                                            *)

\* Every variable keeps its type: no step of the three threads leaves what the model lists.
THEOREM Typing == Spec => []TypeOK
<1>1. IInv => TypeOK
  BY DEF IInv, Types
<1> QED BY <1>1, Invariant, PTL

\* Client::Disconnect, Client::Connect and the catch block of CoreThread replace the one socket
\* object without a lock; none of them deletes it twice and no thread uses it once it is deleted,
\* unless the user connects, disconnects or sends while a CoreThread gives its connection up.
THEOREM SocketIsKept == Spec => []SocketKept
<1>1. IInv => SocketKept
  BY DEF IInv
<1> QED BY <1>1, Invariant, PTL

LEMMA UsableAtRest == IInv => SocketUsable
<1> SUFFICES ASSUME IInv, AtRest
             PROVE  /\ connected => socket = "live"
                    /\ ~connected /\ past \cap {"refused", "fake"} = {} => socket = "fresh"
  BY DEF SocketUsable
<1>1. /\ user = "idle" /\ \A c \in Conns : core[c].at \in {"none", "recv", "done"}
      /\ Types /\ Started /\ Obeys /\ Kept
  BY DEF AtRest, IInv, Apart
<1>2. ASSUME connected
      PROVE  socket = "live"
  <2>1. tid \in 0..MaxConns /\ tid > 0 /\ core[tid].at # "done"
    BY <1>1, <1>2, TypesParts DEF Started, Obeys
  <2>2. tid \in Conns
    BY <2>1, ConnsFacts
  <2>3. core[tid].at = "recv"
    BY <1>1, <2>1, <2>2, TypesParts, ConnsFacts DEF Started
  <2> QED BY <1>1, <2>2, <2>3 DEF Kept
<1>3. ASSUME ~ connected, past \cap {"refused", "fake"} = {}
      PROVE  socket = "fresh"
  BY <1>1, <1>3 DEF Kept
<1> QED BY <1>2, <1>3

\* When the user and all threads wait, a connected session has a connected socket, and one that is
\* not has a new socket, which connect() accepts: SetConnected(false), which closes the socket, is
\* followed by ResetSocket on every way out but a connect that fails and a false key.
THEOREM SocketStaysUsable == Spec => []SocketUsable
BY Invariant, UsableAtRest, PTL

LEMMA TrueAtRest == IInv => WindowTrue
<1> SUFFICES ASSUME IInv, AtRest
             PROVE  /\ events = << >>
                    /\ "raced" \notin past => (window.label = "Disconnect") = connected
                    /\ past \cap {"raced", "late"} = {} /\ ~connected => window.list = {}
  BY DEF WindowTrue
<1>1. /\ gui = "waiting" /\ ~ missed /\ \A c \in Conns : ~ Untold(c)
      /\ NoneWaits /\ Labelled /\ Emptied
  BY DEF AtRest, Untold, IInv, Apart
<1>2. "raced" \notin past =>
        (window.label = "Disconnect") = prev /\ prev = connected
  BY <1>1 DEF Labelled
<1> QED BY <1>1, <1>2 DEF NoneWaits, Emptied

\* When the user and all threads wait, GuiThread has shown every message, the button says what
\* the status says and no user is listed without a connection, although GuiThread waits for its
\* condition without a predicate and reads the status three times without a lock: what is wrong
\* then is a lost signal, a change of the status between the reads, or a message of a connection
\* that is over.
THEOREM WindowIsTrue == Spec => []WindowTrue
BY Invariant, TrueAtRest, PTL
=============================================================================
