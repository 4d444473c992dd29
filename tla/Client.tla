------------------------------- MODULE Client -------------------------------
(***************************************************************************)
(* The three threads of the client and what they share: the status of the  *)
(* one Session, the socket object its c_Socket points to, and the queue of *)
(* messages for the window.                                                *)
(*                                                                         *)
(*   - the user's thread runs the GTK callbacks (Connect, Disconnect, Send)*)
(*     with the gdk lock held;                                             *)
(*   - GuiThread shows the status and the messages, and waits on a         *)
(*     condition variable without a predicate and without its mutex;       *)
(*   - one CoreThread for every connection receives, without any lock, and *)
(*     gives up the socket when the connection is lost.                    *)
(*                                                                         *)
(* A step reads or writes one thing the threads share.  A message and its  *)
(* signal are one step: a signal that came later would only wake GuiThread *)
(* once more.  The content of a packet is what the client does with it.    *)
(***************************************************************************)
EXTENDS Naturals, Sequences, SequencesExt

CONSTANTS MaxConns,     \* connections the user starts
          MaxPackets,   \* packets the server sends on a connection
          MaxSends,     \* lines the user sends
          MaxPending,   \* messages that wait for GuiThread when a packet or a click comes
          None

ASSUME BoundsAssumption == {MaxConns, MaxPackets, MaxSends, MaxPending} \subseteq Nat
ASSUME NoneAssumption == None \notin {"text", "users", "reject", "fake", "bad"}

Conns == 1..MaxConns

VARIABLES
    connected,  \* IsConnected(): s_status >= STATUS_CONNECTED
    socket,     \* the object c_Socket points to
    line,       \* the server's end of the connection
    tid,        \* ClientCore::tid: the connection whose CoreThread was started last
    core,       \* the CoreThread of each connection
    events,     \* ClientCore::messages
    gui,        \* where GuiThread is
    prev,       \* its variable prev
    window,     \* what it shows: the label of the button, the list of users
    user,       \* where the user's thread is
    sends,      \* lines the user has sent
    missed,     \* a signal was sent before GuiThread waited for it
    past,       \* what has happened that the code does not guard against
    crossed,    \* the user has acted while a CoreThread was giving up its connection
    fault       \* undefined behaviour or an uncaught exception: the process is lost

display == <<gui, prev, window, missed>>
vars == <<connected, socket, line, tid, core, events, display, user, sends, past, crossed, fault>>

\* fresh: not connected yet; raw: its descriptor was closed by SocketClient::
\* Disconnect; closed: sock is INVALID_SOCKET; deleted: between delete and new.
SocketStates == {"fresh", "live", "raw", "closed", "deleted"}

Kinds == {"text", "users", "reject", "fake", "bad"}

NotStarted == [at |-> "none", packet |-> None, cancelled |-> FALSE]

Init == /\ connected = FALSE
        /\ socket = "fresh"
        /\ line = [sent |-> << >>, count |-> 0, closed |-> TRUE]
        /\ tid = 0
        /\ core = [c \in Conns |-> NotStarted]
        /\ events = << >>
        /\ gui = "top"
        /\ prev = FALSE
        /\ window = [label |-> "Connect", list |-> {}]
        /\ user = "idle"
        /\ sends = 0
        /\ missed = FALSE
        /\ past = {}
        /\ crossed = FALSE
        /\ fault = {}

-----------------------------------------------------------------------------
(* AddMessage and SignalEvent.                                              *)

\* A signal wakes GuiThread if it waits.  If it has found the queue empty and
\* does not wait yet, the signal is lost.
SignalEvent == /\ gui' = IF gui = "waiting" THEN "top" ELSE gui
               /\ missed' = (gui = "asked" \/ (missed /\ gui # "waiting"))
               /\ UNCHANGED <<prev, window>>

\* A line of text, an emptied list or, with the connection it belongs to, a user.
Text == [kind |-> "text", row |-> None]
Empty == [kind |-> "L", row |-> None]
Row(c) == [kind |-> "J", row |-> c]

SendToGui(es) == events' = events \o es /\ SignalEvent

Quietly == UNCHANGED <<events, display>>

\* The status changes between the tests of GuiThread and its GetEvent, so that the
\* message about the change may be taken without another test; or it changes after
\* its message, which may have been taken already.
Raced(announced) ==
    IF gui \in {"prev", "take"} \/ (~announced /\ gui # "top") THEN {"raced"} ELSE {}

Uses == socket = "deleted"
Faulty(kind, isFault) == fault' = fault \cup (IF isFault THEN {kind} ELSE {})

-----------------------------------------------------------------------------
(* The server and the network.                                              *)

ServerSends(p) ==
    /\ ~line.closed /\ line.count < MaxPackets /\ Len(events) <= MaxPending
    /\ p \in {"reject", "fake"} => line.count = 0
    /\ line' = [line EXCEPT !.sent = Append(@, p), !.count = @ + 1]
    /\ UNCHANGED <<connected, socket, tid, core, events, display, user, sends, past, fault>>

ServerCloses ==
    /\ ~line.closed
    /\ line' = [line EXCEPT !.closed = TRUE]
    /\ UNCHANGED <<connected, socket, tid, core, events, display, user, sends, past, fault>>

-----------------------------------------------------------------------------
(* GuiThread.  It holds the gdk lock from the first test to the message.    *)

GuiHolds == gui \in {"prev", "take"}
UserHolds == user \notin {"idle", "dialog"}

Tests == UNCHANGED <<connected, socket, line, tid, core, events, user, sends, missed, fault>>

\* The list stays when the connection is lost.
GuiTests_KeepsList ==
    /\ gui = "top" /\ ~UserHolds
    /\ gui' = "prev"
    /\ window' = IF connected = prev THEN window
                 ELSE [window EXCEPT !.label = IF connected THEN "Disconnect" ELSE "Connect"]
    /\ UNCHANGED <<prev, past>> /\ Tests

\* Both tests of the status; it can only go down between them, which has the effect
\* of going down after them.
GuiTests ==
    /\ gui = "top" /\ ~UserHolds
    /\ gui' = "prev"
    /\ window' = CASE connected /\ ~prev -> [window EXCEPT !.label = "Disconnect"]
                   [] ~connected /\ prev -> [label |-> "Connect", list |-> {}]
                   [] OTHER -> window
    /\ UNCHANGED <<prev, past>> /\ Tests

GuiPrev ==
    /\ gui = "prev"
    /\ gui' = "take"
    /\ prev' = connected
    /\ UNCHANGED <<window, past>> /\ Tests

\* A user is listed, the list is emptied.
Listed(e, list) == CASE e.kind = "J" -> list \cup {e.row}
                     [] e.kind = "L" -> {}
                     [] OTHER -> list

\* A user is about to be listed although the list was emptied for the end of the
\* connection.
Late == IF events # << >> /\ Head(events).kind = "J" /\ ~prev THEN {"late"} ELSE {}

\* GetEvent, add_message_to_chat and the list of users; the gdk lock is released, and
\* EmptyEvents tells whether to go on.  (A message that comes between these two is
\* found by EmptyEvents, as one that came before them.)
GuiTake ==
    /\ gui = "take"
    /\ IF events = << >>
         THEN gui' = "asked" /\ UNCHANGED <<events, window>>
         ELSE /\ events' = Tail(events)
              /\ gui' = IF events' = << >> THEN "asked" ELSE "top"
              /\ window' = [window EXCEPT !.list = Listed(Head(events), @)]
    /\ past' = past \cup Late
    /\ UNCHANGED <<connected, socket, line, tid, core, prev, user, sends, missed, fault>>

\* WaitEvent.
GuiWait ==
    /\ gui = "asked"
    /\ gui' = "waiting"
    /\ UNCHANGED <<prev, window, past>> /\ Tests

\* pthread_cond_wait may return without a signal.
SpuriousWake ==
    /\ gui = "waiting"
    /\ gui' = "top"
    /\ missed' = FALSE
    /\ UNCHANGED <<connected, socket, line, tid, core, events, prev, window, user, sends, past, fault>>

-----------------------------------------------------------------------------
(* CoreThread.                                                              *)

Moves(c, at) == core' = [core EXCEPT ![c].at = at]
CoreStep == UNCHANGED <<line, tid, user, sends>>

\* msleep(1), where the thread can be cancelled; the loop is left when the session is
\* not connected any more.
Test(c) ==
    /\ core[c].at = "test"
    /\ Moves(c, IF connected /\ ~core[c].cancelled THEN "check" ELSE "done")
    /\ UNCHANGED <<connected, socket, past, fault>> /\ Quietly /\ CoreStep

\* RecvPacketFromSocket: nothing is received from a closed socket.
Check(c) ==
    /\ core[c].at = "check"
    /\ Moves(c, IF socket = "closed" THEN "test" ELSE "call")
    /\ Faulty("use", Uses)
    /\ UNCHANGED <<connected, socket, past>> /\ Quietly /\ CoreStep

\* recv(): it waits on a connected socket and fails at once on any other.
Call(c) ==
    /\ core[c].at = "call"
    /\ IF core[c].cancelled THEN Moves(c, "done") /\ UNCHANGED <<socket, fault>>
       ELSE IF socket = "live" THEN Moves(c, "recv") /\ UNCHANGED <<socket, fault>>
       ELSE /\ Moves(c, "lost")
            /\ Faulty("use", Uses)
            /\ socket' = IF Uses THEN socket ELSE "closed"
    /\ UNCHANGED <<connected, past>> /\ Quietly /\ CoreStep

Receive(c) ==
    /\ core[c].at = "recv"
    /\ line.sent # << >>
    /\ core' = [core EXCEPT ![c].at = "handle", ![c].packet = Head(line.sent)]
    /\ line' = [line EXCEPT !.sent = Tail(@)]
    /\ UNCHANGED <<connected, socket, tid, user, sends, past, fault>> /\ Quietly

\* recv() returns 0: Recv closes the socket and throws.
ReceiveEnd(c) ==
    /\ core[c].at = "recv"
    /\ line.sent = << >> /\ line.closed
    /\ Moves(c, "lost")
    /\ socket' = "closed"
    /\ UNCHANGED <<connected, past, fault>> /\ Quietly /\ CoreStep

\* A packet with a handler, and what the handler tells the user: a text, the
\* names of the users of the channel, the end of the login.
Handle(c, kind, told) ==
    /\ core[c].at = "handle" /\ core[c].packet = kind
    /\ Faulty("use", Uses)
    /\ SendToGui(told)
    /\ CoreStep

HandleText(c) ==
    /\ Handle(c, "text", <<Text>>)
    /\ Moves(c, "test")
    /\ UNCHANGED <<connected, socket, past>>

HandleChannelUsersList(c) ==
    /\ Handle(c, "users", <<Empty, Row(c)>>)
    /\ Moves(c, "test")
    /\ UNCHANGED <<connected, socket, past>>

\* "Fake Server!": the status changes, the socket stays as it is.
HandleFake(c) ==
    /\ Handle(c, "fake", <<Text>>)
    /\ connected' = FALSE
    /\ past' = past \cup {"fake"} \cup Raced(TRUE)
    /\ Moves(c, "test")
    /\ UNCHANGED socket

\* "Login failed!" ...
HandleReject(c) ==
    /\ Handle(c, "reject", <<Text>>)
    /\ Moves(c, "rejected")
    /\ UNCHANGED <<connected, socket, past>>

\* ... and, after that message, the change of the status.
Rejected(c) ==
    /\ core[c].at = "rejected"
    /\ connected' = FALSE
    /\ past' = past \cup Raced(FALSE)
    /\ Faulty("use", Uses)
    /\ socket' = IF Uses THEN socket ELSE "closed"
    /\ Moves(c, "delete")
    /\ Quietly /\ CoreStep

\* A packet that is too long, ends too early, has no opcode of the protocol or fails
\* the test of the key: Close, and the status stays.
HandleBad(c) ==
    /\ core[c].at = "handle" /\ core[c].packet = "bad"
    /\ Faulty("use", Uses)
    /\ socket' = IF Uses THEN socket ELSE "closed"
    /\ past' = past \cup {"silent"}
    /\ Moves(c, "test")
    /\ UNCHANGED connected /\ Quietly /\ CoreStep

\* The socket is given up without a change of the status.
Lost_NoStatus(c) ==
    /\ core[c].at = "lost"
    /\ Faulty("use", Uses)
    /\ socket' = IF Uses THEN socket ELSE "closed"
    /\ Moves(c, "delete")
    /\ UNCHANGED <<connected, past>> /\ Quietly /\ CoreStep

\* The catch block: SetConnected(false) ...
Lost(c) ==
    /\ core[c].at = "lost"
    /\ connected' = FALSE
    /\ past' = past \cup (IF connected THEN Raced(TRUE) ELSE {})
    /\ Faulty("use", Uses)
    /\ socket' = IF Uses THEN socket ELSE "closed"
    /\ Moves(c, "delete")
    /\ Quietly /\ CoreStep

\* ... ResetSocket, which HandleLogin calls too ...
Delete(c) ==
    /\ core[c].at = "delete"
    /\ Faulty("delete", Uses)
    /\ socket' = "deleted"
    /\ Moves(c, "new")
    /\ UNCHANGED <<connected, past>> /\ Quietly /\ CoreStep

\* c_Socket is left null.
New_Null(c) ==
    /\ core[c].at = "new"
    /\ socket' = None
    /\ Moves(c, IF core[c].packet = "reject" THEN "test" ELSE "tell")
    /\ UNCHANGED <<connected, past, fault>> /\ Quietly /\ CoreStep

New(c) ==
    /\ core[c].at = "new"
    /\ socket' = "fresh"
    /\ Moves(c, IF core[c].packet = "reject" THEN "test" ELSE "tell")
    /\ UNCHANGED <<connected, past, fault>> /\ Quietly /\ CoreStep

\* The user is not told.
Tell_Silent(c) ==
    /\ core[c].at = "tell"
    /\ Moves(c, "done")
    /\ UNCHANGED <<connected, socket, past, fault>> /\ Quietly /\ CoreStep

\* ... and "Disconnected!".
Tell(c) ==
    /\ core[c].at = "tell"
    /\ SendToGui(<<Text>>)
    /\ Moves(c, "done")
    /\ UNCHANGED <<connected, socket, past, fault>> /\ CoreStep

-----------------------------------------------------------------------------
(* The user: toolbar_connect_click and button_send_click.                   *)

CanClick == user = "idle" /\ ~GuiHolds /\ Len(events) <= MaxPending
UserGoes(at) == user' = at
UserStep == UNCHANGED <<line, tid, core, sends>>

\* The dialog runs without the gdk lock, and is left with or without a password.
ClickConnect ==
    /\ CanClick /\ ~connected /\ tid < MaxConns
    /\ UserGoes("dialog")
    /\ UNCHANGED <<connected, socket, past, fault>> /\ Quietly /\ UserStep

DialogLeft ==
    /\ user = "dialog" /\ ~GuiHolds
    /\ \/ UserGoes("connect")
       \/ UserGoes("idle")
    /\ UNCHANGED <<connected, socket, past, fault>> /\ Quietly /\ UserStep

\* connect() succeeds, which only a new socket can.
ConnectSocket ==
    /\ user = "connect" /\ socket = "fresh"
    /\ socket' = "live"
    /\ line' = [sent |-> << >>, count |-> 0, closed |-> FALSE]
    /\ UserGoes("up")
    /\ UNCHANGED <<connected, tid, core, sends, past, fault>> /\ Quietly

\* SetConnected(true), "Connected to ...".
Connected ==
    /\ user = "up"
    /\ connected' = TRUE
    /\ SendToGui(<<Text>>)
    /\ UserGoes("start")
    /\ UNCHANGED <<socket, past, fault>> /\ UserStep

\* StartThread, SignalEvent.
StartCore ==
    /\ user = "start"
    /\ tid' = tid + 1
    /\ core' = [core EXCEPT ![tid + 1].at = "test"]
    /\ SignalEvent
    /\ UserGoes("idle")
    /\ UNCHANGED <<connected, socket, line, events, sends, past, fault>>

\* connect() fails: SetConnected(false), which closes the socket, and nothing
\* that makes a new one.
ConnectFails ==
    /\ user = "connect"
    /\ connected' = FALSE
    /\ Faulty("use", Uses)
    /\ socket' = IF Uses THEN socket ELSE "closed"
    /\ past' = past \cup {"refused"}
    /\ SendToGui(<<Text>>)
    /\ UserGoes("idle")
    /\ UserStep

ClickDisconnect ==
    /\ CanClick /\ connected
    /\ UserGoes("close")
    /\ UNCHANGED <<connected, socket, past, fault>> /\ Quietly /\ UserStep

\* SocketClient::Disconnect.
CloseRaw ==
    /\ user = "close" /\ socket # "closed"
    /\ Faulty("use", Uses)
    /\ socket' = IF Uses THEN socket ELSE "raw"
    /\ UserGoes("down")
    /\ UNCHANGED <<connected, past>> /\ Quietly /\ UserStep

\* close() of a socket that is closed: "Disconnection failed?!".
CloseFails ==
    /\ user = "close" /\ socket = "closed"
    /\ SendToGui(<<Text>>)
    /\ UserGoes("idle")
    /\ UNCHANGED <<connected, socket, past, fault>> /\ UserStep

Disconnected ==
    /\ user = "down"
    /\ connected' = FALSE
    /\ Faulty("use", Uses)
    /\ socket' = IF Uses THEN socket ELSE "closed"
    /\ SendToGui(<<Text>>)
    /\ UserGoes("cancel")
    /\ UNCHANGED past /\ UserStep

\* The thread is not cancelled.
Cancel_Not ==
    /\ user = "cancel"
    /\ UserGoes("delete")
    /\ UNCHANGED <<connected, socket, line, tid, core, sends, past, fault>> /\ Quietly

\* pthread_cancel: a thread in recv() or msleep() ends, any other goes on until it
\* calls one of them; one that has ended must not be cancelled.  The thread is
\* detached, so pthread_join does not wait.
Cancel ==
    /\ user = "cancel"
    /\ core' = [core EXCEPT ![tid].cancelled = TRUE,
                            ![tid].at = IF @ \in {"test", "call", "recv"} THEN "done" ELSE @]
    /\ Faulty("cancel", core[tid].at = "done")
    /\ UserGoes("delete")
    /\ UNCHANGED <<connected, socket, line, tid, sends, past>> /\ Quietly

UserDelete ==
    /\ user = "delete"
    /\ Faulty("delete", Uses)
    /\ socket' = "deleted"
    /\ UserGoes("new")
    /\ UNCHANGED <<connected, past>> /\ Quietly /\ UserStep

\* The new socket and SignalEvent.
UserNew ==
    /\ user = "new"
    /\ socket' = "fresh"
    /\ SignalEvent
    /\ UserGoes("idle")
    /\ UNCHANGED <<connected, events, past, fault>> /\ UserStep

\* The user has typed a line: it is shown ...
ClickSend ==
    /\ CanClick /\ connected /\ sends < MaxSends
    /\ sends' = sends + 1
    /\ SendToGui(<<Text>>)
    /\ UserGoes("send")
    /\ UNCHANGED <<connected, socket, line, tid, core, past, fault>>

\* ... and sent, if the session is connected still, by a thread that catches no
\* exception and ignores no SIGPIPE.
Send ==
    /\ user = "send"
    /\ UserGoes("idle")
    /\ IF ~connected
         THEN SendToGui(<<Text>>) /\ UNCHANGED fault
         ELSE /\ Quietly
              /\ \/ Faulty("use", Uses)
                 \/ line.closed /\ socket \in {"live", "raw"} /\ Faulty("send", TRUE)
    /\ UNCHANGED <<connected, socket, past>> /\ UserStep

-----------------------------------------------------------------------------
CoreNext(c) == \/ Test(c) \/ Check(c) \/ Call(c) \/ Receive(c) \/ ReceiveEnd(c)
               \/ HandleText(c) \/ HandleChannelUsersList(c) \/ HandleFake(c)
               \/ HandleReject(c) \/ Rejected(c) \/ HandleBad(c)
               \/ Lost(c) \/ Delete(c) \/ New(c) \/ Tell(c)

GuiNext == GuiTests \/ GuiPrev \/ GuiTake \/ GuiWait

UserGoesOn == \/ ConnectSocket \/ Connected \/ StartCore \/ ConnectFails
              \/ CloseRaw \/ CloseFails \/ Disconnected \/ Cancel \/ UserDelete \/ UserNew
              \/ Send

\* The user connects while an earlier CoreThread still ends, disconnects or sends while the
\* CoreThread gives up the connection, or has cancelled it where it does not end.
Closing == {"rejected", "lost", "delete", "new", "tell"}
Overlap ==
    \/ user \in {"connect", "up", "start"} /\ \E c \in Conns : core[c].at \in Closing \cup {"test"}
    \/ user \in {"close", "down", "cancel", "delete", "new", "send"} /\ core[tid].at \in Closing
    \/ user \in {"delete", "new"} /\ core[tid].at \in {"check", "handle"}

\* A process with undefined behaviour or an uncaught exception is not gone on with.
Step(A) == fault = {} /\ A /\ crossed' = (crossed \/ Overlap')

Next == \/ Step(\E p \in Kinds : ServerSends(p))
        \/ Step(ServerCloses)
        \/ Step(GuiNext)
        \/ Step(SpuriousWake)
        \/ \E c \in Conns : Step(CoreNext(c))
        \/ Step(ClickConnect \/ DialogLeft \/ ClickDisconnect \/ ClickSend)
        \/ Step(UserGoesOn)

\* Every thread runs.  The server and the user need not do anything, but a callback ends.
Fairness == /\ WF_vars(Step(GuiNext))
            /\ WF_vars(Step(UserGoesOn))
            /\ \A c \in Conns : WF_vars(Step(CoreNext(c)))

Spec == Init /\ [][Next]_vars /\ Fairness

-----------------------------------------------------------------------------
CorePcs == {"none", "test", "check", "call", "recv", "handle", "rejected", "lost", "delete",
            "new", "tell", "done"}
UserPcs == {"idle", "dialog", "connect", "up", "start", "close", "down", "cancel", "delete",
            "new", "send"}

\* The type invariant.
TypeOK ==
    /\ connected \in BOOLEAN
    /\ socket \in SocketStates
    /\ line.sent \in Seq(Kinds) /\ line.count \in 0..MaxPackets /\ line.closed \in BOOLEAN
    /\ tid \in 0..MaxConns
    /\ core \in [Conns -> [at : CorePcs, packet : Kinds \cup {None}, cancelled : BOOLEAN]]
    /\ events \in Seq([kind : {"text", "L", "J"}, row : Conns \cup {None}])
    /\ gui \in {"top", "prev", "take", "asked", "waiting"}
    /\ prev \in BOOLEAN
    /\ window \in [label : {"Connect", "Disconnect"}, list : SUBSET Conns]
    /\ user \in UserPcs
    /\ sends \in 0..MaxSends
    /\ missed \in BOOLEAN /\ crossed \in BOOLEAN
    /\ past \subseteq {"raced", "late", "fake", "silent", "refused"}
    /\ fault \subseteq {"use", "delete", "cancel", "send"}

\* The user waits, and so do the threads there are.
AtRest == /\ user = "idle" /\ ~crossed
          /\ gui = "waiting" /\ ~missed
          /\ \A c \in Conns : core[c].at \in {"none", "recv", "done"}

\* The socket object is neither used after it was deleted nor deleted twice by two
\* threads, as long as the user does not cross a CoreThread that gives up its
\* connection.  Client::Disconnect and the catch block of CoreThread both replace it,
\* without a lock; what keeps them apart is the cancellation of the thread.
SocketKept == fault \cap {"use", "delete"} = {} \/ crossed

\* What is left at the end can be gone on with: a connected session has a connected
\* socket, and one that is not has a socket that connect() accepts.  Only a connect
\* that fails and a server with a false key leave a socket that cannot be used again.
SocketUsable ==
    AtRest => /\ connected => socket = "live"
              /\ ~connected /\ past \cap {"refused", "fake"} = {} => socket = "fresh"

\* When GuiThread waits it has shown every message, the button says what the status
\* says, and no user is listed without a connection.  What GuiThread does not see is a
\* change between its reads of the status ("raced") and that a message about a user
\* belongs to a connection that is over ("late").
WindowTrue ==
    AtRest => /\ events = << >>
              /\ "raced" \notin past => (window.label = "Disconnect") = connected
              /\ past \cap {"raced", "late"} = {} /\ ~connected => window.list = {}

\* A connection the server closes is shown to be closed, unless the session was closed
\* silently, a signal is lost or the status changes between two reads.
LossShown ==
    (line.closed /\ connected) ~>
        (\/ window.label = "Connect" \/ ~line.closed
         \/ missed \/ past \cap {"raced", "silent"} # {} \/ crossed \/ fault # {})
=============================================================================
