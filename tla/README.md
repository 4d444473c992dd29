# Verification of psc (project-secure-chat)

TLA+ models of the server and the client of psc, the model-checking runs over
them, and proofs of what matters most for every value of the constants. Paths
below are relative to the repository; `server/...`, `client/...` and
`shared/...` stand for `src/server/...` and so on.

Contents: 1 the system · 2 the modules · 3 the runs · 4 the proofs · 5 what the
code does that its documentation does not say · 6 what is left out and why ·
7 the plan.

## 1. The system: inventory

psc is a chat. A multi-threaded server (`server/`) accepts TCP connections with
epoll, keeps one *session* per connection and groups the sessions in *channels*.
A GTK client (`client/`) has a receiver thread and the thread of the interface.
`shared/` holds what both use: packets, cryptography, locks, queues.

Threads of the server:

| thread | runs | number |
|---|---|---|
| main | `ServerCore`: for ever `SessionManager::Update`, `ChannelManager::Update` | 1 |
| epoll | `SocketServer::Call`: accept, readiness events | 1 |
| network | `NetworkThread::Call`: one send or one receive per request | `ThreadNet` |
| workers | `MethodThread::Execute`: one `Channel::Update` per request | `ThreadExec` |

Components, the state each keeps, and what makes it correct:

| component | state | operations | hard behaviour | correct when |
|---|---|---|---|---|
| `LockQueue` + `Semaphore` (in `SchedulingEngine`, `NetworkManager`) | the queue; a counter with a condition variable | `add`, `Signal`, `Wait`, `next` | two objects, two locks, many producers and consumers, spurious wake-ups | first in first out, nobody gets NULL, no wake-up is lost |
| `ChannelUpdater`, `ChannelManager::Update` | `pending_requests`, `sem`, `active`; `m_channels` | `ScheduleUpdate`, `Wait`, `UpdateFinished`; deletion of empty channels | workers finish while the main thread still schedules; workers insert into the map it walks | the count is exact, the barrier separates the parallel part of a tick from the rest, the tick ends |
| `SessionManager`, accept loop | `m_sessions`, `addSessQueue`, `m_waitSessQueue` | `AddSession`, `AddSession_`, `RemoveQueuedSession`, `Update` | lengths read by another thread, descriptors that come back, exceptions out of the loop | limits kept, no slot idle, positions right, closed sessions removed, sessions found by id |
| `Session` / `SessionBase`, both sides | `s_status`, `s_enc`, `s_next_enc`, `s_key`, `s_key_tmp`, `u_changekeys`, packet numbers | `HandleLogin`, `GenerateNewKey`, `HandleRefreshKey`, sending, receiving | what a packet is sealed with, and whether it can be read, depends on state that other threads change | both ends have the same key, every packet can be read, login and refresh end |
| receive and send path | epoll events, `_recvQueue`, `_sendQueue` | `QueueRecive`, `QueueSend`, `Session::Update` with its filters | one packet per edge-triggered event; two threads may serve one session | nothing lost or left unread, order kept |
| channel membership | `Session::s_status`, `username`, `m_channel`; `Channel::m_sessions`; `m_channels`; the list of users of every client | end of the login, join, leave, create, removal, deletion of empty channels | a channel is created, empty, before its creator enters it; the handlers of one session in two threads; two logins of one user side by side | session and channel agree, each channel with members can be found, one session per user, every client shows who is there |
| `ClientCore`, client `Session`, callbacks of the window | event queue, condition variable, status, socket object | `Connect`, `Disconnect`, `CoreThread`, `GuiThread`, `WaitEvent`, `HandleSend` | a signal without its mutex, a status read three times in a round, a socket deleted by two threads, thread cancellation | the socket is kept, the window shows what is the case, a lost connection is shown |
| client command parser, echo | the line, the command tables | `HandleSend`, `ParseCommands`, `ExecuteCommandInTable`, `ShowHelpForCommand` | two tests of one line that may disagree; abbreviations; lengths that grow by encoding | shown as it is sent; every line has an effect or an answer |
| `Packet`, `ByteBuffer` | bytes, read and write position | `Incapsulate`, `Decapsulate`, `append`, `read` | a length in 16 bits, short packets, replay check | what is read is what was written, what is cut short is refused |
| timers | interval, current; the measurement of a round | `Update`, `Passed`, `Reset`, `SetCurrent` | truncated microseconds, an unsigned difference, exceptions between two timers | pass when due, not before |
| `counted_ptr` | a count | copy, release | the count is not atomic and shared by threads | the object is freed when, and only when, unused |
| cryptography, database, configuration, logging, files, XML, widgets | - | - | none, or input and output | - |

How they interact. The epoll thread hands new connections to the session manager
through `addSessQueue`, and readiness to the network threads through the queue of
`NetworkManager`. Network threads decrypt and put packets into the session's
`_recvQueue`; the main thread (`SingleSessionFilter`) and, for the members of
a channel, a worker (`MapSessionFilter`) take them out and call the handlers.
Handlers answer by a direct send, or through `_sendQueue` and the same network
threads. Each round, the main thread updates all sessions, then ticks the
channels: it gives each channel to the workers, waits for them, and deletes the
channels that are empty.

## 2. The modules

| module | models | extends / uses |
|---|---|---|
| `BlockingFifo` | abstract: what a work queue of the server promises | |
| `WorkQueue` | `LockQueue` with `Semaphore`, as `SchedulingEngine` and `NetworkManager` use them | implements `BlockingFifo` |
| `WorkQueueProofs` | theorems about `WorkQueue` | `WorkQueue` |
| `ChannelTick` | one tick of the channels: main thread and workers | takes the queue at the level of `BlockingFifo` |
| `SessionManager` | life of sessions: epoll thread, main thread, network threads, kernel | |
| `SessionManagerProofs` | theorems about `SessionManager` | `SessionManager` |
| `KeyExchange` | one connection, both sides: login, key refresh, numbering | |
| `KeyExchangeProofs` | theorems about `KeyExchange` | `KeyExchange` |
| `ReceivePath` | a packet's way through the server: epoll, network threads, main thread, worker | takes the queue at the level of `BlockingFifo` |
| `ReceivePathProofs` | theorems about `ReceivePath` and, at its end, `Packets` | `ReceivePath`, `Packets` |
| `Membership` | who is in which channel, and what the clients show: main thread and workers | takes the barrier as `ChannelTick` shows it to be |
| `MembershipProofs` | theorems about `Membership` | `Membership` |
| `Client` | the three threads of the client, their socket, queue and window | |
| `ClientProofs` | theorems about `Client` | `Client` |
| `Commands` | pure: how a typed line is shown and parsed, what it does | |
| `Lines` | a line's way from the entry field to the server's handler, as bytes | `Commands` |
| `LinesProofs` | theorems about `Lines` and `Commands` | `Lines` |
| `Timers` | the timers of the server against real time | |
| `TickProofs` | theorems about `ChannelTick` and `Timers` | `ChannelTick`, `Timers` |
| `SharedCount` | the count of a `counted_ptr` | |
| `Packets` | pure: `ByteBuffer` and the header of a packet | |
| `MC...` | the modules TLC is run on | |

Definitions called `Name_Variant`, next to `Name`, are mistakes one could make in
`Name`; nothing of the specification refers to them. They show that each property
can fail: put in the place of `Name`, they break it.

Several modules have a variable `past`: what has happened that the code does not
guard against. A property that does not hold after such an event names it as an
excuse, so that it says both what holds and what may spoil it.

### 2.1 WorkQueue

One step is one critical section. A producer takes three (`Add`, `Post`,
`CondSignal`: `Semaphore::Signal` calls `pthread_cond_signal` after it has
released the mutex); a consumer takes one for each test of the counter in
`Semaphore::Wait` (`Test`; failing it starts the wait and releases the mutex in
one instant, as `pthread_cond_wait` does), one for `LockQueue::next`
(`TakeNext`), one for what it does with the request (`Return`).
`SpuriousWakeup` is `pthread_cond_wait` returning for no reason. `next` leaves its
result alone when the queue is empty: the NULL a consumer would then hold is in
the model, and that it never happens is a property.

### 2.2 ChannelTick

State: the map of channels (a channel is its position in the iteration of
`m_channels`, a hash map whose order is arbitrary), which channels have members, the main thread's place in `ChannelManager::Update`
(`mpc`, `todo`), the requests (`fifo`), each worker's place (`wpc`), and the
three fields of `ChannelUpdater`.

`ScheduleUpdate` is two steps, because it first hands the request over and then
counts it; both are under `m_mutex`, which `UpdateFinished` takes too, hence its
guard `mpc # "locked"`. A worker's update may run `HandleCreateChannel`, in the
three steps in which it changes shared state. Undefined behaviour is a choice:
iterating over `m_channels` while a worker inserts may skip elements (`List`);
`erase(iter); ++iter` may continue anywhere, stop, or crash (`DropChannel`);
an update of a deleted channel may crash.

### 2.3 SessionManager

State: the kernel's descriptors (`owner`), the epoll thread's place in
`AddSession` (`epc`, `seen`), each session's socket, id and status, the two
queues, the map, and the main thread's place in `Update`. One body of a loop of
the main thread is one step, because its maps are its own; `AddSession` is two
steps, because it reads the lengths of two queues that the main thread changes
meanwhile (in either order: C++ does not fix the order of operands).

`Faults` says what the environment may do: `"reuse"`, accept may return the
descriptor of a closed session that is still registered; `"hangup"`, epoll may
report `EPOLLHUP` or `EPOLLERR`, on which the server closes the raw descriptor
and leaves the session as it is, and a direct send to a broken connection throws
out of `Update`; `"throw"`, a call of the epoll thread for a descriptor that accept
has returned fails, and the exception leaves the descriptor open without a session
(`AcceptThrows`). `FoundById` and `ClosedAreRemoved` hold only without faults
(section 5), so there are two runs.

The counter `GetActiveSessionCount` is computed modulo `UIntSize`, as the
unsigned difference it is.

### 2.4 KeyExchange

Both ends of one connection, from the moment the session manager lets the session
in. `srv` and `cli` hold the fields of `SessionBase` that matter for encryption; a
key is the set of the random halves it is combined from, so that `Xor` is the
symmetric difference and two keys are equal exactly if the code's are. A packet
carries its *seal*, the sender's mode and key when it was sealed. `Readable`
compares it with the receiver's when it is received; what does not fit is ignored
or makes the receiver close, because the code goes on with the undecrypted bytes
and takes a header from them.

On the server sealing, sending and the change of key tied to a packet are one
critical section of `m_mutex` (`ServerSends`); a queued packet is taken from the
queue and sent in two steps, by any network thread. On the client, without a
lock, numbering a packet and sealing it are two steps of either thread
(`Prepares`, `Sends`). Two numberings at the same instant could give two packets
the same number; as the receiver accepts equal numbers this changes nothing that
is stated here.

`Positions` bounds the queue positions that are still unsent when the login
starts (how many there are is chosen in `Init`). The refresh timer may pass at any
moment, also while an earlier refresh is unanswered: the only test, in
session.cpp:239, is of `u_changekeys == 1`, which holds for an instant.
`made.overlap` remembers that this happened; `PacketsAreRead`, `KeysAgree` and
`RefreshEnds` say what they claim of it; that the server's numbers restart only
under another key and the end of the login are claimed with overlaps too. The
client's numbers are not: with three refreshes the answers to the first two can
change places between two network threads, the late one makes the server
announce the key the client has already, and the client starts again at 0 under
it. The user may type at any time; properties that do not hold when he does say
so.
Assumed: each packet that arrives is received (`Heard` of `ReceivePath`
shows it for a client that waits for its answers, as the login does), both ends
are honest, and the database is a choice. That no user is logged in twice is in
`Membership`.

### 2.5 ReceivePath

State: what has arrived on a connection and is unread (`wire`), epoll's list of
connections with news (`ready`) and the events it has returned (`batch`), the
session that is being accepted (`opening`), where it is on its way into and out
of `m_sessions` (`place`), the RECV requests (`requests`), what each network
thread, the main thread and the worker of the session's channel are doing (`net`,
`main`, `work`), the received packets (`recvq`) and those that were handled
(`handled`). `handled` includes packets that a handler drops because the
session's state forbids their kind. `past` remembers what a client has done, and
what has gone wrong, so that properties can say what they excuse.

epoll is edge-triggered: an arrival puts the connection on `ready`, `EpollWait`
empties it, and each event becomes one request and one receive. A receive that
finds nothing is treated as the code treats `EAGAIN`: the session is closed. A
packet may arrive in two parts; what is read before it is complete is taken for
a packet. A packet may be one the server refuses (`"refused"`): its length exceeds
65,000 or its content cannot be read as a packet (`RecvPacketFromSocket` closes the
session), or its opcode does not exist (`RefuseOpcode` closes it, after the mutex is
released). The session is closed as well in handlers, by the login's timer
(`LoginTimer`, for which `login` says how far the login is) and when a packet cannot
be sent to it (`SendFails`). `QueueRecive` looks the session up in `m_sessions` without a lock: while
the main thread changes the map the lookup may find, miss or crash. Main thread
and workers are not kept apart, because the barrier of `ChannelTick` does not
hold. How many network threads run is chosen in `Init`.

Left out here: SEND requests but for those that fail, as they share the queue but
not the state of a receive (what they send is in `Membership` and `KeyExchange`), and
`EPOLLHUP`, which is in `SessionManager`. The changes to the map that
concern other sessions are the steps `OtherBegins`, `OtherEnds`.

### 2.6 Membership

State: for each session its status, the name it asks for and has, and the channel
it notes; for each `Channel` object its name and members; the map; what each
session is still to be sent (`packets`); and what each client's list of users shows
(`view`). `job` says in which handler each thread is, of which
session, and how far. A handler is a sequence of steps, one per access to what
others can reach: `Erase`, `AnnounceLeave`, `Left`, `Insert`, `AnnounceJoin`,
`Joined`; what begins it (`JoinChannel`, `CreateChannel`, `LeaveChannel`,
`RemoveSession`, the end of the login) says which of them follow.

Joins, leaves and lists of users are packets. `AnnounceJoin` and `AnnounceLeave` put
them into the queues of the members; a network thread takes one out (`Take`) and
sends it (`Send`), in two steps. As many can be taken and unsent as there are network
threads (`ThreadNet`, 2 in psc-server.conf.dist), so two packets of one session may
change places. `view` changes, by `Effect`, when a packet is sent: the connection
keeps the order and the client has one thread that handles what it receives. Nothing
is sent to a session that is being removed.

The main thread runs the handlers of all sessions; a worker, those that may run
in place (`CreateChannel`) for the session its iteration stands on (`inside`) - also
after that session has left the channel that is being updated, because the loop
over the session's packets goes on. `EndWait` may pass early, as `ChannelTick`
shows the barrier may. `past` remembers that it has (`"early"`), that two threads
have been in handlers of one session (`"doubled"`), that two users were logged
in whose names differ only in case (`"alike"`: the client's list has one row for
both, gui.cpp:355), and that a network thread has sent a packet before one that was
queued earlier for the same session (`"swapped"`).

### 2.7 Client

Three kinds of thread: the user's (GTK callbacks), the window's (`GuiThread`) and
one `CoreThread` per connection. A step reads or writes one thing they share.
`socket` is the state of the object `c_Socket` points to, with `"deleted"` between
`delete` and `new`; using it then is undefined behaviour and recorded in `fault`,
after which the process is not gone on with. Also recorded: a second delete, a
cancellation of a thread that has ended, an uncaught exception of a send.

`gui` is the place of `GuiThread` in its loop: it tests the status, notes it in
`prev`, takes one message, asks `EmptyEvents`, and waits. A signal that comes
between the last two is lost (`missed`). `past` names the other races: the status
changes between two reads (`"raced"`), a message about a user comes after the end
of his connection (`"late"`), a fake server, a silent close, a refused connection.
`crossed` says that the user acted while a `CoreThread` was giving up its
connection, where nothing keeps the two apart.

### 2.8 Commands and Lines

`Commands` is the client's parser as operators: the tables, the choice of the entry
an abbreviation stands for, the help, each handler, and the echo of the line. A
word is a sequence of parts, cut where the names in the tables differ, so that
"abbreviates" is "is a prefix of"; the parser's recursion into a child table is two
applications of one operator, as the tables are two levels deep.

`Lines` follows a line: it is typed, shown and parsed (`Type`), enclosed and framed
as a number of bytes, delivered in pieces of any size (`Arrives`), received by a
call of `recv` for the length and one for the frame (`RecvLength`, `RecvFrame`),
decoded, queued, and handled. Bytes are counted as the code counts them: base64,
XML, header, frame length in two bytes. The counts are scaled: a byte has `Byte`
= 4 values, so a length wraps at 16 instead of 65,536, and the limits of 65,000 on
what is typed and received are 13. A `recv` may return less than it was asked for
(`"short"`); what follows depends on what garbage decrypts to, and is a choice
(`DecryptGarbage`), because a wrong padding is not noticed.

### 2.9 Timers

The three `IntervalTimer`s of the server (login, key refresh, channel tick), the
rounds of the main loop, and the code that measures them. `Milliseconds` is the
code's formula, with the truncation of C and the conversion to `uint32`. `real`
and `rounds`, which the program does not have, say for how long and in how many
rounds a timer has really run. A round may be left by an exception before a
timer is updated, and the clock may be set: both are excuses (`past`). The parts of
the specification are called `TimersInit`, `TimersNext`, `TimersSpec`, because
`TickProofs` extends `ChannelTick` as well.

### 2.10 SharedCount

One session, the pointers of the map and of the session itself, and threads that
copy and drop pointers. `++count` and `--count` are a read and a write.

### 2.11 Packets

A buffer is `[store, rpos, wpos]` and each operation of `ByteBuffer` that packets
need is a function of it. `Incapsulate` and `Decapsulate` are built from these;
an operation that throws has a condition of its own. There is no run: the numbers
of a header need 32 bits, more than TLC's integers, and every statement about
these operators is proved.

## 3. The runs

Every run but the two violation runs ends without an error. Deadlock is checked in
`workqueue` (where only spurious wake-ups remain once the bound on requests is
reached); elsewhere the model stops when its bounds are used up, when the server
has crashed or when the connection is closed.

| run | bounds | shows |
|---|---|---|
| `workqueue` | 2 producers, 2 consumers, 2 requests each | tokens match requests, no wake-up is lost, `WorkQueue` implements `BlockingFifo` including its liveness |
| `channel_tick` | 2 channels, 2 workers, 3 ticks | `pending_requests` is exact and never wraps; no endless wait at the barrier; every tick ends |
| `channel_tick_barrier` | as `channel_tick` | *violation*: the main thread passes the barrier while an update is outstanding |
| `sessions` | 3 descriptors, 4 connections, 1 active, queue limit 1, no faults | at most the allowed number is active, nobody waits for a free slot; sessions are found by id, closed ones removed |
| `sessions_faults` | the same with all three faults | the queue reaches three, twice its limit and one, and no more, the count never underflows, positions told are right, nobody is forgotten |
| `key_exchange` | 2 network threads, 2 refreshes that may overlap, 1 message typed, 1 told, 0 or 1 unsent position | the server's numbers restart only with a new key, the login ends; without overlap the client's do too, the keys agree and refreshes are carried through; without overlap and unsent position the client reads everything, and if nothing is typed the server does |
| `receive_path` | 1 session, 1 or 2 network threads, 2 packets, which may be cut or refused, failing sends, the login's timer | packets are neither lost nor handled twice, sessions are closed for a reason only and never by a receive that should not have been, order is kept by a single network thread, a client that waits for answers is heard |
| `membership` | 2 sessions, 3 users (2 of whom share a row), 3 names, 3 channel objects, 2 workers, 2 network threads, 2 packets not yet sent | no user is logged in twice; sessions and channels agree; each member is in a listed channel; the clients show who is there once all is sent, in order |
| `client` | 2 connections, 1 packet each, 1 line | the socket is neither used nor deleted by the wrong thread, what is left can be gone on with, the window shows what is the case, a loss is shown |
| `lines` | every form of line, every size around the limits, 3 lines | shown as it is sent; handled in order; every line has an effect or an answer |
| `timers` | 3 ms per s, 3 us per ms, 1 clock change or exception, the clock up to 22 us | no timer passes early or is overdue by more than a millisecond a round |
| `shared_count` | 2 threads, 3 copies | *violation*: a session is freed while a pointer to it is left |

Why the bounds are enough.
- *Work queue*: a lost wake-up needs two sleeping consumers and two signals, a NULL
  one token too many; more threads only add instances (and the proofs cover them).
- *Channel tick*: a premature signal needs one request finished before the second
  is scheduled; the token it leaves matters in the next tick; the third shows
  that surplus tokens do not accumulate into something worse. The proofs have no
  such bound.
- *Sessions*: with one slot, a session that is active, one waiting and one
  more behind it are needed for positions to shift; the fourth connection takes a
  descriptor again. The excess of the queue needs one session under way and one
  in each queue.
- *Key exchange*: two refreshes overlap or follow each other; a third meets the
  same states. One typed packet is enough to be numbered before and sent after a
  change of key.
- *Receive path*: sessions share nothing but the threads and the map, which
  `OtherBegins` changes for them; two packets are enough to be reordered, to share
  an event, and to be handled by two threads at the same time. States after the
  session of a client that cuts packets is closed are checked, but not gone on from
  (`Bounded`): only the order is still in question then, and that is proved.
- *Membership*: two sessions meet in one channel, or one leaves the channel the
  other enters; three objects are two channels and one more that replaces or
  follows one of them; with two workers the two sessions are in handlers at the
  same time, or one session in both. Two packets of one session are enough to be swapped.
  The states after a barrier passed too early or after a swap are checked, but not
  gone on from, and so are those with more than `MaxPackets` unsent (`Bounded`); what
  holds beyond is proved. Once `past` excuses `ListsAgree`, states that differ only in
  lists and packets count as one (`Seen`).
- *Client*: two connections are needed for the threads of an old and a new
  connection to meet. The states after the user has crossed a `CoreThread` are
  checked but not gone on from. `MaxPending` keeps clicks and packets back while
  more than one message waits.
- *Lines*: `FirstLines` says after which lines another is typed: one that is said, one
  that enters a channel and one that leaves it; `ShortLines`, for which lines a
  `recv` may return too little: one that is cut, one whose length wraps, one
  without content. Each form of line is followed alone to its end.
- *Timers*: the errors come from truncation below a millisecond and from seconds and
  microseconds computed apart; both wrap several times in 22 units. The
  theorems have no bound.

`UIntSize` (8 or 16) and `SizeMax` (7) are larger than any count a run reaches, so
that a wrapped value is recognised. Bounds in guards: `MaxSubmits`, `MaxTicks`,
`MaxRequests`, `MaxConns`, `MaxRefreshes`, `MaxTyped`, `MaxTold`, `Positions`,
`MaxPackets`, `MaxSends`, `MaxPending`, `MaxLines`, `MaxClock`, `MaxCopies`,
`Objects` (channels ever created), and one channel creation per `Channel::Update`
in `ChannelTick`. `MaxRequests` (at most `SizeMax`) stands for the memory, in which
every request is allocated.

Fairness.
- `WorkQueue`: a producer that has added a request goes on to signal; a consumer
  runs when it is not blocked. Nobody is obliged to submit, and spurious wake-ups
  have no fairness.
- `ChannelTick`: the main thread's tick and each worker run unless blocked; a
  worker's update is not obliged to create a channel, and no tick is obliged to
  start.
- `SessionManager`: `ServerCore` calls `Update` for ever. The epoll and the
  network threads have no fairness: nothing proved or checked depends on them.
- `KeyExchange`: every thread with something to do goes on. Timers are not
  promised to pass: `LoginEnds` must hold without the login timeout.
- `ReceivePath`: epoll, network threads and what a thread has begun go on. For the
  main thread's taking of a session's packet fairness is strong: `Update` visits
  every session in each round, so what it finds waiting again and again it takes
  (what keeps it from finishing a round is the subject of `SessionManager`).
  Clients and kernel have no fairness.
- `Client`: `GuiThread`, each `CoreThread` and a callback that has begun go on. The
  user need not click, the server need not send, and `pthread_cond_wait` need not
  return without a signal.

All others are weak fairness: each thread is scheduled by the operating system, and no
mutex is held for ever. `Membership`, `Lines`, `Timers` and `SharedCount` state no
liveness and no fairness.

## 4. The proofs

Proved by TLAPS for every value of the constants that satisfies the modules'
assumptions.

`WorkQueueProofs`, for any finite disjoint sets of producers and consumers and
any number of requests (assumptions `ThreadsAssumption`, `MaxSubmitsAssumption`,
`NullAssumption`): `Typing`; `TokensMatchRequests` (`TokenAccounting`);
`NoNullRequest`; `NoWakeupLost`; `Implementation`, the safety part of the
refinement of `BlockingFifo`. The inductive invariant joins the type invariant
with `TokenAccounting`, because a consumer that holds a token must be known to
find the queue non-empty before it can be known to get a request, and with the
fact that a consumer holds a request exactly while it executes it, which the
step to the abstract `Take` needs. `NoLostWakeup` is inductive on top of the
types: a wake-up that fails (nobody waits) or a test that takes a token keeps the
inequality. Lemmas about the cardinality of `At(S, l)` when one thread moves
carry the counting.

`TickProofs`, first about `ChannelTick`, for any finite set of channels, any finite set of workers
and any number of ticks (assumptions `ChannelsAssumption`, `ThreadsAssumption`,
`BoundsAssumption`): `Typing`; `PendingIsExact`; `WaitIsAlwaysSignalled`. The
inductive invariant `IInv` joins the types with `BornKnown` (a worker that moves a
session knows the channel it has created: without it `EnterBorn` could add a
value that is no channel), `PendingExact`, and `Outstanding` (never more requests
than memory holds: without it the increment could wrap). `PendingExact` is what
makes the decrement safe, as the worker that finishes is itself counted, and
with that `WaitIsSignalled`: the request that brings the count to zero posts a
token.

`MembershipProofs`, for any sessions, users, names, channels, workers and any number
of network threads (assumptions `NamesAssumption`, `NoneAssumption`,
`ThreadNetAssumption`): `Typing`, `NamesAreUnique`,
`ChannelsAgree`, `ChannelsAreListed`, `ListsAreRight`, the first three also after
the main thread has passed the barrier too early. `NamesAreUnique` is
inductive on top of the types: only the main thread ends a login, and it tests
the names and takes one in the same step. `ChannelsAgree` is about
sessions between two handlers, so the invariant must say how far a session in a
handler is: `AtItsPlace` gives, for each place in a handler, what the session notes
and who counts it as a member; `Alone`, that no other thread is in a handler of it;
`Outside`, that a session that is not logged in is in no handler of a member. All
of that is claimed until two threads are in handlers of one session.

`ListsAreRight` speaks of moments without a handler and with everything sent, so its
invariant (`Clear`, on top of the one above) says what happens at all others. It names
for each client what it has been *told*: what its list will show when the packets
still to be sent have had their effect, one after the other (`Delivered`, with `Leads`
for the effect of a sequence of packets). About what is told it says: whoever is
`Out`, with no announcement of its own leave to come, is told an empty list, and a
member that has been announced is told all such members, and nobody but members and
those whose leave is still to be announced (`Shows`). A handler appends to the packets
and changes what is told; sending the first packet changes the list and not what is
told (`FirstSent`); sending another one is the swap that is excused. That adding a name
to a list adds this name, and taking it out takes no other, rests on the users'
being different for the list (`Users_Kept`), which in turn needs that a removed
session is out of its channel before it is gone. `ChannelsAreListed` rests on
`Employed`, by which nobody is in a handler when the deserted channels are deleted
unless the barrier was passed too early, and on `Listing`: a channel that somebody
is on the way to can be found too. Here the proof shows where the order of the
steps matters: a channel just created is empty, and safe only as long as its
creator is in the handler.

`SessionManagerProofs`, for any set of descriptors, any number of connections and
any limits (assumptions of the module): `Typing`, `NobodyForgotten`,
`PositionsTold`, `WaitIsBounded`; and, without reuse of a descriptor whose session
is registered, `FoundByTheirId` and `LimitsAreHeld`. `Life` says where a session
of each status is: which of `addSessQueue`, the waiting queue, the map and the
hands of the main thread. `Told` follows the positions through every removal.
`Bounded` found an error in what was checked before: the queue had been stated
to exceed its limit by one at most, which is only true of few descriptors. What
is inductive is a bound of the backlog (`Backlog`): both queues and the session in
hand, together with what the epoll thread has read and is about to act upon, and
it gives twice the limit and one - a bound the run reaches. `Limited` counts the
sessions past the queue against the map.

`ReceivePathProofs`, for any sets of sessions and network threads and any number
of packets (assumptions of the module): `Typing`, `ClosedForAReason`,
`NoneLostNoneTwice`, `SentOrderIsKept`. The first safety property is about what a
thread finds when it comes to receive, so the invariant (`Reasons`) counts: for an
honest client there are never more notices under way (in `ready`, `batch`,
`requests`, receiving threads) than unread arrivals on the wire (`Backed`);
whatever is not backed is traced to what the client did (`Traced`); and that every
session that is closed has one of the reasons (`Blamed`), where a refused packet that
is still with a thread is traced to its client (`Tainted`). `Own` counts the
copies of a packet over all the places it passes through; each step takes it from
one and puts it into one. `Order` orders these places: handled, being handled,
queued, in the hands of the single network thread, on the wire.

`KeyExchangeProofs`, for any finite set of network threads and any number of
unsent positions, refreshes, typed texts and texts of other users (assumptions
`ThreadsAssumption`, `BoundsAssumption`): `Typing`, `SameKeys` (`KeysAgree`, an
invariant and an action property) and `EverythingIsRead` (`PacketsAreRead`). What a
receiver can read depends on everything that is still on its way to it, so the
invariant describes the whole protocol. While refreshes have not overlapped, login
and refresh hand one turn from place to place (`OneTurn`: it is in one queue, on
one wire, or with one thread). `Rightly` says where both sides are when the turn is
a given message, wherever that message is; `Phases`, which states and modes of
the two sides occur together. `Stream` is about the packets on their way to the
client: at most one of them makes the client change its key; those before it are
sealed with what the client has, those after it with what it will have then, and
numbers rise within either part. `Source` says the same of the packet the server
would send next, which is what a typed text of another user, sent at any moment by
any network thread, relies on. It has one gap: between sending its half of the
key (`SendAccept`) and combining the halves (`CombineKeys`, without the mutex),
the server still seals in the old mode. A queue position that is
still unsent when the login starts may be what a thread sends then, and such
positions are exempt (`Exempt`), as `PacketsAreRead` says. `Back` is the same for the
other direction, as long as the user types nothing. With overlapping refreshes
none of this is claimed. What remains then is `Known`, from which it follows
that the server never restarts its numbers under the same key: its halves are made
in order, and the key holds only older ones than the half it is combined with.

`TickProofs`, then about `Timers`, for any units, intervals, lengths of rounds and clocks (assumptions
`UnitsAssumption`, `IntervalsAssumption`, `ClockAssumption`): `TimersInvariant`,
`TimersInTime` (`InTime`). `Near` says that a timer shows its running time to less
than a millisecond per round, in both directions, and rests on `RoundCounts`, by
which the code's formula for the length of a round is off by less than a
millisecond and never 0; `NotPassed`, that a running timer has not passed between
two rounds, as the last round would have found it; `HasInterval` and `NotStarted`,
that a timer that begins to run has its interval and stands at 0.

`ReceivePathProofs`, at its end, about the operators of `Packets` and so for any bytes:
`PacketIsRead` (what `Incapsulate` makes, `Decapsulate` reads, content cut to its
length modulo 65,536), `RoundTrip`, `ShortPacketThrows` (any proper beginning of a
packet throws), `UserIsRead`, `StringIsKept`, `NumbersNeverFall` (nothing lowers
the number below which packets are taken for replays).

`ClientProofs`, for any number of connections, packets and lines (assumptions of the
module): `Typing`, `SocketIsKept`, `SocketStaysUsable`, `WindowIsTrue`. Part of the
invariant holds whatever the user does: `Started` (threads are started one after
the other, each for a connection), `OneHolds` (the gdk lock: a callback and
`GuiThread` are never both inside), `NoneWaits` (`GuiThread` waits in vain only if
a signal was lost). The rest (`Apart`) is claimed until the user crosses a
`CoreThread` that gives its connection up. It has six parts. `EndsFirst`: no
thread outlives the start of the next. `Obeys`: whether a thread still goes on
agrees with the status, except while the user is on the way to cancel it.
`RejectedOnce`: nothing follows a rejected login. `Kept`: who has the socket - for each
place of the user and of the thread, in which state the object is, so that `delete`
meets an object and `new` only a deleted one. `Labelled` and `Emptied`: what
`GuiThread` will have read by the time it waits makes the button right, and the list
empty without a connection. Both speak about the moments between its three reads of
the status, where the button still shows what `prev` said: there the proof shows
which change between two reads is harmless (the next round sees it) and which is not
(`"raced"`, `"late"`, a lost signal).

`LinesProofs`, for any finite set of lines of any words and sizes, any number of them,
and any sizes of byte and frame (assumptions `LinesAssumption`, `SizesAssumption`):
`Typing`, `Echo` (`SaidIsShown`), `Order` (`InOrder`), `NothingIsLost` (`Told`). The
first half follows the parser: lemmas on what an abbreviation matches, which entry is
chosen and what each handler does lead to `EffectFacts`, by which every line sends at
most one packet, shows something or fails with an error, and is echoed as what it
sends. The second half follows the bytes. `Flows` says of `arrived \o wire` that from
each byte to the end of its frame no byte is missing, and that the next packet
follows: a form that `Arrives`, `recv` from the front and framing at the back all keep.
`Placed` puts the receiver at the beginning of a packet or behind its length, so that
the length it reads is one that was sent (two bytes make it up again, `LengthRead`);
it is what a short read or a length beyond 16 bits destroys. `Ordered` then numbers
the packets: handled, queued, and still in the stream, in this order without a gap,
none of them older than the receiver's number. `Counted` ties packets to lines, which
is what makes the absence of an effect visible to `Told`. The order (`InOrder`) is
proved in the strong form that no frame is garbled at all without a short read or a
length that did not fit.

Every invariant a passing run checks, and the one action property among them, is a
theorem. Only model-checked are the liveness properties (`TickEnds`,
`ClosedAreRemoved`, `LoginEnds`, `RefreshEnds`, `Heard`, `LossShown`, and the
liveness of `BlockingFifo`), which rest on fairness and are outside the prover's
reach. What `SharedCount` and the barrier are checked for is violated (section 5).

## 5. What reading and checking showed

Two comments of the source are contradicted by a run; `PROJECT.json` quotes them.

1. *The barrier of the channel tick does not hold* (`channel_tick_barrier`).
   `UpdateFinished` signals when the requests counted **so far** are done. The run
   ends with the main thread past `Wait`, at the start of the part commented as not
   thread safe, while the update of a channel is outstanding. The deletion of empty
   channels is the next thing it does; the trace ends before it.
2. *`counted_ptr` is not thread safe* (`shared_count`), as its comment demands. One
   copy is enough: a thread copies the map's pointer (`FindSession`) while the main
   thread releases the session's own (`deleteSmartPointer`). Both read a count of 2;
   the thread writes 3, the main thread writes 1 over it, so the copy is not counted.
   When the thread drops it the count comes to 0 and the session is freed, with the
   map still pointing to it.

What a passing property only claims under a condition, and why:

| condition | because |
|---|---|
| `WaitBounded`: the waiting queue may grow to twice its limit and one | `AddSession` adds the lengths of two queues read at different moments: it may miss all that the main thread has moved meanwhile from one to the other, and the session in its hands |
| `FoundById`: no reuse of descriptors | the descriptor is the id; it is free again before its session is removed from the map, and `insert` does not replace |
| `ClosedAreRemoved`: no hang-ups | the refresh of the key of a session whose descriptor was closed throws out of `Update` each time, before its timer is reset |
| `ClientReads`: no unsent position | `SetNextEncryption` takes effect after whichever packet is sent next, so the nonce may be sent encrypted |
| `ServerReads`: nothing typed | the client may send while its key changes (the code has a TODO) |
| `PacketsAreRead`, `KeysAgree`, `RefreshEnds`: no overlap | the test that should keep refreshes apart sees them for an instant only; the ends may then have different keys for good, or the client's numbers restart under the key it has |
| `Heard`: not `"hasty"` | a packet that shares an event with another stays unread until the next arrives |
| `InOrder` of `ReceivePath`: one network thread | two may queue two packets of a session in the wrong order |
| `InListedChannel`: the channel has a name | a channel without a name is never found, so a second one takes its place in the map |
| `ListsAgree`: no names that differ in case only | the client's list compares without case, the server with it |
| `ListsAgree`: no swapped packets | two network threads take packets of a session and send them in two steps (network-manager.cpp:42-46): the empty list of a leave (channel.cpp:80-82) may arrive after the list of the channel joined next, and the client shows an empty list while it is in a channel, until it enters a channel again. TLC shows this in 15 states when the excuse is taken away |
| `InOnePlace`: nothing cut or refused | such packets are read and dropped |
| `WindowTrue`, `LossShown`: not `"raced"`, `"late"`, `missed` | section 2.7 |
| `SocketUsable`: no refused connection | a connect that fails closes the socket and makes no new one, so no later attempt succeeds |
| `LossShown`: not `"silent"` | a client that closes for a bad packet keeps its status |
| `InTime`: the clock is not set, nothing is thrown | a clock set back wraps as `uint32`; an exception in `SessionManager::Update` takes the round from the sessions after it and from the tick |
| `InTime`: less than a millisecond a round, in either direction | microseconds are divided apart from the seconds; rounds are about a millisecond long, so the errors are not small beside them. What a timer overshoots its interval by is dropped (`SetCurrent(0)`) |

Further facts a maintainer may want, all visible in the models:
- Lines of about 48,000 to 65,000 bytes pass the client's check but are, encoded,
  longer than what the server accepts (it closes the connection) or than 16 bits
  hold (`InOrder` and `Told` of `Lines` name both).
- `..`, a lone `.`, and whispers that are abbreviated or in capitals are not shown as
  said; `.send...` and `.whispxyz` are shown as said or whispered, then refused.
  `.channel info` and `.channel kick` do nothing; `.channel leave` shows the help of
  `list` (`Commands`).
- `AesDecrypt` of garbage does not fail, as its results are compared with `< 0`; the
  results of `Packet::Encrypt` and `Decrypt` are ignored (sessionbase.cpp:137, 281).
- `Decapsulate` copies as many bytes as the header speaks of before it throws for
  those that are not there (packet.cpp:260).

## 6. What is not modelled

- Requests to send that hold up requests to receive in the queue they share, and what
  an exception in the accept loop does to other sessions: it drops the rest of a batch
  of events, and one of `epoll_ctl` leaves a session without any (for the session
  manager such a session is one that never receives).
- The order in which packets other than joins, leaves and lists of users reach a
  client: said texts may be swapped by two network threads just as well, and no
  property is stated about them.
- The start of the server, among it the loop that starts the network threads with an
  8-bit counter; the client's automatic connection when its window opens, which
  is a first connection made by another thread.
- A `counted_ptr` that is destroyed while it is being copied.
- Cryptography (OpenSSL, abstracted as seals, and as "garbage in, garbage out" in
  `Lines`), the database (one read-only query, a choice), configuration, logging,
  files, XML parsing, and the widgets of the interface: no control state.
- `server/command/chat_handler.cpp`: commented out of the build. Functions nobody
  calls: `ChannelManager::RemoveChannel`, `Channel::SetName`, most conversions of
  `ByteBuffer`.

## 7. The plan

Done: the components whose threads meet, on both sides, the pure code between
them, and a proof of each safety property. Left, in this order:

1. The start of both programs: the loop that starts the network threads, and the
   automatic connection of the client.
2. `WorkQueue` put in the place of `BlockingFifo` in `ChannelTick` and `ReceivePath`,
   so that the refinement is used and not only shown.
