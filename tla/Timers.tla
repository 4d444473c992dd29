------------------------------- MODULE Timers -------------------------------
(***************************************************************************)
(* The time of the server: the rounds of the main loop (ServerCore), the   *)
(* milliseconds it takes each round to have lasted, and the timers that    *)
(* add them up - the login timeout and the key refresh of a session and    *)
(* the tick of ChannelManager, all of them IntervalTimers.                 *)
(*                                                                         *)
(* diff is computed from the seconds and the microseconds apart, the       *)
(* latter divided with the truncation of C, and kept in a uint32.          *)
(* real and rounds, which the program does not have, say how long a timer  *)
(* has really run and in how many rounds.                                  *)
(***************************************************************************)
EXTENDS Integers

CONSTANTS MsPerSec, UsPerMs,    \* 1000 each
          UIntSize,             \* the number of values of diff, 2^32
          LoginTimeout,         \* configuration, in seconds
          KeyRefresh,           \* key_refresh_interval, in seconds
          MinLogin, MinRefresh, \* MIN_LOGIN_INTERVAL, MIN_REFRESH_KEY_INTERVAL
          TickInterval,         \* of ChannelManager, in milliseconds
          Longest,              \* bound: the longest round, in microseconds
          Steps,                \* by how much the clock may be set
          MaxClock              \* bound: the last reading of the clock

UsPerSec == MsPerSec * UsPerMs
ASSUME UnitsAssumption == MsPerSec \in Nat \ {0} /\ UsPerMs \in Nat \ {0}
ASSUME IntervalsAssumption == /\ LoginTimeout \in Int /\ KeyRefresh \in Int
                              /\ MinLogin \in Nat \ {0} /\ MinRefresh \in Nat \ {0}
                              /\ TickInterval \in Nat \ {0}
ASSUME ClockAssumption == /\ Longest \in Nat /\ UIntSize \in Nat \ {0} /\ Steps \subseteq Int
                          /\ MaxClock \in Int
                          /\ Longest + UsPerMs <= UsPerMs * UIntSize

VARIABLES
    clock,      \* what gettimeofday has last told the main loop (t1)
    status,     \* s_status
    open,       \* the session's socket is not closed
    changekeys, \* u_changekeys
    timer,      \* i_timer_keep_alive, i_timer_key and i_timer of ChannelManager
    real,       \* for how long each timer has run since it was last at 0
    rounds,     \* and in how many rounds
    fired,      \* the timers that have been found to have passed
    early,      \* and those of them that had really run for too short a time
    held,       \* u_changekeys was 1 when the key was last due
    past        \* what has happened that counts as an excuse

timersVars == <<clock, status, open, changekeys, timer, real, rounds, fired, early, held, past>>

Timer == {"login", "key", "tick"}

-----------------------------------------------------------------------------
(* IntervalTimer.                                                           *)
Update(t, diff) == [t EXCEPT !.current = IF @ + diff < 0 THEN 0 ELSE @ + diff]
Passed(t) == t.current >= t.interval
Reset(t) == [t EXCEPT !.current = IF @ >= t.interval THEN @ - t.interval ELSE @]
SetCurrent(t, current) == [t EXCEPT !.current = current]
SetInterval(t, interval) == [t EXCEPT !.interval = interval]

(* The interval of a configuration value.                                   *)
AtLeast(r, least) == MsPerSec * (IF r < least THEN least ELSE r)

(* The division of C, which rounds towards 0.                               *)
Quotient(n, d) == IF n < 0 THEN - ((-n) \div d) ELSE n \div d

Milliseconds(t1, t2) == ((t2 \div UsPerSec) - (t1 \div UsPerSec)) * MsPerSec
                        + Quotient((t2 % UsPerSec) - (t1 % UsPerSec), UsPerMs)
Diff(t1, t2) == Milliseconds(t1, t2) % UIntSize

-----------------------------------------------------------------------------
New(interval) == [interval |-> interval, current |-> 0]
Started(t, interval) == Reset(SetInterval(t, interval))

(* The session is constructed with the interval of its key timer, that of   *)
(* the login timer is set when the login starts.                            *)
FirstTimer(x) == IF x = "tick" THEN New(TickInterval)
                 ELSE IF x = "key" THEN Started(New(0), AtLeast(KeyRefresh, MinRefresh))
                 ELSE New(0)

TimersInit ==
    /\ clock \in 0 .. UsPerSec - 1
    /\ status = "connected" /\ open = TRUE /\ changekeys = 0
    /\ timer = [x \in Timer |-> FirstTimer(x)]
    /\ real = [x \in Timer |-> 0] /\ rounds = [x \in Timer |-> 0]
    /\ fired = {} /\ early = {}
    /\ held = FALSE /\ past = {}

(* The timer a session runs in its present state.                           *)
Runs(x) == \/ x = "login" /\ status \notin {"connected", "authenticated", "rejected"} /\ open
           \/ x = "key" /\ status = "authenticated" /\ open
           \/ x = "tick"

(* A round of the main loop: it has lasted d, since msleep(1) at least a    *)
(* millisecond, and meanwhile the clock may have been set by s.  What it    *)
(* throws leaves the loop in SessionManager::Update: an update of an        *)
(* earlier session throws, or the sending of this one's new key does.  The  *)
(* clock is set, or an exception thrown, once (bound).                      *)
Counts(diff, throws) ==
    {x \in Timer : /\ Runs(x)
                   /\ x = "tick" \/ diff # 0
                   /\ throws # "earlier" /\ (throws = "refresh" => x # "tick")}

Updated(diff, throws) == [x \in Timer |-> IF x \in Counts(diff, throws)
                                          THEN Update(timer[x], diff) ELSE timer[x]]
Due(diff, throws) == {x \in Counts(diff, throws) : Passed(Updated(diff, throws)[x])}

(* LoginTimer, GenerateNewKey and ChannelManager::Update for the timers that *)
(* have passed.  An exchange of keys that is going on holds up the next.    *)
Fires(diff, throws) == {x \in Due(diff, throws) : x = "key" => changekeys # 1}
Zeroed_TickOnly(diff, throws) == Fires(diff, throws) \ {"login", "key"}
Zeroed(diff, throws) == Fires(diff, throws) \ (IF throws = "refresh" THEN {"login", "key"} ELSE {"login"})

Elapse(d, diff, throws) ==
    LET zeroed == Zeroed(diff, throws) IN
    /\ timer' = [x \in Timer |-> IF x \in zeroed THEN SetCurrent(Updated(diff, throws)[x], 0)
                                 ELSE Updated(diff, throws)[x]]
    /\ real' = [x \in Timer |-> IF x \in zeroed THEN 0
                                ELSE IF Runs(x) THEN real[x] + d ELSE real[x]]
    /\ rounds' = [x \in Timer |-> IF x \in zeroed THEN 0
                                  ELSE IF Runs(x) THEN rounds[x] + 1 ELSE rounds[x]]

(* The timer has run for less than its interval by more than the error.     *)
Slack == UsPerMs - 1
TooShort(x, d) == real[x] + d + Slack * (rounds[x] + 1) < UsPerMs * timer[x].interval

Round(d, s, throws) ==
    LET diff == Diff(clock, clock + d + s)
        fires == Fires(diff, throws)
    IN /\ clock + d + s \in 0 .. MaxClock
       /\ past # {} => s = 0 /\ throws = "no"
       /\ throws = "refresh" => "key" \in fires
       /\ clock' = clock + d + s
       /\ Elapse(d, diff, throws)
       /\ fired' = fired \cup fires
       /\ early' = early \cup {x \in fires : TooShort(x, d)}
       /\ status' = IF "login" \in fires THEN "rejected" ELSE status
       /\ open' = (open /\ "login" \notin fires)
       /\ changekeys' = IF "key" \in fires THEN 0 ELSE changekeys
       /\ held' = ("key" \notin fires /\ (held \/ "key" \in Due(diff, throws)))
       /\ past' = past \cup (IF s # 0 THEN {"set"} ELSE {})
                       \cup (IF throws # "no" THEN {"threw"} ELSE {})

(* The login: its first message, its success and its failure.               *)
Greet == /\ open /\ status = "connected"
         /\ status' = "login"
         /\ timer' = [timer EXCEPT !["login"] = Started(@, AtLeast(LoginTimeout, MinLogin))]
         /\ UNCHANGED <<clock, open, changekeys, real, rounds, fired, early, held, past>>

Authenticate == /\ open /\ status = "login"
                /\ status' = "authenticated"
                /\ UNCHANGED <<clock, open, changekeys, timer, real, rounds, fired, early, held, past>>

Reject == /\ open /\ status = "login"
          /\ status' = "rejected"
          /\ UNCHANGED <<clock, open, changekeys, timer, real, rounds, fired, early, held, past>>

(* The client answers to a new key (HandleRefreshKey), perhaps in a worker: *)
(* until its reply is sent the exchange counts as going on.                 *)
Answer == /\ open /\ status = "authenticated" /\ "key" \in fired
          /\ changekeys = 0 /\ changekeys' = 1
          /\ UNCHANGED <<clock, status, open, timer, real, rounds, fired, early, held, past>>

Sent == /\ changekeys = 1 /\ changekeys' = 2
        /\ UNCHANGED <<clock, status, open, timer, real, rounds, fired, early, held, past>>

HangUp == /\ open /\ open' = FALSE
          /\ UNCHANGED <<clock, status, changekeys, timer, real, rounds, fired, early, held, past>>

TimersNext ==
    \/ \E d \in UsPerMs .. Longest, s \in {0} \cup Steps, throws \in {"no", "earlier", "refresh"} :
           Round(d, s, throws)
    \/ Greet \/ Authenticate \/ Reject \/ Answer \/ Sent \/ HangUp

TimersSpec == TimersInit /\ [][TimersNext]_timersVars

-----------------------------------------------------------------------------
TimersTypeOK ==
    /\ clock \in Int
    /\ status \in {"connected", "login", "authenticated", "rejected"}
    /\ open \in BOOLEAN /\ held \in BOOLEAN /\ changekeys \in 0 .. 2
    /\ timer \in [Timer -> [interval : Nat, current : Nat]]
    /\ real \in [Timer -> Nat] /\ rounds \in [Timer -> Nat]
    /\ fired \subseteq Timer /\ early \subseteq fired
    /\ past \subseteq {"set", "threw"}

(* The timers keep real time, each round less than a millisecond off:       *)
(* unless the clock has been set or an exception has left a round early, no *)
(* one is kicked, no key is changed and no channel is updated sooner than   *)
(* the interval less a millisecond for each round, and none of it is        *)
(* overdue by more than a millisecond for each round; the key of a session  *)
(* may be, while an exchange was going on when it was due.                  *)
InTime ==
    past = {} =>
        /\ early = {}
        /\ \A x \in Timer : Runs(x) /\ ~(x = "key" /\ held)
              => real[x] < UsPerMs * timer[x].interval + Slack * rounds[x]
=============================================================================
