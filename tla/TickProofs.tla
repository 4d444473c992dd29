----------------------------- MODULE TickProofs -----------------------------
(***************************************************************************)
(* Proofs about what a tick of the main loop does to the channels and the  *)
(* sessions' timers: about ChannelTick, for any finite set of channels,    *)
(* any number of worker threads and any number of ticks, and about Timers, *)
(* for every unit, interval and configuration.                             *)
(*                                                                         *)
(* The count of pending requests is a size_t.  That it never wraps below   *)
(* zero is what PendingExact is about; that it never wraps above needs     *)
(* Outstanding, the bound on the requests that exist at a time.            *)
(***************************************************************************)
EXTENDS ChannelTick, Timers, FiniteSetTheorems, TLAPS

-----------------------------------------------------------------------------
(* Types.                                                                   *)

\* A worker that is moving a session to the channel it has created knows which.
BornKnown == \A t \in Threads : wpc[t] \in {"creating", "moving"} => born[t] \in Channels

Typed == TypeOK /\ BornKnown

LEMMA CounterTypes ==
  /\ SizeMax \in Nat /\ 0 \in 0..SizeMax /\ 0 \in 0..MaxTicks
  /\ \A n \in 0..SizeMax : Increment(n) \in 0..SizeMax /\ Decrement(n) \in 0..SizeMax
BY BoundsAssumption DEF Increment, Decrement

LEMMA TypeInit == Init => Typed
<1> SUFFICES ASSUME Init PROVE Typed
  OBVIOUS
<1> USE DEF Init
<1>1. channels \subseteq Channels /\ occupied \subseteq Channels /\ todo \subseteq Channels
  OBVIOUS
<1>2. mpc \in MainPC /\ wpc \in [Threads -> WorkerPC]
  BY DEF MainPC, WorkerPC
<1>3. /\ upd \in [Threads -> Channels \cup {NoChannel}]
      /\ born \in [Threads -> Channels \cup {NoChannel}]
      /\ fifo \in Seq(Channels)
  OBVIOUS
<1>4. pending \in 0..SizeMax /\ sem \in Nat /\ active \in BOOLEAN /\ ticks \in 0..MaxTicks
  BY CounterTypes
<1>5. BornKnown
  BY DEF BornKnown
<1> QED BY <1>1, <1>2, <1>3, <1>4, <1>5 DEF Typed, TypeOK

LEMMA TypeStep == Typed /\ [Next]_vars => Typed'
<1> SUFFICES ASSUME Typed, [Next]_vars PROVE Typed'
  OBVIOUS
<1> USE DEF Typed, TypeOK, BornKnown, MainPC, WorkerPC
<1>0. Default \in Channels /\ NoChannel \notin Channels
  BY ChannelsAssumption
<1>1. ASSUME NEW c \in Channels, EnterChannel(c) PROVE Typed'
  BY <1>0, <1>1 DEF EnterChannel, work, updater
<1>2. ASSUME NEW c \in Channels, VacateChannel(c) PROVE Typed'
  BY <1>2 DEF VacateChannel, work, updater
<1>3. ASSUME NEW c \in Channels, CreateByMain(c) PROVE Typed'
  BY <1>3 DEF CreateByMain, work, updater
<1>4. CASE StartTick
  BY <1>4, BoundsAssumption DEF StartTick, chan, work, updater
<1>5. CASE ScheduleExecute
  BY <1>5 DEF ScheduleExecute, chan, updater
<1>6. CASE ScheduleCount
  <2>1. pending' \in 0..SizeMax
    BY <1>6, CounterTypes DEF ScheduleCount
  <2> QED BY <1>6, <2>1 DEF ScheduleCount, chan, work
<1>7. CASE Wait
  <2>1. sem' \in Nat
    BY <1>7 DEF Wait
  <2> QED BY <1>7, <2>1 DEF Wait, chan, work
<1>8. CASE KeepChannel
  BY <1>8 DEF KeepChannel, chan, work, updater
<1>9. CASE DropChannel
  BY <1>9 DEF DropChannel, work, updater
<1>10. CASE EndTick
  BY <1>10 DEF EndTick, chan, work, updater
<1>11. ASSUME NEW t \in Threads, TakeRequest(t) PROVE Typed'
  <2>1. Head(fifo) \in Channels /\ Tail(fifo) \in Seq(Channels)
    BY <1>11 DEF TakeRequest
  <2> QED BY <1>11, <2>1 DEF TakeRequest, chan, updater
<1>12. ASSUME NEW t \in Threads, NEW c \in Channels, CreateByWorker(t, c) PROVE Typed'
  <2>1. todo' \subseteq Channels /\ channels' \subseteq Channels /\ mpc' \in MainPC
    BY <1>12 DEF CreateByWorker, List
  <2> QED BY <1>12, <2>1 DEF CreateByWorker, updater
<1>13. ASSUME NEW t \in Threads, LeaveOld(t) PROVE Typed'
  BY <1>13 DEF LeaveOld, updater
<1>14. ASSUME NEW t \in Threads, EnterBorn(t) PROVE Typed'
  <2>1. born[t] \in Channels
    BY <1>14 DEF EnterBorn
  <2> QED BY <1>14, <2>1 DEF EnterBorn, updater
<1>15. ASSUME NEW t \in Threads, UpdateReturns(t) PROVE Typed'
  BY <1>15 DEF UpdateReturns, chan, updater
<1>16. ASSUME NEW t \in Threads, UpdateFinished(t) PROVE Typed'
  <2>1. pending' \in 0..SizeMax
    BY <1>16, CounterTypes DEF UpdateFinished
  <2>2. sem' \in Nat
    BY <1>16 DEF UpdateFinished
  <2> QED BY <1>16, <2>1, <2>2 DEF UpdateFinished, chan
<1>17. CASE UNCHANGED vars
  BY <1>17 DEF vars, chan, work, updater
<1> QED BY <1>1, <1>2, <1>3, <1>4, <1>5, <1>6, <1>7, <1>8, <1>9, <1>10, <1>11,
           <1>12, <1>13, <1>14, <1>15, <1>16, <1>17
        DEF Next, Handlers, Tick, Work

-----------------------------------------------------------------------------
(* The count of pending requests.                                           *)

Requests == Len(fifo) + Cardinality(Busy)

\* There are never more requests than the memory holds, so that the count of
\* them does not wrap above.
Outstanding == Running => Requests =< MaxRequests

IInv == Typed /\ PendingExact /\ Outstanding /\ WaitIsSignalled

\* How a worker that starts, goes on or ends changes the number of busy ones.
BusyOf(w) == {t \in Threads : w[t] # "free"}

LEMMA BusyFinite ==
  ASSUME NEW w
  PROVE  IsFiniteSet(BusyOf(w)) /\ Cardinality(BusyOf(w)) \in Nat
<1>1. BusyOf(w) \subseteq Threads
  BY DEF BusyOf
<1>2. IsFiniteSet(BusyOf(w))
  BY <1>1, ThreadsAssumption, FS_Subset
<1> QED BY <1>2, FS_CardinalityType

LEMMA BusyMove ==
  ASSUME NEW w \in [Threads -> WorkerPC], NEW t \in Threads,
         NEW v \in [Threads -> WorkerPC], NEW p \in WorkerPC,
         v = [w EXCEPT ![t] = p]
  PROVE  /\ w[t] = "free" /\ p # "free" =>
              Cardinality(BusyOf(v)) = Cardinality(BusyOf(w)) + 1
         /\ w[t] # "free" /\ p = "free" =>
              /\ Cardinality(BusyOf(v)) = Cardinality(BusyOf(w)) - 1
              /\ Cardinality(BusyOf(w)) >= 1
         /\ w[t] # "free" /\ p # "free" => BusyOf(v) = BusyOf(w)
<1>0. v[t] = p /\ \A u \in Threads : u # t => v[u] = w[u]
  OBVIOUS
<1>1. ASSUME w[t] = "free", p # "free"
      PROVE  Cardinality(BusyOf(v)) = Cardinality(BusyOf(w)) + 1
  <2>1. BusyOf(v) = BusyOf(w) \cup {t} /\ t \notin BusyOf(w)
    BY <1>0, <1>1 DEF BusyOf
  <2> QED BY <2>1, BusyFinite, FS_AddElement
<1>2. ASSUME w[t] # "free", p = "free"
      PROVE  /\ Cardinality(BusyOf(v)) = Cardinality(BusyOf(w)) - 1
             /\ Cardinality(BusyOf(w)) >= 1
  <2>1. BusyOf(w) = BusyOf(v) \cup {t} /\ t \notin BusyOf(v)
    BY <1>0, <1>2 DEF BusyOf
  <2>2. Cardinality(BusyOf(w)) = Cardinality(BusyOf(v)) + 1
    BY <2>1, BusyFinite, FS_AddElement, ZenonT(60)
  <2> QED BY <2>2, BusyFinite
<1>3. ASSUME w[t] # "free", p # "free" PROVE BusyOf(v) = BusyOf(w)
  BY <1>0, <1>3 DEF BusyOf
<1> QED BY <1>1, <1>2, <1>3

LEMMA CountInit == Init => IInv
<1> SUFFICES ASSUME Init PROVE IInv
  OBVIOUS
<1>1. Busy = {}
  BY DEF Init, Busy
<1>2. Cardinality(Busy) = 0 /\ Len(fifo) = 0
  BY <1>1, FS_EmptySet DEF Init
<1> QED BY <1>2, TypeInit, BoundsAssumption
        DEF Init, IInv, PendingExact, Outstanding, WaitIsSignalled, Requests

LEMMA CountStep == IInv /\ [Next]_vars => IInv'
<1> SUFFICES ASSUME IInv, [Next]_vars PROVE (PendingExact /\ Outstanding /\ WaitIsSignalled)'
  BY TypeStep DEF IInv
<1>0. /\ Len(fifo) \in Nat /\ Cardinality(Busy) \in Nat
      /\ pending \in 0..SizeMax /\ pending \in Nat /\ sem \in Nat
      /\ SizeMax \in Nat /\ MaxRequests \in Nat /\ MaxRequests =< SizeMax
  <2>1. Busy = BusyOf(wpc)
    BY DEF Busy, BusyOf
  <2> QED BY <2>1, BusyFinite, BoundsAssumption DEF IInv, Typed, TypeOK
<1> USE DEF PendingExact, Outstanding, WaitIsSignalled, Requests, Running
<1> DEFINE Totals == <<fifo, wpc, pending, sem>>
\* The steps that only move the program counter of the main thread, or end it.
<1>1. ASSUME UNCHANGED Totals, active' => active,
             mpc' = "locked" <=> mpc = "locked", mpc = "crashed" => mpc' = "crashed"
      PROVE  (PendingExact /\ Outstanding /\ WaitIsSignalled)'
  BY <1>1 DEF IInv, Busy
\* The steps of a worker within a request, which may end the main thread.
<1>2. ASSUME NEW t \in Threads, NEW p \in WorkerPC,
             wpc[t] # "free", p # "free", wpc' = [wpc EXCEPT ![t] = p],
             UNCHANGED <<fifo, updater>>, mpc' = mpc \/ mpc' = "crashed"
      PROVE  (PendingExact /\ Outstanding /\ WaitIsSignalled)'
  <2>1. wpc \in [Threads -> WorkerPC] /\ wpc' \in [Threads -> WorkerPC]
    BY <1>2 DEF IInv, Typed, TypeOK
  <2>2. BusyOf(wpc') = BusyOf(wpc)
    BY <1>2, <2>1, BusyMove
  <2>3. Busy' = Busy
    BY <2>2 DEF Busy, BusyOf
  <2> QED BY <1>2, <2>3 DEF IInv, updater
<1>3. ASSUME Handlers PROVE (PendingExact /\ Outstanding /\ WaitIsSignalled)'
  BY <1>3, <1>1 DEF Handlers, EnterChannel, VacateChannel, CreateByMain, work, updater
<1>4. CASE StartTick
  BY <1>4, <1>1 DEF StartTick, work, updater
<1>5. CASE ScheduleExecute
  <2>1. Len(fifo') = Len(fifo) + 1
    BY <1>5 DEF ScheduleExecute, IInv, Typed, TypeOK
  <2>2. Busy' = Busy
    BY <1>5 DEF ScheduleExecute, Busy
  <2> QED BY <1>0, <1>5, <2>1, <2>2 DEF ScheduleExecute, IInv, updater
<1>6. CASE ScheduleCount
  <2>1. Busy' = Busy
    BY <1>6 DEF ScheduleCount, Busy, work
  <2>2. Requests = pending + 1 /\ Requests =< MaxRequests
    BY <1>6 DEF ScheduleCount, IInv
  <2>3. pending' = pending + 1
    BY <1>0, <1>6, <2>2 DEF ScheduleCount, Increment
  <2> QED BY <1>0, <1>6, <2>1, <2>2, <2>3 DEF ScheduleCount, IInv, work
<1>7. CASE Wait
  <2>1. Busy' = Busy
    BY <1>7 DEF Wait, Busy, work
  <2> QED BY <1>0, <1>7, <2>1 DEF Wait, IInv, work
<1>8. CASE KeepChannel
  BY <1>8, <1>1 DEF KeepChannel, work, updater
<1>9. CASE DropChannel
  BY <1>9, <1>1 DEF DropChannel, work, updater
<1>10. CASE EndTick
  BY <1>10, <1>1 DEF EndTick, work, updater
<1>11. ASSUME NEW t \in Threads, TakeRequest(t)
       PROVE  (PendingExact /\ Outstanding /\ WaitIsSignalled)'
  <2>1. Len(fifo') = Len(fifo) - 1 /\ Len(fifo) >= 1
    BY <1>11 DEF TakeRequest, IInv, Typed, TypeOK
  <2>2. wpc \in [Threads -> WorkerPC] /\ wpc' \in [Threads -> WorkerPC]
    BY <1>11 DEF TakeRequest, IInv, Typed, TypeOK, WorkerPC
  <2>3. Cardinality(BusyOf(wpc')) = Cardinality(BusyOf(wpc)) + 1
    BY <1>11, <2>2, BusyMove DEF TakeRequest, WorkerPC
  <2>4. Cardinality(Busy') = Cardinality(Busy) + 1
    BY <2>3 DEF Busy, BusyOf
  <2>5. Len(fifo') + Cardinality(Busy') = Len(fifo) + Cardinality(Busy)
    BY <1>0, <2>1, <2>4
  <2>6. mpc' = mpc \/ mpc' = "crashed"
    BY <1>11 DEF TakeRequest
  <2> QED BY <1>11, <2>5, <2>6 DEF TakeRequest, IInv, updater
<1>12. ASSUME NEW t \in Threads, NEW c \in Channels, CreateByWorker(t, c)
       PROVE  (PendingExact /\ Outstanding /\ WaitIsSignalled)'
  BY <1>12, <1>2 DEF CreateByWorker, List, WorkerPC
<1>13. ASSUME NEW t \in Threads, LeaveOld(t)
       PROVE  (PendingExact /\ Outstanding /\ WaitIsSignalled)'
  BY <1>13, <1>2 DEF LeaveOld, WorkerPC
<1>14. ASSUME NEW t \in Threads, EnterBorn(t)
       PROVE  (PendingExact /\ Outstanding /\ WaitIsSignalled)'
  BY <1>14, <1>2 DEF EnterBorn, WorkerPC
<1>15. ASSUME NEW t \in Threads, UpdateReturns(t)
       PROVE  (PendingExact /\ Outstanding /\ WaitIsSignalled)'
  BY <1>15, <1>2 DEF UpdateReturns, WorkerPC
<1>16. ASSUME NEW t \in Threads, UpdateFinished(t)
       PROVE  (PendingExact /\ Outstanding /\ WaitIsSignalled)'
  <2>1. wpc \in [Threads -> WorkerPC] /\ wpc' \in [Threads -> WorkerPC]
    BY <1>16 DEF UpdateFinished, IInv, Typed, TypeOK, WorkerPC
  <2>2. Cardinality(BusyOf(wpc')) = Cardinality(BusyOf(wpc)) - 1
        /\ Cardinality(BusyOf(wpc)) >= 1
    BY <1>16, <2>1, BusyMove DEF UpdateFinished, WorkerPC
  <2>3. Cardinality(Busy') = Cardinality(Busy) - 1 /\ Cardinality(Busy) >= 1
    BY <2>2 DEF Busy, BusyOf
  <2>4. pending = Len(fifo) + Cardinality(Busy)
    BY <1>0, <1>16 DEF UpdateFinished, IInv
  <2>5. pending' = pending - 1
    BY <1>0, <1>16, <2>3, <2>4 DEF UpdateFinished, Decrement
  <2>6. pending' > 0 \/ sem' > 0
    BY <1>0, <1>16, <2>3, <2>4, <2>5 DEF UpdateFinished
  <2> QED BY <1>0, <1>16, <2>3, <2>4, <2>5, <2>6 DEF UpdateFinished, IInv
<1>17. CASE UNCHANGED vars
  BY <1>17, <1>1 DEF vars, chan, work, updater
<1> QED BY <1>3, <1>4, <1>5, <1>6, <1>7, <1>8, <1>9, <1>10, <1>11,
           <1>12, <1>13, <1>14, <1>15, <1>16, <1>17
        DEF Next, Tick, Work

-----------------------------------------------------------------------------
(* The theorems.                                                            *)

LEMMA Inductive == Spec => []IInv
<1>1. Init => IInv
  BY CountInit
<1>2. IInv /\ [Next]_vars => IInv'
  BY CountStep
<1> QED BY <1>1, <1>2, PTL DEF Spec

\* Every variable of the tick keeps its type: the size_t of ChannelUpdater stays
\* in its range, the counter of the semaphore never becomes negative.
THEOREM Typing == Spec => []TypeOK
<1>1. IInv => TypeOK
  BY DEF IInv, Typed
<1> QED BY <1>1, Inductive, PTL

\* ChannelUpdater::pending_requests counts the requests that are queued or being
\* executed, whatever the workers finish before the main thread has counted it.
THEOREM PendingIsExact == Spec => []PendingExact
<1>1. IInv => PendingExact
  BY DEF IInv
<1> QED BY <1>1, Inductive, PTL

\* ChannelUpdater::Wait never blocks for a signal that no worker owes it.
THEOREM WaitIsAlwaysSignalled == Spec => []WaitIsSignalled
<1>1. IInv => WaitIsSignalled
  BY DEF IInv
<1> QED BY <1>1, Inductive, PTL

-----------------------------------------------------------------------------
(* The timers keep real time to less than a millisecond a round (InTime).   *)


-----------------------------------------------------------------------------
(* Arithmetic.                                                              *)

(* Products distribute over sums and keep the order.                        *)
LEMMA Distributes ==
    ASSUME NEW a \in Int, NEW b \in Int, NEW c \in Int
    PROVE  a * (b + c) = a * b + a * c
    BY SMT

LEMMA Grows ==
    ASSUME NEW a \in Nat, NEW b \in Int, NEW c \in Int, b <= c
    PROVE  a * b <= a * c
    BY SMT

(* Division: the remainder is less than the divisor.                        *)
LEMMA Division ==
    ASSUME NEW n \in Int, NEW d \in Nat \ {0}
    PROVE  /\ n \div d \in Int /\ n % d \in 0 .. d - 1
           /\ n = d * (n \div d) + (n % d)
    BY SMT

(* The division of C is less than a unit off in either direction.           *)
LEMMA QuotientBound ==
    ASSUME NEW n \in Int, NEW d \in Nat \ {0}
    PROVE  /\ Quotient(n, d) \in Int
           /\ d * Quotient(n, d) <= n + (d - 1)
           /\ n <= d * Quotient(n, d) + (d - 1)
<1>1. CASE n < 0
    <2>. DEFINE m == -n
    <2>1. m \in Int /\ Quotient(n, d) = - (m \div d)
        BY <1>1 DEF Quotient
    <2>2. m \div d \in Int /\ m % d \in 0 .. d - 1 /\ m = d * (m \div d) + (m % d)
        BY <2>1, Division
    <2>3. d * (- (m \div d)) = - (d * (m \div d))
        <3>. HIDE DEF m
        <3>. QED BY <2>2, SMT
    <2>. QED BY <2>1, <2>2, <2>3
<1>2. CASE ~(n < 0)
    <2>1. Quotient(n, d) = n \div d
        BY <1>2 DEF Quotient
    <2>2. n \div d \in Int /\ n % d \in 0 .. d - 1 /\ n = d * (n \div d) + (n % d)
        BY Division
    <2>. HIDE DEF Quotient
    <2>. QED BY <2>1, <2>2
<1>. QED BY <1>1, <1>2

(* What a round takes for its milliseconds, in microseconds, is less than a *)
(* millisecond off.                                                         *)
LEMMA MillisecondsBound ==
    ASSUME NEW t1 \in Int, NEW t2 \in Int
    PROVE  /\ Milliseconds(t1, t2) \in Int
           /\ UsPerMs * Milliseconds(t1, t2) <= (t2 - t1) + Slack
           /\ t2 - t1 <= UsPerMs * Milliseconds(t1, t2) + Slack
<1>. DEFINE U == UsPerMs
            S == UsPerSec
            secs == (t2 \div S) - (t1 \div S)
            usecs == (t2 % S) - (t1 % S)
            q == Quotient(usecs, U)
<1>1. U \in Nat \ {0} /\ MsPerSec \in Nat \ {0} /\ S = MsPerSec * U
    BY UnitsAssumption DEF UsPerSec
<1>2. S \in Nat \ {0}
    <2>. HIDE DEF U, S
    <2>. QED BY <1>1, SMT
<1>3. /\ t1 \div S \in Int /\ t1 % S \in 0 .. S - 1 /\ t1 = S * (t1 \div S) + (t1 % S)
      /\ t2 \div S \in Int /\ t2 % S \in 0 .. S - 1 /\ t2 = S * (t2 \div S) + (t2 % S)
    <2>. HIDE DEF S
    <2>. QED BY <1>2, Division
<1>4. secs \in Int /\ usecs \in Int
    BY <1>2, <1>3
<1>5. t2 - t1 = S * secs + usecs
    <2>. DEFINE a == t1 \div S
                b == t2 \div S
                u == t1 % S
                v == t2 % S
    <2>1. S \in Int /\ a \in Int /\ b \in Int /\ u \in Int /\ v \in Int /\ t1 = S * a + u /\ t2 = S * b + v
        BY <1>2, <1>3
    <2>2. S * (b - a) = S * b - S * a
        <3>. HIDE DEF S, a, b
        <3>. QED BY <2>1, SMT
    <2>. HIDE DEF S, a, b, u, v
    <2>3. t2 - t1 = S * (b - a) + (v - u)
        BY <2>1, <2>2, SMT
    <2>. QED BY <2>3 DEF a, b, u, v
<1>6. /\ q \in Int /\ U * q <= usecs + (U - 1) /\ usecs <= U * q + (U - 1)
    <2>. HIDE DEF U, usecs
    <2>. QED BY <1>1, <1>4, QuotientBound
<1>7. Milliseconds(t1, t2) = secs * MsPerSec + q
    BY DEF Milliseconds
<1>8. U * Milliseconds(t1, t2) = S * secs + U * q
    <2>. HIDE DEF U, S, secs, q
    <2>1. secs * MsPerSec \in Int
        BY <1>1, <1>4
    <2>2. U * (secs * MsPerSec + q) = U * (secs * MsPerSec) + U * q
        BY <2>1, <1>1, <1>6, Distributes
    <2>3. U * (secs * MsPerSec) = (MsPerSec * U) * secs
        BY <1>1, <1>4, SMT
    <2>. QED BY <2>2, <2>3, <1>7, <1>1
<1>. HIDE DEF U, S, secs, usecs, q
<1>9. Milliseconds(t1, t2) \in Int
    BY <1>7, <1>4, <1>6, <1>1
<1>10. S * secs \in Int /\ U * q \in Int
    BY <1>1, <1>2, <1>4, <1>6
<1>11. /\ U * Milliseconds(t1, t2) <= (t2 - t1) + (U - 1)
       /\ t2 - t1 <= U * Milliseconds(t1, t2) + (U - 1)
    BY <1>1, <1>4, <1>5, <1>6, <1>8, <1>10
<1>. QED BY <1>9, <1>11 DEF U, Slack

(* While the clock is not set, a round counts at least one millisecond, so  *)
(* that "if (!diff) return" never loses any, and its uint32 holds them.     *)
LEMMA RoundCounts ==
    ASSUME NEW t \in Int, NEW d \in UsPerMs .. Longest
    PROVE  /\ Diff(t, t + d) \in Nat \ {0}
           /\ UsPerMs * Diff(t, t + d) <= d + Slack
           /\ d <= UsPerMs * Diff(t, t + d) + Slack
<1>. DEFINE m == Milliseconds(t, t + d)
            U == UsPerMs
<1>1. U \in Nat \ {0} /\ UIntSize \in Nat \ {0} /\ Longest \in Nat /\ Longest + U <= U * UIntSize /\ d \in Int /\ U <= d /\ d <= Longest
    BY UnitsAssumption, ClockAssumption
<1>2. m \in Int /\ U * m <= d + (U - 1) /\ d <= U * m + (U - 1)
    <2>1. t + d \in Int /\ (t + d) - t = d
        BY <1>1
    <2>. QED BY <2>1, MillisecondsBound DEF Slack
<1>. HIDE DEF m, U
<1>3. m >= 1
    <2>. SUFFICES ASSUME m <= 0 PROVE FALSE
        BY <1>2
    <2>1. U * m <= U * 0
        BY <1>1, <1>2, Grows
    <2>. QED BY <2>1, <1>1, <1>2
<1>4. m < UIntSize
    <2>. SUFFICES ASSUME UIntSize <= m PROVE FALSE
        BY <1>1, <1>2
    <2>1. U * UIntSize <= U * m
        BY <1>1, <1>2, Grows
    <2>2. U * UIntSize \in Int /\ U * m \in Int
        BY <1>1, <1>2
    <2>. QED BY <2>1, <2>2, <1>1, <1>2
<1>5. m % UIntSize = m
    BY <1>1, <1>2, <1>3, <1>4, SMT
<1>6. Diff(t, t + d) = m
    BY <1>5 DEF Diff, m
<1>. QED BY <1>2, <1>3, <1>6 DEF U, Slack

-----------------------------------------------------------------------------
(* The inductive invariant.                                                 *)

(* What a timer shows is off by less than a millisecond a round.            *)
Near(x) == /\ real[x] <= UsPerMs * timer[x].current + Slack * rounds[x]
           /\ UsPerMs * timer[x].current <= real[x] + Slack * rounds[x]

(* A timer that has never run.                                              *)
Idle(x) == timer[x].current = 0 /\ real[x] = 0 /\ rounds[x] = 0

HasInterval(x) == Runs(x) \/ x = "key" => timer[x].interval > 0

NotStarted == /\ status = "connected" => Idle("login")
              /\ status \in {"connected", "login"} => Idle("key")

(* A running timer has not passed: had it, the last round would have found. *)
NotPassed(x) == Runs(x) /\ ~(x = "key" /\ held) => timer[x].current < timer[x].interval

Keeps == past = {} => /\ early = {}
                      /\ \A x \in Timer : Near(x) /\ NotPassed(x)

TimersIInv ==
    /\ TimersTypeOK
    /\ \A x \in Timer : HasInterval(x)
    /\ NotStarted
    /\ Keeps

-----------------------------------------------------------------------------
(* The invariant holds at first and is kept by every action.                *)

LEMMA UnitsFact == UsPerMs \in Nat \ {0} /\ Slack \in Nat /\ Slack = UsPerMs - 1
    BY UnitsAssumption DEF Slack

LEMMA AtLeastFact ==
    ASSUME NEW r \in Int, NEW least \in Nat \ {0}
    PROVE  AtLeast(r, least) \in Nat \ {0}
<1>. DEFINE m == IF r < least THEN least ELSE r
<1>1. m \in Nat \ {0} /\ MsPerSec \in Nat \ {0}
    BY UnitsAssumption
<1>. HIDE DEF m
<1>2. MsPerSec * m \in Nat \ {0}
    BY <1>1, SMT
<1>. QED BY <1>2 DEF AtLeast, m

(* A timer that shows 0 starts from 0 with its interval.                    *)
LEMMA StartedFact ==
    ASSUME NEW t \in [interval : Nat, current : Nat], t.current = 0, NEW interval \in Nat \ {0}
    PROVE  Started(t, interval) = [interval |-> interval, current |-> 0]
<1>1. SetInterval(t, interval) = [interval |-> interval, current |-> 0]
    BY DEF SetInterval
<1>2. Reset([interval |-> interval, current |-> 0]) = [interval |-> interval, current |-> 0]
    BY DEF Reset
<1>. QED BY <1>1, <1>2 DEF Started

LEMMA TimersStart == TimersInit => TimersIInv
<1>. SUFFICES ASSUME TimersInit PROVE TimersIInv
    OBVIOUS
<1>1. /\ clock \in Int /\ UsPerMs \in Int /\ Slack \in Int
      /\ TickInterval \in Nat \ {0}
    BY UnitsFact, UnitsAssumption, IntervalsAssumption DEF TimersInit, UsPerSec
<1>0. /\ \A x \in Timer : FirstTimer(x) \in [interval : Nat, current : Nat] /\ FirstTimer(x).current = 0
      /\ FirstTimer("key").interval > 0 /\ FirstTimer("tick").interval > 0
    <2>1. AtLeast(KeyRefresh, MinRefresh) \in Nat \ {0}
        BY AtLeastFact, IntervalsAssumption
    <2>2. New(0) \in [interval : Nat, current : Nat] /\ New(0).current = 0
        BY DEF New
    <2>3. FirstTimer("key") = [interval |-> AtLeast(KeyRefresh, MinRefresh), current |-> 0]
        BY <2>1, <2>2, StartedFact DEF FirstTimer
    <2>4. FirstTimer("tick") = [interval |-> TickInterval, current |-> 0]
        BY DEF FirstTimer, New
    <2>5. FirstTimer("login") = [interval |-> 0, current |-> 0]
        BY DEF FirstTimer, New
    <2>. QED BY <1>1, <2>1, <2>3, <2>4, <2>5 DEF Timer
<1>2. \A x \in Timer : timer[x] = FirstTimer(x) /\ real[x] = 0 /\ rounds[x] = 0
    BY DEF TimersInit
<1>3. TimersTypeOK
    <2>1. timer \in [Timer -> [interval : Nat, current : Nat]]
        BY <1>0 DEF TimersInit
    <2>2. real \in [Timer -> Nat] /\ rounds \in [Timer -> Nat]
        BY DEF TimersInit
    <2>3. status \in {"connected", "login", "authenticated", "rejected"} /\ changekeys \in 0 .. 2
        BY DEF TimersInit
    <2>4. open \in BOOLEAN /\ held \in BOOLEAN
        BY DEF TimersInit
    <2>5. fired \subseteq Timer /\ early \subseteq fired /\ past \subseteq {"set", "threw"}
        BY DEF TimersInit
    <2>. QED BY <1>1, <2>1, <2>2, <2>3, <2>4, <2>5 DEF TimersTypeOK
<1>4. \A x \in Timer : /\ timer[x].current = 0 /\ real[x] = 0 /\ rounds[x] = 0
                       /\ Runs(x) => x = "tick"
    BY <1>0, <1>2 DEF Runs, TimersInit
<1>5. \A x \in Timer : HasInterval(x) /\ NotPassed(x)
    BY <1>0, <1>2, <1>4 DEF HasInterval, NotPassed
<1>6. \A x \in Timer : Near(x)
    <2>1. UsPerMs * 0 = 0 /\ Slack * 0 = 0
        BY <1>1
    <2>. QED BY <1>4, <2>1 DEF Near
<1>7. NotStarted
    BY <1>4 DEF NotStarted, Idle, Timer
<1>. QED BY <1>3, <1>5, <1>6, <1>7 DEF TimersIInv, Keeps, TimersInit

(* Steps that change no timer and start none but those that have never run  *)
(* keep what the timers show.                                               *)
LEMMA StepsKeepTimers ==
    ASSUME TimersIInv, UNCHANGED <<real, rounds, early, held, past>>,
           \A y \in Timer : /\ timer'[y] = timer[y]
                            /\ Runs(y)' => Runs(y) \/ (Idle(y) /\ timer[y].interval > 0)
    PROVE  Keeps' /\ \A y \in Timer : HasInterval(y)'
<1>1. ASSUME NEW y \in Timer PROVE HasInterval(y)'
    BY <1>1 DEF TimersIInv, HasInterval
<1>2. ASSUME past = {}, NEW y \in Timer PROVE Near(y)' /\ NotPassed(y)'
    <2>1. Near(y) /\ NotPassed(y)
        BY <1>2 DEF TimersIInv, Keeps
    <2>. QED BY <2>1 DEF Near, NotPassed, Idle
<1>. QED BY <1>1, <1>2 DEF TimersIInv, Keeps

(* The login timer is not among the running ones before, and has 0 to show  *)
(* for no time after.                                                       *)
LEMMA GreetKeeps == ASSUME TimersIInv, Greet PROVE TimersIInv'
<1>. DEFINE interval == AtLeast(LoginTimeout, MinLogin)
<1>1. interval \in Nat \ {0}
    BY AtLeastFact, IntervalsAssumption
<1>2. Idle("login") /\ Idle("key")
    BY DEF Greet, TimersIInv, NotStarted
<1>3. timer \in [Timer -> [interval : Nat, current : Nat]] /\ "login" \in Timer
    BY DEF TimersIInv, TimersTypeOK, Timer
<1>. HIDE DEF interval
<1>4. timer' = [timer EXCEPT !["login"] = [interval |-> interval, current |-> 0]]
    <2>1. timer["login"] \in [interval : Nat, current : Nat] /\ timer["login"].current = 0
        BY <1>2, <1>3 DEF Idle
    <2>2. Started(timer["login"], interval) = [interval |-> interval, current |-> 0]
        BY <1>1, <2>1, StartedFact
    <2>. QED BY <2>2 DEF Greet, interval
<1>5. \A y \in Timer \ {"login"} : timer'[y] = timer[y] /\ (Runs(y)' => Runs(y))
    BY <1>3, <1>4 DEF Greet, Runs, Timer
<1>6. /\ timer'["login"].interval = interval /\ timer'["login"].current = 0
      /\ real'["login"] = 0 /\ rounds'["login"] = 0
    BY <1>2, <1>3, <1>4 DEF Greet, Idle
<1>7. TimersTypeOK'
    <2>1. timer' \in [Timer -> [interval : Nat, current : Nat]]
        BY <1>1, <1>3, <1>4
    <2>. QED BY <2>1 DEF TimersIInv, TimersTypeOK, Greet
<1>8. ASSUME NEW y \in Timer PROVE HasInterval(y)'
    BY <1>1, <1>5, <1>6 DEF TimersIInv, HasInterval
<1>9. NotStarted'
    BY <1>2, <1>5 DEF Greet, NotStarted, Idle, Timer
<1>10. Keeps'
    <2>. SUFFICES ASSUME past = {}, NEW y \in Timer PROVE Near(y)' /\ NotPassed(y)'
        BY DEF TimersIInv, Keeps, Greet
    <2>1. Near(y) /\ NotPassed(y)
        BY DEF TimersIInv, Keeps
    <2>2. CASE y # "login"
        BY <2>1, <2>2, <1>5 DEF Near, NotPassed, Greet
    <2>3. CASE y = "login"
        <3>1. UsPerMs * 0 = 0 /\ Slack * 0 = 0
            BY UnitsFact
        <3>. QED BY <2>3, <3>1, <1>1, <1>6 DEF Near, NotPassed
    <2>. QED BY <2>2, <2>3
<1>. QED BY <1>7, <1>8, <1>9, <1>10 DEF TimersIInv

LEMMA StepsKeep ==
    ASSUME TimersIInv, Greet \/ Authenticate \/ Reject \/ Answer \/ Sent \/ HangUp
    PROVE  TimersIInv'
<1>1. CASE Greet
    BY <1>1, GreetKeeps
<1>2. CASE Authenticate
    <2>1. Idle("key") /\ timer["key"].interval > 0
        BY <1>2 DEF Authenticate, TimersIInv, NotStarted, HasInterval, Timer
    <2>2. \A y \in Timer : Runs(y)' => Runs(y) \/ y = "key"
        BY <1>2 DEF Authenticate, Runs
    <2>3. TimersTypeOK'
        BY <1>2 DEF Authenticate, TimersIInv, TimersTypeOK
    <2>4. NotStarted'
        BY <1>2 DEF Authenticate, NotStarted
    <2>5. Keeps' /\ \A y \in Timer : HasInterval(y)'
        BY <1>2, <2>1, <2>2, StepsKeepTimers DEF Authenticate
    <2>. QED BY <2>3, <2>4, <2>5 DEF TimersIInv
<1>3. CASE Reject \/ Answer \/ Sent \/ HangUp
    <2>0. changekeys \in 0 .. 2 /\ open \in BOOLEAN
        BY DEF TimersIInv, TimersTypeOK
    <2>1. /\ UNCHANGED <<clock, timer, real, rounds, fired, early, held, past>>
          /\ status' = status \/ status' = "rejected"
          /\ changekeys' \in 0 .. 2 /\ open' \in {open, FALSE}
        <3>1. CASE Reject
            BY <2>0, <3>1 DEF Reject
        <3>2. CASE Answer
            BY <2>0, <3>2 DEF Answer
        <3>3. CASE Sent
            BY <2>0, <3>3 DEF Sent
        <3>4. CASE HangUp
            BY <2>0, <3>4 DEF HangUp
        <3>. QED BY <1>3, <3>1, <3>2, <3>3, <3>4
    <2>2. \A x \in Timer : Runs(x)' => Runs(x)
        BY <2>0, <2>1 DEF Runs, Timer
    <2>3. TimersTypeOK'
        BY <2>0, <2>1 DEF TimersIInv, TimersTypeOK
    <2>4. NotStarted'
        BY <2>1 DEF TimersIInv, NotStarted, Idle
    <2>5. Keeps' /\ \A x \in Timer : HasInterval(x)'
        BY <2>1, <2>2, StepsKeepTimers
    <2>. QED BY <2>3, <2>4, <2>5 DEF TimersIInv
<1>. QED BY <1>1, <1>2, <1>3

-----------------------------------------------------------------------------
(* A round of the main loop.                                                *)

(* The timers that are zeroed have passed, and those that have passed have  *)
(* counted the round; with no excuse every running timer counts it.         *)
LEMMA RoundSets ==
    ASSUME NEW diff, NEW throws
    PROVE  /\ Zeroed(diff, throws) \subseteq Fires(diff, throws)
           /\ Fires(diff, throws) \subseteq Due(diff, throws)
           /\ Due(diff, throws) \subseteq Counts(diff, throws)
           /\ \A x \in Counts(diff, throws) : x \in Timer /\ Runs(x)
           /\ diff # 0 /\ throws = "no" => \A x \in Timer : Runs(x) => x \in Counts(diff, throws)
<1>1. Zeroed(diff, throws) \subseteq Fires(diff, throws)
    BY DEF Zeroed
<1>2. Fires(diff, throws) \subseteq Due(diff, throws)
    BY DEF Fires
<1>3. Due(diff, throws) \subseteq Counts(diff, throws)
    BY DEF Due
<1>4. \A x \in Counts(diff, throws) : x \in Timer /\ Runs(x)
    BY DEF Counts
<1>5. diff # 0 /\ throws = "no" => \A x \in Timer : Runs(x) => x \in Counts(diff, throws)
    BY DEF Counts
<1>. QED BY <1>1, <1>2, <1>3, <1>4, <1>5

(* What a round adds to a timer that counts it.                             *)
LEMMA UpdatedFact ==
    ASSUME TimersTypeOK, NEW diff \in Nat, NEW throws, NEW x \in Timer
    PROVE  /\ Updated(diff, throws)[x] \in [interval : Nat, current : Nat]
           /\ Updated(diff, throws)[x].interval = timer[x].interval
           /\ x \in Counts(diff, throws) =>
                 Updated(diff, throws)[x].current = timer[x].current + diff
           /\ x \notin Counts(diff, throws) => Updated(diff, throws)[x] = timer[x]
<1>1. timer[x] \in [interval : Nat, current : Nat]
    BY DEF TimersTypeOK
<1>2. CASE x \in Counts(diff, throws)
    <2>1. Updated(diff, throws)[x] = Update(timer[x], diff)
        BY <1>2 DEF Updated
    <2>2. /\ Update(timer[x], diff) \in [interval : Nat, current : Nat]
          /\ Update(timer[x], diff).interval = timer[x].interval
          /\ Update(timer[x], diff).current = timer[x].current + diff
        BY <1>1 DEF Update
    <2>. QED BY <1>2, <2>1, <2>2
<1>3. CASE x \notin Counts(diff, throws)
    <2>1. Updated(diff, throws)[x] = timer[x]
        BY <1>3 DEF Updated
    <2>. QED BY <1>1, <1>3, <2>1
<1>. QED BY <1>2, <1>3

(* A timer as near to the time as before is as near after a round it counts. *)
LEMMA NearAfterRound ==
    ASSUME NEW c \in Nat, NEW r \in Nat, NEW n \in Nat, NEW diff \in Nat, NEW d \in Nat,
           r <= UsPerMs * c + Slack * n, UsPerMs * c <= r + Slack * n,
           d <= UsPerMs * diff + Slack, UsPerMs * diff <= d + Slack
    PROVE  /\ r + d <= UsPerMs * (c + diff) + Slack * (n + 1)
           /\ UsPerMs * (c + diff) <= r + d + Slack * (n + 1)
<1>1. UsPerMs * (c + diff) = UsPerMs * c + UsPerMs * diff
    BY UnitsFact, Distributes
<1>2. Slack * (n + 1) = Slack * n + Slack
    <2>1. Slack * (n + 1) = Slack * n + Slack * 1
        BY UnitsFact, Distributes
    <2>. QED BY <2>1, UnitsFact
<1>3. UsPerMs * c \in Int /\ UsPerMs * diff \in Int /\ Slack * n \in Int /\ Slack \in Int
    BY UnitsFact
<1>. QED BY <1>1, <1>2, <1>3

LEMMA RoundKeeps ==
    ASSUME TimersIInv, NEW d \in UsPerMs .. Longest, NEW s \in {0} \cup Steps,
           NEW throws \in {"no", "earlier", "refresh"}, Round(d, s, throws)
    PROVE  TimersIInv'
<1>. DEFINE diff == Diff(clock, clock + d + s)
            counts == Counts(diff, throws)
            due == Due(diff, throws)
            fires == Fires(diff, throws)
            zeroed == Zeroed(diff, throws)
            after == Updated(diff, throws)
<1>1. d \in Nat /\ s \in Int /\ clock \in Int
    BY UnitsFact, ClockAssumption DEF TimersIInv, TimersTypeOK
<1>2. diff \in Nat
    <2>1. clock + d + s \in Int
        BY <1>1
    <2>2. Milliseconds(clock, clock + d + s) \in Int
        BY <1>1, <2>1, MillisecondsBound
    <2>3. Milliseconds(clock, clock + d + s) % UIntSize \in 0 .. UIntSize - 1
        BY <2>2, ClockAssumption, Division
    <2>. QED BY <2>3, ClockAssumption DEF Diff
<1>3. /\ zeroed \subseteq fires /\ fires \subseteq due /\ due \subseteq counts
      /\ \A x \in counts : x \in Timer /\ Runs(x)
      /\ diff # 0 /\ throws = "no" => \A x \in Timer : Runs(x) => x \in counts
    BY RoundSets
<1>4. \A x \in Timer : /\ after[x] \in [interval : Nat, current : Nat]
                       /\ after[x].interval = timer[x].interval
                       /\ x \in counts => after[x].current = timer[x].current + diff
                       /\ x \notin counts => after[x] = timer[x]
    BY <1>2, UpdatedFact DEF TimersIInv
<1>5. /\ clock' = clock + d + s
      /\ Elapse(d, diff, throws)
      /\ fired' = fired \cup fires
      /\ early' = early \cup {x \in fires : TooShort(x, d)}
      /\ status' = IF "login" \in fires THEN "rejected" ELSE status
      /\ open' = (open /\ "login" \notin fires)
      /\ changekeys' = IF "key" \in fires THEN 0 ELSE changekeys
      /\ held' = ("key" \notin fires /\ (held \/ "key" \in due))
      /\ past' = past \cup (IF s # 0 THEN {"set"} ELSE {})
                      \cup (IF throws # "no" THEN {"threw"} ELSE {})
    BY DEF Round
<1>. HIDE DEF diff, counts, due, fires, zeroed, after
<1>6. /\ timer' = [x \in Timer |-> IF x \in zeroed THEN SetCurrent(after[x], 0) ELSE after[x]]
      /\ real' = [x \in Timer |-> IF x \in zeroed THEN 0
                                 ELSE IF Runs(x) THEN real[x] + d ELSE real[x]]
      /\ rounds' = [x \in Timer |-> IF x \in zeroed THEN 0
                                   ELSE IF Runs(x) THEN rounds[x] + 1 ELSE rounds[x]]
    BY <1>5 DEF Elapse, zeroed, after
<1>7. \A x \in Timer : /\ timer'[x] \in [interval : Nat, current : Nat]
                       /\ timer'[x].interval = timer[x].interval
                       /\ x \in zeroed => timer'[x].current = 0
                       /\ x \notin zeroed => timer'[x] = after[x]
    BY <1>4, <1>6 DEF SetCurrent
<1>8. real \in [Timer -> Nat] /\ rounds \in [Timer -> Nat] /\ timer \in [Timer -> [interval : Nat, current : Nat]]
    BY DEF TimersIInv, TimersTypeOK
<1>9. TimersTypeOK'
    <2>1. timer' \in [Timer -> [interval : Nat, current : Nat]]
        BY <1>6, <1>7
    <2>2. real' \in [Timer -> Nat] /\ rounds' \in [Timer -> Nat]
        BY <1>1, <1>6, <1>8
    <2>3. clock' \in Int /\ changekeys' \in 0 .. 2
        BY <1>1, <1>5 DEF TimersIInv, TimersTypeOK
    <2>4. status' \in {"connected", "login", "authenticated", "rejected"}
        BY <1>5 DEF TimersIInv, TimersTypeOK
    <2>5. open' \in BOOLEAN /\ held' \in BOOLEAN
        BY <1>5
    <2>6. fired' \subseteq Timer /\ early' \subseteq fired'
        BY <1>3, <1>5 DEF TimersIInv, TimersTypeOK
    <2>7. past' \subseteq {"set", "threw"}
        BY <1>5 DEF TimersIInv, TimersTypeOK
    <2>. QED BY <2>1, <2>2, <2>3, <2>4, <2>5, <2>6, <2>7 DEF TimersTypeOK
<1>10. \A x \in Timer : /\ Runs(x)' => Runs(x)
                        /\ x = "login" /\ x \in fires => ~Runs(x)'
    <2>1. open' => open
        BY <1>5
    <2>2. status' = status \/ status' = "rejected"
        BY <1>5
    <2>3. "login" \in fires => status' = "rejected"
        BY <1>5
    <2>. QED BY <2>1, <2>2, <2>3 DEF Runs, Timer
<1>11. \A x \in Timer : HasInterval(x)'
    BY <1>7, <1>10 DEF TimersIInv, HasInterval
<1>12. NotStarted'
    <2>1. \A x \in Timer : ~Runs(x) /\ Idle(x) => Idle(x)'
        BY <1>3, <1>4, <1>6, <1>7 DEF Idle
    <2>2. ~Runs("login") \/ status # "connected"
        BY DEF Runs
    <2>3. ~Runs("key") \/ status \notin {"connected", "login"}
        BY DEF Runs
    <2>4. status' = status \/ status' = "rejected"
        BY <1>5
    <2>. QED BY <2>1, <2>2, <2>3, <2>4 DEF TimersIInv, NotStarted, Timer
<1>13. Keeps'
    <2>. SUFFICES ASSUME past' = {}
                  PROVE  early' = {} /\ \A x \in Timer : Near(x)' /\ NotPassed(x)'
        BY DEF Keeps
    <2>1. past = {} /\ s = 0 /\ throws = "no"
        BY <1>5
    <2>2. diff \in Nat \ {0} /\ UsPerMs * diff <= d + Slack /\ d <= UsPerMs * diff + Slack
        <3>1. clock + d + s = clock + d
            BY <1>1, <2>1
        <3>. QED BY <1>1, <3>1, RoundCounts DEF diff
    <2>3. early = {} /\ \A x \in Timer : Near(x) /\ NotPassed(x)
        BY <2>1 DEF TimersIInv, Keeps
    <2>4. \A x \in Timer : Runs(x) <=> x \in counts
        BY <1>3, <2>1, <2>2
    <2>5. ASSUME NEW x \in Timer, x \in counts
          PROVE  /\ after[x].current = timer[x].current + diff
                 /\ real[x] + d <= UsPerMs * after[x].current + Slack * (rounds[x] + 1)
                 /\ UsPerMs * after[x].current <= real[x] + d + Slack * (rounds[x] + 1)
        <3>1. /\ timer[x].current \in Nat /\ real[x] \in Nat /\ rounds[x] \in Nat
              /\ after[x].current = timer[x].current + diff
            BY <1>4, <1>8, <2>5
        <3>. QED BY <1>1, <2>2, <2>3, <3>1, NearAfterRound DEF Near
    <2>6. \A x \in counts : x \in due <=> after[x].current >= after[x].interval
        BY DEF Due, Passed, due, counts, after
    <2>7. early' = {}
        <3>. SUFFICES ASSUME NEW x \in fires PROVE ~TooShort(x, d)
            BY <1>5, <2>3
        <3>1. x \in Timer /\ x \in counts /\ after[x].current >= timer[x].interval
            BY <1>3, <1>4, <2>6
        <3>2. UsPerMs * after[x].current <= real[x] + d + Slack * (rounds[x] + 1)
            BY <2>5, <3>1
        <3>3. UsPerMs * timer[x].interval <= UsPerMs * after[x].current
            <4>1. /\ timer[x].interval \in Int /\ after[x].current \in Int
                  /\ timer[x].interval <= after[x].current
                BY <1>4, <1>8, <3>1
            <4>. QED BY <4>1, Grows, UnitsFact
        <3>4. /\ UsPerMs * timer[x].interval \in Int /\ UsPerMs * after[x].current \in Int
              /\ real[x] + d \in Int /\ Slack * (rounds[x] + 1) \in Int
            BY <1>1, <1>4, <1>8, <3>1, UnitsFact
        <3>. QED BY <3>2, <3>3, <3>4 DEF TooShort
    <2>8. ASSUME NEW x \in Timer PROVE Near(x)'
        <3>1. CASE x \in zeroed
            <4>1. UsPerMs * 0 = 0 /\ Slack * 0 = 0
                BY UnitsFact
            <4>. QED BY <1>6, <1>7, <3>1, <4>1 DEF Near
        <3>2. CASE x \notin zeroed /\ x \in counts
            <4>1. timer'[x] = after[x] /\ real'[x] = real[x] + d /\ rounds'[x] = rounds[x] + 1
                BY <1>6, <1>7, <2>4, <3>2
            <4>. QED BY <2>5, <3>2, <4>1 DEF Near
        <3>3. CASE x \notin zeroed /\ x \notin counts
            <4>1. timer'[x] = timer[x] /\ real'[x] = real[x] /\ rounds'[x] = rounds[x]
                BY <1>4, <1>6, <1>7, <2>4, <3>3
            <4>. QED BY <2>3, <4>1 DEF Near
        <3>. QED BY <3>1, <3>2, <3>3
    <2>9. ASSUME NEW x \in Timer, Runs(x)', ~(x = "key" /\ held')
          PROVE  timer'[x].current < timer'[x].interval
        <3>1. Runs(x) /\ x \in counts /\ timer[x].interval > 0 /\ timer'[x].interval = timer[x].interval
            BY <1>7, <1>10, <2>4, <2>9 DEF TimersIInv, HasInterval
        <3>2. CASE x \in zeroed
            BY <1>7, <3>1, <3>2
        <3>3. CASE x \notin zeroed
            <4>1. x \notin fires
                BY <1>10, <2>1, <2>9, <3>3 DEF Zeroed, zeroed, fires
            <4>2. x \notin due
                <5>1. x # "key" => x \notin due
                    BY <4>1 DEF Fires, fires, due
                <5>2. x = "key" => x \notin due
                    BY <1>5, <2>9, <4>1
                <5>. QED BY <5>1, <5>2
            <4>. QED BY <1>4, <1>7, <2>6, <3>1, <3>3, <4>2
        <3>. QED BY <3>2, <3>3
    <2>. QED BY <2>7, <2>8, <2>9 DEF NotPassed
<1>. QED BY <1>9, <1>11, <1>12, <1>13 DEF TimersIInv

-----------------------------------------------------------------------------
(* In every reachable state.                                                *)

THEOREM TimersInvariant == TimersSpec => []TimersIInv
<1>1. TimersIInv /\ [TimersNext]_timersVars => TimersIInv'
    <2>. SUFFICES ASSUME TimersIInv, [TimersNext]_timersVars PROVE TimersIInv'
        OBVIOUS
    <2>1. ASSUME NEW d \in UsPerMs .. Longest, NEW s \in {0} \cup Steps,
                 NEW throws \in {"no", "earlier", "refresh"}, Round(d, s, throws)
          PROVE  TimersIInv'
        BY <2>1, RoundKeeps
    <2>2. CASE Greet \/ Authenticate \/ Reject \/ Answer \/ Sent \/ HangUp
        BY <2>2, StepsKeep
    <2>3. CASE UNCHANGED timersVars
        BY <2>3 DEF timersVars, TimersIInv, TimersTypeOK, HasInterval, Runs, NotStarted, Idle, Keeps, Near, NotPassed
    <2>. QED BY <2>1, <2>2, <2>3 DEF TimersNext
<1>. QED BY <1>1, TimersStart, PTL DEF TimersSpec

(* The timers of the server keep real time to less than a millisecond for   *)
(* each round of the main loop, whatever the units, the configured          *)
(* intervals and the lengths of the rounds.                                 *)
THEOREM TimersInTime == TimersSpec => []InTime
<1>1. TimersIInv => InTime
    <2>. SUFFICES ASSUME TimersIInv, past = {}, NEW x \in Timer, Runs(x), ~(x = "key" /\ held)
                  PROVE  early = {} /\ real[x] < UsPerMs * timer[x].interval + Slack * rounds[x]
        BY DEF InTime, TimersIInv, Keeps
    <2>1. /\ early = {}
          /\ real[x] <= UsPerMs * timer[x].current + Slack * rounds[x]
          /\ timer[x].current + 1 <= timer[x].interval
          /\ timer[x].current \in Nat /\ timer[x].interval \in Nat
          /\ real[x] \in Nat /\ rounds[x] \in Nat
        BY DEF TimersIInv, TimersTypeOK, Keeps, Near, NotPassed
    <2>2. UsPerMs * (timer[x].current + 1) <= UsPerMs * timer[x].interval
        BY <2>1, Grows, UnitsFact
    <2>3. UsPerMs * (timer[x].current + 1) = UsPerMs * timer[x].current + UsPerMs
        <3>1. UsPerMs * (timer[x].current + 1) = UsPerMs * timer[x].current + UsPerMs * 1
            BY <2>1, Distributes, UnitsFact
        <3>. QED BY <3>1, UnitsFact
    <2>4. /\ UsPerMs * timer[x].current \in Int /\ UsPerMs * timer[x].interval \in Int
          /\ Slack * rounds[x] \in Int
        BY <2>1, UnitsFact
    <2>. QED BY <2>1, <2>2, <2>3, <2>4, UnitsFact
<1>. QED BY <1>1, TimersInvariant, PTL
=============================================================================
