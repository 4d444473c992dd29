-------------------------- MODULE MembershipProofs --------------------------
(***************************************************************************)
(* Proofs about Membership, for any sessions, users, names, channels and   *)
(* workers, wherever the main thread passes the barrier too early.         *)
(*                                                                         *)
(* ChannelAgrees says something of the moments between two handlers only.  *)
(* What makes it inductive is where every thread is in its handler         *)
(* (AtItsPlace): the session it moves is in its old channel, in none, or   *)
(* in the new one alone.  Of the other two:                                *)
(*   - InListedChannel needs that nobody is in a handler when the deserted *)
(*     channels are deleted (Employed), and that the channel a handler is  *)
(*     taking somebody to can be found too (Listing);                      *)
(*   - ListsAgree speaks of the moments without a handler in which nothing *)
(*     is left to be sent.  It needs what a list will show in all others:  *)
(*     the packets on their way lead every client, one after the other     *)
(*     (Leads, Delivered), to a list of nobody but members and those whose *)
(*     leave is not announced, and of all members whose join is            *)
(*     (Shown_Right).                                                      *)
(***************************************************************************)
EXTENDS Membership, SequenceTheorems, TLAPS

\* The part of TypeOK that the invariants below need.
Typed ==
    /\ status \in [Sessions -> Statuses]
    /\ wants \in [Sessions -> Users \cup {None}]
    /\ user \in [Sessions -> Users \cup {None}]
    /\ channel \in [Sessions -> Objects \cup {None}]
    /\ members \in [Objects -> SUBSET Sessions]
    /\ registered \in [Names -> Objects \cup {None}]
    /\ job \in [Threads -> [of : Sessions \cup {None}, at : Places,
                            to : Objects \cup {None}]]

\* A thread that is out of its handlers works for no session, and a removal, a
\* leave or a join is always the main thread's.
JobKnown ==
    \A t \in Threads :
      /\ job[t].of = None <=> job[t].at = "idle"
      /\ job[t].at \in {"insert", "joining", "joined"} => job[t].to \in Objects

LEMMA Constants == /\ Default \in Names /\ Main \in Threads
                   /\ None \notin Sessions /\ None \notin Objects
BY NamesAssumption, NoneAssumption DEF Threads

LEMMA JobTypes ==
  /\ Idle \in [of : Sessions \cup {None}, at : Places, to : Objects \cup {None}]
  /\ Idle.of = None /\ Idle.at = "idle"
  /\ \A s \in Sessions, a \in Places, o \in Objects \cup {None} :
       /\ At(s, a, o) \in [of : Sessions \cup {None}, at : Places, to : Objects \cup {None}]
       /\ At(s, a, o).of = s /\ At(s, a, o).at = a /\ At(s, a, o).to = o
BY DEF Idle, At, Places

LEMMA TypeInit == Init => Typed /\ JobKnown
BY JobTypes, Constants DEF Init, Typed, JobKnown, Statuses

\* A handler that begins.
LEMMA JobBegins ==
  ASSUME Typed, JobKnown,
         NEW t \in Threads, NEW s \in Sessions, NEW a \in Places, NEW o \in Objects \cup {None},
         a # "idle", a \in {"insert", "joining", "joined"} => o \in Objects,
         job' = [job EXCEPT ![t] = At(s, a, o)]
  PROVE  job' \in [Threads -> [of : Sessions \cup {None}, at : Places,
                               to : Objects \cup {None}]] /\ JobKnown'
<1>1. job' \in [Threads -> [of : Sessions \cup {None}, at : Places,
                            to : Objects \cup {None}]]
  BY JobTypes DEF Typed
<1>2. \A u \in Threads : job'[u] = IF u = t THEN At(s, a, o) ELSE job[u]
  BY DEF Typed
<1> QED BY <1>1, <1>2, JobTypes, Constants DEF JobKnown

\* A handler that goes on.
LEMMA JobGoesOn ==
  ASSUME Typed, JobKnown, NEW t \in Threads, NEW a \in Places \ {"idle"},
         job[t].at # "idle", a \in {"insert", "joining", "joined"} => job[t].to \in Objects,
         job' = [job EXCEPT ![t].at = a]
  PROVE  job' \in [Threads -> [of : Sessions \cup {None}, at : Places,
                               to : Objects \cup {None}]] /\ JobKnown'
BY DEF Typed, JobKnown

\* A handler that ends.
LEMMA JobEnds ==
  ASSUME Typed, JobKnown, NEW t \in Threads, job' = [job EXCEPT ![t] = Idle]
  PROVE  job' \in [Threads -> [of : Sessions \cup {None}, at : Places,
                               to : Objects \cup {None}]] /\ JobKnown'
<1>1. job' \in [Threads -> [of : Sessions \cup {None}, at : Places,
                            to : Objects \cup {None}]]
  BY JobTypes DEF Typed
<1>2. \A u \in Threads : job'[u] = IF u = t THEN Idle ELSE job[u]
  BY DEF Typed
<1> QED BY <1>1, <1>2, JobTypes DEF JobKnown

LEMMA TypeStep == Typed /\ JobKnown /\ [Next]_vars => Typed' /\ JobKnown'
<1> SUFFICES ASSUME Typed, JobKnown, [Next]_vars PROVE Typed' /\ JobKnown'
  OBVIOUS
<1>0. /\ {"default", "leave", "leaving", "left", "insert", "joining", "joined"}
           = Places \ {"idle"}
      /\ Main \in Threads /\ Default \in Names
  BY Constants DEF Places
<1>1. ASSUME NEW s \in Sessions, NEW u \in Users, LoginStep1(s, u) PROVE Typed' /\ JobKnown'
  BY <1>1 DEF LoginStep1, Typed, JobKnown, rooms, Statuses
<1>2. ASSUME NEW s \in Sessions, LoginStep2(s) PROVE Typed' /\ JobKnown'
  BY <1>2, <1>0, JobBegins DEF LoginStep2, Typed, rooms, Statuses
<1>3. ASSUME NEW s \in Sessions, LoginRejected(s) PROVE Typed' /\ JobKnown'
  BY <1>3 DEF LoginRejected, Typed, JobKnown, rooms, Statuses
<1>4. ASSUME NEW s \in Sessions, JoinDefault(s) PROVE Typed' /\ JobKnown'
  <2>1. CASE FindChannel(Default) # None
    <3>1. registered[Default] \in Objects
      BY <2>1, <1>0 DEF FindChannel, Typed
    <3> QED BY <1>4, <2>1, <3>1, <1>0, JobBegins DEF JoinDefault, Typed, who
  <2>2. CASE FindChannel(Default) = None
    <3>1. PICK o \in Objects : NewChannel(o, Default) /\ job' = [job EXCEPT ![Main] = At(s, "insert", o)]
      BY <1>4, <2>2 DEF JoinDefault
    <3>2. job' \in [Threads -> [of : Sessions \cup {None}, at : Places,
                                to : Objects \cup {None}]] /\ JobKnown'
      BY <3>1, <1>0, JobBegins
    <3> QED BY <1>4, <3>1, <3>2, <1>0 DEF JoinDefault, NewChannel, Typed, who
  <2> QED BY <2>1, <2>2
<1>5. ASSUME NEW s \in Sessions, NEW n \in Names, JoinChannel(s, n) PROVE Typed' /\ JobKnown'
  <2>1. registered[n] \in Objects \cup {None}
    BY DEF Typed
  <2> QED BY <1>5, <2>1, <1>0, JobBegins DEF JoinChannel, Typed, who, rooms
<1>6. ASSUME NEW s \in Sessions, LeaveChannel(s) PROVE Typed' /\ JobKnown'
  BY <1>6, <1>0, JobBegins DEF LeaveChannel, Typed, who, rooms
<1>7. ASSUME NEW s \in Sessions, RemoveSession(s) PROVE Typed' /\ JobKnown'
  BY <1>7, <1>0, JobBegins DEF RemoveSession, Typed, rooms, Statuses
<1>8. CASE Removed
  BY <1>8, <1>0, JobEnds DEF Removed, Typed, rooms, Statuses
<1>9. ASSUME NEW s \in Sessions, NEW t \in Threads, NEW n \in Names, CreateChannel(t, s, n)
      PROVE  Typed' /\ JobKnown'
  <2>1. PICK o \in Objects : NewChannel(o, n) /\ job' = [job EXCEPT ![t] = At(s, "leave", o)]
    BY <1>9 DEF CreateChannel
  <2>2. job' \in [Threads -> [of : Sessions \cup {None}, at : Places,
                              to : Objects \cup {None}]] /\ JobKnown'
    BY <2>1, <1>0, JobBegins
  <2> QED BY <1>9, <2>1, <2>2 DEF CreateChannel, NewChannel, Typed, who
<1>10. ASSUME NEW t \in Threads, Erase(t) PROVE Typed' /\ JobKnown'
  <2>1. job' = [job EXCEPT ![t].at = "left"] \/ job' = [job EXCEPT ![t].at = "leaving"]
    BY <1>10 DEF Erase
  <2>2. job' \in [Threads -> [of : Sessions \cup {None}, at : Places,
                              to : Objects \cup {None}]] /\ JobKnown'
    BY <1>10, <2>1, <1>0, JobGoesOn DEF Erase
  <2>3. members' \in [Objects -> SUBSET Sessions]
    BY <1>10 DEF Erase, Typed
  <2> QED BY <1>10, <2>2, <2>3 DEF Erase, Typed, who
<1>11. ASSUME NEW t \in Threads, AnnounceLeave(t) PROVE Typed' /\ JobKnown'
  BY <1>11, <1>0, JobGoesOn DEF AnnounceLeave, Typed, who, rooms
<1>12. ASSUME NEW t \in Threads, Left(t) PROVE Typed' /\ JobKnown'
  <2>1. channel' \in [Sessions -> Objects \cup {None}]
    BY <1>12 DEF Left, Typed
  <2>2. CASE job[t].to = None
    BY <1>12, <2>1, <2>2, <1>0, JobEnds DEF Left, Typed, who, rooms
  <2>3. CASE job[t].to # None
    <3>1. job[t].to \in Objects
      BY <2>3 DEF Typed
    <3>2. job' = [job EXCEPT ![t].at = "insert"]
      BY <1>12, <2>3 DEF Left, Typed
    <3> QED BY <1>12, <2>1, <3>1, <3>2, <1>0, JobGoesOn DEF Left, Typed, who, rooms
  <2> QED BY <2>2, <2>3
<1>13. ASSUME NEW t \in Threads, Insert(t) PROVE Typed' /\ JobKnown'
  <2>1. job[t].of \in Sessions /\ job[t].to \in Objects
    BY <1>13 DEF Insert, Typed, JobKnown
  <2> QED BY <1>13, <2>1, <1>0, JobGoesOn DEF Insert, Typed, who
<1>14. ASSUME NEW t \in Threads, AnnounceJoin(t) PROVE Typed' /\ JobKnown'
  <2>1. job[t].to \in Objects
    BY <1>14 DEF AnnounceJoin, JobKnown
  <2> QED BY <1>14, <2>1, <1>0, JobGoesOn DEF AnnounceJoin, Typed, who, rooms
<1>15. ASSUME NEW t \in Threads, Joined(t) PROVE Typed' /\ JobKnown'
  <2>1. job[t].of \in Sessions /\ job[t].to \in Objects
    BY <1>15 DEF Joined, Typed, JobKnown
  <2> QED BY <1>15, <2>1, JobEnds DEF Joined, Typed, who, rooms
<1>16. CASE EndWait
  BY <1>16 DEF EndWait, Typed, JobKnown, who
<1>17. ASSUME StartTick \/ Scheduled
              \/ \E w \in Workers : StartUpdate(w) \/ Visit(w) \/ EndUpdate(w)
       PROVE  Typed' /\ JobKnown'
  BY <1>17 DEF StartTick, Scheduled, StartUpdate, Visit, EndUpdate, Typed, JobKnown, who, rooms
<1>18. ASSUME (\E s \in Sessions : Take(s) \/ Send(s)) \/ UNCHANGED vars
       PROVE  Typed' /\ JobKnown'
  <2>1. UNCHANGED <<who, channel, rooms, job>>
    BY <1>18 DEF Take, Send, vars
  <2> QED BY <2>1 DEF Typed, JobKnown, who, rooms
<1> QED BY <1>1, <1>2, <1>3, <1>4, <1>5, <1>6, <1>7, <1>8, <1>9, <1>10, <1>11,
           <1>12, <1>13, <1>14, <1>15, <1>16, <1>17, <1>18 DEF Next, Handle, Step

-----------------------------------------------------------------------------
(* No user is logged in twice.                                              *)

\* Only the last step of a login lets a session in, and it gives the session its
\* name in the same step.
LEMMA UniqueStep == Typed /\ UniqueNames /\ [Next]_vars => UniqueNames'
<1> SUFFICES ASSUME Typed, UniqueNames, [Next]_vars PROVE UniqueNames'
  OBVIOUS
<1>1. ASSUME NEW s \in Sessions, LoginStep2(s) PROVE UniqueNames'
  <2>1. \A q \in Sessions : q # s => status'[q] = status[q] /\ user'[q] = user[q]
    BY <1>1 DEF LoginStep2, Typed
  <2>2. user'[s] = wants[s] /\ \A q \in Authenticated : user[q] # wants[s]
    BY <1>1 DEF LoginStep2, Authenticated, Typed
  <2>3. \A q \in Authenticated' : q = s \/ q \in Authenticated
    BY <2>1 DEF Authenticated
  <2>4. s \notin Authenticated /\ Authenticated \subseteq Sessions
    BY <1>1 DEF LoginStep2, Authenticated
  <2>5. \A q \in Authenticated : user'[q] = user[q] /\ user'[q] # user'[s]
    BY <2>1, <2>2, <2>4
  <2> QED BY <2>3, <2>5 DEF UniqueNames
<1>2. ASSUME user' = user, \A q \in Sessions : status'[q] = "authenticated" => status[q] = "authenticated"
      PROVE  UniqueNames'
  BY <1>2 DEF UniqueNames, Authenticated
<1>3. ASSUME NEW s \in Sessions,
             \/ \E u \in Users : LoginStep1(s, u)
             \/ LoginRejected(s) \/ RemoveSession(s) \/ Removed
      PROVE  UniqueNames'
  <2>1. user' = user
    BY <1>3 DEF LoginStep1, LoginRejected, RemoveSession, Removed
  <2>2. \A q \in Sessions : status'[q] = status[q]
                             \/ status'[q] \in {"step2", "rejected", "gone"}
    BY <1>3 DEF LoginStep1, LoginRejected, RemoveSession, Removed, Typed
  <2> QED BY <1>2, <2>1, <2>2
<1>4. ASSUME UNCHANGED who PROVE UniqueNames'
  BY <1>2, <1>4 DEF who
<1>5. ASSUME \/ \E s \in Sessions : \/ JoinDefault(s) \/ LeaveChannel(s)
                                    \/ \E n \in Names : JoinChannel(s, n)
                                    \/ \E t \in Threads, n \in Names : CreateChannel(t, s, n)
             \/ \E t \in Threads : Step(t)
             \/ StartTick \/ Scheduled \/ EndWait
             \/ \E w \in Workers : StartUpdate(w) \/ Visit(w) \/ EndUpdate(w)
             \/ \E s \in Sessions : Take(s) \/ Send(s)
             \/ UNCHANGED vars
      PROVE  UNCHANGED who
  BY <1>5 DEF JoinDefault, LeaveChannel, JoinChannel, CreateChannel, Step, Erase,
     AnnounceLeave, Left, Insert, AnnounceJoin, Joined, StartTick, Scheduled, EndWait,
     StartUpdate, Visit, EndUpdate, Take, Send, vars, who
<1> QED BY <1>1, <1>3, <1>4, <1>5 DEF Next, Handle

\* Whatever the interleaving of logins, removals and channel updates, no two
\* sessions that are logged in have the same user (Session::HandleLogin).
THEOREM NamesAreUnique == Spec => []UniqueNames
<1>1. Init => Typed /\ JobKnown /\ UniqueNames
  BY TypeInit DEF Init, UniqueNames, Authenticated
<1>2. Typed /\ JobKnown /\ UniqueNames /\ [Next]_vars => Typed' /\ JobKnown' /\ UniqueNames'
  BY TypeStep, UniqueStep
<1> QED BY <1>1, <1>2, PTL DEF Spec

-----------------------------------------------------------------------------
(* Sessions and channels agree.                                             *)

\* A session is a member of its channel alone, of none, of one it has not noted.
Settled(s) == \A o \in Objects : s \in members[o] <=> channel[s] = o
Apart(s) == \A o \in Objects : s \notin members[o]
Entered(s, o) == channel[s] = None /\ \A p \in Objects : s \in members[p] <=> p = o

\* What a thread in a handler knows of the session it moves.
AtItsPlace(t) ==
    LET s == job[t].of IN
    /\ job[t].at = "default" => Settled(s) /\ channel[s] = None
    /\ job[t].at = "leave" => Settled(s)
    /\ job[t].at \in {"leaving", "left"} => Apart(s)
    /\ job[t].at = "insert" => Apart(s) /\ channel[s] = None
    /\ job[t].at \in {"joining", "joined"} => Entered(s, job[t].to)

Alone == \A t, u \in Threads : job[t].of = job[u].of /\ job[t].of # None => t = u

\* A session that is not logged in yet is in no handler but those of the login.
Outside == \A s \in Sessions : status[s] \in {"connected", "step2"} =>
                                  ~Busy(s) /\ channel[s] = None

Agreed == /\ \A s \in Sessions : ~Busy(s) => Settled(s)
          /\ \A t \in Threads : AtItsPlace(t)
          /\ Alone
          /\ Outside

IInv == Typed /\ JobKnown /\ ("doubled" \notin past => Agreed)

LEMMA AgreedInit == Init => Agreed
BY JobTypes, Constants DEF Init, Agreed, Settled, AtItsPlace, Alone, Outside, Busy

\* A step of thread t that moves session s only, which no other thread moves.
LEMMA OneMoves ==
  ASSUME Agreed, NEW t \in Threads, NEW s \in Sessions,
         \A u \in Threads \ {t} : job'[u] = job[u] /\ job[u].of # s,
         job[t].of \in {s, None}, job'[t].of \in {s, None},
         \A q \in Sessions \ {s} : /\ status'[q] = status[q] /\ channel'[q] = channel[q]
                                   /\ \A o \in Objects : q \in members'[o] <=> q \in members[o],
         \A u \in Threads : job[u].of \in Sessions \cup {None},
         \A u \in Threads : job[u].of = None <=> job[u].at = "idle",
         None \notin Sessions,
         AtItsPlace(t)',
         job'[t].of = None => Settled(s)',
         status'[s] \in {"connected", "step2"} => job'[t].of = None /\ channel'[s] = None
  PROVE  Agreed'
<1>1. \A q \in Sessions \ {s} : /\ Settled(q) <=> Settled(q)'
                               /\ Apart(q) <=> Apart(q)'
                               /\ \A o \in Objects \cup {None} : Entered(q, o) <=> Entered(q, o)'
  BY DEF Settled, Apart, Entered
<1>2. \A q \in Sessions \ {s} : Busy(q) <=> Busy(q)'
  BY DEF Busy
<1>3. Busy(s)' <=> job'[t].of = s
  BY DEF Busy
<1>4. \A q \in Sessions : ~Busy(q)' => Settled(q)'
  <2>1. ASSUME NEW q \in Sessions \ {s}, ~Busy(q)' PROVE Settled(q)'
    <3>1. Settled(q)
      BY <1>2, <2>1 DEF Agreed
    <3> QED BY <2>1, <3>1 DEF Settled
  <2>2. ASSUME ~Busy(s)' PROVE Settled(s)'
    BY <1>3, <2>2
  <2> QED BY <2>1, <2>2
<1>5. ASSUME NEW u \in Threads PROVE AtItsPlace(u)'
  <2>1. CASE u = t
    BY <2>1
  <2>2. CASE u # t /\ job[u].of = None
    BY <2>2 DEF AtItsPlace
  <2>3. CASE u # t /\ job[u].of # None
    <3>1. job[u].of \in Sessions \ {s} /\ job'[u] = job[u] /\ AtItsPlace(u)
      BY <2>3 DEF Agreed
    <3>2. /\ Settled(job[u].of) <=> Settled(job[u].of)'
          /\ Apart(job[u].of) <=> Apart(job[u].of)'
          /\ Entered(job[u].of, job[u].to) <=> Entered(job[u].of, job[u].to)'
          /\ channel'[job[u].of] = channel[job[u].of]
      BY <3>1 DEF Settled, Apart, Entered
    <3> QED BY <3>1, <3>2 DEF AtItsPlace, Settled, Apart, Entered
  <2> QED BY <2>1, <2>2, <2>3
<1>6. Alone'
  BY DEF Alone, Agreed
<1>7. Outside'
  BY <1>2, <1>3 DEF Outside, Agreed
<1> QED BY <1>4, <1>5, <1>6, <1>7 DEF Agreed

\* A step that moves no session and changes no handler.
LEMMA NoneMoves ==
  ASSUME Agreed, UNCHANGED <<job, status, channel, members>>
  PROVE  Agreed'
BY DEF Agreed, Settled, Apart, Entered, AtItsPlace, Alone, Outside, Busy

\* What has happened is not forgotten.
LEMMA PastGrows == [Next]_vars => past \subseteq past'
<1> SUFFICES ASSUME [Next]_vars PROVE past \subseteq past'
  OBVIOUS
<1>1. ASSUME NEW s \in Sessions, Handle(s) PROVE past \subseteq past'
  BY <1>1 DEF Handle, LoginStep1, LoginStep2, LoginRejected, JoinDefault, LeaveChannel,
     JoinChannel, CreateChannel, RemoveSession, Removed
<1>2. ASSUME NEW t \in Threads, Step(t) PROVE past \subseteq past'
  BY <1>2 DEF Step, Erase, AnnounceLeave, Left, Insert, AnnounceJoin, Joined
<1>3. ASSUME NEW s \in Sessions, Take(s) \/ Send(s) PROVE past \subseteq past'
  BY <1>3 DEF Take, Send
<1>4. CASE \/ StartTick \/ Scheduled \/ EndWait
           \/ \E w \in Workers : StartUpdate(w) \/ Visit(w) \/ EndUpdate(w)
           \/ UNCHANGED vars
  BY <1>4 DEF StartTick, Scheduled, EndWait, StartUpdate, Visit, EndUpdate, vars
<1> QED BY <1>1, <1>2, <1>3, <1>4 DEF Next

\* The step of a thread in a handler is the only one that moves its session.
LEMMA OnlyMover ==
  ASSUME Typed, JobKnown, Alone, NEW t \in Threads, job[t].at # "idle"
  PROVE  /\ job[t].of \in Sessions /\ job[t].of # None
         /\ \A u \in Threads \ {t} : job[u].of # job[t].of
BY DEF Typed, JobKnown, Alone

LEMMA AgreedStep == IInv /\ [Next]_vars /\ "doubled" \notin past' => Agreed'
<1> SUFFICES ASSUME IInv, [Next]_vars, "doubled" \notin past' PROVE Agreed'
  OBVIOUS
<1>1. /\ Typed /\ JobKnown /\ Main \in Threads /\ None \notin Sessions /\ None \notin Objects
      /\ \A u \in Threads : job[u].of \in Sessions \cup {None}
      /\ \A u \in Threads : job[u].of = None <=> job[u].at = "idle"
  BY Constants DEF IInv, Typed, JobKnown
<1>2. "doubled" \notin past
  BY PastGrows
<1>3. Agreed /\ Alone /\ Outside
  BY <1>2 DEF IInv, Agreed
\* The beginning of a handler, in which the session is settled.
<1>4. ASSUME NEW s \in Sessions, NEW t \in Threads, NEW a \in Places, NEW o \in Objects \cup {None},
             job[t] = Idle, ~Busy(s), job' = [job EXCEPT ![t] = At(s, a, o)],
             UNCHANGED <<channel, members>>,
             \A q \in Sessions \ {s} : status'[q] = status[q],
             status'[s] \notin {"connected", "step2"},
             a = "leave" \/ (a = "default" /\ channel[s] = None)
      PROVE  Agreed'
  <2>1. \A u \in Threads \ {t} : job'[u] = job[u] /\ job[u].of # s
    BY <1>1, <1>4 DEF Typed, Busy
  <2>2. job'[t] = At(s, a, o) /\ job[t].of = None
    BY <1>1, <1>4, JobTypes DEF Typed
  <2>3. job'[t].of = s /\ job'[t].at = a
    BY <2>2, JobTypes
  <2>4. Settled(s) /\ Settled(s)'
    BY <1>3, <1>4 DEF Agreed, Settled
  <2>5. AtItsPlace(t)'
    BY <1>1, <1>4, <2>3, <2>4 DEF AtItsPlace
  <2> QED BY <1>1, <1>3, <1>4, <2>1, <2>2, <2>3, <2>5, OneMoves
\* A later step of a handler.
<1>5. ASSUME NEW t \in Threads, NEW s \in Sessions, job[t].of = s,
             \A u \in Threads \ {t} : job'[u] = job[u],
             job'[t].of \in {s, None},
             \A q \in Sessions \ {s} :
                /\ status'[q] = status[q] /\ channel'[q] = channel[q]
                /\ \A o \in Objects : q \in members'[o] <=> q \in members[o],
             status'[s] \in {status[s], "gone"},
             AtItsPlace(t)', job'[t].of = None => Settled(s)'
      PROVE  Agreed'
  <2>1. \A u \in Threads \ {t} : job'[u] = job[u] /\ job[u].of # s
    BY <1>1, <1>3, <1>5, OnlyMover
  <2>2. status'[s] \notin {"connected", "step2"}
    BY <1>3, <1>5 DEF Outside, Busy
  <2> QED BY <1>1, <1>3, <1>5, <2>1, <2>2, OneMoves
<1>6. ASSUME NEW s \in Sessions, NEW u \in Users, LoginStep1(s, u) PROVE Agreed'
  <2>1. \A q \in Sessions : status'[q] = status[q]
                            \/ (status[q] = "connected" /\ status'[q] = "step2")
    BY <1>1, <1>6 DEF LoginStep1, Typed
  <2> QED BY <1>3, <1>6, <2>1
          DEF LoginStep1, rooms, Agreed, Settled, Apart, Entered, AtItsPlace, Alone, Outside, Busy
<1>7. ASSUME NEW s \in Sessions, LoginRejected(s) PROVE Agreed'
  <2>1. \A q \in Sessions : status'[q] = status[q] \/ status'[q] = "rejected"
    BY <1>1, <1>7 DEF LoginRejected, Typed
  <2> QED BY <1>3, <1>7, <2>1
          DEF LoginRejected, rooms, Agreed, Settled, Apart, Entered, AtItsPlace, Alone, Outside, Busy
<1>8. ASSUME NEW s \in Sessions, LoginStep2(s) PROVE Agreed'
  <2>1. ~Busy(s) /\ channel[s] = None
    BY <1>3, <1>8 DEF LoginStep2, Outside
  <2>2. \A q \in Sessions : status'[q] = IF q = s THEN "authenticated" ELSE status[q]
    BY <1>1, <1>8 DEF LoginStep2, Typed
  <2>3. /\ job[Main] = Idle /\ job' = [job EXCEPT ![Main] = At(s, "default", None)]
        /\ UNCHANGED <<channel, members>> /\ "default" \in Places
    BY <1>8 DEF LoginStep2, MainMayRun, rooms, Places
  <2>4. status'[s] \notin {"connected", "step2"} /\ \A q \in Sessions \ {s} : status'[q] = status[q]
    BY <2>2
  <2> QED BY <1>1, <1>4, <2>1, <2>3, <2>4
<1>9. ASSUME NEW s \in Sessions, NEW n \in Names, JoinChannel(s, n) PROVE Agreed'
  <2>1. ~Busy(s) /\ registered[n] \in Objects \cup {None}
    BY <1>1, <1>9 DEF JoinChannel, Doubled, Typed
  <2> QED BY <1>1, <1>4, <1>9, <2>1 DEF JoinChannel, MainMayRun, who, rooms, Places
<1>10. ASSUME NEW s \in Sessions, LeaveChannel(s) PROVE Agreed'
  <2>1. ~Busy(s)
    BY <1>10 DEF LeaveChannel, Doubled
  <2> QED BY <1>1, <1>4, <1>10, <2>1 DEF LeaveChannel, MainMayRun, who, rooms, Places
<1>11. ASSUME NEW s \in Sessions, RemoveSession(s) PROVE Agreed'
  <2>1. ~Busy(s)
    BY <1>11 DEF RemoveSession, Doubled
  <2>2. \A q \in Sessions : status'[q] = IF q = s THEN "rejected" ELSE status[q]
    BY <1>1, <1>11 DEF RemoveSession, Typed
  <2>3. /\ job[Main] = Idle /\ job' = [job EXCEPT ![Main] = At(s, "leave", None)]
        /\ UNCHANGED <<channel, members>> /\ "leave" \in Places
    BY <1>11 DEF RemoveSession, rooms, Places
  <2>4. status'[s] \notin {"connected", "step2"} /\ \A q \in Sessions \ {s} : status'[q] = status[q]
    BY <2>2
  <2> QED BY <1>1, <1>4, <2>1, <2>3, <2>4
<1>12. ASSUME NEW s \in Sessions, NEW t \in Threads, NEW n \in Names, CreateChannel(t, s, n)
       PROVE  Agreed'
  <2>1. ~Busy(s) /\ job[t] = Idle
    BY <1>12 DEF CreateChannel, Doubled, MainMayRun, WorkerMayRun
  <2>2. PICK o \in Objects : job' = [job EXCEPT ![t] = At(s, "leave", o)]
    BY <1>12 DEF CreateChannel
  <2> QED BY <1>1, <1>4, <1>12, <2>1, <2>2 DEF CreateChannel, who, Places
<1>13. ASSUME NEW s \in Sessions, JoinDefault(s) PROVE Agreed'
  <2>1. job[Main].at = "default" /\ job[Main].of = s
    BY <1>13, JobTypes, Constants DEF JoinDefault, Places
  <2>2. PICK o \in Objects \cup {None} : job' = [job EXCEPT ![Main] = At(s, "insert", o)]
    BY <1>1, <1>13, Constants DEF JoinDefault, Typed
  <2>3. job'[Main].of = s /\ job'[Main].at = "insert"
    BY <1>1, <2>2, JobTypes DEF Typed, Places
  <2>4. Settled(s) /\ channel[s] = None
    BY <1>1, <1>3, <2>1 DEF Agreed, AtItsPlace
  <2>5. UNCHANGED <<channel, members, status>>
    BY <1>13 DEF JoinDefault, who
  <2>6. Apart(s)'
    BY <1>1, <2>4, <2>5 DEF Settled, Apart
  <2>7. AtItsPlace(Main)'
    BY <2>3, <2>4, <2>5, <2>6 DEF AtItsPlace
  <2>8. \A u \in Threads \ {Main} : job'[u] = job[u]
    BY <1>1, <2>2 DEF Typed
  <2> QED BY <1>1, <1>5, <2>1, <2>3, <2>5, <2>7, <2>8
<1>14. ASSUME NEW t \in Threads, Erase(t) PROVE Agreed'
  <2>1. PICK s \in Sessions : job[t].of = s /\ AtItsPlace(t) /\ job[t].at = "leave"
    BY <1>1, <1>3, <1>14, OnlyMover DEF Erase, Agreed
  <2>2. Settled(s)
    BY <2>1 DEF AtItsPlace
  <2>3. Apart(s)'
    BY <1>1, <1>14, <2>1, <2>2 DEF Erase, Settled, Apart, Typed
  <2>4. job'[t].of = s /\ job'[t].at \in {"left", "leaving"}
    BY <1>1, <1>14, <2>1 DEF Erase, Typed
  <2>5. AtItsPlace(t)'
    BY <2>3, <2>4 DEF AtItsPlace
  <2>6. \A u \in Threads \ {t} : job'[u] = job[u]
    BY <1>1, <1>14, <2>1 DEF Erase, Typed
  <2>7. \A q \in Sessions \ {s}, o \in Objects : q \in members'[o] <=> q \in members[o]
    BY <1>1, <1>14, <2>1 DEF Erase, Typed
  <2>8. UNCHANGED <<status, channel>>
    BY <1>14 DEF Erase, who
  <2> QED BY <1>1, <1>5, <2>1, <2>4, <2>5, <2>6, <2>7, <2>8
<1>15. ASSUME NEW t \in Threads, AnnounceLeave(t) PROVE Agreed'
  <2>1. PICK s \in Sessions : job[t].of = s /\ AtItsPlace(t) /\ job[t].at = "leaving"
    BY <1>1, <1>3, <1>15, OnlyMover DEF AnnounceLeave, Agreed
  <2>2. job'[t].of = s /\ job'[t].at = "left" /\ \A u \in Threads \ {t} : job'[u] = job[u]
    BY <1>1, <1>15, <2>1 DEF AnnounceLeave, Typed
  <2>3. UNCHANGED <<status, channel, members>>
    BY <1>15 DEF AnnounceLeave, who, rooms
  <2>4. AtItsPlace(t)'
    BY <2>1, <2>2, <2>3 DEF AtItsPlace, Apart
  <2> QED BY <1>1, <1>5, <2>1, <2>2, <2>3, <2>4
<1>16. ASSUME NEW t \in Threads, Left(t) PROVE Agreed'
  <2>1. PICK s \in Sessions : job[t].of = s /\ AtItsPlace(t) /\ job[t].at = "left"
    BY <1>1, <1>3, <1>16, OnlyMover DEF Left, Agreed
  <2>2. UNCHANGED <<status, members>>
    BY <1>16 DEF Left, who, rooms
  <2>3. \A q \in Sessions : channel'[q] = IF q = s THEN None ELSE channel[q]
    BY <1>1, <1>16, <2>1 DEF Left, Typed
  <2>4. Apart(s)' /\ Settled(s)'
    <3>1. Apart(s) /\ channel'[s] = None
      BY <2>1, <2>3 DEF AtItsPlace
    <3> QED BY <1>1, <2>2, <3>1 DEF Apart, Settled
  <2>5. \/ job'[t] = Idle
        \/ job'[t].of = s /\ job'[t].at = "insert"
    BY <1>1, <1>16, <2>1 DEF Left, Typed
  <2>6. \A u \in Threads \ {t} : job'[u] = job[u]
    BY <1>1, <1>16, <2>1 DEF Left, Typed
  <2>7. AtItsPlace(t)'
    BY <2>1, <2>3, <2>4, <2>5, JobTypes DEF AtItsPlace
  <2> QED BY <1>1, <1>5, <2>1, <2>2, <2>3, <2>4, <2>5, <2>6, <2>7, JobTypes
<1>17. CASE Removed
  <2>1. PICK s \in Sessions : job[Main].of = s /\ AtItsPlace(Main) /\ job[Main].at = "left"
    BY <1>1, <1>3, <1>17, OnlyMover DEF Removed, Agreed
  <2>2. \A q \in Sessions : /\ channel'[q] = IF q = s THEN None ELSE channel[q]
                            /\ status'[q] = IF q = s THEN "gone" ELSE status[q]
    BY <1>1, <1>17, <2>1 DEF Removed, Typed
  <2>3. members' = members
    BY <1>17 DEF Removed, rooms
  <2>4. Apart(s)' /\ Settled(s)'
    <3>1. Apart(s) /\ channel'[s] = None
      BY <2>1, <2>2 DEF AtItsPlace
    <3> QED BY <1>1, <2>3, <3>1 DEF Apart, Settled
  <2>5. job'[Main] = Idle /\ \A u \in Threads \ {Main} : job'[u] = job[u]
    BY <1>1, <1>17, <2>1 DEF Removed, Typed
  <2>6. AtItsPlace(Main)'
    BY <2>5, JobTypes DEF AtItsPlace
  <2> QED BY <1>1, <1>5, <2>1, <2>2, <2>3, <2>4, <2>5, <2>6, JobTypes
<1>18. ASSUME NEW t \in Threads, Insert(t) PROVE Agreed'
  <2>1. PICK s \in Sessions : job[t].of = s /\ AtItsPlace(t) /\ job[t].at = "insert" /\ job[t].to \in Objects
    BY <1>1, <1>3, <1>18, OnlyMover DEF Insert, Agreed, JobKnown
  <2>2. UNCHANGED <<status, channel>>
    BY <1>18 DEF Insert, who
  <2>3. members' = [members EXCEPT ![job[t].to] = @ \cup {s}]
    BY <1>18, <2>1 DEF Insert
  <2>4. \A q \in Sessions, o \in Objects : q \in members'[o] <=>
           q \in members[o] \/ (q = s /\ o = job[t].to)
    BY <1>1, <2>1, <2>3 DEF Typed
  <2>5. Entered(s, job[t].to)'
    BY <2>1, <2>2, <2>4, <1>1, <1>18 DEF Insert, AtItsPlace, Apart, Entered, Typed
  <2>6. /\ job'[t].of = s /\ job'[t].to = job[t].to /\ job'[t].at = "joining"
        /\ \A u \in Threads \ {t} : job'[u] = job[u]
    BY <1>1, <1>18, <2>1 DEF Insert, Typed
  <2>7. AtItsPlace(t)'
    BY <2>5, <2>6 DEF AtItsPlace, Entered
  <2> QED BY <1>1, <1>5, <2>1, <2>2, <2>4, <2>6, <2>7
<1>19. ASSUME NEW t \in Threads, AnnounceJoin(t) PROVE Agreed'
  <2>1. PICK s \in Sessions : job[t].of = s /\ AtItsPlace(t) /\ job[t].at = "joining"
    BY <1>1, <1>3, <1>19, OnlyMover DEF AnnounceJoin, Agreed
  <2>2. /\ job'[t].of = s /\ job'[t].at = "joined" /\ job'[t].to = job[t].to
        /\ \A u \in Threads \ {t} : job'[u] = job[u]
    BY <1>1, <1>19, <2>1 DEF AnnounceJoin, Typed
  <2>3. UNCHANGED <<status, channel, members>>
    BY <1>19 DEF AnnounceJoin, who, rooms
  <2>4. AtItsPlace(t)'
    BY <2>1, <2>2, <2>3 DEF AtItsPlace, Entered
  <2> QED BY <1>1, <1>5, <2>1, <2>2, <2>3, <2>4
<1>20. ASSUME NEW t \in Threads, Joined(t) PROVE Agreed'
  <2>1. PICK s \in Sessions : job[t].of = s /\ AtItsPlace(t) /\ job[t].at = "joined" /\ job[t].to \in Objects
    BY <1>1, <1>3, <1>20, OnlyMover DEF Joined, Agreed, JobKnown
  <2>2. UNCHANGED <<status, members>>
    BY <1>20 DEF Joined, who, rooms
  <2>3. \A q \in Sessions : channel'[q] = IF q = s THEN job[t].to ELSE channel[q]
    BY <1>1, <1>20, <2>1 DEF Joined, Typed
  <2>4. Settled(s)'
    <3>1. Entered(s, job[t].to) /\ channel'[s] = job[t].to
      BY <2>1, <2>3 DEF AtItsPlace
    <3> QED BY <2>2, <3>1 DEF Entered, Settled
  <2>5. job'[t] = Idle /\ \A u \in Threads \ {t} : job'[u] = job[u]
    BY <1>1, <1>20, <2>1 DEF Joined, Typed
  <2>6. AtItsPlace(t)'
    BY <2>5, JobTypes DEF AtItsPlace
  <2> QED BY <1>1, <1>5, <2>1, <2>2, <2>3, <2>4, <2>5, <2>6, JobTypes
<1>21. ASSUME \/ StartTick \/ Scheduled \/ EndWait
              \/ \E w \in Workers : StartUpdate(w) \/ Visit(w) \/ EndUpdate(w)
              \/ \E s \in Sessions : Take(s) \/ Send(s)
              \/ UNCHANGED vars
       PROVE  Agreed'
  <2>1. UNCHANGED <<job, status, channel, members>>
    BY <1>21 DEF StartTick, Scheduled, EndWait, StartUpdate, Visit, EndUpdate, Take, Send, vars, who, rooms
  <2> QED BY <1>3, <2>1, NoneMoves
<1> QED BY <1>6, <1>7, <1>8, <1>9, <1>10, <1>11, <1>12, <1>13, <1>14, <1>15, <1>16, <1>17,
           <1>18, <1>19, <1>20, <1>21 DEF Next, Handle, Step

\* As long as no two threads have been in handlers of one session, the channel a
\* session notes and the members of the channels agree whenever no handler of it
\* is at work, even if the main thread has passed the barrier too early.
THEOREM ChannelsAgree == Spec => []ChannelAgrees
<1>1. Init => IInv
  BY TypeInit, AgreedInit DEF IInv
<1>2. IInv /\ [Next]_vars => IInv'
  BY TypeStep, AgreedStep DEF IInv
<1>3. IInv => ChannelAgrees
  BY DEF IInv, Agreed, ChannelAgrees, Settled
<1> QED BY <1>1, <1>2, <1>3, PTL DEF Spec

-----------------------------------------------------------------------------
(* Types.                                                                   *)

\* Whoever waits for its login asks for a user, whoever has gone on has one: the
\* members of the channels and those a handler takes into one.
Known ==
    /\ \A s \in Sessions : status[s] = "step2" => wants[s] \in Users
    /\ \A s \in Sessions : status[s] = "authenticated" => user[s] \in Users
    /\ \A o \in Objects : \A s \in members[o] : user[s] \in Users
    /\ \A t \in Threads :
         job[t].to # None \/ job[t].at \in {"leaving", "default", "insert", "joining", "joined"}
           => user[job[t].of] \in Users

Rest ==
    /\ name \in [Objects -> Names \cup {None}]
    /\ phase \in {"sessions", "schedule", "waiting"}
    /\ due \subseteq Objects
    /\ upd \in [Workers -> Objects \cup {None}]
    /\ inside \in [Workers -> Sessions \cup {None}]
    /\ packets \in [Sessions -> Seq(PacketSet)]
    /\ view \in [Sessions -> SUBSET Users]
    /\ past \subseteq {"early", "doubled", "alike", "swapped"}

\* A step of a handler moves its own session, and only that.
LEMMA StepFacts ==
  ASSUME Typed, JobKnown, NEW t \in Threads, Step(t)
  PROVE  /\ job[t].of \in Sessions /\ job[t] # Idle /\ job[t].at # "idle"
         /\ \A u \in Threads \ {t} : job'[u] = job[u]
         /\ \/ job'[t] = Idle
            \/ job'[t].of = job[t].of /\ job'[t].to = job[t].to /\ job'[t].at # "default"
         /\ UNCHANGED <<who, name, registered, tick, past>>
<1>1. job[t].at # "idle"
  BY DEF Step, Erase, AnnounceLeave, Left, Insert, AnnounceJoin, Joined
<1>2. job[t].of \in Sessions /\ job[t] # Idle
  BY <1>1, JobTypes, Constants DEF Typed, JobKnown
<1>3. UNCHANGED <<who, name, registered, tick, past>>
  BY DEF Step, Erase, AnnounceLeave, Left, Insert, AnnounceJoin, Joined, rooms
<1>4. /\ \A u \in Threads \ {t} : job'[u] = job[u]
      /\ \/ job'[t] = Idle
         \/ job'[t].of = job[t].of /\ job'[t].to = job[t].to /\ job'[t].at # "default"
  <2>1. CASE Erase(t)
    BY <2>1 DEF Erase, Typed
  <2>2. CASE Left(t)
    BY <2>2 DEF Left, Typed
  <2>3. CASE AnnounceLeave(t) \/ Insert(t) \/ AnnounceJoin(t) \/ Joined(t)
    BY <2>3 DEF AnnounceLeave, Insert, AnnounceJoin, Joined, Typed
  <2> QED BY <2>1, <2>2, <2>3 DEF Step
<1> QED BY <1>1, <1>2, <1>3, <1>4

LEMMA PacketTypes ==
  /\ \A u \in Users : Join(u) \in PacketSet /\ Leave(u) \in PacketSet
  /\ \A v \in SUBSET Users : List(v) \in PacketSet
BY DEF Join, Leave, List, Packet, PacketSet

LEMMA EffectTypes ==
  ASSUME NEW p \in PacketSet, NEW v \in SUBSET Users
  PROVE  Effect(p, v) \in SUBSET Users
<1>1. CASE p.kind = "join"
  BY <1>1 DEF Effect, PacketSet, Shown
<1>2. CASE p.kind = "leave"
  BY <1>2 DEF Effect, PacketSet, Hidden
<1>3. CASE p.kind = "list"
  BY <1>3 DEF Effect, PacketSet
<1> QED BY <1>1, <1>2, <1>3 DEF PacketSet

\* What removing an element leaves of a sequence.
LEMMA RemoveAtFacts ==
  ASSUME NEW S, NEW q \in Seq(S), NEW i \in 1..Len(q)
  PROVE  RemoveAt(q, i) \in Seq(S)
<1>1. Len(q) \in Nat /\ \A j \in 1..Len(q) : q[j] \in S
  BY ElementOfSeq, LenProperties
<1>2. SubSeq(q, 1, i-1) \in Seq(S)
  BY <1>1, SubSeqProperties
<1>3. SubSeq(q, i+1, Len(q)) \in Seq(S)
  BY <1>1, SubSeqProperties
<1> QED BY <1>2, <1>3, ConcatProperties DEF RemoveAt

\* What removing the first element leaves of a sequence.
LEMMA FirstSent ==
  ASSUME NEW S, NEW q \in Seq(S), 1 \in DOMAIN q
  PROVE  /\ Len(q) \in Nat \ {0} /\ Len(RemoveAt(q, 1)) = Len(q) - 1
         /\ \A i \in 1..Len(q) - 1 : RemoveAt(q, 1)[i] = q[i+1]
<1>0. Len(q) \in Nat /\ DOMAIN q = 1..Len(q)
  BY LenProperties
<1>1. Len(q) \in Nat \ {0} /\ \A j \in 1..Len(q) : q[j] \in S
  <2>1. Len(q) \in Nat \ {0}
    BY <1>0
  <2>2. \A j \in 1..Len(q) : q[j] \in S
    BY ElementOfSeq
  <2> QED BY <2>1, <2>2
<1>2. SubSeq(q, 1, 0) = <<>>
  BY <1>1, SubSeqProperties
<1>3. PICK b : b = SubSeq(q, 2, Len(q))
  OBVIOUS
<1>4. b \in Seq(S) /\ Len(b) = Len(q) - 1 /\ \A i \in 1..Len(q) - 1 : b[i] = q[i+1]
  <2>1. PICK n \in Nat : n = Len(q) /\ n # 0
    BY <1>1
  <2>2. 2 \in 1..n+1 /\ n \in 1..n /\ \A j \in 2..n : q[j] \in S
    BY <1>1, <2>1
  <2>3. b \in Seq(S)
    BY <1>3, <2>1, <2>2, SubSeqProperties
  <2>4. Len(b) = n - 1
    BY <1>3, <2>1, <2>2, SubSeqProperties
  <2>5. \A i \in 1..n - 1 : b[i] = q[i+1]
    BY <1>3, <2>1, <2>2, SubSeqProperties
  <2> QED BY <2>1, <2>3, <2>4, <2>5
<1>5. RemoveAt(q, 1) = <<>> \o b
  BY <1>2, <1>3 DEF RemoveAt
<1>6. <<>> \o b = b
  BY <1>4, ConcatEmptySeq
<1> QED BY <1>1, <1>4, <1>5, <1>6

LEMMA KnownInit == Init => Known /\ Rest
BY JobTypes, Constants DEF Init, Known, Rest, Idle

LEMMA KnownStep == Typed /\ JobKnown /\ JobKnown' /\ Known /\ [Next]_vars => Known'
<1> SUFFICES ASSUME Typed, JobKnown, JobKnown', Known, [Next]_vars PROVE Known'
  OBVIOUS
<1>0. /\ status \in [Sessions -> Statuses] /\ wants \in [Sessions -> Users \cup {None}]
      /\ user \in [Sessions -> Users \cup {None}] /\ members \in [Objects -> SUBSET Sessions]
      /\ job \in [Threads -> [of : Sessions \cup {None}, at : Places, to : Objects \cup {None}]]
      /\ \A t \in Threads : job[t].at \in {"insert", "joining", "joined"} => job[t].to # None
      /\ Main \in Threads
  BY Constants DEF Typed, JobKnown
<1>1. ASSUME NEW s \in Sessions, NEW u \in Users, LoginStep1(s, u) PROVE Known'
  BY <1>0, <1>1 DEF LoginStep1, rooms, Known
<1>2. ASSUME NEW s \in Sessions, LoginStep2(s) PROVE Known'
  <2>1. wants[s] \in Users /\ status' = [status EXCEPT ![s] = "authenticated"]
        /\ user' = [user EXCEPT ![s] = wants[s]] /\ UNCHANGED <<wants, members>>
        /\ job' = [job EXCEPT ![Main] = At(s, "default", None)]
    BY <1>2 DEF LoginStep2, rooms, Known
  <2>2. job'[Main] = At(s, "default", None) /\ \A t \in Threads \ {Main} : job'[t] = job[t]
    BY <1>0, <2>1
  <2>3. \A q \in Sessions : user[q] \in Users \/ q = s => user'[q] \in Users
    BY <1>0, <2>1
  <2>4. \A t \in Threads : user[job[t].of] \in Users => user'[job[t].of] \in Users
    <3>1. user'[s] \in Users /\ \A x : x # s => user'[x] = user[x] \/ x \notin Sessions
      BY <1>0, <2>1
    <3>2. \A t \in Threads : job[t].of \notin Sessions => user'[job[t].of] = user[job[t].of]
      <4>1. DOMAIN user = Sessions /\ None \notin Sessions
        BY <1>0, Constants
      <4> QED BY <1>0, <2>1, <4>1
    <3> QED BY <3>1, <3>2
  <2>5. At(s, "default", None).of = s
    BY DEF At
  <2> QED BY <1>0, <2>1, <2>2, <2>3, <2>4, <2>5 DEF Known
<1>3. ASSUME NEW s \in Sessions, LoginRejected(s) PROVE Known'
  BY <1>0, <1>3 DEF LoginRejected, rooms, Known
<1>4. ASSUME NEW t \in Threads, NEW s \in Sessions, NEW a, NEW o,
             job' = [job EXCEPT ![t] = At(s, a, o)], o # None \/ a # "leave" => user[s] \in Users,
             UNCHANGED <<wants, user, members>>,
             \A q \in Sessions : status'[q] = status[q] \/ status'[q] = "rejected"
      PROVE  Known'
  <2>1. \A u \in Threads : job'[u] = IF u = t THEN At(s, a, o) ELSE job[u]
    BY <1>0, <1>4
  <2>2. At(s, a, o).of = s /\ At(s, a, o).at = a /\ At(s, a, o).to = o
    BY DEF At
  <2> QED BY <1>4, <2>1, <2>2 DEF Known
<1>5. ASSUME NEW s \in Sessions, JoinDefault(s) PROVE Known'
  <2>1. job[Main] = At(s, "default", None) /\ user[s] \in Users
    BY <1>0, <1>5, JobTypes DEF JoinDefault, Known, Places
  <2>2. PICK o : job' = [job EXCEPT ![Main] = At(s, "insert", o)]
    BY <1>5 DEF JoinDefault
  <2> QED BY <1>0, <1>4, <1>5, <2>1, <2>2 DEF JoinDefault, who
<1>6. ASSUME NEW s \in Sessions, NEW n \in Names, JoinChannel(s, n) PROVE Known'
  BY <1>0, <1>4, <1>6 DEF JoinChannel, who, rooms, Known
<1>7. ASSUME NEW s \in Sessions, LeaveChannel(s) PROVE Known'
  BY <1>0, <1>4, <1>7 DEF LeaveChannel, who, rooms
<1>8. ASSUME NEW s \in Sessions, RemoveSession(s) PROVE Known'
  BY <1>0, <1>4, <1>8 DEF RemoveSession, rooms
<1>9. ASSUME NEW s \in Sessions, NEW t \in Threads, NEW n \in Names, CreateChannel(t, s, n) PROVE Known'
  <2>1. PICK o \in Objects : job' = [job EXCEPT ![t] = At(s, "leave", o)]
    BY <1>9 DEF CreateChannel
  <2> QED BY <1>4, <1>9, <2>1 DEF CreateChannel, who, Known
\* Those of no handler that ends or goes on.
<1>10. ASSUME UNCHANGED user, \A q \in Sessions : status'[q] = status[q] \/ status'[q] = "gone",
              \A q \in Sessions : status'[q] = "step2" => wants'[q] = wants[q],
              \A o \in Objects : \A s \in members'[o] : user[s] \in Users,
              \A u \in Threads : job'[u] = Idle \/ job'[u] = job[u]
                                 \/ /\ job'[u].of = job[u].of /\ job'[u].to = job[u].to
                                    /\ job'[u].at # "default"
                                    /\ job'[u].at = "leaving" => user[job[u].of] \in Users
       PROVE  Known'
  <2>1. \A u \in Threads :
           job'[u].to # None \/ job'[u].at \in {"leaving", "default", "insert", "joining", "joined"}
             => user[job'[u].of] \in Users
    <3> SUFFICES ASSUME NEW u \in Threads,
                        job'[u].to # None
                          \/ job'[u].at \in {"leaving", "default", "insert", "joining", "joined"}
                 PROVE  user[job'[u].of] \in Users
      OBVIOUS
    <3>1. job'[u] # Idle /\ (job'[u].at \in {"insert", "joining", "joined"} => job'[u].to # None)
      BY Constants DEF Idle, JobKnown
    <3>2. CASE job'[u] = job[u]
      BY <3>2 DEF Known
    <3>3. CASE /\ job'[u].of = job[u].of /\ job'[u].to = job[u].to /\ job'[u].at # "default"
               /\ job'[u].at = "leaving" => user[job[u].of] \in Users
      BY <3>1, <3>3 DEF Known
    <3> QED BY <1>10, <3>1, <3>2, <3>3
  <2> QED BY <1>10, <2>1 DEF Known
<1>11. ASSUME NEW t \in Threads, Step(t) PROVE Known'
  <2>1. \A o \in Objects : \A s \in members'[o] : user[s] \in Users
    <3>1. CASE Insert(t)
      <4>1. user[job[t].of] \in Users
        BY <3>1 DEF Insert, Known
      <4> QED BY <1>0, <3>1, <4>1 DEF Insert, Known
    <3>2. CASE Erase(t)
      <4>1. \A o \in Objects : members'[o] \subseteq members[o]
        BY <1>0, <3>2 DEF Erase
      <4> QED BY <4>1 DEF Known
    <3>3. CASE AnnounceLeave(t) \/ Left(t) \/ AnnounceJoin(t) \/ Joined(t)
      BY <3>3 DEF AnnounceLeave, Left, AnnounceJoin, Joined, rooms, Known
    <3> QED BY <1>11, <3>1, <3>2, <3>3 DEF Step
  <2>3. job'[t].at = "leaving" => user[job[t].of] \in Users
    <3>1. CASE Erase(t)
      <4> SUFFICES ASSUME job'[t].at = "leaving" PROVE user[job[t].of] \in Users
        OBVIOUS
      <4>1. channel[job[t].of] # None /\ job[t].of \in members[channel[job[t].of]]
        BY <1>0, <3>1 DEF Erase
      <4>2. channel[job[t].of] \in Objects
        BY <3>1, <4>1, StepFacts, <1>11 DEF Typed
      <4> QED BY <4>1, <4>2 DEF Known
    <3>2. CASE AnnounceLeave(t) \/ Insert(t) \/ AnnounceJoin(t)
      BY <1>0, <3>2 DEF AnnounceLeave, Insert, AnnounceJoin
    <3>3. CASE Left(t) \/ Joined(t)
      BY <1>0, <3>3, JobTypes DEF Left, Joined
    <3> QED BY <1>11, <3>1, <3>2, <3>3 DEF Step
  <2>2. \A u \in Threads : job'[u] = Idle \/ job'[u] = job[u]
                             \/ /\ job'[u].of = job[u].of /\ job'[u].to = job[u].to
                                /\ job'[u].at # "default"
                                /\ job'[u].at = "leaving" => user[job[u].of] \in Users
    BY <1>11, <2>3, StepFacts
  <2> QED BY <1>10, <1>11, <2>1, <2>2, StepFacts DEF who
<1>12. CASE Removed
  BY <1>0, <1>10, <1>12 DEF Removed, rooms, Known
<1>13. ASSUME UNCHANGED <<who, members, job>> PROVE Known'
  BY <1>10, <1>13 DEF who, Known
<1>14. CASE \/ StartTick \/ Scheduled \/ EndWait
            \/ \E w \in Workers : StartUpdate(w) \/ Visit(w) \/ EndUpdate(w)
            \/ \E s \in Sessions : Take(s) \/ Send(s)
            \/ UNCHANGED vars
  BY <1>13, <1>14 DEF StartTick, Scheduled, EndWait, StartUpdate, Visit, EndUpdate, Take, Send,
     vars, rooms
<1> QED BY <1>1, <1>2, <1>3, <1>5, <1>6, <1>7, <1>8, <1>9, <1>11, <1>12, <1>14 DEF Next, Handle

LEMMA RestStep == Typed /\ JobKnown /\ Known /\ Rest /\ [Next]_vars => Rest'
<1> SUFFICES ASSUME Typed, JobKnown, Known, Rest, [Next]_vars PROVE Rest'
  OBVIOUS
<1>1. ASSUME NEW o \in Objects, NEW n \in Names, NewChannel(o, n) PROVE name' \in [Objects -> Names \cup {None}]
  BY <1>1 DEF NewChannel, Rest
<1>2. ASSUME NEW s \in Sessions,
             \/ \E u \in Users : LoginStep1(s, u)
             \/ LoginStep2(s) \/ LoginRejected(s) \/ RemoveSession(s) \/ LeaveChannel(s)
             \/ \E n \in Names : JoinChannel(s, n)
      PROVE  Rest'
  BY <1>2 DEF LoginStep1, LoginStep2, LoginRejected, RemoveSession, LeaveChannel, JoinChannel,
     Doubled, rooms, tick, Rest
<1>3. ASSUME NEW s \in Sessions, JoinDefault(s) PROVE Rest'
  BY <1>1, <1>3, Constants DEF JoinDefault, tick, Rest
<1>4. ASSUME NEW s \in Sessions, NEW t \in Threads, NEW n \in Names, CreateChannel(t, s, n) PROVE Rest'
  BY <1>1, <1>4 DEF CreateChannel, Doubled, Rest
<1>5. CASE Removed
  <2>1. packets' \in [Sessions -> Seq(PacketSet)] /\ view' \in [Sessions -> SUBSET Users]
    <3>1. <<>> \in Seq(PacketSet)
      BY EmptySeq
    <3> QED BY <1>5, <3>1 DEF Removed, Rest
  <2> QED BY <1>5, <2>1 DEF Removed, rooms, tick, Rest
<1>6. ASSUME NEW t \in Threads, Erase(t) \/ Left(t) \/ Insert(t) \/ Joined(t) PROVE Rest'
  BY <1>6 DEF Erase, Left, Insert, Joined, rooms, tick, Rest
<1>7. ASSUME NEW t \in Threads, AnnounceLeave(t) PROVE Rest'
  <2>1. job[t].of \in Sessions /\ members \in [Objects -> SUBSET Sessions]
        /\ channel \in [Sessions -> Objects \cup {None}]
    BY <1>7, Constants DEF AnnounceLeave, Typed, JobKnown
  <2>2. List({}) \in PacketSet
    BY PacketTypes
  <2>3. Leave(user[job[t].of]) \in PacketSet
    BY <1>7, PacketTypes DEF AnnounceLeave, Known
  <2>4. packets' \in [Sessions -> Seq(PacketSet)]
    <3> SUFFICES ASSUME NEW q \in Sessions PROVE packets'[q] \in Seq(PacketSet)
      BY <1>7 DEF AnnounceLeave
    <3> QED BY <1>7, <2>2, <2>3, AppendProperties DEF AnnounceLeave, Rest
  <2> QED BY <1>7, <2>4 DEF AnnounceLeave, rooms, tick, Rest
<1>8. ASSUME NEW t \in Threads, AnnounceJoin(t) PROVE Rest'
  <2>1. user[job[t].of] \in Users /\ UsersOf(members[job[t].to]) \subseteq Users
    BY <1>8 DEF AnnounceJoin, Known, JobKnown, UsersOf
  <2>2. PICK v \in Lists(UsersOf(members[job[t].to])) :
          packets' = [q \in Sessions |->
            IF q = job[t].of THEN Append(packets[q], List(v))
            ELSE IF q \in members[job[t].to] THEN Append(packets[q], Join(user[job[t].of]))
            ELSE packets[q]]
    BY <1>8 DEF AnnounceJoin
  <2>3. List(v) \in PacketSet /\ Join(user[job[t].of]) \in PacketSet
    BY <2>1, PacketTypes DEF Lists
  <2>4. packets' \in [Sessions -> Seq(PacketSet)]
    <3> SUFFICES ASSUME NEW q \in Sessions PROVE packets'[q] \in Seq(PacketSet)
      BY <2>2
    <3> QED BY <2>2, <2>3, AppendProperties DEF Rest
  <2> QED BY <1>8, <2>4 DEF AnnounceJoin, rooms, tick, Rest
<1>9. CASE StartTick \/ Scheduled \/ EndWait
  BY <1>9 DEF StartTick, Scheduled, EndWait, Typed, rooms, Rest
<1>10. ASSUME NEW w \in Workers, StartUpdate(w) \/ Visit(w) \/ EndUpdate(w) PROVE Rest'
  <2>1. ASSUME upd[w] # None PROVE members[upd[w]] \subseteq Sessions
    BY <2>1 DEF Typed, Rest
  <2> QED BY <1>10, <2>1 DEF StartUpdate, Visit, EndUpdate, rooms, Rest
<1>11. CASE UNCHANGED vars
  BY <1>11 DEF vars, rooms, tick, Rest
<1>12. ASSUME NEW s \in Sessions, Take(s) PROVE Rest'
  <2>1. PICK i \in DOMAIN packets[s] : packets' = [packets EXCEPT ![s][i].taken = TRUE]
    BY <1>12 DEF Take
  <2>2. packets[s] \in Seq(PacketSet) /\ packets[s][i] \in PacketSet
    BY ElementOfSeq DEF Rest
  <2>3. [packets[s][i] EXCEPT !.taken = TRUE] \in PacketSet
    BY <2>2 DEF PacketSet
  <2>4. [packets[s] EXCEPT ![i] = [packets[s][i] EXCEPT !.taken = TRUE]] \in Seq(PacketSet)
    BY <2>2, <2>3, ExceptSeq
  <2>5. packets' = [packets EXCEPT ![s] = [packets[s] EXCEPT ![i] = [packets[s][i] EXCEPT !.taken = TRUE]]]
    BY <2>1
  <2>6. packets' \in [Sessions -> Seq(PacketSet)]
    BY <2>4, <2>5 DEF Rest
  <2> QED BY <1>12, <2>6 DEF Take, rooms, tick, Rest
<1>13. ASSUME NEW s \in Sessions, Send(s) PROVE Rest'
  <2>1. PICK i \in DOMAIN packets[s] :
          /\ packets' = [packets EXCEPT ![s] = RemoveAt(packets[s], i)]
          /\ \/ /\ view' = [view EXCEPT ![s] = Effect(packets[s][i], view[s])]
                /\ past' = past \/ past' = past \cup {"swapped"}
             \/ UNCHANGED <<view, past>>
    BY <1>13 DEF Send, Taken
  <2>2. packets[s] \in Seq(PacketSet) /\ i \in 1..Len(packets[s]) /\ packets[s][i] \in PacketSet
        /\ view[s] \in SUBSET Users
    BY ElementOfSeq, LenProperties DEF Rest
  <2>3. packets' \in [Sessions -> Seq(PacketSet)]
    BY <2>1, <2>2, RemoveAtFacts DEF Rest
  <2>4. view' \in [Sessions -> SUBSET Users]
    <3>1. Effect(packets[s][i], view[s]) \in SUBSET Users
      BY <2>2, EffectTypes
    <3> QED BY <2>1, <3>1 DEF Rest
  <2> QED BY <1>13, <2>1, <2>3, <2>4 DEF Send, rooms, tick, Rest
<1> QED BY <1>2, <1>3, <1>4, <1>5, <1>6, <1>7, <1>8, <1>9, <1>10, <1>11, <1>12, <1>13
        DEF Next, Handle, Step

Types == Typed /\ JobKnown /\ Known /\ Rest

LEMMA TypesInit == Init => Types
BY TypeInit, KnownInit DEF Types

LEMMA TypesStep == Types /\ [Next]_vars => Types'
BY TypeStep, KnownStep, RestStep DEF Types

\* The variables keep their types: whoever is shown in a list of users, is a member of
\* a channel or is taken into one has logged in as a user.
THEOREM Typing == Spec => []TypeOK
<1>1. Types => TypeOK
  BY DEF Types, Typed, Rest, TypeOK
<1> QED BY <1>1, TypesInit, TypesStep, PTL DEF Spec

-----------------------------------------------------------------------------
(* Channels in the list.                                                    *)

\* Who may be in a handler: a worker that visits a session, the main thread while no
\* tick is on its way.
Employed ==
    /\ \A w \in Workers : job[w] # Idle => inside[w] # None
    /\ \A w \in Workers : inside[w] # None => upd[w] # None
    /\ phase # "sessions" => job[Main] = Idle

LEMMA EmployedInit == Init => Employed
BY DEF Init, Employed, Threads

LEMMA EmployedStep == Types /\ Employed /\ [Next]_vars => Employed'
<1> SUFFICES ASSUME Types, Employed, [Next]_vars PROVE Employed'
  OBVIOUS
<1>0. /\ job \in [Threads -> [of : Sessions \cup {None}, at : Places, to : Objects \cup {None}]]
      /\ upd \in [Workers -> Objects \cup {None}] /\ inside \in [Workers -> Sessions \cup {None}]
      /\ members \in [Objects -> SUBSET Sessions] /\ due \subseteq Objects
      /\ Main \in Threads /\ Workers \subseteq Threads /\ Main \notin Workers
      /\ None \notin Sessions /\ None \notin Objects
      /\ Typed /\ JobKnown
  BY Constants, ThreadsAssumption DEF Types, Typed, Rest, Threads
<1>00. Idle' = Idle
  BY DEF Idle
\* A handler begins where one may, or goes on.
<1>1. ASSUME NEW t \in Threads, \A u \in Threads \ {t} : job'[u] = job[u], UNCHANGED <<phase, upd, inside>>,
             \/ job[t] # Idle
             \/ t = Main /\ phase = "sessions"
             \/ t \in Workers /\ inside[t] # None
      PROVE  Employed'
  BY <1>0, <1>00, <1>1 DEF Employed
<1>2. ASSUME NEW s \in Sessions,
             \/ LoginStep2(s) \/ RemoveSession(s) \/ LeaveChannel(s)
             \/ \E n \in Names : JoinChannel(s, n)
      PROVE  Employed'
  <2>1. \A u \in Threads \ {Main} : job'[u] = job[u]
    BY <1>0, <1>2 DEF LoginStep2, RemoveSession, LeaveChannel, JoinChannel
  <2>2. UNCHANGED tick /\ phase = "sessions"
    BY <1>2 DEF LoginStep2, RemoveSession, LeaveChannel, JoinChannel, MainMayRun
  <2> QED BY <1>0, <1>1, <2>1, <2>2 DEF tick
<1>3. ASSUME NEW s \in Sessions, JoinDefault(s) PROVE Employed'
  <2>1. \A u \in Threads \ {Main} : job'[u] = job[u]
    BY <1>0, <1>3 DEF JoinDefault
  <2>2. UNCHANGED tick /\ job[Main] # Idle
    BY <1>3 DEF JoinDefault, At, Idle
  <2> QED BY <1>0, <1>1, <2>1, <2>2 DEF tick
<1>4. CASE Removed
  <2>1. \A u \in Threads \ {Main} : job'[u] = job[u]
    BY <1>0, <1>4 DEF Removed
  <2>2. UNCHANGED tick /\ job[Main] # Idle
    BY <1>4 DEF Removed, Idle
  <2> QED BY <1>0, <1>1, <2>1, <2>2 DEF tick
<1>5. ASSUME NEW s \in Sessions, NEW t \in Threads, NEW n \in Names, CreateChannel(t, s, n)
      PROVE  Employed'
  <2>1. \A u \in Threads \ {t} : job'[u] = job[u]
    BY <1>0, <1>5 DEF CreateChannel
  <2>2. UNCHANGED <<phase, upd, inside>>
    BY <1>5 DEF CreateChannel
  <2>3. \/ t = Main /\ phase = "sessions"
        \/ t \in Workers /\ inside[t] # None
    BY <1>0, <1>5 DEF CreateChannel, MainMayRun, WorkerMayRun, Threads
  <2> QED BY <1>1, <2>1, <2>2, <2>3
<1>6. ASSUME NEW t \in Threads, Step(t) PROVE Employed'
  BY <1>0, <1>1, <1>6, StepFacts DEF tick
<1>7. CASE StartTick \/ Scheduled \/ EndWait
  BY <1>7, <1>00 DEF StartTick, Scheduled, EndWait, Employed
<1>8. ASSUME NEW w \in Workers, StartUpdate(w) \/ Visit(w) \/ EndUpdate(w) PROVE Employed'
  <2>1. UNCHANGED <<job, phase>>
    BY <1>8 DEF StartUpdate, Visit, EndUpdate
  <2>2. CASE StartUpdate(w)
    BY <1>0, <1>00, <2>1, <2>2 DEF StartUpdate, Employed
  <2>3. CASE Visit(w)
    BY <1>0, <1>00, <2>1, <2>3 DEF Visit, Employed
  <2>4. CASE EndUpdate(w)
    BY <1>0, <1>00, <2>1, <2>4 DEF EndUpdate, Employed
  <2> QED BY <1>8, <2>2, <2>3, <2>4
<1>9. ASSUME UNCHANGED <<job, phase, upd, inside>> PROVE Employed'
  BY <1>9, <1>00 DEF Employed
<1>10. CASE \/ \E s \in Sessions : LoginRejected(s) \/ \E u \in Users : LoginStep1(s, u)
            \/ \E s \in Sessions : Take(s) \/ Send(s)
            \/ UNCHANGED vars
  BY <1>9, <1>10 DEF LoginRejected, LoginStep1, Take, Send, vars, tick
<1> QED BY <1>2, <1>3, <1>4, <1>5, <1>6, <1>7, <1>8, <1>10 DEF Next, Handle

\* The channel can be found by its name, if it has one.
Listed(o) == name[o] \in Names /\ (name[o] # Empty => registered[name[o]] = o)

Found == \A n \in Names : registered[n] # None => name[registered[n]] = n

Listing == past \cap {"early", "doubled"} = {} =>
    /\ \A s \in Sessions : channel[s] # None => Listed(channel[s])
    /\ \A t \in Threads : job[t].to # None => Listed(job[t].to)

LEMMA ListingInit == Init => Found /\ Listing
BY Constants DEF Init, Found, Listing, Idle

LEMMA FoundStep == Types /\ Found /\ [Next]_vars => Found'
<1> SUFFICES ASSUME Types, Found, [Next]_vars PROVE Found'
  OBVIOUS
<1>0. name \in [Objects -> Names \cup {None}] /\ registered \in [Names -> Objects \cup {None}]
      /\ None \notin Objects /\ None \notin Names /\ Default \in Names
  BY NoneAssumption, Constants DEF Types, Typed, Rest
<1>1. ASSUME NEW o \in Objects, NEW n \in Names, NewChannel(o, n) PROVE Found'
  <2>1. /\ \A p \in Objects : name'[p] = IF p = o THEN n ELSE name[p]
        /\ \A m \in Names : registered'[m] = IF m = n THEN o ELSE registered[m]
    BY <1>0, <1>1 DEF NewChannel
  <2>2. \A m \in Names : registered[m] # o
    BY <1>0, <1>1 DEF NewChannel, Found
  <2> QED BY <1>0, <2>1, <2>2 DEF Found
<1>2. CASE EndWait
  BY <1>0, <1>2 DEF EndWait, Found
<1>3. ASSUME UNCHANGED <<name, registered>> PROVE Found'
  BY <1>3 DEF Found
<1>4. ASSUME NEW s \in Sessions, Handle(s) PROVE Found'
  <2>1. CASE JoinDefault(s)
    BY <1>0, <1>1, <1>3, <2>1 DEF JoinDefault
  <2>2. ASSUME NEW t \in Threads, NEW n \in Names, CreateChannel(t, s, n) PROVE Found'
    BY <1>1, <2>2 DEF CreateChannel
  <2>3. CASE \/ \E u \in Users : LoginStep1(s, u)
             \/ LoginStep2(s) \/ LoginRejected(s) \/ LeaveChannel(s) \/ RemoveSession(s) \/ Removed
             \/ \E n \in Names : JoinChannel(s, n)
    BY <1>3, <2>3 DEF LoginStep1, LoginStep2, LoginRejected, LeaveChannel, RemoveSession, Removed,
       JoinChannel, rooms
  <2> QED BY <1>4, <2>1, <2>2, <2>3 DEF Handle
<1>5. ASSUME NEW t \in Threads, Step(t) PROVE Found'
  BY <1>3, <1>5, StepFacts DEF Types
<1>6. CASE \/ StartTick \/ Scheduled
           \/ \E w \in Workers : StartUpdate(w) \/ Visit(w) \/ EndUpdate(w)
           \/ \E s \in Sessions : Take(s) \/ Send(s)
           \/ UNCHANGED vars
  BY <1>3, <1>6 DEF StartTick, Scheduled, StartUpdate, Visit, EndUpdate, Take, Send, vars, rooms
<1> QED BY <1>2, <1>4, <1>5, <1>6 DEF Next

\* Unless the main thread passes the barrier too early, nobody is in a handler when the
\* deserted channels are deleted.
LEMMA NobodyAtWork ==
  ASSUME Types, Employed, EndWait, "early" \notin past'
  PROVE  \A t \in Threads : job[t] = Idle
<1>1. upd \in [Workers -> Objects \cup {None}]
  BY DEF Types, Rest
<1>2. \A w \in Workers : upd[w] = None
  BY DEF EndWait, Updating
<1>3. phase # "sessions"
  BY DEF EndWait
<1> QED BY <1>2, <1>3 DEF Employed, Threads

LEMMA ListingStep == Types /\ Employed /\ IInv /\ Found /\ Listing /\ [Next]_vars => Listing'
<1> SUFFICES ASSUME Types, Employed, IInv, Found, Listing, [Next]_vars,
                    past' \cap {"early", "doubled"} = {}
             PROVE  Listing'
  BY DEF Listing
<1>0. /\ name \in [Objects -> Names \cup {None}] /\ registered \in [Names -> Objects \cup {None}]
      /\ channel \in [Sessions -> Objects \cup {None}]
      /\ job \in [Threads -> [of : Sessions \cup {None}, at : Places, to : Objects \cup {None}]]
      /\ None \notin Objects /\ None \notin Names /\ Default \in Names /\ Empty # Default
      /\ Main \in Threads
  BY NoneAssumption, NamesAssumption, Constants DEF Types, Typed, Rest
<1>1. past \cap {"early", "doubled"} = {}
  BY PastGrows
<1>2. /\ \A s \in Sessions : channel[s] # None => Listed(channel[s])
      /\ \A t \in Threads : job[t].to # None => Listed(job[t].to)
      /\ Agreed
  BY <1>1 DEF Listing, IInv
<1>3. ASSUME \A o \in Objects : Listed(o) => Listed(o)',
             NEW x \in Objects \cup {None}, x # None => Listed(x)',
             \A s \in Sessions : channel'[s] \in {channel[s], None, x},
             \A t \in Threads : job'[t].to \in {job[t].to, None, x}
      PROVE  Listing'
  <2>1. ASSUME NEW y \in Objects, Listed(y) \/ y = x PROVE Listed(y)'
    BY <1>0, <1>3, <2>1
  <2>2. ASSUME NEW s \in Sessions, channel'[s] # None PROVE Listed(channel[s])'
    <3>1. PICK y \in Objects : y = channel'[s]
      BY <1>0, <1>3, <2>2
    <3>2. Listed(y)'
      BY <1>0, <1>2, <1>3, <2>1, <2>2, <3>1
    <3> QED BY <3>1, <3>2 DEF Listed
  <2>3. ASSUME NEW t \in Threads, job'[t].to # None PROVE Listed(job[t].to)'
    <3>1. PICK y \in Objects : y = job'[t].to
      BY <1>0, <1>3, <2>3
    <3>2. Listed(y)'
      BY <1>0, <1>2, <1>3, <2>1, <2>3, <3>1
    <3> QED BY <3>1, <3>2 DEF Listed
  <2> QED BY <2>2, <2>3 DEF Listing
<1>4. ASSUME NEW o \in Objects, NEW n \in Names, NewChannel(o, n), FindChannel(n) = None
      PROVE  Listed(o)' /\ \A p \in Objects : Listed(p) => Listed(p)'
  <2>1. /\ \A p \in Objects : name'[p] = IF p = o THEN n ELSE name[p]
        /\ \A m \in Names : registered'[m] = IF m = n THEN o ELSE registered[m]
    BY <1>0, <1>4 DEF NewChannel
  <2>2. n = Empty \/ registered[n] = None
    BY <1>4 DEF FindChannel
  <2>3. Listed(o)'
    BY <2>1 DEF Listed
  <2>4. ASSUME NEW p \in Objects, Listed(p) PROVE Listed(p)'
    BY <1>0, <1>4, <2>1, <2>2, <2>4 DEF Listed, NewChannel
  <2> QED BY <2>3, <2>4
<1>5. ASSUME UNCHANGED <<name, registered>> PROVE \A p \in Objects : Listed(p) <=> Listed(p)'
  BY <1>5 DEF Listed
<1>6. \A n \in Names : FindChannel(n) # None => registered[n] \in Objects /\ Listed(registered[n])
  BY <1>0 DEF FindChannel, Found, Listed
\* Handlers that begin.
<1>7. ASSUME NEW s \in Sessions, NEW t \in Threads, NEW a, NEW o \in Objects \cup {None},
             job' = [job EXCEPT ![t] = At(s, a, o)], o # None => Listed(o)',
             UNCHANGED channel, \A p \in Objects : Listed(p) => Listed(p)'
      PROVE  Listing'
  <2>1. \A u \in Threads : job'[u] = IF u = t THEN At(s, a, o) ELSE job[u]
    BY <1>0, <1>7
  <2>2. At(s, a, o).to = o
    BY DEF At
  <2>3. \A u \in Threads : job'[u].to \in {job[u].to, None, o}
    BY <2>1, <2>2
  <2> QED BY <1>3, <1>7, <2>3
<1>8. ASSUME NEW s \in Sessions, LoginStep2(s) \/ LeaveChannel(s) \/ RemoveSession(s) PROVE Listing'
  <2>1. PICK a : job' = [job EXCEPT ![Main] = At(s, a, None)]
    BY <1>8 DEF LoginStep2, LeaveChannel, RemoveSession
  <2>2. UNCHANGED <<name, registered, channel>>
    BY <1>8 DEF LoginStep2, LeaveChannel, RemoveSession, rooms
  <2> QED BY <1>0, <1>5, <1>7, <2>1, <2>2
<1>9. ASSUME NEW s \in Sessions, NEW n \in Names, JoinChannel(s, n) PROVE Listing'
  <2>1. job' = [job EXCEPT ![Main] = At(s, "leave", registered[n])] /\ FindChannel(n) # None
        /\ UNCHANGED <<name, registered, channel>>
    BY <1>9 DEF JoinChannel, rooms
  <2>2. PICK o \in Objects : o = registered[n] /\ Listed(o)
    BY <1>6, <2>1
  <2> QED BY <1>0, <1>5, <1>7, <2>1, <2>2
<1>10. ASSUME NEW s \in Sessions, JoinDefault(s) PROVE Listing'
  <2>1. CASE FindChannel(Default) # None
    <3>1. job' = [job EXCEPT ![Main] = At(s, "insert", registered[Default])]
          /\ UNCHANGED <<name, registered, channel>>
      BY <1>10, <2>1 DEF JoinDefault
    <3>2. PICK o \in Objects : o = registered[Default] /\ Listed(o)
      BY <1>0, <1>6, <2>1
    <3> QED BY <1>0, <1>5, <1>7, <3>1, <3>2
  <2>2. CASE FindChannel(Default) = None
    <3>1. PICK o \in Objects : NewChannel(o, Default) /\ job' = [job EXCEPT ![Main] = At(s, "insert", o)]
      BY <1>10, <2>2 DEF JoinDefault
    <3> QED BY <1>0, <1>4, <1>7, <1>10, <2>2, <3>1 DEF JoinDefault
  <2> QED BY <2>1, <2>2
<1>11. ASSUME NEW s \in Sessions, NEW t \in Threads, NEW n \in Names, CreateChannel(t, s, n) PROVE Listing'
  <2>1. PICK o \in Objects : NewChannel(o, n) /\ job' = [job EXCEPT ![t] = At(s, "leave", o)]
    BY <1>11 DEF CreateChannel
  <2> QED BY <1>4, <1>7, <1>11, <2>1 DEF CreateChannel
\* Handlers that go on.
<1>12. ASSUME NEW t \in Threads, Step(t) PROVE Listing'
  <2>1. \A u \in Threads : job'[u].to \in {job[u].to, None}
    BY <1>12, StepFacts DEF Types, Idle
  <2>2. UNCHANGED <<name, registered>>
    BY <1>12, StepFacts DEF Types
  <2>3. \A s \in Sessions : channel'[s] \in {channel[s], None, job[t].to}
    <3>1. CASE Erase(t) \/ AnnounceLeave(t) \/ Insert(t) \/ AnnounceJoin(t)
      BY <3>1 DEF Erase, AnnounceLeave, Insert, AnnounceJoin
    <3>2. CASE Left(t) \/ Joined(t)
      BY <1>0, <3>2 DEF Left, Joined
    <3> QED BY <1>12, <3>1, <3>2 DEF Step
  <2>4. PICK x \in Objects \cup {None} : x = job[t].to /\ (x # None => Listed(x))
    BY <1>0, <1>2
  <2>5. x # None => Listed(x)'
    BY <1>5, <2>2, <2>4
  <2>6. /\ \A s \in Sessions : channel'[s] \in {channel[s], None, x}
        /\ \A u \in Threads : job'[u].to \in {job[u].to, None, x}
    BY <2>1, <2>3, <2>4
  <2> QED BY <1>3, <1>5, <2>2, <2>5, <2>6
<1>13. CASE Removed
  <2>1. \A u \in Threads : job'[u].to \in {job[u].to, None}
    BY <1>0, <1>13 DEF Removed, Idle
  <2>2. UNCHANGED <<name, registered>> /\ \A s \in Sessions : channel'[s] \in {channel[s], None}
    BY <1>0, <1>13 DEF Removed, rooms
  <2> QED BY <1>3, <1>5, <2>1, <2>2
\* A channel that is deleted has no members, and nobody is about to enter it.
<1>14. CASE EndWait
  <2>1. \A t \in Threads : job[t] = Idle
    BY <1>14, NobodyAtWork
  <2>2. PICK gone \in SUBSET {n \in Names : Deserted(n)} :
            registered' = [n \in Names |-> IF n \in gone THEN None ELSE registered[n]]
    BY <1>14 DEF EndWait
  <2>3. UNCHANGED <<name, channel, job, members>>
    BY <1>14 DEF EndWait
  <2>4. ASSUME NEW s \in Sessions, channel'[s] # None PROVE Listed(channel[s])'
    <3>1. Listed(channel[s]) /\ channel[s] \in Objects
      BY <1>0, <1>2, <2>3, <2>4
    <3>2. Settled(s)
      BY <1>2, <2>1, JobTypes, Constants DEF Agreed, Busy
    <3>3. s \in members[channel[s]]
      BY <3>1, <3>2 DEF Settled
    <3>4. \A n \in gone : registered[n] # channel[s]
      BY <2>2, <3>3 DEF Deserted
    <3> QED BY <2>2, <2>3, <3>1, <3>4 DEF Listed
  <2>5. \A t \in Threads : job'[t].to = None
    BY <2>1, <2>3 DEF Idle
  <2> QED BY <2>4, <2>5 DEF Listing
<1>15. ASSUME UNCHANGED <<name, registered, channel, job>> PROVE Listing'
  BY <1>0, <1>3, <1>5, <1>15
<1>16. CASE \/ StartTick \/ Scheduled
            \/ \E s \in Sessions : LoginRejected(s) \/ \E u \in Users : LoginStep1(s, u)
            \/ \E w \in Workers : StartUpdate(w) \/ Visit(w) \/ EndUpdate(w)
            \/ \E s \in Sessions : Take(s) \/ Send(s)
            \/ UNCHANGED vars
  BY <1>15, <1>16 DEF StartTick, Scheduled, LoginRejected, LoginStep1, StartUpdate, Visit, EndUpdate,
     Take, Send, vars, rooms
<1> QED BY <1>8, <1>9, <1>10, <1>11, <1>12, <1>13, <1>14, <1>16 DEF Next, Handle

LEMMA IInvInit == Init => IInv
BY TypeInit, AgreedInit DEF IInv

LEMMA IInvStep == IInv /\ [Next]_vars => IInv'
BY TypeStep, AgreedStep DEF IInv

\* Whoever is in a channel with a name is in one that can be found by it: it is not
\* deleted while somebody is in it or about to enter it, unless the main thread passes
\* the barrier too early or two threads have been in handlers of one session.
THEOREM ChannelsAreListed == Spec => []InListedChannel
<1>1. Types /\ Found /\ Listing => InListedChannel
  BY DEF Types, Listing, Listed, InListedChannel
<1> QED BY <1>1, TypesInit, TypesStep, EmployedInit, EmployedStep, IInvInit, IInvStep,
           ListingInit, FoundStep, ListingStep, PTL DEF Spec

-----------------------------------------------------------------------------
(* Lists of users.                                                          *)

\* Sessions with a user, which others may see.
Named == {s \in Sessions : user[s] # None /\ status[s] # "gone"}

Joining(s) == \E t \in Threads : job[t].at = "joining" /\ job[t].of = s
Leaving(s, o) == channel[s] = o /\ \E t \in Threads : job[t].at = "leaving" /\ job[t].of = s

\* Outside of the channels, with nothing to be told of the one it was in.
Out(s) == /\ \A o \in Objects : s \notin members[o]
          /\ \A t \in Threads : job[t].at = "leaving" => job[t].of # s

\* A session is given its user at the end of its login and keeps it; one with a user that
\* is not logged in any more is being removed.
Users_Kept ==
    /\ \A s \in Sessions : status[s] \in {"connected", "step2"} => user[s] = None
    /\ \A s \in Sessions : status[s] = "rejected" /\ user[s] # None =>
         job[Main].of = s /\ job[Main].at \in {"leave", "leaving", "left"}
    /\ \A t \in Threads : job[t].of # None => status[job[t].of] # "gone"
    /\ \A t \in Threads : job[t].at = "leaving" => user[job[t].of] # None
    /\ \A o \in Objects : members[o] \subseteq Named
    /\ \A s, q \in Named : Fold(user[s]) = Fold(user[q]) => s = q

\* Of what the clients will show when all their packets have been sent: a member is shown
\* the members whose joining was announced, and nobody but members and those whose leaving
\* was not.
Shown_Right(o, told) ==
    /\ \A q, r \in members[o] : ~Joining(q) /\ ~Joining(r) => user[r] \in told[q]
    /\ \A q \in members[o] : ~Joining(q) => \A u \in told[q] :
         \E r \in Sessions : user[r] = u /\ (r \in members[o] \/ Leaving(r, o))

Shows(told) == /\ \A s \in Sessions : Out(s) => told[s] = {}
               /\ \A o \in Objects : Shown_Right(o, told)

\* The packets q make a client that shows the names v show the names u: through the
\* lists w, one after every packet.
Leads(v, q, u) ==
    \E w \in [1..Len(q) + 1 -> SUBSET Users] :
      /\ w[1] = v /\ w[Len(q) + 1] = u
      /\ \A i \in 1..Len(q) : w[i+1] = Effect(q[i], w[i])

Delivered(told) == \A s \in Present : Leads(view[s], packets[s], told[s])

\* What each client will show when all its packets have been sent.
Tellings == [Sessions -> SUBSET Users]

Clear == past = {} => Users_Kept /\ \E told \in Tellings : Shows(told) /\ Delivered(told)

\* What a join leaves in the list of a client.
LEMMA ShownFacts ==
  ASSUME NEW v, NEW u
  PROVE  /\ Shown(v, u) = v \/ Shown(v, u) = v \cup {u}
         /\ (\E r \in v : Fold(r) = Fold(u)) => Shown(v, u) = v
         /\ (~\E r \in v : Fold(r) = Fold(u)) => Shown(v, u) = v \cup {u}
<1>1. CASE \E r \in v : Fold(r) = Fold(u)
  <2>1. Shown(v, u) = v
    BY <1>1 DEF Shown
  <2> QED BY <1>1, <2>1
<1>2. CASE ~\E r \in v : Fold(r) = Fold(u)
  <2>1. Shown(v, u) = v \cup {u}
    BY <1>2 DEF Shown
  <2> QED BY <1>2, <2>1
<1> QED BY <1>1, <1>2

LEMMA LeadsNowhere == ASSUME NEW v \in SUBSET Users PROVE Leads(v, <<>>, v)
<1>1. PICK w : w = [i \in 1..1 |-> v]
  OBVIOUS
<1>2. w \in [1..1 -> SUBSET Users] /\ w[1] = v /\ Len(<<>>) = 0
  BY <1>1
<1> QED BY <1>2 DEF Leads

\* One packet more, behind the others.
LEMMA LeadsOn ==
  ASSUME NEW v, NEW u, NEW q \in Seq(PacketSet), NEW p \in PacketSet, Leads(v, q, u)
  PROVE  Leads(v, Append(q, p), Effect(p, u))
<1>1. PICK w \in [1..Len(q) + 1 -> SUBSET Users] :
        /\ w[1] = v /\ w[Len(q) + 1] = u
        /\ \A i \in 1..Len(q) : w[i+1] = Effect(q[i], w[i])
  BY DEF Leads
<1>2. PICK n \in Nat : n = Len(q)
  BY LenProperties
<1>3. PICK r : r = Append(q, p)
  OBVIOUS
<1>4. Len(r) = n + 1 /\ r[n+1] = p /\ \A i \in 1..n : r[i] = q[i]
  BY <1>2, <1>3, AppendProperties
<1>5. PICK x : x = Effect(p, u) /\ x \in SUBSET Users
  BY <1>1, <1>2, EffectTypes
<1>6. PICK y : y = [i \in 1..n + 2 |-> IF i = n + 2 THEN x ELSE w[i]]
  OBVIOUS
<1>7. y \in [1..n + 2 -> SUBSET Users] /\ y[1] = v /\ y[n + 2] = x
  BY <1>1, <1>2, <1>5, <1>6
<1>8. ASSUME NEW i \in 1..n + 1 PROVE y[i+1] = Effect(r[i], y[i])
  <2>1. CASE i = n + 1
    BY <1>1, <1>2, <1>4, <1>5, <1>6, <2>1
  <2>2. CASE i # n + 1
    <3>1. i \in 1..n
      BY <2>2
    <3>2. y[i+1] = w[i+1] /\ y[i] = w[i]
      BY <1>6, <3>1
    <3> QED BY <1>1, <1>2, <1>4, <3>1, <3>2
  <2> QED BY <2>1, <2>2
<1>9. Leads(v, r, x)
  <2>1. Len(r) = n + 1 /\ Len(r) + 1 = n + 2
    BY <1>4
  <2>2. y \in [1..Len(r) + 1 -> SUBSET Users] /\ y[Len(r) + 1] = x
    BY <1>7, <2>1
  <2>3. \A i \in 1..Len(r) : y[i+1] = Effect(r[i], y[i])
    BY <1>8, <2>1
  <2> QED BY <1>7, <2>2, <2>3 DEF Leads
<1> QED BY <1>3, <1>5, <1>9

\* The first packet is sent.
LEMMA LeadsFrom ==
  ASSUME NEW v, NEW u, NEW q \in Seq(PacketSet), 1 \in DOMAIN q, Leads(v, q, u)
  PROVE  Leads(Effect(q[1], v), RemoveAt(q, 1), u)
<1>0. /\ Len(q) \in Nat \ {0} /\ Len(RemoveAt(q, 1)) = Len(q) - 1
      /\ \A i \in 1..Len(q) - 1 : RemoveAt(q, 1)[i] = q[i+1]
  BY FirstSent
<1>1. PICK w \in [1..Len(q) + 1 -> SUBSET Users] :
        /\ w[1] = v /\ w[Len(q) + 1] = u
        /\ \A i \in 1..Len(q) : w[i+1] = Effect(q[i], w[i])
  BY DEF Leads
<1>2. PICK n \in Nat : n + 1 = Len(q)
  <2>1. Len(q) \in Nat \ {0}
    BY <1>0
  <2>2. Len(q) - 1 \in Nat /\ (Len(q) - 1) + 1 = Len(q)
    BY <2>1
  <2> QED BY <2>2
<1>3. PICK r : r = RemoveAt(q, 1)
  OBVIOUS
<1>4. Len(r) = n /\ \A i \in 1..n : r[i] = q[i+1]
  <2>1. Len(q) - 1 = n
    BY <1>2
  <2> QED BY <1>0, <1>3, <2>1
<1>5. PICK y : y = [i \in 1..n + 1 |-> w[i+1]]
  OBVIOUS
<1>6. y \in [1..n + 1 -> SUBSET Users] /\ y[n + 1] = u
  BY <1>1, <1>2, <1>5
<1>7. y[1] = Effect(q[1], v)
  BY <1>1, <1>2, <1>5
<1>8. ASSUME NEW i \in 1..n PROVE y[i+1] = Effect(r[i], y[i])
  <2>1. i + 1 \in 1..n + 1 /\ y[i+1] = w[(i+1)+1] /\ y[i] = w[i+1]
    BY <1>5
  <2> QED BY <1>1, <1>2, <1>4, <2>1
<1>9. Leads(y[1], r, u)
  <2>1. y \in [1..Len(r) + 1 -> SUBSET Users] /\ y[Len(r) + 1] = u
    BY <1>4, <1>6
  <2>2. \A i \in 1..Len(r) : y[i+1] = Effect(r[i], y[i])
    BY <1>4, <1>8
  <2> QED BY <2>1, <2>2 DEF Leads
<1> QED BY <1>3, <1>7, <1>9

\* A packet is taken out of _sendQueue.
LEMMA LeadsTaken ==
  ASSUME NEW v, NEW u, NEW q \in Seq(PacketSet), NEW i \in DOMAIN q, Leads(v, q, u)
  PROVE  Leads(v, [q EXCEPT ![i] = [q[i] EXCEPT !.taken = TRUE]], u)
<1>1. PICK w \in [1..Len(q) + 1 -> SUBSET Users] :
        /\ w[1] = v /\ w[Len(q) + 1] = u
        /\ \A j \in 1..Len(q) : w[j+1] = Effect(q[j], w[j])
  BY DEF Leads
<1>2. PICK p : p = [q[i] EXCEPT !.taken = TRUE]
  OBVIOUS
<1>3. i \in 1..Len(q) /\ q[i] \in PacketSet
  BY LenProperties, ElementOfSeq
<1>4. p \in PacketSet /\ \A x : Effect(p, x) = Effect(q[i], x)
  BY <1>2, <1>3 DEF PacketSet, Effect
<1>5. PICK r : r = [q EXCEPT ![i] = p]
  OBVIOUS
<1>6. Len(r) = Len(q) /\ \A j \in 1..Len(q) : r[j] = IF j = i THEN p ELSE q[j]
  BY <1>3, <1>4, <1>5, ExceptSeq
<1>7. \A j \in 1..Len(q) : w[j+1] = Effect(r[j], w[j])
  BY <1>1, <1>4, <1>6
<1>8. Leads(v, r, u)
  BY <1>1, <1>6, <1>7 DEF Leads
<1> QED BY <1>2, <1>5, <1>8

LEMMA ClearInit == Init => Clear
<1> SUFFICES ASSUME Init PROVE Clear
  OBVIOUS
<1>1. Users_Kept
  BY Constants DEF Init, Users_Kept, Named, Idle
<1>2. PICK told : told = [s \in Sessions |-> {}]
  OBVIOUS
<1>3. told \in Tellings /\ \A s \in Sessions : told[s] = {}
  BY <1>2 DEF Tellings
<1>4. Shows(told)
  BY <1>3 DEF Init, Shows, Shown_Right
<1>5. Delivered(told)
  BY <1>3, LeadsNowhere DEF Init, Delivered, Present
<1> QED BY <1>1, <1>3, <1>4, <1>5 DEF Clear

\* Nobody is in two channels.
LEMMA OneRoom ==
  ASSUME Typed, JobKnown, Agreed, NEW s \in Sessions, NEW o \in Objects, NEW p \in Objects,
         s \in members[o], s \in members[p]
  PROVE  o = p
<1>1. CASE ~Busy(s)
  BY <1>1 DEF Agreed, Settled
<1>2. CASE Busy(s)
  <2>1. PICK t \in Threads : job[t].of = s
    BY <1>2 DEF Busy
  <2>2. AtItsPlace(t) /\ job[t].at \in Places \ {"idle"}
    BY <2>1, Constants DEF Agreed, Typed, JobKnown
  <2>3. Settled(s) \/ Apart(s) \/ Entered(s, job[t].to)
    BY <2>1, <2>2 DEF AtItsPlace, Places
  <2> QED BY <2>3 DEF Settled, Apart, Entered
<1> QED BY <1>1, <1>2

LEMMA UsersKeptStep ==
  Types /\ IInv /\ IInv' /\ Users_Kept /\ past' = {} /\ [Next]_vars => Users_Kept'
<1> SUFFICES ASSUME Types, IInv, IInv', Users_Kept, past' = {}, [Next]_vars PROVE Users_Kept'
  OBVIOUS
<1>0. /\ status \in [Sessions -> Statuses] /\ user \in [Sessions -> Users \cup {None}]
      /\ members \in [Objects -> SUBSET Sessions] /\ channel \in [Sessions -> Objects \cup {None}]
      /\ job \in [Threads -> [of : Sessions \cup {None}, at : Places, to : Objects \cup {None}]]
      /\ Main \in Threads /\ None \notin Sessions /\ None \notin Objects /\ None \notin Users
      /\ Typed /\ JobKnown /\ Known
      /\ \A t \in Threads : job[t].of = None <=> job[t].at = "idle"
  BY NoneAssumption, Constants DEF Types, Typed, JobKnown
<1>00. past = {} /\ Agreed /\ Alone /\ Outside /\ Agreed'
  BY PastGrows DEF IInv, Agreed
<1>01. job[Main] = Idle => \A s \in Sessions : status[s] = "rejected" => user[s] = None
  BY <1>0, JobTypes DEF Users_Kept
\* Nothing is said of a thread that begins to take a session out of its channel.
<1>1. ASSUME NEW s \in Sessions, NEW t \in Threads, NEW a, NEW o, a # "leaving",
             job' = [job EXCEPT ![t] = At(s, a, o)], UNCHANGED <<members, user, status>>,
             status[s] # "gone", t = Main => job[Main].at \notin {"leave", "leaving", "left"}
      PROVE  Users_Kept'
  <2>1. \A u \in Threads : job'[u] = IF u = t THEN At(s, a, o) ELSE job[u]
    BY <1>0, <1>1
  <2>2. At(s, a, o).of = s /\ At(s, a, o).at = a
    BY DEF At
  <2>3. Named' = Named
    BY <1>1 DEF Named
  <2>4. \A q \in Sessions : status[q] = "rejected" /\ user[q] # None =>
          job'[Main].of = q /\ job'[Main].at \in {"leave", "leaving", "left"}
    BY <1>0, <1>1, <2>1 DEF Users_Kept
  <2> QED BY <1>0, <1>1, <2>1, <2>2, <2>3, <2>4 DEF Users_Kept
<1>2. ASSUME UNCHANGED <<members, user, status, job>> PROVE Users_Kept'
  BY <1>2 DEF Users_Kept, Named
<1>3. ASSUME NEW s \in Sessions, NEW u \in Users, LoginStep1(s, u) PROVE Users_Kept'
  <2>1. status' = [status EXCEPT ![s] = "step2"] /\ status[s] = "connected"
        /\ UNCHANGED <<user, members, job>>
    BY <1>3 DEF LoginStep1, rooms
  <2>2. \A q \in Sessions : status'[q] = IF q = s THEN "step2" ELSE status[q]
    BY <1>0, <2>1
  <2>3. Named' = Named
    BY <2>1, <2>2 DEF Named
  <2>4. \A t \in Threads : job[t].of # s
    BY <1>00, <2>1 DEF Outside, Busy
  <2> QED BY <1>0, <2>1, <2>2, <2>3, <2>4 DEF Users_Kept
<1>4. ASSUME NEW s \in Sessions, LoginRejected(s) PROVE Users_Kept'
  <2>1. status' = [status EXCEPT ![s] = "rejected"] /\ status[s] = "step2"
        /\ UNCHANGED <<user, members, job>>
    BY <1>4 DEF LoginRejected, rooms
  <2>2. \A q \in Sessions : status'[q] = IF q = s THEN "rejected" ELSE status[q]
    BY <1>0, <2>1
  <2>3. Named' = Named /\ user[s] = None
    BY <2>1, <2>2 DEF Named, Users_Kept
  <2>4. \A t \in Threads : job[t].of # s
    BY <1>00, <2>1 DEF Outside, Busy
  <2> QED BY <1>0, <2>1, <2>2, <2>3, <2>4 DEF Users_Kept
<1>5. ASSUME NEW s \in Sessions, LoginStep2(s) PROVE Users_Kept'
  <2>1. /\ status' = [status EXCEPT ![s] = "authenticated"] /\ status[s] = "step2"
        /\ user' = [user EXCEPT ![s] = wants[s]] /\ wants[s] \in Users
        /\ job' = [job EXCEPT ![Main] = At(s, "default", None)] /\ job[Main] = Idle
        /\ UNCHANGED members
        /\ \A q \in Authenticated : Fold(user[q]) # Fold(wants[s])
    <3>1. \A q \in Authenticated : Fold(user[q]) # Fold(wants[s])
      <4> SUFFICES ASSUME NEW q \in Authenticated, Fold(user[q]) = Fold(wants[s]) PROVE FALSE
        OBVIOUS
      <4>1. "alike" \in {"alike" : r \in {r \in Authenticated : Fold(user[r]) = Fold(wants[s])}}
        OBVIOUS
      <4>2. "alike" \in past'
        BY <1>5, <4>1, Zenon DEF LoginStep2
      <4> QED BY <4>2
    <3> QED BY <1>0, <1>5, <3>1 DEF LoginStep2, MainMayRun, rooms, Known
  <2>2. /\ \A q \in Sessions : status'[q] = IF q = s THEN "authenticated" ELSE status[q]
        /\ \A q \in Sessions : user'[q] = IF q = s THEN wants[s] ELSE user[q]
        /\ \A t \in Threads : job'[t] = IF t = Main THEN At(s, "default", None) ELSE job[t]
    BY <1>0, <2>1
  <2>3. Named' = Named \cup {s} /\ s \notin Named
    BY <1>0, <2>1, <2>2 DEF Named, Users_Kept
  <2>4. Named \subseteq Authenticated
    BY <1>0, <1>01, <2>1 DEF Named, Users_Kept, Authenticated, Statuses
  <2>5. \A q, r \in Named' : Fold(user'[q]) = Fold(user'[r]) => q = r
    BY <2>1, <2>2, <2>3, <2>4 DEF Users_Kept, Authenticated
  <2>6. At(s, "default", None).of = s /\ At(s, "default", None).at = "default"
    BY DEF At
  <2>7. \A t \in Threads : job[t].of # s
    BY <1>00, <2>1 DEF Outside, Busy
  <2>8. \A t \in Threads : job'[t].of # None => status'[job'[t].of] # "gone"
    BY <1>0, <2>2, <2>6 DEF Users_Kept
  <2>9. \A t \in Threads : job'[t].at = "leaving" => user'[job'[t].of] # None
    <3>1. ASSUME NEW t \in Threads, job'[t].at = "leaving" PROVE user'[job'[t].of] # None
      <4>1. t # Main /\ job'[t] = job[t]
        BY <2>2, <2>6, <3>1
      <4>2. job[t].of \in Sessions /\ user[job[t].of] # None
        BY <1>0, <3>1, <4>1 DEF Users_Kept
      <4> QED BY <2>2, <2>7, <4>1, <4>2
    <3> QED BY <3>1
  <2>10. \A o \in Objects : members'[o] \subseteq Named'
    BY <2>1, <2>3 DEF Users_Kept
  <2>11. \A q \in Sessions : status'[q] \in {"connected", "step2"} => user'[q] = None
    BY <2>2 DEF Users_Kept
  <2>12. \A q \in Sessions : status'[q] = "rejected" /\ user'[q] # None => FALSE
    BY <1>01, <2>1, <2>2
  <2> QED BY <2>5, <2>8, <2>9, <2>10, <2>11, <2>12 DEF Users_Kept
<1>6. ASSUME NEW s \in Sessions, RemoveSession(s) PROVE Users_Kept'
  <2>1. /\ status' = [status EXCEPT ![s] = "rejected"] /\ status[s] # "gone"
        /\ job' = [job EXCEPT ![Main] = At(s, "leave", None)] /\ job[Main] = Idle
        /\ UNCHANGED <<members, user>>
    BY <1>6 DEF RemoveSession, rooms
  <2>2. /\ \A q \in Sessions : status'[q] = IF q = s THEN "rejected" ELSE status[q]
        /\ \A t \in Threads : job'[t] = IF t = Main THEN At(s, "leave", None) ELSE job[t]
    BY <1>0, <2>1
  <2>3. Named' = Named
    BY <2>1, <2>2 DEF Named
  <2>4. At(s, "leave", None).of = s /\ At(s, "leave", None).at = "leave"
    BY DEF At
  <2>5. \A q \in Sessions : status'[q] = "rejected" /\ user[q] # None => q = s
    BY <1>01, <2>1, <2>2
  <2>6. \A t \in Threads : job'[t].of # None => status'[job'[t].of] # "gone"
    BY <1>0, <2>2, <2>4 DEF Users_Kept
  <2>7. \A t \in Threads : job'[t].at = "leaving" => user[job'[t].of] # None
    BY <2>2, <2>4 DEF Users_Kept
  <2>8. job'[Main].of = s /\ job'[Main].at = "leave"
    BY <1>0, <2>2, <2>4
  <2>9. \A q \in Sessions : status'[q] \in {"connected", "step2"} => user[q] = None
    BY <2>2 DEF Users_Kept
  <2>10. \A q \in Sessions : status'[q] = "rejected" /\ user[q] # None =>
           job'[Main].of = q /\ job'[Main].at \in {"leave", "leaving", "left"}
    BY <2>5, <2>8
  <2>11. (\A o \in Objects : members[o] \subseteq Named)
         /\ \A q, r \in Named : Fold(user[q]) = Fold(user[r]) => q = r
    BY DEF Users_Kept
  <2> QED BY <2>1, <2>3, <2>6, <2>7, <2>9, <2>10, <2>11 DEF Users_Kept
<1>7. ASSUME NEW s \in Sessions, LeaveChannel(s) \/ \E n \in Names : JoinChannel(s, n) PROVE Users_Kept'
  <2>1. PICK o : job' = [job EXCEPT ![Main] = At(s, "leave", o)]
    BY <1>7 DEF LeaveChannel, JoinChannel
  <2>2. UNCHANGED <<members, user, status>> /\ status[s] = "authenticated" /\ job[Main].at = "idle"
    BY <1>7 DEF LeaveChannel, JoinChannel, MainMayRun, who, rooms, Idle
  <2> QED BY <1>0, <1>1, <2>1, <2>2
<1>8. ASSUME NEW s \in Sessions, NEW t \in Threads, NEW n \in Names, CreateChannel(t, s, n) PROVE Users_Kept'
  <2>1. PICK o : job' = [job EXCEPT ![t] = At(s, "leave", o)]
    BY <1>8 DEF CreateChannel
  <2>2. UNCHANGED <<members, user, status>> /\ status[s] = "authenticated" /\ job[t].at = "idle"
    BY <1>8 DEF CreateChannel, MainMayRun, WorkerMayRun, who, Idle
  <2> QED BY <1>0, <1>1, <2>1, <2>2
<1>9. ASSUME NEW s \in Sessions, JoinDefault(s) PROVE Users_Kept'
  <2>1. PICK o : job' = [job EXCEPT ![Main] = At(s, "insert", o)]
    BY <1>9 DEF JoinDefault
  <2>2. UNCHANGED <<members, user, status>> /\ job[Main].of = s /\ job[Main].at = "default"
    BY <1>9, JobTypes, <1>0 DEF JoinDefault, who, At
  <2> QED BY <1>0, <1>1, <2>1, <2>2 DEF Users_Kept
<1>10. ASSUME NEW t \in Threads, Step(t) PROVE Users_Kept'
  <2>1. PICK s \in Sessions : job[t].of = s
    BY <1>0, <1>10, StepFacts
  <2>2. /\ \A u \in Threads \ {t} : job'[u] = job[u]
        /\ job'[t] = Idle \/ job'[t].of = s
        /\ UNCHANGED <<user, status>>
    BY <1>0, <1>10, <2>1, StepFacts DEF who
  <2>3. Named' = Named
    BY <2>2 DEF Named
  <2>4. \A o \in Objects : members'[o] \subseteq Named
    <3>1. CASE Insert(t)
      <4>1. s \in Named
        BY <1>0, <2>1, <3>1 DEF Insert, Known, Users_Kept, Named
      <4> QED BY <1>0, <2>1, <3>1, <4>1 DEF Insert, Users_Kept
    <3>2. CASE Erase(t)
      <4>1. \A o \in Objects : members'[o] \subseteq members[o]
        BY <1>0, <3>2 DEF Erase
      <4> QED BY <4>1 DEF Users_Kept
    <3>3. CASE AnnounceLeave(t) \/ Left(t) \/ AnnounceJoin(t) \/ Joined(t)
      BY <3>3 DEF AnnounceLeave, Left, AnnounceJoin, Joined, rooms, Users_Kept
    <3> QED BY <1>10, <3>1, <3>2, <3>3 DEF Step
  <2>5. \A u \in Threads : job'[u].of # None => status[job'[u].of] # "gone"
    BY <1>0, <2>1, <2>2, JobTypes DEF Users_Kept
  <2>6. job'[t].at = "leaving" => user[s] # None
    <3>1. CASE Erase(t) /\ channel[s] # None /\ s \in members[channel[s]]
      <4>1. channel[s] \in Objects
        BY <1>0, <3>1
      <4> QED BY <3>1, <4>1 DEF Users_Kept, Named
    <3>2. CASE Erase(t) /\ ~(channel[s] # None /\ s \in members[channel[s]])
      BY <1>0, <2>1, <3>2 DEF Erase
    <3>3. CASE AnnounceLeave(t) \/ Insert(t) \/ AnnounceJoin(t)
      BY <1>0, <3>3 DEF AnnounceLeave, Insert, AnnounceJoin
    <3>4. CASE Left(t) \/ Joined(t)
      BY <1>0, <3>4, JobTypes DEF Left, Joined
    <3> QED BY <1>10, <3>1, <3>2, <3>3, <3>4 DEF Step
  <2>7. \A u \in Threads : job'[u].at = "leaving" => user[job'[u].of] # None
    BY <2>2, <2>6, JobTypes DEF Users_Kept
  <2>8. t = Main /\ status[s] = "rejected" /\ user[s] # None =>
          job'[Main].of = s /\ job'[Main].at \in {"leave", "leaving", "left"}
    <3> SUFFICES ASSUME t = Main, status[s] = "rejected", user[s] # None
                 PROVE  job'[Main].of = s /\ job'[Main].at \in {"leave", "leaving", "left"}
      OBVIOUS
    <3>1. job[Main].at \in {"leave", "leaving", "left"}
      BY DEF Users_Kept
    <3>2. Erase(t) \/ AnnounceLeave(t)
      BY <1>10, <2>1, <3>1 DEF Step, Left, Insert, AnnounceJoin, Joined
    <3>3. job'[Main].at \in {"leaving", "left"}
      BY <1>0, <3>2 DEF Erase, AnnounceLeave
    <3> QED BY <2>2, <3>3, JobTypes
  <2>9. \A q \in Sessions : status[q] = "rejected" /\ user[q] # None =>
          job'[Main].of = q /\ job'[Main].at \in {"leave", "leaving", "left"}
    <3>1. \A q \in Sessions : status[q] = "rejected" /\ user[q] # None =>
            job[Main].of = q /\ job[Main].at \in {"leave", "leaving", "left"}
      BY DEF Users_Kept
    <3> QED BY <1>0, <2>1, <2>2, <2>8, <3>1
  <2> QED BY <2>2, <2>3, <2>4, <2>5, <2>7, <2>9 DEF Users_Kept
<1>11. CASE Removed
  <2>1. PICK s \in Sessions : job[Main].of = s
    BY <1>0, <1>11 DEF Removed
  <2>2. /\ status' = [status EXCEPT ![s] = "gone"] /\ job' = [job EXCEPT ![Main] = Idle]
        /\ UNCHANGED <<user, members>> /\ job[Main].at = "left"
    BY <1>11, <2>1 DEF Removed, rooms
  <2>3. /\ \A q \in Sessions : status'[q] = IF q = s THEN "gone" ELSE status[q]
        /\ \A t \in Threads : job'[t] = IF t = Main THEN Idle ELSE job[t]
    BY <1>0, <2>2
  <2>4. Named' = Named \ {s}
    BY <2>2, <2>3 DEF Named
  <2>5. \A o \in Objects : s \notin members[o]
    BY <1>0, <1>00, <2>1, <2>2 DEF Agreed, AtItsPlace, Apart
  <2>6. \A t \in Threads : job'[t].of # None => status'[job'[t].of] # "gone"
    BY <1>0, <1>00, <2>1, <2>3, JobTypes DEF Users_Kept, Alone
  <2>7. \A q \in Sessions : status'[q] = "rejected" /\ user[q] # None => FALSE
    BY <2>1, <2>3 DEF Users_Kept
  <2>8. \A t \in Threads : job'[t].at = "leaving" => user'[job'[t].of] # None
    BY <2>2, <2>3, JobTypes DEF Users_Kept
  <2>9. \A o \in Objects : members'[o] \subseteq Named'
    BY <2>2, <2>4, <2>5 DEF Users_Kept
  <2>10. \A q \in Sessions : status'[q] \in {"connected", "step2"} => user'[q] = None
    BY <2>2, <2>3 DEF Users_Kept
  <2>11. \A q, r \in Named' : Fold(user'[q]) = Fold(user'[r]) => q = r
    BY <2>2, <2>4 DEF Users_Kept
  <2> QED BY <2>2, <2>6, <2>7, <2>8, <2>9, <2>10, <2>11 DEF Users_Kept
<1>12. CASE \/ StartTick \/ Scheduled \/ EndWait
            \/ \E w \in Workers : StartUpdate(w) \/ Visit(w) \/ EndUpdate(w)
            \/ \E s \in Sessions : Take(s) \/ Send(s)
            \/ UNCHANGED vars
  BY <1>2, <1>12 DEF StartTick, Scheduled, EndWait, StartUpdate, Visit, EndUpdate, Take, Send,
     vars, who, rooms
<1> QED BY <1>3, <1>4, <1>5, <1>6, <1>7, <1>8, <1>9, <1>10, <1>11, <1>12 DEF Next, Handle

\* A step that tells nobody anything.
LEMMA StillShown ==
  ASSUME Types, IInv, IInv', Users_Kept, past' = {}, [Next]_vars,
         NEW told \in Tellings, Shows(told),
         \A t \in Threads : ~AnnounceLeave(t) /\ ~AnnounceJoin(t)
  PROVE  Shows(told)'
<1>0. /\ user \in [Sessions -> Users \cup {None}] /\ members \in [Objects -> SUBSET Sessions] /\ channel \in [Sessions -> Objects \cup {None}]
      /\ job \in [Threads -> [of : Sessions \cup {None}, at : Places, to : Objects \cup {None}]]
      /\ Main \in Threads /\ None \notin Sessions /\ None \notin Objects
      /\ Typed /\ JobKnown /\ Known
  BY Constants DEF Types, Typed, JobKnown
<1>00. Agreed /\ Alone /\ Outside
  BY PastGrows DEF IInv, Agreed
<1>01. \A s \in Sessions, o \in Objects : s \in members[o] \/ Leaving(s, o) => s \in Named
  BY <1>0 DEF Users_Kept, Named, Leaving
\* Of a step that changes neither who is where nor what is shown of it.
<1>1. ASSUME UNCHANGED members,
             \A s \in Sessions : Joining(s)' <=> Joining(s),
             \A s \in Sessions, o \in Objects : Leaving(s, o)' <=> Leaving(s, o),
             \A s \in Sessions : Out(s)' => Out(s),
             \A s \in Sessions, o \in Objects :
                s \in members[o] \/ Leaving(s, o) => user'[s] = user[s]
      PROVE  Shows(told)'
  <2>1. ASSUME NEW s \in Sessions, Out(s)' PROVE told[s] = {}
    BY <1>1, <2>1 DEF Shows
  <2>2. ASSUME NEW o \in Objects PROVE Shown_Right(o, told)'
    <3>1. Shown_Right(o, told) /\ members[o] \subseteq Sessions
      BY <1>0 DEF Shows
    <3> QED BY <1>1, <3>1 DEF Shown_Right
  <2> QED BY <2>1, <2>2 DEF Shows
\* A handler that begins or comes to its end.
<1>2. ASSUME NEW s \in Sessions, NEW t \in Threads, \A u \in Threads \ {t} : job'[u] = job[u],
             job[t].of \in {s, None}, job'[t].of \in {s, None},
             {job[t].at, job'[t].at} \cap {"joining", "leaving"} = {}
      PROVE  /\ \A q \in Sessions : Joining(q)' <=> Joining(q)
             /\ \A q \in Sessions, o \in Objects :
                   channel'[q] = channel[q] => (Leaving(q, o)' <=> Leaving(q, o))
             /\ members' = members => \A q \in Sessions : Out(q)' <=> Out(q)
  BY <1>2 DEF Joining, Leaving, Out
<1>3. ASSUME NEW s \in Sessions, NEW t \in Threads, \A u \in Threads \ {t} : job'[u] = job[u],
             job[t].of \in {s, None}, job'[t].of \in {s, None},
             {job[t].at, job'[t].at} \cap {"joining", "leaving"} = {},
             UNCHANGED <<members, channel>>,
             \A q \in Sessions, o \in Objects :
                q \in members[o] \/ Leaving(q, o) => user'[q] = user[q]
      PROVE  Shows(told)'
  BY <1>1, <1>2, <1>3
<1>4. ASSUME UNCHANGED <<members, channel, user, job>> PROVE Shows(told)'
  BY <1>1, <1>4 DEF Joining, Leaving, Out
<1>5. ASSUME NEW s \in Sessions, NEW t \in Threads,
             \A u \in Threads \ {t} : job'[u] = job[u],
             job'[t].of = s /\ job'[t].at \in {"default", "leave", "insert"},
             job[t] = Idle \/ (job[t].of = s /\ job[t].at = "default"),
             UNCHANGED <<members, channel>>,
             UNCHANGED user \/ (s \notin Named /\ \A q \in Sessions \ {s} : user'[q] = user[q])
      PROVE  Shows(told)'
  <2>3. \A q \in Sessions, p \in Objects :
          q \in members[p] \/ Leaving(q, p) => user'[q] = user[q]
    BY <1>01, <1>5
  <2>4. job[t].of \in {s, None} /\ job[t].at \notin {"joining", "leaving"}
    BY <1>5, JobTypes
  <2>5. job'[t].of \in {s, None} /\ {job[t].at, job'[t].at} \cap {"joining", "leaving"} = {}
    BY <1>5, <2>4
  <2>6. UNCHANGED <<members, channel>>
    BY <1>5
  <2> QED BY <1>3, <1>5, <2>3, <2>4, <2>5, <2>6
<1>6. ASSUME NEW s \in Sessions, LoginStep2(s) PROVE Shows(told)'
  <2>1. /\ job' = [job EXCEPT ![Main] = At(s, "default", None)] /\ job[Main] = Idle
        /\ UNCHANGED <<members, channel>>
        /\ user' = [user EXCEPT ![s] = wants[s]]
    BY <1>6 DEF LoginStep2, MainMayRun, rooms
  <2>2. s \notin Named
    BY <1>6 DEF LoginStep2, Users_Kept, Named
  <2>3. \A q \in Sessions \ {s} : user'[q] = user[q]
    BY <1>0, <2>1
  <2>4. /\ \A u \in Threads \ {Main} : job'[u] = job[u]
        /\ job'[Main].of = s /\ job'[Main].at = "default"
    BY <1>0, <2>1 DEF At
  <2> QED BY <1>0, <1>5, <2>1, <2>2, <2>3, <2>4
<1>7. ASSUME NEW s \in Sessions, LeaveChannel(s) \/ RemoveSession(s) \/ \E n \in Names : JoinChannel(s, n)
      PROVE  Shows(told)'
  <2>1. PICK o : job' = [job EXCEPT ![Main] = At(s, "leave", o)]
    BY <1>7 DEF LeaveChannel, RemoveSession, JoinChannel
  <2>2. UNCHANGED <<members, channel, user>> /\ job[Main] = Idle
    BY <1>7 DEF LeaveChannel, RemoveSession, JoinChannel, MainMayRun, who, rooms
  <2>3. /\ \A u \in Threads \ {Main} : job'[u] = job[u]
        /\ job'[Main].of = s /\ job'[Main].at = "leave"
    BY <1>0, <2>1 DEF At
  <2> QED BY <1>0, <1>5, <2>2, <2>3
<1>8. ASSUME NEW s \in Sessions, NEW t \in Threads, NEW n \in Names, CreateChannel(t, s, n) PROVE Shows(told)'
  <2>1. PICK o : job' = [job EXCEPT ![t] = At(s, "leave", o)]
    BY <1>8 DEF CreateChannel
  <2>2. UNCHANGED <<members, channel, user>> /\ job[t] = Idle
    BY <1>8 DEF CreateChannel, MainMayRun, WorkerMayRun, who
  <2>3. /\ \A u \in Threads \ {t} : job'[u] = job[u]
        /\ job'[t].of = s /\ job'[t].at = "leave"
    BY <1>0, <2>1 DEF At
  <2> QED BY <1>0, <1>5, <2>2, <2>3
<1>9. ASSUME NEW s \in Sessions, JoinDefault(s) PROVE Shows(told)'
  <2>1. PICK o : job' = [job EXCEPT ![Main] = At(s, "insert", o)]
    BY <1>9 DEF JoinDefault
  <2>2. UNCHANGED <<members, channel, user>> /\ job[Main].of = s /\ job[Main].at = "default"
    BY <1>9 DEF JoinDefault, who, At
  <2>3. /\ \A u \in Threads \ {Main} : job'[u] = job[u]
        /\ job'[Main].of = s /\ job'[Main].at = "insert"
    BY <1>0, <2>1 DEF At
  <2> QED BY <1>0, <1>5, <2>2, <2>3
\* A session that is a member leaves.
<1>10. ASSUME NEW t \in Threads, Erase(t) PROVE Shows(told)'
  <2>1. PICK s \in Sessions : job[t].of = s /\ job[t].at = "leave"
    BY <1>0, <1>10, OnlyMover, <1>00 DEF Erase
  <2>2. UNCHANGED <<channel, user>> /\ \A u \in Threads \ {t} : job'[u] = job[u] /\ job[u].of # s
    BY <1>0, <1>00, <1>10, <2>1, OnlyMover DEF Erase, who
  <2>3. CASE ~(channel[s] # None /\ s \in members[channel[s]])
    <3>1. UNCHANGED members /\ job'[t].at = "left" /\ job'[t].of = s
      BY <1>0, <1>10, <2>1, <2>3 DEF Erase
    <3> QED BY <1>3, <2>1, <2>2, <3>1
  <2>4. CASE channel[s] # None /\ s \in members[channel[s]]
    <3>1. PICK o \in Objects : o = channel[s]
      BY <1>0, <2>4
    <3>0. /\ members' = [members EXCEPT ![o] = @ \ {s}]
          /\ job' = [job EXCEPT ![t].at = "leaving"]
      BY <1>10, <2>1, <2>4, <3>1 DEF Erase
    <3>2. /\ job'[t].at = "leaving" /\ job'[t].of = s
          /\ \A p \in Objects : members'[p] = IF p = o THEN members[o] \ {s} ELSE members[p]
      BY <1>0, <2>1, <3>0
    <3>3. \A q \in Sessions : Joining(q)' <=> Joining(q)
      BY <2>1, <2>2, <3>2 DEF Joining
    <3>4. \A q \in Sessions, p \in Objects : Leaving(q, p)' <=> Leaving(q, p) \/ (q = s /\ p = o)
      BY <2>1, <2>2, <3>1, <3>2 DEF Leaving
    <3>5. ASSUME NEW q \in Sessions, Out(q)' PROVE told[q] = {}
      <4>1. q # s
        BY <3>2, <3>5 DEF Out
      <4>2. Out(q)
        BY <2>1, <2>2, <3>2, <3>5, <4>1 DEF Out
      <4> QED BY <2>2, <4>2 DEF Shows
    <3>6. ASSUME NEW p \in Objects PROVE Shown_Right(p, told)'
      <4>1. Shown_Right(p, told) /\ members[p] \subseteq Sessions
        BY <1>0 DEF Shows
      <4>2. \A q \in members'[p] : q \in members[p]
        BY <3>2
      <4>3. \A r \in members[p] : r \in members'[p] \/ Leaving(r, p)'
        BY <3>2, <3>4
      <4> QED BY <2>2, <3>3, <3>4, <4>1, <4>2, <4>3 DEF Shown_Right
    <3> QED BY <3>5, <3>6 DEF Shows
  <2> QED BY <2>3, <2>4
<1>11. ASSUME NEW t \in Threads, Left(t) \/ Joined(t) PROVE Shows(told)'
  <2>1. PICK s \in Sessions : job[t].of = s /\ job[t].at \in {"left", "joined"}
    BY <1>0, <1>11, OnlyMover, <1>00 DEF Left, Joined
  <2>2. UNCHANGED <<members, user>> /\ \A u \in Threads \ {t} : job'[u] = job[u] /\ job[u].of # s
    BY <1>0, <1>00, <1>11, <2>1, OnlyMover DEF Left, Joined, who, rooms
  <2>3. \A q \in Sessions \ {s} : channel'[q] = channel[q]
    BY <1>0, <1>11, <2>1 DEF Left, Joined
  <2>4. job'[t].of \in {s, None} /\ job'[t].at \notin {"leaving", "joining"}
    BY <1>0, <1>11, <2>1, JobTypes DEF Left, Joined
  <2>5. \A p \in Objects : ~Leaving(s, p) /\ ~Leaving(s, p)'
    BY <2>1, <2>2, <2>4 DEF Leaving
  <2>6. /\ \A q \in Sessions : Joining(q)' <=> Joining(q)
        /\ \A q \in Sessions, o \in Objects :
              channel'[q] = channel[q] => (Leaving(q, o)' <=> Leaving(q, o))
        /\ \A q \in Sessions : Out(q)' <=> Out(q)
    BY <1>2, <2>1, <2>2, <2>4
  <2>7. \A q \in Sessions, p \in Objects : Leaving(q, p)' <=> Leaving(q, p)
    BY <2>3, <2>5, <2>6
  <2> QED BY <1>1, <2>2, <2>6, <2>7
\* A session is a member before the others are told.
<1>12. ASSUME NEW t \in Threads, Insert(t) PROVE Shows(told)'
  <2>1. PICK s \in Sessions : job[t].of = s /\ job[t].at = "insert" /\ Apart(s) /\ channel[s] = None
    BY <1>0, <1>12, OnlyMover, <1>00 DEF Insert, Agreed, AtItsPlace
  <2>2. UNCHANGED <<channel, user>> /\ \A u \in Threads \ {t} : job'[u] = job[u] /\ job[u].of # s
    BY <1>0, <1>00, <1>12, <2>1, OnlyMover DEF Insert, who
  <2>3. PICK o \in Objects : o = job[t].to
    BY <1>0, <2>1 DEF JobKnown
  <2>4. /\ job'[t].at = "joining" /\ job'[t].of = s
        /\ \A p \in Objects : members'[p] = IF p = o THEN members[o] \cup {s} ELSE members[p]
    BY <1>0, <1>12, <2>1, <2>3 DEF Insert
  <2>5. \A q \in Sessions : Joining(q)' <=> Joining(q) \/ q = s
    BY <2>1, <2>2, <2>4 DEF Joining
  <2>6. \A q \in Sessions, p \in Objects : Leaving(q, p)' <=> Leaving(q, p)
    BY <1>0, <2>1, <2>2, <2>4 DEF Leaving
  <2>7. ASSUME NEW q \in Sessions, Out(q)' PROVE told[q] = {}
    <3>1. Out(q)
      BY <2>1, <2>2, <2>4, <2>7 DEF Out
    <3> QED BY <2>2, <3>1 DEF Shows
  <2>8. ASSUME NEW p \in Objects PROVE Shown_Right(p, told)'
    <3>1. Shown_Right(p, told) /\ members[p] \subseteq Sessions /\ members[p] \subseteq members'[p]
      BY <1>0, <2>4 DEF Shows
    <3>2. \A q \in members'[p] : q \in members[p] \/ q = s
      BY <2>4
    <3> QED BY <2>2, <2>5, <2>6, <3>1, <3>2 DEF Shown_Right
  <2> QED BY <2>7, <2>8 DEF Shows
<1>13. CASE Removed
  <2>0. job[Main].at = "left" /\ job[Main].of \in Sessions
    BY <1>0, <1>00, <1>13, OnlyMover DEF Removed
  <2>1. PICK s \in Sessions : job[Main].of = s /\ job[Main].at = "left" /\ Apart(s)
    BY <1>0, <1>00, <2>0 DEF Agreed, AtItsPlace
  <2>2. /\ UNCHANGED <<members, user>> /\ job'[Main] = Idle
        /\ \A u \in Threads \ {Main} : job'[u] = job[u] /\ job[u].of # s
        /\ \A q \in Sessions \ {s} : channel'[q] = channel[q]
    BY <1>0, <1>00, <1>13, <2>1 DEF Removed, rooms, Alone
  <2>3. \A p \in Objects : ~Leaving(s, p) /\ ~Leaving(s, p)'
    BY <2>1, <2>2, JobTypes DEF Leaving
  <2>4. /\ \A q \in Sessions : Joining(q)' <=> Joining(q)
        /\ \A q \in Sessions, o \in Objects :
              channel'[q] = channel[q] => (Leaving(q, o)' <=> Leaving(q, o))
        /\ \A q \in Sessions : Out(q)' <=> Out(q)
    BY <1>0, <1>2, <2>1, <2>2, JobTypes
  <2>5. \A q \in Sessions, p \in Objects : Leaving(q, p)' <=> Leaving(q, p)
    BY <2>2, <2>3, <2>4
  <2> QED BY <1>1, <2>2, <2>4, <2>5
<1>14. ASSUME NEW s \in Sessions, LoginRejected(s) \/ \E u \in Users : LoginStep1(s, u) PROVE Shows(told)'
  BY <1>4, <1>14 DEF LoginStep1, LoginRejected, rooms
<1>15. CASE \/ StartTick \/ Scheduled \/ EndWait
            \/ \E w \in Workers : StartUpdate(w) \/ Visit(w) \/ EndUpdate(w)
            \/ \E s \in Sessions : Take(s) \/ Send(s)
            \/ UNCHANGED vars
  BY <1>4, <1>15 DEF StartTick, Scheduled, EndWait, StartUpdate, Visit, EndUpdate, Take, Send,
     vars, who, rooms
<1> QED BY <1>6, <1>7, <1>8, <1>9, <1>10, <1>11, <1>12, <1>13, <1>14, <1>15
        DEF Next, Handle, Step

\* The others of a channel are told that a session has left, and it is shown nobody.
LEMMA LeaveShown ==
  ASSUME Types, IInv, IInv', Users_Kept, past' = {}, [Next]_vars,
         NEW told \in Tellings, Shows(told), NEW told2 \in Tellings,
         NEW t \in Threads, AnnounceLeave(t),
         told2 = [q \in Sessions |->
           IF q = job[t].of THEN {}
           ELSE IF channel[job[t].of] # None /\ q \in members[channel[job[t].of]]
             THEN Hidden(told[q], user[job[t].of])
           ELSE told[q]]
  PROVE  Shows(told2)'
<1>0. /\ user \in [Sessions -> Users \cup {None}] /\ told \in [Sessions -> SUBSET Users]
      /\ members \in [Objects -> SUBSET Sessions] /\ channel \in [Sessions -> Objects \cup {None}]
      /\ job \in [Threads -> [of : Sessions \cup {None}, at : Places, to : Objects \cup {None}]]
      /\ Main \in Threads /\ None \notin Sessions /\ None \notin Objects
      /\ Typed /\ JobKnown /\ Known
  BY Constants DEF Types, Typed, JobKnown, Tellings
<1>00. Agreed /\ Alone /\ Outside
  BY PastGrows DEF IInv, Agreed
<1>01. \A s \in Sessions, o \in Objects : s \in members[o] \/ Leaving(s, o) => s \in Named
  BY <1>0 DEF Users_Kept, Named, Leaving
<1>1. PICK s \in Sessions : job[t].of = s /\ job[t].at = "leaving" /\ Apart(s)
  BY <1>0, <1>00, OnlyMover DEF AnnounceLeave, Agreed, AtItsPlace
<1>2. /\ UNCHANGED <<channel, members, user>>
      /\ \A u \in Threads \ {t} : job'[u] = job[u] /\ job[u].of # s
      /\ job'[t].of = s /\ job'[t].at = "left"
  BY <1>0, <1>00, <1>1, OnlyMover DEF AnnounceLeave, who, rooms
<1>3. /\ told2[s] = {}
      /\ \A q \in Sessions \ {s} :
            told2[q] = IF channel[s] # None /\ q \in members[channel[s]]
                         THEN Hidden(told[q], user[s]) ELSE told[q]
  BY <1>1
<1>4. \A q \in Sessions : Joining(q)' <=> Joining(q)
  BY <1>1, <1>2 DEF Joining
<1>5. \A q \in Sessions, p \in Objects : Leaving(q, p)' <=> Leaving(q, p) /\ q # s
  BY <1>1, <1>2 DEF Leaving
<1>6. ASSUME NEW q \in Sessions, Out(q)' PROVE told2[q] = {}
  <2>1. CASE q = s
    BY <1>3, <2>1
  <2>2. CASE q # s
    <3>1. Out(q)
      BY <1>1, <1>2, <1>6, <2>2 DEF Out
    <3>2. told[q] = {}
      BY <3>1 DEF Shows
    <3> QED BY <1>3, <2>2, <3>2 DEF Hidden
  <2> QED BY <2>1, <2>2
<1>7. ASSUME NEW p \in Objects PROVE Shown_Right(p, told2)'
  <2>1. Shown_Right(p, told) /\ members[p] \subseteq Sessions /\ s \notin members[p]
    BY <1>0, <1>1 DEF Shows, Apart
  <2>2. CASE p # channel[s]
    <3>1. \A q \in members[p] : told2[q] = told[q]
      <4> SUFFICES ASSUME NEW q \in members[p], told2[q] # told[q] PROVE FALSE
        OBVIOUS
      <4>1. channel[s] \in Objects /\ q \in members[channel[s]]
        BY <1>0, <1>3, <2>1
      <4>2. PICK o \in Objects : o = channel[s]
        BY <4>1
      <4> QED BY <1>0, <1>00, <2>1, <2>2, <4>1, <4>2, OneRoom
    <3>2. \A r \in Sessions : Leaving(r, p)' <=> Leaving(r, p)
      BY <1>5, <2>2 DEF Leaving
    <3> QED BY <1>2, <1>4, <2>1, <3>1, <3>2 DEF Shown_Right
  <2>3. CASE p = channel[s]
    <3>1. \A q \in members[p] : told2[q] = Hidden(told[q], user[s])
      BY <1>0, <1>3, <2>1, <2>3
    <3>2. Leaving(s, p)
      BY <1>1, <2>3 DEF Leaving
    <3>3. \A r \in Sessions : (r \in members[p] \/ Leaving(r, p)) /\ r # s => Fold(user[r]) # Fold(user[s])
      BY <1>01, <3>2 DEF Users_Kept
    <3>4. \A q, r \in members[p] : ~Joining(q) /\ ~Joining(r) => user[r] \in told2[q]
      BY <2>1, <3>1, <3>3 DEF Shown_Right, Hidden
    <3>5. ASSUME NEW q \in members[p], ~Joining(q), NEW u \in told2[q]
          PROVE  \E r \in Sessions : user[r] = u /\ (r \in members[p] \/ (Leaving(r, p) /\ r # s))
      <4>1. u \in told[q] /\ Fold(u) # Fold(user[s])
        BY <3>1, <3>5 DEF Hidden
      <4>2. PICK r \in Sessions : user[r] = u /\ (r \in members[p] \/ Leaving(r, p))
        BY <2>1, <3>5, <4>1 DEF Shown_Right
      <4> QED BY <4>1, <4>2
    <3> QED BY <1>2, <1>4, <1>5, <2>1, <3>4, <3>5 DEF Shown_Right
  <2> QED BY <2>2, <2>3
<1> QED BY <1>6, <1>7 DEF Shows

\* The others of a channel are told that a session has joined, and it is shown all of
\* them.
LEMMA JoinShown ==
  ASSUME Types, IInv, IInv', Users_Kept, past' = {}, [Next]_vars,
         NEW told \in Tellings, Shows(told), NEW told2 \in Tellings,
         NEW t \in Threads, AnnounceJoin(t), NEW v \in Lists(UsersOf(members[job[t].to])),
         told2 = [q \in Sessions |-> IF q = job[t].of THEN v
                                     ELSE IF q \in members[job[t].to] THEN Shown(told[q], user[job[t].of])
                                     ELSE told[q]]
  PROVE  Shows(told2)'
<1>0. /\ user \in [Sessions -> Users \cup {None}] /\ told \in [Sessions -> SUBSET Users]
      /\ members \in [Objects -> SUBSET Sessions] /\ channel \in [Sessions -> Objects \cup {None}]
      /\ job \in [Threads -> [of : Sessions \cup {None}, at : Places, to : Objects \cup {None}]]
      /\ Main \in Threads /\ None \notin Sessions /\ None \notin Objects
      /\ Typed /\ JobKnown /\ Known
  BY Constants DEF Types, Typed, JobKnown, Tellings
<1>00. Agreed /\ Alone /\ Outside
  BY PastGrows DEF IInv, Agreed
<1>01. \A s \in Sessions, o \in Objects : s \in members[o] \/ Leaving(s, o) => s \in Named
  BY <1>0 DEF Users_Kept, Named, Leaving
<1>1. PICK s \in Sessions : job[t].of = s /\ job[t].at = "joining"
  BY <1>0, <1>00, OnlyMover DEF AnnounceJoin
<1>2. PICK o \in Objects : o = job[t].to /\ Entered(s, o)
  BY <1>0, <1>00, <1>1 DEF JobKnown, Agreed, AtItsPlace
<1>3. /\ UNCHANGED <<channel, members, user>>
      /\ \A u \in Threads \ {t} : job'[u] = job[u] /\ job[u].of # s
      /\ job'[t].of = s /\ job'[t].at = "joined"
  BY <1>0, <1>00, <1>1, OnlyMover DEF AnnounceJoin, who, rooms
<1>4. /\ v \in Lists(UsersOf(members[o])) /\ told2[s] = v
      /\ \A q \in Sessions \ {s} : told2[q] = IF q \in members[o] THEN Shown(told[q], user[s])
                                              ELSE told[q]
  BY <1>1, <1>2
<1>5. /\ \A q \in Sessions : Joining(q)' <=> Joining(q) /\ q # s
      /\ \A q \in Sessions, p \in Objects : Leaving(q, p)' <=> Leaving(q, p)
  BY <1>1, <1>3 DEF Joining, Leaving
<1>6. ASSUME NEW q \in Sessions, Out(q)' PROVE told2[q] = {}
  <2>1. Out(q) /\ q \notin members[o] /\ q # s
    BY <1>1, <1>2, <1>3, <1>6 DEF Out, Entered
  <2> QED BY <1>4, <2>1 DEF Shows
<1>7. ASSUME NEW p \in Objects PROVE Shown_Right(p, told2)'
  <2>1. Shown_Right(p, told) /\ members[p] \subseteq Sessions
    BY <1>0 DEF Shows
  <2>2. CASE p # o
    <3>1. \A q \in members[p] : q # s /\ q \notin members[o]
      BY <1>0, <1>00, <1>2, <2>1, <2>2, OneRoom DEF Entered
    <3>2. \A q \in members[p] : told2[q] = told[q]
      BY <1>4, <2>1, <3>1
    <3> QED BY <1>3, <1>5, <2>1, <3>1, <3>2 DEF Shown_Right
  <2>3. CASE p = o
    <3>1. s \in members[p] /\ members[p] \subseteq Named
      BY <1>2, <2>3 DEF Entered, Users_Kept
    <3>2. \A q \in members[p] \ {s} : told2[q] = Shown(told[q], user[s])
      BY <1>4, <2>1, <2>3
    <3>3. ASSUME NEW r \in members[p] PROVE user[r] \in v
      <4>1. user[r] \in UsersOf(members[p])
        BY DEF UsersOf
      <4>2. PICK x \in v : Fold(x) = Fold(user[r])
        BY <1>4, <2>3, <4>1 DEF Lists
      <4>3. PICK a \in members[p] : x = user[a]
        BY <1>4, <2>3, <4>2 DEF Lists, UsersOf
      <4> QED BY <3>1, <4>2, <4>3 DEF Users_Kept
    <3>4. ASSUME NEW u \in v PROVE \E r \in members[p] : user[r] = u
      BY <1>4, <2>3 DEF Lists, UsersOf
    <3>5. ASSUME NEW q \in members[p] \ {s}, ~Joining(q) PROVE user[s] \in told2[q]
      <4>1. CASE \E x \in told[q] : Fold(x) = Fold(user[s])
        <5>1. PICK x \in told[q] : Fold(x) = Fold(user[s])
          BY <4>1
        <5>2. PICK a \in Sessions : user[a] = x /\ (a \in members[p] \/ Leaving(a, p))
          BY <2>1, <3>5 DEF Shown_Right
        <5>3. a = s
          BY <1>01, <3>1, <5>1, <5>2 DEF Users_Kept
        <5> QED BY <3>2, <4>1, <5>2, <5>3 DEF Shown
      <4>2. CASE ~\E x \in told[q] : Fold(x) = Fold(user[s])
        <5>1. told2[q] = told[q] \cup {user[s]}
          BY <3>2, <4>2, ShownFacts
        <5> QED BY <5>1
      <4> QED BY <4>1, <4>2
    <3>6. \A q \in members[p] \ {s} : told[q] \subseteq told2[q] /\ told2[q] \subseteq told[q] \cup {user[s]}
      <4> SUFFICES ASSUME NEW q \in members[p] \ {s}
                   PROVE  told[q] \subseteq told2[q] /\ told2[q] \subseteq told[q] \cup {user[s]}
        OBVIOUS
      <4>1. told2[q] = told[q] \/ told2[q] = told[q] \cup {user[s]}
        BY <3>2, ShownFacts
      <4> QED BY <4>1
    <3>7. ASSUME NEW q \in members[p], NEW r \in members[p], q = s \/ ~Joining(q), r = s \/ ~Joining(r)
          PROVE  user[r] \in told2[q]
      <4>1. CASE q = s
        BY <1>4, <3>3, <4>1
      <4>2. CASE q # s /\ r = s
        BY <3>5, <3>7, <4>2
      <4>3. CASE q # s /\ r # s
        BY <2>1, <3>6, <3>7, <4>3 DEF Shown_Right
      <4> QED BY <4>1, <4>2, <4>3
    <3>8. ASSUME NEW q \in members[p], q = s \/ ~Joining(q), NEW u \in told2[q]
          PROVE  \E r \in Sessions : user[r] = u /\ (r \in members[p] \/ Leaving(r, p))
      <4>1. CASE q = s
        BY <1>4, <2>1, <3>4, <4>1
      <4>2. CASE q # s /\ u = user[s]
        BY <3>1, <4>2
      <4>3. CASE q # s /\ u # user[s]
        BY <2>1, <3>6, <3>8, <4>3 DEF Shown_Right
      <4> QED BY <4>1, <4>2, <4>3
    <3> QED BY <1>3, <1>5, <2>1, <3>7, <3>8 DEF Shown_Right
  <2> QED BY <2>2, <2>3
<1> QED BY <1>6, <1>7 DEF Shows

\* A session that is being removed or gone does not come back.
LEMMA PresentShrinks == Types /\ [Next]_vars => Present' \subseteq Present
<1> SUFFICES ASSUME Types, [Next]_vars PROVE Present' \subseteq Present
  OBVIOUS
<1>0. status \in [Sessions -> Statuses]
  BY DEF Types, Typed
<1>1. ASSUME NEW s \in Sessions,
             \/ \E u \in Users : LoginStep1(s, u)
             \/ LoginStep2(s) \/ LoginRejected(s) \/ RemoveSession(s)
      PROVE  Present' \subseteq Present
  BY <1>0, <1>1 DEF LoginStep1, LoginStep2, LoginRejected, RemoveSession, MainMayRun, Present
<1>2. CASE Removed
  BY <1>0, <1>2 DEF Removed, Present
<1>3. ASSUME NEW s \in Sessions,
             \/ JoinDefault(s) \/ LeaveChannel(s) \/ \E n \in Names : JoinChannel(s, n)
             \/ \E t \in Threads, n \in Names : CreateChannel(t, s, n)
             \/ Take(s) \/ Send(s)
      PROVE  UNCHANGED status
  BY <1>3 DEF JoinDefault, LeaveChannel, JoinChannel, CreateChannel, Take, Send, who
<1>4. ASSUME NEW t \in Threads, Step(t) PROVE UNCHANGED status
  BY <1>4, StepFacts DEF Types, who
<1>5. CASE \/ StartTick \/ Scheduled \/ EndWait
           \/ \E w \in Workers : StartUpdate(w) \/ Visit(w) \/ EndUpdate(w)
           \/ UNCHANGED vars
  BY <1>5 DEF StartTick, Scheduled, EndWait, StartUpdate, Visit, EndUpdate, vars, who, Present
<1>6. ASSUME UNCHANGED status PROVE Present' \subseteq Present
  BY <1>6 DEF Present
<1> QED BY <1>1, <1>2, <1>3, <1>4, <1>5, <1>6 DEF Next, Handle

\* A step that tells nobody anything, that of a network thread among them.
LEMMA StillDelivered ==
  ASSUME Types, past' = {}, [Next]_vars, NEW told \in Tellings, Delivered(told),
         \A t \in Threads : ~AnnounceLeave(t) /\ ~AnnounceJoin(t)
  PROVE  Delivered(told)'
<1>0. /\ packets \in [Sessions -> Seq(PacketSet)] /\ view \in [Sessions -> SUBSET Users]
      /\ Present' \subseteq Present /\ Present \subseteq Sessions
  BY PresentShrinks DEF Types, Rest, Present
<1>1. ASSUME UNCHANGED <<packets, view>> PROVE Delivered(told)'
  BY <1>0, <1>1 DEF Delivered
<1>2. ASSUME NEW s \in Sessions, Take(s) PROVE Delivered(told)'
  <2>1. PICK i \in DOMAIN packets[s] : packets' = [packets EXCEPT ![s][i].taken = TRUE]
    BY <1>2 DEF Take
  <2>2. /\ packets'[s] = [packets[s] EXCEPT ![i] = [packets[s][i] EXCEPT !.taken = TRUE]]
        /\ \A q \in Sessions \ {s} : packets'[q] = packets[q]
        /\ UNCHANGED view
    BY <1>0, <1>2, <2>1 DEF Take
  <2>3. s \in Present /\ Leads(view[s], packets[s], told[s])
    BY <1>2 DEF Take, Delivered
  <2>4. Leads(view[s], packets'[s], told[s])
    BY <1>0, <2>2, <2>3, LeadsTaken
  <2>5. ASSUME NEW q \in Present' PROVE Leads(view'[q], packets'[q], told[q])
    <3>1. CASE q = s
      BY <2>2, <2>4, <3>1
    <3>2. CASE q # s
      <4>1. q \in Sessions \ {s} /\ Leads(view[q], packets[q], told[q])
        BY <1>0, <3>2 DEF Delivered
      <4> QED BY <2>2, <4>1
    <3> QED BY <3>1, <3>2
  <2> QED BY <2>5 DEF Delivered
<1>3. ASSUME NEW s \in Sessions, Send(s) PROVE Delivered(told)'
  <2>1. PICK i \in DOMAIN packets[s] :
          /\ packets' = [packets EXCEPT ![s] = RemoveAt(packets[s], i)]
          /\ IF s \in Present
               THEN /\ view' = [view EXCEPT ![s] = Effect(packets[s][i], view[s])]
                    /\ past' = IF i = 1 THEN past ELSE past \cup {"swapped"}
               ELSE UNCHANGED <<view, past>>
    BY <1>3 DEF Send, Taken
  <2>2. /\ \A q \in Sessions \ {s} : packets'[q] = packets[q] /\ view'[q] = view[q]
        /\ packets'[s] = RemoveAt(packets[s], i)
        /\ s \in Present => i = 1 /\ view'[s] = Effect(packets[s][1], view[s])
    BY <1>0, <2>1
  <2>3. ASSUME NEW q \in Present' PROVE Leads(view'[q], packets'[q], told[q])
    <3>0. q \in Sessions /\ q \in Present /\ Leads(view[q], packets[q], told[q])
      BY <1>0 DEF Delivered
    <3>1. CASE q = s
      <4>1. /\ 1 \in DOMAIN packets[s] /\ packets[s] \in Seq(PacketSet)
            /\ Leads(view[s], packets[s], told[s])
            /\ packets'[s] = RemoveAt(packets[s], 1) /\ view'[s] = Effect(packets[s][1], view[s])
        BY <1>0, <2>2, <3>0, <3>1
      <4>2. Leads(Effect(packets[s][1], view[s]), RemoveAt(packets[s], 1), told[s])
        BY <4>1, LeadsFrom
      <4> QED BY <3>1, <4>1, <4>2
    <3>2. CASE q # s
      BY <2>2, <3>0, <3>2
    <3> QED BY <3>1, <3>2
  <2> QED BY <2>3 DEF Delivered
<1>4. CASE Removed
  <2>1. PICK s : s = job[Main].of
    OBVIOUS
  <2>2. /\ status' = [status EXCEPT ![s] = "gone"]
        /\ packets' = [packets EXCEPT ![s] = <<>>] /\ view' = [view EXCEPT ![s] = {}]
    BY <1>4, <2>1 DEF Removed
  <2>3. s \notin Present'
    BY <2>2 DEF Present, Types, Typed
  <2>4. \A q \in Present' : q \in Sessions /\ q # s /\ q \in Present
    BY <1>0, <2>3
  <2> QED BY <1>0, <2>2, <2>4 DEF Delivered
<1>5. ASSUME NEW s \in Sessions,
             \/ \E u \in Users : LoginStep1(s, u)
             \/ LoginStep2(s) \/ LoginRejected(s) \/ JoinDefault(s) \/ LeaveChannel(s)
             \/ RemoveSession(s)
             \/ \E n \in Names : JoinChannel(s, n)
             \/ \E t \in Threads, n \in Names : CreateChannel(t, s, n)
      PROVE  UNCHANGED <<packets, view>>
  BY <1>5 DEF LoginStep1, LoginStep2, LoginRejected, JoinDefault, LeaveChannel, RemoveSession,
     JoinChannel, CreateChannel
<1>6. ASSUME NEW t \in Threads, Step(t) PROVE UNCHANGED <<packets, view>>
  BY <1>6 DEF Step, Erase, Left, Insert, Joined
<1>7. CASE \/ StartTick \/ Scheduled \/ EndWait
           \/ \E w \in Workers : StartUpdate(w) \/ Visit(w) \/ EndUpdate(w)
           \/ UNCHANGED vars
  BY <1>1, <1>7 DEF StartTick, Scheduled, EndWait, StartUpdate, Visit, EndUpdate, vars
<1> QED BY <1>1, <1>2, <1>3, <1>4, <1>5, <1>6, <1>7 DEF Next, Handle

LEMMA ClearStep == Types /\ IInv /\ IInv' /\ Clear /\ [Next]_vars => Clear'
<1> SUFFICES ASSUME Types, IInv, IInv', Clear, [Next]_vars, past' = {}
             PROVE  Users_Kept' /\ \E told \in Tellings : Shows(told)' /\ Delivered(told)'
  BY DEF Clear, Tellings
<1>1. Users_Kept /\ \E told \in Tellings : Shows(told) /\ Delivered(told)
  BY PastGrows DEF Clear
<1>2. PICK told \in Tellings : Shows(told) /\ Delivered(told)
  BY <1>1
<1>3. Users_Kept'
  BY <1>1, UsersKeptStep
<1>4. /\ packets \in [Sessions -> Seq(PacketSet)] /\ \A q \in Sessions : told[q] \in SUBSET Users
      /\ Present' \subseteq Present /\ Present \subseteq Sessions
      /\ Known /\ JobKnown
  BY PresentShrinks DEF Types, Rest, Tellings, Present
<1>5. CASE \A t \in Threads : ~AnnounceLeave(t) /\ ~AnnounceJoin(t)
  BY <1>1, <1>2, <1>3, <1>5, StillShown, StillDelivered
<1>6. ASSUME NEW t \in Threads, AnnounceLeave(t)
      PROVE  \E told2 \in Tellings : Shows(told2)' /\ Delivered(told2)'
  <2>0. PICK told2 : told2 = [q \in Sessions |->
                     IF q = job[t].of THEN {}
                     ELSE IF channel[job[t].of] # None /\ q \in members[channel[job[t].of]]
                       THEN Hidden(told[q], user[job[t].of])
                     ELSE told[q]]
    OBVIOUS
  <2>1. told2 \in Tellings
    BY <1>4, <2>0 DEF Tellings, Hidden
  <2>2. Shows(told2)'
    BY <1>1, <1>2, <1>6, <2>0, <2>1, LeaveShown DEF Clear
  <2>00. PICK s, others : s = job[t].of /\ others = {q \in Sessions : channel[s] # None /\ q \in members[channel[s]]}
    OBVIOUS
  <2>01. /\ \A q \in Sessions : q = s => told2[q] = {} /\ packets'[q] = Append(packets[q], List({}))
         /\ \A q \in others : q # s => /\ told2[q] = Hidden(told[q], user[s])
                                       /\ packets'[q] = Append(packets[q], Leave(user[s]))
         /\ \A q \in Sessions \ others : q # s => told2[q] = told[q] /\ packets'[q] = packets[q]
    BY <1>6, <2>0, <2>00 DEF AnnounceLeave
  <2>3. ASSUME NEW q \in Present' PROVE Leads(view'[q], packets'[q], told2[q])
    <3>1. /\ q \in Sessions /\ packets[q] \in Seq(PacketSet) /\ told[q] \in SUBSET Users
          /\ Leads(view[q], packets[q], told[q]) /\ view' = view
      BY <1>2, <1>4, <1>6 DEF AnnounceLeave, Delivered
    <3>2. CASE q = s
      <4>1. packets'[q] = Append(packets[q], List({})) /\ told2[q] = {}
        BY <2>01, <3>1, <3>2
      <4>2. List({}) \in PacketSet /\ Effect(List({}), told[q]) = {}
        BY PacketTypes DEF Effect, List, Packet
      <4>3. Leads(view[q], Append(packets[q], List({})), Effect(List({}), told[q]))
        BY <3>1, <4>2, LeadsOn
      <4> QED BY <3>1, <4>1, <4>2, <4>3
    <3>3. CASE q # s /\ q \in others
      <4>1. packets'[q] = Append(packets[q], Leave(user[s])) /\ told2[q] = Hidden(told[q], user[s])
        BY <2>01, <3>1, <3>3
      <4>2. Leave(user[s]) \in PacketSet /\ Effect(Leave(user[s]), told[q]) = Hidden(told[q], user[s])
        BY <1>4, <1>6, <2>00, PacketTypes DEF AnnounceLeave, Known, Effect, Leave, Packet
      <4>3. Leads(view[q], Append(packets[q], Leave(user[s])), Effect(Leave(user[s]), told[q]))
        BY <3>1, <4>2, LeadsOn
      <4> QED BY <3>1, <4>1, <4>2, <4>3
    <3>4. CASE q # s /\ q \notin others
      BY <2>01, <3>1, <3>4
    <3> QED BY <3>2, <3>3, <3>4
  <2> QED BY <2>1, <2>2, <2>3 DEF Delivered
<1>7. ASSUME NEW t \in Threads, AnnounceJoin(t)
      PROVE  \E told2 \in Tellings : Shows(told2)' /\ Delivered(told2)'
  <2>0. PICK s, o : s = job[t].of /\ o = job[t].to
    OBVIOUS
  <2>1. PICK v \in Lists(UsersOf(members[o])) :
          packets' = [q \in Sessions |->
            IF q = s THEN Append(packets[q], List(v))
            ELSE IF q \in members[o] THEN Append(packets[q], Join(user[s]))
            ELSE packets[q]]
    BY <1>7, <2>0 DEF AnnounceJoin
  <2>2. PICK told2 : told2 = [q \in Sessions |-> IF q = s THEN v
                                     ELSE IF q \in members[o] THEN Shown(told[q], user[s])
                                     ELSE told[q]]
    OBVIOUS
  <2>3. user[s] \in Users /\ v \in SUBSET Users
    <3>1. user[s] \in Users /\ UsersOf(members[o]) \subseteq Users
      BY <1>4, <1>7, <2>0 DEF AnnounceJoin, Known, JobKnown, UsersOf
    <3> QED BY <2>1, <3>1 DEF Lists
  <2>4. told2 \in Tellings
    BY <1>4, <2>2, <2>3 DEF Tellings, Shown
  <2>5. Shows(told2)'
    BY <1>1, <1>2, <1>7, <2>0, <2>1, <2>2, <2>4, JoinShown
  <2>6. /\ List(v) \in PacketSet /\ \A x : Effect(List(v), x) = v
        /\ Join(user[s]) \in PacketSet /\ \A x : Effect(Join(user[s]), x) = Shown(x, user[s])
    BY <2>3, PacketTypes DEF Effect, List, Join, Packet
  <2>7. ASSUME NEW q \in Present' PROVE Leads(view'[q], packets'[q], told2[q])
    <3>1. /\ q \in Sessions /\ packets[q] \in Seq(PacketSet) /\ told[q] \in SUBSET Users
          /\ Leads(view[q], packets[q], told[q]) /\ view' = view
      BY <1>2, <1>4, <1>7 DEF AnnounceJoin, Delivered
    <3>2. CASE q = s
      <4>1. packets'[q] = Append(packets[q], List(v)) /\ told2[q] = v
        BY <2>1, <2>2, <3>1, <3>2
      <4>2. Leads(view[q], Append(packets[q], List(v)), Effect(List(v), told[q]))
        BY <2>6, <3>1, LeadsOn
      <4> QED BY <2>6, <3>1, <4>1, <4>2
    <3>3. CASE q # s /\ q \in members[o]
      <4>1. packets'[q] = Append(packets[q], Join(user[s])) /\ told2[q] = Shown(told[q], user[s])
        BY <2>1, <2>2, <3>1, <3>3
      <4>2. Leads(view[q], Append(packets[q], Join(user[s])), Effect(Join(user[s]), told[q]))
        BY <2>6, <3>1, LeadsOn
      <4> QED BY <2>6, <3>1, <4>1, <4>2
    <3>4. CASE q # s /\ q \notin members[o]
      BY <2>1, <2>2, <3>1, <3>4
    <3> QED BY <3>2, <3>3, <3>4
  <2> QED BY <2>4, <2>5, <2>7 DEF Delivered
<1> QED BY <1>3, <1>5, <1>6, <1>7

\* Between the handlers, when all its packets have been sent, the list of users that a
\* client shows is that of its channel, and is empty outside of the channels, unless the
\* main thread passed the barrier too early, two threads were in handlers of one session,
\* two names differ in case only or two packets were swapped on the way.
THEOREM ListsAreRight == Spec => []ListsAgree
<1>1. Types /\ IInv /\ Clear => ListsAgree
  <2> SUFFICES ASSUME Types, IInv, Clear, past = {}, \A t \in Threads : job[t] = Idle,
                      NEW s \in Sessions, status[s] = "authenticated", packets[s] = <<>>
               PROVE  view[s] = IF channel[s] = None THEN {} ELSE UsersOf(members[channel[s]])
    BY DEF ListsAgree, Authenticated
  <2>01. PICK told \in Tellings : Shows(told) /\ Delivered(told)
    BY DEF Clear
  <2>02. told[s] = view[s]
    <3>1. Leads(view[s], <<>>, told[s]) /\ Len(<<>>) = 0
      BY <2>01 DEF Delivered, Present
    <3> QED BY <3>1 DEF Leads
  <2>1. /\ \A q \in Sessions : ~Joining(q) /\ ~Busy(q)
        /\ \A q \in Sessions, o \in Objects : ~Leaving(q, o)
        /\ \A t \in Threads : job[t].at # "leaving"
    BY JobTypes, Constants DEF Joining, Leaving, Busy
  <2>2. Settled(s)
    BY <2>1 DEF IInv, Agreed
  <2>3. CASE channel[s] = None
    <3>1. Out(s)
      BY <2>1, <2>2, <2>3, Constants DEF Settled, Out
    <3> QED BY <2>01, <2>02, <2>3, <3>1 DEF Shows
  <2>4. CASE channel[s] # None
    <3>1. PICK o \in Objects : o = channel[s]
      BY <2>4 DEF Types, Typed
    <3>2. s \in members[o] /\ Shown_Right(o, told) /\ members[o] \subseteq Sessions
      BY <2>01, <2>2, <3>1 DEF Settled, Shows, Types, Typed
    <3>3. \A r \in members[o] : user[r] \in view[s]
      BY <2>02, <2>1, <3>2 DEF Shown_Right
    <3>4. \A u \in view[s] : \E r \in members[o] : user[r] = u
      BY <2>02, <2>1, <3>2 DEF Shown_Right
    <3>5. view[s] = UsersOf(members[o])
      BY <3>3, <3>4 DEF UsersOf
    <3> QED BY <2>4, <3>1, <3>5
  <2> QED BY <2>3, <2>4
<1> QED BY <1>1, TypesInit, TypesStep, IInvInit, IInvStep, ClearInit, ClearStep, PTL DEF Spec
=============================================================================
