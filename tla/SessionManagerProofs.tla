------------------------ MODULE SessionManagerProofs ------------------------
(***************************************************************************)
(* Proofs about SessionManager for any descriptors, any number of          *)
(* connections and any limits: its types, that no accepted session is      *)
(* forgotten, that waiting clients know their positions, how far the       *)
(* waiting queue grows; and, when the kernel does not hand out the         *)
(* descriptor of a registered session, the limit of active sessions and    *)
(* that sessions are found by their ids.                                   *)
(*                                                                         *)
(* Life is the inductive invariant of the bookkeeping, the others build    *)
(* on it: Told, Bounded, Known, Limited.                                   *)
(***************************************************************************)
EXTENDS SessionManager, FiniteSetTheorems, SequenceTheorems,
        WellFoundedInduction, TLAPS

\* A number below the modulus is its own remainder.
LEMMA SmallModulus == ASSUME NEW a \in Nat, NEW n \in Nat, a < n PROVE a % n = a
OBVIOUS

\* What removing an element leaves of a sequence.
LEMMA RemoveAtFacts ==
  ASSUME NEW S, NEW q \in Seq(S), NEW i \in 1..Len(q)
  PROVE  /\ RemoveAt(q, i) \in Seq(S)
         /\ Len(RemoveAt(q, i)) = Len(q) - 1
         /\ \A j \in 1..(Len(q) - 1) : RemoveAt(q, i)[j] = IF j < i THEN q[j] ELSE q[j+1]
<1>0. Len(q) \in Nat /\ i \in Int /\ 1 <= i /\ i <= Len(q)
  OBVIOUS
<1>. PICK n \in Nat : n = Len(q)
  BY <1>0
<1> DEFINE a == SubSeq(q, 1, i-1)
           b == SubSeq(q, i+1, n)
<1>1. /\ a \in Seq(S) /\ Len(a) = i-1
      /\ \A j \in 1..(i-1) : a[j] = q[j]
  <2>1. \A j \in 1..(i-1) : q[j] \in S
    BY ElementOfSeq
  <2> QED BY <2>1, <1>0, SubSeqProperties
<1>2. /\ b \in Seq(S) /\ Len(b) = n - i
      /\ \A j \in 1..(n - i) : b[j] = q[i+j]
  <2>1. \A j \in (i+1)..n : q[j] \in S
    BY ElementOfSeq
  <2> QED BY <2>1, <1>0, SubSeqProperties
<1>3. RemoveAt(q, i) = a \o b
  BY DEF RemoveAt
<1> HIDE DEF a, b
<1>4. /\ a \o b \in Seq(S) /\ Len(a \o b) = Len(a) + Len(b)
      /\ \A j \in 1..Len(a) + Len(b) :
              (a \o b)[j] = IF j <= Len(a) THEN a[j] ELSE b[j - Len(a)]
  BY <1>1, <1>2, ConcatProperties
<1>5. Len(a) + Len(b) = n - 1
  BY <1>0, <1>1, <1>2
<1>6. ASSUME NEW j \in 1..(n - 1)
      PROVE  (a \o b)[j] = IF j < i THEN q[j] ELSE q[j+1]
  <2>1. CASE j < i
    BY <2>1, <1>0, <1>1, <1>4, <1>5
  <2>2. CASE ~(j < i)
    <3>1. j - (i-1) \in 1..(n - i) /\ ~(j <= i-1) /\ i + (j - (i-1)) = j + 1
      BY <2>2, <1>0
    <3>2. b[j - (i-1)] = q[j + 1]
      BY <3>1, <1>2
    <3>3. (a \o b)[j] = b[j - (i-1)]
      BY <3>1, <1>1, <1>4, <1>5
    <3> QED BY <2>2, <3>2, <3>3
  <2> QED BY <2>1, <2>2
<1> QED BY <1>3, <1>4, <1>5, <1>6

-----------------------------------------------------------------------------
(* The inductive invariant.                                                 *)

InAdd(s) == \E i \in 1..Len(addq) : addq[i] = s
InWait(s) == \E i \in 1..Len(wait) : wait[i] = s

\* A connection that the epoll thread is still admitting has no session, and a
\* session that has not been created has nothing.
Created ==
    /\ epc # "idle" => conns \in Sessions /\ status[conns] = "none" /\ fresh \in Fds
    /\ \A s \in Sessions : status[s] # "none" => s <= conns
    /\ \A s \in Sessions : status[s] = "none" => ~Open(s) /\ told[s] = 0

\* The sessions that are connected and no further are those in addSessQueue, in the
\* waiting queue or in the main thread's hands: each in one of them, and once.
Placed ==
    /\ \A i, j \in 1..Len(addq) : addq[i] = addq[j] => i = j
    /\ \A i, j \in 1..Len(wait) : wait[i] = wait[j] => i = j
    /\ \A s \in Sessions : InAdd(s) => ~InWait(s) /\ cur # s
    /\ \A s \in Sessions : InWait(s) => cur # s
    /\ \A s \in Sessions : status[s] = "connected" <=> InAdd(s) \/ InWait(s) \/ cur = s

\* No network thread can know a session on its way to m_sessions.
Arriving ==
    \A s \in Sessions : InAdd(s) \/ cur = s => Open(s) /\ told[s] = 0 /\ ~Registered(s)

\* m_sessions holds a session under one key, created and not yet removed, and the
\* walk of the update loop stays in the map.
Mapped ==
    /\ \A f \in Fds : registry[f] # None => status[registry[f]] \notin {"none", "gone"}
    /\ \A f, g \in Fds : registry[f] = registry[g] /\ registry[f] # None => f = g
    /\ mpc = "visit" => todo \subseteq Keys

Life == TypeOK /\ Created /\ Placed /\ Arriving /\ Mapped

LEMMA LifeInit == Init => Life
<1> SUFFICES ASSUME Init PROVE Life
  OBVIOUS
<1> USE DEF Init
<1>1. TypeOK
  BY LimitsAssumption DEF TypeOK, Statuses
<1>2. Created /\ Arriving
  BY NoneAssumption DEF Created, Arriving, Open, InAdd, Sessions
<1>3. Placed /\ Mapped
  BY NoneAssumption DEF Placed, Mapped, InAdd, InWait, Sessions
<1> QED BY <1>1, <1>2, <1>3 DEF Life

LEMMA NoneIsNoSession == None \notin Sessions /\ Sessions \subseteq Nat
BY NoneAssumption DEF Sessions

-----------------------------------------------------------------------------
(* What RemoveQueuedSession makes of the waiting queue.                     *)

LEMMA FoundWaits ==
  ASSUME TypeOK, NEW s
  PROVE  /\ Found(s) <=> InWait(s)
         /\ Found(s) => WaitIndex(s) \in 1..Len(wait) /\ wait[WaitIndex(s)] = s
<1>1. DOMAIN wait = 1..Len(wait)
  BY DEF TypeOK
<1> QED BY <1>1 DEF Found, InWait, WaitIndex, ToSet

LEMMA WithoutFacts ==
  ASSUME TypeOK, Placed, NEW s \in Sessions
  PROVE  /\ Without(s) \in Seq(Sessions)
         /\ Len(Without(s)) = IF Found(s) THEN Len(wait) - 1 ELSE Len(wait)
         /\ \A i \in 1..Len(Without(s)) :
                Without(s)[i] = IF Found(s) /\ i >= WaitIndex(s) THEN wait[i+1] ELSE wait[i]
         /\ \A i, j \in 1..Len(Without(s)) : Without(s)[i] = Without(s)[j] => i = j
         /\ \A t \in Sessions : (\E i \in 1..Len(Without(s)) : Without(s)[i] = t)
                                 <=> InWait(t) /\ t # s
<1>0. wait \in Seq(Sessions) /\ Len(wait) \in Nat
  BY DEF TypeOK
<1>1. CASE ~Found(s)
  <2>1. Without(s) = wait /\ ~InWait(s)
    BY <1>1, FoundWaits DEF Without
  <2> QED BY <1>0, <1>1, <2>1 DEF Placed, InWait
<1>2. CASE Found(s)
  <2> DEFINE k == WaitIndex(s)
             q == Without(s)
  <2>1. k \in 1..Len(wait) /\ wait[k] = s /\ q = RemoveAt(wait, k)
    BY <1>2, FoundWaits DEF Without
  <2>2. /\ q \in Seq(Sessions) /\ Len(q) = Len(wait) - 1
        /\ \A j \in 1..(Len(wait) - 1) : q[j] = IF j < k THEN wait[j] ELSE wait[j+1]
    BY <1>0, <2>1, RemoveAtFacts
  <2> HIDE DEF k, q
  <2>3. \A i \in 1..Len(q) : q[i] = IF i >= k THEN wait[i+1] ELSE wait[i]
    BY <1>0, <2>1, <2>2
  <2>4. ASSUME NEW i \in 1..Len(q), NEW j \in 1..Len(q), q[i] = q[j] PROVE i = j
    <3>1. \A m, n \in 1..Len(wait) : wait[m] = wait[n] => m = n
      BY DEF Placed
    <3>2. i \in 1..Len(wait) /\ i+1 \in 1..Len(wait) /\ j \in 1..Len(wait) /\ j+1 \in 1..Len(wait)
      BY <1>0, <2>2
    <3> QED BY <1>0, <2>1, <2>3, <2>4, <3>1, <3>2
  <2>5. ASSUME NEW t \in Sessions
        PROVE  (\E i \in 1..Len(q) : q[i] = t) <=> InWait(t) /\ t # s
    <3>1. ASSUME NEW i \in 1..Len(q), q[i] = t PROVE InWait(t) /\ t # s
      <4>1. \A m, n \in 1..Len(wait) : wait[m] = wait[n] => m = n
        BY DEF Placed
      <4>2. i \in 1..Len(wait) /\ i+1 \in 1..Len(wait)
        BY <1>0, <2>2
      <4>3. InWait(t)
        BY <2>3, <3>1, <4>2 DEF InWait
      <4>4. t # s
        BY <1>0, <2>1, <2>3, <3>1, <4>1, <4>2
      <4> QED BY <4>3, <4>4
    <3>2. ASSUME InWait(t), t # s PROVE \E i \in 1..Len(q) : q[i] = t
      <4>1. PICK i \in 1..Len(wait) : wait[i] = t
        BY <3>2 DEF InWait
      <4>2. i # k
        BY <2>1, <3>2, <4>1
      <4>3. CASE i < k
        <5>1. i \in 1..Len(q) /\ q[i] = wait[i]
          BY <1>0, <2>1, <2>2, <4>3
        <5> QED BY <4>1, <5>1
      <4>4. CASE i > k
        <5>1. i-1 \in 1..Len(q) /\ q[i-1] = wait[(i-1)+1] /\ (i-1)+1 = i
          BY <1>0, <2>1, <2>2, <4>4
        <5> QED BY <4>1, <5>1
      <4> QED BY <2>1, <4>2, <4>3, <4>4
    <3> QED BY <3>1, <3>2
  <2> QED BY <1>2, <2>2, <2>3, <2>4, <2>5 DEF k, q
<1> QED BY <1>1, <1>2

LEMMA AfterFacts ==
  ASSUME TypeOK, Placed, NEW s \in Sessions
  PROVE  /\ WaitAfter(s) \in Seq(Sessions)
         /\ Len(WaitAfter(s)) = Len(wait) - (IF Found(s) THEN 1 ELSE 0)
                                          - (IF LetsIn(s) THEN 1 ELSE 0)
         /\ \A i, j \in 1..Len(WaitAfter(s)) : WaitAfter(s)[i] = WaitAfter(s)[j] => i = j
         /\ \A t \in Sessions : (\E i \in 1..Len(WaitAfter(s)) : WaitAfter(s)[i] = t)
                                 <=> InWait(t) /\ t # s /\ t \notin Released(s)
         /\ \A t \in Released(s) : t \in Sessions /\ InWait(t)
         /\ s \in Released(s) <=> InWait(s)
<1> DEFINE w == Without(s)
           q == WaitAfter(s)
<1>1. /\ w \in Seq(Sessions) /\ Len(w) \in Nat
      /\ Len(w) = IF Found(s) THEN Len(wait) - 1 ELSE Len(wait)
      /\ \A i, j \in 1..Len(w) : w[i] = w[j] => i = j
      /\ \A t \in Sessions : (\E i \in 1..Len(w) : w[i] = t) <=> InWait(t) /\ t # s
  BY WithoutFacts
<1>2. Found(s) <=> InWait(s)
  BY FoundWaits
<1>3. Len(wait) \in Nat
  BY DEF TypeOK
<1>4. CASE ~LetsIn(s)
  <2>1. q = w /\ Released(s) = IF Found(s) THEN {s} ELSE {}
    BY <1>4 DEF WaitAfter, Released
  <2> HIDE DEF q, w
  <2>2. Len(q) = Len(wait) - (IF Found(s) THEN 1 ELSE 0) - (IF LetsIn(s) THEN 1 ELSE 0)
    BY <1>1, <1>3, <1>4, <2>1
  <2>3. \A t \in Sessions : (\E i \in 1..Len(q) : q[i] = t) <=> InWait(t) /\ t # s /\ t \notin Released(s)
    BY <1>1, <1>2, <2>1
  <2>4. (\A t \in Released(s) : t \in Sessions /\ InWait(t)) /\ (s \in Released(s) <=> InWait(s))
    BY <1>2, <2>1
  <2>5. q \in Seq(Sessions) /\ \A i, j \in 1..Len(q) : q[i] = q[j] => i = j
    BY <1>1, <2>1
  <2> QED BY <2>2, <2>3, <2>4, <2>5 DEF q
<1>5. CASE LetsIn(s)
  <2>1. /\ q = Tail(w) /\ w # << >>
        /\ Released(s) = (IF Found(s) THEN {s} ELSE {}) \cup {Head(w)}
    BY <1>5 DEF WaitAfter, Released, LetsIn
  <2> HIDE DEF q, w
  <2>2. /\ q \in Seq(Sessions) /\ Len(q) = Len(w) - 1
        /\ \A i \in 1..Len(q) : q[i] = w[i+1]
    BY <1>1, <2>1, HeadTailProperties
  <2>3. Head(w) = w[1] /\ Len(w) >= 1 /\ Head(w) \in Sessions
    BY <1>1, <2>1
  <2>4. Len(q) = Len(wait) - (IF Found(s) THEN 1 ELSE 0) - (IF LetsIn(s) THEN 1 ELSE 0)
    BY <1>1, <1>3, <1>5, <2>2
  <2>5. ASSUME NEW i \in 1..Len(q), NEW j \in 1..Len(q), q[i] = q[j] PROVE i = j
    BY <1>1, <2>2, <2>5, SMTT(60)
  <2>6. InWait(Head(w)) /\ Head(w) # s
    BY <1>1, <2>3
  <2>7. ASSUME NEW t \in Sessions
        PROVE  (\E i \in 1..Len(q) : q[i] = t) <=> InWait(t) /\ t # s /\ t # Head(w)
    <3>1. ASSUME NEW i \in 1..Len(q), q[i] = t PROVE InWait(t) /\ t # s /\ t # Head(w)
      <4>1. i+1 \in 1..Len(w) /\ w[i+1] = t /\ i+1 # 1 /\ 1 \in 1..Len(w)
        BY <1>1, <2>2, <3>1
      <4> QED BY <1>1, <2>3, <4>1
    <3>2. ASSUME InWait(t), t # s, t # Head(w) PROVE \E i \in 1..Len(q) : q[i] = t
      <4>1. PICK i \in 1..Len(w) : w[i] = t
        BY <1>1, <3>2
      <4>2. i # 1
        BY <2>3, <3>2, <4>1
      <4>3. i-1 \in 1..Len(q) /\ q[i-1] = w[(i-1)+1] /\ (i-1)+1 = i
        BY <1>1, <2>2, <4>2
      <4> QED BY <4>1, <4>3
    <3> QED BY <3>1, <3>2
  <2> QED BY <1>2, <2>1, <2>2, <2>3, <2>4, <2>5, <2>6, <2>7 DEF q
<1> QED BY <1>4, <1>5

-----------------------------------------------------------------------------
(* Every step keeps Life.                                                   *)

LEMMA AcceptReadsLife ==
  ASSUME Life, NEW f \in Fds, AcceptReads(f)
  PROVE  Life'
<1> USE NoneIsNoSession DEF Life, AcceptReads, session, queues, main
<1>1. conns + 1 \in Sessions /\ conns' = conns + 1
  BY LimitsAssumption DEF Sessions, TypeOK
<1>2. TypeOK'
  <2>1. Len(wait) \in Nat /\ Len(addq) \in Nat
    BY DEF TypeOK
  <2> QED BY <1>1, <2>1 DEF TypeOK, Sessions
<1>3. Created'
  <2>1. status[conns+1] = "none"
    BY <1>1 DEF Created, TypeOK
  <2> QED BY <1>1, <2>1 DEF Created, Open, TypeOK
<1>4. Placed' /\ Arriving' /\ Mapped'
  BY DEF Placed, Arriving, Mapped, InAdd, InWait, Open, Registered, Keys
<1> QED BY <1>2, <1>3, <1>4

LEMMA AcceptThrowsLife ==
  ASSUME Life, NEW f \in Fds, AcceptThrows(f)
  PROVE  Life'
<1> USE NoneIsNoSession DEF Life, AcceptThrows, epoll, session, queues, main
<1>1. conns + 1 \in Sessions /\ conns' = conns + 1 /\ epc = "idle"
  BY LimitsAssumption DEF Sessions, TypeOK
<1>2. TypeOK'
  BY <1>1 DEF TypeOK, Sessions
<1>3. Created'
  <2>1. status[conns+1] = "none"
    BY <1>1 DEF Created, TypeOK
  <2> QED BY <1>1, <2>1 DEF Created, Open, TypeOK
<1>4. Placed' /\ Arriving' /\ Mapped'
  BY DEF Placed, Arriving, Mapped, InAdd, InWait, Open, Registered, Keys
<1> QED BY <1>2, <1>3, <1>4

LEMMA AcceptDecidesLife ==
  ASSUME Life, AcceptDecides
  PROVE  Life'
<1> USE NoneIsNoSession DEF Life, AcceptDecides, main
<1>1. conns \in Sessions /\ status[conns] = "none" /\ fresh \in Fds
  BY DEF Created
<1>2. CASE ~Admitted
  <2>1. TypeOK'
    BY <1>1, <1>2 DEF TypeOK
  <2>2. Created' /\ Placed' /\ Arriving' /\ Mapped'
    BY <1>2 DEF Created, Placed, Arriving, Mapped, InAdd, InWait, Open, Registered, Keys
  <2> QED BY <2>1, <2>2
<1>3. CASE Admitted
  <2>1. /\ addq' = Append(addq, conns) /\ addq \in Seq(Sessions) /\ addq' \in Seq(Sessions)
        /\ Len(addq') = Len(addq) + 1 /\ addq'[Len(addq) + 1] = conns
        /\ \A i \in 1..Len(addq) : addq'[i] = addq[i]
        /\ Len(addq) \in Nat
    <3>1. addq' = Append(addq, conns) /\ addq \in Seq(Sessions)
      BY <1>3 DEF TypeOK
    <3> HIDE DEF Life, AcceptDecides
    <3>2. Len(addq) \in Nat
      BY <3>1
    <3> QED BY <1>1, <3>1, <3>2, AppendProperties
  <2>2. /\ sock' = [sock EXCEPT ![conns] = fresh]
        /\ status' = [status EXCEPT ![conns] = "connected"]
    BY <1>3
  <2>3. TypeOK'
    BY <1>1, <1>3, <2>1, <2>2 DEF TypeOK, Statuses
  <2>4. Created'
    BY <1>1, <2>2 DEF Created, Open, TypeOK, Sessions
  <2>5. ~InAdd(conns) /\ ~InWait(conns) /\ cur # conns /\ ~Registered(conns)
    BY <1>1 DEF Placed, Mapped, Registered
  <2>6. \A s \in Sessions : InAdd(s)' <=> InAdd(s) \/ s = conns
    BY <1>1, <2>1 DEF InAdd
  <2>7. \A s \in Sessions : InWait(s)' <=> InWait(s)
    BY DEF InWait
  <2>8. Placed'
    <3>1. ASSUME NEW i \in 1..Len(addq'), NEW j \in 1..Len(addq'), addq'[i] = addq'[j]
          PROVE  i = j
      BY <2>1, <2>5, <3>1 DEF Placed, InAdd
    <3>2. \A s \in Sessions : status'[s] = "connected" <=> status[s] = "connected" \/ s = conns
      BY <1>1, <2>2 DEF TypeOK
    <3> QED BY <2>5, <2>6, <2>7, <3>1, <3>2 DEF Placed
  <2>9. Arriving'
    <3> SUFFICES ASSUME NEW s \in Sessions, InAdd(s)' \/ cur' = s
                 PROVE  Open(s)' /\ told'[s] = 0 /\ ~Registered(s)'
      BY DEF Arriving
    <3>1. ~Registered(s)' /\ told'[s] = 0
      BY <1>1, <2>5, <2>6 DEF Arriving, Registered, Created
    <3>2. Open(s)'
      BY <1>1, <2>2, <2>6, NoneAssumption DEF Arriving, Open, TypeOK
    <3> QED BY <3>1, <3>2
  <2>10. Mapped'
    BY <1>1, <2>2, <2>5 DEF Mapped, Keys, TypeOK, Registered
  <2> QED BY <2>3, <2>4, <2>8, <2>9, <2>10
<1> QED BY <1>2, <1>3

LEMMA HangUpLife ==
  ASSUME Life, NEW f \in Fds, HangUp(f)
  PROVE  Life'
<1> USE DEF Life, HangUp, epoll, session, queues, main
<1>1. TypeOK'
  BY DEF TypeOK
<1>2. Created' /\ Placed' /\ Arriving' /\ Mapped'
  BY DEF Created, Placed, Arriving, Mapped, InAdd, InWait, Open, Registered, Keys
<1> QED BY <1>1, <1>2

LEMMA NetworkCloseLife ==
  ASSUME Life, NEW s \in Sessions, NetworkClose(s)
  PROVE  Life'
<1> USE DEF Life, NetworkClose, epoll, queues, main
<1>1. TypeOK'
  BY DEF TypeOK
<1>2. ~InAdd(s) /\ cur # s
  BY DEF Arriving, Placed
<1>3. Arriving'
  BY <1>2 DEF Arriving, Open, InAdd, Registered, TypeOK
<1>4. Created'
  BY DEF Created, Open, TypeOK
<1>5. Placed' /\ Mapped'
  BY DEF Placed, Mapped, InAdd, InWait, Keys
<1> QED BY <1>1, <1>3, <1>4, <1>5

LEMMA DrainTakesLife ==
  ASSUME Life, DrainTakes
  PROVE  Life'
<1> USE NoneIsNoSession DEF Life
<1>1. /\ addq # << >> /\ addq' = Tail(addq) /\ cur' = Head(addq) /\ cur = None
      /\ mpc = "drain" /\ mpc' = "insert"
      /\ UNCHANGED <<owner, conns, epc, seen, fresh, sock, id, status, inQueue, told,
                     keyDue, wait, registry, todo>>
  BY DEF DrainTakes, TypeOK, epoll, session
<1>2. /\ addq \in Seq(Sessions) /\ Len(addq) \in Nat /\ Len(addq) >= 1
      /\ cur' \in Sessions /\ addq' \in Seq(Sessions) /\ Len(addq') = Len(addq) - 1
      /\ cur' = addq[1] /\ \A i \in 1..Len(addq') : addq'[i] = addq[i+1]
  <2>1. addq \in Seq(Sessions)
    BY DEF TypeOK
  <2> QED BY <1>1, <2>1, HeadTailProperties
<1>3. TypeOK'
  BY <1>1, <1>2 DEF TypeOK
<1>4. \A i, j \in 1..Len(addq) : addq[i] = addq[j] => i = j
  BY DEF Placed
<1>5. \A s \in Sessions : InAdd(s)' <=> InAdd(s) /\ s # cur'
  <2> TAKE s \in Sessions
  <2>1. ASSUME NEW i \in 1..Len(addq'), addq'[i] = s PROVE InAdd(s) /\ s # cur'
    <3>1. i+1 \in 1..Len(addq) /\ addq[i+1] = s /\ i+1 # 1 /\ 1 \in 1..Len(addq)
      BY <1>2, <2>1
    <3> QED BY <1>2, <1>4, <3>1 DEF InAdd
  <2>2. ASSUME NEW i \in 1..Len(addq), addq[i] = s, s # cur' PROVE InAdd(s)'
    <3>1. i - 1 \in 1..Len(addq') /\ addq'[i-1] = addq[(i-1)+1] /\ (i-1)+1 = i
      BY <1>2, <2>2
    <3> QED BY <2>2, <3>1 DEF InAdd
  <2> QED BY <2>1, <2>2 DEF InAdd
<1>6. InAdd(cur') /\ \A s \in Sessions : InWait(s)' <=> InWait(s)
  BY <1>1, <1>2 DEF InAdd, InWait
<1>7. Placed'
  <2>1. ASSUME NEW i \in 1..Len(addq'), NEW j \in 1..Len(addq'), addq'[i] = addq'[j] PROVE i = j
    <3>1. i+1 \in 1..Len(addq) /\ j+1 \in 1..Len(addq) /\ addq[i+1] = addq[j+1]
      BY <1>2, <2>1
    <3>2. i+1 = j+1
      BY <1>4, <3>1
    <3> QED BY <3>2
  <2> QED BY <1>1, <1>2, <1>5, <1>6, <2>1 DEF Placed
<1>8. Arriving'
  BY <1>1, <1>2, <1>5, <1>6 DEF Arriving, Open, Registered
<1>9. Created' /\ Mapped'
  BY <1>1 DEF Created, Mapped, Open, Keys
<1> QED BY <1>3, <1>7, <1>8, <1>9

\* A session is put under its key when nothing is there yet.
LEMMA InsertFacts ==
  ASSUME TypeOK, NEW f \in Fds, NEW s \in Sessions, Insert(f, s)
  PROVE  /\ registry' \in [Fds -> Sessions \cup {None}]
         /\ \A g \in Fds : registry'[g] = IF g = f /\ registry[f] = None THEN s ELSE registry[g]
BY NoneIsNoSession DEF TypeOK, Insert

LEMMA AddToWaitQueueLife ==
  ASSUME Life, AddToWaitQueue
  PROVE  Life'
<1> USE NoneIsNoSession DEF Life
<1>1. /\ mpc = "insert" /\ mpc' = "drain" /\ cur \in Sessions /\ cur' = None
      /\ inQueue' = [inQueue EXCEPT ![cur] = TRUE]
      /\ wait' = Append(wait, cur)
      /\ told' = [told EXCEPT ![cur] = Len(wait')]
      /\ id' = [id EXCEPT ![cur] = sock[cur]]
      /\ Insert(sock[cur], cur)
      /\ UNCHANGED <<owner, conns, epc, seen, fresh, sock, status, keyDue, addq, todo>>
  BY DEF AddToWaitQueue, TypeOK, epoll
<1>2. /\ sock[cur] \in Fds /\ ~Registered(cur)
      /\ status[cur] = "connected" /\ ~InWait(cur) /\ ~InAdd(cur)
  BY <1>1 DEF Arriving, Placed, Open, TypeOK
<1>3. /\ wait \in Seq(Sessions) /\ Len(wait) \in Nat
      /\ wait' \in Seq(Sessions) /\ Len(wait') = Len(wait) + 1
      /\ wait'[Len(wait) + 1] = cur /\ \A i \in 1..Len(wait) : wait'[i] = wait[i]
  <2>1. wait \in Seq(Sessions)
    BY DEF TypeOK
  <2> QED BY <1>1, <2>1, AppendProperties
<1>4. /\ registry' \in [Fds -> Sessions \cup {None}]
      /\ \A g \in Fds : registry'[g] = IF g = sock[cur] /\ registry[sock[cur]] = None
                                          THEN cur ELSE registry[g]
  BY <1>1, <1>2, InsertFacts
<1>5. TypeOK'
  BY <1>1, <1>2, <1>3, <1>4 DEF TypeOK
<1>6. \A s \in Sessions : (InWait(s)' <=> InWait(s) \/ s = cur) /\ (InAdd(s)' <=> InAdd(s))
  BY <1>1, <1>3 DEF InAdd, InWait
<1>7. Placed'
  <2>1. ASSUME NEW i \in 1..Len(wait'), NEW j \in 1..Len(wait'), wait'[i] = wait'[j] PROVE i = j
    BY <1>2, <1>3, <2>1 DEF Placed, InWait
  <2> QED BY <1>1, <1>2, <1>3, <1>6, <2>1 DEF Placed
<1>8. \A s \in Sessions : s # cur => (Registered(s)' <=> Registered(s))
  BY <1>2, <1>4 DEF Registered
<1>9. Arriving'
  BY <1>1, <1>2, <1>6, <1>8 DEF Arriving, Open, TypeOK
<1>10. Created'
  BY <1>1, <1>2 DEF Created, Open, TypeOK
<1>11. Mapped'
  BY <1>1, <1>2, <1>4 DEF Mapped, Registered
<1> QED BY <1>5, <1>7, <1>9, <1>10, <1>11

LEMMA AddActiveLife ==
  ASSUME Life, AddActive
  PROVE  Life'
<1> USE NoneIsNoSession DEF Life
<1>1. /\ mpc = "insert" /\ mpc' = "drain" /\ cur \in Sessions /\ cur' = None
      /\ id' = [id EXCEPT ![cur] = sock[cur]]
      /\ Insert(sock[cur], cur)
      /\ status' = LoginStarted({cur})
      /\ UNCHANGED <<owner, conns, epc, seen, fresh, sock, inQueue, told, keyDue, addq, wait,
                     todo>>
  BY DEF AddActive, TypeOK, epoll, queues
<1>2. /\ sock[cur] \in Fds /\ ~Registered(cur)
      /\ status[cur] = "connected" /\ ~InWait(cur) /\ ~InAdd(cur)
  BY <1>1 DEF Arriving, Placed, Open, TypeOK
<1>3. status' = [status EXCEPT ![cur] = "login"]
  BY <1>1, <1>2 DEF LoginStarted, TypeOK
<1>4. /\ registry' \in [Fds -> Sessions \cup {None}]
      /\ \A g \in Fds : registry'[g] = IF g = sock[cur] /\ registry[sock[cur]] = None
                                          THEN cur ELSE registry[g]
  BY <1>1, <1>2, InsertFacts
<1>5. TypeOK'
  <2>1. status' \in [Sessions -> Statuses] /\ id' \in [Sessions -> Fds \cup {0}]
    BY <1>1, <1>2, <1>3 DEF TypeOK, Statuses
  <2> QED BY <1>1, <1>4, <2>1 DEF TypeOK
<1>6. \A s \in Sessions : (InWait(s)' <=> InWait(s)) /\ (InAdd(s)' <=> InAdd(s))
  BY <1>1 DEF InAdd, InWait
<1>7. Placed'
  BY <1>1, <1>2, <1>3, <1>6, ZenonT(60) DEF Placed, TypeOK
<1>8. \A s \in Sessions : s # cur => (Registered(s)' <=> Registered(s))
  BY <1>2, <1>4 DEF Registered
<1>9. Arriving'
  BY <1>1, <1>2, <1>6, <1>8 DEF Arriving, Open, TypeOK
<1>10. Created'
  BY <1>1, <1>2, <1>3 DEF Created, Open, TypeOK
<1>11. Mapped'
  <2>1. ASSUME NEW f \in Fds, registry'[f] # None PROVE status'[registry'[f]] \notin {"none", "gone"}
    BY <1>1, <1>2, <1>3, <1>4, <2>1, ZenonT(60) DEF Mapped, TypeOK
  <2> QED BY <1>1, <1>2, <1>4, <2>1 DEF Mapped, Registered
<1> QED BY <1>5, <1>7, <1>9, <1>10, <1>11

LEMMA MinIsMember ==
  ASSUME NEW S \in SUBSET Nat, S # {}
  PROVE  Min(S) \in S
<1> DEFINE R == {p \in Nat \X Nat : p[1] < p[2]}
<1>0. IsWellFoundedOn(R, Nat)
  <2>1. OpToRel(<, Nat) = R
    BY DEF OpToRel
  <2> QED BY <2>1, NatLessThanWellFounded
<1>1. PICK x \in S : \A y \in S : ~ (<<y, x>> \in R)
  <2> HIDE DEF R
  <2> QED BY <1>0, WFMin
<1>2. ASSUME NEW y \in S PROVE x =< y
  <2>1. <<y, x>> \in R <=> y < x
    OBVIOUS
  <2> QED BY <1>1, <2>1
<1> QED BY <1>2 DEF Min

LEMMA DrainEndsLife ==
  ASSUME Life, DrainEnds
  PROVE  Life'
<1> USE DEF Life, DrainEnds, epoll, session, queues
<1>1. TypeOK'
  BY DEF TypeOK, Keys
<1>2. Created' /\ Placed' /\ Arriving'
  BY DEF Created, Placed, Arriving, InAdd, InWait, Open, Registered
<1>3. Mapped'
  BY DEF Mapped, Keys
<1> QED BY <1>1, <1>2, <1>3

\* The session the update loop visits next.
Visited == registry[Min(todo)]

LEMMA VisitedFacts ==
  ASSUME Life, mpc = "visit", todo # {}
  PROVE  /\ Min(todo) \in todo /\ Min(todo) \in Fds /\ Visited \in Sessions
         /\ Registered(Visited) /\ status[Visited] \notin {"none", "gone"}
         /\ ~InAdd(Visited) /\ cur = None
<1>1. todo \subseteq Keys /\ todo \subseteq Nat
  BY FdsAssumption DEF Life, Mapped, TypeOK
<1>2. Min(todo) \in todo
  BY <1>1, MinIsMember
<1>3. Min(todo) \in Fds /\ registry[Min(todo)] # None
  BY <1>1, <1>2 DEF Keys
<1>4. Visited \in Sessions /\ Registered(Visited) /\ cur = None
  BY <1>3 DEF Visited, Registered, Life, TypeOK
<1>5. status[Visited] \notin {"none", "gone"}
  BY <1>3 DEF Visited, Life, Mapped
<1> QED BY <1>2, <1>3, <1>4, <1>5 DEF Life, Arriving

LEMMA VisitKeepsLife ==
  ASSUME Life, VisitKeeps
  PROVE  Life'
<1> USE DEF Life
<1>1. /\ mpc = "visit" /\ todo # {} /\ mpc' = mpc /\ todo' \subseteq todo
      /\ keyDue' = [keyDue EXCEPT ![Visited] = FALSE]
      /\ UNCHANGED <<owner, conns, epc, seen, fresh, sock, id, inQueue, told, addq, wait,
                     registry, cur>>
  BY DEF VisitKeeps, Visited, epoll, queues
<1>2. Visited \in Sessions
  BY <1>1, VisitedFacts
<1>3. \/ status' = status
      \/ status[Visited] = "login" /\ status' = [status EXCEPT ![Visited] = "authenticated"]
  BY DEF VisitKeeps, Visited
<1>4. TypeOK'
  <2>1. status' \in [Sessions -> Statuses] /\ keyDue' \in [Sessions -> BOOLEAN]
    BY <1>1, <1>2, <1>3 DEF TypeOK, Statuses
  <2> QED BY <1>1, <2>1 DEF TypeOK
<1>5. \A s \in Sessions :
         /\ status'[s] = "connected" <=> status[s] = "connected"
         /\ status'[s] = "none" <=> status[s] = "none"
         /\ status'[s] = "gone" <=> status[s] = "gone"
  <2> TAKE s \in Sessions
  <2>1. CASE status' = status
    BY <2>1
  <2>2. CASE status[Visited] = "login" /\ status' = [status EXCEPT ![Visited] = "authenticated"]
    <3>1. CASE s = Visited
      BY <1>2, <2>2, <3>1 DEF TypeOK
    <3>2. CASE s # Visited
      BY <1>2, <2>2, <3>2 DEF TypeOK
    <3> QED BY <3>1, <3>2
  <2> QED BY <1>3, <2>1, <2>2
<1>6. Created'
  BY <1>1, <1>5 DEF Created, Open
<1>7. Placed'
  <2>1. \A s : (InAdd(s)' <=> InAdd(s)) /\ (InWait(s)' <=> InWait(s))
    BY <1>1 DEF InAdd, InWait
  <2>2. \A s \in Sessions : status'[s] = "connected" <=> InAdd(s) \/ InWait(s) \/ cur = s
    BY <1>5 DEF Placed
  <2> QED BY <1>1, <2>1, <2>2 DEF Placed
<1>8. Arriving'
  BY <1>1 DEF Arriving, InAdd, Open, Registered
<1>9. Mapped'
  <2>1. ASSUME NEW f \in Fds, registry[f] # None PROVE status'[registry[f]] \notin {"none", "gone"}
    <3>1. registry[f] \in Sessions
      BY <2>1 DEF TypeOK
    <3> QED BY <1>5, <2>1, <3>1 DEF Mapped
  <2> QED BY <1>1, <2>1 DEF Mapped, Keys
<1> QED BY <1>4, <1>6, <1>7, <1>8, <1>9

LEMMA VisitThrowsLife ==
  ASSUME Life, VisitThrows
  PROVE  Life'
<1> USE DEF Life
<1>1. /\ mpc = "visit" /\ todo # {} /\ mpc' = "drain" /\ todo' = {}
      /\ keyDue' = [keyDue EXCEPT ![Visited] = TRUE]
      /\ UNCHANGED <<owner, conns, epc, seen, fresh, sock, id, status, inQueue, told, addq,
                     wait, registry, cur>>
  BY DEF VisitThrows, Visited, epoll, queues
<1>2. Visited \in Sessions
  BY <1>1, VisitedFacts
<1>3. TypeOK'
  BY <1>1, <1>2 DEF TypeOK
<1>4. Created' /\ Placed' /\ Arriving'
  BY <1>1 DEF Created, Placed, Arriving, InAdd, InWait, Open, Registered
<1>5. Mapped'
  BY <1>1 DEF Mapped
<1> QED BY <1>3, <1>4, <1>5

LEMMA VisitEndsLife ==
  ASSUME Life, VisitEnds
  PROVE  Life'
<1> USE DEF Life, VisitEnds, epoll, session, queues
<1>1. TypeOK'
  BY DEF TypeOK
<1>2. Created' /\ Placed' /\ Arriving'
  BY DEF Created, Placed, Arriving, InAdd, InWait, Open, Registered
<1>3. Mapped'
  BY DEF Mapped
<1> QED BY <1>1, <1>2, <1>3

\* RemoveQueuedSession announces a position to those waiting from AnnounceFrom on,
\* as far as they can be reached, and to nobody else.
LEMMA AnnouncedFacts ==
  ASSUME TypeOK, Placed, NEW s \in Sessions
  PROVE  /\ Announced(s) \in [Sessions -> Nat]
         /\ \A i \in 1..Len(WaitAfter(s)) :
               i >= AnnounceFrom(s) /\ Open(WaitAfter(s)[i]) => Announced(s)[WaitAfter(s)[i]] = i
         /\ \A t \in Sessions :
               (\A i \in 1..Len(WaitAfter(s)) : i >= AnnounceFrom(s) => WaitAfter(s)[i] # t)
                  => Announced(s)[t] = told[t]
<1> DEFINE q == WaitAfter(s)
           new == {i \in DOMAIN q : i >= AnnounceFrom(s) /\ Open(q[i])}
<1>1. /\ q \in Seq(Sessions) /\ DOMAIN q = 1..Len(q) /\ Len(q) \in Nat
      /\ \A i, j \in 1..Len(q) : q[i] = q[j] => i = j
  <2>1. q \in Seq(Sessions) /\ \A i, j \in 1..Len(q) : q[i] = q[j] => i = j
    BY AfterFacts
  <2> HIDE DEF q
  <2> QED BY <2>1
<1>2. Announced(s) = [t \in Sessions |->
           IF \E i \in new : q[i] = t THEN CHOOSE i \in new : q[i] = t ELSE told[t]]
  BY DEF Announced
<1>3. new = {i \in 1..Len(q) : i >= AnnounceFrom(s) /\ Open(q[i])}
  BY <1>1
<1>4. told \in [Sessions -> Nat]
  BY DEF TypeOK
<1> HIDE DEF q, new
<1>5. Announced(s) \in [Sessions -> Nat]
  <2>1. ASSUME NEW t \in Sessions, \E i \in new : q[i] = t
        PROVE  (CHOOSE i \in new : q[i] = t) \in Nat
    BY <1>3, <2>1
  <2> QED BY <1>2, <1>4, <2>1
<1>6. ASSUME NEW i \in 1..Len(q), i >= AnnounceFrom(s), Open(q[i])
      PROVE  Announced(s)[q[i]] = i
  <2>1. i \in new /\ q[i] \in Sessions
    BY <1>1, <1>3, <1>6
  <2>2. \A j \in new : q[j] = q[i] => j = i
    BY <1>1, <1>3
  <2> QED BY <1>2, <2>1, <2>2
<1>7. ASSUME NEW t \in Sessions, \A i \in 1..Len(q) : i >= AnnounceFrom(s) => q[i] # t
      PROVE  Announced(s)[t] = told[t]
  BY <1>2, <1>3, <1>7
<1> QED BY <1>5, <1>6, <1>7 DEF q

\* The state VisitRemoves leaves behind, v being the session removed.
LEMMA RemovalFacts ==
  ASSUME Life, VisitRemoves, NEW v, v = Visited
  PROVE  /\ mpc = "visit" /\ v \in Sessions /\ Min(todo) \in Keys
         /\ Open(v) => status[v] # "connected"
         /\ sock' = [sock EXCEPT ![v] = None]
         /\ wait' = WaitAfter(v)
         /\ told' = Announced(v)
         /\ status' \in [Sessions -> Statuses]
         /\ \A t \in Sessions : status'[t] = IF t = v THEN "gone"
                                             ELSE IF t \in Released(v) THEN "login" ELSE status[t]
         /\ registry' = [registry EXCEPT ![Min(todo)] = None]
         /\ \/ todo' \in SUBSET (Keys \ {Min(todo)}) /\ mpc' = "visit"
            \/ mpc' = "crashed" /\ todo' = todo
         /\ \A t \in Sessions : InAdd(t)' <=> InAdd(t)
         /\ \A t \in Sessions : InWait(t)' <=> InWait(t) /\ t # v /\ t \notin Released(v)
         /\ \A t \in Sessions : Registered(t)' <=> Registered(t) /\ t # v
         /\ UNCHANGED <<conns, epc, seen, fresh, id, keyDue, addq, cur>>
<1>1. /\ mpc = "visit" /\ todo # {}
      /\ Open(v) => status[v] # "connected"
      /\ sock' = [sock EXCEPT ![v] = None]
      /\ wait' = WaitAfter(v) /\ told' = Announced(v)
      /\ status' = [LoginStarted(Released(v)) EXCEPT ![v] = "gone"]
      /\ registry' = [registry EXCEPT ![Min(todo)] = None]
      /\ \/ todo' \in SUBSET (Keys \ {Min(todo)}) /\ mpc' = mpc
         \/ mpc' = "crashed" /\ todo' = todo
      /\ UNCHANGED <<conns, epc, seen, fresh, id, keyDue, addq, cur>>
  BY DEF VisitRemoves, Visited, RemoveQueuedSession, epoll
<1>2. v \in Sessions /\ Min(todo) \in todo /\ Min(todo) \in Fds /\ Min(todo) \in Keys
  BY <1>1, VisitedFacts DEF Life, Mapped
<1>3. /\ \A t \in Sessions : (\E i \in 1..Len(WaitAfter(v)) : WaitAfter(v)[i] = t)
                                 <=> InWait(t) /\ t # v /\ t \notin Released(v)
      /\ \A t \in Released(v) : t \in Sessions /\ InWait(t)
  BY <1>2, AfterFacts DEF Life
<1>4. \A t \in Released(v) : status[t] = "connected"
  BY <1>3 DEF Life, Placed
<1>5. status \in [Sessions -> Statuses]
  BY DEF Life, TypeOK
<1>6. /\ status' \in [Sessions -> Statuses]
      /\ \A t \in Sessions : status'[t] = IF t = v THEN "gone"
                                          ELSE IF t \in Released(v) THEN "login" ELSE status[t]
  BY <1>1, <1>2, <1>4, <1>5 DEF LoginStarted, Statuses
<1>7. \A t \in Sessions : InAdd(t)' <=> InAdd(t)
  BY <1>1 DEF InAdd
<1>8. \A t \in Sessions : InWait(t)' <=> InWait(t) /\ t # v /\ t \notin Released(v)
  BY <1>1, <1>3 DEF InWait
<1>9. \A t \in Sessions : Registered(t)' <=> Registered(t) /\ t # v
  <2>1. /\ registry \in [Fds -> Sessions \cup {None}]
        /\ \A f, g \in Fds : registry[f] = registry[g] /\ registry[f] # None => f = g
        /\ v = registry[Min(todo)]
    BY DEF Life, Mapped, TypeOK, Visited
  <2> QED BY <1>1, <1>2, <2>1, NoneIsNoSession DEF Registered
<1> QED BY <1>1, <1>2, <1>6, <1>7, <1>8, <1>9

LEMMA VisitRemovesLife ==
  ASSUME Life, VisitRemoves
  PROVE  Life'
<1> PICK v : v = Visited
  OBVIOUS
<1>1. /\ mpc = "visit" /\ v \in Sessions /\ Min(todo) \in Keys
      /\ sock' = [sock EXCEPT ![v] = None]
      /\ wait' = WaitAfter(v)
      /\ told' = Announced(v)
      /\ status' \in [Sessions -> Statuses]
      /\ \A t \in Sessions : status'[t] = IF t = v THEN "gone"
                                          ELSE IF t \in Released(v) THEN "login" ELSE status[t]
      /\ registry' = [registry EXCEPT ![Min(todo)] = None]
      /\ \/ todo' \in SUBSET (Keys \ {Min(todo)}) /\ mpc' = "visit"
         \/ mpc' = "crashed" /\ todo' = todo
      /\ \A t \in Sessions : InAdd(t)' <=> InAdd(t)
      /\ \A t \in Sessions : InWait(t)' <=> InWait(t) /\ t # v /\ t \notin Released(v)
      /\ \A t \in Sessions : Registered(t)' <=> Registered(t) /\ t # v
      /\ UNCHANGED <<conns, epc, seen, fresh, id, keyDue, addq, cur>>
  BY RemovalFacts
<1>2. /\ WaitAfter(v) \in Seq(Sessions)
      /\ \A i, j \in 1..Len(WaitAfter(v)) : WaitAfter(v)[i] = WaitAfter(v)[j] => i = j
      /\ \A t \in Released(v) : t \in Sessions /\ InWait(t)
      /\ Announced(v) \in [Sessions -> Nat]
      /\ \A t \in Sessions : ~InWait(t) => Announced(v)[t] = told[t]
  <2>1. TypeOK /\ Placed
    BY DEF Life
  <2>2. /\ WaitAfter(v) \in Seq(Sessions)
        /\ \A i, j \in 1..Len(WaitAfter(v)) : WaitAfter(v)[i] = WaitAfter(v)[j] => i = j
        /\ \A t \in Sessions : ~InWait(t) => \A i \in 1..Len(WaitAfter(v)) : WaitAfter(v)[i] # t
        /\ \A t \in Released(v) : t \in Sessions /\ InWait(t)
    BY <1>1, <2>1, AfterFacts
  <2>3. /\ Announced(v) \in [Sessions -> Nat]
        /\ \A t \in Sessions : (\A i \in 1..Len(WaitAfter(v)) : WaitAfter(v)[i] # t)
                                  => Announced(v)[t] = told[t]
    BY <1>1, <2>1, AnnouncedFacts
  <2> QED BY <2>2, <2>3
<1>3. /\ todo # {} /\ Visited \in Sessions /\ ~InAdd(v) /\ cur = None /\ status[v] # "none"
  <2>1. todo # {}
    BY DEF VisitRemoves
  <2> QED BY <1>1, <2>1, VisitedFacts
<1>4. TypeOK'
  <2>1. owner' \in [Fds -> Sessions \cup {None}] /\ inQueue' \in [Sessions -> BOOLEAN]
    BY DEF Life, TypeOK, VisitRemoves, RemoveQueuedSession
  <2>2. registry' \in [Fds -> Sessions \cup {None}] /\ sock' \in [Sessions -> Fds \cup {None}]
    BY <1>1 DEF Life, TypeOK
  <2>3. todo' \subseteq Fds /\ mpc' \in {"drain", "insert", "visit", "crashed"} /\ mpc' # "insert"
    BY <1>1 DEF Life, TypeOK, Keys
  <2> QED BY <1>1, <1>2, <1>3, <2>1, <2>2, <2>3 DEF Life, TypeOK
<1>5. Created'
  <2>1. epc' # "idle" => conns' \in Sessions /\ status'[conns'] = "none" /\ fresh' \in Fds
    BY <1>1, <1>2, <1>3 DEF Life, Created, Placed
  <2>2. ASSUME NEW t \in Sessions PROVE status'[t] # "none" => t <= conns'
    <3>1. status'[t] # "none" => status[t] # "none"
      BY <1>1, <1>2, <1>3 DEF Life, Placed
    <3> QED BY <1>1, <3>1 DEF Life, Created
  <2>3. ASSUME NEW t \in Sessions, status'[t] = "none" PROVE ~Open(t)' /\ told'[t] = 0
    <3>1. status[t] = "none" /\ t # v
      BY <1>1, <2>3
    <3>2. ~InWait(t) /\ told[t] = 0 /\ ~Open(t)
      BY <3>1 DEF Life, Created, Placed
    <3> QED BY <1>1, <1>2, <3>1, <3>2 DEF Open, Life, TypeOK
  <2> QED BY <2>1, <2>2, <2>3 DEF Created
<1>6. Placed'
  <2>1. \A t \in Sessions : status'[t] = "connected" <=> InAdd(t)' \/ InWait(t)' \/ cur' = t
    <3> TAKE t \in Sessions
    <3>1. CASE t = v
      BY <1>1, <1>3, <3>1, NoneIsNoSession
    <3>2. CASE t # v /\ t \in Released(v)
      BY <1>1, <1>2, <1>3, <3>2, NoneIsNoSession DEF Life, Placed
    <3>3. CASE t # v /\ t \notin Released(v)
      BY <1>1, <3>3 DEF Life, Placed
    <3> QED BY <3>1, <3>2, <3>3
  <2> QED BY <1>1, <1>2, <2>1 DEF Life, Placed
<1>7. Arriving'
  <2> SUFFICES ASSUME NEW t \in Sessions, InAdd(t)' \/ cur' = t
               PROVE  Open(t)' /\ told'[t] = 0 /\ ~Registered(t)'
    BY DEF Arriving
  <2>1. InAdd(t) /\ t # v
    BY <1>1, <1>3, NoneIsNoSession
  <2>2. Open(t) /\ told[t] = 0 /\ ~Registered(t) /\ ~InWait(t)
    BY <2>1 DEF Life, Arriving, Placed
  <2> QED BY <1>1, <1>2, <2>1, <2>2 DEF Open, Life, TypeOK
<1>8. Mapped'
  <2>1. ASSUME NEW f \in Fds, registry'[f] # None PROVE status'[registry'[f]] \notin {"none", "gone"}
    <3>1. registry'[f] = registry[f] /\ registry[f] \in Sessions /\ Registered(registry[f])'
      BY <1>1, <2>1 DEF Life, TypeOK, Keys, Registered
    <3>2. registry[f] # v /\ status[registry[f]] \notin {"none", "gone"}
      BY <1>1, <2>1, <3>1 DEF Life, Mapped
    <3> QED BY <1>1, <3>1, <3>2
  <2>2. \A f, g \in Fds : registry'[f] = registry'[g] /\ registry'[f] # None => f = g
    BY <1>1 DEF Life, Mapped, TypeOK, Keys
  <2>3. mpc' = "visit" => todo' \subseteq Keys'
    BY <1>1 DEF Keys, Life, TypeOK
  <2> QED BY <2>1, <2>2, <2>3 DEF Mapped
<1> QED BY <1>4, <1>5, <1>6, <1>7, <1>8 DEF Life

LEMMA LifeStep == Life /\ [Next]_vars => Life'
<1> SUFFICES ASSUME Life, [Next]_vars PROVE Life'
  OBVIOUS
<1>1. CASE UNCHANGED vars
  <2>1. TypeOK'
    BY <1>1 DEF Life, TypeOK, vars, epoll, session, queues, main
  <2>2. Created' /\ Placed' /\ Arriving' /\ Mapped'
    BY <1>1 DEF Life, Created, Placed, Arriving, Mapped, InAdd, InWait, Open, Registered, Keys,
                vars, epoll, session, queues, main
  <2> QED BY <2>1, <2>2 DEF Life
<1>2. CASE Epoll
  BY <1>2, AcceptReadsLife, AcceptThrowsLife, HangUpLife, AcceptDecidesLife DEF Epoll
<1>3. ASSUME NEW s \in Sessions, NetworkClose(s) PROVE Life'
  BY <1>3, NetworkCloseLife
<1>4. CASE Main
  BY <1>4, DrainTakesLife, AddToWaitQueueLife, AddActiveLife, DrainEndsLife, VisitKeepsLife,
     VisitThrowsLife, VisitRemovesLife, VisitEndsLife DEF Main
<1> QED BY <1>1, <1>2, <1>3, <1>4 DEF Next

\* The variables of SessionManager keep their types.
THEOREM Typing == Spec => []TypeOK
<1>1. Life => TypeOK
  BY DEF Life
<1> QED BY <1>1, LifeInit, LifeStep, PTL DEF Spec

-----------------------------------------------------------------------------
(* Nobody is forgotten, and waiting clients know their positions.           *)

Places(q, s) == {i \in DOMAIN q : q[i] = s}

LEMMA Occurrences ==
  ASSUME NEW S, NEW q \in Seq(S), NEW s, \A i, j \in 1..Len(q) : q[i] = q[j] => i = j
  PROVE  Cardinality(Places(q, s))
            = IF \E i \in 1..Len(q) : q[i] = s THEN 1 ELSE 0
<1>1. CASE \E i \in 1..Len(q) : q[i] = s
  <2>1. PICK i \in 1..Len(q) : q[i] = s
    BY <1>1
  <2>2. Places(q, s) = {i}
    BY <2>1 DEF Places
  <2> QED BY <1>1, <2>2, FS_Singleton
<1>2. CASE ~ \E i \in 1..Len(q) : q[i] = s
  <2>1. Places(q, s) = {}
    BY <1>2 DEF Places
  <2> QED BY <1>2, <2>1, FS_EmptySet
<1> QED BY <1>1, <1>2

\* A session that has been accepted and has not started its login is in exactly one
\* of the queues or in the main thread's hands: AddSession, AddSessions_ and
\* RemoveQueuedSession lose nobody and queue nobody twice.
THEOREM NobodyForgotten == Spec => []NotForgotten
<1>1. Life => NotForgotten
  <2> SUFFICES ASSUME Life, NEW s \in Sessions, status[s] = "connected"
               PROVE  Cardinality(Places(addq, s)) + Cardinality(Places(wait, s))
                        + (IF cur = s THEN 1 ELSE 0) = 1
    BY DEF NotForgotten, Places
  <2>0. /\ addq \in Seq(Sessions) /\ \A i, j \in 1..Len(addq) : addq[i] = addq[j] => i = j
        /\ wait \in Seq(Sessions) /\ \A i, j \in 1..Len(wait) : wait[i] = wait[j] => i = j
    BY DEF Life, TypeOK, Placed
  <2>1. Cardinality(Places(addq, s)) = IF InAdd(s) THEN 1 ELSE 0
    BY <2>0, Occurrences DEF InAdd
  <2>2. Cardinality(Places(wait, s)) = IF InWait(s) THEN 1 ELSE 0
    BY <2>0, Occurrences DEF InWait
  <2>3. InAdd(s) \/ InWait(s) \/ cur = s
    BY DEF Life, Placed
  <2>4. (InAdd(s) => ~InWait(s) /\ cur # s) /\ (InWait(s) => cur # s)
    BY DEF Life, Placed
  <2> QED BY <2>1, <2>2, <2>3, <2>4
<1> QED BY <1>1, LifeInit, LifeStep, PTL DEF Spec

Told == \A i \in 1..Len(wait) : Open(wait[i]) => told[wait[i]] = i

\* Those ahead of AnnounceFrom keep their places.
LEMMA PlacesKept ==
  ASSUME TypeOK, Placed, NEW s \in Sessions
  PROVE  \A i \in 1..Len(WaitAfter(s)) :
            ~(i >= AnnounceFrom(s)) => i \in 1..Len(wait) /\ WaitAfter(s)[i] = wait[i]
<1>1. Len(wait) \in Nat /\ wait \in Seq(Sessions)
  BY DEF TypeOK
<1>2. CASE LetsIn(s)
  <2>1. AnnounceFrom(s) = 1
    BY <1>2 DEF AnnounceFrom
  <2>2. Len(WaitAfter(s)) \in Nat
    BY AfterFacts
  <2> QED BY <2>1, <2>2
<1>3. CASE ~LetsIn(s) /\ Found(s)
  <2>1. AnnounceFrom(s) = WaitIndex(s) /\ WaitAfter(s) = Without(s)
    BY <1>3 DEF AnnounceFrom, WaitAfter
  <2>2. /\ WaitIndex(s) \in 1..Len(wait) /\ Len(Without(s)) = Len(wait) - 1
        /\ \A i \in 1..Len(Without(s)) :
               Without(s)[i] = IF i >= WaitIndex(s) THEN wait[i+1] ELSE wait[i]
    BY <1>3, FoundWaits, WithoutFacts
  <2> HIDE DEF TypeOK, Placed
  <2> QED BY <1>1, <2>1, <2>2
<1>4. CASE ~LetsIn(s) /\ ~Found(s)
  <2>1. WaitAfter(s) = wait
    BY <1>4 DEF WaitAfter, Without
  <2> QED BY <2>1
<1> QED BY <1>2, <1>3, <1>4

LEMMA ToldStep == Life /\ Told /\ [Next]_vars => Told'
<1> SUFFICES ASSUME Life, Told, [Next]_vars PROVE Told'
  OBVIOUS
<1>1. ASSUME UNCHANGED wait, UNCHANGED told,
             \A s \in Sessions : InWait(s) => (Open(s)' => Open(s))
      PROVE  Told'
  <2>1. \A i \in 1..Len(wait) : wait[i] \in Sessions /\ InWait(wait[i])
    BY DEF Life, TypeOK, InWait
  <2> QED BY <1>1, <2>1 DEF Told, Open
<1>2. CASE UNCHANGED vars
  BY <1>1, <1>2 DEF vars, queues, session, Open
<1>3. ASSUME NEW f \in Fds, AcceptReads(f) \/ AcceptThrows(f) \/ HangUp(f) PROVE Told'
  BY <1>1, <1>3 DEF AcceptReads, AcceptThrows, HangUp, queues, session, Open
<1>4. CASE AcceptDecides
  <2>1. conns \in Sessions /\ ~InWait(conns)
    BY <1>4 DEF AcceptDecides, Life, Created, Placed
  <2> QED BY <1>1, <1>4, <2>1 DEF AcceptDecides, Open, Life, TypeOK
<1>5. ASSUME NEW s \in Sessions, NetworkClose(s) PROVE Told'
  BY <1>1, <1>5 DEF NetworkClose, queues, Open, Life, TypeOK
<1>6. CASE DrainTakes \/ DrainEnds \/ VisitEnds
  BY <1>1, <1>6 DEF DrainTakes, DrainEnds, VisitEnds, queues, session, Open
<1>7. CASE AddActive \/ VisitKeeps \/ VisitThrows
  BY <1>1, <1>7 DEF AddActive, VisitKeeps, VisitThrows, queues, Open
<1>8. CASE AddToWaitQueue
  <2>1. /\ cur \in Sessions /\ wait' = Append(wait, cur) /\ sock' = sock
        /\ told' = [told EXCEPT ![cur] = Len(wait')] /\ ~InWait(cur)
    BY <1>8 DEF AddToWaitQueue, Life, TypeOK, Placed
  <2>2. wait \in Seq(Sessions) /\ Len(wait) \in Nat /\ told \in [Sessions -> Nat]
    BY DEF Life, TypeOK
  <2>3. /\ Len(wait') = Len(wait) + 1 /\ wait'[Len(wait) + 1] = cur
        /\ \A i \in 1..Len(wait) : wait'[i] = wait[i] /\ wait[i] \in Sessions /\ wait[i] # cur
    BY <2>1, <2>2, AppendProperties DEF InWait
  <2> QED BY <2>1, <2>2, <2>3 DEF Told, Open
<1>9. CASE VisitRemoves
  <2> PICK v : v = Visited
    OBVIOUS
  <2>1. /\ v \in Sessions /\ wait' = WaitAfter(v) /\ told' = Announced(v)
        /\ sock' = [sock EXCEPT ![v] = None]
    BY <1>9, RemovalFacts
  <2>2. TypeOK /\ Placed
    BY DEF Life
  <2> SUFFICES ASSUME NEW i \in 1..Len(wait'), sock'[wait'[i]] # None
               PROVE  told'[wait'[i]] = i
    BY DEF Told, Open
  <2>3. wait' \in Seq(Sessions) /\ \A j, k \in 1..Len(wait') : wait'[j] = wait'[k] => j = k
    <3>1. /\ WaitAfter(v) \in Seq(Sessions)
          /\ \A j, k \in 1..Len(WaitAfter(v)) : WaitAfter(v)[j] = WaitAfter(v)[k] => j = k
      BY <2>1, <2>2, AfterFacts
    <3> QED BY <2>1, <3>1
  <2>4. wait'[i] \in Sessions /\ Open(wait'[i])
    BY <2>1, <2>3 DEF Open, Life, TypeOK
  <2>5. CASE i >= AnnounceFrom(v)
    BY <2>1, <2>2, <2>4, <2>5, AnnouncedFacts
  <2>6. CASE ~(i >= AnnounceFrom(v))
    <3>1. i \in 1..Len(wait) /\ wait'[i] = wait[i]
      BY <2>1, <2>2, <2>6, PlacesKept
    <3>2. told[wait[i]] = i
      BY <2>4, <3>1 DEF Told
    <3>3. \A j \in 1..Len(wait') : j >= AnnounceFrom(v) => wait'[j] # wait'[i]
      BY <2>3, <2>6
    <3>4. told'[wait'[i]] = told[wait'[i]]
      BY <2>1, <2>2, <2>4, <3>3, AnnouncedFacts
    <3> QED BY <3>1, <3>2, <3>4
  <2> QED BY <2>5, <2>6
<1> QED BY <1>2, <1>3, <1>4, <1>5, <1>6, <1>7, <1>8, <1>9 DEF Next, Epoll, Main

\* A waiting client that can be reached was last told its position in the queue,
\* whoever left it and wherever: RemoveQueuedSession announces enough.
THEOREM PositionsTold == Spec => []ToldPositions
<1>1. Init => Told
  BY DEF Init, Told
<1>2. Life /\ Told => ToldPositions
  <2>1. wait \in Seq(Sessions) => DOMAIN wait = 1..Len(wait)
    OBVIOUS
  <2> QED BY <2>1 DEF Life, TypeOK, Told, ToldPositions
<1> QED BY <1>1, <1>2, LifeInit, LifeStep, ToldStep, PTL DEF Spec

-----------------------------------------------------------------------------
(* The waiting queue is bounded by the session map and by its limit.        *)

\* 1 while the main thread holds a session taken from addSessQueue.
InHand == IF cur = None THEN 0 ELSE 1

\* What is known of the sessions that have not been let in while the epoll thread is
\* between the two lengths that it adds.
Backlog ==
    QueueLimit > 0 =>
      /\ Len(addq) <= QueueLimit
      /\ Len(wait) + Len(addq) + InHand <= 2 * QueueLimit + 1
      /\ epc = "readWait" => Len(wait) + Len(addq) + InHand <= seen + QueueLimit + 1
      /\ epc = "readAdd" => Len(addq) <= seen /\ Len(addq) + InHand <= seen + 1

\* Without a limit of active sessions nobody waits.
NobodyWaits == ActiveLimit = 0 => Len(wait) = 0

Bounded == NobodyWaits /\ Len(wait) <= Cardinality(Keys) /\ Backlog

\* m_sessions has no more entries than there are sessions.
LEMMA KeysFacts ==
  ASSUME Life
  PROVE  IsFiniteSet(Keys) /\ Cardinality(Keys) \in Nat /\ Cardinality(Keys) <= MaxConns
<1>1. Keys \subseteq Fds
  BY DEF Keys
<1>2. IsFiniteSet(Keys) /\ Cardinality(Keys) \in Nat
  BY <1>1, FdsAssumption, FS_Subset, FS_CardinalityType
<1> DEFINE g == [f \in Keys |-> registry[f]]
<1>3. g \in Injection(Keys, Sessions)
  <2>1. g \in [Keys -> Sessions]
    BY DEF Keys, Life, TypeOK
  <2>2. \A a, b \in Keys : g[a] = g[b] => a = b
    BY <1>1 DEF Keys, Life, Mapped
  <2> QED BY <2>1, <2>2 DEF Injection, IsInjective
<1>4. IsFiniteSet(Sessions) /\ Cardinality(Sessions) = MaxConns
  <2>1. 1 \in Int /\ MaxConns \in Int /\ MaxConns >= 0
    BY LimitsAssumption
  <2>2. Cardinality(1..MaxConns) = (IF 1 > MaxConns THEN 0 ELSE MaxConns - 1 + 1) /\ IsFiniteSet(1..MaxConns)
    BY <2>1, FS_Interval
  <2> QED BY <2>1, <2>2 DEF Sessions
<1> HIDE DEF g
<1>5. Cardinality(Keys) <= Cardinality(Sessions)
  BY <1>3, <1>4, FS_Injection
<1> QED BY <1>2, <1>4, <1>5

\* GetActiveSessionCount is the difference it is meant to be.
LEMMA ActiveCountIs ==
  ASSUME Life, Len(wait) <= Cardinality(Keys)
  PROVE  ActiveCount = Cardinality(Keys) - Len(wait)
<1>1. Cardinality(Keys) \in Nat /\ Cardinality(Keys) <= MaxConns /\ Len(wait) \in Nat
  BY KeysFacts DEF Life, TypeOK
<1>2. Cardinality(Keys) - Len(wait) \in Nat /\ Cardinality(Keys) - Len(wait) < UIntSize
  BY <1>1, LimitsAssumption
<1> QED BY <1>2, LimitsAssumption, SmallModulus DEF ActiveCount

\* A step that moves nobody keeps the bounds.
LEMMA BoundedSame ==
  ASSUME Bounded, UNCHANGED <<addq, wait, cur, registry, epc, seen>>
  PROVE  Bounded'
BY DEF Bounded, Backlog, InHand, NobodyWaits, Keys

LEMMA BoundedStep == Life /\ Bounded /\ [Next]_vars => Bounded'
<1> SUFFICES ASSUME Life, Bounded, [Next]_vars PROVE Bounded'
  OBVIOUS
<1>0. /\ Len(wait) \in Nat /\ Len(addq) \in Nat /\ seen \in Nat /\ QueueLimit \in Nat /\ ActiveLimit \in Nat
      /\ IsFiniteSet(Keys) /\ Cardinality(Keys) \in Nat
      /\ ActiveCount = Cardinality(Keys) - Len(wait)
  BY KeysFacts, ActiveCountIs, LimitsAssumption DEF Life, TypeOK, Bounded
<1>1. CASE UNCHANGED vars
  BY <1>1, BoundedSame DEF vars, epoll, queues, main
<1>2. ASSUME NEW f \in Fds, AcceptReads(f) PROVE Bounded'
  <2>1. /\ UNCHANGED <<addq, wait, cur, registry>> /\ Keys' = Keys
        /\ \/ epc' = "readWait" /\ seen' = Len(wait)
           \/ epc' = "readAdd" /\ seen' = Len(addq)
    BY <1>2 DEF AcceptReads, queues, main, Keys
  <2> QED BY <1>0, <2>1 DEF Bounded, Backlog, InHand, NobodyWaits
<1>3. ASSUME NEW f \in Fds, AcceptThrows(f) \/ HangUp(f) PROVE Bounded'
  BY <1>3, BoundedSame DEF AcceptThrows, HangUp, epoll, queues, main
<1>4. CASE AcceptDecides
  <2>1. /\ UNCHANGED <<wait, cur, registry>> /\ Keys' = Keys /\ epc' = "idle" /\ epc # "idle"
        /\ addq \in Seq(Sessions) /\ conns \in Sessions
    BY <1>4 DEF AcceptDecides, main, Keys, Life, TypeOK, Created
  <2>2. CASE Admitted
    <3>1. Len(addq') = Len(addq) + 1
      <4>1. addq' = Append(addq, conns)
        BY <1>4, <2>2 DEF AcceptDecides
      <4> QED BY <2>1, <4>1, AppendProperties
    <3>2. QueueLimit = 0 \/ seen + (IF epc = "readWait" THEN Len(addq) ELSE Len(wait)) < QueueLimit
      BY <2>2 DEF Admitted, Count
    <3>3. epc = "readWait" \/ epc = "readAdd"
      BY <2>1 DEF Life, TypeOK
    <3> QED BY <1>0, <2>1, <3>1, <3>2, <3>3, SMTT(60) DEF Bounded, Backlog, InHand, NobodyWaits
  <2>3. CASE ~Admitted
    <3>1. addq' = addq
      BY <1>4, <2>3 DEF AcceptDecides
    <3> QED BY <2>1, <3>1 DEF Bounded, Backlog, InHand, NobodyWaits
  <2> QED BY <2>2, <2>3
<1>5. ASSUME NEW s \in Sessions, NetworkClose(s) PROVE Bounded'
  BY <1>5, BoundedSame DEF NetworkClose, epoll, queues, main
<1>6. CASE DrainTakes
  <2>1. /\ UNCHANGED <<wait, registry, epc, seen>> /\ Keys' = Keys /\ cur = None /\ cur' # None
        /\ Len(addq') = Len(addq) - 1
    <3>1. addq \in Seq(Sessions) /\ addq # << >> /\ addq' = Tail(addq) /\ cur' = Head(addq)
      BY <1>6 DEF DrainTakes, Life, TypeOK
    <3>2. Head(addq) \in Sessions /\ Len(Tail(addq)) = Len(addq) - 1
      BY <3>1, HeadTailProperties
    <3> QED BY <1>6, <3>1, <3>2, NoneIsNoSession DEF DrainTakes, epoll, Keys, Life, TypeOK
  <2> QED BY <1>0, <2>1 DEF Bounded, Backlog, InHand, NobodyWaits
<1>7. CASE AddToWaitQueue
  <2>1. /\ UNCHANGED <<addq, epc, seen>> /\ cur # None /\ cur' = None
        /\ ActiveLimit > 0 /\ ActiveCount >= ActiveLimit
        /\ cur \in Sessions /\ wait' = Append(wait, cur) /\ wait \in Seq(Sessions)
        /\ Insert(sock[cur], cur)
    BY <1>7 DEF AddToWaitQueue, epoll, Life, TypeOK
  <2>2. Len(wait') = Len(wait) + 1
    BY <2>1, AppendProperties
  <2>3. Keys \subseteq Keys' /\ Keys' \subseteq Fds
    BY <2>1, NoneIsNoSession DEF Insert, Keys, Life, TypeOK
  <2>4. Cardinality(Keys) <= Cardinality(Keys') /\ Cardinality(Keys') \in Nat
    BY <2>3, FdsAssumption, FS_Subset, FS_CardinalityType
  <2> QED BY <1>0, <2>1, <2>2, <2>4 DEF Bounded, Backlog, InHand, NobodyWaits
<1>8. CASE AddActive
  <2>1. /\ UNCHANGED <<addq, wait, epc, seen>> /\ cur # None /\ cur' = None
        /\ cur \in Sessions /\ Insert(sock[cur], cur)
    BY <1>8 DEF AddActive, epoll, queues, Life, TypeOK
  <2>2. Keys \subseteq Keys' /\ Keys' \subseteq Fds
    BY <2>1, NoneIsNoSession DEF Insert, Keys, Life, TypeOK
  <2>3. Cardinality(Keys) <= Cardinality(Keys') /\ Cardinality(Keys') \in Nat
    BY <2>2, FdsAssumption, FS_Subset, FS_CardinalityType
  <2> QED BY <1>0, <2>1, <2>3 DEF Bounded, Backlog, InHand, NobodyWaits
<1>9. CASE DrainEnds \/ VisitEnds
  BY <1>9, BoundedSame DEF DrainEnds, VisitEnds, epoll, queues
<1>10. CASE VisitKeeps \/ VisitThrows
  BY <1>10, BoundedSame DEF VisitKeeps, VisitThrows, epoll, queues
<1>11. CASE VisitRemoves
  <2> PICK v : v = Visited
    OBVIOUS
  <2>1. /\ v \in Sessions /\ wait' = WaitAfter(v) /\ Min(todo) \in Keys
        /\ registry' = [registry EXCEPT ![Min(todo)] = None]
        /\ UNCHANGED <<epc, seen, addq, cur>>
    BY <1>11, RemovalFacts
  <2>2. Keys' = Keys \ {Min(todo)}
    BY <2>1 DEF Keys, Life, TypeOK
  <2>3. Cardinality(Keys') = Cardinality(Keys) - 1
    BY <1>0, <2>1, <2>2, FS_RemoveElement
  <2>4. /\ Len(wait') = Len(wait) - (IF Found(v) THEN 1 ELSE 0) - (IF LetsIn(v) THEN 1 ELSE 0)
        /\ Len(wait') \in Nat
    <3>1. TypeOK /\ Placed
      BY DEF Life
    <3>2. /\ WaitAfter(v) \in Seq(Sessions)
          /\ Len(WaitAfter(v)) = Len(wait) - (IF Found(v) THEN 1 ELSE 0) - (IF LetsIn(v) THEN 1 ELSE 0)
      BY <2>1, <3>1, AfterFacts
    <3>3. Len(WaitAfter(v)) \in Nat
      BY <3>2, LenProperties
    <3> QED BY <2>1, <3>2, <3>3
  <2>5. LetsIn(v) <=> /\ ActiveLimit = 0 \/ SessionsLeft(v) < ActiveLimit
                      /\ Len(Without(v)) > 0
    <3>1. Without(v) \in Seq(Sessions)
      BY <2>1, WithoutFacts DEF Life
    <3>2. Without(v) # << >> <=> Len(Without(v)) > 0
      BY <3>1
    <3> QED BY <3>2 DEF LetsIn
  <2>6. Len(Without(v)) = IF Found(v) THEN Len(wait) - 1 ELSE Len(wait)
    BY <2>1, WithoutFacts DEF Life
  <2>7. SessionsLeft(v) = IF Found(v) \/ ActiveCount = 0 THEN ActiveCount ELSE ActiveCount - 1
    BY DEF SessionsLeft
  <2>8. Len(wait') <= Cardinality(Keys')
    <3>1. Len(wait) <= Cardinality(Keys) /\ (ActiveLimit = 0 => Len(wait) = 0)
      BY DEF Bounded, NobodyWaits
    <3>2. CASE Found(v)
      <4>1. Len(wait') = Len(wait) - 1 - (IF LetsIn(v) THEN 1 ELSE 0)
        BY <2>4, <3>2
      <4>2. CASE LetsIn(v)
        BY <1>0, <2>3, <3>1, <4>1, <4>2
      <4>3. CASE ~LetsIn(v)
        BY <1>0, <2>3, <3>1, <4>1, <4>3
      <4> QED BY <4>2, <4>3
    <3>3. CASE ~Found(v) /\ LetsIn(v)
      <4>1. Len(wait') = Len(wait) - 1
        BY <1>0, <2>4, <3>3
      <4> QED BY <1>0, <2>3, <3>1, <4>1
    <3>4. CASE ~Found(v) /\ ~LetsIn(v)
      <4>1. Len(wait') = Len(wait)
        BY <1>0, <2>4, <3>4
      <4>2. CASE Len(wait) = 0
        <5>1. Cardinality(Keys') \in Nat
          BY <1>0, <2>1, <2>2, FS_RemoveElement, FS_CardinalityType
        <5> QED BY <4>1, <4>2, <5>1
      <4>3. CASE Len(wait) > 0
        <5>1. ActiveLimit # 0 /\ ~(SessionsLeft(v) < ActiveLimit)
          BY <2>5, <2>6, <3>1, <3>4, <4>3
        <5>2. ActiveCount # 0
          BY <1>0, <2>7, <5>1
        <5> QED BY <1>0, <2>3, <3>1, <4>1, <5>2
      <4> QED BY <1>0, <4>2, <4>3
    <3> QED BY <3>2, <3>3, <3>4
  <2>9. Len(wait') <= Len(wait)
    <3>1. CASE Found(v)
      <4>1. Len(wait') = Len(wait) - 1 - (IF LetsIn(v) THEN 1 ELSE 0)
        BY <2>4, <3>1
      <4> QED BY <1>0, <4>1
    <3>2. CASE ~Found(v)
      <4>1. Len(wait') = Len(wait) - 0 - (IF LetsIn(v) THEN 1 ELSE 0)
        BY <2>4, <3>2
      <4> QED BY <1>0, <4>1
    <3> QED BY <3>1, <3>2
  <2>10. NobodyWaits'
    <3> SUFFICES ASSUME ActiveLimit = 0 PROVE Len(wait') = 0
      BY DEF NobodyWaits
    <3>1. Len(wait) = 0
      BY DEF Bounded, NobodyWaits
    <3>2. Len(wait') \in Nat
      BY <2>4
    <3> QED BY <2>9, <3>1, <3>2
  <2>11. Backlog'
    <3>1. InHand' = InHand /\ InHand \in Nat /\ addq' = addq /\ epc' = epc /\ seen' = seen
      BY <2>1 DEF InHand
    <3>2. Backlog
      BY DEF Bounded
    <3> QED BY <1>0, <2>4, <2>9, <3>1, <3>2 DEF Backlog
  <2> QED BY <2>8, <2>10, <2>11 DEF Bounded
<1> QED BY <1>1, <1>2, <1>3, <1>4, <1>5, <1>6, <1>7, <1>8, <1>9, <1>10, <1>11 DEF Next, Epoll, Main

LEMMA BoundedInit == Init => Bounded
<1> SUFFICES ASSUME Init PROVE Bounded
  OBVIOUS
<1>1. wait = << >> /\ addq = << >> /\ cur = None /\ epc = "idle" /\ Keys = {}
  BY DEF Init, Keys
<1>2. Len(wait) = 0 /\ Len(addq) = 0 /\ Cardinality(Keys) = 0
  BY <1>1, FS_EmptySet
<1> QED BY <1>1, <1>2, LimitsAssumption DEF Bounded, Backlog, InHand, NobodyWaits

\* The waiting queue outgrows neither the session map, so that the unsigned count of
\* active sessions never wraps, nor twice SessionQueueLimit and one: the price of
\* AddSession's adding two lengths that the main thread changes in between.
THEOREM WaitIsBounded == Spec => []WaitBounded
<1>1. Life /\ Bounded => WaitBounded
  <2> SUFFICES ASSUME Life, Bounded PROVE WaitBounded
    OBVIOUS
  <2>1. Len(wait) \in Nat /\ Len(addq) \in Nat
    BY DEF Life, TypeOK
  <2> QED BY <2>1, LimitsAssumption DEF Bounded, Backlog, InHand, WaitBounded
<1> QED BY <1>1, LifeInit, LifeStep, BoundedInit, BoundedStep, PTL DEF Spec

-----------------------------------------------------------------------------
(* A kernel that does not hand out the descriptor of a registered session.   *)

\* An open descriptor is that of one session, and nothing is registered under the
\* descriptor of a session on its way to m_sessions or of the connection being accepted.
Own ==
    /\ \A s, t \in Sessions : Open(s) /\ sock[s] = sock[t] => s = t
    /\ \A s \in Sessions : InAdd(s) \/ cur = s => registry[sock[s]] = None
    /\ epc # "idle" => registry[fresh] = None /\ \A s \in Sessions : sock[s] # fresh

Past(s) == status[s] \in {"login", "authenticated"}

\* m_sessions has who is in or waits, under its id.
Entered == \A s \in Sessions : Past(s) \/ InWait(s) => id[s] \in Fds /\ registry[id[s]] = s

Known == Own /\ Entered

LEMMA KnownInit == Init => Known
<1> SUFFICES ASSUME Init PROVE Known
  OBVIOUS
<1>1. Own
  BY NoneAssumption DEF Init, Own, Open, InAdd, Sessions
<1>2. Entered
  BY DEF Init, Entered, Past, InWait
<1> QED BY <1>1, <1>2 DEF Known

\* A session that is put into m_sessions finds its key free.
LEMMA InsertKnown ==
  ASSUME Life, Known, mpc = "insert", Insert(sock[cur], cur)
  PROVE  /\ cur \in Sessions /\ sock[cur] \in Fds /\ registry[sock[cur]] = None
         /\ status[cur] = "connected" /\ ~InWait(cur) /\ ~InAdd(cur)
         /\ registry' = [registry EXCEPT ![sock[cur]] = cur]
         /\ registry \in [Fds -> Sessions \cup {None}]
<1>1. cur \in Sessions /\ sock[cur] \in Fds /\ status[cur] = "connected" /\ ~InWait(cur) /\ ~InAdd(cur)
  BY NoneIsNoSession DEF Life, TypeOK, Arriving, Placed, Open
<1>2. registry[sock[cur]] = None
  BY <1>1 DEF Known, Own
<1> QED BY <1>1, <1>2 DEF Insert, Life, TypeOK

\* What is known stays known when a step registers nobody anew.
LEMMA KnownSame ==
  ASSUME Life, Known, UNCHANGED <<addq, wait, cur, registry, epc, fresh, sock, id>>,
         \A s \in Sessions : Past(s)' => Past(s)
  PROVE  Known'
<1>1. Own'
  BY DEF Known, Own, Open, InAdd
<1>2. Entered'
  BY DEF Known, Entered, InWait
<1> QED BY <1>1, <1>2 DEF Known

\* The same for the insertion of cur, whether it waits or not.
LEMMA KnownInserted ==
  ASSUME Life, Known, mpc = "insert", Insert(sock[cur], cur), cur' = None,
         id' = [id EXCEPT ![cur] = sock[cur]],
         UNCHANGED <<addq, epc, fresh, sock>>,
         \A s \in Sessions : s # cur => (Past(s)' => Past(s)) /\ (InWait(s)' => InWait(s))
  PROVE  Known'
<1>1. /\ cur \in Sessions /\ sock[cur] \in Fds /\ registry[sock[cur]] = None
      /\ ~InAdd(cur)
      /\ registry' = [registry EXCEPT ![sock[cur]] = cur]
      /\ registry \in [Fds -> Sessions \cup {None}]
      /\ id \in [Sessions -> Fds \cup {0}]
  BY InsertKnown DEF Life, TypeOK
<1>2. Own'
  <2>1. \A s \in Sessions : InAdd(s)' => InAdd(s) /\ sock[s] \in Fds /\ sock[s] # sock[cur]
    BY <1>1, NoneAssumption DEF Life, Arriving, Open, Known, Own, InAdd, TypeOK
  <2>2. epc # "idle" => sock[cur] # fresh /\ fresh \in Fds
    BY <1>1 DEF Known, Own, Life, Created
  <2>3. ASSUME NEW s \in Sessions, InAdd(s)' \/ cur' = s PROVE registry'[sock'[s]] = None
    BY <1>1, <2>1, <2>3, NoneIsNoSession DEF Known, Own
  <2>4. epc' # "idle" => registry'[fresh'] = None /\ \A s \in Sessions : sock'[s] # fresh'
    BY <1>1, <2>2 DEF Known, Own
  <2>5. \A s, t \in Sessions : Open(s)' /\ sock'[s] = sock'[t] => s = t
    BY DEF Known, Own, Open
  <2> QED BY <2>3, <2>4, <2>5 DEF Own
<1>3. Entered'
  <2> SUFFICES ASSUME NEW s \in Sessions, Past(s)' \/ InWait(s)'
               PROVE  id'[s] \in Fds /\ registry'[id'[s]] = s
    BY DEF Entered
  <2>1. CASE s = cur
    BY <1>1, <2>1
  <2>2. CASE s # cur
    <3>1. id[s] \in Fds /\ registry[id[s]] = s
      BY <2>2 DEF Known, Entered
    <3>2. id[s] # sock[cur]
      BY <1>1, <3>1, NoneIsNoSession
    <3> QED BY <1>1, <2>2, <3>1, <3>2
  <2> QED BY <2>1, <2>2
<1> QED BY <1>2, <1>3 DEF Known

LEMMA KnownStep ==
  ASSUME "reuse" \notin Faults
  PROVE  Life /\ Known /\ [Next]_vars => Known'
<1> SUFFICES ASSUME Life, Known, [Next]_vars PROVE Known'
  OBVIOUS
<1>1. CASE UNCHANGED vars
  BY <1>1, KnownSame DEF vars, epoll, session, queues, main, Past
<1>2. ASSUME NEW f \in Fds, AcceptReads(f) PROVE Known'
  <2>1. /\ UNCHANGED <<addq, wait, cur, registry, sock, id, status>> /\ fresh' = f
        /\ registry[f] = None /\ \A s \in Sessions : sock[s] # f
    BY <1>2 DEF AcceptReads, Reusable, queues, main, session
  <2> QED BY <2>1 DEF Known, Own, Entered, Open, InAdd, InWait, Past
<1>3. ASSUME NEW f \in Fds, AcceptThrows(f) \/ HangUp(f) PROVE Known'
  BY <1>3, KnownSame DEF AcceptThrows, HangUp, epoll, session, queues, main, Past
<1>4. CASE AcceptDecides
  <2>1. /\ UNCHANGED <<wait, cur, registry, id>> /\ epc' = "idle" /\ epc # "idle"
        /\ conns \in Sessions /\ status[conns] = "none" /\ fresh \in Fds
        /\ addq \in Seq(Sessions)
        /\ status \in [Sessions -> Statuses] /\ sock \in [Sessions -> Fds \cup {None}]
        /\ registry[fresh] = None /\ \A s \in Sessions : sock[s] # fresh
    BY <1>4 DEF AcceptDecides, main, Life, TypeOK, Created, Known, Own
  <2>2. CASE ~Admitted
    <3>1. UNCHANGED <<addq, sock, status>>
      BY <1>4, <2>2 DEF AcceptDecides
    <3> QED BY <2>1, <3>1 DEF Known, Own, Entered, Open, InAdd, InWait, Past
  <2>3. CASE Admitted
    <3>1. /\ addq' = Append(addq, conns) /\ sock' = [sock EXCEPT ![conns] = fresh]
          /\ status' = [status EXCEPT ![conns] = "connected"]
      BY <1>4, <2>3 DEF AcceptDecides
    <3>2. \A s \in Sessions : InAdd(s)' <=> InAdd(s) \/ s = conns
      <4>1. /\ Len(addq') = Len(addq) + 1 /\ addq'[Len(addq) + 1] = conns
            /\ \A i \in 1..Len(addq) : addq'[i] = addq[i]
        BY <2>1, <3>1, AppendProperties
      <4>2. Len(addq) \in Nat
        BY <2>1
      <4> QED BY <4>1, <4>2 DEF InAdd
    <3>3. Own'
      <4>1. ASSUME NEW s \in Sessions, NEW t \in Sessions, Open(s)', sock'[s] = sock'[t]
            PROVE  s = t
        BY <2>1, <3>1, <4>1 DEF Known, Own, Open
      <4>2. ASSUME NEW s \in Sessions, InAdd(s)' \/ cur' = s PROVE registry'[sock'[s]] = None
        BY <2>1, <3>1, <3>2, <4>2 DEF Known, Own
      <4> QED BY <2>1, <4>1, <4>2 DEF Own
    <3>4. Entered'
      BY <2>1, <3>1 DEF Known, Entered, InWait, Past
    <3> QED BY <3>3, <3>4 DEF Known
  <2> QED BY <2>2, <2>3
<1>5. ASSUME NEW s \in Sessions, NetworkClose(s) PROVE Known'
  <2>1. /\ UNCHANGED <<addq, wait, cur, registry, id, status, epc, fresh>>
        /\ sock' = [sock EXCEPT ![s] = None] /\ sock \in [Sessions -> Fds \cup {None}]
        /\ ~InAdd(s) /\ cur # s /\ (epc # "idle" => fresh \in Fds)
    BY <1>5 DEF NetworkClose, epoll, queues, main, Life, Arriving, Placed, TypeOK, Created
  <2>2. Own'
    <3>1. ASSUME NEW t \in Sessions, NEW u \in Sessions, Open(t)', sock'[t] = sock'[u]
          PROVE  t = u
      BY <2>1, <3>1 DEF Known, Own, Open
    <3>2. ASSUME NEW t \in Sessions, InAdd(t)' \/ cur' = t PROVE registry'[sock'[t]] = None
      BY <2>1, <3>2 DEF Known, Own, InAdd
    <3>3. epc' # "idle" => registry'[fresh'] = None /\ \A t \in Sessions : sock'[t] # fresh'
      BY <2>1, NoneAssumption DEF Known, Own
    <3> QED BY <3>1, <3>2, <3>3 DEF Own
  <2>3. Entered'
    BY <2>1 DEF Known, Entered, InWait, Past
  <2> QED BY <2>2, <2>3 DEF Known
<1>6. CASE DrainTakes
  <2>1. /\ UNCHANGED <<wait, registry, sock, id, status, epc, fresh>>
        /\ addq \in Seq(Sessions) /\ addq # << >> /\ addq' = Tail(addq) /\ cur' = Head(addq)
    BY <1>6 DEF DrainTakes, epoll, session, Life, TypeOK
  <2>2. \A s \in Sessions : InAdd(s)' \/ cur' = s => InAdd(s)
    <3>1. /\ Len(addq') = Len(addq) - 1 /\ \A i \in 1..Len(addq') : addq'[i] = addq[i+1]
          /\ cur' = addq[1] /\ Len(addq) \in Nat /\ Len(addq) >= 1
      BY <2>1, HeadTailProperties
    <3>2. \A i \in 1..Len(addq') : i+1 \in 1..Len(addq)
      BY <3>1
    <3> QED BY <3>1, <3>2 DEF InAdd
  <2> QED BY <2>1, <2>2 DEF Known, Own, Entered, Open, InWait, Past
<1>7. CASE AddToWaitQueue
  <2>1. /\ mpc = "insert" /\ Insert(sock[cur], cur) /\ cur' = None
        /\ id' = [id EXCEPT ![cur] = sock[cur]] /\ wait' = Append(wait, cur)
        /\ UNCHANGED <<addq, epc, fresh, sock, status>>
        /\ wait \in Seq(Sessions) /\ cur \in Sessions
    BY <1>7 DEF AddToWaitQueue, epoll, Life, TypeOK
  <2>2. \A s \in Sessions : s # cur => (Past(s)' => Past(s)) /\ (InWait(s)' => InWait(s))
    <3>1. /\ Len(wait') = Len(wait) + 1 /\ wait'[Len(wait) + 1] = cur
          /\ \A i \in 1..Len(wait) : wait'[i] = wait[i]
      BY <2>1, AppendProperties
    <3>2. Len(wait) \in Nat
      BY <2>1
    <3> QED BY <2>1, <3>1, <3>2 DEF InWait, Past
  <2> QED BY <2>1, <2>2, KnownInserted
<1>8. CASE AddActive
  <2>1. /\ mpc = "insert" /\ Insert(sock[cur], cur) /\ cur' = None
        /\ id' = [id EXCEPT ![cur] = sock[cur]] /\ status' = LoginStarted({cur})
        /\ UNCHANGED <<addq, wait, epc, fresh, sock>>
    BY <1>8 DEF AddActive, epoll, queues
  <2>2. \A s \in Sessions : s # cur => (Past(s)' => Past(s)) /\ (InWait(s)' => InWait(s))
    BY <2>1 DEF InWait, Past, LoginStarted
  <2> QED BY <2>1, <2>2, KnownInserted
<1>9. CASE DrainEnds \/ VisitEnds \/ VisitThrows
  BY <1>9, KnownSame DEF DrainEnds, VisitEnds, VisitThrows, epoll, session, queues, Past
<1>10. CASE VisitKeeps
  <2>1. /\ UNCHANGED <<addq, wait, cur, registry, epc, fresh, sock, id>>
        /\ mpc = "visit" /\ todo # {}
        /\ \/ status' = status
           \/ status[Visited] = "login" /\ status' = [status EXCEPT ![Visited] = "authenticated"]
    BY <1>10 DEF VisitKeeps, epoll, queues, Visited
  <2>2. Visited \in Sessions /\ status \in [Sessions -> Statuses]
    BY <2>1, VisitedFacts DEF Life, TypeOK
  <2>3. \A s \in Sessions : Past(s)' => Past(s)
    BY <2>1, <2>2 DEF Past
  <2> QED BY <2>1, <2>3, KnownSame
<1>11. CASE VisitRemoves
  <2> PICK v : v = Visited
    OBVIOUS
  <2>1. /\ mpc = "visit" /\ v \in Sessions /\ Min(todo) \in Keys
        /\ sock' = [sock EXCEPT ![v] = None]
        /\ \A t \in Sessions : status'[t] = IF t = v THEN "gone"
                                            ELSE IF t \in Released(v) THEN "login" ELSE status[t]
        /\ registry' = [registry EXCEPT ![Min(todo)] = None]
        /\ \A t \in Sessions : InAdd(t)' <=> InAdd(t)
        /\ \A t \in Sessions : InWait(t)' <=> InWait(t) /\ t # v /\ t \notin Released(v)
        /\ UNCHANGED <<epc, fresh, id, cur>>
    BY <1>11, RemovalFacts
  <2>2. \A t \in Released(v) : InWait(t)
    BY <2>1, AfterFacts DEF Life
  <2>3. todo # {} /\ ~InAdd(v) /\ cur = None /\ v = registry[Min(todo)] /\ (epc # "idle" => fresh \in Fds)
    <3>1. todo # {}
      BY <1>11 DEF VisitRemoves
    <3> QED BY <2>1, <3>1, VisitedFacts DEF Visited, Life, Created
  <2>4. /\ registry \in [Fds -> Sessions \cup {None}] /\ sock \in [Sessions -> Fds \cup {None}]
        /\ Min(todo) \in Fds
    BY <2>1 DEF Life, TypeOK, Keys
  <2>5. \A f \in Fds : registry[f] = None => registry'[f] = None
    BY <2>1, <2>4
  <2>6. Own'
    <3>1. ASSUME NEW t \in Sessions, NEW u \in Sessions, Open(t)', sock'[t] = sock'[u]
          PROVE  t = u
      BY <2>1, <2>4, <3>1 DEF Known, Own, Open
    <3>2. ASSUME NEW t \in Sessions, InAdd(t)' \/ cur' = t PROVE registry'[sock'[t]] = None
      <4>1. InAdd(t) /\ t # v
        BY <2>1, <2>3, <3>2, NoneIsNoSession
      <4>2. sock[t] \in Fds /\ registry[sock[t]] = None
        BY <2>4, <4>1 DEF Known, Own, Life, Arriving, Open
      <4> QED BY <2>1, <2>4, <2>5, <4>1, <4>2
    <3>3. epc' # "idle" => registry'[fresh'] = None /\ \A t \in Sessions : sock'[t] # fresh'
      BY <2>1, <2>3, <2>4, <2>5, NoneAssumption DEF Known, Own
    <3> QED BY <3>1, <3>2, <3>3 DEF Own
  <2>7. Entered'
    <3> SUFFICES ASSUME NEW t \in Sessions, Past(t)' \/ InWait(t)'
                 PROVE  id'[t] \in Fds /\ registry'[id'[t]] = t
      BY DEF Entered
    <3>1. t # v
      BY <2>1 DEF Past
    <3>2. Past(t) \/ InWait(t)
      BY <2>1, <2>2, <3>1 DEF Past
    <3>3. id[t] \in Fds /\ registry[id[t]] = t
      BY <3>2 DEF Known, Entered
    <3>4. id[t] # Min(todo)
      BY <2>3, <3>1, <3>3
    <3> QED BY <2>1, <2>4, <3>3, <3>4
  <2> QED BY <2>6, <2>7 DEF Known
<1> QED BY <1>1, <1>2, <1>3, <1>4, <1>5, <1>6, <1>7, <1>8, <1>9, <1>10, <1>11 DEF Next, Epoll, Main

\* FindSession finds who has been let in and can be reached, provided that the kernel
\* does not hand out the descriptor of a session that is still registered.
THEOREM FoundByTheirId ==
  ASSUME "reuse" \notin Faults
  PROVE  Spec => []FoundById
<1>1. Known => FoundById
  BY DEF Known, Entered, Past, FoundById
<1> QED BY <1>1, LifeInit, LifeStep, KnownInit, KnownStep, PTL DEF Spec

-----------------------------------------------------------------------------
(* The limit of active sessions.                                            *)

\* m_sessions holds those who wait and those who are in, nobody else; and who waits
\* does so because all slots are taken.
Limited ==
    /\ Cardinality(Keys) = Len(wait) + Cardinality(Active)
    /\ ActiveLimit > 0 => Cardinality(Active) <= ActiveLimit
    /\ Len(wait) > 0 => Cardinality(Active) >= ActiveLimit

LEMMA ActiveFacts == IsFiniteSet(Active) /\ Cardinality(Active) \in Nat
<1>1. 1 \in Int /\ MaxConns \in Int
  BY LimitsAssumption
<1>2. IsFiniteSet(Sessions)
  BY <1>1, FS_Interval DEF Sessions
<1>3. Active \subseteq Sessions
  BY DEF Active
<1> QED BY <1>2, <1>3, FS_Subset, FS_CardinalityType

LEMMA ActiveIsPast == ASSUME Known PROVE Active = {s \in Sessions : Past(s)}
BY DEF Active, Past, Known, Entered, Registered

LEMMA LimitedSame ==
  ASSUME Known, Known', Limited, UNCHANGED <<wait, registry>>,
         \A s \in Sessions : Past(s)' <=> Past(s)
  PROVE  Limited'
<1>1. Active' = Active
  <2>1. Active = {s \in Sessions : Past(s)}
    BY ActiveIsPast
  <2>2. Active' = {s \in Sessions : Past(s)'}
    BY DEF Active, Past, Known, Entered, Registered
  <2> QED BY <2>1, <2>2
<1>2. Keys' = Keys
  BY DEF Keys
<1> QED BY <1>1, <1>2 DEF Limited

LEMMA LimitedStep == Life /\ Bounded /\ Known /\ Known' /\ Limited /\ [Next]_vars => Limited'
<1> SUFFICES ASSUME Life, Bounded, Known, Known', Limited, [Next]_vars PROVE Limited'
  OBVIOUS
<1>0. /\ Len(wait) \in Nat /\ ActiveLimit \in Nat
      /\ IsFiniteSet(Keys) /\ Cardinality(Keys) \in Nat
      /\ IsFiniteSet(Active) /\ Cardinality(Active) \in Nat
      /\ ActiveCount = Cardinality(Active)
  <2>1. /\ Len(wait) \in Nat /\ ActiveLimit \in Nat
        /\ IsFiniteSet(Keys) /\ Cardinality(Keys) \in Nat
        /\ ActiveCount = Cardinality(Keys) - Len(wait)
    BY KeysFacts, ActiveCountIs, LimitsAssumption DEF Life, TypeOK, Bounded
  <2> QED BY <2>1, ActiveFacts DEF Limited
<1>P. /\ Active = {s \in Sessions : Past(s)}
      /\ Active' = {s \in Sessions : Past(s)'}
  <2>1. Active' = {s \in Sessions : Past(s)'}
    BY DEF Active, Past, Known, Entered, Registered
  <2> QED BY <2>1, ActiveIsPast
<1>1. CASE UNCHANGED vars
  BY <1>1, LimitedSame DEF vars, session, queues, Past
<1>2. ASSUME NEW f \in Fds, AcceptReads(f) \/ AcceptThrows(f) \/ HangUp(f) PROVE Limited'
  BY <1>2, LimitedSame DEF AcceptReads, AcceptThrows, HangUp, session, queues, Past
<1>3. CASE AcceptDecides
  <2>1. \A s \in Sessions : Past(s)' <=> Past(s)
    <3>1. /\ conns \in Sessions /\ status[conns] = "none" /\ status \in [Sessions -> Statuses]
          /\ status' = status \/ status' = [status EXCEPT ![conns] = "connected"]
      BY <1>3 DEF AcceptDecides, Life, Created, TypeOK
    <3> QED BY <3>1 DEF Past
  <2> QED BY <1>3, <2>1, LimitedSame DEF AcceptDecides
<1>4. ASSUME NEW s \in Sessions, NetworkClose(s) PROVE Limited'
  BY <1>4, LimitedSame DEF NetworkClose, queues, Past
<1>5. CASE DrainTakes \/ DrainEnds \/ VisitEnds \/ VisitThrows
  BY <1>5, LimitedSame DEF DrainTakes, DrainEnds, VisitEnds, VisitThrows, session, queues, Past
<1>6. CASE AddToWaitQueue
  <2>1. /\ Insert(sock[cur], cur) /\ mpc = "insert" /\ ActiveLimit > 0 /\ ActiveCount >= ActiveLimit
        /\ wait' = Append(wait, cur) /\ wait \in Seq(Sessions) /\ status' = status
    BY <1>6 DEF AddToWaitQueue, Life, TypeOK
  <2>2. /\ cur \in Sessions /\ sock[cur] \in Fds /\ registry[sock[cur]] = None
        /\ registry' = [registry EXCEPT ![sock[cur]] = cur]
        /\ registry \in [Fds -> Sessions \cup {None}]
    BY <2>1, InsertKnown
  <2>3. Keys' = Keys \cup {sock[cur]} /\ sock[cur] \notin Keys
    BY <2>2, NoneIsNoSession DEF Keys
  <2>4. Cardinality(Keys') = Cardinality(Keys) + 1
    BY <1>0, <2>3, FS_AddElement
  <2>5. Len(wait') = Len(wait) + 1
    BY <2>1, <2>2, AppendProperties
  <2>6. Active' = Active
    BY <1>P, <2>1 DEF Past
  <2> QED BY <1>0, <2>1, <2>4, <2>5, <2>6 DEF Limited
<1>7. CASE AddActive
  <2>1. /\ Insert(sock[cur], cur) /\ mpc = "insert"
        /\ ActiveLimit = 0 \/ ActiveCount < ActiveLimit
        /\ wait' = wait /\ status' = LoginStarted({cur})
    BY <1>7 DEF AddActive, queues
  <2>2. /\ cur \in Sessions /\ sock[cur] \in Fds /\ registry[sock[cur]] = None
        /\ status[cur] = "connected"
        /\ registry' = [registry EXCEPT ![sock[cur]] = cur]
        /\ registry \in [Fds -> Sessions \cup {None}]
    BY <2>1, InsertKnown
  <2>3. Keys' = Keys \cup {sock[cur]} /\ sock[cur] \notin Keys
    BY <2>2, NoneIsNoSession DEF Keys
  <2>4. Cardinality(Keys') = Cardinality(Keys) + 1
    BY <1>0, <2>3, FS_AddElement
  <2>5. Active' = Active \cup {cur} /\ cur \notin Active
    BY <1>P, <2>1, <2>2 DEF Past, LoginStarted
  <2>6. Cardinality(Active') = Cardinality(Active) + 1
    BY <1>0, <2>5, FS_AddElement
  <2> QED BY <1>0, <2>1, <2>4, <2>6 DEF Limited
<1>8. CASE VisitKeeps
  <2>1. /\ UNCHANGED <<wait, registry>> /\ mpc = "visit" /\ todo # {}
        /\ \/ status' = status
           \/ status[Visited] = "login" /\ status' = [status EXCEPT ![Visited] = "authenticated"]
    BY <1>8 DEF VisitKeeps, queues, Visited
  <2>2. Visited \in Sessions /\ status \in [Sessions -> Statuses]
    BY <2>1, VisitedFacts DEF Life, TypeOK
  <2>3. \A s \in Sessions : Past(s)' <=> Past(s)
    BY <2>1, <2>2 DEF Past
  <2> QED BY <2>1, <2>3, LimitedSame
<1>9. CASE VisitRemoves
  <2> PICK v : v = Visited
    OBVIOUS
  <2>1. /\ mpc = "visit" /\ v \in Sessions /\ Min(todo) \in Keys
        /\ wait' = WaitAfter(v)
        /\ \A t \in Sessions : status'[t] = IF t = v THEN "gone"
                                            ELSE IF t \in Released(v) THEN "login" ELSE status[t]
        /\ registry' = [registry EXCEPT ![Min(todo)] = None]
    BY <1>9, RemovalFacts
  <2>2. todo # {} /\ ~InAdd(v) /\ cur = None /\ status[v] \notin {"none", "gone"} /\ status[v] \in Statuses
    <3>1. todo # {}
      BY <1>9 DEF VisitRemoves
    <3> QED BY <2>1, <3>1, VisitedFacts DEF Life, TypeOK
  <2>3. Past(v) <=> ~Found(v)
    <3>1. Found(v) <=> InWait(v)
      BY FoundWaits DEF Life
    <3>2. status[v] = "connected" <=> InWait(v)
      BY <2>1, <2>2, NoneIsNoSession DEF Life, Placed
    <3> QED BY <2>2, <3>1, <3>2 DEF Past, Statuses
  <2>4. Cardinality(Keys') = Cardinality(Keys) - 1
    <3>1. Keys' = Keys \ {Min(todo)}
      BY <2>1 DEF Keys, Life, TypeOK
    <3> QED BY <1>0, <2>1, <3>1, FS_RemoveElement
  <2>5. /\ Len(wait') = Len(wait) - (IF Found(v) THEN 1 ELSE 0) - (IF LetsIn(v) THEN 1 ELSE 0)
        /\ Len(wait') \in Nat
        /\ \A t \in Released(v) : t \in Sessions /\ InWait(t)
    <3>1. TypeOK /\ Placed
      BY DEF Life
    <3>2. /\ WaitAfter(v) \in Seq(Sessions)
          /\ Len(WaitAfter(v)) = Len(wait) - (IF Found(v) THEN 1 ELSE 0) - (IF LetsIn(v) THEN 1 ELSE 0)
          /\ \A t \in Released(v) : t \in Sessions /\ InWait(t)
      BY <2>1, <3>1, AfterFacts
    <3>3. Len(WaitAfter(v)) \in Nat
      BY <3>2, LenProperties
    <3> QED BY <2>1, <3>2, <3>3
  <2>6. \A t \in Released(v) : ~Past(t)
    BY <2>5 DEF Life, Placed, Past
  <2>7. Active' = (Active \ {v}) \cup (Released(v) \ {v})
    BY <1>P, <2>1, <2>5 DEF Past
  <2>8. /\ LetsIn(v) <=> /\ ActiveLimit = 0 \/ SessionsLeft(v) < ActiveLimit
                         /\ Len(Without(v)) > 0
        /\ Len(Without(v)) = IF Found(v) THEN Len(wait) - 1 ELSE Len(wait)
        /\ Len(Without(v)) \in Nat
        /\ LetsIn(v) => Head(Without(v)) \in Sessions /\ Head(Without(v)) # v
    <3>1. TypeOK /\ Placed
      BY DEF Life
    <3>2. /\ Without(v) \in Seq(Sessions)
          /\ Len(Without(v)) = IF Found(v) THEN Len(wait) - 1 ELSE Len(wait)
          /\ \A t \in Sessions : (\E i \in 1..Len(Without(v)) : Without(v)[i] = t)
                                 <=> InWait(t) /\ t # v
      BY <2>1, <3>1, WithoutFacts
    <3>3. /\ Len(Without(v)) \in Nat /\ (Without(v) # << >> <=> Len(Without(v)) > 0)
          /\ Without(v) # << >> => Head(Without(v)) = Without(v)[1] /\ Without(v)[1] \in Sessions
      BY <3>2
    <3> QED BY <3>2, <3>3 DEF LetsIn
  <2>9. SessionsLeft(v) = IF Found(v) \/ ActiveCount = 0 THEN ActiveCount ELSE ActiveCount - 1
    BY DEF SessionsLeft
  <2> DEFINE n == Cardinality(Active)
             h == Head(Without(v))
  <2>10. CASE Found(v)
    <3>1. v \notin Active /\ Active \ {v} = Active
      BY <1>P, <2>3, <2>10
    <3>2. SessionsLeft(v) = n /\ Len(Without(v)) = Len(wait) - 1 /\ Len(wait) > 0
      BY <1>0, <2>8, <2>9, <2>10
    <3>3. CASE LetsIn(v)
      <4>1. Active' = Active \cup {h} /\ h \notin Active
        BY <1>P, <2>6, <2>7, <2>8, <2>10, <3>1, <3>3 DEF Released
      <4>2. Cardinality(Active') = n + 1
        BY <1>0, <4>1, FS_AddElement
      <4>3. Len(wait') = Len(wait) - 1 - 1
        BY <2>5, <2>10, <3>3
      <4> QED BY <1>0, <2>4, <2>8, <3>2, <3>3, <4>2, <4>3 DEF Limited
    <3>4. CASE ~LetsIn(v)
      <4>1. Active' = Active
        BY <2>7, <2>10, <3>1, <3>4 DEF Released
      <4>2. Len(wait') = Len(wait) - 1
        BY <1>0, <2>5, <2>10, <3>4
      <4> QED BY <1>0, <2>4, <3>2, <4>1, <4>2 DEF Limited
    <3> QED BY <3>3, <3>4
  <2>11. CASE ~Found(v)
    <3>1. v \in Active
      BY <1>P, <2>1, <2>3, <2>11
    <3>2. IsFiniteSet(Active \ {v}) /\ Cardinality(Active \ {v}) = n - 1 /\ n > 0
      <4>1. IsFiniteSet(Active \ {v}) /\ Cardinality(Active \ {v}) = n - 1
        BY <1>0, <3>1, FS_RemoveElement
      <4>2. n # 0
        BY <1>0, <3>1, FS_EmptySet
      <4> QED BY <1>0, <4>1, <4>2
    <3>3. SessionsLeft(v) = n - 1 /\ Len(Without(v)) = Len(wait)
      BY <1>0, <2>8, <2>9, <2>11, <3>2
    <3>4. CASE LetsIn(v)
      <4>1. Active' = (Active \ {v}) \cup {h} /\ h \notin Active \ {v}
        BY <1>P, <2>6, <2>7, <2>8, <2>11, <3>4 DEF Released
      <4>2. Cardinality(Active') = n
        <5>1. Cardinality(Active') = (n - 1) + 1
          BY <3>2, <4>1, FS_AddElement
        <5> QED BY <1>0, <5>1
      <4>3. Len(wait') = Len(wait) - 1
        BY <1>0, <2>5, <2>11, <3>4
      <4> QED BY <1>0, <2>4, <2>5, <2>8, <3>3, <3>4, <4>2, <4>3, SMTT(60) DEF Limited
    <3>5. CASE ~LetsIn(v)
      <4>1. Active' = Active \ {v}
        BY <2>7, <2>11, <3>5 DEF Released
      <4>2. Len(wait') = Len(wait)
        BY <1>0, <2>5, <2>11, <3>5
      <4> QED BY <1>0, <2>4, <2>8, <3>2, <3>3, <3>5, <4>1, <4>2 DEF Limited
    <3> QED BY <3>4, <3>5
  <2> QED BY <2>10, <2>11
<1> QED BY <1>1, <1>2, <1>3, <1>4, <1>5, <1>6, <1>7, <1>8, <1>9 DEF Next, Epoll, Main

\* With such a kernel no more sessions than SessionActiveLimit are past the waiting
\* queue, and nobody waits while a slot is free.
THEOREM LimitsAreHeld ==
  ASSUME "reuse" \notin Faults
  PROVE  Spec => []LimitsHold
<1>1. Init => Limited
  <2> SUFFICES ASSUME Init PROVE Limited
    OBVIOUS
  <2>1. wait = << >> /\ Keys = {} /\ Active = {}
    BY DEF Init, Keys, Active
  <2>2. Len(wait) = 0 /\ Cardinality(Keys) = 0 /\ Cardinality(Active) = 0
    BY <2>1, FS_EmptySet
  <2> QED BY <2>2, LimitsAssumption DEF Limited
<1>2. Life /\ Limited => LimitsHold
  <2>1. wait \in Seq(Sessions) => (wait # << >> => Len(wait) > 0)
    OBVIOUS
  <2> QED BY <2>1 DEF Life, TypeOK, Limited, LimitsHold
<1>3. Life /\ Bounded /\ Known /\ Limited /\ [Next]_vars
         => (Life /\ Bounded /\ Known /\ Limited)'
  BY LifeStep, BoundedStep, KnownStep, LimitedStep
<1> QED BY <1>1, <1>2, <1>3, LifeInit, BoundedInit, KnownInit, PTL DEF Spec
=============================================================================
