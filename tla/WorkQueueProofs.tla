-------------------------- MODULE WorkQueueProofs --------------------------
(***************************************************************************)
(* Proofs about WorkQueue for any finite sets of producers and consumers   *)
(* and any number of requests: its types, the accounting of tokens, and    *)
(* that no consumer is ever handed NULL and no wake-up is lost.            *)
(***************************************************************************)
EXTENDS WorkQueue, FiniteSetTheorems, TLAPS

LEMMA TypeInit == Init => TypeOK
<1> SUFFICES ASSUME Init PROVE TypeOK
  OBVIOUS
<1> USE DEF Init, TypeOK, ProducerPC, ConsumerPC
<1>1. queue \in Seq(Request) /\ value \in Nat
  OBVIOUS
<1>2. /\ pc \in [Producers \cup Consumers -> ProducerPC \cup ConsumerPC]
      /\ \A p \in Producers : pc[p] \in ProducerPC
      /\ \A c \in Consumers : pc[c] \in ConsumerPC
  BY ThreadsAssumption
<1>3. made \in [Producers -> 0..MaxSubmits]
  BY MaxSubmitsAssumption
<1>4. held \in [Consumers -> Request \cup {Null}]
  OBVIOUS
<1> QED BY <1>1, <1>2, <1>3, <1>4

LEMMA TypeStep == TypeOK /\ [Next]_vars => TypeOK'
<1> SUFFICES ASSUME TypeOK, [Next]_vars PROVE TypeOK'
  OBVIOUS
<1> USE DEF TypeOK, ProducerPC, ConsumerPC, Goto
<1>1. ASSUME NEW p \in Producers, Add(p) PROVE TypeOK'
  <2>1. made[p] + 1 \in 1..MaxSubmits
    BY <1>1, MaxSubmitsAssumption DEF Add
  <2>2. <<p, made[p] + 1>> \in Request
    BY <2>1 DEF Request
  <2>3. queue' \in Seq(Request) /\ made' \in [Producers -> 0..MaxSubmits]
    BY <1>1, <2>1, <2>2, MaxSubmitsAssumption DEF Add
  <2> QED BY <1>1, <2>3, ThreadsAssumption DEF Add
<1>2. ASSUME NEW p \in Producers, Post(p) PROVE TypeOK'
  BY <1>2, ThreadsAssumption DEF Post
<1>3. ASSUME NEW p \in Producers, CondSignal(p) PROVE TypeOK'
  <2>1. CASE At(Consumers, "waiting") = {}
    BY <1>3, <2>1, ThreadsAssumption DEF CondSignal
  <2>2. CASE At(Consumers, "waiting") # {}
    <3>1. PICK c \in At(Consumers, "waiting") :
              pc' = [pc EXCEPT ![p] = "idle", ![c] = "woken"]
      BY <1>3, <2>2 DEF CondSignal
    <3>2. c \in Consumers
      BY <3>1 DEF At
    <3> QED BY <1>3, <3>1, <3>2, ThreadsAssumption DEF CondSignal
  <2> QED BY <2>1, <2>2
<1>4. ASSUME NEW c \in Consumers, Test(c) PROVE TypeOK'
  BY <1>4, ThreadsAssumption, SMTT(60) DEF Test
<1>5. ASSUME NEW c \in Consumers, SpuriousWakeup(c) PROVE TypeOK'
  BY <1>5, ThreadsAssumption DEF SpuriousWakeup
<1>6. ASSUME NEW c \in Consumers, TakeNext(c) PROVE TypeOK'
  <2>1. queue # << >> => Head(queue) \in Request /\ Tail(queue) \in Seq(Request)
    OBVIOUS
  <2>2. queue' \in Seq(Request) /\ held' \in [Consumers -> Request \cup {Null}]
    BY <1>6, <2>1 DEF TakeNext
  <2> QED BY <1>6, <2>2, ThreadsAssumption DEF TakeNext
<1>7. ASSUME NEW c \in Consumers, Return(c) PROVE TypeOK'
  BY <1>7, ThreadsAssumption DEF Return
<1>8. CASE UNCHANGED vars
  BY <1>8 DEF vars
<1> QED BY <1>1, <1>2, <1>3, <1>4, <1>5, <1>6, <1>7, <1>8 DEF Next, Produce, Consume

\* The variables of WorkQueue keep their types.
THEOREM Typing == Spec => []TypeOK
BY TypeInit, TypeStep, PTL DEF Spec
-----------------------------------------------------------------------------
\* The number of threads of S that f puts at location l.
Count(f, S, l) == Cardinality({t \in S : f[t] = l})

LEMMA CountType ==
  ASSUME NEW S, IsFiniteSet(S), NEW f, NEW l
  PROVE  /\ IsFiniteSet({t \in S : f[t] = l})
         /\ Count(f, S, l) \in Nat
         /\ (\E t \in S : f[t] = l) <=> Count(f, S, l) > 0
<1> DEFINE A == {t \in S : f[t] = l}
<1>1. IsFiniteSet(A)
  BY FS_Subset
<1>2. Cardinality(A) \in Nat /\ (Cardinality(A) = 0 <=> A = {})
  BY <1>1, FS_EmptySet, FS_CardinalityType
<1> QED BY <1>1, <1>2 DEF Count

\* From f to g thread t of S moves from l to m, all others of S stay.
Moves(f, g, S, t, l, m) ==
    t \in S /\ l # m /\ f[t] = l /\ g[t] = m /\ \A u \in S \ {t} : g[u] = f[u]

LEMMA CountMove ==
  ASSUME NEW S, IsFiniteSet(S), NEW f, NEW g, NEW t, NEW l, NEW m,
         Moves(f, g, S, t, l, m)
  PROVE  /\ Count(g, S, l) = Count(f, S, l) - 1
         /\ Count(g, S, m) = Count(f, S, m) + 1
         /\ \A k : k # l /\ k # m => Count(g, S, k) = Count(f, S, k)
<1> DEFINE A(h, k) == {u \in S : h[u] = k}
<1>1. IsFiniteSet(A(f, l)) /\ IsFiniteSet(A(f, m))
  <2>1. A(f, l) \subseteq S /\ A(f, m) \subseteq S
    OBVIOUS
  <2> QED BY <2>1, FS_Subset
<1>2. A(g, l) = A(f, l) \ {t} /\ t \in A(f, l)
  BY DEF Moves
<1>3. A(g, m) = A(f, m) \cup {t} /\ t \notin A(f, m)
  BY DEF Moves
<1>4. \A k : k # l /\ k # m => A(g, k) = A(f, k)
  BY DEF Moves
<1>5. Cardinality(A(f, l) \ {t}) = Cardinality(A(f, l)) - 1
  BY <1>1, <1>2, FS_RemoveElement
<1>6. Cardinality(A(f, m) \cup {t}) = Cardinality(A(f, m)) + 1
  BY <1>1, <1>3, FS_AddElement
<1> QED BY <1>2, <1>3, <1>4, <1>5, <1>6 DEF Count

LEMMA CountNone ==
  ASSUME NEW S, NEW f, NEW l, \A t \in S : f[t] # l
  PROVE  Count(f, S, l) = 0
<1>1. {t \in S : f[t] = l} = {}
  OBVIOUS
<1> QED BY <1>1, FS_EmptySet DEF Count

LEMMA CountSame ==
  ASSUME NEW S, NEW f, NEW g, \A u \in S : g[u] = f[u], NEW k
  PROVE  Count(g, S, k) = Count(f, S, k)
<1>1. {t \in S : g[t] = k} = {t \in S : f[t] = k}
  OBVIOUS
<1> QED BY <1>1 DEF Count

-----------------------------------------------------------------------------
(* The inductive invariant: the accounting of tokens, the accounting of the *)
(* wake-ups, and that every token was good for a request.                   *)

\* While a consumer sleeps each token is matched by a wake-up on its way.
WakeAccounting ==
    Count(pc, Consumers, "waiting") > 0 =>
       value <= Count(pc, Producers, "posted") + Count(pc, Consumers, "woken")

\* A consumer holds a request exactly while it executes it.
HeldInCall == \A c \in Consumers : pc[c] = "call" <=> held[c] # Null

IInv == TypeOK /\ TokenAccounting /\ WakeAccounting /\ HeldInCall

LEMMA CountsTyped ==
  /\ \A l : Count(pc, Producers, l) \in Nat /\ Count(pc', Producers, l) \in Nat
  /\ \A l : Count(pc, Consumers, l) \in Nat /\ Count(pc', Consumers, l) \in Nat
BY CountType, ThreadsAssumption

\* The accounting of tokens in terms of the counts.
LEMMA Tokens ==
  /\ TokenAccounting <=> Len(queue) = value + Count(pc, Consumers, "token")
                                            + Count(pc, Producers, "added")
  /\ TokenAccounting' <=> Len(queue') = value' + Count(pc', Consumers, "token")
                                              + Count(pc', Producers, "added")
BY DEF TokenAccounting, Count, At

LEMMA Initially == Init => IInv
<1> SUFFICES ASSUME Init PROVE IInv
  OBVIOUS
<1>1. TypeOK
  BY TypeInit
<1>2. /\ \A c \in Consumers : pc[c] # "token" /\ pc[c] # "waiting"
      /\ \A p \in Producers : pc[p] # "added"
  BY ThreadsAssumption DEF Init
<1>3. /\ Count(pc, Consumers, "token") = 0
      /\ Count(pc, Consumers, "waiting") = 0
      /\ Count(pc, Producers, "added") = 0
  BY <1>2, CountNone
<1>4. TokenAccounting
  <2>1. Len(queue) = 0 /\ value = 0
    BY DEF Init
  <2> QED BY <1>3, <2>1, Tokens
<1>5. WakeAccounting
  BY <1>3 DEF WakeAccounting
<1>6. HeldInCall
  BY ThreadsAssumption DEF HeldInCall, Init
<1> QED BY <1>1, <1>4, <1>5, <1>6 DEF IInv

\* What a step of a producer does to the counts.
LEMMA ProducerMove ==
  ASSUME TypeOK, NEW p \in Producers, NEW l, NEW m, pc[p] = l, Goto(p, m), l # m
  PROVE  /\ Count(pc', Producers, l) = Count(pc, Producers, l) - 1
         /\ Count(pc', Producers, m) = Count(pc, Producers, m) + 1
         /\ \A k : k # l /\ k # m => Count(pc', Producers, k) = Count(pc, Producers, k)
         /\ \A k : Count(pc', Consumers, k) = Count(pc, Consumers, k)
<1>1. pc'[p] = m /\ \A u \in (Producers \cup Consumers) \ {p} : pc'[u] = pc[u]
  BY DEF Goto, TypeOK
<1>2. /\ \A u \in Consumers : pc'[u] = pc[u]
      /\ \A u \in Producers \ {p} : pc'[u] = pc[u]
  BY <1>1, ThreadsAssumption
<1>3. \A k : Count(pc', Consumers, k) = Count(pc, Consumers, k)
  BY <1>2, CountSame
<1>4. IsFiniteSet(Producers)
  BY ThreadsAssumption
<1>5. /\ Count(pc', Producers, l) = Count(pc, Producers, l) - 1
      /\ Count(pc', Producers, m) = Count(pc, Producers, m) + 1
      /\ \A k : k # l /\ k # m => Count(pc', Producers, k) = Count(pc, Producers, k)
  <2>1. Moves(pc, pc', Producers, p, l, m)
    BY <1>1, <1>2 DEF Moves
  <2> QED BY <2>1, <1>4, CountMove
<1> QED BY <1>3, <1>5

\* What a step of a consumer does to the counts.
LEMMA ConsumerMove ==
  ASSUME TypeOK, NEW c \in Consumers, NEW l, NEW m, pc[c] = l, Goto(c, m), l # m
  PROVE  /\ Count(pc', Consumers, l) = Count(pc, Consumers, l) - 1
         /\ Count(pc, Consumers, l) > 0
         /\ Count(pc', Consumers, m) = Count(pc, Consumers, m) + 1
         /\ \A k : k # l /\ k # m => Count(pc', Consumers, k) = Count(pc, Consumers, k)
         /\ \A k : Count(pc', Producers, k) = Count(pc, Producers, k)
<1>1. pc'[c] = m /\ \A u \in (Producers \cup Consumers) \ {c} : pc'[u] = pc[u]
  BY DEF Goto, TypeOK
<1>2. /\ \A u \in Producers : pc'[u] = pc[u]
      /\ \A u \in Consumers \ {c} : pc'[u] = pc[u]
  BY <1>1, ThreadsAssumption
<1>3. \A k : Count(pc', Producers, k) = Count(pc, Producers, k)
  BY <1>2, CountSame
<1>4. Count(pc, Consumers, l) > 0
  BY CountType, ThreadsAssumption
<1>5. IsFiniteSet(Consumers)
  BY ThreadsAssumption
<1>6. /\ Count(pc', Consumers, l) = Count(pc, Consumers, l) - 1
      /\ Count(pc', Consumers, m) = Count(pc, Consumers, m) + 1
      /\ \A k : k # l /\ k # m => Count(pc', Consumers, k) = Count(pc, Consumers, k)
  <2>1. Moves(pc, pc', Consumers, c, l, m)
    BY <1>1, <1>2 DEF Moves
  <2> QED BY <2>1, <1>5, CountMove
<1> QED BY <1>3, <1>4, <1>6

LEMMA Inductive == IInv /\ [Next]_vars => IInv'
<1> SUFFICES ASSUME IInv, [Next]_vars PROVE IInv'
  OBVIOUS
<1>0. TypeOK /\ TokenAccounting /\ WakeAccounting /\ HeldInCall /\ TypeOK' /\ value \in Nat
  BY TypeStep DEF IInv, TypeOK
<1> USE CountsTyped, Tokens
<1>1. ASSUME NEW p \in Producers, Add(p) PROVE IInv'
  <2>0. pc[p] = "idle" /\ Goto(p, "added")
    BY <1>1 DEF Add
  <2>1. /\ \A k : k # "idle" /\ k # "added" => Count(pc', Producers, k) = Count(pc, Producers, k)
        /\ Count(pc', Producers, "added") = Count(pc, Producers, "added") + 1
        /\ \A k : Count(pc', Consumers, k) = Count(pc, Consumers, k)
    BY <1>0, <2>0, ProducerMove
  <2>2. Len(queue') = Len(queue) + 1
    BY <1>0, <1>1 DEF Add, TypeOK
  <2>3. TokenAccounting'
    BY <1>0, <1>1, <2>1, <2>2, SMTT(60) DEF Add, TypeOK
  <2>4. WakeAccounting'
    BY <1>0, <1>1, <2>1 DEF Add, WakeAccounting
  <2>5. HeldInCall'
    BY <1>0, <1>1, ThreadsAssumption DEF Add, HeldInCall, TypeOK, Goto
  <2> QED BY <1>0, <2>3, <2>4, <2>5 DEF IInv
<1>2. ASSUME NEW p \in Producers, Post(p) PROVE IInv'
  <2>0. pc[p] = "added" /\ Goto(p, "posted")
    BY <1>2 DEF Post
  <2>1. /\ Count(pc', Producers, "added") = Count(pc, Producers, "added") - 1
        /\ Count(pc', Producers, "posted") = Count(pc, Producers, "posted") + 1
        /\ \A k : Count(pc', Consumers, k) = Count(pc, Consumers, k)
    BY <1>0, <2>0, ProducerMove
  <2>2. TokenAccounting'
    BY <1>0, <1>2, <2>1, SMTT(60) DEF Post, TypeOK
  <2>3. WakeAccounting'
    BY <1>0, <1>2, <2>1, SMTT(60) DEF Post, WakeAccounting
  <2>4. HeldInCall'
    BY <1>0, <1>2, ThreadsAssumption DEF Post, HeldInCall, TypeOK, Goto
  <2> QED BY <1>0, <2>2, <2>3, <2>4 DEF IInv
<1>3. ASSUME NEW p \in Producers, CondSignal(p) PROVE IInv'
  <2>1. CASE At(Consumers, "waiting") = {}
    <3>1. /\ \A k : k # "posted" /\ k # "idle" => Count(pc', Producers, k) = Count(pc, Producers, k)
          /\ \A k : Count(pc', Consumers, k) = Count(pc, Consumers, k)
      BY <1>0, <1>3, <2>1, ProducerMove, SMTT(60) DEF CondSignal
    <3>2. Count(pc, Consumers, "waiting") = 0
      <4>1. \A c \in Consumers : pc[c] # "waiting"
        BY <2>1 DEF At
      <4> QED BY <4>1, CountNone
    <3>3. TokenAccounting' /\ WakeAccounting'
      BY <1>0, <1>3, <3>1, <3>2, SMTT(60) DEF CondSignal, WakeAccounting
    <3>4. HeldInCall'
      BY <1>0, <1>3, <2>1, ThreadsAssumption DEF CondSignal, HeldInCall, TypeOK, Goto
    <3> QED BY <1>0, <3>3, <3>4 DEF IInv
  <2>2. CASE At(Consumers, "waiting") # {}
    <3>1. PICK c \in At(Consumers, "waiting") :
              pc' = [pc EXCEPT ![p] = "idle", ![c] = "woken"]
      BY <1>3, <2>2 DEF CondSignal
    <3>2. c \in Consumers /\ pc[c] = "waiting" /\ c # p /\ pc[p] = "posted"
      BY <1>3, <3>1, ThreadsAssumption DEF At, CondSignal
    <3>3. /\ pc'[p] = "idle" /\ \A u \in Producers \ {p} : pc'[u] = pc[u]
          /\ pc'[c] = "woken" /\ \A u \in Consumers \ {c} : pc'[u] = pc[u]
      BY <1>0, <3>1, <3>2, ThreadsAssumption DEF TypeOK
    <3>4. /\ Count(pc', Producers, "posted") = Count(pc, Producers, "posted") - 1
          /\ Count(pc', Producers, "added") = Count(pc, Producers, "added")
      <4>1. Moves(pc, pc', Producers, p, "posted", "idle")
        BY <3>2, <3>3 DEF Moves
      <4> QED BY <4>1, CountMove, ThreadsAssumption
    <3>5. /\ Count(pc', Consumers, "woken") = Count(pc, Consumers, "woken") + 1
          /\ Count(pc', Consumers, "token") = Count(pc, Consumers, "token")
          /\ Count(pc, Consumers, "waiting") > 0
      <4>1. Moves(pc, pc', Consumers, c, "waiting", "woken")
        BY <3>2, <3>3 DEF Moves
      <4>2. \E u \in Consumers : pc[u] = "waiting"
        BY <3>2
      <4>3. Count(pc, Consumers, "waiting") > 0
        BY <4>2, CountType, ThreadsAssumption
      <4> QED BY <4>1, <4>3, CountMove, ThreadsAssumption
    <3>6. TokenAccounting' /\ WakeAccounting'
      BY <1>0, <1>3, <3>4, <3>5 DEF CondSignal, WakeAccounting, TypeOK
    <3>7. HeldInCall'
      BY <1>0, <1>3, <3>2, <3>3 DEF CondSignal, HeldInCall
    <3> QED BY <1>0, <3>6, <3>7 DEF IInv
  <2> QED BY <2>1, <2>2
<1>4. ASSUME NEW c \in Consumers, Test(c) PROVE IInv'
  <2>1. CASE value <= 0
    <3>1. \A k : Count(pc', Producers, k) = Count(pc, Producers, k)
      BY <1>0, <1>4, <2>1, ConsumerMove DEF Test
    <3>2. Count(pc', Consumers, "token") = Count(pc, Consumers, "token")
      BY <1>0, <1>4, <2>1, ConsumerMove, SMTT(60) DEF Test
    <3>3. TokenAccounting'
      BY <1>0, <1>4, <2>1, <3>1, <3>2 DEF Test
    <3>4. value' <= 0
      BY <1>4, <2>1 DEF Test
    <3>5. WakeAccounting'
      BY <1>0, <3>4, SMTT(60) DEF WakeAccounting, TypeOK
    <3>6. HeldInCall'
      BY <1>0, <1>4, <2>1 DEF Test, HeldInCall, TypeOK, Goto
    <3> QED BY <1>0, <3>3, <3>5, <3>6 DEF IInv
  <2>2. CASE ~(value <= 0)
    <3>1. Goto(c, "token") /\ value' = value - 1 /\ queue' = queue /\ held' = held
      BY <1>4, <2>2 DEF Test
    <3>2. ASSUME pc[c] = "ready" PROVE TokenAccounting' /\ WakeAccounting'
      <4>1. /\ \A k : Count(pc', Producers, k) = Count(pc, Producers, k)
            /\ Count(pc', Consumers, "token") = Count(pc, Consumers, "token") + 1
            /\ \A k : k # "ready" /\ k # "token" =>
                        Count(pc', Consumers, k) = Count(pc, Consumers, k)
        BY <1>0, <3>1, <3>2, ConsumerMove, SMTT(60)
      <4>2. TokenAccounting'
        BY <1>0, <3>1, <4>1
      <4>3. /\ Count(pc', Consumers, "waiting") = Count(pc, Consumers, "waiting")
            /\ Count(pc', Producers, "posted") = Count(pc, Producers, "posted")
            /\ Count(pc', Consumers, "woken") \in
                 {Count(pc, Consumers, "woken"), Count(pc, Consumers, "woken") - 1}
        BY <4>1
      <4>4. WakeAccounting'
        BY <1>0, <3>1, <4>3, SMTT(60) DEF WakeAccounting
      <4> QED BY <4>2, <4>4
    <3>3. ASSUME pc[c] = "woken" PROVE TokenAccounting' /\ WakeAccounting'
      <4>1. /\ \A k : Count(pc', Producers, k) = Count(pc, Producers, k)
            /\ Count(pc', Consumers, "token") = Count(pc, Consumers, "token") + 1
            /\ Count(pc', Consumers, "woken") = Count(pc, Consumers, "woken") - 1
            /\ \A k : k # "woken" /\ k # "token" =>
                        Count(pc', Consumers, k) = Count(pc, Consumers, k)
        BY <1>0, <3>1, <3>3, ConsumerMove, SMTT(60)
      <4>2. TokenAccounting'
        BY <1>0, <3>1, <4>1, SMTT(60)
      <4>3. /\ Count(pc', Consumers, "waiting") = Count(pc, Consumers, "waiting")
            /\ Count(pc', Producers, "posted") = Count(pc, Producers, "posted")
            /\ Count(pc', Consumers, "woken") \in
                 {Count(pc, Consumers, "woken"), Count(pc, Consumers, "woken") - 1}
        BY <4>1
      <4>4. WakeAccounting'
        BY <1>0, <3>1, <4>3, SMTT(60) DEF WakeAccounting
      <4> QED BY <4>2, <4>4
    <3>4. HeldInCall'
      BY <1>0, <1>4, <3>1 DEF HeldInCall, TypeOK, Goto, Test
    <3> QED BY <1>0, <1>4, <3>2, <3>3, <3>4 DEF IInv, Test
  <2> QED BY <2>1, <2>2
<1>5. ASSUME NEW c \in Consumers, SpuriousWakeup(c) PROVE IInv'
  <2>0. pc[c] = "waiting" /\ Goto(c, "woken")
    BY <1>5 DEF SpuriousWakeup
  <2>1. /\ \A k : Count(pc', Producers, k) = Count(pc, Producers, k)
        /\ Count(pc', Consumers, "token") = Count(pc, Consumers, "token")
        /\ Count(pc, Consumers, "waiting") > 0
        /\ Count(pc', Consumers, "woken") = Count(pc, Consumers, "woken") + 1
    BY <1>0, <2>0, ConsumerMove, SMTT(60)
  <2>2. TokenAccounting' /\ WakeAccounting'
    BY <1>0, <1>5, <2>1 DEF SpuriousWakeup, WakeAccounting, TypeOK
  <2>3. HeldInCall'
    BY <1>0, <1>5 DEF SpuriousWakeup, HeldInCall, TypeOK, Goto
  <2> QED BY <1>0, <2>2, <2>3 DEF IInv
<1>6. ASSUME NEW c \in Consumers, TakeNext(c) PROVE IInv'
  <2>0. pc[c] = "token" /\ Goto(c, "call")
    BY <1>6 DEF TakeNext
  <2>1. /\ \A k : Count(pc', Producers, k) = Count(pc, Producers, k)
        /\ Count(pc, Consumers, "token") > 0
        /\ Count(pc', Consumers, "token") = Count(pc, Consumers, "token") - 1
        /\ Count(pc', Consumers, "waiting") = Count(pc, Consumers, "waiting")
        /\ Count(pc', Consumers, "woken") = Count(pc, Consumers, "woken")
    <3>1. /\ \A k : Count(pc', Producers, k) = Count(pc, Producers, k)
          /\ Count(pc', Consumers, "token") = Count(pc, Consumers, "token") - 1
          /\ \A k : k # "token" /\ k # "call" =>
                      Count(pc', Consumers, k) = Count(pc, Consumers, k)
      BY <1>0, <2>0, ConsumerMove, SMTT(60)
    <3>2. Count(pc, Consumers, "token") > 0
      BY <1>0, <3>1
    <3> QED BY <3>1, <3>2
  \* The token this consumer took was good for a request.
  <2>2. Len(queue) > 0
    BY <1>0, <2>1 DEF TypeOK
  <2>3. queue # << >> /\ Head(queue) \in Request /\ Len(Tail(queue)) = Len(queue) - 1
    BY <1>0, <2>2 DEF TypeOK
  <2>4. TokenAccounting'
    BY <1>0, <1>6, <2>1, <2>3, SMTT(60) DEF TakeNext, TypeOK
  <2>5. WakeAccounting'
    BY <1>0, <1>6, <2>1 DEF TakeNext, WakeAccounting
  <2>6. HeldInCall'
    BY <1>0, <1>6, <2>3, NullAssumption DEF TakeNext, HeldInCall, TypeOK, Goto
  <2> QED BY <1>0, <2>4, <2>5, <2>6 DEF IInv
<1>7. ASSUME NEW c \in Consumers, Return(c) PROVE IInv'
  <2>0. pc[c] = "call" /\ Goto(c, "ready")
    BY <1>7 DEF Return
  <2>1. /\ \A k : Count(pc', Producers, k) = Count(pc, Producers, k)
        /\ \A k : k # "call" /\ k # "ready" => Count(pc', Consumers, k) = Count(pc, Consumers, k)
    BY <1>0, <2>0, ConsumerMove, SMTT(60)
  <2>2. TokenAccounting' /\ WakeAccounting'
    BY <1>0, <1>7, <2>1 DEF Return, WakeAccounting
  <2>3. HeldInCall'
    BY <1>0, <1>7 DEF Return, HeldInCall, TypeOK, Goto
  <2> QED BY <1>0, <2>2, <2>3 DEF IInv
<1>8. CASE UNCHANGED vars
  <2>1. /\ \A k : Count(pc', Producers, k) = Count(pc, Producers, k)
        /\ \A k : Count(pc', Consumers, k) = Count(pc, Consumers, k)
    BY <1>8, CountSame DEF vars
  <2> QED BY <1>0, <1>8, <2>1 DEF vars, IInv, WakeAccounting, HeldInCall
<1> QED BY <1>1, <1>2, <1>3, <1>4, <1>5, <1>6, <1>7, <1>8 DEF Next, Produce, Consume

LEMMA Invariance == Spec => []IInv
BY Initially, Inductive, PTL DEF Spec

\* Every queued request is matched by exactly one token, whether it lies in the
\* semaphore or is on its way into or out of it.
THEOREM TokensMatchRequests == Spec => []TokenAccounting
<1>1. IInv => TokenAccounting
  BY DEF IInv
<1> QED BY <1>1, Invariance, PTL

\* GetNextMethod and GetNextSession never return NULL to a worker.
THEOREM NoNullRequest == Spec => []NeverNull
<1>1. IInv => NeverNull
  BY DEF IInv, HeldInCall, NeverNull
<1> QED BY <1>1, Invariance, PTL

\* Signalling after the mutex is released loses no wake-up.
THEOREM NoWakeupLost == Spec => []NoLostWakeup
<1>1. IInv => NoLostWakeup
  <2> SUFFICES ASSUME IInv, At(Consumers, "waiting") # {}
               PROVE  value <= Count(pc, Producers, "posted") + Count(pc, Consumers, "woken")
    BY DEF NoLostWakeup, Count, At
  <2>1. Count(pc, Consumers, "waiting") > 0
    BY CountType, ThreadsAssumption DEF At
  <2> QED BY <2>1 DEF IInv, WakeAccounting
<1> QED BY <1>1, Invariance, PTL
-----------------------------------------------------------------------------
(* WorkQueue implements BlockingFifo, safety part: every step is a step of  *)
(* the abstract queue or leaves it unchanged.                               *)

LEMMA FifoInit == Init => Fifo!Init
BY DEF Init, Fifo!Init

LEMMA FifoStep == IInv /\ [Next]_vars => [Fifo!Next]_(Fifo!vars)
<1> SUFFICES ASSUME IInv, [Next]_vars PROVE Fifo!Next \/ UNCHANGED <<queue, held>>
  BY DEF Fifo!vars
<1> USE DEF IInv
<1>1. ASSUME NEW p \in Producers, Add(p) PROVE Fifo!Next
  <2>1. made[p] + 1 \in 1..MaxSubmits
    BY <1>1, MaxSubmitsAssumption DEF Add, TypeOK
  <2>2. <<p, made[p] + 1>> \in Request
    BY <2>1 DEF Request
  <2>3. Fifo!Submit(<<p, made[p] + 1>>)
    BY <1>1 DEF Add, Fifo!Submit
  <2> QED BY <2>2, <2>3 DEF Fifo!Next
<1>2. ASSUME NEW p \in Producers, Post(p) \/ CondSignal(p) PROVE UNCHANGED <<queue, held>>
  BY <1>2 DEF Post, CondSignal
<1>3. ASSUME NEW c \in Consumers, Test(c) \/ SpuriousWakeup(c)
      PROVE  UNCHANGED <<queue, held>>
  BY <1>3 DEF Test, SpuriousWakeup
<1>4. ASSUME NEW c \in Consumers, TakeNext(c) PROVE Fifo!Next
  <2>1. Count(pc, Consumers, "token") > 0
    BY <1>4, CountType, ThreadsAssumption DEF TakeNext
  <2>2. queue # << >>
    <3>1. Len(queue) > 0
      BY <2>1, Tokens, CountsTyped DEF TypeOK
    <3> QED BY <3>1
  <2>3. held[c] = Null
    BY <1>4 DEF TakeNext, HeldInCall
  <2>4. Fifo!Take(c)
    BY <1>4, <2>2, <2>3 DEF TakeNext, Fifo!Take
  <2> QED BY <2>4 DEF Fifo!Next, Fifo!TakeSome
<1>5. ASSUME NEW c \in Consumers, Return(c) PROVE Fifo!Next
  <2>1. held[c] # Null
    BY <1>5 DEF Return, HeldInCall
  <2>2. Fifo!Finish(c)
    BY <1>5, <2>1 DEF Return, Fifo!Finish
  <2> QED BY <2>2 DEF Fifo!Next
<1>6. CASE UNCHANGED vars
  BY <1>6 DEF vars
<1> QED BY <1>1, <1>2, <1>3, <1>4, <1>5, <1>6 DEF Next, Produce, Consume

\* The queue of LockQueue and Semaphore is a blocking first-in first-out queue
\* (its liveness is left to the model checker).
THEOREM Implementation == Spec => Fifo!Safety
BY FifoInit, FifoStep, Invariance, PTL DEF Spec, Fifo!Safety
=============================================================================
